--------------------------- MODULE MCCoordinator ---------------------------
(***************************************************************************)
(* Days of two hours for Coordinator.  The daily schedule is due every     *)
(* day, the weekly one on day 1; both are due in the same hour then.       *)
(***************************************************************************)
EXTENDS Coordinator

MCRank == [s \in Schedules |-> IF s = "daily" THEN 1 ELSE 2]
MCDueDays == [s \in Schedules |-> IF s = "daily" THEN Days ELSE {1}]
=============================================================================
