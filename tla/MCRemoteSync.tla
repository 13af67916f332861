---------------------------- MODULE MCRemoteSync ----------------------------
(***************************************************************************)
(* Apps and retention counts for RemoteSync.  The name of `notes` spells   *)
(* "weekly", as that of my-weekly-notes does.                              *)
(***************************************************************************)
EXTENDS RemoteSync

CONSTANTS db, notes

MCSpellsAs == [a \in Apps |-> IF a = notes THEN {"weekly"} ELSE {}]
KeepOne == [s \in Schedules |-> 1]
KeepMore == [s \in Schedules |-> IF s = "daily" THEN 2 ELSE 1]
=============================================================================
