----------------------------- MODULE MCRestore -----------------------------
(***************************************************************************)
(* A host for Restore: `git` is installed from two stores and has archives *)
(* of both, the newer one in the store whose name comes first; its latest  *)
(* archive lacks user-config.  `db` has a restore_command set by a label;  *)
(* of its two archives the greater file name carries the older date.       *)
(* `new` has no backup.                                                    *)
(***************************************************************************)
EXTENDS Restore

MCRefs == {<<"git", "main">>, <<"git", "own">>, <<"db", "main">>, <<"new", "main">>}

MCStoreRank == [s \in {"main", "own"} |-> IF s = "main" THEN 1 ELSE 2]
MCScheduleRank == [s \in {"daily", "weekly"} |-> IF s = "daily" THEN 1 ELSE 2]

Made(app, store, date, schedule) ==
    [app |-> app, store |-> store, date |-> date, schedule |-> schedule]

MCArchives ==
    {Made("git", "main", 2, "daily"), Made("git", "own", 1, "daily"),
     Made("db", "main", 1, "weekly"), Made("db", "main", 2, "daily")}

MCHolds == [x \in Archives |->
    IF x.store = "own" THEN {"app", "app-data"} ELSE DirNames]

ExactNames == [r \in Refs |-> {r}]

MCLabels == [r \in Refs |->
    IF r[1] = "db" THEN [NoOverrides EXCEPT !["restore_command"] = "import"]
    ELSE NoOverrides]

MCConfig == [r \in Refs |-> NoOverrides]
=============================================================================
