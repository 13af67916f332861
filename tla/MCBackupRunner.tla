--------------------------- MODULE MCBackupRunner ---------------------------
(***************************************************************************)
(* A host with two apps for BackupRunner: `db`, with hooks set by its      *)
(* docker labels, and `web`, which is simply stopped; in the fault runs    *)
(* `companion`, whose labels ask for it to be stopped and whose entry in   *)
(* config.yaml says to keep it running, takes the place of `web`.          *)
(***************************************************************************)
EXTENDS BackupRunner

CONSTANTS db, web, companion

Label(keep, pre, post) ==
    [NoOverrides EXCEPT !["keep_running"] = keep,
                        !["pre_backup_command"] = pre,
                        !["post_backup_command"] = post]

MCLabels == [a \in Apps |->
    CASE a = db        -> Label(Unset, "checkpoint", "release")
      [] a = companion -> Label("false", Unset, Unset)
      [] OTHER         -> NoOverrides]

MCConfig == [a \in Apps |->
    IF a = companion THEN Label(TRUE, Unset, Unset) ELSE NoOverrides]

MCRank == [a \in Apps |-> IF a = db THEN 1 ELSE 2]

ExactNames == [a \in Apps |-> {a}]

\* The container name of `web` is a prefix of that of `db`, as for the same
\* app in the stores "main" and "main2".
PrefixNames == [a \in Apps |-> IF a = web THEN Apps ELSE {a}]

MCRetention == [s \in Schedules |-> IF s = "daily" THEN 2 ELSE 1]
=============================================================================
