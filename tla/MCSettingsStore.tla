-------------------------- MODULE MCSettingsStore --------------------------
(***************************************************************************)
(* One app under HostPath; forms that change the retention or exclude the  *)
(* app, and one form for each reason to refuse it.                         *)
(***************************************************************************)
EXTENDS SettingsStore

CONSTANTS
    NotANumber,     \* a text int() refuses
    HostPath        \* RUNTIPI_PATH, where Runtipi is mounted

Every(n) == [s \in Schedules |-> n]

MCEnvironment ==
    [runtipi_path |-> HostPath, backup_hour |-> 3,
     enabled_schedules |-> Schedules,
     rclone_remote |-> "encrypted:backups", rclone_api_url |-> "http://rclone",
     local_retention |-> Every(7), remote_retention |-> Every(14),
     excluded_apps |-> {}]

MCAppsAt == [p \in Absolute |-> IF p = HostPath THEN Apps ELSE {}]

Changed == [MCEnvironment EXCEPT !.local_retention = Every(30)]
Excluding == [MCEnvironment EXCEPT !.excluded_apps = {"app1"}]
Elsewhere == [MCEnvironment EXCEPT !.runtipi_path = ""]

Refused ==
    {[Changed EXCEPT !.backup_hour = 24],
     [Changed EXCEPT !.backup_hour = NotANumber],
     [Changed EXCEPT !.local_retention = Every(0)],
     [Changed EXCEPT !.remote_retention = Every(1001)],
     [Changed EXCEPT !.rclone_remote = ""],
     [Changed EXCEPT !.rclone_api_url = ""],
     [Changed EXCEPT !.runtipi_path = "runtipi"]}

MCForms == {Changed, Excluding, Elsewhere} \cup Refused

\* No settings file, and one of a version without exclusions; where reads of
\* the settings may fail, the defaults that stand for no file come up anyway.
MCOlderSettings == {[backup_hour |-> 4, local_retention |-> [daily |-> 2]]}
MCFirstSettings == {NoDocument} \cup MCOlderSettings
=============================================================================
