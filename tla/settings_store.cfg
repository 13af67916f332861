SPECIFICATION FairSpec
CONSTANTS
    Schedules = {"daily", "weekly"}
    Environment <- MCEnvironment
    Absolute = {"/", "/runtipi", "/opt/runtipi"}
    Targets = {"encrypted:backups"}
    Endpoints = {"http://rclone"}
    ApiUsername = "rclone-admin"
    Unset = Unset
    NotANumber = NotANumber
    HostPath = "/runtipi"
    Apps = {"app1"}
    AppsAt <- MCAppsAt
    Forms <- MCForms
    FirstSettings <- MCOlderSettings
    Clients = {c1, c2}
    MaxSaves = 3
    Empty = Empty
    Mixed = Mixed
    None = None
    Faults = {"io", "read", "crash"}
INVARIANTS ConfigRepaired ConfirmedIsUsed ExclusionsNotOlder ExclusionsHonoured AcceptedFormsLoad
PROPERTIES ChangesApplied
