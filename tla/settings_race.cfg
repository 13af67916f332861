SPECIFICATION Spec
CONSTANTS
    Schedules = {"daily", "weekly"}
    Environment <- MCEnvironment
    Absolute = {"/", "/runtipi", "/opt/runtipi"}
    Targets = {"encrypted:backups"}
    Endpoints = {"http://rclone"}
    ApiUsername = "rclone-admin"
    Unset = Unset
    NotANumber = NotANumber
    HostPath = "/runtipi"
    Apps = {"app1"}
    AppsAt <- MCAppsAt
    Forms <- MCForms
    FirstSettings <- MCFirstSettings
    Clients = {c1, c2}
    MaxSaves = 3
    Empty = Empty
    Mixed = Mixed
    None = None
    Faults = {}
INVARIANTS ConfigFollowsSettings
