SPECIFICATION Spec
CONSTANTS
    Unset = Unset
    NoApp = NoApp
    db = db
    web = web
    companion = companion
    Apps = {db, web}
    Schedules = {"daily"}
    Rank <- MCRank
    NameMatches <- PrefixNames
    Labels <- MCLabels
    Config <- MCConfig
    Retention <- MCRetention
    StopApps = TRUE
    MaxDay = 1
    Faults = {}
INVARIANTS RestartOwed
