SPECIFICATION Spec
CONSTANTS
    Unset = Unset
    NoApp = NoApp
    db = db
    web = web
    companion = companion
    Apps = {db, web}
    Schedules = {"daily", "weekly"}
    Rank <- MCRank
    NameMatches <- ExactNames
    Labels <- MCLabels
    Config <- MCConfig
    Retention <- MCRetention
    StopApps = TRUE
    MaxDay = 3
    Faults = {}
INVARIANTS RestartOwed PostHookOwed SuccessMeansBackedUp NoCorruptSurvives ArchivesConsistent FailureIsolation
PROPERTIES GoodBackupsKept
