SPECIFICATION FairSpec
CONSTANTS
    Unset = Unset
    NoApp = NoApp
    db = db
    web = web
    companion = companion
    Apps = {db, companion}
    Schedules = {"daily"}
    Rank <- MCRank
    NameMatches <- ExactNames
    Labels <- MCLabels
    Config <- MCConfig
    Retention <- MCRetention
    StopApps = TRUE
    MaxDay = 2
    Faults = {"docker", "progress", "io", "stop", "crash"}
INVARIANTS SuccessRestoresApps SuccessMeansBackedUp
PROPERTIES NoSpuriousStart PipelineNeverStopped RunEndsOrHangs
