SPECIFICATION FairSpec
CONSTANTS
    Unset = Unset
    NoRef = NoRef
    Live = Live
    Absent = Absent
    Damaged = Damaged
    Refs <- MCRefs
    StoreRank <- MCStoreRank
    ScheduleRank <- MCScheduleRank
    Archives <- MCArchives
    Holds <- MCHolds
    NameMatches <- ExactNames
    Labels <- MCLabels
    Config <- MCConfig
    MaxBatches = 1
    Faults = {"docker", "stop", "crash"}
INVARIANTS RestartOwed BatchAccounted UntouchedUntilExtracted RestoredIsWhole FromNewest RunsAsBefore
PROPERTIES ReplacedWhileDown BatchEndsOrWaits
CHECK_DEADLOCK FALSE
