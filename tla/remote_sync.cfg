SPECIFICATION FairSpec
CONSTANTS
    db = db
    notes = notes
    Apps = {notes}
    Schedules = {"daily", "weekly"}
    SpellsAs <- MCSpellsAs
    LocalKeep <- KeepMore
    RemoteKeep <- KeepOne
    MaxDay = 2
    Faults = {"leftover", "short"}
INVARIANTS TypeOK VerifiedBeforePrune SuccessMeansOffSite RemoteRetentionKept
PROPERTIES SyncEnds
