SPECIFICATION Spec
CONSTANTS
    db = db
    notes = notes
    Apps = {db}
    Schedules = {"daily"}
    SpellsAs <- MCSpellsAs
    LocalKeep <- KeepOne
    RemoteKeep <- KeepMore
    MaxDay = 3
    Faults = {"leftover"}
PROPERTIES GoodCopiesKept
