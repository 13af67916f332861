SPECIFICATION WorkEndsSpec
CONSTANTS
    None = None
    Main = Main
    Clients = {c1}
    Workers = {w1, w2}
    Schedules = {"daily", "weekly"}
    Enabled = {"daily", "weekly"}
    Rank <- MCRank
    DueDays <- MCDueDays
    Hours = 2
    BackupHour = 0
    MaxTime = 1
    Faults = {"state"}
PROPERTIES BackupsCanStart
