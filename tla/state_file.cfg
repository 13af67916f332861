SPECIFICATION FairSpec
CONSTANTS
    Threads = {t1, t2, t3}
    Keys = {"daily", "last_run"}
    Values = {v1, v2}
    Missing = Missing
    NoKey = NoKey
    NoThread = NoThread
    NoFile = NoFile
    Damaged = Damaged
PROPERTIES ActsAsStore LockComesFree
