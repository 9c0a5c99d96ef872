CONSTANTS
    Threads = {t1}
    Names = {n1, n2}
    DefaultName = n1
    NoThread = NoThread
    DefaultEnable = FALSE
    DefaultStandby = FALSE
    Calls = {"PowerMode"}
    MaxCalls = 4
SPECIFICATION FairSpec
PROPERTIES
    RestartsAfterDeepSleep
CHECK_DEADLOCK FALSE
