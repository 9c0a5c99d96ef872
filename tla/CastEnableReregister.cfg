CONSTANTS
    Threads = {t1}
    Names = {n1, n2}
    DefaultName = n1
    NoThread = NoThread
    DefaultEnable = TRUE
    DefaultStandby = TRUE
    Calls = {"Register", "Link"}
    MaxCalls = 2
SPECIFICATION Spec
INVARIANTS
    RegistrationReenables
CHECK_DEADLOCK FALSE
