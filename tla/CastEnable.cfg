CONSTANTS
    Threads = {t1, t2}
    Names = {n1, n2}
    DefaultName = n1
    NoThread = NoThread
    DefaultEnable = FALSE
    DefaultStandby = FALSE
    Calls = {"SetEnabled", "SetStandbyBehavior", "SetFriendlyName", "Register", "Unregister", "PowerMode", "Link"}
    MaxCalls = 4
SYMMETRY Symmetry
SPECIFICATION Spec
INVARIANTS
    TypeOK
    PolicyHonoured
    GdialFollowsCache
    LockIsReleased
PROPERTIES
    LinkPromise
CHECK_DEADLOCK FALSE
