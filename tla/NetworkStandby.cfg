CONSTANTS
    Threads = {t1, t2}
    Names = {n1}
    Ids = {serial, other}
    SerialId = serial
    None = None
    MaxCalls = 4
SYMMETRY Symmetry
SPECIFICATION Spec
INVARIANTS
    TypeOK
    InstanceShowsNames
    OneIdentity
    DefaultNameCurrent
    ModeFollowsDevice
    GdialFollowsMode
CHECK_DEADLOCK FALSE
