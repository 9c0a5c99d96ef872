CONSTANTS
    a = a
    b = b
    long = long
    cut = cut
    idOfA = idOfA
    idOfCut = idOfCut
    NoId = NoId
    Threads = {t1, t2}
    NoThread = NoThread
    Apps <- MCApps
    Stored <- MCStored
    IdOf <- MCIdOf
    Requests <- MCRequests
    MaxCalls = 4
SYMMETRY Symmetry
SPECIFICATION Spec
INVARIANTS
    TypeOK
    EntriesAccounted
    EntriesBoundedByOverlap
    GdialListCurrent
    FreedNeedsOverlap
    RangeNeedsRepetition
    LookupFindsRegistered
PROPERTIES
    DeletesWhatIsNamed
CHECK_DEADLOCK FALSE
