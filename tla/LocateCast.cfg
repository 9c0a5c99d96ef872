CONSTANTS
    MaxChurn = 3
SPECIFICATION FairSpec
INVARIANTS
    TypeOK
    HandlerExcludesTimer
    BoundMatchesActive
    ConnectedOrTrying
    Replayed
PROPERTIES
    Reconnects
    LinkPromise
    LinkProgress
CHECK_DEADLOCK FALSE
