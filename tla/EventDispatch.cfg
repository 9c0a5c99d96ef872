CONSTANTS
    c1 = c1
    c2 = c2
    Shell = shell
    Sinks = {shell, c1, c2}
    Events = {e1, e2, e3}
    NoEvent = NoEvent
    MaxCalls = 4
SPECIFICATION FairSpec
INVARIANTS
    TypeOK
    ExactlyOnce
    CallsOnlyReferenced
    OutlivesJobs
PROPERTIES
    EventuallyDispatched
    BroadcastPromise
CHECK_DEADLOCK FALSE
