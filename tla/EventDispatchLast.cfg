CONSTANTS
    c1 = c1
    c2 = c2
    Shell = shell
    Sinks = {shell, c1}
    Events = {e1, e2}
    NoEvent = NoEvent
    MaxCalls = 2
SPECIFICATION Spec
INVARIANTS
    LastReference
CHECK_DEADLOCK FALSE
