CONSTANTS
    Host = host
    Workers = {w1}
    MaxEvents = 2
SPECIFICATION Spec
INVARIANTS
    TornDownStaysDown
CHECK_DEADLOCK FALSE
