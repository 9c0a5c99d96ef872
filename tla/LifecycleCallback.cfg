CONSTANTS
    Host = host
    Workers = {w1}
    MaxEvents = 1
SPECIFICATION Spec
INVARIANTS
    CallbackSafe
CHECK_DEADLOCK FALSE
