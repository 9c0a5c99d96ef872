CONSTANTS
    Host = host
    Workers = {w1, w2}
    MaxEvents = 2
SPECIFICATION FairSpec
INVARIANTS
    TypeOK
    PromptCallbackSafe
    ConnectSafe
    QuietTeardown
    CallerSafe
PROPERTIES
    TeardownFinishes
CHECK_DEADLOCK FALSE
