CONSTANTS
    MaxChurn = 2
SPECIFICATION FairSpec
PROPERTIES
    FollowsPrimary
CHECK_DEADLOCK FALSE
