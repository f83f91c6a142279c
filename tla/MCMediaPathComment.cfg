CONSTANTS
    GroupModulus = 5
    ObjectModulus = 3
    MaxClock = 2
    MaxConstructions = 1
    MaxPublishes = 4
SPECIFICATION PathSpec
PROPERTIES
    MissedStartCounts
CHECK_DEADLOCK FALSE
