CONSTANTS
    GroupModulus = 5
    ObjectModulus = 3
    MaxClock = 2
    MaxConstructions = 1
    MaxPublishes = 4
SPECIFICATION PathSpec
INVARIANTS
    TypeOK
    PathTypeOK
    NamesIdentifyObjects
PROPERTIES
    GapsAreLosses
CHECK_DEADLOCK FALSE
