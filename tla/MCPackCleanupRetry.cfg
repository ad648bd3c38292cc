CONSTANTS
    MaxStops = 0
    MaxForeign = 0
SPECIFICATION FairSpec
PROPERTIES
    PendingNotStranded
CHECK_DEADLOCK FALSE
