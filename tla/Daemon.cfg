SPECIFICATION FairSpec
CONSTANTS
    MaxPid = 3
    Stops = {c1}
    MaxStops = 2
    MaxCrashes = 1
    None = None
INVARIANTS
    AloneIsReachable
    StartsConverge
    QuietLeavesNothing
PROPERTIES
    StopStops
CHECK_DEADLOCK FALSE
