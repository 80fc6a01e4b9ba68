\* The model ends with every timer fired or cleared.
CONSTANTS
    Timeouts = {1, 2}
    MaxTimers = 3
    MaxLag = 2
SPECIFICATION Spec
INVARIANT Armed
PROPERTIES StartsOnlyLive NoStarvation
CHECK_DEADLOCK FALSE
