SPECIFICATION Spec
CONSTANTS
    Names = {n1, n2}
    MaxRuns = 3
    MaxStops = 1
INVARIANT SetuidHasCapabilities
CHECK_DEADLOCK FALSE
