SPECIFICATION Spec
CONSTANTS
    Names = {n1, n2}
    MaxRuns = 3
    MaxStops = 1
INVARIANT ConfigStaysReadable
INVARIANT WiredUnlessCut
INVARIANT FinishedIsConfigured
PROPERTY DryRunChangesNothing
CHECK_DEADLOCK FALSE
