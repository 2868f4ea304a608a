SPECIFICATION Spec
CONSTANTS
    Nodes <- MCNodes
    AdminFile <- MCAdminFile
    MemTolerance = 2
    CpuTolerance = 0
    MaxKills = 1
INVARIANT LossIsNoticed
INVARIANT CaptureLasts
PROPERTY FailuresAreReal
