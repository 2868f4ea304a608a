SPECIFICATION FairSpec
CONSTANTS
    Nodes = {n1, n2}
    Categories <- MCCategories
    AdminDrain = "admin_drain"
    AutoFixable <- MCAutoFixable
    DryRun = FALSE
    Window = 1
    Threshold = 2
    MaxCrashes = 1
INVARIANT TypeOK
INVARIANT FixesAreRare
PROPERTY ImplementsPolicy
PROPERTY PersistentProblemHeld
PROPERTY RecoveredNodeReleased
