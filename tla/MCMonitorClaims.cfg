SPECIFICATION ClaimsSpec
CONSTANTS
    Nodes = {n1}
    Categories <- MCTwoCategories
    AdminDrain = "admin_drain"
    AutoFixable <- MCNone
    DryRun = FALSE
    Window = 2
    Threshold = 2
    MaxCrashes = 0
PROPERTY QuarantineHolds
