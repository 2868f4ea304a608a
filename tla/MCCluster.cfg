SPECIFICATION FairClusterSpec
CONSTANTS
    Nodes = {n1}
    Host = n1
    Categories <- MCCategories
    AdminDrain = "admin_drain"
    AutoFixable <- MCAutoFixable
    DryRun = FALSE
    Window = 2
    Threshold = 2
    MaxCrashes = 1
    Keys <- MCKeys
    Human = Human
    Mode = "live"
    MaxCount = 3
    Lines <- MCKeys
    ChecksFiles <- MCFiles
    NameOf <- MCNameOf
    AutoResume <- MCNone
    FailureThreshold = 2
    CategoryOf <- MCCategoryOf
    MaxMoves = 1
PROPERTY ListedDrainStands
PROPERTY ForcedOutStays
PROPERTY ToolsConverge
