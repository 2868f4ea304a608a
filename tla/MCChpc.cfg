SPECIFICATION FairSpec
CONSTANTS
    Keys <- MCKeys
    Human = Human
    Mode = "live"
    MaxCount = 3
    Lines <- MCLines
    ChecksFiles <- MCFiles
    NameOf <- MCNameOf
    AutoResume <- MCAutoResume
    Threshold = 2
    MaxDisruptions <- MCOneOfEach
INVARIANT TypeOK
INVARIANT CountsAreEvidence
INVARIANT WipeSparesOwnDrains
INVARIANT DrainIsBooked
PROPERTY ImplementsPolicy
PROPERTY PersistentFailureDrains
PROPERTY BooksFollowNode
PROPERTY AutoResumeCompletes
