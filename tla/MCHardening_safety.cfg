SPECIFICATION HardeningSpec
CONSTANTS
    MaxOddities = 2
    MaxListed = 6
INVARIANT NoFalseFailure
INVARIANT NoMissedSetting
PROPERTY FixesHold
CHECK_DEADLOCK FALSE
