SPECIFICATION Spec
CONSTANTS
    MaxPasses = 3
    TokensOf <- MCTokensOf
    Library <- MCLibrary
    Apps <- MCApps
    Flags <- MCFlags
    Raws <- MCRaws
    Number <- MCNumber
    Digits = {"0", "2", "02", "superscript 2"}
    Numeral <- MCNumeral
    Lower <- MCLower
CHECK_DEADLOCK FALSE
INVARIANT RenderIsMeaning
INVARIANT OneBranchPerGroup
INVARIANT FlagsMatchWizard
INVARIANT SuccessIsWhole
PROPERTY OverwritesOnlyToSucceed
