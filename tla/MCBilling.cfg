SPECIFICATION Spec
CONSTANTS
    TemplateRows = 2
    NoAmount = NoAmount
    Amounts <- MCAmounts
    Garbled = Garbled
    Entries <- MCEntries
    MaxLines = 3
INVARIANT PreviewAgrees
INVARIANT StatementAddsUp
INVARIANT SavedIsWhole
PROPERTY RemembersWhatWorked
