SPECIFICATION ListSpec
CONSTANTS
    Fixed <- FixedFiles
    Alphabet <- SomeNames
    Size <- EntrySize
    Count = 5
    MaxChanges = 3
INVARIANTS
    RepliesFit
    QuietListingExact
    ShiftsOneWay
CHECK_DEADLOCK FALSE
