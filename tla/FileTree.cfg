SPECIFICATION Spec
CONSTANTS
    Dirs = {"m", "t", "tmp", "tr", "sk"}
    NamesIn <- MCNamesIn
    Idx = "idx"
    Roots = 2
    Chunks = {a, b}
    Header = {a, b}
    Zero = zero
    MaxLen = 2
    MaxUses <- MCMaxUses
    Fids = {h1, h2}
    NoFile = NoFile
    Absent = Absent
    Unknown = Unknown
SYMMETRY Symmetry
INVARIANTS
    TypeOK
    LedgerHolds
    LookupsAgree
CHECK_DEADLOCK FALSE
