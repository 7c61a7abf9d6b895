SPECIFICATION Spec
CONSTANTS
    Ids = {a, b}
    Sessions = {s1, s2, s3}
    Procs = {p1, p2}
    Main = main
    NoSession = NoSession
    NoId = NoId
    Free = Free
SYMMETRY Symmetry
INVARIANTS
    TypeOK
    TableAgrees
    KillsAreClean
    ShutdownMissesOnlyMoved
    DeadTurnsStop
PROPERTIES
    ImplementsRegistry
CHECK_DEADLOCK FALSE
