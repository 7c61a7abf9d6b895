SPECIFICATION FairSpec
CONSTANTS
    Ids = {a, b}
    Sessions = {s1, s2}
    Procs = {p1}
    Main = main
    NoSession = NoSession
    NoId = NoId
    Free = Free
PROPERTIES
    UnlinkedGetsClosed
    ShutdownTerminates
CHECK_DEADLOCK FALSE
