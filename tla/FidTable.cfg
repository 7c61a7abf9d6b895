SPECIFICATION Spec
CONSTANTS
    Conns = {c1, c2, c3}
    Fids = {f1}
    Ids = {a, b, c}
    Sessions = {s1, s2}
    MaxWrites = 1
    NoConn = NoConn
    NoSession = NoSession
    NoId = NoId
SYMMETRY Symmetry
INVARIANTS
    ConnsOK
    FidsFollow
    WriteArrives
CHECK_DEADLOCK FALSE
