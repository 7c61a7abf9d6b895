SPECIFICATION FairSpec
CONSTANTS
    Conns = {c1}
    Fids = {f1}
    Ids = {a, b}
    Sessions = {s1}
    MaxWrites = 1
    NoConn = NoConn
    NoSession = NoSession
    NoId = NoId
PROPERTY RenameReturns
CHECK_DEADLOCK FALSE
