SPECIFICATION FairSpec
CONSTANTS
    Fids = {f1}
    Sessions = {s1, s2}
    States = {idle, running}
    Idle = idle
    Reads = {r1, r2}
    MaxChanges = 2
    MaxOpens = 2
    MaxFlushes = 1
    NoSession = NoSession
    Unset = Unset
INVARIANTS
    TypeOK
    NoChangeMissed
PROPERTIES
    KeepsUp
CHECK_DEADLOCK FALSE
