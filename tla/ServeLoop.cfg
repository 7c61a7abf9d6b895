SPECIFICATION FairSpec
CONSTANTS
    Reqs = {r1, r2, r3}
    Tags = {t1, t2}
    NoReq = NoReq
    Cap = 1
INVARIANTS
    ChannelOK
    PendingMatches
    OneAnswer
    CancelledOnRequest
PROPERTIES
    ReadIsAnswered
    LostIsTornDown
CHECK_DEADLOCK FALSE
