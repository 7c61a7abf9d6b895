SPECIFICATION ConfigSpec
CONSTANTS
    Writers = {w1, w2, w3}
    Keys = {k1, k2}
    Values = {v1}
    NotSet = NotSet
    Nobody = Nobody
    MaxTurns = 1
SYMMETRY Symmetry
INVARIANTS
    ConfigTypeOK
    ParamsFromAccepted
    LostOnlyToOverlap
CHECK_DEADLOCK FALSE
