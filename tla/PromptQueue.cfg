SPECIFICATION Spec
CONSTANTS
    MaxMsgs = 3
    MaxParts = 3
    Readers = {r1, r2}
    Count = 1
    MaxStats = 1
    MaxDrops = 2
SYMMETRY Symmetry
INVARIANTS
    PromptsIntact
    PromptsInOnePlace
    OpenGetsOne
CHECK_DEADLOCK FALSE
