SPECIFICATION Spec
CONSTANTS
    Turns = {t1, t2}
    Commands = {c1}
    Nobody = Nobody
    TurnRoles = {"user", "assistant", "line"}
    ReplyRoles = {"bare"}
    Budget = 5
    Chunk = 2
INVARIANTS
    GotIsPrefix
    StatTellsChange
    AnswerAfterOffset
    AnswersAreWhole
CHECK_DEADLOCK FALSE
