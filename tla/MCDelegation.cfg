SPECIFICATION FairSpec
CONSTANTS
    None = None
    Parent = {p1}
    Worker = {w1, w2}
    CallLimit = 2
    DayLimit = 2
    MaxDay = 2
    MaxGeneration = 2
INVARIANTS
    CallsStayInBounds
    LedgersAgree
PROPERTIES
    HolderConcludes
    ForsakenChildIsClosed
CHECK_DEADLOCK FALSE
