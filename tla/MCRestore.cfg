SPECIFICATION FairSpec
CONSTANTS
    o1 = o1  o2 = o2 
    None = None
    Original = e0
    Worker = {k1}
    Operator = {p1}
    Restoring = {r1}
    Order = {o1, o2}
    Amount <- OnePenny
    Limit = 1
    Answer = {"ACCEPTED", "REJECTED"}
INVARIANTS
    SalesAreKnown
    CeilingSurvives
PROPERTY
    RestoredIsReopened
CHECK_DEADLOCK FALSE
