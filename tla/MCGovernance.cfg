SPECIFICATION Spec
CONSTANTS
    None = None
    Manual = {m1}
    Effectful = {}
    Signal = {g1}
    Operator = operator
    Reviewer = {sparring, second}
    Principal = principal
    Assignee = {operator, sparring, second}
    Verifier = {verifier}
    Worker = {w1, w2}
    Reorder = 1
    MaxStock = 1
    MaxRuns = 2
    MaxBatch = 2
    MaxBusy = 2
SYMMETRY Interchangeable
INVARIANTS
    AcceptanceIsEarned

    
CHECK_DEADLOCK FALSE
