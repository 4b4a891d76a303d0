SPECIFICATION AttentiveSpec
CONSTANTS
    p1 = p1  p2 = p2  w1 = w1  w2 = w2  o1 = o1  o2 = o2
    cones = cones  vanilla = vanilla  None = None
    Worker = {p1}
    Connected = {p1}
    Work = {w1}
    Session <- OneSession
    Order = {o1}
    Product = {cones}
    Cost = {1}
    Limit = 1
    Automatic = 0
    Adapter = {TRUE, FALSE}
    MaxCopies = 1
    MaxCommands = 1
CHECK_DEADLOCK FALSE
PROPERTY
    ApprovalIsActedOn
