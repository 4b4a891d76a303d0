SPECIFICATION Spec
CONSTANTS
    p1 = p1  p2 = p2  w1 = w1  w2 = w2  o1 = o1  o2 = o2
    cones = cones  vanilla = vanilla  None = None
    Worker = {p1}
    Connected = {p1}
    Work = {w1}
    Session <- OneSession
    Order = {o1, o2}
    Product = {cones, vanilla}
    Cost = {1, 2}
    Limit = 2
    Automatic = 1
    Adapter = {TRUE}
    MaxCopies = 1
    MaxCommands = 1
SYMMETRY Interchangeable
INVARIANTS
    BooksBalance
    SalesFitTheCeiling
    OneOrderPerProduct
PROPERTY
    WithdrawnIsNeverSent
CHECK_DEADLOCK FALSE
