SPECIFICATION BridgeSpec
CONSTANTS
    Delivery = {d1, d2}
    Review = {"r1", "r2"}
    Reasoned = {"r1"}
    Visiting = {"r1"}
    Change = {c1, c2}
    NoChange = NoChange
    PerPage = 2
    MaxTimes = 4
    MaxOthers = 1
SYMMETRY Symmetry
CHECK_DEADLOCK FALSE
INVARIANTS
    OrderlyCommentIsCurrent
