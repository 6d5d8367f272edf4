SPECIFICATION Spec
CONSTANTS
    Name = {"r"}
    Before <- MCBefore
    MinOutcomes = 1
    NoId = 0
    NoText = NoText
    Rule = {r1, r2}
    Adr = {a1, a2}
    Blank = Blank
    Event = {e1, e2}
    Other = {o1}
    MaxOps = 5
    MaxObjects = 3
SYMMETRY Symmetry
CHECK_DEADLOCK FALSE
INVARIANT
    DecisionFollowsFile
