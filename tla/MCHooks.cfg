SPECIFICATION Spec
CONSTANTS
    Hook = {h1, h2}
    File = {f1, f2}
    MaxEvents = 6
    MaxShares = 1
SYMMETRY Symmetry
CHECK_DEADLOCK FALSE
INVARIANTS
    EditInOneTurn
    OrderlyEditsKept
    IndexIsExact
