SPECIFICATION Spec
CONSTANTS
    Path = {"p.ts", "q.ts", "x.py"}
    Parsed = {"p.ts", "q.ts"}
    Symbol = {"f"}
    File <- MCFile
    Start <- MCStart
    Missing = Missing
    Gone = Gone
    NoHash = NoHash
    Bound <- MCBound
    Covered = {"q.ts"}
    Order <- MCOrder
    Proc = {p1, p2}
    MaxEdits = 2
    MaxCommits = 1
    MaxRuns = 3
SYMMETRY Symmetry
CHECK_DEADLOCK FALSE
INVARIANTS
    BaselineIsAccepted
    CalmVerifyIsExact
    MovesLeadToTheCode
    ChangesOfCommits
    BoundChangeIsJudged
PROPERTIES
    RerunWritesNothing
