SPECIFICATION HarnessSpec
CONSTANTS
    Name = {"r", "a", "b", "x", "alice"}
    Before <- MCBefore
    MinOutcomes = 2
    NoId = NoId
    Id = {c1}
    Successor = c2
    Key <- MCKey
    Capped <- MCCapped
    Path <- MCPath
    File <- MCFile
    Anchor <- MCAnchor
    Repo = "r"
    Owner = "alice"
    Proc = {p1, p2}
    Draft <- MCDraft
    Cap = {0}
    MaxRecords = 4
    MaxScopeRecords = 2
SYMMETRY Symmetry
INVARIANTS
    AnswerIsCurrent
    CapsBindNarrower
PROPERTIES
    DraftsWithinCap
