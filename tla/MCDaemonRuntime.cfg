SPECIFICATION Spec
CONSTANTS
    Req = {r1, r2}
    NoReq = NoReq
    Page = 2
    MaxBatch = 2
    MaxSeq = 3
    MaxRestarts = 1
INVARIANTS
    CatchUpAppliesOnce
    LostOnlyByJump
PROPERTIES
    EveryRequestEnds
