SPECIFICATION Spec
CONSTANTS
    Req = {r1, r2}
    NoReq = NoReq
    MaxPush = 3
    MaxBatch = 2
    MaxHead = 5
    MaxRestarts = 1
INVARIANTS
    ExactProjection
    AnswersAreCurrent
PROPERTIES
    EveryRequestReturns
