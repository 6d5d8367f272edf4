SPECIFICATION MCSpec
CONSTANTS
    Handler = {h1, h2}
    MaxSubmits = 3
    MinOutcomes = 1
    GateTTL = 3
    NoKey = NoKey
    RejectedStream = "rejected"
    Stream <- MCStream
    Event <- MCEvent
    Key <- MCKey
    Command <- MCCommand
    Context <- MCContext
    Decide <- AggregateDecide
    ScopeStream <- MCScopeStream
    GateStream <- MCGateStream
SYMMETRY Symmetry
INVARIANTS
    KeyOnce
    AcknowledgedIsDurable
    PublishesOwnBatch
    OneFreshSuccessPerKey
    RefusalsAreRecorded
    GateAnsweredOnce
    ScopesWithinCap
PROPERTIES
    ImplementsCommandLog
