SPECIFICATION ChangeSpec
CONSTANTS
    Person = {"alice", "bob"}
    Agent = {"agent"}
    Owners = {"bob"}
    OutcomeWindow = 2
    MaxJudgments = 3
    MaxProposals = 2
    MaxNow = 4
CHECK_DEADLOCK FALSE
INVARIANTS
    LiveImpactWasAccepted
    SettledAfterObservation
