SPECIFICATION MCSpec
CONSTANTS
    Daemon = {d1, d2}
    Pusher = {d1, d2}
    Puller = {d1}
    TeamStream = {"anchor"}
    PersonStream = {}
    WorkStream = {"change"}
    SessionStream = {"session"}
    Good = {TRUE, FALSE}
    Batch = 2
    PullLimit = 1
    MaxLocal = 3
    MaxServer = 1
    MaxRuns = 2
CHECK_DEADLOCK FALSE
INVARIANTS
    OriginOnce
    SignedVersionKept
    CursorMeansAnswered
    CacheIsTeamLayer
    UnsharedSessionStaysLocal
