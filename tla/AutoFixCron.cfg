SPECIFICATION FairCronSpec
CONSTANTS
    None = None
    p1 = p1
    Project = {p1}
    Failure = {f1, f2}
    Attempt = {1, 2, 3, 4}
    Worker = {w1, w2}
    Pod = {w1, w2}
    Batch = 2
    Checkout = {p1}
    SessionMayDrop = {w1}
    NoOverride = NoOverride
    ProjectOf <- OneProject
    Patchable = {f1, f2}
    EnvDailyLimit = 0
    EnvMaxRetries = 1
    Configs <- SwitchedOff
    OperatorRows = {}
    Unreliable = {w1}
    Aging = {}
    Reviewed = {}
    Registered = {}
    Lookalikes = {}
    LookupMayFail = FALSE
INVARIANTS ClusterLockHolds VerifiedOnce RetryCapHolds
PROPERTIES TickEnds
CHECK_DEADLOCK FALSE
