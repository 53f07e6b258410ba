SPECIFICATION Spec
CONSTANTS
    None = None
    p1 = p1
    Project = {p1, p2}
    Failure = {f1}
    Attempt = {1, 2}
    Worker = {w1, w2}
    NoOverride = NoOverride
    ProjectOf <- OneProject
    Patchable = {f1}
    EnvDailyLimit = 0
    EnvMaxRetries = 1
    Configs = {}
    OperatorRows = {f1}
    Unreliable = {w1, w2}
    Aging = {}
    Reviewed = {1, 2}
    Registered = {p1, p2}
    Lookalikes = {1}
    LookupMayFail = FALSE
SYMMETRY Interchangeable
INVARIANTS ClosedRowsAreDated MergesAreReal
PROPERTIES WontFixStands ImplementsLifecycle
CHECK_DEADLOCK FALSE
