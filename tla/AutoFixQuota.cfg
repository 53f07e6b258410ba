SPECIFICATION Spec
CONSTANTS
    None = None
    p1 = p1
    Project = {p1}
    Failure = {f1}
    Attempt = {1, 2, 3}
    Worker = {w1, w2}
    NoOverride = NoOverride
    ProjectOf <- OneProject
    Patchable = {f1}
    EnvDailyLimit = 1
    EnvMaxRetries = 0
    Configs <- Override
    OperatorRows = {}
    Unreliable = {}
    Aging = {1}
    Reviewed = {}
    Registered = {}
    Lookalikes = {}
    LookupMayFail = FALSE
SYMMETRY Interchangeable
INVARIANTS QuotaOvershootBounded ClaimLeaksOnlyByApply
CHECK_DEADLOCK FALSE
