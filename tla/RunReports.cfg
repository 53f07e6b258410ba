SPECIFICATION FairSpec
CONSTANTS
    N = 3
    PARALLEL_LIMIT = 2
    Unreliable = {"append", "complete"}
    MayDie = TRUE
INVARIANTS ChainSeesPrevious ReportsAddUp
PROPERTIES ReportsSettle
CHECK_DEADLOCK FALSE
