SPECIFICATION MCSpec
CONSTANTS
    NULL = NULL
    Scenario = {s1, s2}
    Case = {c1, c2}
    Fallback = {s1}
    Enough = 2
    Writer = {w1, w2}
    Lost = {"insert"}
    Asset = {a1, a2}
    Run = {1, 2}
    Client = {k1}
    Drop = {"markAsset", "asset", "failing"}
INVARIANTS ApprovedHaveCase VerdictsAgree
PROPERTIES RunsSettle
CHECK_DEADLOCK FALSE
