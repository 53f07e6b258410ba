SPECIFICATION FairSpec
CONSTANTS
    NULL = NULL
    Schedule = {s1}
    u1 = u1
    c1 = c1
    c2 = c2
    e1 = e1
    e2 = e2
    Created <- Rows
    Patches <- Edits
    User = {u1, u2}
    Cron = {c1, c2}
    Env = {e1, e2}
    Request = {q1, q2}
    Run = {r1, r2}
    MaxRestarts = 1
    Unreliable = {"restore", "report"}
INVARIANTS JobsFollowRows CountedRunsAreClosed
PROPERTIES ActiveSchedulesRun
CHECK_DEADLOCK FALSE
