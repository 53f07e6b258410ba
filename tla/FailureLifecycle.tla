-------------------------- MODULE FailureLifecycle --------------------------
(***************************************************************************)
(* What the auto-fix loop promises of a test failure, whatever requests,   *)
(* cron ticks, operators and merge events bring it about: the legal moves  *)
(* of test_failures.fix_status, one failure and one move at a time, with   *)
(* 'resolved' reserved for failures whose fix has landed on the base       *)
(* branch.  AutoFix implements it.                                         *)
(***************************************************************************)
CONSTANT Failure

VARIABLES
    fixStatus,      \* "absent" until a run reports the failure
    resolvedAt,     \* failures that carry the time they were closed
    landed          \* failures with a merged fix

vars == <<fixStatus, resolvedAt, landed>>

Init ==
    /\ fixStatus = [f \in Failure |-> "absent"]
    /\ resolvedAt = {}
    /\ landed = {}

Move(f, from, to) ==
    /\ fixStatus[f] \in from
    /\ fixStatus' = [fixStatus EXCEPT ![f] = to]

\* A run sees the failure for the first time, or again after its fix.
Detect(f) ==
    /\ Move(f, {"absent", "resolved"}, "open")
    /\ UNCHANGED <<resolvedAt, landed>>

Claim(f) ==
    /\ Move(f, {"open"}, "fix_proposed")
    /\ UNCHANGED <<resolvedAt, landed>>

\* The proposal came to nothing: the failure can be claimed again.
Release(f) ==
    /\ Move(f, {"fix_proposed"}, "open")
    /\ UNCHANGED <<resolvedAt, landed>>

GiveUp(f) ==
    /\ Move(f, {"open", "fix_proposed"}, "wont_fix")
    /\ resolvedAt' = resolvedAt \cup {f}
    /\ UNCHANGED landed

Revive(f) ==
    /\ Move(f, {"wont_fix"}, "open")
    /\ resolvedAt' = resolvedAt \ {f}
    /\ UNCHANGED landed

Land(f) ==
    /\ landed' = landed \cup {f}
    /\ UNCHANGED <<fixStatus, resolvedAt>>

Resolve(f) ==
    /\ f \in landed
    /\ Move(f, {"fix_proposed"}, "resolved")
    /\ resolvedAt' = resolvedAt \cup {f}
    /\ UNCHANGED landed

Next ==
    \E f \in Failure :
        \/ Detect(f) \/ Claim(f) \/ Release(f) \/ GiveUp(f)
        \/ Revive(f) \/ Land(f) \/ Resolve(f)

Spec == Init /\ [][Next]_vars
=============================================================================
