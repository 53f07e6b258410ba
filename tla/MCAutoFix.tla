----------------------------- MODULE MCAutoFix ------------------------------
(* Values of AutoFix's constants that a configuration file cannot write.    *)
EXTENDS AutoFix, TLC

CONSTANT p1

OneProject == [f \in Failure |-> p1]

\* What the operator PUTs: the limit EnvDailyLimit already sets, spelled out.
Override == {[enabled |-> TRUE, dailyLimit |-> 1, maxRetries |-> NoOverride]}

\* No configuration tells one worker from another.
Interchangeable == Permutations(Worker)
=============================================================================
