--------------------------- MODULE MCAutoFixCron ----------------------------
(* Values of AutoFixCron's constants that a configuration file cannot       *)
(* write.                                                                   *)
EXTENDS AutoFixCron

CONSTANT p1

OneProject == [f \in Failure |-> p1]

\* The operator switches the project off.
SwitchedOff == {[enabled |-> FALSE, dailyLimit |-> NoOverride,
                 maxRetries |-> NoOverride]}
=============================================================================
