----------------------------- MODULE MCTestRuns -----------------------------
(* Values of TestRuns' constants that a configuration file cannot write.    *)
EXTENDS TestRuns, TLC

CONSTANTS c1, c2

StepsOfCases == [c \in Case |-> IF c = c1 THEN {} ELSE {1, 2}]
Lists == {{c1, c2}}
Interchangeable == Permutations(Request)
=============================================================================
