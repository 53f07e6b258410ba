------------------------------ MODULE StepSheet -----------------------------
(***************************************************************************)
(* What a test run promises a tester who has a case to himself: marking a  *)
(* step changes that step and nothing else.  A case taken out of the run   *)
(* loses its marks; a blank one may get earlier marks back, from a save    *)
(* that was under way.  TestRuns implements it for unshared cases.         *)
(***************************************************************************)
CONSTANTS NULL, Case, Step, Verdict

VARIABLE sheet          \* the mark of every step of every case

Blank == [i \in Step |-> NULL]

Init == sheet = [c \in Case |-> Blank]

Mark(c, i, v) == sheet' = [sheet EXCEPT ![c][i] = v]

Reinstate(c) ==
    /\ sheet[c] = Blank
    /\ sheet'[c] \in [Step -> Verdict \cup {NULL}]
    /\ sheet' = [sheet EXCEPT ![c] = sheet'[c]]

Withdraw(C) == sheet' = [c \in Case |-> IF c \in C THEN Blank ELSE sheet[c]]

Next ==
    \/ \E c \in Case : \/ \E i \in Step, v \in Verdict : Mark(c, i, v)
                       \/ Reinstate(c)
    \/ \E C \in SUBSET Case : Withdraw(C)

Spec == Init /\ [][Next]_sheet
=============================================================================
