---------------------------- MODULE MCSchedules -----------------------------
(* Values of Schedules' constants that a configuration file cannot write.   *)
EXTENDS Schedules

CONSTANTS u1, c1, c2, e1, e2

FirstRow == [active |-> TRUE, owner |-> u1, cron |-> c1, env |-> e1]
Rows == {FirstRow}
Edits == {<<c2, e2>>, <<NULL, e2>>}
=============================================================================
