----------------------------- MODULE RunReports -----------------------------
(***************************************************************************)
(* One run of a collection in testgenie-backend and the report it writes.  *)
(*                                                                         *)
(* Interactive runs (POST /run, GET /run-stream) execute the tests of the  *)
(* collection in a pool, or one by one when they are chained, and do not   *)
(* wait for the callbacks that write the report.  Scheduled runs execute   *)
(* them one by one and wait.  addTestResult reads the list of results,     *)
(* adds one and writes it back; the counters beside it are increments.     *)
(***************************************************************************)
EXTENDS Naturals, FiniteSets

CONSTANTS
    N,              \* tests of the collection, in sort order
    PARALLEL_LIMIT,
    Unreliable,     \* awaits at which a query may fail
    MayDie          \* whether the process may end with the run under way

Tests == 1..N
Verdict == {"passed", "failed", "error"}
Mode == {"parallel", "chained", "scheduled"}
Phase == {"queued", "run", "select", "append", "bump", "over", "lost"}

ASSUME RunReportsAssumption ==
    /\ N \in Nat /\ PARALLEL_LIMIT \in Nat \ {0}
    /\ Unreliable \subseteq {"select", "append", "bump", "complete"}
    /\ MayDie \in BOOLEAN

VARIABLES
    mode,           \* who runs the collection, and how
    at,             \* the handler: "idle", "loop", "answered" or "dead"
    phase,          \* where each test, and the callback after it, is
    verdict,        \* the result of each test that has one
    saw,            \* the outputs that each running test started with
    chainVars,      \* the tests whose output later ones can refer to
    listed,         \* test_results as a callback has read it
    caught,         \* whether the error of the current test is caught
    report,         \* the row of run_reports
    faulted         \* history: a query has failed, or the process died

vars == <<mode, at, phase, verdict, saw, chainVars, listed, caught, report,
          faulted>>
engine == <<mode, saw, chainVars>>

Report == [status : {"none", "running", "completed", "failed"},
           results : SUBSET Tests,      \* test_results
           count : [Verdict -> Nat],    \* passed_count and the other two
           total : Nat,                 \* total_tests
           progress : Nat]              \* progress_completed

NoReport == [status |-> "none", results |-> {},
             count |-> [v \in Verdict |-> 0], total |-> 0, progress |-> 0]

Init ==
    /\ mode \in Mode
    /\ at = "idle"
    /\ phase = [i \in Tests |-> "queued"]
    /\ verdict = [i \in Tests |-> "error"]
    /\ saw = [i \in Tests |-> {}]
    /\ chainVars = {}
    /\ listed = [i \in Tests |-> {}]
    /\ caught = FALSE
    /\ report = NoReport
    /\ faulted = FALSE

In(ph) == {i \in Tests : phase[i] = ph}
Finished == {i \in Tests : phase[i] \notin {"queued", "run"}}
Before(i) == 1..(i - 1)

\* Mutant: extractors alone are looked at, not the cookie jar.
EffectiveLimitByExtractors == PARALLEL_LIMIT

\* detectChainMode and the limit it sets.
EffectiveLimit == IF mode = "parallel" THEN PARALLEL_LIMIT ELSE 1

\* The report is created before the first test starts.
StartRun ==
    /\ at = "idle"
    /\ at' = "loop"
    /\ report' = [NoReport EXCEPT !.status = "running"]
    /\ UNCHANGED <<engine, phase, verdict, listed, caught, faulted>>

\* Mutant: the result of the previous test is not awaited.
DispatchUnawaited(i) ==
    /\ at = "loop"
    /\ phase[i] = "queued"
    /\ \A j \in Before(i) : phase[j] # "queued"
    /\ Cardinality(In("run")) < EffectiveLimit
    /\ phase' = [phase EXCEPT ![i] = "run"]
    /\ saw' = [saw EXCEPT ![i] = chainVars]
    /\ caught' = FALSE
    /\ UNCHANGED <<mode, at, verdict, chainVars, listed, report, faulted>>

\* Tests start in order, as the pool has room; a scheduled run also waits
\* for the previous result to be recorded.
Dispatch(i) ==
    /\ at = "loop"
    /\ phase[i] = "queued"
    /\ \A j \in Before(i) : phase[j] # "queued"
    /\ Cardinality(In("run")) < EffectiveLimit
    /\ mode = "scheduled" => \A j \in Before(i) : phase[j] = "over"
    /\ phase' = [phase EXCEPT ![i] = "run"]
    /\ saw' = [saw EXCEPT ![i] = chainVars]
    /\ caught' = FALSE
    /\ UNCHANGED <<mode, at, verdict, chainVars, listed, report, faulted>>

\* runOne with executeTest: a verdict, or an error that it catches; its
\* callback starts at once.  The outputs of a run that is not chained are
\* collected too, but nothing refers to them.
Finish(i, v, output, thrown) ==
    /\ phase[i] = "run"
    /\ mode = "parallel" => ~output
    /\ thrown => v = "error" /\ ~output /\ mode = "scheduled"
    /\ phase' = [phase EXCEPT ![i] = "select"]
    /\ verdict' = [verdict EXCEPT ![i] = v]
    /\ saw' = [saw EXCEPT ![i] = {}]
    /\ chainVars' = IF output THEN chainVars \cup {i} ELSE chainVars
    /\ caught' = thrown
    /\ UNCHANGED <<mode, at, listed, report, faulted>>

\* addTestResult, the read.
SelectResults(i) ==
    /\ phase[i] = "select"
    /\ phase' = [phase EXCEPT ![i] = "append"]
    /\ listed' = [listed EXCEPT ![i] = report.results]
    /\ UNCHANGED <<engine, at, verdict, caught, report, faulted>>

\* Mutant: the counter is read with the list, and written back with it.
AddedFromRead(i) ==
    [report EXCEPT !.results = listed[i] \cup {i},
                   !.count[verdict[i]] = @ + 1,
                   !.total = Cardinality(listed[i]) + 1]

\* addTestResult, what the UPDATE makes of the row.
Added(i) ==
    [report EXCEPT !.results = listed[i] \cup {i},
                   !.count[verdict[i]] = @ + 1,
                   !.total = @ + 1]

AfterAppend == IF mode = "scheduled" THEN "over" ELSE "bump"

AppendResult(i) ==
    /\ phase[i] = "append"
    /\ report' = Added(i)
    /\ listed' = [listed EXCEPT ![i] = {}]
    /\ phase' = [phase EXCEPT ![i] = AfterAppend]
    /\ UNCHANGED <<engine, at, verdict, caught, faulted>>

\* onProgress, the second statement.
BumpProgress(i) ==
    /\ phase[i] = "bump"
    /\ report' = [report EXCEPT !.progress = @ + 1]
    /\ phase' = [phase EXCEPT ![i] = "over"]
    /\ UNCHANGED <<engine, at, verdict, listed, caught, faulted>>

\* onProgress swallows a failed query and goes on to the next statement.
CallbackFails(i) ==
    /\ mode # "scheduled"
    /\ phase[i] \in Unreliable
    /\ phase' = [phase EXCEPT ![i] = IF @ = "bump" THEN "over" ELSE "bump"]
    /\ listed' = [listed EXCEPT ![i] = {}]
    /\ faulted' = TRUE
    /\ UNCHANGED <<engine, at, verdict, caught, report>>

\* A scheduled run catches the error of addTestResult as if the test had
\* thrown it, and records an error instead ...
RecordAgain(i) ==
    /\ mode = "scheduled" /\ ~caught
    /\ phase[i] \in Unreliable
    /\ phase' = [phase EXCEPT ![i] = "select"]
    /\ verdict' = [verdict EXCEPT ![i] = "error"]
    /\ listed' = [listed EXCEPT ![i] = {}]
    /\ caught' = TRUE
    /\ faulted' = TRUE
    /\ UNCHANGED <<engine, at, report>>

\* ... and an error of that call ends the run, its report still running.
GiveUp(i) ==
    /\ mode = "scheduled" /\ caught
    /\ phase[i] \in Unreliable
    /\ phase' = [phase EXCEPT ![i] = "lost"]
    /\ at' = "answered"
    /\ faulted' = TRUE
    /\ UNCHANGED <<engine, verdict, listed, caught, report>>

\* Mutant: a run in which something passed has not failed.
OutcomeByAny == IF \E i \in Tests : verdict[i] = "passed" THEN "completed"
                                                           ELSE "failed"

\* What the handler makes of the verdicts it has collected.
Outcome == IF \A i \in Tests : verdict[i] = "passed" THEN "completed"
                                                      ELSE "failed"

AllRun == \/ Finished = Tests /\ mode # "scheduled"
          \/ In("over") = Tests

\* completeRunReport, once every test has returned: its callback may not have.
CompleteRunReport ==
    /\ at = "loop" /\ AllRun
    /\ at' = "answered"
    /\ report' = [report EXCEPT !.status = Outcome]
    /\ UNCHANGED <<engine, phase, verdict, listed, caught, faulted>>

CompleteFails ==
    /\ at = "loop" /\ AllRun
    /\ "complete" \in Unreliable
    /\ at' = "answered"
    /\ faulted' = TRUE
    /\ UNCHANGED <<engine, phase, verdict, listed, caught, report>>

\* The process ends, with every test and callback that is under way.
Die ==
    /\ MayDie
    /\ at \in {"loop", "answered"}
    /\ at' = "dead"
    /\ phase' = [i \in Tests |-> IF phase[i] = "over" THEN "over" ELSE "lost"]
    /\ faulted' = TRUE
    /\ UNCHANGED <<engine, verdict, listed, caught, report>>

Work(i) ==
    \/ Dispatch(i)
    \/ \E v \in Verdict, output, thrown \in BOOLEAN : Finish(i, v, output, thrown)
    \/ SelectResults(i)
    \/ AppendResult(i)
    \/ BumpProgress(i)
    \/ CallbackFails(i)
    \/ RecordAgain(i)
    \/ GiveUp(i)

Complete == CompleteRunReport \/ CompleteFails

Next == StartRun \/ Complete \/ Die \/ \E i \in Tests : Work(i)

Spec == Init /\ [][Next]_vars

\* A query answers or fails, a test runs into its timeout at the latest, and
\* the loop is the only caller of its own continuation.
FairSpec == Spec /\ WF_vars(Complete) /\ \A i \in Tests : WF_vars(Work(i))

(***************************************************************************)
(* Properties.                                                             *)
(***************************************************************************)

TypeOK ==
    /\ mode \in Mode
    /\ at \in {"idle", "loop", "answered", "dead"}
    /\ phase \in [Tests -> Phase]
    /\ verdict \in [Tests -> Verdict]
    /\ saw \in [Tests -> SUBSET Tests]
    /\ chainVars \subseteq Tests
    /\ listed \in [Tests -> SUBSET Tests]
    /\ caught \in BOOLEAN
    /\ report \in Report
    /\ faulted \in BOOLEAN

\* A test of a chained or scheduled run executes with the output of every
\* earlier test that had one, and of no other: detectChainMode's "correctness
\* over throughput".
ChainSeesPrevious ==
    mode # "parallel"
        => \A i \in In("run") : /\ Before(i) \subseteq Finished
                                /\ saw[i] = chainVars

\* A report is 'completed' only if every test of the run passed, whatever of
\* the callbacks was lost.  What a scheduled run has recorded is complete: every
\* result that is counted is listed, because it waits for one before it starts
\* the next.  An interactive report never lists more than it counts; the list
\* may be short of results that two callbacks wrote over each other.
ReportsAddUp ==
    LET Named(v) == Cardinality({i \in report.results : verdict[i] = v})
    IN  /\ report.status = "completed" => \A i \in Tests : verdict[i] = "passed"
        /\ mode = "scheduled" => report.results = In("over")
                                 /\ report.total = Cardinality(report.results)
        /\ \A v \in Verdict : IF mode = "scheduled" THEN Named(v) = report.count[v]
                              ELSE Named(v) <= report.count[v]

\* However the callbacks interleave, the counters of a run end at the number
\* of its tests, and its report is closed, unless a query failed.
Tallied ==
    /\ report.status \in {"completed", "failed"}
    /\ report.total = N
    /\ \A v \in Verdict :
          report.count[v] = Cardinality({i \in Tests : verdict[i] = v})
    /\ mode # "scheduled" => report.progress = N
ReportsSettle == at = "loop" ~> Tallied \/ faulted
=============================================================================
