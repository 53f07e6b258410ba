------------------------------ MODULE TestRuns ------------------------------
(***************************************************************************)
(* Manual test runs in testgenie-backend: one run, its list of cases, the  *)
(* result row of each case, and the requests of testers and planners.      *)
(*                                                                         *)
(* The list (test_case_ids) and the steps of a row (step_results) are JSON *)
(* columns, read, edited and written back whole.  job[q].at is the await   *)
(* request q is suspended at; job[q].alone is a history variable: nobody   *)
(* else has written since q began.                                         *)
(***************************************************************************)
EXTENDS Naturals, FiniteSets

CONSTANTS
    NULL,
    Case, Step,
    StepsOf,        \* the steps testers mark of each case (a bound)
    Deletable,      \* the test cases that are deleted (a bound)
    Request,        \* requests in flight at once (a bound)
    StepMarks,      \* verdicts testers give to steps ...
    CaseMarks,      \* ... and to whole cases (bounds on the inputs)
    Plans,          \* lists that create and PATCH write, and ...
    Manual,         \* ... states that they set (bounds on the inputs)
    Shared,         \* cases that more than one tester works on at a time
    Fatal           \* awaits at which a request may die, or its query fail

Verdict == {"untested", "passed", "failed", "blocked", "skipped", "retest"}
Done == {"passed", "failed", "blocked", "skipped"}
RunState == {"new", "in_progress", "completed", "closed"}

ASSUME TestRunsAssumption ==
    /\ IsFiniteSet(Case)
    /\ NULL \notin Verdict \cup Case
    /\ StepsOf \in [Case -> SUBSET Step]
    /\ StepMarks \subseteq Verdict /\ CaseMarks \subseteq Verdict
    /\ Plans \subseteq SUBSET Case
    /\ Manual \subseteq RunState

VARIABLES
    live,           \* test_cases: the ids that exist
    run,            \* the row of test_runs: state and list, or NULL
    result,         \* test_run_results: status and steps of a case, or NULL
    job,            \* requests in flight
    edited          \* history: the run's state owes something to an edit

vars == <<live, run, result, job, edited>>

Steps == [Step -> Verdict \cup {NULL}]
Blank == [i \in Step |-> NULL]
RunRow == [state : RunState, list : SUBSET Case]
ResultRow == [status : Verdict, steps : Steps]
Untested == [status |-> "untested", steps |-> Blank]
ASSUME RowsAssumption == NULL \notin RunRow \cup ResultRow

Await == {"idle", "step", "note", "read", "count", "save",
          "append", "seed", "filter", "unseed"}
Job == [at : Await, case : Case \cup {NULL}, step : Step \cup {NULL},
        mark : Verdict, seen : Steps, state : RunState,
        cases : SUBSET Case, todo : SUBSET Case, alone : BOOLEAN]
Idle == [at |-> "idle", case |-> NULL, step |-> NULL, mark |-> "untested",
         seen |-> Blank, state |-> "new", cases |-> {}, todo |-> {},
         alone |-> FALSE]

Init ==
    /\ live = {}
    /\ run = NULL
    /\ result = [c \in Case |-> NULL]
    /\ job = [q \in Request |-> Idle]
    /\ edited = FALSE

At(q, await) == job[q].at = await
Busy == {q \in Request : ~At(q, "idle")}

\* Request q goes on to j without having written; with a write, the others
\* are no longer alone.
Goto(q, j) == job' = [job EXCEPT ![q] = j]
Interrupt(Q, jobs) == [p \in Request |-> IF p \in Q
                                         THEN [jobs[p] EXCEPT !.alone = FALSE]
                                         ELSE jobs[p]]
Wrote(q, j) == job' = Interrupt(Request \ {q}, [job EXCEPT ![q] = j])
WroteAtOnce == job' = Interrupt(Request, job)

\* A request that has no more use for what it remembers.
Then(q, await) == [Idle EXCEPT !.at = await, !.alone = job[q].alone]

Executed(rows) == {c \in Case : rows[c] # NULL /\ rows[c].status \in Done}

\* deriveCaseStatusFromSteps: a step nobody has marked does not count.
Derive(steps) ==
    LET marks == {steps[i] : i \in Step} \ {NULL}
    IN  CASE "failed" \in marks -> "failed"
          [] "failed" \notin marks /\ "blocked" \in marks -> "blocked"
          [] marks \cap {"failed", "blocked"} = {} /\ "retest" \in marks
                -> "retest"
          [] marks = {"passed"} -> "passed"
          [] marks = {"skipped"} -> "skipped"
          [] OTHER -> "untested"

\* Mutant: off by one.
NextStateEarly(state, executed, total) ==
    IF executed = 0 THEN "new"
    ELSE IF executed + 1 < total THEN "in_progress" ELSE "completed"

\* maybeUpdateRunState, the decision.
NextState(state, executed, total) ==
    IF executed = 0 THEN "new"
    ELSE IF executed < total THEN "in_progress" ELSE "completed"

\* The state is what the rows and the list say.
Settled(row, rows) ==
    \/ row = NULL
    \/ row.list = {}
    \/ row.state = NextState(row.state, Cardinality(Executed(rows)),
                             Cardinality(row.list))

\* INSERT ... ON CONFLICT DO NOTHING.
Ensure(c) == IF result[c] = NULL THEN [result EXCEPT ![c] = Untested]
                                 ELSE result

\* A verdict taken back counts as an edit.
SetRows(rows) ==
    /\ result' = rows
    /\ edited' = (edited \/ ~(Executed(result) \subseteq Executed(rows)))

(***************************************************************************)
(* Test cases.  An id is free again once nothing remembers it.             *)
(***************************************************************************)

Remembered(c) == \/ run # NULL /\ c \in run.list
                 \/ \E q \in Busy : \/ job[q].case = c
                                    \/ c \in job[q].cases \cup job[q].todo

CreateCase(c) ==
    /\ c \notin live /\ ~Remembered(c)
    /\ live' = live \cup {c}
    /\ UNCHANGED <<run, result, job, edited>>

\* The result rows go with the case (ON DELETE CASCADE); lists keep its id.
DeleteCase(c) ==
    /\ c \in live \cap Deletable
    /\ live' = live \ {c}
    /\ SetRows([result EXCEPT ![c] = NULL])
    /\ WroteAtOnce
    /\ UNCHANGED run

(***************************************************************************)
(* Runs: single statements.                                                *)
(***************************************************************************)

\* create does not look at the ids it is given.
CreateRun(state, list) ==
    /\ run = NULL /\ Busy = {}
    /\ run' = [state |-> state, list |-> list]
    /\ edited' = (state # "new")
    /\ UNCHANGED <<live, result, job>>

\* createFromCases needs one id that exists, to find the project.
CreateFromCases(list) == list \cap live # {} /\ CreateRun("new", list)

\* update writes whatever fields the body has.
UpdateRun(state, list) ==
    /\ run # NULL
    /\ run' = [state |-> state, list |-> list]
    /\ run' # run
    /\ edited' = TRUE
    /\ WroteAtOnce
    /\ UNCHANGED <<live, result>>

RemoveRun ==
    /\ run # NULL
    /\ run' = NULL
    /\ result' = [c \in Case |-> NULL]
    /\ edited' = FALSE
    /\ WroteAtOnce
    /\ UNCHANGED live

\* setCaseAssignee: the row it makes sure of is all that matters here.
SetCaseAssignee(c) ==
    /\ run # NULL /\ c \in live
    /\ result[c] = NULL
    /\ result' = Ensure(c)
    /\ WroteAtOnce
    /\ UNCHANGED <<live, run, edited>>

(***************************************************************************)
(* Results.                                                                *)
(***************************************************************************)

Unoccupied(c) == c \in Shared \/ \A q \in Busy : ~( /\ job[q].case = c
                                                    /\ job[q].at \in
                                                          {"step", "note"})

\* setStepResult and setStepNote up to the UPDATE: the row is made sure of,
\* then its steps are read.  A missing run or case is an error.
OpenSteps(q, await, c, i, v) ==
    /\ At(q, "idle") /\ Unoccupied(c)
    /\ run # NULL /\ c \in live
    /\ result' = Ensure(c)
    /\ LET j == [Idle EXCEPT !.at = await, !.case = c, !.step = i,
                             !.mark = v, !.seen = Ensure(c)[c].steps,
                             !.alone = TRUE]
       IN  IF result[c] = NULL THEN Wrote(q, j) ELSE Goto(q, j)
    /\ UNCHANGED <<live, run, edited>>

SetStepResult(q, c, i, v) == OpenSteps(q, "step", c, i, v)
SetStepNote(q, c, i) == OpenSteps(q, "note", c, i, "untested")

Update(q, steps, status) ==
    LET c == job[q].case
    IN  SetRows(IF result[c] = NULL
                THEN result
                ELSE [result EXCEPT ![c] = [status |-> status,
                                            steps |-> steps]])

\* Mutant: the steps that were read are not written back.
SaveStepAlone(q) ==
    LET steps == [Blank EXCEPT ![job[q].step] = job[q].mark]
    IN  /\ At(q, "step")
        /\ Update(q, steps, Derive(steps))
        /\ Wrote(q, Then(q, "read"))
        /\ UNCHANGED <<live, run>>

\* Writes all steps; finds no row if the case has left the run meanwhile.
SaveStep(q) ==
    LET steps == [job[q].seen EXCEPT ![job[q].step] = job[q].mark]
    IN  /\ At(q, "step")
        /\ Update(q, steps, Derive(steps))
        /\ Wrote(q, Then(q, "read"))
        /\ UNCHANGED <<live, run>>

\* A note on a step without a verdict makes it untested; the status stays.
SaveNote(q) ==
    LET j == job[q]
        steps == [j.seen EXCEPT ![j.step] = IF @ = NULL THEN "untested"
                                                        ELSE @]
    IN  /\ At(q, "note")
        /\ Update(q, steps, IF result[j.case] = NULL
                            THEN "untested" ELSE result[j.case].status)
        /\ Wrote(q, Idle)
        /\ UNCHANGED <<live, run>>

\* setResult: one upsert, which leaves the steps alone.
SetResult(q, c, v) ==
    /\ At(q, "idle")
    /\ run # NULL /\ c \in live
    /\ SetRows([result EXCEPT ![c] = [status |-> v,
                                      steps |-> Ensure(c)[c].steps]])
    /\ Wrote(q, [Idle EXCEPT !.at = "read", !.alone = TRUE])
    /\ UNCHANGED <<live, run>>

\* A request that nobody interrupted and that is the last one in flight has
\* settled the state for everybody.
Settles(q) ==
    /\ Wrote(q, Idle)
    /\ edited' = IF job[q].alone /\ Busy = {q} THEN FALSE ELSE edited

\* maybeUpdateRunState: the run, the counts, the update.
ReadRun(q) ==
    /\ At(q, "read")
    /\ IF run = NULL \/ run.list = {}
       THEN Goto(q, Idle)
       ELSE Goto(q, [job[q] EXCEPT !.at = "count", !.state = run.state,
                                   !.cases = run.list])
    /\ UNCHANGED <<live, run, result, edited>>

\* Mutant: a completed run stays completed.
CountResultsOnce(q) ==
    LET next == NextState(job[q].state, Cardinality(Executed(result)),
                          Cardinality(job[q].cases))
    IN  /\ At(q, "count")
        /\ IF next = job[q].state \/ job[q].state = "completed"
           THEN Settles(q)
           ELSE /\ Goto(q, [Then(q, "save") EXCEPT !.state = next])
                /\ UNCHANGED edited
        /\ UNCHANGED <<live, run, result>>

CountResults(q) ==
    LET next == NextState(job[q].state, Cardinality(Executed(result)),
                          Cardinality(job[q].cases))
    IN  /\ At(q, "count")
        /\ IF next = job[q].state
           THEN Settles(q)
           ELSE /\ Goto(q, [Then(q, "save") EXCEPT !.state = next])
                /\ UNCHANGED edited
        /\ UNCHANGED <<live, run, result>>

SaveState(q) ==
    /\ At(q, "save")
    /\ run' = IF run = NULL THEN NULL
                            ELSE [run EXCEPT !.state = job[q].state]
    /\ Settles(q)
    /\ UNCHANGED <<live, result>>

(***************************************************************************)
(* The list of cases.                                                      *)
(***************************************************************************)

\* addCases up to the UPDATE: ids that are listed, or do not exist, drop out.
AddCases(q, ids) ==
    LET valid == (ids \ run.list) \cap live
    IN  /\ At(q, "idle") /\ run # NULL
        /\ valid # {}
        /\ Goto(q, [Idle EXCEPT !.at = "append", !.todo = valid,
                                !.cases = run.list \cup valid,
                                !.alone = TRUE])
        /\ UNCHANGED <<live, run, result, edited>>

WriteList(q, await) ==
    /\ run' = IF run = NULL THEN NULL ELSE [run EXCEPT !.list = job[q].cases]
    /\ edited' = (run # NULL)
    /\ Wrote(q, [job[q] EXCEPT !.at = await, !.cases = {}])
    /\ UNCHANGED <<live, result>>

AppendCases(q) == At(q, "append") /\ WriteList(q, "seed")

\* One INSERT per case; the first that violates a foreign key ends the call.
SeedCase(q, c) ==
    /\ At(q, "seed") /\ c \in job[q].todo
    /\ IF run = NULL \/ c \notin live
       THEN Goto(q, Idle) /\ UNCHANGED result
       ELSE /\ result' = Ensure(c)
            /\ Wrote(q, IF job[q].todo = {c}
                        THEN Idle
                        ELSE [job[q] EXCEPT !.todo = @ \ {c}])
    /\ UNCHANGED <<live, run, edited>>

RemoveCase(q, c) ==
    /\ At(q, "idle") /\ run # NULL
    /\ Goto(q, [Idle EXCEPT !.at = "filter", !.case = c,
                            !.cases = run.list \ {c}, !.alone = TRUE])
    /\ UNCHANGED <<live, run, result, edited>>

FilterCases(q) == At(q, "filter") /\ WriteList(q, "unseed")

UnseedCase(q) ==
    /\ At(q, "unseed")
    /\ SetRows([result EXCEPT ![job[q].case] = NULL])
    /\ Wrote(q, Idle)
    /\ UNCHANGED <<live, run>>

\* A death, or a query that fails: the rest of the request never happens.
Fail(q) ==
    /\ job[q].at \in Fatal \ {"idle"}
    /\ Goto(q, Idle)
    /\ UNCHANGED <<live, run, result, edited>>

Record(q) ==
    \/ \E c \in Case :
          \/ \E i \in StepsOf[c] : \/ \E v \in StepMarks : SetStepResult(q, c, i, v)
                                   \/ SetStepNote(q, c, i)
          \/ \E v \in CaseMarks : SetResult(q, c, v)
    \/ SaveStep(q)
    \/ SaveNote(q)
    \/ ReadRun(q)
    \/ CountResults(q)
    \/ SaveState(q)

EditList(q) ==
    \/ \E ids \in Plans : AddCases(q, ids)
    \/ AppendCases(q)
    \/ \E c \in Case : SeedCase(q, c)
    \/ \E c \in Case : RemoveCase(q, c)
    \/ FilterCases(q)
    \/ UnseedCase(q)

Manage ==
    \/ \E c \in Case : CreateCase(c) \/ DeleteCase(c) \/ SetCaseAssignee(c)
    \/ \E list \in Plans : CreateFromCases(list)
    \/ \E state \in Manual, list \in Plans :
          CreateRun(state, list) \/ UpdateRun(state, list)
    \/ RemoveRun

Next ==
    \/ Manage
    \/ \E q \in Request : Record(q) \/ EditList(q) \/ Fail(q)

Spec == Init /\ [][Next]_vars

(***************************************************************************)
(* Properties.                                                             *)
(***************************************************************************)

TypeOK ==
    /\ live \subseteq Case
    /\ run \in RunRow \cup {NULL}
    /\ result \in [Case -> ResultRow \cup {NULL}]
    /\ job \in [Request -> Job]
    /\ edited \in BOOLEAN

\* Testers alone never complete a run early, however their requests overlap
\* and whichever of them die: a run nobody has edited is completed only when
\* as many cases are executed as its list is long.
NeverDoneEarly ==
    run # NULL /\ ~edited /\ run.state = "completed"
        => Cardinality(Executed(result)) >= Cardinality(run.list)

\* A request that records a result, and that no other write came between,
\* leaves the run in the state its rows and its list call for.
SerialResultsSettle ==
    [][\A q \in Request :
          /\ job[q].at \in {"step", "read", "count", "save"} \ Fatal
          /\ job[q].alone
          /\ job'[q] = Idle
          => Settled(run', result')]_vars

\* A tester who has a case to himself loses none of its steps, whoever edits
\* the list or works on other cases: StepSheet, over the unshared cases.
Sheet == INSTANCE StepSheet WITH
    Case <- Case \ Shared,
    sheet <- [c \in Case \ Shared |->
                IF result[c] = NULL THEN Blank ELSE result[c].steps]
ImplementsSheet == Sheet!Spec
=============================================================================
