--------------------------- MODULE TestRunsProofs ---------------------------
(***************************************************************************)
(* What holds of a test run for every number of cases, steps and requests, *)
(* wherever requests overlap or die: testers alone never complete it       *)
(* early, a request that nobody came between leaves it settled, and a      *)
(* tester who has a case to himself loses no step (StepSheet).             *)
(*                                                                         *)
(* The inductive invariant says what a request may count on between two    *)
(* awaits: while nobody else has written, that the run is as it read it;   *)
(* while nobody has edited, that the list it counts against is the run's,  *)
(* and that a completion it is about to write has been earned; and, if the *)
(* case is its own, that the steps it read are the row's.                  *)
(***************************************************************************)
EXTENDS TestRuns, FiniteSetTheorems, TLAPS

OnSteps(p) == job[p].at \in {"step", "note"}

\* What a request carries, by where it is.
Shape(j) ==
    /\ j.at \in {"step", "note"} => j.case \in Case /\ j.step \in Step
    /\ j.at \in {"filter", "unseed"} => j.case \in Case

\* As many cases are executed as the list is long.
Enough(list) == Cardinality(Executed(result)) >= Cardinality(list)

Called == NextState("new", Cardinality(Executed(result)), Cardinality(run.list))

\* What a request that goes on to settle the state knows of the run.
Knows(p) ==
    /\ At(p, "count") /\ job[p].alone
         => run # NULL /\ run.state = job[p].state /\ run.list = job[p].cases
    /\ At(p, "save") /\ job[p].alone => run # NULL /\ job[p].state = Called
    /\ At(p, "count") /\ ~edited /\ run # NULL => run.list = job[p].cases
    /\ At(p, "save") /\ ~edited /\ run # NULL /\ job[p].state = "completed"
         => Enough(run.list)

SheetIn(rows, c) == IF rows[c] = NULL THEN Blank ELSE rows[c].steps
SheetOf(c) == SheetIn(result, c)

\* A request on the steps of a case of one tester: there is no other, and the
\* row is as it read it, unless it was taken away.
Holds(p) ==
    OnSteps(p) /\ job[p].case \notin Shared
      => /\ SheetOf(job[p].case) \in {job[p].seen, Blank}
         /\ \A r \in Request : OnSteps(r) /\ job[r].case = job[p].case => r = p

\* The strengthening of the properties that is inductive.
RunsInv ==
    /\ TypeOK
    /\ NeverDoneEarly
    /\ \A p \in Request : Shape(job[p]) /\ Knows(p) /\ Holds(p)

(***************************************************************************)
(* Lemmas about the operators.                                             *)
(***************************************************************************)

LEMMA BlankIsSteps == Blank \in Steps /\ Untested \in ResultRow
BY DEF Blank, Steps, Untested, ResultRow, Verdict

LEMMA IdleIsAJob == Idle \in Job /\ Idle.at = "idle"
BY BlankIsSteps DEF Idle, Job, Await, Verdict, RunState

LEMMA DeriveTypes == ASSUME NEW steps PROVE Derive(steps) \in Verdict
BY DEF Derive, Verdict

LEMMA NextStateFacts ==
    ASSUME NEW s, NEW t, NEW m \in Nat, NEW n \in Nat
    PROVE  /\ NextState(s, m, n) \in RunState /\ NextState(s, m, n) = NextState(t, m, n)
           /\ NextState(s, m, n) = "completed" => m >= n
BY DEF NextState, RunState

LEMMA ExecutedIsFinite ==
    ASSUME NEW rows
    PROVE  /\ IsFiniteSet(Executed(rows)) /\ Cardinality(Executed(rows)) \in Nat
           /\ \A other : Executed(other) \subseteq Executed(rows)
                => Cardinality(Executed(other)) <= Cardinality(Executed(rows))
<1>1. IsFiniteSet(Executed(rows))
  BY FS_Subset, TestRunsAssumption DEF Executed
<1>2. QED
  BY <1>1, FS_Subset, FS_CardinalityType

LEMMA ListsAreFinite ==
    ASSUME NEW list \in SUBSET Case PROVE Cardinality(list) \in Nat
BY FS_Subset, FS_CardinalityType, TestRunsAssumption

LEMMA EnsureFacts ==
    ASSUME TypeOK, NEW c \in Case
    PROVE  /\ Ensure(c) \in [Case -> ResultRow \cup {NULL}]
           /\ Ensure(c)[c] \in ResultRow /\ Ensure(c)[c].steps = SheetOf(c)
           /\ \A d \in Case \ {c} : Ensure(c)[d] = result[d]
           /\ result[c] # NULL => Ensure(c) = result
           /\ Executed(Ensure(c)) = Executed(result)
           /\ \A d \in Case : SheetIn(Ensure(c), d) = SheetOf(d)
<1>1. result \in [Case -> ResultRow \cup {NULL}]
  BY DEF TypeOK
<1>2. Untested \in ResultRow /\ Untested.status = "untested" /\ Untested.steps = Blank
  BY BlankIsSteps DEF Untested
<1>3. Untested # NULL
  BY <1>2, RowsAssumption
<1>4. CASE result[c] = NULL
  <2>1. Ensure(c) = [result EXCEPT ![c] = Untested]
    BY <1>4 DEF Ensure
  <2>2. \A d \in Case : Ensure(c)[d] = IF d = c THEN Untested ELSE result[d]
    BY <1>1, <2>1
  <2>3. Ensure(c) \in [Case -> ResultRow \cup {NULL}]
    BY <1>1, <1>2, <2>1
  <2>4. Executed(Ensure(c)) = Executed(result)
    BY <1>2, <1>4, <2>2 DEF Executed, Done
  <2>5. QED
    BY <1>2, <1>3, <1>4, <2>2, <2>3, <2>4 DEF SheetOf, SheetIn
<1>5. CASE result[c] # NULL
  BY <1>1, <1>5 DEF Ensure, SheetOf, SheetIn
<1>6. QED
  BY <1>4, <1>5

(***************************************************************************)
(* What a step does to the requests that do not take it.                   *)
(***************************************************************************)

Stays(p) ==
    /\ job'[p].at = job[p].at /\ job'[p].case = job[p].case
    /\ job'[p].step = job[p].step /\ job'[p].seen = job[p].seen
    /\ job'[p].state = job[p].state /\ job'[p].cases = job[p].cases
    /\ job'[p].alone => job[p].alone

\* The step has not disturbed a request that is still alone.
Undisturbed ==
    run' = run /\ Executed(result)' = Executed(result)

\* Whoever has edited, it shows; and nobody has taken a verdict back.
Calm ==
    ~edited' /\ run' # NULL
      => ~edited /\ run' = run /\ Executed(result) \subseteq Executed(result)'

LEMMA GoesOn ==
    ASSUME TypeOK, NEW q \in Request, NEW j \in Job, Goto(q, j) \/ Wrote(q, j)
    PROVE  /\ job' \in [Request -> Job] /\ job'[q] = j
           /\ \A p \in Request \ {q} : Stays(p)
           /\ Wrote(q, j) => \A p \in Request \ {q} : ~job'[p].alone
<1>1. job \in [Request -> Job]
  BY DEF TypeOK
<1>2. CASE Goto(q, j) /\ ~Wrote(q, j)
  BY <1>1, <1>2 DEF Goto, Stays
<1>3. CASE Wrote(q, j)
  <2>1. \A p \in Request :
           job'[p] = IF p = q THEN j ELSE [job[p] EXCEPT !.alone = FALSE]
    BY <1>1, <1>3 DEF Wrote, Interrupt
  <2>2. ASSUME NEW p \in Request \ {q}
        PROVE  job'[p] \in Job /\ Stays(p) /\ ~job'[p].alone
    <3>1. job'[p] = [job[p] EXCEPT !.alone = FALSE] /\ job[p] \in Job
      BY <1>1, <2>1
    <3>2. QED
      BY <3>1 DEF Job, Stays
  <2>3. job' = [p \in Request |-> job'[p]]
    BY <1>3 DEF Wrote, Interrupt
  <2>4. job' \in [Request -> Job]
    BY <2>1, <2>2, <2>3
  <2>5. QED
    BY <2>1, <2>2, <2>4
<1>4. QED
  BY <1>2, <1>3

LEMMA AllInterrupted ==
    ASSUME TypeOK, WroteAtOnce
    PROVE  /\ job' \in [Request -> Job]
           /\ \A p \in Request : Stays(p) /\ ~job'[p].alone
<1>1. job \in [Request -> Job]
  BY DEF TypeOK
<1>2. ASSUME NEW p \in Request
      PROVE  job'[p] \in Job /\ Stays(p) /\ ~job'[p].alone
  <2>1. job'[p] = [job[p] EXCEPT !.alone = FALSE] /\ job[p] \in Job
    BY <1>1 DEF WroteAtOnce, Interrupt
  <2>2. QED
    BY <2>1 DEF Job, Stays
<1>3. job' = [p \in Request |-> job'[p]]
  BY DEF WroteAtOnce, Interrupt
<1>4. QED
  BY <1>2, <1>3

\* What a request knows of the run, it still knows.
LEMMA StillKnows ==
    ASSUME RunsInv, NEW p \in Request, Stays(p), job'[p].alone => Undisturbed,
           \/ Calm
           \/ At(p, "idle")
           \/ ~edited /\ run # NULL /\ run' # NULL /\ run'.list = run.list
              /\ Executed(result)' = Executed(result)
    PROVE  Knows(p)'
<1>1. Knows(p)
  BY DEF RunsInv
<1>2. At(p, "count")' /\ job'[p].alone
        => run' # NULL /\ run'.state = job'[p].state /\ run'.list = job'[p].cases
  BY <1>1 DEF Knows, Stays, At, Undisturbed
<1>3. At(p, "save")' /\ job'[p].alone => run' # NULL /\ job'[p].state = Called'
  BY <1>1 DEF Knows, Stays, At, Undisturbed, Called
<1>4. At(p, "count")' /\ ~edited' /\ run' # NULL => run'.list = job'[p].cases
  BY <1>1 DEF Knows, Stays, At, Calm
<1>5. At(p, "save")' /\ ~edited' /\ run' # NULL /\ job'[p].state = "completed"
        => Enough(run.list)'
  <2> SUFFICES ASSUME At(p, "save")', ~edited', run' # NULL, job'[p].state = "completed"
               PROVE  Enough(run.list)'
    OBVIOUS
  <2>1. /\ ~edited /\ run # NULL /\ run'.list = run.list
        /\ Executed(result) \subseteq Executed(result)'
    BY DEF Calm, At, Stays
  <2>2. Enough(run.list) /\ run.list \in SUBSET Case
    BY <1>1, <2>1 DEF Knows, At, Stays, RunsInv, TypeOK, RunRow
  <2>3. /\ Cardinality(Executed(result)) \in Nat /\ Cardinality(Executed(result))' \in Nat
        /\ Cardinality(Executed(result)) <= Cardinality(Executed(result))'
    BY <2>1, ExecutedIsFinite
  <2>4. QED
    BY <2>1, <2>2, <2>3, ListsAreFinite DEF Enough
<1>6. QED
  BY <1>2, <1>3, <1>4, <1>5 DEF Knows

\* The sheets of a case stay, or go blank.
Kept(c) == SheetOf(c)' \in {SheetOf(c), Blank}

LEMMA StillHolds ==
    ASSUME RunsInv, NEW p \in Request, Stays(p),
           \A c : OnSteps(p) /\ job[p].case = c /\ c \notin Shared => Kept(c),
           \A r \in Request \ {p} : OnSteps(r)' /\ job'[r].case = job[p].case
              /\ OnSteps(p) /\ job[p].case \notin Shared => OnSteps(r) /\ Stays(r)
    PROVE  Holds(p)'
BY DEF RunsInv, Holds, Stays, OnSteps, Kept, SheetOf

LEMMA CalmIsNeverDoneEarly ==
    ASSUME RunsInv, Calm PROVE NeverDoneEarly'
<1> SUFFICES ASSUME run' # NULL, ~edited', run'.state = "completed"
             PROVE  Enough(run.list)'
  BY DEF NeverDoneEarly, Enough
<1>1. ~edited /\ run' = run /\ Executed(result) \subseteq Executed(result)'
  BY DEF Calm
<1>2. Enough(run.list) /\ run.list \in SUBSET Case
  BY <1>1 DEF RunsInv, NeverDoneEarly, Enough, TypeOK, RunRow
<1>3. /\ Cardinality(Executed(result)) \in Nat /\ Cardinality(Executed(result))' \in Nat
      /\ Cardinality(Executed(result)) <= Cardinality(Executed(result))'
  BY <1>1, ExecutedIsFinite
<1>4. QED
  BY <1>1, <1>2, <1>3, ListsAreFinite DEF Enough

(***************************************************************************)
(* Steps of requests.                                                      *)
(***************************************************************************)

TablesTyped ==
    /\ live \subseteq Case /\ run \in RunRow \cup {NULL}
    /\ result \in [Case -> ResultRow \cup {NULL}] /\ edited \in BOOLEAN

\* A request goes on, and is not on the steps of a case afterwards.
LEMMA RequestKeepsInv ==
    ASSUME RunsInv, TablesTyped', NEW q \in Request, NEW j \in Job,
           Wrote(q, j) \/ (Goto(q, j) /\ Undisturbed),
           Shape(j), j.at \notin {"step", "note"}, Knows(q)', NeverDoneEarly',
           \A p \in Request \ {q} :
              \/ Calm
              \/ At(p, "idle")
              \/ ~edited /\ run # NULL /\ run' # NULL /\ run'.list = run.list
                 /\ Executed(result)' = Executed(result),
           \A c \in Case \ Shared :
              Kept(c) \/ (OnSteps(q) /\ job[q].case = c)
    PROVE  RunsInv'
<1>1. TypeOK
  BY DEF RunsInv
<1>2. /\ job' \in [Request -> Job] /\ job'[q] = j
      /\ \A p \in Request \ {q} : Stays(p)
      /\ Wrote(q, j) => \A p \in Request \ {q} : ~job'[p].alone
  BY <1>1, GoesOn
<1>3. TypeOK'
  BY <1>2 DEF TypeOK, TablesTyped
<1>4. \A p \in Request \ {q} : job'[p].alone => Undisturbed
  BY <1>2
<1>5. ~OnSteps(q)'
  BY <1>2 DEF OnSteps
<1>6. ASSUME NEW p \in Request \ {q} PROVE Shape(job[p])' /\ Knows(p)' /\ Holds(p)'
  <2>1. Shape(job[p])'
    BY <1>2 DEF RunsInv, Shape, Stays
  <2>2. Knows(p)'
    BY <1>2, <1>4, StillKnows
  <2>3. ASSUME NEW c, OnSteps(p), job[p].case = c, c \notin Shared PROVE Kept(c)
    <3>1. c \in Case
      BY <2>3 DEF RunsInv, Shape, OnSteps
    <3>2. ~(OnSteps(q) /\ job[q].case = c)
      BY <2>3 DEF RunsInv, Holds
    <3>3. QED
      BY <2>3, <3>1, <3>2
  <2>4. \A r \in Request \ {p} : OnSteps(r)' => OnSteps(r) /\ Stays(r)
    BY <1>2, <1>5 DEF OnSteps, Stays
  <2>5. Holds(p)'
    BY <1>2, <2>3, <2>4, StillHolds
  <2>6. QED
    BY <2>1, <2>2, <2>5
<1>7. Shape(job[q])' /\ Holds(q)'
  BY <1>2, <1>5 DEF Shape, Holds
<1>8. QED
  BY <1>3, <1>6, <1>7 DEF RunsInv

\* The same of a request that does not settle the state.
LEMMA CalmRequestKeepsInv ==
    ASSUME RunsInv, TablesTyped', NEW q \in Request, NEW j \in Job,
           Wrote(q, j) \/ (Goto(q, j) /\ Undisturbed),
           Shape(j), j.at \notin {"step", "note", "count", "save"}, Calm,
           \A c \in Case \ Shared :
              Kept(c) \/ (OnSteps(q) /\ job[q].case = c)
    PROVE  RunsInv'
<1>1. NeverDoneEarly'
  BY CalmIsNeverDoneEarly
<1>2. job'[q] = j
  BY GoesOn DEF RunsInv
<1>3. Knows(q)'
  BY <1>2 DEF Knows, At
<1>4. QED
  BY <1>1, <1>3, RequestKeepsInv

\* And of a step that no request takes.
LEMMA ManagedKeepsInv ==
    ASSUME RunsInv, TablesTyped', Calm,
           WroteAtOnce \/ (UNCHANGED job /\ Undisturbed),
           \A c \in Case \ Shared : Kept(c)
    PROVE  RunsInv'
<1>1. TypeOK
  BY DEF RunsInv
<1>2. /\ job' \in [Request -> Job] /\ \A p \in Request : Stays(p)
      /\ \A p \in Request : job'[p].alone => Undisturbed
  <2>1. CASE WroteAtOnce
    BY <1>1, <2>1, AllInterrupted
  <2>2. CASE UNCHANGED job /\ Undisturbed
    BY <1>1, <2>2 DEF Stays, TypeOK
  <2>3. QED
    BY <2>1, <2>2
<1>3. TypeOK'
  BY <1>2 DEF TypeOK, TablesTyped
<1>4. NeverDoneEarly'
  BY CalmIsNeverDoneEarly
<1>5. ASSUME NEW p \in Request PROVE Shape(job[p])' /\ Knows(p)' /\ Holds(p)'
  <2>1. Shape(job[p])'
    BY <1>2 DEF RunsInv, Shape, Stays
  <2>2. Knows(p)'
    BY <1>2, StillKnows
  <2>3. ASSUME NEW c, OnSteps(p), job[p].case = c, c \notin Shared PROVE Kept(c)
    BY <2>3 DEF RunsInv, Shape, OnSteps
  <2>4. \A r \in Request \ {p} : OnSteps(r)' => OnSteps(r) /\ Stays(r)
    BY <1>2 DEF OnSteps, Stays
  <2>5. Holds(p)'
    BY <1>2, <2>3, <2>4, StillHolds
  <2>6. QED
    BY <2>1, <2>2, <2>5
<1>6. QED
  BY <1>3, <1>4, <1>5 DEF RunsInv

\* Statements that leave the rows as they are.
LEMMA SameRows ==
    ASSUME UNCHANGED result
    PROVE  /\ Executed(result)' = Executed(result)
           /\ \A c : Kept(c) /\ SheetOf(c)' = SheetOf(c)
BY DEF Executed, Kept, SheetOf, SheetIn

(***************************************************************************)
(* What a statement does to the rows.                                      *)
(***************************************************************************)

LEMMA EnsuredRows ==
    ASSUME TypeOK, NEW c \in Case, result' = Ensure(c)
    PROVE  /\ result' \in [Case -> ResultRow \cup {NULL}]
           /\ Executed(result)' = Executed(result)
           /\ \A d \in Case : Kept(d) /\ SheetOf(d)' = SheetOf(d)
BY EnsureFacts DEF Kept, SheetOf

LEMMA DeletedRow ==
    ASSUME TypeOK, NEW c \in Case, SetRows([result EXCEPT ![c] = NULL])
    PROVE  /\ result' \in [Case -> ResultRow \cup {NULL}] /\ edited' \in BOOLEAN
           /\ UNCHANGED run => Calm
           /\ \A d \in Case : Kept(d) /\ SheetOf(d)' = IF d = c THEN Blank ELSE SheetOf(d)
<1>1. result \in [Case -> ResultRow \cup {NULL}] /\ edited \in BOOLEAN
  BY DEF TypeOK
<1>2. /\ result' = [result EXCEPT ![c] = NULL]
      /\ edited' = (edited \/ ~(Executed(result) \subseteq Executed(result)'))
  BY DEF SetRows, Executed
<1>3. QED
  BY <1>1, <1>2 DEF Calm, Kept, SheetOf, SheetIn

LEMMA UpdatedRow ==
    ASSUME TypeOK, NEW q \in Request, NEW steps \in Steps, NEW status \in Verdict,
           NEW c \in Case, job[q].case = c, Update(q, steps, status)
    PROVE  /\ result' \in [Case -> ResultRow \cup {NULL}] /\ edited' \in BOOLEAN
           /\ UNCHANGED run => Calm
           /\ \A d \in Case \ {c} : Kept(d) /\ SheetOf(d)' = SheetOf(d)
           /\ SheetOf(c)' = IF result[c] = NULL THEN Blank ELSE steps
<1>1. result \in [Case -> ResultRow \cup {NULL}] /\ edited \in BOOLEAN
  BY DEF TypeOK
<1>2. PICK new : new = [status |-> status, steps |-> steps]
  OBVIOUS
<1>3. new \in ResultRow /\ new.steps = steps
  BY <1>2 DEF ResultRow
<1>4. new # NULL
  BY <1>3, RowsAssumption
<1>5. /\ result' = IF result[c] = NULL THEN result
                   ELSE [result EXCEPT ![c] = new]
      /\ edited' = (edited \/ ~(Executed(result) \subseteq Executed(result)'))
  BY <1>2 DEF Update, SetRows, Executed
<1>6. result' \in [Case -> ResultRow \cup {NULL}] /\ edited' \in BOOLEAN
  BY <1>1, <1>3, <1>5
<1>7. UNCHANGED run => Calm
  BY <1>1, <1>5 DEF Calm
<1>8. \A d \in Case \ {c} : result'[d] = result[d]
  BY <1>1, <1>5
<1>9. \A d \in Case \ {c} : Kept(d) /\ SheetOf(d)' = SheetOf(d)
  BY <1>8 DEF Kept, SheetOf, SheetIn
<1>10. SheetOf(c)' = IF result[c] = NULL THEN Blank ELSE steps
  BY <1>1, <1>3, <1>4, <1>5 DEF SheetOf, SheetIn
<1>11. QED
  BY <1>6, <1>7, <1>9, <1>10

LEMMA ThenIsAJob ==
    ASSUME TypeOK, NEW q \in Request, NEW await \in Await
    PROVE  Then(q, await) \in Job /\ Then(q, await).at = await
           /\ Then(q, await).alone = job[q].alone
BY BlankIsSteps DEF TypeOK, Then, Idle, Job, Verdict, RunState

(***************************************************************************)
(* One lemma for every action.                                             *)
(***************************************************************************)

LEMMA CreateCaseKeepsInv ==
    ASSUME RunsInv, NEW c \in Case, CreateCase(c) PROVE RunsInv'
<1>1. UNCHANGED <<run, result, job, edited>> /\ live' \subseteq Case
  BY DEF CreateCase, RunsInv, TypeOK
<1>2. TablesTyped'
  BY <1>1 DEF RunsInv, TypeOK, TablesTyped
<1>3. Undisturbed /\ Calm /\ \A d \in Case : Kept(d)
  BY <1>1, SameRows DEF Undisturbed, Calm
<1>4. QED
  BY <1>1, <1>2, <1>3, ManagedKeepsInv

LEMMA DeleteCaseKeepsInv ==
    ASSUME RunsInv, NEW c \in Case, DeleteCase(c) PROVE RunsInv'
<1>1. /\ SetRows([result EXCEPT ![c] = NULL]) /\ WroteAtOnce /\ UNCHANGED run
      /\ live' \subseteq Case
  BY DEF DeleteCase, RunsInv, TypeOK
<1>2. /\ result' \in [Case -> ResultRow \cup {NULL}] /\ edited' \in BOOLEAN
      /\ Calm /\ \A d \in Case : Kept(d)
  BY <1>1, DeletedRow DEF RunsInv
<1>3. TablesTyped'
  BY <1>1, <1>2 DEF RunsInv, TypeOK, TablesTyped
<1>4. QED
  BY <1>1, <1>2, <1>3, ManagedKeepsInv

LEMMA CreateRunKeepsInv ==
    ASSUME RunsInv, NEW state \in RunState, NEW list \in SUBSET Case,
           CreateRun(state, list)
    PROVE  RunsInv'
<1>1. /\ run' = [state |-> state, list |-> list] /\ edited' = (state # "new")
      /\ UNCHANGED <<live, result, job>> /\ Busy = {}
  BY DEF CreateRun
<1>2. run' \in RunRow /\ run'.state = state /\ edited' \in BOOLEAN
  BY <1>1 DEF RunRow
<1>3. TypeOK'
  BY <1>1, <1>2 DEF RunsInv, TypeOK
<1>4. NeverDoneEarly'
  BY <1>1, <1>2 DEF NeverDoneEarly
<1>5. \A p \in Request : job'[p].at = "idle"
  BY <1>1 DEF Busy, At
<1>6. \A p \in Request : Shape(job[p])' /\ Knows(p)' /\ Holds(p)'
  BY <1>5 DEF Shape, Knows, Holds, OnSteps, At
<1>7. QED
  BY <1>3, <1>4, <1>6 DEF RunsInv

LEMMA UpdateRunKeepsInv ==
    ASSUME RunsInv, NEW state \in RunState, NEW list \in SUBSET Case,
           UpdateRun(state, list)
    PROVE  RunsInv'
<1>1. /\ run' = [state |-> state, list |-> list] /\ edited' = TRUE /\ WroteAtOnce
      /\ UNCHANGED <<live, result>>
  BY DEF UpdateRun
<1>2. run' \in RunRow
  BY <1>1 DEF RunRow
<1>3. TablesTyped'
  BY <1>1, <1>2 DEF RunsInv, TypeOK, TablesTyped
<1>4. Calm /\ \A d \in Case : Kept(d)
  BY <1>1, SameRows DEF Calm
<1>5. QED
  BY <1>1, <1>3, <1>4, ManagedKeepsInv

LEMMA RemoveRunKeepsInv ==
    ASSUME RunsInv, RemoveRun PROVE RunsInv'
<1>1. /\ run' = NULL /\ result' = [c \in Case |-> NULL] /\ edited' = FALSE
      /\ WroteAtOnce /\ UNCHANGED live
  BY DEF RemoveRun
<1>2. TablesTyped'
  BY <1>1 DEF RunsInv, TypeOK, TablesTyped
<1>3. Calm /\ \A d \in Case : Kept(d)
  BY <1>1 DEF Calm, Kept, SheetOf, SheetIn
<1>4. QED
  BY <1>1, <1>2, <1>3, ManagedKeepsInv

LEMMA SetCaseAssigneeKeepsInv ==
    ASSUME RunsInv, NEW c \in Case, SetCaseAssignee(c) PROVE RunsInv'
<1>1. result' = Ensure(c) /\ WroteAtOnce /\ UNCHANGED <<live, run, edited>>
  BY DEF SetCaseAssignee
<1>2. /\ result' \in [Case -> ResultRow \cup {NULL}]
      /\ Executed(result)' = Executed(result) /\ \A d \in Case : Kept(d)
  BY <1>1, EnsuredRows DEF RunsInv
<1>3. TablesTyped'
  BY <1>1, <1>2 DEF RunsInv, TypeOK, TablesTyped
<1>4. Calm
  BY <1>1, <1>2 DEF Calm
<1>5. QED
  BY <1>1, <1>2, <1>3, <1>4, ManagedKeepsInv

\* A tester who has the case to himself finds nobody else on its steps.
LEMMA OpenStepsKeepsInv ==
    ASSUME RunsInv, NEW q \in Request, NEW await \in {"step", "note"}, NEW c \in Case,
           NEW i \in Step, NEW v \in Verdict, OpenSteps(q, await, c, i, v)
    PROVE  RunsInv'
<1>1. TypeOK
  BY DEF RunsInv
<1>2. PICK j : j = [Idle EXCEPT !.at = await, !.case = c, !.step = i, !.mark = v,
                                !.seen = Ensure(c)[c].steps, !.alone = TRUE]
  OBVIOUS
<1>3. /\ At(q, "idle") /\ Unoccupied(c) /\ result' = Ensure(c)
      /\ IF result[c] = NULL THEN Wrote(q, j) ELSE Goto(q, j)
      /\ UNCHANGED <<live, run, edited>>
  BY <1>2 DEF OpenSteps
<1>4. SheetOf(c) \in Steps
  BY <1>1, BlankIsSteps DEF TypeOK, SheetOf, SheetIn, ResultRow
<1>5. /\ j \in Job /\ j.at = await /\ j.case = c /\ j.step = i /\ j.seen = SheetOf(c)
  <2>1. Ensure(c)[c].steps = SheetOf(c)
    BY <1>1, EnsureFacts
  <2>2. QED
    BY <1>2, <1>4, <2>1 DEF Idle, Job, Await, RunState
<1>6. /\ result' \in [Case -> ResultRow \cup {NULL}]
      /\ Executed(result)' = Executed(result)
      /\ \A d \in Case : Kept(d) /\ SheetOf(d)' = SheetOf(d)
  BY <1>1, <1>3, EnsuredRows
<1>7. Calm /\ Undisturbed /\ NeverDoneEarly'
  <2>1. Calm /\ Undisturbed
    BY <1>3, <1>6 DEF Calm, Undisturbed
  <2>2. QED
    BY <2>1, CalmIsNeverDoneEarly
<1>8. /\ job' \in [Request -> Job] /\ job'[q] = j
      /\ \A p \in Request \ {q} : Stays(p)
  BY <1>1, <1>3, <1>5, GoesOn
<1>9. TypeOK'
  BY <1>1, <1>3, <1>6, <1>8 DEF TypeOK
<1>10. c \notin Shared => \A p \in Request : ~(OnSteps(p) /\ job[p].case = c)
  BY <1>3 DEF Unoccupied, Busy, At, OnSteps
<1>11. ASSUME NEW p \in Request \ {q} PROVE Shape(job[p])' /\ Knows(p)' /\ Holds(p)'
  <2>1. Shape(job[p])'
    BY <1>8 DEF RunsInv, Shape, Stays
  <2>2. Knows(p)'
    BY <1>7, <1>8, StillKnows
  <2>3. \A d : OnSteps(p) /\ job[p].case = d /\ d \notin Shared => Kept(d)
    BY <1>6 DEF RunsInv, Shape, OnSteps
  <2>4. \A r \in Request \ {p} : OnSteps(r)' /\ job'[r].case = job[p].case
           /\ OnSteps(p) /\ job[p].case \notin Shared => OnSteps(r) /\ Stays(r)
    BY <1>5, <1>8, <1>10 DEF OnSteps, Stays
  <2>5. Holds(p)'
    BY <1>8, <2>3, <2>4, StillHolds
  <2>6. QED
    BY <2>1, <2>2, <2>5
<1>12. Shape(job[q])' /\ Knows(q)'
  BY <1>5, <1>8 DEF Shape, Knows, At
<1>13. Holds(q)'
  <2> SUFFICES ASSUME c \notin Shared
               PROVE  /\ SheetOf(c)' \in {j.seen, Blank}
                      /\ \A r \in Request : OnSteps(r)' /\ job'[r].case = c => r = q
    BY <1>5, <1>8 DEF Holds, SheetOf
  <2>1. \A r \in Request \ {q} : ~(OnSteps(r)' /\ job'[r].case = c)
    BY <1>8, <1>10 DEF OnSteps, Stays
  <2>2. QED
    BY <1>5, <1>6, <2>1
<1>14. QED
  BY <1>7, <1>9, <1>11, <1>12, <1>13 DEF RunsInv

LEMMA SaveStepKeepsInv ==
    ASSUME RunsInv, NEW q \in Request, SaveStep(q) PROVE RunsInv'
<1>1. TypeOK /\ job[q] \in Job /\ Shape(job[q]) /\ At(q, "step")
  BY DEF RunsInv, TypeOK, SaveStep
<1>2. PICK c, steps : /\ c = job[q].case
                      /\ steps = [job[q].seen EXCEPT ![job[q].step] = job[q].mark]
  OBVIOUS
<1>3. c \in Case /\ steps \in Steps
  BY <1>1, <1>2 DEF Shape, At, Job, Steps
<1>4. /\ Update(q, steps, Derive(steps)) /\ Wrote(q, Then(q, "read"))
      /\ UNCHANGED <<live, run>>
  BY <1>2 DEF SaveStep
<1>5. /\ result' \in [Case -> ResultRow \cup {NULL}] /\ edited' \in BOOLEAN
      /\ Calm /\ \A d \in Case \ {c} : Kept(d)
  BY <1>1, <1>2, <1>3, <1>4, DeriveTypes, UpdatedRow
<1>6. TablesTyped'
  BY <1>1, <1>4, <1>5 DEF TypeOK, TablesTyped
<1>7. Then(q, "read") \in Job /\ Then(q, "read").at = "read"
  BY <1>1, ThenIsAJob DEF Await
<1>8. PICK j : j = Then(q, "read")
  OBVIOUS
<1>9. j \in Job /\ j.at = "read" /\ Shape(j) /\ Wrote(q, j)
  BY <1>4, <1>7, <1>8 DEF Shape
<1>10. QED
  BY <1>1, <1>2, <1>5, <1>6, <1>9, CalmRequestKeepsInv DEF OnSteps, At

LEMMA SaveNoteKeepsInv ==
    ASSUME RunsInv, NEW q \in Request, SaveNote(q) PROVE RunsInv'
<1>1. TypeOK /\ job[q] \in Job /\ Shape(job[q]) /\ At(q, "note")
  BY DEF RunsInv, TypeOK, SaveNote
<1>2. PICK c, steps, status :
         /\ c = job[q].case
         /\ steps = [job[q].seen EXCEPT ![job[q].step] = IF @ = NULL THEN "untested" ELSE @]
         /\ status = IF result[job[q].case] = NULL THEN "untested"
                     ELSE result[job[q].case].status
  OBVIOUS
<1>3. c \in Case /\ job[q].step \in Step /\ job[q].seen \in Steps
  BY <1>1, <1>2 DEF Shape, At, Job
<1>4. steps \in Steps /\ status \in Verdict
  BY <1>1, <1>2, <1>3 DEF Steps, TypeOK, ResultRow, Verdict
<1>5. Update(q, steps, status) /\ Wrote(q, Idle) /\ UNCHANGED <<live, run>>
  BY <1>2 DEF SaveNote
<1>6. /\ result' \in [Case -> ResultRow \cup {NULL}] /\ edited' \in BOOLEAN
      /\ Calm /\ \A d \in Case \ {c} : Kept(d)
  BY <1>1, <1>2, <1>3, <1>4, <1>5, UpdatedRow
<1>7. TablesTyped'
  BY <1>1, <1>5, <1>6 DEF TypeOK, TablesTyped
<1>8. PICK j : j = Idle
  OBVIOUS
<1>9. j \in Job /\ j.at = "idle" /\ Shape(j) /\ Wrote(q, j)
  BY <1>5, <1>8, IdleIsAJob DEF Shape
<1>10. QED
  BY <1>1, <1>2, <1>6, <1>7, <1>9, CalmRequestKeepsInv DEF OnSteps, At

LEMMA SetResultKeepsInv ==
    ASSUME RunsInv, NEW q \in Request, NEW c \in Case, NEW v \in Verdict, SetResult(q, c, v)
    PROVE  RunsInv'
<1>1. TypeOK /\ result \in [Case -> ResultRow \cup {NULL}]
  BY DEF RunsInv, TypeOK
<1>2. PICK new : new = [status |-> v, steps |-> Ensure(c)[c].steps]
  OBVIOUS
<1>3. /\ result' = [result EXCEPT ![c] = new]
      /\ edited' = (edited \/ ~(Executed(result) \subseteq Executed(result)'))
      /\ UNCHANGED <<live, run>>
  BY <1>2 DEF SetResult, SetRows, Executed
<1>4. new \in ResultRow /\ new.steps = SheetOf(c)
  BY <1>1, <1>2, EnsureFacts DEF ResultRow
<1>5. new # NULL
  BY <1>4, RowsAssumption
<1>6. \A d \in Case : Kept(d)
  <2>1. \A d \in Case : result'[d] = IF d = c THEN new ELSE result[d]
    BY <1>1, <1>3
  <2>2. QED
    BY <1>4, <1>5, <2>1 DEF Kept, SheetOf, SheetIn
<1>7. TablesTyped' /\ Calm
  BY <1>1, <1>3, <1>4 DEF TypeOK, TablesTyped, Calm
<1>8. PICK j : j = [Idle EXCEPT !.at = "read", !.alone = TRUE]
  OBVIOUS
<1>9. j \in Job /\ j.at = "read" /\ Shape(j) /\ Wrote(q, j)
  BY <1>8, IdleIsAJob DEF SetResult, Shape, Job, Await
<1>10. QED
  BY <1>6, <1>7, <1>9, CalmRequestKeepsInv

\* The run is as it is read.
LEMMA ReadRunKeepsInv ==
    ASSUME RunsInv, NEW q \in Request, ReadRun(q) PROVE RunsInv'
<1>1. TypeOK /\ job[q] \in Job /\ UNCHANGED <<live, run, result, edited>>
  BY DEF RunsInv, TypeOK, ReadRun
<1>2. TablesTyped' /\ Calm /\ Undisturbed /\ \A c \in Case : Kept(c)
  BY <1>1, SameRows DEF TypeOK, TablesTyped, Calm, Undisturbed
<1>3. CASE run = NULL \/ run.list = {}
  <2>1. PICK j : j = Idle
    OBVIOUS
  <2>2. j \in Job /\ j.at = "idle" /\ Shape(j) /\ Goto(q, j)
    BY <1>3, <2>1, IdleIsAJob DEF ReadRun, Shape
  <2>3. QED
    BY <1>2, <2>2, CalmRequestKeepsInv
<1>4. CASE ~(run = NULL \/ run.list = {})
  <2>1. PICK j : j = [job[q] EXCEPT !.at = "count", !.state = run.state, !.cases = run.list]
    OBVIOUS
  <2>2. run \in RunRow
    BY <1>1, <1>4 DEF TypeOK
  <2>3. /\ j \in Job /\ j.at = "count" /\ j.state = run.state /\ j.cases = run.list
        /\ Shape(j) /\ Goto(q, j)
    BY <1>1, <1>4, <2>1, <2>2 DEF ReadRun, Shape, Job, Await, RunRow
  <2>4. job'[q] = j
    BY <1>1, <2>3, GoesOn
  <2>5. Knows(q)'
    BY <1>1, <1>4, <2>3, <2>4 DEF Knows, At
  <2>6. NeverDoneEarly'
    BY <1>2, CalmIsNeverDoneEarly
  <2>7. QED
    BY <1>2, <2>3, <2>5, <2>6, RequestKeepsInv
<1>5. QED
  BY <1>3, <1>4

\* A request that settles the state was alone, and the last.
LEMMA SettledStep ==
    ASSUME RunsInv, NEW q \in Request, Settles(q), UNCHANGED <<live, result>>,
           run' \in RunRow \cup {NULL}, run = NULL => run' = NULL,
           run # NULL => run' # NULL /\ run'.list = run.list,
           NeverDoneEarly'
    PROVE  RunsInv'
<1>1. TypeOK /\ edited' = IF job[q].alone /\ Busy = {q} THEN FALSE ELSE edited
  BY DEF RunsInv, Settles
<1>2. TablesTyped'
  BY <1>1 DEF TypeOK, TablesTyped
<1>3. Executed(result)' = Executed(result) /\ \A c \in Case : Kept(c)
  BY SameRows
<1>4. PICK j : j = Idle
  OBVIOUS
<1>5. j \in Job /\ j.at = "idle" /\ Shape(j) /\ Wrote(q, j)
  BY <1>4, IdleIsAJob DEF Settles, Shape
<1>6. job'[q] = j
  BY <1>1, <1>5, GoesOn
<1>7. Knows(q)'
  BY <1>5, <1>6 DEF Knows, At
<1>8. ASSUME NEW p \in Request \ {q}
      PROVE  \/ Calm
             \/ At(p, "idle")
             \/ ~edited /\ run # NULL /\ run' # NULL /\ run'.list = run.list
                /\ Executed(result)' = Executed(result)
  <2>1. CASE Busy = {q}
    BY <2>1 DEF Busy
  <2>2. CASE Busy # {q}
    BY <1>1, <1>3, <2>2 DEF Calm
  <2>3. QED
    BY <2>1, <2>2
<1>9. QED
  BY <1>2, <1>3, <1>5, <1>7, <1>8, RequestKeepsInv

\* The next state is the one the rows and the list call for, if the list that
\* the request has read is still the run's.
LEMMA CountResultsKeepsInv ==
    ASSUME RunsInv, NEW q \in Request, CountResults(q) PROVE RunsInv'
<1>1. /\ TypeOK /\ job[q] \in Job /\ Knows(q) /\ At(q, "count")
      /\ UNCHANGED <<live, run, result>>
  BY DEF RunsInv, TypeOK, CountResults
<1>2. PICK next : next = NextState(job[q].state, Cardinality(Executed(result)),
                                   Cardinality(job[q].cases))
  OBVIOUS
<1>3. Cardinality(Executed(result)) \in Nat /\ Cardinality(job[q].cases) \in Nat
  BY <1>1, ExecutedIsFinite, ListsAreFinite DEF Job
<1>4. /\ next \in RunState
      /\ next = NextState("new", Cardinality(Executed(result)), Cardinality(job[q].cases))
      /\ next = "completed" => Enough(job[q].cases)
  BY <1>2, <1>3, NextStateFacts DEF Enough
<1>5. Executed(result)' = Executed(result) /\ Called' = Called /\ \A c \in Case : Kept(c)
  BY <1>1, SameRows DEF Called
<1>6. CASE next = job[q].state
  <2>1. Settles(q)
    BY <1>2, <1>6 DEF CountResults
  <2>2. NeverDoneEarly'
    <3>1. CASE job[q].alone /\ Busy = {q}
      <4>1. run # NULL /\ run.state = next /\ run.list = job[q].cases
        BY <1>1, <1>6, <3>1 DEF Knows
      <4>2. QED
        BY <1>1, <1>4, <4>1 DEF NeverDoneEarly, Enough, Executed
    <3>2. CASE ~(job[q].alone /\ Busy = {q})
      <4>1. Calm
        BY <1>1, <1>5, <2>1, <3>2 DEF Settles, Calm
      <4>2. QED
        BY <4>1, CalmIsNeverDoneEarly
    <3>3. QED
      BY <3>1, <3>2
  <2>3. QED
    BY <1>1, <2>1, <2>2, SettledStep DEF TypeOK
<1>7. CASE next # job[q].state
  <2>1. PICK j : j = [Then(q, "save") EXCEPT !.state = next]
    OBVIOUS
  <2>2. UNCHANGED edited /\ Goto(q, j)
    BY <1>2, <1>7, <2>1 DEF CountResults
  <2>3. /\ Then(q, "save") \in Job /\ Then(q, "save").at = "save"
        /\ Then(q, "save").alone = job[q].alone
    BY <1>1, ThenIsAJob DEF Await
  <2>4. j \in Job /\ j.at = "save" /\ j.state = next /\ j.alone = job[q].alone /\ Shape(j)
    BY <1>4, <2>1, <2>3 DEF Job, Shape
  <2>5. job'[q] = j
    BY <1>1, <2>2, <2>4, GoesOn
  <2>6. TablesTyped' /\ Calm /\ Undisturbed
    BY <1>1, <1>5, <2>2 DEF TypeOK, TablesTyped, Calm, Undisturbed
  <2>7. NeverDoneEarly'
    BY <2>6, CalmIsNeverDoneEarly
  <2>8. ASSUME job[q].alone PROVE run # NULL /\ next = Called
    BY <1>1, <1>4, <2>8 DEF Knows, Called
  <2>9. ASSUME ~edited, run # NULL, next = "completed" PROVE Enough(run.list)
    BY <1>1, <1>4, <2>9 DEF Knows
  <2>10. Knows(q)'
    BY <1>1, <1>5, <2>2, <2>4, <2>5, <2>8, <2>9 DEF Knows, At, Enough
  <2>11. QED
    BY <1>5, <2>2, <2>4, <2>6, <2>7, <2>10, RequestKeepsInv
<1>8. QED
  BY <1>6, <1>7

\* A completion that is written has been earned.
LEMMA SaveStateKeepsInv ==
    ASSUME RunsInv, NEW q \in Request, SaveState(q) PROVE RunsInv'
<1>1. /\ TypeOK /\ job[q] \in Job /\ Knows(q) /\ At(q, "save")
      /\ Settles(q) /\ UNCHANGED <<live, result>>
  BY DEF RunsInv, TypeOK, SaveState
<1>2. /\ run' \in RunRow \cup {NULL}
      /\ run = NULL => run' = NULL
      /\ run # NULL => /\ run' # NULL /\ run'.list = run.list
                       /\ run'.state = job[q].state /\ run.list \in SUBSET Case
  <2>1. CASE run = NULL
    BY <2>1 DEF SaveState
  <2>2. CASE run # NULL
    <3>1. run \in RunRow /\ run' = [run EXCEPT !.state = job[q].state]
      BY <1>1, <2>2 DEF SaveState, TypeOK
    <3>2. /\ run' \in RunRow /\ run'.list = run.list
          /\ run'.state = job[q].state /\ run.list \in SUBSET Case
      BY <1>1, <3>1 DEF RunRow, Job
    <3>3. QED
      BY <2>2, <3>2, RowsAssumption
  <2>3. QED
    BY <2>1, <2>2
<1>3. Executed(result)' = Executed(result)
  BY <1>1, SameRows
<1>4. NeverDoneEarly'
  <2> SUFFICES ASSUME run' # NULL, ~edited', run'.state = "completed"
               PROVE  Enough(run.list)
    BY <1>2, <1>3 DEF NeverDoneEarly, Enough
  <2>1. run # NULL /\ job[q].state = "completed"
    BY <1>2
  <2>2. CASE job[q].alone
    <3>1. Called = "completed"
      BY <1>1, <2>1, <2>2 DEF Knows
    <3>2. Cardinality(Executed(result)) \in Nat /\ Cardinality(run.list) \in Nat
      BY <1>2, <2>1, ExecutedIsFinite, ListsAreFinite
    <3>3. QED
      BY <3>1, <3>2, NextStateFacts DEF Called, Enough
  <2>3. CASE ~job[q].alone
    BY <1>1, <2>1, <2>3 DEF Settles, Knows
  <2>4. QED
    BY <2>2, <2>3
<1>5. QED
  BY <1>1, <1>2, <1>4, SettledStep

LEMMA AddCasesKeepsInv ==
    ASSUME RunsInv, NEW q \in Request, NEW ids \in SUBSET Case, AddCases(q, ids)
    PROVE  RunsInv'
<1>1. TypeOK /\ UNCHANGED <<live, run, result, edited>> /\ run # NULL
  BY DEF RunsInv, AddCases
<1>2. run.list \subseteq Case
  BY <1>1 DEF TypeOK, RunRow
<1>3. PICK j, valid :
         /\ valid = (ids \ run.list) \cap live
         /\ j = [Idle EXCEPT !.at = "append", !.todo = valid,
                             !.cases = run.list \cup valid, !.alone = TRUE]
  OBVIOUS
<1>4. Goto(q, j)
  BY <1>3 DEF AddCases
<1>5. j \in Job /\ j.at = "append" /\ Shape(j)
  <2>1. valid \subseteq Case
    BY <1>3
  <2>2. QED
    BY <1>2, <1>3, <2>1, IdleIsAJob DEF Job, Await, Shape
<1>6. TablesTyped' /\ Calm /\ Undisturbed /\ \A c \in Case : Kept(c)
  BY <1>1, SameRows DEF TypeOK, TablesTyped, Calm, Undisturbed
<1>7. QED
  BY <1>4, <1>5, <1>6, CalmRequestKeepsInv

LEMMA RemoveCaseKeepsInv ==
    ASSUME RunsInv, NEW q \in Request, NEW c \in Case, RemoveCase(q, c)
    PROVE  RunsInv'
<1>1. TypeOK /\ UNCHANGED <<live, run, result, edited>> /\ run # NULL
  BY DEF RunsInv, RemoveCase
<1>2. run.list \subseteq Case
  BY <1>1 DEF TypeOK, RunRow
<1>3. PICK j : j = [Idle EXCEPT !.at = "filter", !.case = c, !.cases = run.list \ {c},
                                !.alone = TRUE]
  OBVIOUS
<1>4. Goto(q, j)
  BY <1>3 DEF RemoveCase
<1>5. j \in Job /\ j.at = "filter" /\ Shape(j)
  BY <1>2, <1>3, IdleIsAJob DEF Job, Await, Shape
<1>6. TablesTyped' /\ Calm /\ Undisturbed /\ \A d \in Case : Kept(d)
  BY <1>1, SameRows DEF TypeOK, TablesTyped, Calm, Undisturbed
<1>7. QED
  BY <1>4, <1>5, <1>6, CalmRequestKeepsInv

\* A list that is written shows as an edit.
LEMMA WriteListKeepsInv ==
    ASSUME RunsInv, NEW q \in Request, NEW await \in {"seed", "unseed"},
           WriteList(q, await), await = "unseed" => job[q].case \in Case
    PROVE  RunsInv'
<1>1. TypeOK /\ job[q] \in Job /\ UNCHANGED <<live, result>> /\ edited' = (run # NULL)
  BY DEF RunsInv, TypeOK, WriteList
<1>2. run' \in RunRow \cup {NULL} /\ Calm
  <2>1. CASE run = NULL
    BY <2>1 DEF WriteList, Calm
  <2>2. CASE run # NULL
    <3>1. run \in RunRow /\ run' = [run EXCEPT !.list = job[q].cases] /\ edited'
      BY <1>1, <2>2 DEF WriteList, TypeOK
    <3>2. QED
      BY <1>1, <3>1 DEF RunRow, Job, Calm
  <2>3. QED
    BY <2>1, <2>2
<1>3. TablesTyped' /\ \A c \in Case : Kept(c)
  BY <1>1, <1>2, SameRows DEF TypeOK, TablesTyped
<1>4. PICK j : j = [job[q] EXCEPT !.at = await, !.cases = {}]
  OBVIOUS
<1>5. j \in Job /\ j.at = await /\ Shape(j)
  BY <1>1, <1>4 DEF Job, Await, Shape
<1>6. Wrote(q, j)
  BY <1>4 DEF WriteList
<1>7. QED
  BY <1>2, <1>3, <1>5, <1>6, CalmRequestKeepsInv

LEMMA ListsWritten ==
    ASSUME RunsInv, NEW q \in Request, AppendCases(q) \/ FilterCases(q) PROVE RunsInv'
<1>1. ASSUME FilterCases(q) PROVE job[q].case \in Case
  BY <1>1 DEF FilterCases, RunsInv, Shape, At
<1>2. QED
  BY <1>1, WriteListKeepsInv DEF AppendCases, FilterCases

LEMMA SeedCaseKeepsInv ==
    ASSUME RunsInv, NEW q \in Request, NEW c \in Case, SeedCase(q, c) PROVE RunsInv'
<1>1. TypeOK /\ job[q] \in Job /\ At(q, "seed") /\ UNCHANGED <<live, run, edited>>
  BY DEF RunsInv, TypeOK, SeedCase
<1>2. CASE run = NULL \/ c \notin live
  <2>1. PICK j : j = Idle
    OBVIOUS
  <2>2. j \in Job /\ j.at = "idle" /\ Shape(j) /\ Goto(q, j) /\ UNCHANGED result
    BY <1>2, <2>1, IdleIsAJob DEF SeedCase, Shape
  <2>3. TablesTyped' /\ Calm /\ Undisturbed /\ \A d \in Case : Kept(d)
    BY <1>1, <2>2, SameRows DEF TypeOK, TablesTyped, Calm, Undisturbed
  <2>4. QED
    BY <2>2, <2>3, CalmRequestKeepsInv
<1>3. CASE ~(run = NULL \/ c \notin live)
  <2>1. PICK j : j = IF job[q].todo = {c} THEN Idle ELSE [job[q] EXCEPT !.todo = @ \ {c}]
    OBVIOUS
  <2>2. Wrote(q, j) /\ result' = Ensure(c)
    BY <1>3, <2>1 DEF SeedCase
  <2>3. j \in Job /\ j.at \in {"idle", "seed"} /\ Shape(j)
    BY <1>1, <2>1, IdleIsAJob DEF Job, Shape, At
  <2>4. /\ result' \in [Case -> ResultRow \cup {NULL}]
        /\ Executed(result)' = Executed(result) /\ \A d \in Case : Kept(d)
    BY <1>1, <2>2, EnsuredRows
  <2>5. TablesTyped' /\ Calm
    BY <1>1, <2>4 DEF TypeOK, TablesTyped, Calm
  <2>6. QED
    BY <2>2, <2>3, <2>4, <2>5, CalmRequestKeepsInv
<1>4. QED
  BY <1>2, <1>3

LEMMA UnseedCaseKeepsInv ==
    ASSUME RunsInv, NEW q \in Request, UnseedCase(q) PROVE RunsInv'
<1>1. /\ TypeOK /\ Wrote(q, Idle) /\ UNCHANGED <<live, run>>
      /\ SetRows([result EXCEPT ![job[q].case] = NULL])
  BY DEF RunsInv, UnseedCase
<1>2. PICK c : c = job[q].case
  OBVIOUS
<1>3. c \in Case
  BY <1>2 DEF RunsInv, UnseedCase, Shape, At
<1>4. SetRows([result EXCEPT ![c] = NULL])
  BY <1>1, <1>2
<1>5. /\ result' \in [Case -> ResultRow \cup {NULL}] /\ edited' \in BOOLEAN
      /\ Calm /\ \A d \in Case : Kept(d)
  BY <1>1, <1>3, <1>4, DeletedRow
<1>6. PICK j : j = Idle
  OBVIOUS
<1>7. j \in Job /\ j.at = "idle" /\ Shape(j) /\ Wrote(q, j)
  BY <1>1, <1>6, IdleIsAJob DEF Shape
<1>8. TablesTyped'
  BY <1>1, <1>5 DEF TypeOK, TablesTyped
<1>9. QED
  BY <1>5, <1>7, <1>8, CalmRequestKeepsInv

LEMMA FailKeepsInv ==
    ASSUME RunsInv, NEW q \in Request, Fail(q) PROVE RunsInv'
<1>1. TypeOK /\ UNCHANGED <<live, run, result, edited>>
  BY DEF RunsInv, Fail
<1>2. TablesTyped' /\ Calm /\ Undisturbed /\ \A c \in Case : Kept(c)
  BY <1>1, SameRows DEF TypeOK, TablesTyped, Calm, Undisturbed
<1>3. PICK j : j = Idle
  OBVIOUS
<1>4. j \in Job /\ j.at = "idle" /\ Shape(j) /\ Goto(q, j)
  BY <1>3, IdleIsAJob DEF Fail, Shape
<1>5. QED
  BY <1>2, <1>4, CalmRequestKeepsInv

(***************************************************************************)
(* The invariant.                                                          *)
(***************************************************************************)

LEMMA InitRunsInv == Init => RunsInv
<1> SUFFICES ASSUME Init PROVE RunsInv
  OBVIOUS
<1>1. TypeOK /\ NeverDoneEarly
  BY IdleIsAJob DEF Init, TypeOK, NeverDoneEarly
<1>2. \A p \in Request : job[p].at = "idle"
  BY IdleIsAJob DEF Init
<1>3. \A p \in Request : Shape(job[p]) /\ Knows(p) /\ Holds(p)
  BY <1>2 DEF Shape, Knows, Holds, OnSteps, At
<1>4. QED
  BY <1>1, <1>3 DEF RunsInv

LEMMA RecordKeepsInv ==
    ASSUME RunsInv, NEW q \in Request, Record(q) PROVE RunsInv'
<1>1. ASSUME NEW c \in Case, NEW i \in StepsOf[c],
             SetStepNote(q, c, i) \/ \E v \in StepMarks : SetStepResult(q, c, i, v)
      PROVE  RunsInv'
  <2>1. i \in Step /\ "untested" \in Verdict /\ StepMarks \subseteq Verdict
    BY TestRunsAssumption DEF Verdict
  <2>2. QED
    BY <1>1, <2>1, OpenStepsKeepsInv DEF SetStepNote, SetStepResult
<1>2. ASSUME NEW c \in Case, NEW v \in CaseMarks, SetResult(q, c, v)
      PROVE  RunsInv'
  BY <1>2, TestRunsAssumption, SetResultKeepsInv
<1>3. QED
  BY <1>1, <1>2, SaveStepKeepsInv, SaveNoteKeepsInv, ReadRunKeepsInv,
     CountResultsKeepsInv, SaveStateKeepsInv DEF Record

LEMMA EditListKeepsInv ==
    ASSUME RunsInv, NEW q \in Request, EditList(q) PROVE RunsInv'
<1>1. ASSUME NEW ids \in Plans, AddCases(q, ids) PROVE RunsInv'
  BY <1>1, TestRunsAssumption, AddCasesKeepsInv
<1>2. QED
  BY <1>1, ListsWritten, SeedCaseKeepsInv, RemoveCaseKeepsInv, UnseedCaseKeepsInv
  DEF EditList

LEMMA ManageKeepsInv ==
    ASSUME RunsInv, Manage PROVE RunsInv'
<1>1. ASSUME NEW list \in Plans, CreateFromCases(list) PROVE RunsInv'
  <2>1. list \in SUBSET Case /\ "new" \in RunState
    BY TestRunsAssumption DEF RunState
  <2>2. QED
    BY <1>1, <2>1, CreateRunKeepsInv DEF CreateFromCases
<1>2. ASSUME NEW state \in Manual, NEW list \in Plans,
             CreateRun(state, list) \/ UpdateRun(state, list)
      PROVE  RunsInv'
  <2>1. list \in SUBSET Case /\ state \in RunState
    BY TestRunsAssumption
  <2>2. QED
    BY <1>2, <2>1, CreateRunKeepsInv, UpdateRunKeepsInv
<1>3. QED
  BY <1>1, <1>2, CreateCaseKeepsInv, DeleteCaseKeepsInv, SetCaseAssigneeKeepsInv,
     RemoveRunKeepsInv
  DEF Manage

LEMMA StepRunsInv == RunsInv /\ [Next]_vars => RunsInv'
<1>1. ASSUME RunsInv, UNCHANGED vars PROVE RunsInv'
  <2>1. TablesTyped' /\ Calm /\ Undisturbed /\ \A c \in Case : Kept(c)
    BY <1>1, SameRows DEF RunsInv, TypeOK, TablesTyped, Calm, Undisturbed, vars
  <2>2. QED
    BY <1>1, <2>1, ManagedKeepsInv DEF vars
<1>2. QED
  BY <1>1, RecordKeepsInv, EditListKeepsInv, FailKeepsInv, ManageKeepsInv DEF Next

LEMMA RunsInvAlways == Spec => []RunsInv
BY InitRunsInv, StepRunsInv, PTL DEF Spec

\* Cases, rows, the run and the requests keep their types.
THEOREM RunsTypeCorrect == Spec => []TypeOK
<1>1. RunsInv => TypeOK
  BY DEF RunsInv
<1>2. QED
  BY <1>1, RunsInvAlways, PTL

\* Testers alone never complete a run early.
THEOREM RunsAreDoneInTime == Spec => []NeverDoneEarly
<1>1. RunsInv => NeverDoneEarly
  BY DEF RunsInv
<1>2. QED
  BY <1>1, RunsInvAlways, PTL

(***************************************************************************)
(* A request that nobody came between settles the run.                     *)
(***************************************************************************)

LEMMA RequestsGoOn ==
    ASSUME NEW r \in Request, Record(r) \/ EditList(r) \/ Fail(r)
    PROVE  \E j : Goto(r, j) \/ Wrote(r, j)
<1>1. CASE Record(r)
  <2>1. ASSUME NEW c \in Case, NEW i \in StepsOf[c],
               SetStepNote(r, c, i) \/ \E v \in StepMarks : SetStepResult(r, c, i, v)
        PROVE  \E j : Goto(r, j) \/ Wrote(r, j)
    BY <2>1 DEF SetStepNote, SetStepResult, OpenSteps
  <2>2. ASSUME NEW c \in Case, NEW v \in CaseMarks, SetResult(r, c, v)
        PROVE  \E j : Goto(r, j) \/ Wrote(r, j)
    BY <2>2 DEF SetResult
  <2>3. ASSUME SaveStep(r) \/ SaveNote(r) \/ ReadRun(r) \/ SaveState(r) \/ CountResults(r)
        PROVE  \E j : Goto(r, j) \/ Wrote(r, j)
    BY <2>3 DEF SaveStep, SaveNote, ReadRun, SaveState, CountResults, Settles
  <2>4. QED
    BY <1>1, <2>1, <2>2, <2>3 DEF Record
<1>2. CASE EditList(r)
  BY <1>2 DEF EditList, AddCases, AppendCases, SeedCase, RemoveCase, FilterCases,
              UnseedCase, WriteList
<1>3. CASE Fail(r)
  BY <1>3 DEF Fail
<1>4. QED
  BY <1>1, <1>2, <1>3

LEMMA OthersWait ==
    ASSUME TypeOK, NEW r \in Request, NEW q \in Request \ {r},
           Record(r) \/ EditList(r) \/ Fail(r)
    PROVE  job'[q].at = job[q].at
<1>1. PICK j : Goto(r, j) \/ Wrote(r, j)
  BY RequestsGoOn
<1>2. job[q] \in Job /\ job \in [Request -> Job]
  BY DEF TypeOK
<1>3. CASE Goto(r, j)
  BY <1>2, <1>3 DEF Goto
<1>4. CASE Wrote(r, j)
  <2>1. job'[q] = [job[q] EXCEPT !.alone = FALSE]
    BY <1>2, <1>4 DEF Wrote, Interrupt
  <2>2. QED
    BY <1>2, <2>1 DEF Job
<1>5. QED
  BY <1>1, <1>3, <1>4

LEMMA SettledBy ==
    ASSUME RunsInv, NEW q \in Request, job[q].alone, job'[q] = Idle,
           ReadRun(q) \/ CountResults(q) \/ SaveState(q)
    PROVE  Settled(run', result')
<1>1. /\ TypeOK /\ job[q] \in Job /\ Knows(q) /\ job'[q].at = "idle"
      /\ job \in [Request -> Job]
  BY IdleIsAJob DEF RunsInv, TypeOK
<1>2. Cardinality(Executed(result)) \in Nat
  BY ExecutedIsFinite
<1>3. CASE ReadRun(q)
  <2>1. CASE run = NULL \/ run.list = {}
    BY <1>3, <2>1 DEF ReadRun, Settled
  <2>2. CASE ~(run = NULL \/ run.list = {})
    <3>1. job'[q] = [job[q] EXCEPT !.at = "count", !.state = run.state, !.cases = run.list]
      BY <1>1, <1>3, <2>2 DEF ReadRun, Goto
    <3>2. job'[q].at = "count"
      BY <1>1, <3>1 DEF Job
    <3>3. QED
      BY <1>1, <3>2
  <2>3. QED
    BY <2>1, <2>2
<1>4. CASE CountResults(q)
  <2>1. /\ run # NULL /\ run.state = job[q].state /\ run.list = job[q].cases
        /\ run' = run /\ result' = result
    BY <1>1, <1>4 DEF CountResults, Knows
  <2>2. PICK next : next = NextState(job[q].state, Cardinality(Executed(result)),
                                     Cardinality(job[q].cases))
    OBVIOUS
  <2>3. next = job[q].state
    <3>1. SUFFICES ASSUME next # job[q].state PROVE FALSE
      OBVIOUS
    <3>2. Goto(q, [Then(q, "save") EXCEPT !.state = next])
      BY <1>4, <2>2, <3>1 DEF CountResults
    <3>3. Then(q, "save") \in Job /\ Then(q, "save").at = "save"
      BY <1>1, ThenIsAJob DEF Await
    <3>4. job'[q].at = "save"
      BY <1>1, <3>2, <3>3 DEF Goto, Job
    <3>5. QED
      BY <1>1, <3>4
  <2>4. QED
    BY <2>1, <2>2, <2>3 DEF Settled
<1>5. CASE SaveState(q)
  <2>1. run # NULL /\ job[q].state = Called /\ result' = result
    BY <1>1, <1>5 DEF SaveState, Knows
  <2>2. run \in RunRow /\ run' = [run EXCEPT !.state = job[q].state]
    BY <1>1, <1>5, <2>1 DEF SaveState, TypeOK
  <2>3. run'.list = run.list /\ run'.state = job[q].state /\ run.list \in SUBSET Case
    BY <2>2 DEF RunRow
  <2>4. run'.state = NextState(run'.state, Cardinality(Executed(result)),
                               Cardinality(run.list))
    BY <1>2, <2>1, <2>3, ListsAreFinite, NextStateFacts DEF Called
  <2>5. QED
    BY <2>1, <2>3, <2>4 DEF Settled
<1>6. QED
  BY <1>3, <1>4, <1>5

LEMMA SerialStep ==
    ASSUME RunsInv, Next, NEW q \in Request, job'[q] = Idle, job[q].alone,
           job[q].at \in {"step", "read", "count", "save"} \ Fatal
    PROVE  Settled(run', result')
<1>1. TypeOK /\ job'[q].at = "idle"
  BY IdleIsAJob DEF RunsInv
<1>2. ~Manage
  <2> SUFFICES ASSUME Manage PROVE job'[q].at = job[q].at
    BY <1>1
  <2>1. WroteAtOnce \/ UNCHANGED job
    BY DEF Manage, CreateCase, DeleteCase, SetCaseAssignee, CreateFromCases, CreateRun,
           UpdateRun, RemoveRun
  <2>2. QED
    BY <1>1, <2>1, AllInterrupted DEF Stays
<1>3. \A r \in Request \ {q} : ~(Record(r) \/ EditList(r) \/ Fail(r))
  BY <1>1, OthersWait
<1>4. ~Fail(q) /\ ~EditList(q)
  BY DEF Fail, EditList, AddCases, AppendCases, SeedCase, RemoveCase, FilterCases,
         UnseedCase, At
<1>5. Record(q)
  BY <1>2, <1>3, <1>4 DEF Next
<1>6. ~SaveStep(q)
  <2> SUFFICES ASSUME SaveStep(q) PROVE FALSE
    OBVIOUS
  <2>1. Wrote(q, Then(q, "read")) /\ Then(q, "read") \in Job /\ Then(q, "read").at = "read"
    BY <1>1, ThenIsAJob DEF SaveStep, Await
  <2>2. job'[q] = Then(q, "read")
    BY <1>1, <2>1, GoesOn
  <2>3. QED
    BY <1>1, <2>1, <2>2
<1>7. ReadRun(q) \/ CountResults(q) \/ SaveState(q)
  BY <1>5, <1>6 DEF Record, SetStepNote, SetStepResult, OpenSteps, SetResult, SaveNote, At
<1>8. QED
  BY <1>7, SettledBy

\* A request that records a result, and that no other write came between,
\* leaves the run in the state its rows and its list call for.
THEOREM SerialRequestsSettle == Spec => SerialResultsSettle
<1>1. RunsInv /\ [Next]_vars
        => [\A q \in Request :
              /\ job[q].at \in {"step", "read", "count", "save"} \ Fatal
              /\ job[q].alone
              /\ job'[q] = Idle
              => Settled(run', result')]_vars
  BY SerialStep
<1>2. QED
  BY <1>1, RunsInvAlways, PTL DEF Spec, SerialResultsSettle

(***************************************************************************)
(* A tester who has a case to himself.                                     *)
(***************************************************************************)

Sheets == [c \in Case \ Shared |-> SheetOf(c)]

LEMMA SheetsAre ==
    Sheets = [c \in Case \ Shared |->
                IF result[c] = NULL THEN Blank ELSE result[c].steps]
BY DEF Sheets, SheetOf, SheetIn

LEMMA SheetsTyped ==
    ASSUME TypeOK, NEW c \in Case PROVE SheetOf(c) \in Steps
BY BlankIsSteps DEF TypeOK, SheetOf, SheetIn, ResultRow

SheetStep == Sheets' = Sheets \/ Sheet!Next

LEMMA SheetsStay ==
    ASSUME \A c \in Case \ Shared : SheetOf(c)' = SheetOf(c) PROVE SheetStep
BY DEF SheetStep, Sheets

LEMMA SheetsWithdrawn ==
    ASSUME NEW C \in SUBSET Case,
           \A c \in Case \ Shared : SheetOf(c)' = IF c \in C THEN Blank ELSE SheetOf(c)
    PROVE  SheetStep
<1>1. Sheets' = [c \in Case \ Shared |-> IF c \in C \ Shared THEN Blank ELSE Sheets[c]]
  BY DEF Sheets
<1>2. Sheet!Withdraw(C \ Shared)
  BY <1>1 DEF Sheet!Withdraw, Sheet!Blank, Blank, Sheets, SheetOf, SheetIn
<1>3. QED
  BY <1>2 DEF SheetStep, Sheet!Next

LEMMA SheetChanged ==
    ASSUME NEW c \in Case, NEW steps \in Steps, NEW i \in Step, NEW v \in Verdict,
           \A d \in (Case \ Shared) \ {c} : SheetOf(d)' = SheetOf(d),
           c \notin Shared => \/ SheetOf(c)' = SheetOf(c)
                              \/ SheetOf(c) = Blank /\ SheetOf(c)' = steps
                              \/ SheetOf(c)' = [SheetOf(c) EXCEPT ![i] = v]
    PROVE  SheetStep
<1>1. CASE c \in Shared \/ SheetOf(c)' = SheetOf(c)
  BY <1>1, SheetsStay
<1>2. CASE c \notin Shared /\ SheetOf(c) = Blank /\ SheetOf(c)' = steps
  <2>1. Sheets' = [Sheets EXCEPT ![c] = Sheets'[c]] /\ Sheets'[c] = steps /\ Sheets[c] = Blank
    BY <1>2 DEF Sheets
  <2>2. Sheet!Reinstate(c)
    BY <1>2, <2>1 DEF Sheet!Reinstate, Sheet!Blank, Blank, Steps, Sheets, SheetOf, SheetIn
  <2>3. QED
    BY <1>2, <2>2 DEF SheetStep, Sheet!Next
<1>3. CASE c \notin Shared /\ SheetOf(c)' = [SheetOf(c) EXCEPT ![i] = v]
  <2>1. Sheets' = [Sheets EXCEPT ![c] = [Sheets[c] EXCEPT ![i] = v]]
    BY <1>3 DEF Sheets
  <2>2. Sheet!Mark(c, i, v)
    BY <2>1 DEF Sheet!Mark, Sheets, SheetOf, SheetIn
  <2>3. QED
    BY <1>3, <2>2 DEF SheetStep, Sheet!Next
<1>4. QED
  BY <1>1, <1>2, <1>3

\* A save finds the steps it read, or a blank row, or none.
LEMMA UpdateIsASheetStep ==
    ASSUME RunsInv, NEW q \in Request, OnSteps(q), NEW steps \in Steps,
           NEW status \in Verdict, NEW v \in Verdict,
           steps = [job[q].seen EXCEPT ![job[q].step] = v], Update(q, steps, status)
    PROVE  SheetStep
<1>1. TypeOK /\ Shape(job[q]) /\ Holds(q)
  BY DEF RunsInv
<1>2. PICK c : c = job[q].case
  OBVIOUS
<1>3. c \in Case /\ job[q].step \in Step
  BY <1>1, <1>2 DEF Shape, OnSteps
<1>4. /\ \A d \in Case \ {c} : SheetOf(d)' = SheetOf(d)
      /\ SheetOf(c)' = IF result[c] = NULL THEN Blank ELSE steps
  BY <1>1, <1>2, <1>3, UpdatedRow
<1>5. c \notin Shared => SheetOf(c) \in {job[q].seen, Blank}
  BY <1>1, <1>2 DEF Holds
<1>6. result[c] = NULL => SheetOf(c) = Blank
  BY DEF SheetOf, SheetIn
<1>7. c \notin Shared => \/ SheetOf(c)' = SheetOf(c)
                         \/ SheetOf(c) = Blank /\ SheetOf(c)' = steps
                         \/ SheetOf(c)' = [SheetOf(c) EXCEPT ![job[q].step] = v]
  BY <1>4, <1>5, <1>6
<1>8. QED
  BY <1>3, <1>4, <1>7, SheetChanged

LEMMA SaveStepIsASheetStep ==
    ASSUME RunsInv, NEW q \in Request, SaveStep(q) PROVE SheetStep
<1>1. TypeOK /\ job[q] \in Job /\ Shape(job[q]) /\ At(q, "step")
  BY DEF RunsInv, TypeOK, SaveStep
<1>2. PICK steps : steps = [job[q].seen EXCEPT ![job[q].step] = job[q].mark]
  OBVIOUS
<1>3. steps \in Steps /\ job[q].mark \in Verdict
  BY <1>1, <1>2 DEF Job, Steps
<1>4. Update(q, steps, Derive(steps))
  BY <1>2 DEF SaveStep
<1>5. QED
  BY <1>1, <1>2, <1>3, <1>4, DeriveTypes, UpdateIsASheetStep DEF At, OnSteps

LEMMA SaveNoteIsASheetStep ==
    ASSUME RunsInv, NEW q \in Request, SaveNote(q) PROVE SheetStep
<1>1. TypeOK /\ job[q] \in Job /\ Shape(job[q]) /\ At(q, "note")
  BY DEF RunsInv, TypeOK, SaveNote
<1>2. PICK v, status :
         /\ v = IF job[q].seen[job[q].step] = NULL THEN "untested"
                ELSE job[q].seen[job[q].step]
         /\ status = IF result[job[q].case] = NULL THEN "untested"
                     ELSE result[job[q].case].status
  OBVIOUS
<1>3. PICK steps : steps = [job[q].seen EXCEPT ![job[q].step] = v]
  OBVIOUS
<1>4. job[q].case \in Case /\ job[q].step \in Step /\ job[q].seen \in Steps
  BY <1>1 DEF Shape, At, Job
<1>5. v \in Verdict /\ status \in Verdict /\ steps \in Steps
  BY <1>1, <1>2, <1>3, <1>4 DEF Steps, TypeOK, ResultRow, Verdict
<1>6. steps = [job[q].seen EXCEPT ![job[q].step] = IF @ = NULL THEN "untested" ELSE @]
  BY <1>2, <1>3
<1>7. Update(q, steps, status)
  BY <1>2, <1>6 DEF SaveNote
<1>8. QED
  BY <1>1, <1>3, <1>5, <1>7, UpdateIsASheetStep DEF At, OnSteps

LEMMA RecordIsASheetStep ==
    ASSUME RunsInv, NEW q \in Request, Record(q) PROVE SheetStep
<1>1. TypeOK
  BY DEF RunsInv
<1>2. ASSUME NEW c \in Case, result' = Ensure(c) PROVE SheetStep
  BY <1>1, <1>2, EnsuredRows, SheetsStay
<1>3. ASSUME NEW c \in Case, NEW v \in CaseMarks, SetResult(q, c, v) PROVE SheetStep
  <2>1. PICK new : new = [status |-> v, steps |-> Ensure(c)[c].steps]
    OBVIOUS
  <2>2. result' = [result EXCEPT ![c] = new]
    BY <1>3, <2>1 DEF SetResult, SetRows
  <2>3. new \in ResultRow /\ new.steps = SheetOf(c)
    BY <1>1, <2>1, EnsureFacts, TestRunsAssumption DEF ResultRow
  <2>4. new # NULL
    BY <2>3, RowsAssumption
  <2>5. \A d \in Case : SheetOf(d)' = SheetOf(d)
    <3>1. \A d \in Case : result'[d] = IF d = c THEN new ELSE result[d]
      BY <1>1, <2>2 DEF TypeOK
    <3>2. QED
      BY <2>3, <2>4, <3>1 DEF SheetOf, SheetIn
  <2>6. QED
    BY <2>5, SheetsStay
<1>4. CASE ReadRun(q) \/ CountResults(q) \/ SaveState(q)
  BY <1>4, SameRows, SheetsStay DEF ReadRun, CountResults, SaveState
<1>5. ASSUME NEW c \in Case, NEW i, NEW v, SetStepResult(q, c, i, v) \/ SetStepNote(q, c, i)
      PROVE  SheetStep
  <2>1. result' = Ensure(c)
    BY <1>5 DEF SetStepResult, SetStepNote, OpenSteps
  <2>2. QED
    BY <1>2, <2>1
<1>6. CASE SaveStep(q) \/ SaveNote(q)
  BY <1>6, SaveStepIsASheetStep, SaveNoteIsASheetStep
<1>7. QED
  BY <1>3, <1>4, <1>5, <1>6 DEF Record

LEMMA EditListIsASheetStep ==
    ASSUME RunsInv, NEW q \in Request, EditList(q) PROVE SheetStep
<1>1. TypeOK
  BY DEF RunsInv
<1>2. ASSUME UNCHANGED result PROVE SheetStep
  BY <1>2, SameRows, SheetsStay
<1>3. ASSUME NEW c \in Case, SeedCase(q, c) PROVE SheetStep
  BY <1>1, <1>2, <1>3, EnsuredRows, SheetsStay DEF SeedCase
<1>4. ASSUME UnseedCase(q) PROVE SheetStep
  <2>1. PICK c \in Case : c = job[q].case
    BY <1>4 DEF RunsInv, Shape, UnseedCase, At
  <2>2. \A d \in Case : SheetOf(d)' = IF d = c THEN Blank ELSE SheetOf(d)
    BY <1>1, <1>4, <2>1, DeletedRow DEF UnseedCase
  <2>3. PICK C \in SUBSET Case : C = {c}
    OBVIOUS
  <2>4. QED
    BY <2>2, <2>3, SheetsWithdrawn
<1>5. CASE AppendCases(q) \/ FilterCases(q)
  <2>1. WriteList(q, "seed") \/ WriteList(q, "unseed")
    BY <1>5 DEF AppendCases, FilterCases
  <2>2. UNCHANGED result
    BY <2>1 DEF WriteList
  <2>3. QED
    BY <1>2, <2>2
<1>6. ASSUME NEW x, AddCases(q, x) \/ RemoveCase(q, x) PROVE SheetStep
  BY <1>2, <1>6 DEF AddCases, RemoveCase
<1>7. QED
  BY <1>3, <1>4, <1>5, <1>6 DEF EditList

LEMMA ManageIsASheetStep == ASSUME RunsInv, Manage PROVE SheetStep
<1>1. TypeOK
  BY DEF RunsInv
<1>2. ASSUME UNCHANGED result PROVE SheetStep
  BY <1>2, SameRows, SheetsStay
<1>3. ASSUME NEW c \in Case, DeleteCase(c) PROVE SheetStep
  <2>1. \A d \in Case : SheetOf(d)' = IF d = c THEN Blank ELSE SheetOf(d)
    BY <1>1, <1>3, DeletedRow DEF DeleteCase
  <2>2. PICK C \in SUBSET Case : C = {c}
    OBVIOUS
  <2>3. QED
    BY <2>1, <2>2, SheetsWithdrawn
<1>4. ASSUME NEW c \in Case, SetCaseAssignee(c) PROVE SheetStep
  BY <1>1, <1>4, EnsuredRows, SheetsStay DEF SetCaseAssignee
<1>5. ASSUME RemoveRun PROVE SheetStep
  <2>1. \A d \in Case : SheetOf(d)' = Blank
    BY <1>5 DEF RemoveRun, SheetOf, SheetIn
  <2>2. QED
    BY <2>1, SheetsWithdrawn
<1>6. QED
  BY <1>2, <1>3, <1>4, <1>5
  DEF Manage, CreateCase, CreateFromCases, CreateRun, UpdateRun

LEMMA SheetSteps == ASSUME RunsInv, [Next]_vars PROVE SheetStep
<1>1. CASE UNCHANGED vars
  BY <1>1, SameRows, SheetsStay DEF vars
<1>2. ASSUME NEW q \in Request, Fail(q) PROVE SheetStep
  BY <1>2, SameRows, SheetsStay DEF Fail
<1>3. QED
  BY <1>1, <1>2, RecordIsASheetStep, EditListIsASheetStep, ManageIsASheetStep DEF Next

\* A tester who has a case to himself loses none of its steps, whoever edits
\* the list or works on other cases: TestRuns implements StepSheet over the
\* unshared cases.
THEOREM SheetsAreKept == Spec => ImplementsSheet
<1>1. Init => Sheet!Init
  BY DEF Init, Sheet!Init, Sheet!Blank, Blank
<1>2. RunsInv /\ [Next]_vars
        => [Sheet!Next]_[c \in Case \ Shared |->
                           IF result[c] = NULL THEN Blank ELSE result[c].steps]
  BY SheetSteps DEF SheetStep, Sheets, SheetOf, SheetIn
<1>3. QED
  BY <1>1, <1>2, RunsInvAlways, PTL DEF Spec, ImplementsSheet, Sheet!Spec
=============================================================================
