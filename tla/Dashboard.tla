------------------------------ MODULE Dashboard ------------------------------
(***************************************************************************)
(* The dashboard of testgenie-backend: executions of automated tests, of   *)
(* the rows a user may see, results of manual ones, and the requests that  *)
(* count both with one query after the other.  A query that fails counts   *)
(* as if there were no rows.  The trends look back thirty days and the     *)
(* lists of failing and flaky tests seven; the rest counts all rows.       *)
(***************************************************************************)
EXTENDS Naturals, Sequences, FiniteSets

CONSTANTS
    Nothing,
    AutomatedTest, TypeOf,  \* automated tests, "api" or "ui"
    Case,               \* manual test cases of a run
    MaxExecutions,      \* rows of test_executions (a bound)
    RunsListed, FailuresListed,     \* LIMIT of the lists (10 or 15, and 5)
    Viewer              \* dashboards on their way

ASSUME DashboardAssumption ==
    /\ TypeOf \in [AutomatedTest -> {"api", "ui"}]
    /\ {MaxExecutions, RunsListed, FailuresListed} \subseteq Nat
    /\ Nothing \notin {"combined", "api", "automation", "activity", "alerts"}
    /\ IsFiniteSet(Case)

VARIABLES
    execution,      \* test_executions, in order of created_at
    result,         \* test_run_results: status by case, "none" without a row
    aged,           \* how many executions are older than a week, and than a
                    \* month, and which results are older than a month
    view            \* dashboards on their way

dashboardRows == <<execution, result, aged>>
dashboardVars == <<execution, result, aged, view>>

\* The queries of each dashboard, in their order.
CombinedQueries == <<"executions", "results", "byType", "manualByType",
                     "trend", "recent", "recentFailures">>
ApiQueries == <<"api", "apiTrend", "apiRecent", "failures">>
AutomationQueries == <<"ui", "uiTrend", "uiRecent", "flaky">>
ActivityQueries == <<"recent">>
AlertQueries == <<"streaks">>

Queries == [combined |-> CombinedQueries, api |-> ApiQueries,
            automation |-> AutomationQueries, activity |-> ActivityQueries,
            alerts |-> AlertQueries]

Query == UNION {{Queries[k][n] : n \in DOMAIN Queries[k]} : k \in DOMAIN Queries}

NoView == [kind |-> Nothing, left |-> <<>>, answer |-> [q \in Query |-> Nothing],
           calm |-> TRUE]

DashboardInit ==
    /\ execution = <<>>
    /\ result = [c \in Case |-> "none"]
    /\ aged = [week |-> 0, month |-> 0, results |-> {}]
    /\ view = [v \in Viewer |-> NoView]

\* Of a view with a failed query, or with a row changed among its queries,
\* the summary is all that is still looked at.
Doubted(w) == [w EXCEPT !.calm = FALSE,
                        !.answer = [q \in Query |-> IF q \in {"executions", "results"}
                                                    THEN @[q] ELSE Nothing]]

\* A row changes, or leaves a window: a view that has been shown is forgotten.
Stirred == [v \in Viewer |->
              IF view[v].left = <<>> THEN NoView ELSE Doubted(view[v])]

(***************************************************************************)
(* The rows.                                                               *)
(***************************************************************************)

\* executeTest inserts its row when the test has ended: none is "running".
InsertExecution(t, status) ==
    /\ Len(execution) < MaxExecutions
    /\ execution' = Append(execution, [test |-> t, status |-> status])
    /\ view' = Stirred
    /\ UNCHANGED <<result, aged>>

\* The row of a case keeps its created_at when its status changes.
RecordResult(c, status) ==
    /\ result[c] # status
    /\ result' = [result EXCEPT ![c] = status]
    /\ aged' = IF status = "none" THEN [aged EXCEPT !.results = @ \ {c}] ELSE aged
    /\ view' = Stirred
    /\ UNCHANGED execution

\* Time passes, and a row is older than NOW() - INTERVAL.
LeaveWeek ==
    /\ aged.week < Len(execution)
    /\ aged' = [aged EXCEPT !.week = @ + 1]
    /\ view' = Stirred
    /\ UNCHANGED <<execution, result>>

LeaveMonth ==
    /\ \/ aged.month < aged.week /\ aged' = [aged EXCEPT !.month = @ + 1]
       \/ \E c \in Case \ aged.results :
             result[c] # "none" /\ aged' = [aged EXCEPT !.results = @ \cup {c}]
    /\ view' = Stirred
    /\ UNCHANGED <<execution, result>>

(***************************************************************************)
(* The queries.                                                            *)
(***************************************************************************)

Typed(types) == {i \in DOMAIN execution : TypeOf[execution[i].test] \in types}
WithStatus(R, status) == {i \in R : execution[i].status = status}

Api == Typed({"api"})
Ui == Typed({"ui"})
OfWeek(R) == {i \in R : i > aged.week}
OfMonth(R) == {i \in R : i > aged.month}

Tally(R) == [total |-> Cardinality(R),
             passed |-> Cardinality(WithStatus(R, "passed")),
             failed |-> Cardinality(WithStatus(R, "failed")),
             running |-> Cardinality(WithStatus(R, "running"))]

\* What is counted by type and by day.
Counts(s) == [total |-> s.total, passed |-> s.passed, failed |-> s.failed]

Results(C, statuses) == Cardinality({c \in C : result[c] \in statuses})

ManualTally(C) == [total |-> Cardinality({c \in C : result[c] # "none"}),
                   passed |-> Results(C, {"passed"}), failed |-> Results(C, {"failed"}),
                   running |-> Results(C, {"blocked", "retest"})]

Zero == [total |-> 0, passed |-> 0, failed |-> 0, running |-> 0]

Joined(s, t) == [f \in DOMAIN s |-> s[f] + t[f]]

\* ORDER BY created_at DESC LIMIT n.
Newest(R, n) == {i \in R : Cardinality({k \in R : k > i}) < n}

\* Failing and flaky tests are listed whole; the code shows the first five.
TestsAmong(R) == {execution[i].test : i \in R}

\* Both a pass and a failure.
Flaky(R) == TestsAmong(WithStatus(R, "passed")) \cap TestsAmong(WithStatus(R, "failed"))

\* The last three executions of a test have all failed.
LastThree(t) == Newest({i \in DOMAIN execution : execution[i].test = t}, 3)
Streaks == {t \in AutomatedTest : Cardinality(WithStatus(LastThree(t), "failed")) >= 3}

Answer(q) ==
    CASE q = "executions" -> Tally(Api \cup Ui)
      [] q = "results" -> ManualTally(Case)
      [] q = "byType" -> [api |-> Counts(Tally(Api)), ui |-> Counts(Tally(Ui))]
      [] q = "manualByType" -> Counts(ManualTally(Case))
      [] q = "trend" -> Counts(Joined(Tally(OfMonth(Api \cup Ui)),
                                      ManualTally(Case \ aged.results)))
      [] q = "recent" -> Newest(Api \cup Ui, RunsListed)
      [] q = "recentFailures" -> Newest(WithStatus(Api \cup Ui, "failed"), FailuresListed)
      [] q = "api" -> Tally(Api)
      [] q = "apiTrend" -> Counts(Tally(OfMonth(Api)))
      [] q = "apiRecent" -> Newest(Api, RunsListed)
      [] q = "failures" -> TestsAmong(WithStatus(OfWeek(Api), "failed"))
      [] q = "ui" -> Tally(Ui)
      [] q = "uiTrend" -> Counts(Tally(OfMonth(Ui)))
      [] q = "uiRecent" -> Newest(Ui, RunsListed)
      [] q = "flaky" -> Flaky(OfWeek(Ui))
      [] q = "streaks" -> Streaks

Fallback(q) ==
    CASE q \in {"executions", "results", "api", "ui"} -> Zero
      [] q \in {"manualByType", "trend", "apiTrend", "uiTrend"} -> Counts(Zero)
      [] q = "byType" -> [api |-> Counts(Zero), ui |-> Counts(Zero)]
      [] OTHER -> {}

(***************************************************************************)
(* The requests.                                                           *)
(***************************************************************************)

OpenDashboard(v, kind) ==
    /\ view[v].left = <<>>
    /\ view' = [view EXCEPT ![v] = [NoView EXCEPT !.kind = kind, !.left = Queries[kind]]]
    /\ UNCHANGED dashboardRows

\* safeQuery: the answer, or the fallback.
SafeQuery(v) ==
    /\ view[v].left # <<>>
    /\ LET q == Head(view[v].left)
           answered(a) == [view[v] EXCEPT !.left = Tail(@), !.answer[q] = a]
       IN  view' \in {[view EXCEPT ![v] = IF @.calm THEN answered(Answer(q))
                                         ELSE Doubted(answered(Answer(q)))],
                      [view EXCEPT ![v] = Doubted(answered(Fallback(q)))]}
    /\ UNCHANGED dashboardRows

DashboardNext ==
    \/ \E t \in AutomatedTest, status \in {"passed", "failed"} : InsertExecution(t, status)
    \/ \E c \in Case, status \in {"passed", "failed", "blocked", "retest", "none"} :
          RecordResult(c, status)
    \/ LeaveWeek \/ LeaveMonth
    \/ \E v \in Viewer :
          \/ \E kind \in DOMAIN Queries : OpenDashboard(v, kind)
          \/ SafeQuery(v)

(***************************************************************************)
(* What is shown.                                                          *)
(***************************************************************************)

\* Mutant: only the automated tests.
SummaryOfExecutions(a) == a.executions

\* The summary of both sources.
Summary(a) == Joined(a.executions, a.results)

PassRate(s) == IF s.total > 0 THEN (200 * s.passed + s.total) \div (2 * s.total) ELSE 0

(***************************************************************************)
(* Properties.                                                             *)
(***************************************************************************)

DashboardTypeOK ==
    /\ execution \in Seq([test : AutomatedTest, status : {"passed", "failed"}])
    /\ result \in [Case -> {"passed", "failed", "blocked", "retest", "none"}]
    /\ {aged.week, aged.month} \subseteq 0 .. Len(execution) /\ aged.month <= aged.week
    /\ aged.results \subseteq {c \in Case : result[c] # "none"}
    /\ \A v \in Viewer : view[v].kind \in DOMAIN Queries \cup {Nothing}

Complete(v, kind) == view[v].kind = kind /\ view[v].left = <<>>

\* The days of a trend and a summary: no day has what the summary has not, and
\* they are the same as long as no row is older than the trend looks back.
DaysOf(trend, sum, whole) ==
    /\ \A f \in DOMAIN sum : trend[f] <= sum[f]
    /\ whole => trend = sum

\* A dashboard whose queries all worked, with no row changed or grown too old
\* among them, adds up: its types to its summary, manual results included; its
\* days to no more, and to the summary while every row is of the last thirty
\* days (an older one is counted by the summary only); the failures among its
\* recent runs to its recent failures; its flaky tests to passes and failures
\* of its trend, its failing tests to failures of its trend, and to those of
\* its summary while every row is of the last seven days.  Whatever happens
\* among them the pass rate is a percentage.
DashboardAddsUp ==
    \A v \in Viewer :
        LET a == view[v].answer
            calm == view[v].calm
            sum == Counts(Summary(a))
            failed == WithStatus(a.recent, "failed")
        IN  /\ Complete(v, "combined") =>
                  /\ PassRate(Summary(a)) \in 0..100
                  /\ calm => /\ sum = Joined(Joined(a.byType.api, a.byType.ui), a.manualByType)
                             /\ DaysOf(a.trend, sum, aged.month = 0 /\ aged.results = {})
                             /\ \/ failed \subseteq a.recentFailures
                                \/ a.recentFailures \subseteq failed
            /\ Complete(v, "automation") /\ calm =>
                  /\ DaysOf(a.uiTrend, Counts(a.ui), aged.month = 0)
                  /\ a.flaky # {} =>
                        a.uiTrend.passed > 0 /\ a.uiTrend.failed >= Cardinality(a.flaky)
            /\ Complete(v, "api") /\ calm =>
                  /\ DaysOf(a.apiTrend, Counts(a.api), aged.month = 0)
                  /\ a.apiTrend.failed >= Cardinality(a.failures)
                  /\ aged.week = 0 => (a.failures = {}) = (a.api.failed = 0)
=============================================================================
