------------------------------ MODULE Schedules -----------------------------
(***************************************************************************)
(* Scheduled runs in testgenie-backend: the rows of scheduled_tests, the   *)
(* activeJobs map of the process, and the timers behind it.                *)
(*                                                                         *)
(* A handler writes the row, and starts or stops the timer after the await *)
(* that follows.  A timer keeps the configuration it was started with.     *)
(* restoreSchedules starts a timer for every active row, once, five        *)
(* seconds after boot.                                                     *)
(***************************************************************************)
EXTENDS Naturals, FiniteSets

CONSTANTS
    NULL,
    Schedule,       \* ids of scheduled_tests, which are never used again
    User, Cron, Env,
    Created,        \* rows that schedules are created with (a bound), ...
    Patches,        \* ... and what a PATCH writes: <<cron or NULL, env>>
    Request,        \* requests in flight at once (a bound)
    Run,            \* runs of schedules, all told (a bound)
    MaxRestarts,    \* restarts of the process (a bound)
    Unreliable      \* steps whose query may fail: "restore", or one of a run

Row == [active : BOOLEAN, owner : User, cron : Cron, env : Env]
Job == [user : User, cron : Cron, env : Env]
Field == {"user", "env"}
Stage == {"report", "close", "stats"}

ASSUME SchedulesAssumption ==
    /\ NULL \notin Row \cup Job \cup Schedule
    /\ Created \subseteq {r \in Row : r.active}
    /\ Patches \subseteq (Cron \cup {NULL}) \X Env
    /\ IsFiniteSet(Run)
    /\ MaxRestarts \in Nat
    /\ Unreliable \subseteq Stage \cup {"restore"}

VARIABLES
    row,            \* scheduled_tests
    count,          \* its run_count column
    used,           \* the ids it has given out
    activeJobs,     \* the map: schedule -> the job, or NULL
    timers,         \* how many timers of a schedule tick
    request,        \* requests in flight
    boot,           \* restoreSchedules: "waiting", "starting", "done", "failed"
    snapshot,       \* the active rows that it has read
    run,            \* the runs
    restarts,
    overlapped,     \* history: schedules that two handlers worked on at once
    drift           \* history: fields in which a job was left behind its row

vars == <<row, count, used, activeJobs, timers, request, boot, snapshot, run,
          restarts, overlapped, drift>>
table == <<row, count, used>>
memory == <<activeJobs, timers>>
booting == <<boot, snapshot, restarts>>
history == <<overlapped, drift>>

Idle == [at |-> "idle", schedule |-> NULL, user |-> NULL, row |-> NULL]
NoRun == [at |-> "none", schedule |-> NULL, report |-> "none"]
Nothing == [s \in Schedule |-> NULL]

Init ==
    /\ row = Nothing /\ used = {}
    /\ count = [s \in Schedule |-> 0]
    /\ activeJobs = Nothing
    /\ timers = [s \in Schedule |-> 0]
    /\ request = [q \in Request |-> Idle]
    /\ boot = "waiting" /\ snapshot = Nothing
    /\ run = [r \in Run |-> NoRun]
    /\ restarts = 0
    /\ overlapped = {}
    /\ drift = [s \in Schedule |-> {}]

JobOf(user, r) == [user |-> user, cron |-> r.cron, env |-> r.env]
Goto(q, j) == request' = [request EXCEPT ![q] = j]
Stop(s) == [Idle EXCEPT !.at = "stop", !.schedule = s]
WorkOn(s) == {q \in Request : request[q].schedule = s}

\* A handler enters on s: nobody else should be there.
Enter(s) == overlapped' = IF WorkOn(s) # {} \/ snapshot[s] # NULL
                          THEN overlapped \cup {s} ELSE overlapped

(***************************************************************************)
(* The jobs in memory.                                                     *)
(***************************************************************************)

\* stopCronJob stops the timer that the map knows of.
Stopped(s) == IF activeJobs[s] = NULL THEN timers[s] ELSE timers[s] - 1

StartCronJob(s, job) ==
    /\ activeJobs' = [activeJobs EXCEPT ![s] = job]
    /\ timers' = [timers EXCEPT ![s] = Stopped(s) + 1]

StopCronJob(s) ==
    /\ activeJobs' = [activeJobs EXCEPT ![s] = NULL]
    /\ timers' = [timers EXCEPT ![s] = Stopped(s)]

(***************************************************************************)
(* The handlers.                                                           *)
(***************************************************************************)

CreateSchedule(q, s, new) ==
    /\ request[q] = Idle /\ s \notin used
    /\ row' = [row EXCEPT ![s] = new]
    /\ used' = used \cup {s}
    /\ Goto(q, [at |-> "start", schedule |-> s, user |-> new.owner,
                row |-> new])
    /\ UNCHANGED <<count, memory, booting, run, history>>

\* Mutant: the job is not restarted.
PatchScheduleQuietly(q, s, user, cron, env) ==
    /\ request[q] = Idle /\ row[s] # NULL
    /\ row' = [row EXCEPT ![s].cron = IF cron = NULL THEN @ ELSE cron,
                          ![s].env = env]
    /\ Enter(s)
    /\ UNCHANGED <<count, used, memory, request, booting, run, drift>>

\* PATCH writes what the body has.  Only a new cron expression restarts the
\* job, and then in the name of the caller.
PatchSchedule(q, s, user, cron, env) ==
    LET new == [row[s] EXCEPT !.cron = IF cron = NULL THEN @ ELSE cron,
                              !.env = env]
    IN  /\ request[q] = Idle /\ row[s] # NULL
        /\ row' = [row EXCEPT ![s] = new]
        /\ Enter(s)
        /\ IF cron # NULL /\ new.active
           THEN /\ Goto(q, [at |-> "start", schedule |-> s, user |-> user,
                            row |-> new])
                /\ UNCHANGED drift
           ELSE /\ drift' = [drift EXCEPT ![s] = IF new.env # row[s].env
                                                    /\ activeJobs[s] # NULL
                                                 THEN @ \cup {"env"}
                                                 ELSE @]
                /\ UNCHANGED request
        /\ UNCHANGED <<count, used, memory, booting, run>>

ReadForToggle(q, s) ==
    /\ request[q] = Idle /\ row[s] # NULL
    /\ Goto(q, [at |-> "toggle", schedule |-> s, user |-> row[s].owner,
                row |-> row[s]])
    /\ Enter(s)
    /\ UNCHANGED <<table, memory, booting, run, drift>>

\* Writes the negation of what was read, and goes on with the row as read.
WriteToggle(q) ==
    LET s == request[q].schedule
        active == ~request[q].row.active
    IN  /\ request[q].at = "toggle"
        /\ row' = IF row[s] = NULL THEN row
                                   ELSE [row EXCEPT ![s].active = active]
        /\ Goto(q, IF active THEN [request[q] EXCEPT !.at = "start"]
                             ELSE Stop(s))
        /\ UNCHANGED <<count, used, memory, booting, run, history>>

DeleteSchedule(q, s) ==
    /\ request[q] = Idle /\ row[s] # NULL
    /\ row' = [row EXCEPT ![s] = NULL]
    /\ Goto(q, Stop(s))
    /\ Enter(s)
    /\ UNCHANGED <<count, used, memory, booting, run, drift>>

DriftOf(user, r) == IF user = r.owner THEN {} ELSE {"user"}

StartJob(q) ==
    LET j == request[q]
    IN  /\ j.at = "start"
        /\ StartCronJob(j.schedule, JobOf(j.user, j.row))
        /\ Goto(q, Idle)
        /\ drift' = [drift EXCEPT ![j.schedule] = DriftOf(j.user, j.row)]
        /\ UNCHANGED <<table, booting, run, overlapped>>

StopJob(q) ==
    /\ request[q].at = "stop"
    /\ StopCronJob(request[q].schedule)
    /\ Goto(q, Idle)
    /\ drift' = [drift EXCEPT ![request[q].schedule] = {}]
    /\ UNCHANGED <<table, booting, run, overlapped>>

(***************************************************************************)
(* Boot.                                                                   *)
(***************************************************************************)

Chosen == {s \in Schedule : row[s] # NULL /\ row[s].active}

\* restoreSchedules, the query ...
ReadSchedules ==
    /\ boot = "waiting"
    /\ boot' = "starting"
    /\ snapshot' = [s \in Schedule |-> IF s \in Chosen THEN row[s] ELSE NULL]
    /\ overlapped' = overlapped \cup {s \in Chosen : WorkOn(s) # {}}
    /\ UNCHANGED <<table, memory, request, run, restarts, drift>>

\* Mutant: the rows are read, and no job is started.
StartRestoredNone ==
    /\ boot = "starting"
    /\ boot' = "done" /\ snapshot' = Nothing
    /\ UNCHANGED <<table, memory, request, run, restarts, history>>

\* ... and the loop, which awaits nothing.
StartRestored ==
    /\ boot = "starting"
    /\ activeJobs' = [s \in Schedule |->
                        IF snapshot[s] = NULL THEN activeJobs[s]
                        ELSE JobOf(snapshot[s].owner, snapshot[s])]
    /\ timers' = [s \in Schedule |-> IF snapshot[s] = NULL THEN timers[s]
                                                          ELSE Stopped(s) + 1]
    /\ drift' = [s \in Schedule |-> IF snapshot[s] = NULL THEN drift[s]
                                                          ELSE {}]
    /\ boot' = "done" /\ snapshot' = Nothing
    /\ UNCHANGED <<table, request, run, restarts, overlapped>>

\* The error is logged; nobody tries again.
RestoreFails ==
    /\ boot = "waiting" /\ "restore" \in Unreliable
    /\ boot' = "failed"
    /\ UNCHANGED <<table, memory, request, snapshot, run, restarts, history>>

Ended == {"none", "over", "cut"}

\* The process dies and comes back: the rows are all that is left.
Restart ==
    /\ restarts < MaxRestarts
    /\ restarts' = restarts + 1
    /\ activeJobs' = Nothing
    /\ timers' = [s \in Schedule |-> 0]
    /\ request' = [q \in Request |-> Idle]
    /\ boot' = "waiting" /\ snapshot' = Nothing
    /\ run' = [r \in Run |-> IF run[r].at \in Ended THEN run[r]
                                                    ELSE [run[r] EXCEPT !.at = "cut"]]
    /\ overlapped' = {}
    /\ drift' = [s \in Schedule |-> {}]
    /\ UNCHANGED table

(***************************************************************************)
(* Runs.                                                                   *)
(***************************************************************************)

Step(r, at) == run' = [run EXCEPT ![r].at = at]
OnlyRun == <<row, used, memory, request, booting, history>>

\* A timer fires, whether or not the last run is over, or someone asks for a
\* run.  A schedule with no tests leaves no trace.
Fire(r, s) ==
    /\ run[r] = NoRun
    /\ timers[s] > 0 \/ row[s] # NULL
    /\ run' = [run EXCEPT ![r].at = "report", ![r].schedule = s]
    /\ UNCHANGED <<count, OnlyRun>>

\* createRunReport: the foreign key refuses a schedule that is gone.  The
\* tests that follow are RunReports' business.
OpenReport(r) ==
    /\ run[r].at = "report"
    /\ run' = [run EXCEPT ![r] = IF row[@.schedule] = NULL
                                 THEN [@ EXCEPT !.at = "cut"]
                                 ELSE [@ EXCEPT !.at = "close",
                                                !.report = "running"]]
    /\ UNCHANGED <<count, OnlyRun>>

\* Mutant: the statistics are written before the report is closed.
CloseReportLast(r) ==
    LET s == run[r].schedule
    IN  /\ run[r].at = "close"
        /\ run' = [run EXCEPT ![r].at = "stats"]
        /\ count' = IF row[s] = NULL THEN count
                                     ELSE [count EXCEPT ![s] = @ + 1]
        /\ UNCHANGED OnlyRun

CloseReport(r) ==
    /\ run[r].at = "close"
    /\ run' = [run EXCEPT ![r].at = "stats", ![r].report = "closed"]
    /\ UNCHANGED <<count, OnlyRun>>

\* The statistics of the schedule, if it is still there.
CountRun(r) ==
    LET s == run[r].schedule
    IN  /\ run[r].at = "stats"
        /\ count' = IF row[s] = NULL THEN count
                                     ELSE [count EXCEPT ![s] = @ + 1]
        /\ Step(r, "over")
        /\ UNCHANGED OnlyRun

\* An error ends the run where it is; it is logged, or answered.
RunFails(r) ==
    /\ run[r].at \in Unreliable
    /\ Step(r, "cut")
    /\ UNCHANGED <<count, OnlyRun>>

Handle(q) ==
    \/ \E s \in Schedule :
          \/ \E new \in Created : CreateSchedule(q, s, new)
          \/ \E u \in User, p \in Patches : PatchSchedule(q, s, u, p[1], p[2])
          \/ ReadForToggle(q, s)
          \/ DeleteSchedule(q, s)

Continue(q) == WriteToggle(q) \/ StartJob(q) \/ StopJob(q)
Restore == ReadSchedules \/ StartRestored \/ RestoreFails

RunStep(r) ==
    \/ \E s \in Schedule : Fire(r, s)
    \/ OpenReport(r) \/ CloseReport(r) \/ CountRun(r)
    \/ RunFails(r)

Next ==
    \/ \E q \in Request : Handle(q) \/ Continue(q)
    \/ Restore \/ Restart
    \/ \E r \in Run : RunStep(r)

Spec == Init /\ [][Next]_vars

\* The event loop resumes what awaits an answer; people, timers and crashes
\* owe nothing.
FairSpec ==
    Spec /\ WF_vars(Restore) /\ \A q \in Request : WF_vars(Continue(q))

(***************************************************************************)
(* Properties.                                                             *)
(***************************************************************************)

RequestRecord == [at : {"idle", "toggle", "start", "stop"},
                  schedule : Schedule \cup {NULL},
                  user : User \cup {NULL}, row : Row \cup {NULL}]
RunRecord == [at : Stage \cup Ended, schedule : Schedule \cup {NULL},
              report : {"none", "running", "closed"}]

TypeOK ==
    /\ row \in [Schedule -> Row \cup {NULL}]
    /\ count \in [Schedule -> Nat]
    /\ used \subseteq Schedule
    /\ activeJobs \in [Schedule -> Job \cup {NULL}]
    /\ timers \in [Schedule -> Nat]
    /\ request \in [Request -> RequestRecord]
    /\ boot \in {"waiting", "starting", "done", "failed"}
    /\ snapshot \in [Schedule -> Row \cup {NULL}]
    /\ run \in [Run -> RunRecord]
    /\ restarts \in 0..MaxRestarts
    /\ overlapped \subseteq Schedule
    /\ drift \in [Schedule -> SUBSET Field]

\* However toggles, edits, deletions and the restore overlap, a schedule has
\* the timer that activeJobs knows of and no other: none ticks out of reach.
\* Once the process has restored its schedules, one that nobody has worked on
\* at the same time as somebody else has a job exactly while its row is
\* active, with the row's cron expression; and its environment and its owner,
\* but where a PATCH is known to leave them behind.
JobsFollowRows ==
    \A s \in Schedule :
        /\ timers[s] = IF activeJobs[s] = NULL THEN 0 ELSE 1
        /\ boot = "done" /\ s \notin overlapped /\ WorkOn(s) = {}
            => /\ activeJobs[s] # NULL <=> s \in Chosen
               /\ s \in Chosen
                    => /\ activeJobs[s].cron = row[s].cron
                       /\ \/ activeJobs[s].env = row[s].env
                          \/ "env" \in drift[s]
                       /\ \/ activeJobs[s].user = row[s].owner
                          \/ "user" \in drift[s]

\* A schedule counts no more runs than have closed their reports, whatever
\* runs at the same time, fails or dies.
CountedRunsAreClosed ==
    \A s \in Schedule :
        row[s] # NULL
            => count[s] <= Cardinality({r \in Run : run[r].schedule = s
                                              /\ run[r].report = "closed"})

\* An active schedule that nobody has worked on at the same time as somebody
\* else has a job in the end, or is switched off, unless the restore failed.
ActiveSchedulesRun ==
    \A s \in Schedule :
        s \in Chosen ~> \/ activeJobs[s] # NULL
                        \/ s \notin Chosen
                        \/ s \in overlapped
                        \/ boot = "failed"
=============================================================================
