--------------------------- MODULE SchedulesProofs --------------------------
(***************************************************************************)
(* What holds of the scheduled runs for any schedules, requests, runs and  *)
(* restarts: the timers follow activeJobs, the jobs follow the rows, and a *)
(* schedule counts no more runs than have closed their reports.            *)
(***************************************************************************)
EXTENDS Schedules, FiniteSetTheorems, TLAPS

\* A request that is in flight knows its schedule; one that will start a job,
\* or toggle a row, holds the row it read and the user it acts for.
Shape ==
    \A q \in Request :
        /\ request[q].at = "idle" => request[q] = Idle
        /\ request[q].at # "idle" => request[q].schedule \in Schedule
        /\ request[q].at \in {"toggle", "start"}
               => request[q].user \in User /\ request[q].row \in Row

\* An id that was never given out is nowhere.
Unheard ==
    \A s \in Schedule \ used :
        /\ row[s] = NULL /\ activeJobs[s] = NULL /\ snapshot[s] = NULL
        /\ WorkOn(s) = {}

\* A schedule has the timer of its job and no other.
OneTimer == \A s \in Schedule : timers[s] = IF activeJobs[s] = NULL THEN 0 ELSE 1

\* Where handlers have kept apart, one request at most is at work on s, and
\* none while the restore is about to start s.
Alone(s) ==
    /\ \A p, q \in WorkOn(s) : p = q
    /\ snapshot[s] # NULL => WorkOn(s) = {}

\* What the restore has read of s still stands.
Restoring(s) == snapshot[s] # NULL => row[s] = snapshot[s] /\ s \in Chosen

\* What a request at work on s is about to do is what the row calls for.
Intends(s) ==
    \A q \in WorkOn(s) :
        /\ request[q].at = "toggle" => row[s] = request[q].row
                                       /\ request[q].user = row[s].owner
        /\ request[q].at = "start" => /\ s \in Chosen
                                      /\ row[s].cron = request[q].row.cron
                                      /\ row[s].env = request[q].row.env
                                      /\ row[s].owner = request[q].row.owner
        /\ request[q].at = "stop" => s \notin Chosen

\* The job of s is the one its row calls for.
Fits(s) ==
    activeJobs[s] # NULL
        => /\ s \in Chosen
           /\ activeJobs[s].cron = row[s].cron
           /\ activeJobs[s].env = row[s].env \/ "env" \in drift[s]
           /\ activeJobs[s].user = row[s].owner \/ "user" \in drift[s]

\* Past the restore, or if the restore has not read it, what is active runs.
Runs(s) ==
    s \in Chosen /\ (boot = "done" \/ (boot = "starting" /\ snapshot[s] = NULL))
        => activeJobs[s] # NULL

Settled(s) == \A q \in WorkOn(s) : request[q].at = "toggle"

\* What holds of a schedule that handlers have kept apart on.
Orderly(s) ==
    /\ Alone(s) /\ Restoring(s) /\ Intends(s)
    /\ Settled(s) => Fits(s) /\ Runs(s)

\* A run's report is as far as the run is.
Reported ==
    \A r \in Run :
        /\ run[r].at \in {"none", "report"} => run[r].report = "none"
        /\ run[r].at \in Stage => run[r].schedule \in Schedule
        /\ run[r].at = "stats" => run[r].report = "closed"
        /\ run[r].at = "close" => run[r].report = "running"

Closed(s) == {r \in Run : run[r].schedule = s /\ run[r].report = "closed"}

\* The runs that s may have counted already.
Counted(s) == {r \in Closed(s) : run[r].at # "stats"}

Counts == \A s \in Schedule : count[s] <= Cardinality(Counted(s))

NothingRead == boot # "starting" => snapshot = Nothing

\* What holds whether or not handlers have kept apart.
Basis == TypeOK /\ Shape /\ Unheard /\ OneTimer /\ NothingRead

\* The strengthening of JobsFollowRows and CountedRunsAreClosed.
SchedulesInv ==
    /\ Basis
    /\ \A s \in Schedule \ overlapped : Orderly(s)
    /\ Reported /\ Counts

LEMMA NullIsNone == NULL \notin Row /\ NULL \notin Job /\ NULL \notin Schedule
BY SchedulesAssumption

LEMMA Types ==
    TypeOK => /\ request \in [Request -> RequestRecord]
              /\ run \in [Run -> RunRecord]
BY DEF TypeOK

LEMMA IdleIsARequest == Idle \in RequestRecord /\ Idle.schedule = NULL /\ Idle.at = "idle"
BY DEF Idle, RequestRecord

LEMMA JobsAreJobs ==
    ASSUME NEW u \in User, NEW r \in Row
    PROVE  /\ JobOf(u, r) \in Job
           /\ JobOf(u, r).cron = r.cron /\ JobOf(u, r).env = r.env
           /\ JobOf(u, r).user = u
BY DEF JobOf, Job, Row

LEMMA InitBasis == Init => Basis
<1> SUFFICES ASSUME Init PROVE Basis
  OBVIOUS
<1>1. TypeOK
  BY IdleIsARequest, SchedulesAssumption
  DEF Init, TypeOK, Nothing, NoRun, RunRecord, Ended
<1>2. \A s \in Schedule : WorkOn(s) = {}
  BY IdleIsARequest, NullIsNone DEF Init, WorkOn
<1>3. Shape /\ Unheard /\ OneTimer /\ NothingRead
  BY <1>2, IdleIsARequest
  DEF Init, Shape, Unheard, OneTimer, NothingRead, Nothing
<1>4. QED
  BY <1>1, <1>3 DEF Basis

LEMMA InitSchedulesInv == Init => SchedulesInv
<1> SUFFICES ASSUME Init PROVE SchedulesInv
  OBVIOUS
<1>1. \A s \in Schedule : WorkOn(s) = {}
  BY IdleIsARequest, NullIsNone DEF Init, WorkOn
<1>2. \A s \in Schedule : Orderly(s)
  BY <1>1
  DEF Init, Orderly, Alone, Restoring, Intends, Fits, Runs, Chosen, Nothing
<1>3. Reported
  BY DEF Init, Reported, NoRun, Stage
<1>4. Counts
  <2>1. \A s \in Schedule : Counted(s) = {}
    BY DEF Init, Counted, Closed, NoRun
  <2>2. QED
    BY <2>1, FS_EmptySet DEF Init, Counts
<1>5. QED
  BY <1>2, <1>3, <1>4, InitBasis DEF SchedulesInv

(***************************************************************************)
(* A step of one request on one schedule.                                  *)
(***************************************************************************)

\* q, which is at work on s or on nothing, is so still; nothing but s moves.
Touches(q, s) ==
    /\ \A p \in Request \ {q} : request'[p] = request[p]
    /\ request[q].schedule \in {s, NULL} /\ request'[q].schedule \in {s, NULL}
    /\ \A t \in Schedule \ {s} : /\ row'[t] = row[t] /\ drift'[t] = drift[t]
                                 /\ activeJobs'[t] = activeJobs[t]
                                 /\ timers'[t] = timers[t]
                                 /\ t \in overlapped => t \in overlapped'
    /\ UNCHANGED booting

LEMMA OthersWorked ==
    ASSUME NEW q \in Request, NEW s \in Schedule, Touches(q, s),
           NEW t \in Schedule \ {s}
    PROVE  /\ WorkOn(t)' = WorkOn(t)
           /\ \A p \in WorkOn(t) : request'[p] = request[p]
BY NullIsNone DEF Touches, WorkOn

LEMMA OthersOrderly ==
    ASSUME SchedulesInv, NEW q \in Request, NEW s \in Schedule, Touches(q, s),
           NEW t \in Schedule \ {s}, t \notin overlapped'
    PROVE  Orderly(t)'
<1>1. Orderly(t)
  BY DEF SchedulesInv, Touches
<1>2. /\ row'[t] = row[t] /\ drift'[t] = drift[t] /\ activeJobs'[t] = activeJobs[t]
      /\ snapshot' = snapshot /\ boot' = boot
  BY DEF Touches, booting
<1>3. t \in Chosen' <=> t \in Chosen
  BY <1>2 DEF Chosen
<1>4. (Alone(t) /\ Restoring(t) /\ Intends(t))'
  BY <1>1, <1>2, <1>3, OthersWorked DEF Orderly, Alone, Restoring, Intends
<1>5. Settled(t)' => Fits(t)' /\ Runs(t)'
  BY <1>1, <1>2, <1>3, OthersWorked DEF Orderly, Settled, Fits, Runs
<1>6. QED
  BY <1>4, <1>5 DEF Orderly

LEMMA TouchKeeps ==
    ASSUME SchedulesInv, NEW q \in Request, NEW s \in Schedule, Touches(q, s),
           s \notin overlapped' => Orderly(s)', Basis', UNCHANGED <<run, count>>
    PROVE  SchedulesInv'
<1>1. Reported'
  BY DEF SchedulesInv, Reported
<1>2. Counts'
  BY DEF SchedulesInv, Counts, Counted, Closed
<1>3. QED
  BY <1>1, <1>2, OthersOrderly DEF SchedulesInv

\* Nobody was there, if nobody is known to have been.
LEMMA Entered ==
    ASSUME SchedulesInv, NEW s \in Schedule, Enter(s)
    PROVE  /\ overlapped \subseteq overlapped'
           /\ s \notin overlapped'
                => /\ s \notin overlapped /\ WorkOn(s) = {} /\ snapshot[s] = NULL
                   /\ Orderly(s) /\ Fits(s) /\ Runs(s)
<1>1. overlapped \subseteq overlapped'
  BY DEF Enter
<1>2. ASSUME s \notin overlapped'
      PROVE  s \notin overlapped /\ WorkOn(s) = {} /\ snapshot[s] = NULL
  BY <1>2 DEF Enter
<1>3. QED
  BY <1>1, <1>2 DEF SchedulesInv, Orderly, Settled

LEMMA Going ==
    ASSUME TypeOK, NEW q \in Request, NEW j \in RequestRecord, Goto(q, j)
    PROVE  /\ request' \in [Request -> RequestRecord]
           /\ request'[q] = j
           /\ \A p \in Request \ {q} : request'[p] = request[p]
BY DEF TypeOK, Goto

\* What a request that goes to j owes to Shape and Unheard.
LEMMA ShapeKept ==
    ASSUME Basis, NEW q \in Request, NEW s \in Schedule, Touches(q, s),
           s \in used', used \subseteq used',
           request'[q].at = "idle" => request'[q] = Idle,
           request'[q].at # "idle" => request'[q].schedule \in Schedule,
           request'[q].at \in {"toggle", "start"}
               => request'[q].user \in User /\ request'[q].row \in Row
    PROVE  Shape' /\ Unheard'
<1>1. Shape'
  BY DEF Basis, Shape, Touches
<1>2. ASSUME NEW t \in Schedule \ used'
      PROVE  row'[t] = NULL /\ activeJobs'[t] = NULL /\ snapshot'[t] = NULL
             /\ WorkOn(t)' = {}
  <2>1. t \in Schedule \ {s} /\ t \notin used
    OBVIOUS
  <2>2. WorkOn(t)' = WorkOn(t)
    BY <2>1, OthersWorked
  <2>3. QED
    BY <2>1, <2>2 DEF Basis, Unheard, Touches, booting
<1>3. QED
  BY <1>1, <1>2 DEF Unheard

LEMMA StopIsARequest ==
    ASSUME NEW s \in Schedule
    PROVE  /\ Stop(s) \in RequestRecord
           /\ Stop(s).at = "stop" /\ Stop(s).schedule = s
BY DEF Stop, Idle, RequestRecord

LEMMA IdleWorksOnNothing ==
    ASSUME NEW q \in Request, request[q] = Idle
    PROVE  request[q].schedule = NULL
BY IdleIsARequest

LEMMA CreateKeeps ==
    ASSUME SchedulesInv, NEW q \in Request, NEW s \in Schedule, NEW new \in Created,
           CreateSchedule(q, s, new)
    PROVE  SchedulesInv'
<1> DEFINE j == [at |-> "start", schedule |-> s, user |-> new.owner, row |-> new]
<1>1. /\ new \in Row /\ new.active /\ new.owner \in User
  BY SchedulesAssumption DEF Row
<1>2. j \in RequestRecord /\ Goto(q, j)
  BY <1>1 DEF RequestRecord, CreateSchedule
<1>3. /\ request' \in [Request -> RequestRecord] /\ request'[q] = j
      /\ \A p \in Request \ {q} : request'[p] = request[p]
  BY <1>2, Going DEF SchedulesInv, Basis
<1>4. j.at = "start" /\ j.schedule = s /\ j.user = new.owner /\ j.row = new
  OBVIOUS
<1> HIDE DEF j
<1>5. /\ request[q] = Idle /\ request[q].schedule = NULL /\ s \notin used
      /\ row' = [row EXCEPT ![s] = new] /\ used' = used \cup {s}
      /\ UNCHANGED <<count, activeJobs, timers, boot, snapshot, restarts, run,
                     overlapped, drift>>
  BY IdleWorksOnNothing DEF CreateSchedule, memory, booting, history
<1>6. row \in [Schedule -> Row \cup {NULL}]
  BY DEF SchedulesInv, Basis, TypeOK
<1>7. Touches(q, s)
  BY <1>3, <1>4, <1>5, <1>6 DEF Touches, booting
<1>8. TypeOK'
  BY <1>1, <1>3, <1>5 DEF SchedulesInv, Basis, TypeOK
<1>9. Basis'
  <2>1. Shape' /\ Unheard'
    BY <1>1, <1>3, <1>4, <1>5, <1>7, ShapeKept DEF SchedulesInv
  <2>2. OneTimer' /\ NothingRead'
    BY <1>5 DEF SchedulesInv, Basis, OneTimer, NothingRead
  <2>3. QED
    BY <1>8, <2>1, <2>2 DEF Basis
<1>10. Orderly(s)'
  <2>1. /\ row'[s] = new /\ snapshot'[s] = NULL /\ WorkOn(s) = {} /\ s \in Chosen'
    BY <1>1, <1>5, <1>6, NullIsNone DEF SchedulesInv, Basis, Unheard, Chosen
  <2>2. WorkOn(s)' = {q}
    BY <1>3, <1>4, <2>1 DEF WorkOn
  <2>3. QED
    BY <1>3, <1>4, <2>1, <2>2 DEF Orderly, Alone, Restoring, Intends, Settled
<1>11. QED
  BY <1>5, <1>7, <1>9, <1>10, TouchKeeps

LEMMA ReadKeeps ==
    ASSUME SchedulesInv, NEW q \in Request, NEW s \in Schedule,
           ReadForToggle(q, s)
    PROVE  SchedulesInv'
<1> DEFINE j == [at |-> "toggle", schedule |-> s, user |-> row[s].owner,
                 row |-> row[s]]
<1>1. row[s] \in Row /\ row[s].owner \in User
  BY DEF SchedulesInv, Basis, TypeOK, Row, ReadForToggle
<1>2. j \in RequestRecord /\ Goto(q, j)
  BY <1>1 DEF RequestRecord, ReadForToggle
<1>3. /\ request' \in [Request -> RequestRecord] /\ request'[q] = j
      /\ \A p \in Request \ {q} : request'[p] = request[p]
  BY <1>2, Going DEF SchedulesInv, Basis
<1>4. j.at = "toggle" /\ j.schedule = s /\ j.user = row[s].owner /\ j.row = row[s]
  OBVIOUS
<1> HIDE DEF j
<1>5. /\ request[q] = Idle /\ request[q].schedule = NULL /\ Enter(s)
      /\ UNCHANGED <<row, used, count, activeJobs, timers, boot, snapshot,
                     restarts, run, drift>>
  BY IdleWorksOnNothing DEF ReadForToggle, table, memory, booting
<1>6. s \in used
  BY <1>1, NullIsNone DEF SchedulesInv, Basis, Unheard
<1>7. Touches(q, s)
  BY <1>3, <1>4, <1>5, Entered DEF Touches, booting
<1>8. TypeOK'
  BY <1>3, <1>5 DEF SchedulesInv, Basis, TypeOK, Enter
<1>9. Basis'
  <2>1. Shape' /\ Unheard'
    BY <1>1, <1>3, <1>4, <1>5, <1>6, <1>7, ShapeKept DEF SchedulesInv
  <2>2. OneTimer' /\ NothingRead'
    BY <1>5 DEF SchedulesInv, Basis, OneTimer, NothingRead
  <2>3. QED
    BY <1>8, <2>1, <2>2 DEF Basis
<1>10. ASSUME s \notin overlapped'
      PROVE  Orderly(s)'
  <2>1. WorkOn(s) = {} /\ snapshot[s] = NULL /\ Fits(s) /\ Runs(s)
    BY <1>5, <1>10, Entered
  <2>2. WorkOn(s)' = {q}
    BY <1>3, <1>4, <2>1 DEF WorkOn
  <2>3. (Alone(s) /\ Restoring(s) /\ Intends(s))'
    BY <1>3, <1>4, <1>5, <2>1, <2>2 DEF Alone, Restoring, Intends
  <2>4. Fits(s)' /\ Runs(s)'
    BY <1>5, <2>1 DEF Fits, Runs, Chosen
  <2>5. QED
    BY <2>3, <2>4 DEF Orderly
<1>11. QED
  BY <1>5, <1>7, <1>9, <1>10, TouchKeeps

LEMMA DeleteKeeps ==
    ASSUME SchedulesInv, NEW q \in Request, NEW s \in Schedule,
           DeleteSchedule(q, s)
    PROVE  SchedulesInv'
<1>1. /\ request' \in [Request -> RequestRecord] /\ request'[q] = Stop(s)
      /\ \A p \in Request \ {q} : request'[p] = request[p]
      /\ Stop(s).at = "stop" /\ Stop(s).schedule = s
  BY StopIsARequest, Going DEF SchedulesInv, Basis, DeleteSchedule
<1>2. /\ request[q] = Idle /\ request[q].schedule = NULL /\ Enter(s)
      /\ row' = [row EXCEPT ![s] = NULL] /\ row[s] # NULL
      /\ UNCHANGED <<used, count, activeJobs, timers, boot, snapshot,
                     restarts, run, drift>>
  BY IdleWorksOnNothing DEF DeleteSchedule, memory, booting
<1>3. row \in [Schedule -> Row \cup {NULL}] /\ s \in used
  BY <1>2 DEF SchedulesInv, Basis, TypeOK, Unheard
<1>4. Touches(q, s)
  BY <1>1, <1>2, <1>3, Entered DEF Touches, booting
<1>5. TypeOK'
  BY <1>1, <1>2 DEF SchedulesInv, Basis, TypeOK, Enter
<1>6. Basis'
  <2>1. Shape' /\ Unheard'
    BY <1>1, <1>2, <1>3, <1>4, ShapeKept DEF SchedulesInv
  <2>2. OneTimer' /\ NothingRead'
    BY <1>2 DEF SchedulesInv, Basis, OneTimer, NothingRead
  <2>3. QED
    BY <1>5, <2>1, <2>2 DEF Basis
<1>7. ASSUME s \notin overlapped'
      PROVE  Orderly(s)'
  <2>1. WorkOn(s) = {} /\ snapshot'[s] = NULL /\ s \notin Chosen'
    BY <1>2, <1>3, <1>7, Entered DEF Chosen
  <2>2. WorkOn(s)' = {q}
    BY <1>1, <2>1 DEF WorkOn
  <2>3. QED
    BY <1>1, <2>1, <2>2 DEF Orderly, Alone, Restoring, Intends, Settled
<1>8. QED
  BY <1>2, <1>4, <1>6, <1>7, TouchKeeps

LEMMA PatchKeeps ==
    ASSUME SchedulesInv, NEW q \in Request, NEW s \in Schedule,
           NEW u \in User, NEW p \in Patches, PatchSchedule(q, s, u, p[1], p[2])
    PROVE  SchedulesInv'
<1> DEFINE cron == p[1]
           env == p[2]
           new == [row[s] EXCEPT !.cron = IF cron = NULL THEN @ ELSE cron, !.env = env]
           j == [at |-> "start", schedule |-> s, user |-> u, row |-> new]
<1>1. cron \in Cron \cup {NULL} /\ env \in Env /\ row[s] \in Row
      /\ row \in [Schedule -> Row \cup {NULL}]
  BY SchedulesAssumption DEF SchedulesInv, Basis, TypeOK, PatchSchedule
<1>2. /\ new \in Row /\ new.active = row[s].active /\ new.owner = row[s].owner
      /\ new.cron = (IF cron = NULL THEN row[s].cron ELSE cron) /\ new.env = env
  BY <1>1 DEF Row
<1>3. /\ request[q] = Idle /\ request[q].schedule = NULL /\ Enter(s)
      /\ row' = [row EXCEPT ![s] = new]
      /\ UNCHANGED <<used, count, activeJobs, timers, boot, snapshot, restarts, run>>
  BY IdleWorksOnNothing DEF PatchSchedule, memory, booting
<1>4. CASE cron # NULL /\ new.active /\ Goto(q, j) /\ UNCHANGED drift
  <2>1. j \in RequestRecord
    BY <1>2 DEF RequestRecord
  <2>2. j.at = "start" /\ j.schedule = s /\ j.user = u /\ j.row = new
    OBVIOUS
  <2> HIDE DEF j, new
  <2>3. /\ request' \in [Request -> RequestRecord] /\ request'[q] = j
        /\ \A v \in Request \ {q} : request'[v] = request[v]
    BY <1>4, <2>1, Going DEF SchedulesInv, Basis
  <2>4. s \in used
    BY <1>1, NullIsNone DEF SchedulesInv, Basis, Unheard
  <2>5. Touches(q, s)
    BY <1>1, <1>3, <1>4, <2>2, <2>3, Entered DEF Touches, booting
  <2>6. TypeOK'
    BY <1>2, <1>3, <1>4, <2>3 DEF SchedulesInv, Basis, TypeOK, Enter
  <2>7. Basis'
    <3>1. Shape' /\ Unheard'
      BY <1>2, <1>3, <2>2, <2>3, <2>4, <2>5, ShapeKept DEF SchedulesInv
    <3>2. OneTimer' /\ NothingRead'
      BY <1>3 DEF SchedulesInv, Basis, OneTimer, NothingRead
    <3>3. QED
      BY <2>6, <3>1, <3>2 DEF Basis
  <2>8. ASSUME s \notin overlapped'
        PROVE  Orderly(s)'
    <3>1. WorkOn(s) = {} /\ snapshot'[s] = NULL
      BY <1>3, <2>8, Entered
    <3>2. WorkOn(s)' = {q} /\ row'[s] = new /\ s \in Chosen'
      BY <1>1, <1>2, <1>3, <1>4, <2>2, <2>3, <3>1, NullIsNone DEF WorkOn, Chosen
    <3>3. QED
      BY <2>2, <2>3, <3>1, <3>2 DEF Orderly, Alone, Restoring, Intends, Settled
  <2>9. QED
    BY <1>3, <2>5, <2>7, <2>8, TouchKeeps
<1>5. CASE /\ UNCHANGED request /\ ~(cron # NULL /\ new.active)
           /\ drift' = [drift EXCEPT ![s] = IF new.env # row[s].env
                                               /\ activeJobs[s] # NULL
                                            THEN @ \cup {"env"} ELSE @]
  <2> HIDE DEF new
  <2>1. s \in used
    BY <1>1, NullIsNone DEF SchedulesInv, Basis, Unheard
  <2>2. drift \in [Schedule -> SUBSET Field]
    BY DEF SchedulesInv, Basis, TypeOK
  <2>3. Touches(q, s)
    BY <1>1, <1>3, <1>5, <2>2, Entered DEF Touches, booting
  <2>4. TypeOK'
    BY <1>2, <1>3, <1>5 DEF SchedulesInv, Basis, TypeOK, Enter, Field
  <2>5. Basis'
    <3>1. Shape' /\ Unheard'
      BY <1>3, <1>5, <2>1, <2>3, ShapeKept, IdleIsARequest DEF SchedulesInv
    <3>2. OneTimer' /\ NothingRead'
      BY <1>3 DEF SchedulesInv, Basis, OneTimer, NothingRead
    <3>3. QED
      BY <2>4, <3>1, <3>2 DEF Basis
  <2>6. ASSUME s \notin overlapped'
        PROVE  Orderly(s)'
    <3>1. WorkOn(s) = {} /\ snapshot'[s] = NULL /\ Fits(s) /\ Runs(s)
      BY <1>3, <2>6, Entered
    <3>2. WorkOn(s)' = {} /\ row'[s] = new
      BY <1>1, <1>3, <1>5, <3>1 DEF WorkOn
    <3>3. s \in Chosen' <=> s \in Chosen
      BY <1>1, <1>2, <3>2, NullIsNone DEF Chosen
    <3>4. activeJobs[s] # NULL
            => \/ new.env = row[s].env /\ drift'[s] = drift[s]
               \/ "env" \in drift'[s] /\ drift[s] \subseteq drift'[s]
      BY <1>5, <2>2
    <3>5. s \in Chosen => new.cron = row[s].cron
      BY <1>2, <1>5, <3>3 DEF Chosen
    <3>6. Fits(s)'
      BY <1>2, <1>3, <3>1, <3>2, <3>3, <3>4, <3>5 DEF Fits
    <3>7. Runs(s)'
      BY <1>3, <3>1, <3>3 DEF Runs
    <3>8. QED
      BY <3>1, <3>2, <3>6, <3>7 DEF Orderly, Alone, Restoring, Intends
  <2>7. QED
    BY <1>3, <2>3, <2>5, <2>6, TouchKeeps
<1>6. QED
  BY <1>4, <1>5 DEF PatchSchedule

\* What Orderly says to the only request at work on s.
LEMMA MyTurn ==
    ASSUME SchedulesInv, NEW q \in Request, request[q].at # "idle",
           NEW s, s = request[q].schedule
    PROVE  /\ s \in Schedule /\ s \in used /\ q \in WorkOn(s)
           /\ s \notin overlapped => /\ WorkOn(s) = {q} /\ snapshot[s] = NULL
                                     /\ Intends(s) /\ Orderly(s)
<1>1. s \in Schedule /\ q \in WorkOn(s)
  BY DEF SchedulesInv, Basis, Shape, WorkOn
<1>2. s \in used
  BY <1>1 DEF SchedulesInv, Basis, Unheard
<1>3. ASSUME s \notin overlapped
      PROVE  WorkOn(s) = {q} /\ snapshot[s] = NULL /\ Intends(s) /\ Orderly(s)
  BY <1>1, <1>3 DEF SchedulesInv, Orderly, Alone
<1>4. QED
  BY <1>1, <1>2, <1>3

LEMMA ToggleKeeps ==
    ASSUME SchedulesInv, NEW q \in Request, WriteToggle(q)
    PROVE  SchedulesInv'
<1>1. PICK s : s = request[q].schedule
  OBVIOUS
<1>2. PICK old : old = request[q].row
  OBVIOUS
<1>3. /\ request[q].at = "toggle" /\ s \in Schedule /\ s \in used
      /\ old \in Row /\ request[q].user \in User /\ (~old.active) \in BOOLEAN
      /\ request[q] \in RequestRecord
  <2>1. request[q].at = "toggle"
    BY DEF WriteToggle
  <2>2. s \in Schedule /\ s \in used
    BY <1>1, <2>1, MyTurn
  <2>3. old \in Row /\ request[q].user \in User
    BY <1>2, <2>1 DEF SchedulesInv, Basis, Shape
  <2>4. request[q] \in RequestRecord
    BY DEF SchedulesInv, Basis, TypeOK
  <2>5. QED
    BY <2>1, <2>2, <2>3, <2>4 DEF Row
<1>4. PICK j : j = IF ~old.active THEN [request[q] EXCEPT !.at = "start"] ELSE Stop(s)
  OBVIOUS
<1>5. /\ Goto(q, j)
      /\ row' = IF row[s] = NULL THEN row ELSE [row EXCEPT ![s].active = ~old.active]
      /\ UNCHANGED <<count, used, activeJobs, timers, boot, snapshot, restarts, run,
                     overlapped, drift>>
  BY <1>1, <1>2, <1>4 DEF WriteToggle, memory, booting, history
<1>6. /\ j \in RequestRecord /\ j.schedule = s /\ j.at \in {"start", "stop"}
      /\ ~old.active => j.at = "start" /\ j.user = request[q].user /\ j.row = old
      /\ old.active => j.at = "stop"
  BY <1>1, <1>2, <1>3, <1>4, StopIsARequest DEF RequestRecord
<1>7. /\ request' \in [Request -> RequestRecord] /\ request'[q] = j
      /\ \A p \in Request \ {q} : request'[p] = request[p]
  BY <1>5, <1>6, Going DEF SchedulesInv, Basis
<1>8. row \in [Schedule -> Row \cup {NULL}]
  BY DEF SchedulesInv, Basis, TypeOK
<1>9. /\ row' \in [Schedule -> Row \cup {NULL}]
      /\ \A t \in Schedule \ {s} : row'[t] = row[t]
      /\ row[s] = NULL => row'[s] = NULL
      /\ row[s] # NULL => row'[s] \in Row /\ row'[s] = [row[s] EXCEPT !.active = ~old.active]
  BY <1>3, <1>5, <1>8 DEF Row
<1>10. Touches(q, s)
  BY <1>1, <1>5, <1>6, <1>7, <1>9 DEF Touches, booting
<1>11. TypeOK'
  BY <1>5, <1>7, <1>9 DEF SchedulesInv, Basis, TypeOK
<1>12. Basis'
  <2>1. Shape' /\ Unheard'
    BY <1>3, <1>5, <1>6, <1>7, <1>10, ShapeKept DEF SchedulesInv
  <2>2. OneTimer' /\ NothingRead'
    BY <1>5 DEF SchedulesInv, Basis, OneTimer, NothingRead
  <2>3. QED
    BY <1>11, <2>1, <2>2 DEF Basis
<1>13. ASSUME s \notin overlapped'
       PROVE  Orderly(s)'
  <2>1. WorkOn(s) = {q} /\ snapshot'[s] = NULL /\ row[s] = old
    BY <1>1, <1>2, <1>3, <1>5, <1>13, MyTurn DEF Intends
  <2>2. WorkOn(s)' = {q}
    BY <1>6, <1>7, <2>1 DEF WorkOn
  <2>3. /\ row'[s] \in Row /\ row'[s].active = ~old.active /\ row'[s].cron = old.cron
        /\ row'[s].env = old.env /\ row'[s].owner = old.owner
    BY <1>3, <1>9, <2>1, NullIsNone DEF Row
  <2>4. s \in Chosen' <=> ~old.active
    BY <1>3, <2>3, NullIsNone DEF Chosen
  <2>5. QED
    BY <1>6, <1>7, <2>1, <2>2, <2>3, <2>4
    DEF Orderly, Alone, Restoring, Intends, Settled
<1>14. QED
  BY <1>3, <1>5, <1>10, <1>12, <1>13, TouchKeeps

LEMMA StartJobKeeps ==
    ASSUME SchedulesInv, NEW q \in Request, StartJob(q)
    PROVE  SchedulesInv'
<1>1. PICK s : s = request[q].schedule
  OBVIOUS
<1>2. PICK u : u = request[q].user
  OBVIOUS
<1>3. PICK r : r = request[q].row
  OBVIOUS
<1>4. request[q].at = "start"
  BY DEF StartJob
<1>5. s \in Schedule /\ s \in used /\ u \in User /\ r \in Row
  <2>1. s \in Schedule /\ s \in used
    BY <1>1, <1>4, MyTurn
  <2>2. QED
    BY <1>2, <1>3, <1>4, <2>1 DEF SchedulesInv, Basis, Shape
<1>6. PICK job : job = JobOf(u, r)
  OBVIOUS
<1>7. /\ job \in Job /\ job # NULL /\ job.cron = r.cron /\ job.env = r.env
      /\ job.user = u
  BY <1>5, <1>6, JobsAreJobs, NullIsNone
<1>8. /\ activeJobs' = [activeJobs EXCEPT ![s] = job]
      /\ timers' = [timers EXCEPT ![s] = Stopped(s) + 1]
      /\ drift' = [drift EXCEPT ![s] = DriftOf(u, r)]
      /\ Goto(q, Idle)
      /\ UNCHANGED <<row, count, used, boot, snapshot, restarts, run, overlapped>>
  BY <1>1, <1>2, <1>3, <1>6 DEF StartJob, StartCronJob, table, booting
<1>9. /\ request' \in [Request -> RequestRecord] /\ request'[q] = Idle
      /\ \A p \in Request \ {q} : request'[p] = request[p]
  BY <1>8, IdleIsARequest, Going DEF SchedulesInv, Basis
<1>10. /\ activeJobs \in [Schedule -> Job \cup {NULL}]
       /\ timers \in [Schedule -> Nat] /\ drift \in [Schedule -> SUBSET Field]
       /\ timers[s] = IF activeJobs[s] = NULL THEN 0 ELSE 1
  BY <1>5 DEF SchedulesInv, Basis, TypeOK, OneTimer
<1>11. Stopped(s) = 0
  BY <1>10 DEF Stopped
<1>12. /\ activeJobs' \in [Schedule -> Job \cup {NULL}] /\ activeJobs'[s] = job
       /\ timers' \in [Schedule -> Nat] /\ timers'[s] = 1
       /\ drift' \in [Schedule -> SUBSET Field] /\ drift'[s] = DriftOf(u, r)
       /\ \A t \in Schedule \ {s} : /\ activeJobs'[t] = activeJobs[t]
                                    /\ timers'[t] = timers[t]
                                    /\ drift'[t] = drift[t]
  BY <1>5, <1>7, <1>8, <1>10, <1>11 DEF DriftOf, Field
<1>13. Touches(q, s)
  BY <1>1, <1>8, <1>9, <1>12, IdleIsARequest DEF Touches, booting
<1>14. TypeOK'
  BY <1>8, <1>9, <1>12 DEF SchedulesInv, Basis, TypeOK
<1>15. Basis'
  <2>1. Shape' /\ Unheard'
    BY <1>5, <1>8, <1>9, <1>13, IdleIsARequest, ShapeKept DEF SchedulesInv
  <2>2. OneTimer'
    BY <1>7, <1>12 DEF SchedulesInv, Basis, OneTimer
  <2>3. NothingRead'
    BY <1>8 DEF SchedulesInv, Basis, NothingRead
  <2>4. QED
    BY <1>14, <2>1, <2>2, <2>3 DEF Basis
<1>16. ASSUME s \notin overlapped'
       PROVE  Orderly(s)'
  <2>1. /\ WorkOn(s) = {q} /\ snapshot'[s] = NULL /\ s \in Chosen
        /\ row[s].cron = r.cron /\ row[s].env = r.env /\ row[s].owner = r.owner
    BY <1>1, <1>3, <1>4, <1>8, <1>16, MyTurn DEF Intends
  <2>2. WorkOn(s)' = {}
    BY <1>5, <1>9, <2>1, IdleIsARequest, NullIsNone DEF WorkOn
  <2>3. s \in Chosen'
    BY <1>8, <2>1 DEF Chosen
  <2>4. Fits(s)'
    BY <1>7, <1>8, <1>12, <2>1, <2>3 DEF Fits, DriftOf
  <2>5. Runs(s)'
    BY <1>7, <1>12 DEF Runs
  <2>6. QED
    BY <2>1, <2>2, <2>4, <2>5 DEF Orderly, Alone, Restoring, Intends
<1>17. QED
  BY <1>5, <1>8, <1>13, <1>15, <1>16, TouchKeeps

LEMMA StopJobKeeps ==
    ASSUME SchedulesInv, NEW q \in Request, StopJob(q)
    PROVE  SchedulesInv'
<1>1. PICK s : s = request[q].schedule
  OBVIOUS
<1>2. request[q].at = "stop"
  BY DEF StopJob
<1>3. s \in Schedule /\ s \in used
  BY <1>1, <1>2, MyTurn
<1>4. /\ activeJobs' = [activeJobs EXCEPT ![s] = NULL]
      /\ timers' = [timers EXCEPT ![s] = Stopped(s)]
      /\ drift' = [drift EXCEPT ![s] = {}]
      /\ Goto(q, Idle)
      /\ UNCHANGED <<row, count, used, boot, snapshot, restarts, run, overlapped>>
  BY <1>1 DEF StopJob, StopCronJob, table, booting
<1>5. /\ request' \in [Request -> RequestRecord] /\ request'[q] = Idle
      /\ \A p \in Request \ {q} : request'[p] = request[p]
  BY <1>4, IdleIsARequest, Going DEF SchedulesInv, Basis
<1>6. /\ activeJobs \in [Schedule -> Job \cup {NULL}]
      /\ timers \in [Schedule -> Nat] /\ drift \in [Schedule -> SUBSET Field]
      /\ timers[s] = IF activeJobs[s] = NULL THEN 0 ELSE 1
  BY <1>3 DEF SchedulesInv, Basis, TypeOK, OneTimer
<1>7. Stopped(s) = 0
  BY <1>6 DEF Stopped
<1>8. /\ activeJobs' \in [Schedule -> Job \cup {NULL}] /\ activeJobs'[s] = NULL
      /\ timers' \in [Schedule -> Nat] /\ timers'[s] = 0
      /\ drift' \in [Schedule -> SUBSET Field]
      /\ \A t \in Schedule \ {s} : /\ activeJobs'[t] = activeJobs[t]
                                   /\ timers'[t] = timers[t]
                                   /\ drift'[t] = drift[t]
  BY <1>3, <1>4, <1>6, <1>7
<1>9. Touches(q, s)
  BY <1>1, <1>4, <1>5, <1>8, IdleIsARequest DEF Touches, booting
<1>10. TypeOK'
  BY <1>4, <1>5, <1>8 DEF SchedulesInv, Basis, TypeOK
<1>11. Basis'
  <2>1. Shape' /\ Unheard'
    BY <1>3, <1>4, <1>5, <1>9, IdleIsARequest, ShapeKept DEF SchedulesInv
  <2>2. OneTimer'
    BY <1>8 DEF SchedulesInv, Basis, OneTimer
  <2>3. NothingRead'
    BY <1>4 DEF SchedulesInv, Basis, NothingRead
  <2>4. QED
    BY <1>10, <2>1, <2>2, <2>3 DEF Basis
<1>12. ASSUME s \notin overlapped'
       PROVE  Orderly(s)'
  <2>1. WorkOn(s) = {q} /\ snapshot'[s] = NULL /\ s \notin Chosen
    BY <1>1, <1>2, <1>4, <1>12, MyTurn DEF Intends
  <2>2. WorkOn(s)' = {}
    BY <1>3, <1>5, <2>1, IdleIsARequest, NullIsNone DEF WorkOn
  <2>3. s \notin Chosen'
    BY <1>4, <2>1 DEF Chosen
  <2>4. QED
    BY <1>8, <2>1, <2>2, <2>3 DEF Orderly, Alone, Restoring, Intends, Fits, Runs
<1>13. QED
  BY <1>3, <1>4, <1>9, <1>11, <1>12, TouchKeeps

LEMMA HandlersKeep ==
    ASSUME SchedulesInv, NEW q \in Request, Handle(q) \/ Continue(q)
    PROVE  SchedulesInv'
BY CreateKeeps, PatchKeeps, ReadKeeps, DeleteKeeps, ToggleKeeps, StartJobKeeps,
   StopJobKeeps DEF Handle, Continue

(***************************************************************************)
(* Boot.                                                                   *)
(***************************************************************************)

LEMMA ReadSchedulesKeeps ==
    ASSUME SchedulesInv, ReadSchedules
    PROVE  SchedulesInv'
<1>1. /\ boot = "waiting" /\ boot' = "starting"
      /\ snapshot' = [s \in Schedule |-> IF s \in Chosen THEN row[s] ELSE NULL]
      /\ overlapped' = overlapped \cup {s \in Chosen : WorkOn(s) # {}}
      /\ UNCHANGED <<row, count, used, activeJobs, timers, request, run, restarts,
                     drift>>
  BY DEF ReadSchedules, table, memory
<1>2. Chosen \subseteq Schedule /\ Chosen' = Chosen
      /\ \A s \in Schedule : WorkOn(s)' = WorkOn(s)
  BY <1>1 DEF Chosen, WorkOn
<1>3. \A s \in Schedule : /\ s \in Chosen => snapshot'[s] = row[s] /\ row[s] # NULL
                          /\ s \notin Chosen => snapshot'[s] = NULL
  BY <1>1 DEF Chosen
<1>4. TypeOK'
  BY <1>1, <1>2 DEF SchedulesInv, Basis, TypeOK
<1>5. Shape' /\ OneTimer' /\ NothingRead'
  BY <1>1 DEF SchedulesInv, Basis, Shape, OneTimer, NothingRead
<1>6. Unheard'
  BY <1>1, <1>2, <1>3 DEF SchedulesInv, Basis, Unheard, Chosen
<1>7. Reported' /\ Counts'
  BY <1>1 DEF SchedulesInv, Reported, Counts, Counted, Closed
<1>8. ASSUME NEW s \in Schedule \ overlapped'
      PROVE  Orderly(s)'
  <2>1. Orderly(s) /\ (s \in Chosen => WorkOn(s) = {})
    BY <1>1, <1>8 DEF SchedulesInv
  <2>2. (Alone(s) /\ Restoring(s) /\ Intends(s))'
    BY <1>1, <1>2, <1>3, <2>1 DEF Orderly, Alone, Restoring, Intends
  <2>3. Settled(s)' => Fits(s)' /\ Runs(s)'
    BY <1>1, <1>2, <1>3, <2>1 DEF Orderly, Settled, Fits, Runs
  <2>4. QED
    BY <2>2, <2>3 DEF Orderly
<1>9. QED
  BY <1>4, <1>5, <1>6, <1>7, <1>8 DEF SchedulesInv, Basis

LEMMA StartRestoredKeeps ==
    ASSUME SchedulesInv, StartRestored
    PROVE  SchedulesInv'
<1>1. /\ boot = "starting" /\ boot' = "done" /\ snapshot' = Nothing
      /\ UNCHANGED <<row, count, used, request, run, restarts, overlapped>>
  BY DEF StartRestored, table
<1>2. TypeOK /\ OneTimer /\ Unheard /\ Shape
  BY DEF SchedulesInv, Basis
<1>3. ASSUME NEW s \in Schedule, snapshot[s] # NULL
      PROVE  /\ activeJobs'[s] \in Job /\ timers'[s] = 1 /\ drift'[s] = {}
             /\ activeJobs'[s].cron = snapshot[s].cron
             /\ activeJobs'[s].env = snapshot[s].env
             /\ activeJobs'[s].user = snapshot[s].owner
  <2>1. snapshot[s] \in Row /\ snapshot[s].owner \in User
    BY <1>2, <1>3 DEF TypeOK, Row
  <2>2. /\ activeJobs'[s] = JobOf(snapshot[s].owner, snapshot[s])
        /\ timers'[s] = Stopped(s) + 1 /\ drift'[s] = {}
    BY <1>3 DEF StartRestored
  <2>3. timers[s] = IF activeJobs[s] = NULL THEN 0 ELSE 1
    BY <1>2 DEF OneTimer
  <2>4. Stopped(s) = 0
    BY <2>3 DEF Stopped
  <2>5. QED
    BY <2>1, <2>2, <2>4, JobsAreJobs
<1>4. ASSUME NEW s \in Schedule, snapshot[s] = NULL
      PROVE  /\ activeJobs'[s] = activeJobs[s] /\ timers'[s] = timers[s]
             /\ drift'[s] = drift[s]
  BY <1>4 DEF StartRestored
<1>5. /\ activeJobs' \in [Schedule -> Job \cup {NULL}]
      /\ timers' \in [Schedule -> Nat] /\ drift' \in [Schedule -> SUBSET Field]
  <2>1. /\ activeJobs' = [s \in Schedule |-> activeJobs'[s]]
        /\ timers' = [s \in Schedule |-> timers'[s]]
        /\ drift' = [s \in Schedule |-> drift'[s]]
    BY DEF StartRestored
  <2>2. \A s \in Schedule : /\ activeJobs[s] \in Job \cup {NULL}
                            /\ timers[s] \in Nat /\ drift[s] \in SUBSET Field
    BY <1>2 DEF TypeOK
  <2>3. \A s \in Schedule : /\ activeJobs'[s] \in Job \cup {NULL}
                            /\ timers'[s] \in Nat /\ drift'[s] \in SUBSET Field
    BY <1>3, <1>4, <2>2
  <2>4. QED
    BY <2>1, <2>3
<1>6. snapshot' \in [Schedule -> Row \cup {NULL}] /\ \A s \in Schedule : snapshot'[s] = NULL
  BY <1>1 DEF Nothing
<1>7. TypeOK'
  BY <1>1, <1>2, <1>5, <1>6 DEF TypeOK
<1>8. Shape' /\ NothingRead'
  BY <1>1, <1>2 DEF Shape, NothingRead, Nothing
<1>9. OneTimer'
  BY <1>2, <1>3, <1>4, NullIsNone DEF OneTimer
<1>10. \A s \in Schedule : /\ WorkOn(s)' = WorkOn(s)
                           /\ s \in Chosen' <=> s \in Chosen
  BY <1>1 DEF WorkOn, Chosen
<1>11. Unheard'
  BY <1>1, <1>2, <1>4, <1>6, <1>10 DEF Unheard
<1>12. Reported' /\ Counts'
  BY <1>1 DEF SchedulesInv, Reported, Counts, Counted, Closed
<1>13. ASSUME NEW s \in Schedule \ overlapped'
       PROVE  Orderly(s)'
  <2>1. Orderly(s)
    BY <1>1 DEF SchedulesInv
  <2>2. (Alone(s) /\ Restoring(s) /\ Intends(s))'
    BY <1>1, <1>6, <1>10, <2>1 DEF Orderly, Alone, Restoring, Intends
  <2>3. CASE snapshot[s] # NULL
    <3>1. row[s] = snapshot[s] /\ s \in Chosen'
      BY <1>10, <2>1, <2>3 DEF Orderly, Restoring
    <3>2. Fits(s)' /\ Runs(s)'
      BY <1>1, <1>3, <2>3, <3>1, NullIsNone DEF Fits, Runs
    <3>3. QED
      BY <2>2, <3>2 DEF Orderly
  <2>4. CASE snapshot[s] = NULL
    <3>1. Settled(s)' <=> Settled(s)
      BY <1>1, <1>10 DEF Settled
    <3>2. Settled(s) => Fits(s)' /\ Runs(s)'
      BY <1>1, <1>4, <1>10, <2>1, <2>4 DEF Orderly, Fits, Runs
    <3>3. QED
      BY <2>2, <3>1, <3>2 DEF Orderly
  <2>5. QED
    BY <2>3, <2>4
<1>14. QED
  BY <1>7, <1>8, <1>9, <1>11, <1>12, <1>13 DEF SchedulesInv, Basis

LEMMA RestoreFailsKeeps ==
    ASSUME SchedulesInv, RestoreFails
    PROVE  SchedulesInv'
<1>1. /\ boot = "waiting" /\ boot' = "failed"
      /\ UNCHANGED <<row, count, used, activeJobs, timers, request, snapshot, run,
                     restarts, overlapped, drift>>
  BY DEF RestoreFails, table, memory, history
<1>2. Basis'
  BY <1>1 DEF SchedulesInv, Basis, TypeOK, Shape, Unheard, OneTimer, NothingRead,
              WorkOn
<1>3. Reported' /\ Counts'
  BY <1>1 DEF SchedulesInv, Reported, Counts, Counted, Closed
<1>4. ASSUME NEW s \in Schedule \ overlapped'
      PROVE  Orderly(s)'
  <2>1. Orderly(s)
    BY <1>1 DEF SchedulesInv
  <2>2. WorkOn(s)' = WorkOn(s) /\ Chosen' = Chosen
    BY <1>1 DEF WorkOn, Chosen
  <2>3. QED
    BY <1>1, <2>1, <2>2
    DEF Orderly, Alone, Restoring, Intends, Settled, Fits, Runs
<1>5. QED
  BY <1>2, <1>3, <1>4 DEF SchedulesInv

LEMMA RestartKeeps ==
    ASSUME SchedulesInv, Restart
    PROVE  SchedulesInv'
<1>1. TypeOK /\ Unheard
  BY DEF SchedulesInv, Basis
<1>2. /\ restarts' = restarts + 1 /\ restarts < MaxRestarts
      /\ activeJobs' = Nothing /\ timers' = [s \in Schedule |-> 0]
      /\ request' = [q \in Request |-> Idle] /\ boot' = "waiting"
      /\ snapshot' = Nothing /\ drift' = [s \in Schedule |-> {}]
      /\ UNCHANGED <<row, count, used>>
  BY DEF Restart, table
<1>3. \A s \in Schedule : WorkOn(s)' = {}
  BY <1>2, IdleIsARequest, NullIsNone DEF WorkOn
<1>4. run' \in [Run -> RunRecord]
      /\ \A r \in Run : /\ run'[r].schedule = run[r].schedule
                        /\ run'[r].report = run[r].report
                        /\ run'[r].at = IF run[r].at \in Ended THEN run[r].at ELSE "cut"
  BY <1>1 DEF Restart, TypeOK, RunRecord, Ended
<1>5. TypeOK'
  <2>1. restarts' \in 0..MaxRestarts
    BY <1>1, <1>2, SchedulesAssumption DEF TypeOK
  <2>2. request' \in [Request -> RequestRecord]
    BY <1>2, IdleIsARequest
  <2>3. overlapped' \subseteq Schedule
    BY DEF Restart
  <2>4. QED
    BY <1>1, <1>2, <1>4, <2>1, <2>2, <2>3 DEF TypeOK, Nothing
<1>6. Shape' /\ OneTimer' /\ NothingRead'
  BY <1>2, IdleIsARequest DEF Shape, OneTimer, NothingRead, Nothing
<1>7. Unheard'
  BY <1>1, <1>2, <1>3 DEF Unheard, Nothing
<1>8. \A s \in Schedule : Orderly(s)'
  BY <1>2, <1>3 DEF Orderly, Alone, Restoring, Intends, Fits, Runs, Nothing
<1>9. Reported'
  BY <1>4 DEF SchedulesInv, Reported, Stage, Ended
<1>10. Counts'
  <2>1. ASSUME NEW s \in Schedule
        PROVE  count'[s] <= Cardinality(Counted(s)')
    <3>1. Counted(s) \subseteq Counted(s)' /\ Counted(s)' \subseteq Run
      BY <1>4 DEF Counted, Closed, Ended
    <3>2. PICK A : A = Counted(s)
      OBVIOUS
    <3>3. PICK B : B = Counted(s)'
      OBVIOUS
    <3>4. IsFiniteSet(B) /\ A \subseteq B
      BY <3>1, <3>2, <3>3, SchedulesAssumption, FS_Subset
    <3>5. /\ Cardinality(A) \in Nat /\ Cardinality(B) \in Nat
          /\ Cardinality(A) <= Cardinality(B)
      BY <3>4, FS_Subset, FS_CardinalityType
    <3>6. count[s] <= Cardinality(A) /\ count[s] \in Nat
      BY <1>1, <3>2 DEF SchedulesInv, Counts, TypeOK
    <3>7. count'[s] <= Cardinality(B)
      BY <1>2, <3>5, <3>6
    <3>8. QED
      BY <3>3, <3>7
  <2>2. QED
    BY <2>1 DEF Counts
<1>11. QED
  BY <1>5, <1>6, <1>7, <1>8, <1>9, <1>10 DEF SchedulesInv, Basis

(***************************************************************************)
(* Runs.                                                                   *)
(***************************************************************************)

\* A step of a run leaves the jobs alone.
LEMMA RunsLeaveJobs ==
    ASSUME SchedulesInv, UNCHANGED OnlyRun, run' \in [Run -> RunRecord],
           count' \in [Schedule -> Nat]
    PROVE  Basis' /\ \A s \in Schedule \ overlapped' : Orderly(s)'
<1>1. UNCHANGED <<row, used, activeJobs, timers, request, boot, snapshot, restarts,
                  overlapped, drift>>
  BY DEF OnlyRun, memory, booting, history
<1>2. Basis'
  BY <1>1 DEF SchedulesInv, Basis, TypeOK, Shape, Unheard, OneTimer, NothingRead,
              WorkOn
<1>3. ASSUME NEW s \in Schedule \ overlapped'
      PROVE  Orderly(s)'
  <2>1. Orderly(s)
    BY <1>1 DEF SchedulesInv
  <2>2. WorkOn(s)' = WorkOn(s) /\ Chosen' = Chosen
    BY <1>1 DEF WorkOn, Chosen
  <2>3. QED
    BY <1>1, <2>1, <2>2
    DEF Orderly, Alone, Restoring, Intends, Settled, Fits, Runs
<1>4. QED
  BY <1>2, <1>3

\* What a schedule has counted cannot shrink, but by a run that is reopened.
LEMMA CountsGrow ==
    ASSUME SchedulesInv, NEW s \in Schedule, count'[s] = count[s],
           Counted(s) \subseteq Counted(s)'
    PROVE  count'[s] <= Cardinality(Counted(s)')
<1>1. PICK A : A = Counted(s)
  OBVIOUS
<1>2. PICK B : B = Counted(s)'
  OBVIOUS
<1>3. B \subseteq Run /\ A \subseteq B
  BY <1>1, <1>2 DEF Counted, Closed
<1>4. IsFiniteSet(B)
  BY <1>3, SchedulesAssumption, FS_Subset
<1>5. /\ Cardinality(A) \in Nat /\ Cardinality(B) \in Nat
      /\ Cardinality(A) <= Cardinality(B)
  BY <1>3, <1>4, FS_Subset, FS_CardinalityType
<1>6. count[s] <= Cardinality(A) /\ count[s] \in Nat
  BY <1>1 DEF SchedulesInv, Counts, Basis, TypeOK
<1>7. count'[s] <= Cardinality(B)
  BY <1>5, <1>6
<1>8. QED
  BY <1>2, <1>7

\* A run that goes from one place to another, without being counted.
LEMMA RunMoves ==
    ASSUME SchedulesInv, NEW r \in Run, NEW new \in RunRecord,
           run' = [run EXCEPT ![r] = new],
           UNCHANGED <<count, OnlyRun>>,
           new.at \in {"none", "report"} => new.report = "none",
           new.at \in Stage => new.schedule \in Schedule,
           new.at = "stats" => new.report = "closed",
           new.at = "close" => new.report = "running",
           run[r].report = "closed" /\ run[r].at # "stats"
               => new.report = "closed" /\ new.at # "stats"
                  /\ new.schedule = run[r].schedule
    PROVE  SchedulesInv'
<1>1. run \in [Run -> RunRecord] /\ count \in [Schedule -> Nat] /\ count' = count
      /\ UNCHANGED OnlyRun
  BY DEF SchedulesInv, Basis, TypeOK
<1>2. /\ run' \in [Run -> RunRecord] /\ run'[r] = new
      /\ \A x \in Run \ {r} : run'[x] = run[x]
  BY <1>1
<1>3. Basis' /\ \A s \in Schedule \ overlapped' : Orderly(s)'
  BY <1>1, <1>2, RunsLeaveJobs
<1>4. Reported'
  BY <1>2 DEF SchedulesInv, Reported
<1>5. \A s \in Schedule : Counted(s) \subseteq Counted(s)'
  BY <1>2 DEF Counted, Closed
<1>6. Counts'
  BY <1>1, <1>5, CountsGrow DEF Counts
<1>7. QED
  BY <1>3, <1>4, <1>6 DEF SchedulesInv

LEMMA FireKeeps ==
    ASSUME SchedulesInv, NEW r \in Run, NEW s \in Schedule, Fire(r, s)
    PROVE  SchedulesInv'
<1>1. run \in [Run -> RunRecord] /\ run[r] = NoRun
  BY DEF SchedulesInv, Basis, TypeOK, Fire
<1>2. PICK new : new = [run[r] EXCEPT !.at = "report", !.schedule = s]
  OBVIOUS
<1>3. run[r] \in RunRecord /\ run[r].report = "none"
  BY <1>1 DEF NoRun
<1>4. /\ new \in RunRecord /\ new.at = "report" /\ new.schedule = s
      /\ new.report = "none"
  BY <1>2, <1>3 DEF RunRecord, Stage
<1>5. run' = [run EXCEPT ![r] = new] /\ UNCHANGED <<count, OnlyRun>>
  BY <1>1, <1>2 DEF Fire
<1>6. QED
  BY <1>3, <1>4, <1>5, RunMoves

LEMMA OpenReportKeeps ==
    ASSUME SchedulesInv, NEW r \in Run, OpenReport(r)
    PROVE  SchedulesInv'
<1>1. /\ run \in [Run -> RunRecord] /\ run[r] \in RunRecord /\ run[r].at = "report"
      /\ run[r].report = "none" /\ run[r].schedule \in Schedule
  BY DEF SchedulesInv, Basis, TypeOK, OpenReport, Reported, Stage
<1>2. PICK new : new = IF row[run[r].schedule] = NULL
                       THEN [run[r] EXCEPT !.at = "cut"]
                       ELSE [run[r] EXCEPT !.at = "close", !.report = "running"]
  OBVIOUS
<1>3. /\ new \in RunRecord /\ new.schedule = run[r].schedule
      /\ \/ new.at = "cut" /\ new.report = "none"
         \/ new.at = "close" /\ new.report = "running"
  BY <1>1, <1>2 DEF RunRecord, Stage, Ended
<1>4. run' = [run EXCEPT ![r] = new] /\ UNCHANGED <<count, OnlyRun>>
  BY <1>1, <1>2 DEF OpenReport
<1>5. QED
  BY <1>1, <1>3, <1>4, RunMoves DEF Stage

LEMMA CloseReportKeeps ==
    ASSUME SchedulesInv, NEW r \in Run, CloseReport(r)
    PROVE  SchedulesInv'
<1>1. /\ run \in [Run -> RunRecord] /\ run[r] \in RunRecord /\ run[r].at = "close"
      /\ run[r].report = "running" /\ run[r].schedule \in Schedule
  BY DEF SchedulesInv, Basis, TypeOK, CloseReport, Reported, Stage
<1>2. PICK new : new = [run[r] EXCEPT !.at = "stats", !.report = "closed"]
  OBVIOUS
<1>3. /\ new \in RunRecord /\ new.schedule = run[r].schedule
      /\ new.at = "stats" /\ new.report = "closed"
  BY <1>1, <1>2 DEF RunRecord, Stage
<1>4. run' = [run EXCEPT ![r] = new] /\ UNCHANGED <<count, OnlyRun>>
  BY <1>1, <1>2 DEF CloseReport
<1>5. QED
  BY <1>1, <1>3, <1>4, RunMoves DEF Stage

LEMMA RunFailsKeeps ==
    ASSUME SchedulesInv, NEW r \in Run, RunFails(r)
    PROVE  SchedulesInv'
<1>1. /\ run \in [Run -> RunRecord] /\ run[r] \in RunRecord /\ run[r].at \in Stage
  BY SchedulesAssumption
  DEF SchedulesInv, Basis, TypeOK, RunFails, RunRecord, Ended, Stage
<1>2. PICK new : new = [run[r] EXCEPT !.at = "cut"]
  OBVIOUS
<1>3. /\ new \in RunRecord /\ new.schedule = run[r].schedule
      /\ new.at = "cut" /\ new.report = run[r].report
  BY <1>1, <1>2 DEF RunRecord, Stage, Ended
<1>4. run' = [run EXCEPT ![r] = new] /\ UNCHANGED <<count, OnlyRun>>
  BY <1>1, <1>2 DEF RunFails, Step
<1>5. QED
  BY <1>1, <1>3, <1>4, RunMoves DEF Stage

LEMMA CountRunKeeps ==
    ASSUME SchedulesInv, NEW r \in Run, CountRun(r)
    PROVE  SchedulesInv'
<1>1. PICK s : s = run[r].schedule
  OBVIOUS
<1>2. /\ run \in [Run -> RunRecord] /\ run[r] \in RunRecord /\ run[r].at = "stats"
      /\ run[r].report = "closed" /\ s \in Schedule /\ count \in [Schedule -> Nat]
  BY <1>1 DEF SchedulesInv, Basis, TypeOK, CountRun, Reported, Stage
<1>3. /\ run' = [run EXCEPT ![r].at = "over"] /\ UNCHANGED OnlyRun
      /\ count' = IF row[s] = NULL THEN count ELSE [count EXCEPT ![s] = @ + 1]
  BY <1>1 DEF CountRun, Step
<1>4. /\ run' \in [Run -> RunRecord] /\ run'[r].at = "over"
      /\ run'[r].report = "closed" /\ run'[r].schedule = s
      /\ \A x \in Run \ {r} : run'[x] = run[x]
  BY <1>1, <1>2, <1>3 DEF RunRecord, Ended
<1>5. /\ count' \in [Schedule -> Nat] /\ count'[s] <= count[s] + 1
      /\ \A t \in Schedule \ {s} : count'[t] = count[t]
  BY <1>2, <1>3
<1>6. Basis' /\ \A t \in Schedule \ overlapped' : Orderly(t)'
  BY <1>3, <1>4, <1>5, RunsLeaveJobs
<1>7. Reported'
  BY <1>4 DEF SchedulesInv, Reported, Stage
<1>8. ASSUME NEW t \in Schedule \ {s}
      PROVE  count'[t] <= Cardinality(Counted(t)')
  <2>1. Counted(t) \subseteq Counted(t)'
    BY <1>1, <1>4 DEF Counted, Closed
  <2>2. QED
    BY <1>5, <2>1, CountsGrow
<1>9. count'[s] <= Cardinality(Counted(s)')
  <2>1. PICK A : A = Counted(s)
    OBVIOUS
  <2>2. PICK B : B = Counted(s)'
    OBVIOUS
  <2>3. A \subseteq Run /\ r \notin A /\ B = A \cup {r}
    BY <1>1, <1>2, <1>4, <2>1, <2>2 DEF Counted, Closed
  <2>4. IsFiniteSet(A)
    BY <2>3, SchedulesAssumption, FS_Subset
  <2>5. Cardinality(A) \in Nat /\ Cardinality(B) = Cardinality(A) + 1
    BY <2>3, <2>4, FS_AddElement, FS_CardinalityType
  <2>6. count[s] <= Cardinality(A) /\ count[s] \in Nat
    BY <1>2, <2>1 DEF SchedulesInv, Counts
  <2>7. count'[s] <= Cardinality(B)
    BY <1>2, <1>5, <2>5, <2>6
  <2>8. QED
    BY <2>2, <2>7
<1>10. Counts'
  BY <1>8, <1>9 DEF Counts
<1>11. QED
  BY <1>6, <1>7, <1>10 DEF SchedulesInv

LEMMA StutterKeeps ==
    ASSUME SchedulesInv, UNCHANGED vars
    PROVE  SchedulesInv'
<1>1. UNCHANGED <<run, count, OnlyRun>>
  BY DEF vars, OnlyRun, memory, booting, history
<1>2. run' \in [Run -> RunRecord] /\ count' \in [Schedule -> Nat]
  BY <1>1 DEF SchedulesInv, Basis, TypeOK
<1>3. Basis' /\ \A s \in Schedule \ overlapped' : Orderly(s)'
  BY <1>1, <1>2, RunsLeaveJobs
<1>4. Reported' /\ Counts'
  BY <1>1 DEF SchedulesInv, Reported, Counts, Counted, Closed
<1>5. QED
  BY <1>3, <1>4 DEF SchedulesInv

LEMMA SchedulesStep == SchedulesInv /\ [Next]_vars => SchedulesInv'
<1> SUFFICES ASSUME SchedulesInv, [Next]_vars PROVE SchedulesInv'
  OBVIOUS
<1>1. ASSUME NEW q \in Request, Handle(q) \/ Continue(q)
      PROVE  SchedulesInv'
  BY <1>1, HandlersKeep
<1>2. CASE Restore
  BY <1>2, ReadSchedulesKeeps, StartRestoredKeeps, RestoreFailsKeeps DEF Restore
<1>3. CASE Restart
  BY <1>3, RestartKeeps
<1>4. ASSUME NEW r \in Run, RunStep(r)
      PROVE  SchedulesInv'
  BY <1>4, FireKeeps, OpenReportKeeps, CloseReportKeeps, CountRunKeeps,
     RunFailsKeeps DEF RunStep
<1>5. CASE UNCHANGED vars
  BY <1>5, StutterKeeps
<1>6. QED
  BY <1>1, <1>2, <1>3, <1>4, <1>5 DEF Next

LEMMA SchedulesInvariant == Spec => []SchedulesInv
<1>1. QED
  BY InitSchedulesInv, SchedulesStep, PTL DEF Spec

(***************************************************************************)
(* The theorems.                                                           *)
(***************************************************************************)

\* Rows, jobs, timers, requests and runs keep their shape.
THEOREM SchedulesTypeCorrect == Spec => []TypeOK
<1>1. SchedulesInv => TypeOK
  BY DEF SchedulesInv, Basis
<1>2. QED
  BY <1>1, SchedulesInvariant, PTL

\* However toggles, edits, deletions, the restore and restarts overlap, every
\* timer is the one activeJobs knows of, and the job of a schedule that no two
\* handlers worked on at once is the one its row calls for.
THEOREM JobsAreInStep == Spec => []JobsFollowRows
<1>1. SchedulesInv => JobsFollowRows
  <2> SUFFICES ASSUME SchedulesInv, NEW s \in Schedule
               PROVE  /\ timers[s] = IF activeJobs[s] = NULL THEN 0 ELSE 1
                      /\ boot = "done" /\ s \notin overlapped /\ WorkOn(s) = {}
                         => /\ activeJobs[s] # NULL <=> s \in Chosen
                            /\ s \in Chosen
                                 => /\ activeJobs[s].cron = row[s].cron
                                    /\ \/ activeJobs[s].env = row[s].env
                                       \/ "env" \in drift[s]
                                    /\ \/ activeJobs[s].user = row[s].owner
                                       \/ "user" \in drift[s]
    BY DEF JobsFollowRows
  <2>1. timers[s] = IF activeJobs[s] = NULL THEN 0 ELSE 1
    BY DEF SchedulesInv, Basis, OneTimer
  <2>2. ASSUME boot = "done", s \notin overlapped, WorkOn(s) = {}
        PROVE  Fits(s) /\ Runs(s)
    BY <2>2 DEF SchedulesInv, Orderly, Settled
  <2>3. QED
    BY <2>1, <2>2 DEF Fits, Runs
<1>2. QED
  BY <1>1, SchedulesInvariant, PTL

\* However runs of a schedule overlap, fail or die, its run_count is at most
\* the number of its reports that were closed.
THEOREM RunsAreCounted == Spec => []CountedRunsAreClosed
<1>1. SchedulesInv => CountedRunsAreClosed
  <2>1. ASSUME SchedulesInv, NEW s \in Schedule
        PROVE  count[s] <= Cardinality(Closed(s))
    <3>1. PICK A : A = Counted(s)
      OBVIOUS
    <3>2. PICK B : B = Closed(s)
      OBVIOUS
    <3>3. B \subseteq Run /\ A \subseteq B
      BY <3>1, <3>2 DEF Counted, Closed
    <3>4. IsFiniteSet(B)
      BY <3>3, SchedulesAssumption, FS_Subset
    <3>5. /\ Cardinality(A) \in Nat /\ Cardinality(B) \in Nat
          /\ Cardinality(A) <= Cardinality(B)
      BY <3>3, <3>4, FS_Subset, FS_CardinalityType
    <3>6. count[s] <= Cardinality(A) /\ count[s] \in Nat
      BY <2>1, <3>1 DEF SchedulesInv, Counts, Basis, TypeOK
    <3>7. count[s] <= Cardinality(B)
      BY <3>5, <3>6
    <3>8. QED
      BY <3>2, <3>7
  <2>2. QED
    BY <2>1 DEF CountedRunsAreClosed, Closed
<1>2. QED
  BY <1>1, SchedulesInvariant, PTL
=============================================================================
