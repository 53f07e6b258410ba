----------------------------- MODULE AutoFixCron ----------------------------
(***************************************************************************)
(* The auto-fix cron: every pod fires a tick on a schedule, a flag in the  *)
(* process drops a tick that overlaps the previous one, a Postgres         *)
(* advisory lock lets one pod of the cluster through, and the tick then    *)
(* takes a batch of open failures through propose, apply and verify, one   *)
(* after the other.  A pod is a worker of AutoFix; the workers that are    *)
(* not pods are the API calls, scripts and webhooks of that module.        *)
(***************************************************************************)
EXTENDS AutoFix, Sequences

CONSTANTS
    Pod,            \* the processes that run the cron
    Batch,          \* AUTOFIX_CRON_BATCH
    Checkout,       \* projects with a project_repo_configs row
    SessionMayDrop  \* pods whose pinned connection may be lost during a tick

ASSUME CronAssumption ==
    /\ Pod \subseteq Worker
    /\ Batch \in Nat \ {0}
    /\ Checkout \subseteq Project
    /\ SessionMayDrop \subseteq Pod
    /\ None \notin Pod
    /\ IsFiniteSet(Failure)

VARIABLES
    tick,           \* each pod's tick: where it is, rows left, attempt in hand
    holder,         \* the pod whose session holds the advisory lock
    lost,           \* pods whose running tick has lost the lock's session
    leaked          \* pods whose connection pool has the lock's session back,
                    \* the lock still on it

cronVars == <<tick, holder, lost, leaked>>

Off == [step |-> "off", rows |-> <<>>, attempt |-> None]

Running(w) == tick[w].step # "off"

\* Ticks past the cluster gate.
Inside == {w \in Pod : tick[w].step \notin {"off", "lock"}}

CronInit ==
    /\ Init
    /\ tick = [w \in Pod |-> Off]
    /\ holder = None
    /\ lost = {}
    /\ leaked = {}

\* What findEligibleFailures selects from.
Eligible == {f \in Patchable : /\ fixStatus[f] = "open"
                               /\ ProjectOf[f] \in Checkout
                               /\ config[ProjectOf[f]].enabled}

\* ORDER BY last_seen_at: any order, since any failure may be seen again.
Batches ==
    LET n == IF Cardinality(Eligible) < Batch THEN Cardinality(Eligible)
                                              ELSE Batch
    IN  {rows \in [1..n -> Eligible] :
            \A i, j \in 1..n : rows[i] = rows[j] => i = j}

GoOn(w, step) == tick' = [tick EXCEPT ![w].step = step]

\* The next row of the batch, or the finally block after the last.
NextRow(w, rows) ==
    tick' = [tick EXCEPT ![w] =
               [Off EXCEPT !.rows = rows,
                           !.step = IF rows = <<>> THEN "unlock" ELSE "row"]]
-----------------------------------------------------------------------------
\* The schedule fires.  A tick still running on this pod drops the new one.
\* The last conjunct is the bound on Attempt: every tick in flight finds an
\* unused id for each of its rows.
Fire(w) ==
    /\ ~Running(w)
    /\ (Cardinality({v \in Pod : Running(v)}) + 1) * Batch
           <= Cardinality(Unused)
    /\ GoOn(w, "lock")
    /\ UNCHANGED <<vars, holder, lost, leaked>>

\* Mutant: pg_advisory_lock, which waits.
TryLockBlocking(w) ==
    /\ tick[w].step = "lock"
    /\ holder \in {None, w}
    /\ holder' = w
    /\ GoOn(w, "find")
    /\ UNCHANGED <<vars, lost, leaked>>

\* pg_try_advisory_lock: taken, held by another session, or an error.  A
\* session takes its own lock again: a pool that has the lock's session back
\* may hand that one out, or one that is refused.
TryLock(w) ==
    /\ tick[w].step = "lock"
    /\ \/ /\ holder \in {None, w}
          /\ holder' = w
          /\ GoOn(w, "find")
       \/ /\ holder # None \/ w \in Unreliable
          /\ GoOn(w, "off")
          /\ UNCHANGED holder
    /\ UNCHANGED <<vars, lost, leaked>>

Find(w) ==
    /\ tick[w].step = "find"
    /\ \/ \E rows \in Batches : NextRow(w, rows)
       \/ w \in Unreliable /\ GoOn(w, "unlock")
    /\ UNCHANGED <<vars, holder, lost, leaked>>

\* processFailure: propose, unless the project was switched off meanwhile.
StartRow(w) ==
    LET f == Head(tick[w].rows)
        rest == Tail(tick[w].rows)
    IN  /\ tick[w].step = "row"
        /\ \/ /\ ProposeLoad(w, f)
              /\ tick' = [tick EXCEPT ![w].step = "propose", ![w].rows = rest]
           \/ /\ ~config[ProjectOf[f]].enabled
              /\ NextRow(w, rest)
              /\ UNCHANGED vars
        /\ UNCHANGED <<holder, lost, leaked>>

\* then apply and verify the attempt just proposed; a refusal ends the row.
StartApply(w) ==
    LET a == tick[w].attempt IN
    /\ tick[w].step = "apply"
    /\ pc[w] = "idle"
    /\ \/ /\ ApplyLoad(w, a)
          /\ UNCHANGED tick
       \/ /\ status[a] \notin {"proposed", "patching"} \/ a \notin newCode
          /\ NextRow(w, tick[w].rows)
          /\ UNCHANGED vars
    /\ UNCHANGED <<holder, lost, leaked>>

\* Mutant: verify whatever is waiting for a verdict.
StartVerifyAny(w) ==
    /\ tick[w].step = "verify"
    /\ pc[w] = "idle"
    /\ \E a \in Attempt : VerifyLoad(w, a)
    /\ UNCHANGED <<tick, holder, lost, leaked>>

StartVerify(w) ==
    LET a == tick[w].attempt IN
    /\ tick[w].step = "verify"
    /\ pc[w] = "idle"
    /\ \/ /\ VerifyLoad(w, a)
          /\ UNCHANGED tick
       \/ /\ status[a] \notin {"proposed", "pr_opened"}
          /\ NextRow(w, tick[w].rows)
          /\ UNCHANGED vars
    /\ UNCHANGED <<holder, lost, leaked>>

\* One await of the row's current stage.  The cron never pushes and never
\* opens a pull request.
RowStep(w) ==
    /\ Running(w)
    /\ WorkerStep(w)
    /\ pc[w] = "git" => job'[w].outcome # "pr_opened"
    /\ \/ /\ pc'[w] # "idle"
          /\ UNCHANGED tick
       \/ /\ pc'[w] = "idle"
          /\ \/ /\ pc[w] = "finalize"
                /\ tick' = [tick EXCEPT ![w].step = "apply",
                                        ![w].attempt = job[w].attempt]
             \/ /\ pc[w] = "recordApply"
                /\ job[w].outcome = "proposed"
                /\ GoOn(w, "verify")
             \/ /\ pc[w] # "finalize"
                /\ pc[w] = "recordApply" => job[w].outcome = "failed"
                /\ NextRow(w, tick[w].rows)
    /\ UNCHANGED <<holder, lost, leaked>>

\* A query of the row throws: applyFix tries to roll back, everything else
\* reaches processFailure's catch block and ends the row.
RowError(w) ==
    /\ Running(w)
    /\ \/ /\ RecordApplyError(w)
          /\ UNCHANGED tick
       \/ /\ pc[w] \notin {"llm", "git", "playwright"}
          /\ pc[w] = "recordApply" => job[w].outcome = "failed"
          /\ Crash(w)
          /\ NextRow(w, tick[w].rows)
    /\ UNCHANGED <<holder, lost, leaked>>

\* Mutant: the finally block lowers the flag and forgets the lock.
UnlockForgotten(w) ==
    /\ tick[w].step = "unlock"
    /\ tick' = [tick EXCEPT ![w] = Off]
    /\ lost' = lost \ {w}
    /\ UNCHANGED <<vars, holder, leaked>>

\* The finally block.  Unlocking a session that is gone changes nothing.  A
\* pg_advisory_unlock that fails is logged, and its client goes back to the
\* pool with the lock; a session that took the lock once more than it gave
\* it back keeps it, too.
Unlock(w) ==
    /\ tick[w].step = "unlock"
    /\ tick' = [tick EXCEPT ![w] = Off]
    /\ \/ /\ w \notin leaked
          /\ holder' = IF holder = w THEN None ELSE holder
          /\ UNCHANGED leaked
       \/ /\ holder = w
          /\ w \in Unreliable \cup leaked
          /\ leaked' = leaked \cup {w}
          /\ UNCHANGED holder
    /\ lost' = lost \ {w}
    /\ UNCHANGED vars
-----------------------------------------------------------------------------
\* A pod dies: its row stays as it is, its sessions end and free the lock.
PodDies(w) ==
    /\ w \in Unreliable
    /\ Running(w) \/ w \in leaked
    /\ IF pc[w] = "idle" THEN UNCHANGED vars ELSE Crash(w)
    /\ tick' = [tick EXCEPT ![w] = Off]
    /\ holder' = IF holder = w THEN None ELSE holder
    /\ lost' = lost \ {w}
    /\ leaked' = leaked \ {w}

\* The session of the lock ends.  Under a tick the server ends it; the tick
\* hears of it only as a logged uncaught exception, and goes on with the
\* pool's other connections.  One that lies in the pool is closed by the
\* pool when it has been idle for idleTimeoutMillis, or by the server.
SessionDrops(w) ==
    /\ holder = w
    /\ w \in SessionMayDrop \/ w \notin Inside
    /\ holder' = None
    /\ lost' = IF w \in Inside THEN lost \cup {w} ELSE lost
    /\ leaked' = leaked \ {w}
    /\ UNCHANGED <<vars, tick>>

PodStep(w) ==
    \/ TryLock(w)
    \/ Find(w)
    \/ StartRow(w)
    \/ StartApply(w)
    \/ StartVerify(w)
    \/ RowStep(w)
    \/ Unlock(w)

\* Everything of AutoFix that is not a tick.
Others ==
    /\ \/ \E w \in Worker \ Pod : Request(w) \/ WorkerStep(w) \/ Fault(w)
       \/ Environment
    /\ UNCHANGED cronVars

CronNext ==
    \/ \E w \in Pod : \/ Fire(w)
                      \/ PodStep(w)
                      \/ RowError(w)
                      \/ PodDies(w)
                      \/ SessionDrops(w)
    \/ Others

cronAll == <<vars, cronVars>>

CronSpec == CronInit /\ [][CronNext]_cronAll

\* Every await of a running tick settles: the pool, git, the model client
\* and Playwright all answer or time out.  Nothing makes the schedule fire.
FairCronSpec == CronSpec /\ \A w \in Pod : WF_cronAll(PodStep(w))
-----------------------------------------------------------------------------
(* Properties *)

CronTypeOK ==
    /\ tick \in [Pod -> [step : {"off", "lock", "find", "row", "propose",
                                 "apply", "verify", "unlock"},
                         rows : Seq(Failure),
                         attempt : Attempt \cup {None}]]
    /\ holder \in Pod \cup {None}
    /\ lost \subseteq Pod
    /\ leaked \subseteq Pod

\* Two ticks are past the gate together only when one of them has lost the
\* session its lock lived on: the advisory lock in tick.
OneTickPerSession ==
    \A v, w \in Inside : v = w \/ v \in lost \/ w \in lost

\* The lock outlives the tick that took it only on a session that still
\* exists, and only on a pod whose unlock query can fail: whichever other way
\* a tick ends, by an error, a death or a lost session, the lock is free.  A
\* lock left behind otherwise would stop the cron of every pod for good.
LockIsBacked ==
    /\ holder # None => holder \in Inside \/ holder \in leaked
    /\ leaked \subseteq {holder} \cap Unreliable

\* The cluster lock: it keeps ticks apart, and nothing but a failed unlock
\* lets it outlive them.
ClusterLockHolds == OneTickPerSession /\ LockIsBacked

\* No attempt is verified by two ticks at once, not even by two that are
\* past the gate together because the lock's session was lost: a tick only
\* verifies what it proposed, and the claim keeps proposals apart.  The
\* comment of tick says otherwise, that without the advisory lock
\* "Playwright in verifyFix would spawn twice for the same fix_attempt"; what
\* it spares is the second tick's look at rows it then cannot claim.
VerifiedOnce ==
    \A v, w \in {u \in Pod : pc[u] \in Verifying} :
        job[v].attempt = job[w].attempt => v = w

\* Left to the cron, a failure is verified at most maxRetries times, through
\* deaths, lost sessions and failed queries: "without a cap, a genuinely
\* unfixable spec gets retried every cron tick".
RetryCapHolds ==
    EnvMaxRetries > 0
        => \A f \in Failure : Cardinality(VerifyFailures(f)) <= EnvMaxRetries

\* A tick ends, so the flag that drops overlapping ticks is always lowered.
TickEnds == \A w \in Pod : Running(w) ~> ~Running(w)
=============================================================================
