---------------------------- MODULE AutoFixProofs ---------------------------
(***************************************************************************)
(* What holds of AutoFix for every number of projects, failures, attempts  *)
(* and workers: the types, then that wont_fix stands and closed rows are   *)
(* dated, then that merged and resolved mean landed, that the loop         *)
(* implements FailureLifecycle, what is behind a claim, and by how much    *)
(* the daily gate may be passed.                                           *)
(*                                                                         *)
(* Then what holds of the auto-fix cron for every number of pods: it       *)
(* implements AutoFix, so that AutoFix's theorems are its own; the         *)
(* advisory lock is always backed by a tick and keeps ticks apart; no      *)
(* attempt is verified by two ticks at once; and what is left to the cron  *)
(* fails its verification no more often than the cap allows.               *)
(***************************************************************************)
EXTENDS AutoFixCron, SequenceTheorems, FiniteSetTheorems, TLAPS

Known(a) == a \in Attempt /\ status[a] # "unused"

\* A row that is not there has no branch, no code and no pull request.
Fresh ==
    \A a \in Attempt :
        status[a] = "unused"
            => /\ failureOf[a] = None
               /\ a \notin newCode
               /\ a \notin branches
               /\ pr[a] = "none"

Owned == \A a \in Attempt : status[a] # "unused" => failureOf[a] \in Failure

HooksKnown == \A d \in hooks : Known(d.attempt)

Rows == Fresh /\ Owned /\ HooksKnown

\* What a request holds at each of its awaits.
Holds(w) ==
    /\ pc[w] \in Proposing => job[w].failure \in Failure
    /\ pc[w] \in {"llm", "finalize"} \cup Applying \cup Verifying \cup Merging
           => Known(job[w].attempt)
    /\ pc[w] \in Verifying \cup Merging
           => job[w].failure = failureOf[job[w].attempt]
    /\ pc[w] = "finalize" => job[w].outcome \in {"proposed", "failed"}
    /\ pc[w] = "recordApply"
           => job[w].outcome \in {"proposed", "pr_opened", "failed"}

\* The strengthening that makes TypeOK inductive.
Inv == TypeOK /\ Rows /\ \A w \in Worker : Holds(w)

\* Attempts are never deleted and never change hands.
Steady ==
    \A a \in Attempt :
        status[a] # "unused"
            => status'[a] # "unused" /\ failureOf'[a] = failureOf[a]

\* A step of w leaves the other workers where they are.
Apart(w) ==
    \A v \in Worker \ {w} : pc'[v] = pc[v] /\ job'[v] = job[v]

LEMMA InitInv == Init => Inv
BY ConstantsAssumption
DEF Init, Inv, TypeOK, Rows, Fresh, Owned, HooksKnown, Known, Holds, Idle,
    Job, Config, Step, Proposing, Applying, Verifying, Merging

LEMMA IdleIsAJob == Idle \in Job
BY ConstantsAssumption DEF Idle, Job

\* A request that ends holds nothing.
LEMMA FinishHolds ==
    ASSUME Inv, NEW w \in Worker, Finish(w)
    PROVE  /\ pc' \in [Worker -> Step]
           /\ job' \in [Worker -> Job]
           /\ Holds(w)'
           /\ Apart(w)
BY IdleIsAJob
DEF Inv, TypeOK, Finish, Step, Holds, Apart, Proposing, Applying, Verifying,
    Merging

\* What the other workers hold survives a step of w.
LEMMA OthersHold ==
    ASSUME Inv, NEW w \in Worker, Steady, Apart(w), Holds(w)'
    PROVE  (\A v \in Worker : Holds(v))'
BY DEF Inv, Steady, Apart, Holds, Known

\* A step that leaves the workers alone.
LEMMA AllHold ==
    ASSUME Inv, Steady, UNCHANGED workerVars
    PROVE  (\A v \in Worker : Holds(v))'
BY DEF Inv, Steady, Holds, Known, workerVars
-----------------------------------------------------------------------------
(* proposeFix *)

LEMMA ProposeLoadInv ==
    ASSUME Inv, NEW w \in Worker, NEW f \in Failure, ProposeLoad(w, f)
    PROVE  Inv'
<1> DEFINE p == ProjectOf[f]
           j == [Idle EXCEPT !.failure = f, !.limit = EffectiveLimit(p)]
<1>1. EffectiveLimit(p) \in Nat
  BY ConstantsAssumption DEF Inv, TypeOK, EffectiveLimit, Config
<1>2. j \in Job /\ j.failure = f
  BY <1>1, IdleIsAJob DEF Job, Idle
<1>3. job' = [job EXCEPT ![w] = j]
  BY DEF ProposeLoad
<1> HIDE DEF j
<1>4. TypeOK'
  BY <1>2, <1>3
  DEF Inv, TypeOK, ProposeLoad, GoTo, Step, Proposing, rowVars, attemptVars,
      worldVars
<1>5. Rows'
  BY DEF Inv, Rows, Fresh, Owned, HooksKnown, Known, ProposeLoad, attemptVars,
         worldVars
<1>6. Steady /\ Apart(w) /\ Holds(w)'
  BY <1>2, <1>3
  DEF Inv, TypeOK, ProposeLoad, GoTo, attemptVars, Steady, Apart, Holds,
      Proposing, Applying, Verifying, Merging
<1>7. QED
  BY <1>4, <1>5, <1>6, OthersHold DEF Inv

LEMMA ProposeQuotaInv ==
    ASSUME Inv, NEW w \in Worker, ProposeQuota(w)
    PROVE  Inv'
<1>1. pc' \in [Worker -> Step] /\ job' \in [Worker -> Job]
  BY FinishHolds DEF Inv, TypeOK, ProposeQuota, GoTo, Step, Proposing
<1>2. TypeOK' /\ Rows'
  BY <1>1
  DEF Inv, TypeOK, Rows, Fresh, Owned, HooksKnown, Known, ProposeQuota,
      rowVars, attemptVars, worldVars
<1>3. Steady /\ Apart(w) /\ Holds(w)'
  BY FinishHolds
  DEF Inv, TypeOK, ProposeQuota, GoTo, attemptVars, Steady, Apart, Holds,
      Proposing, Applying, Verifying, Merging
<1>4. QED
  BY <1>2, <1>3, OthersHold DEF Inv

LEMMA ProposeClaimInv ==
    ASSUME Inv, NEW w \in Worker, ProposeClaim(w)
    PROVE  Inv'
<1>1. pc' \in [Worker -> Step] /\ job' \in [Worker -> Job]
  BY FinishHolds DEF Inv, TypeOK, ProposeClaim, GoTo, Step, Proposing
<1>2. TypeOK' /\ Rows'
  BY <1>1
  DEF Inv, TypeOK, Rows, Fresh, Owned, HooksKnown, Known, ProposeClaim,
      SetFixStatus, FixStatus, attemptVars, worldVars
<1>3. Steady /\ Apart(w) /\ Holds(w)'
  BY FinishHolds
  DEF Inv, TypeOK, ProposeClaim, GoTo, attemptVars, Steady, Apart, Holds,
      Proposing, Applying, Verifying, Merging
<1>4. QED
  BY <1>2, <1>3, OthersHold DEF Inv

LEMMA InsertAttemptInv ==
    ASSUME Inv, NEW w \in Worker, InsertAttempt(w)
    PROVE  Inv'
<1>1. PICK a \in Unused :
         /\ status' = [status EXCEPT ![a] = "patching"]
         /\ failureOf' = [failureOf EXCEPT ![a] = job[w].failure]
         /\ recent' = recent \cup {a}
         /\ job' = [job EXCEPT ![w].attempt = a]
  BY DEF InsertAttempt, SetStatus
<1>2. job[w].failure \in Failure
  BY DEF Inv, Holds, Proposing, InsertAttempt
<1>3. [job[w] EXCEPT !.attempt = a] \in Job
  BY DEF Inv, TypeOK, Job, Unused
<1>4. TypeOK'
  BY <1>1, <1>2, <1>3
  DEF Inv, TypeOK, InsertAttempt, GoTo, Step, Proposing, AttemptStatus,
      Unused, rowVars, worldVars
<1>5. Rows'
  BY <1>1, <1>2
  DEF Inv, TypeOK, InsertAttempt, Rows, Fresh, Owned, HooksKnown, Known,
      Unused, worldVars
<1>6. Steady /\ Apart(w) /\ Holds(w)'
  BY <1>1, <1>2, <1>3
  DEF Inv, TypeOK, InsertAttempt, GoTo, Steady, Apart, Holds, Known, Job,
      Proposing, Applying, Verifying, Merging, Unused
<1>7. QED
  BY <1>4, <1>5, <1>6, OthersHold DEF Inv

LEMMA CallLlmInv ==
    ASSUME Inv, NEW w \in Worker, CallLlm(w)
    PROVE  Inv'
<1>1. PICK outcome \in {"proposed", "failed"} :
         job' = [job EXCEPT ![w].outcome = outcome]
  BY DEF CallLlm
<1>2. [job[w] EXCEPT !.outcome = outcome] \in Job
  BY DEF Inv, TypeOK, Job
<1>3. TypeOK' /\ Rows'
  BY <1>1, <1>2
  DEF Inv, TypeOK, Rows, Fresh, Owned, HooksKnown, Known, CallLlm, GoTo,
      Step, Proposing, rowVars, attemptVars, worldVars
<1>4. Steady /\ Apart(w) /\ Holds(w)'
  BY <1>1, <1>2
  DEF Inv, TypeOK, CallLlm, GoTo, attemptVars, Steady, Apart, Holds, Known,
      Job, Proposing, Applying, Verifying, Merging
<1>5. QED
  BY <1>3, <1>4, OthersHold DEF Inv

LEMMA FinalizeAttemptInv ==
    ASSUME Inv, NEW w \in Worker, FinalizeAttempt(w)
    PROVE  Inv'
<1>1. /\ Known(job[w].attempt)
      /\ job[w].outcome \in {"proposed", "failed"}
      /\ job[w].failure \in Failure
  BY DEF Inv, Holds, FinalizeAttempt, Proposing
<1>2. pc' \in [Worker -> Step] /\ job' \in [Worker -> Job]
  BY FinishHolds DEF Inv, TypeOK, FinalizeAttempt, GoTo, Step, Proposing
<1>3. TypeOK' /\ Rows'
  BY <1>1, <1>2
  DEF Inv, TypeOK, Rows, Fresh, Owned, HooksKnown, Known, FinalizeAttempt,
      SetStatus, AttemptStatus, rowVars, worldVars
<1>4. Steady /\ Apart(w) /\ Holds(w)'
  BY <1>1, FinishHolds
  DEF Inv, TypeOK, FinalizeAttempt, SetStatus, GoTo, Known, Steady, Apart,
      Holds, Proposing, Applying, Verifying, Merging
<1>5. QED
  BY <1>3, <1>4, OthersHold DEF Inv

LEMMA ReleaseClaimInv ==
    ASSUME Inv, NEW w \in Worker, ReleaseClaim(w)
    PROVE  Inv'
<1>1. Finish(w)
  BY DEF ReleaseClaim
<1>2. TypeOK' /\ Rows'
  BY <1>1, FinishHolds
  DEF Inv, TypeOK, Rows, Fresh, Owned, HooksKnown, Known, ReleaseClaim,
      SetFixStatus, FixStatus, attemptVars, worldVars
<1>3. Steady
  BY DEF ReleaseClaim, attemptVars, Steady
<1>4. QED
  BY <1>1, <1>2, <1>3, FinishHolds, OthersHold DEF Inv
-----------------------------------------------------------------------------
(* applyFix and verifyFix *)

LEMMA ApplyLoadInv ==
    ASSUME Inv, NEW w \in Worker, NEW a \in Attempt, ApplyLoad(w, a)
    PROVE  Inv'
<1>1. [Idle EXCEPT !.attempt = a] \in Job
  BY IdleIsAJob DEF Idle, Job
<1>2. TypeOK' /\ Rows'
  BY <1>1
  DEF Inv, TypeOK, Rows, Fresh, Owned, HooksKnown, Known, ApplyLoad, GoTo,
      Step, Applying, rowVars, attemptVars, worldVars
<1>3. Steady /\ Apart(w) /\ Holds(w)'
  BY <1>1
  DEF Inv, TypeOK, ApplyLoad, GoTo, attemptVars, Known, Steady, Apart, Holds,
      Idle, Proposing, Applying, Verifying, Merging
<1>4. QED
  BY <1>2, <1>3, OthersHold DEF Inv

LEMMA ApplyGitInv ==
    ASSUME Inv, NEW w \in Worker, ApplyGit(w)
    PROVE  Inv'
<1>1. Known(job[w].attempt)
  BY DEF Inv, Holds, ApplyGit, Applying
<1>2. Steady
  BY DEF ApplyGit, attemptVars, Steady
<1>3. CASE Finish(w) /\ UNCHANGED <<branches, pr>>
  <2>1. TypeOK' /\ Rows'
    BY <1>3, FinishHolds
    DEF Inv, TypeOK, Rows, Fresh, Owned, HooksKnown, Known, ApplyGit,
        rowVars, attemptVars
  <2>2. QED
    BY <1>2, <1>3, <2>1, FinishHolds, OthersHold DEF Inv
<1>4. CASE GoTo(w, "recordApply")
  <2>1. PICK outcome \in {"proposed", "pr_opened", "failed"} :
           job' = [job EXCEPT ![w].outcome = outcome]
    BY <1>4 DEF ApplyGit, Finish, GoTo, Inv, TypeOK
  <2>2. [job[w] EXCEPT !.outcome = outcome] \in Job
    <3>1. job[w] \in Job
      BY DEF Inv, TypeOK
    <3>2. QED
      BY <2>1, <3>1 DEF Job
  <2>3. /\ branches' \subseteq branches \cup {job[w].attempt}
        /\ \/ pr' = pr
           \/ pr' = [pr EXCEPT ![job[w].attempt] = "open"]
    BY <1>4 DEF ApplyGit, Finish, GoTo, Inv, TypeOK
  <2>4. TypeOK' /\ Rows'
    BY <1>1, <1>4, <2>1, <2>2, <2>3
    DEF Inv, TypeOK, Rows, Fresh, Owned, HooksKnown, Known, ApplyGit, GoTo,
        Step, Applying, rowVars, attemptVars
  <2>5. Apart(w) /\ Holds(w)'
    BY <1>1, <1>4, <2>1, <2>2
    DEF Inv, TypeOK, ApplyGit, GoTo, attemptVars, Known, Apart, Holds, Job,
        Proposing, Applying, Verifying, Merging
  <2>6. QED
    BY <1>2, <2>4, <2>5, OthersHold DEF Inv
<1>5. QED
  BY <1>3, <1>4 DEF ApplyGit

LEMMA RecordApplyInv ==
    ASSUME Inv, NEW w \in Worker, RecordApply(w)
    PROVE  Inv'
<1>1. /\ Finish(w)
      /\ Known(job[w].attempt)
      /\ job[w].outcome \in {"proposed", "pr_opened", "failed"}
  BY DEF Inv, Holds, RecordApply, Applying
<1>2. TypeOK' /\ Rows'
  BY <1>1, FinishHolds
  DEF Inv, TypeOK, Rows, Fresh, Owned, HooksKnown, Known, RecordApply,
      SetStatus, AttemptStatus, rowVars, worldVars
<1>3. Steady
  BY <1>1 DEF Inv, TypeOK, RecordApply, SetStatus, Known, Steady
<1>4. QED
  BY <1>1, <1>2, <1>3, FinishHolds, OthersHold DEF Inv

LEMMA RecordApplyErrorInv ==
    ASSUME Inv, NEW w \in Worker, RecordApplyError(w)
    PROVE  Inv'
<1>1. Known(job[w].attempt)
  BY DEF Inv, Holds, RecordApplyError, Applying
<1>2. [job[w] EXCEPT !.outcome = "failed"] \in Job
  BY DEF Inv, TypeOK, Job
<1>3. /\ branches' \subseteq branches
      /\ \/ pr' = pr
         \/ pr' = [pr EXCEPT ![job[w].attempt] = "none"]
  BY DEF RecordApplyError
<1>4. TypeOK' /\ Rows'
  BY <1>1, <1>2, <1>3
  DEF Inv, TypeOK, Rows, Fresh, Owned, HooksKnown, Known, RecordApplyError,
      rowVars, attemptVars
<1>5. Steady /\ Apart(w) /\ Holds(w)'
  BY <1>1, <1>2
  DEF Inv, TypeOK, RecordApplyError, attemptVars, Known, Steady, Apart,
      Holds, Job, Proposing, Applying, Verifying, Merging
<1>6. QED
  BY <1>4, <1>5, OthersHold DEF Inv

LEMMA VerifyLoadInv ==
    ASSUME Inv, NEW w \in Worker, NEW a \in Attempt, VerifyLoad(w, a)
    PROVE  Inv'
<1> DEFINE f == failureOf[a]
           retries == EffectiveRetries(ProjectOf[f])
           j == [Idle EXCEPT !.failure = f, !.attempt = a,
                             !.retries = retries]
<1>1. Known(a) /\ f \in Failure
  BY DEF Inv, Rows, Owned, Known, VerifyLoad
<1>2. retries \in Nat
  BY <1>1, ConstantsAssumption DEF Inv, TypeOK, EffectiveRetries, Config
<1>3. j \in Job /\ j.failure = f /\ j.attempt = a
  BY <1>1, <1>2, IdleIsAJob DEF Job, Idle
<1>4. job' = [job EXCEPT ![w] = j]
  BY DEF VerifyLoad
<1> HIDE DEF j
<1>5. TypeOK' /\ Rows'
  BY <1>3, <1>4
  DEF Inv, TypeOK, Rows, Fresh, Owned, HooksKnown, Known, VerifyLoad, GoTo,
      Step, Verifying, rowVars, attemptVars, worldVars
<1>6. Steady /\ Apart(w) /\ Holds(w)'
  BY <1>1, <1>3, <1>4
  DEF Inv, TypeOK, VerifyLoad, GoTo, attemptVars, Known, Steady, Apart,
      Holds, Proposing, Applying, Verifying, Merging
<1>7. QED
  BY <1>5, <1>6, OthersHold DEF Inv

LEMMA RunPlaywrightInv ==
    ASSUME Inv, NEW w \in Worker, RunPlaywright(w)
    PROVE  Inv'
<1>1. pc' \in [Worker -> Step] /\ job' \in [Worker -> Job]
  BY FinishHolds DEF Inv, TypeOK, RunPlaywright, GoTo, Step, Verifying
<1>2. TypeOK' /\ Rows'
  BY <1>1
  DEF Inv, TypeOK, Rows, Fresh, Owned, HooksKnown, Known, RunPlaywright,
      rowVars, attemptVars, worldVars
<1>3. Steady /\ Apart(w) /\ Holds(w)'
  BY FinishHolds
  DEF Inv, TypeOK, RunPlaywright, GoTo, attemptVars, Known, Steady, Apart,
      Holds, Proposing, Applying, Verifying, Merging
<1>4. QED
  BY <1>2, <1>3, OthersHold DEF Inv

LEMMA RecordVerifiedInv ==
    ASSUME Inv, NEW w \in Worker, RecordVerified(w)
    PROVE  Inv'
<1>1. Finish(w) /\ Known(job[w].attempt)
  BY DEF Inv, Holds, RecordVerified, Verifying
<1>2. TypeOK' /\ Rows'
  BY <1>1, FinishHolds
  DEF Inv, TypeOK, Rows, Fresh, Owned, HooksKnown, Known, RecordVerified,
      SetStatus, AttemptStatus, rowVars, worldVars
<1>3. Steady
  BY <1>1 DEF Inv, TypeOK, RecordVerified, SetStatus, Known, Steady
<1>4. QED
  BY <1>1, <1>2, <1>3, FinishHolds, OthersHold DEF Inv

LEMMA RecordVerifyFailedInv ==
    ASSUME Inv, NEW w \in Worker, RecordVerifyFailed(w)
    PROVE  Inv'
<1>1. Known(job[w].attempt)
  BY DEF Inv, Holds, RecordVerifyFailed, Verifying
<1>2. TypeOK' /\ Rows'
  BY <1>1
  DEF Inv, TypeOK, Rows, Fresh, Owned, HooksKnown, Known, RecordVerifyFailed,
      SetStatus, AttemptStatus, GoTo, Step, Verifying, rowVars, worldVars
<1>3. Steady /\ Apart(w) /\ Holds(w)'
  BY <1>1
  DEF Inv, TypeOK, RecordVerifyFailed, SetStatus, GoTo, Known, Steady, Apart,
      Holds, Proposing, Applying, Verifying, Merging
<1>4. QED
  BY <1>2, <1>3, OthersHold DEF Inv

LEMMA SettleFailureInv ==
    ASSUME Inv, NEW w \in Worker, SettleFailure(w)
    PROVE  Inv'
<1>1. /\ Finish(w)
      /\ Known(job[w].attempt)
      /\ job[w].failure = failureOf[job[w].attempt]
  BY DEF Inv, Holds, SettleFailure, Verifying
<1>2. job[w].failure \in Failure
  BY <1>1 DEF Inv, Rows, Owned, Known
<1>3. TypeOK' /\ Rows'
  BY <1>1, <1>2, FinishHolds
  DEF Inv, TypeOK, Rows, Fresh, Owned, HooksKnown, Known, SettleFailure,
      SetFixStatus, FixStatus, rowVars, attemptVars, worldVars
<1>4. Steady
  BY DEF SettleFailure, attemptVars, Steady
<1>5. QED
  BY <1>1, <1>3, <1>4, FinishHolds, OthersHold DEF Inv
-----------------------------------------------------------------------------
(* The webhook, and everything else that writes the same rows *)

LEMMA WebhookReceiveInv ==
    ASSUME Inv, NEW w \in Worker, NEW d \in hooks, WebhookReceive(w, d)
    PROVE  Inv'
<1> DEFINE a == d.attempt
           j == [Idle EXCEPT !.failure = failureOf[a], !.attempt = a,
                             !.repo = d.repo]
<1>1. Known(a) /\ failureOf[a] \in Failure /\ d.repo \in Project \cup {None}
  BY DEF Inv, TypeOK, Rows, HooksKnown, Owned, Known
<1>2. Steady
  BY DEF WebhookReceive, attemptVars, Steady
<1>3. CASE GoTo(w, "merge") /\ UNCHANGED hooks
  <2>1. /\ j \in Job
        /\ j.failure = failureOf[a]
        /\ j.attempt = a
    BY <1>1, IdleIsAJob DEF Job, Idle, Known
  <2>2. job' = [job EXCEPT ![w] = j]
    BY <1>3 DEF WebhookReceive, workerVars, GoTo, Inv, TypeOK
  <2> HIDE DEF j
  <2>3. TypeOK' /\ Rows'
    BY <1>3, <2>1, <2>2
    DEF Inv, TypeOK, Rows, Fresh, Owned, HooksKnown, Known, WebhookReceive,
        GoTo, Step, Merging, rowVars, attemptVars
  <2>4. Apart(w) /\ Holds(w)'
    BY <1>1, <1>3, <2>1, <2>2
    DEF Inv, TypeOK, WebhookReceive, GoTo, attemptVars, Known, Apart, Holds,
        Proposing, Applying, Verifying, Merging
  <2>5. QED
    BY <1>2, <2>3, <2>4, OthersHold DEF Inv
<1>4. CASE hooks' = hooks \ {d} /\ UNCHANGED workerVars
  <2>1. TypeOK' /\ Rows'
    BY <1>4
    DEF Inv, TypeOK, Rows, Fresh, Owned, HooksKnown, Known, WebhookReceive,
        rowVars, attemptVars, workerVars
  <2>2. QED
    BY <1>2, <1>4, <2>1, AllHold DEF Inv
<1>5. QED
  BY <1>3, <1>4 DEF WebhookReceive

LEMMA RecordMergedInv ==
    ASSUME Inv, NEW w \in Worker, RecordMerged(w)
    PROVE  Inv'
<1>1. Known(job[w].attempt)
  BY DEF Inv, Holds, RecordMerged, Merging
<1>2. TypeOK' /\ Rows'
  BY <1>1
  DEF Inv, TypeOK, Rows, Fresh, Owned, HooksKnown, Known, RecordMerged,
      SetStatus, AttemptStatus, GoTo, Step, Merging, rowVars, worldVars
<1>3. Steady /\ Apart(w) /\ Holds(w)'
  BY <1>1
  DEF Inv, TypeOK, RecordMerged, SetStatus, GoTo, Known, Steady, Apart,
      Holds, Proposing, Applying, Verifying, Merging
<1>4. QED
  BY <1>2, <1>3, OthersHold DEF Inv

LEMMA RecordResolvedInv ==
    ASSUME Inv, NEW w \in Worker, RecordResolved(w)
    PROVE  Inv'
<1>1. /\ Finish(w)
      /\ Known(job[w].attempt)
      /\ job[w].failure = failureOf[job[w].attempt]
  BY DEF Inv, Holds, RecordResolved, Merging
<1>2. job[w].failure \in Failure
  BY <1>1 DEF Inv, Rows, Owned, Known
<1>3. hooks' \subseteq hooks
  BY DEF RecordResolved
<1>4. TypeOK' /\ Rows'
  BY <1>1, <1>2, <1>3, FinishHolds
  DEF Inv, TypeOK, Rows, Fresh, Owned, HooksKnown, Known, RecordResolved,
      SetFixStatus, FixStatus, rowVars, attemptVars
<1>5. Steady
  BY DEF RecordResolved, attemptVars, Steady
<1>6. QED
  BY <1>1, <1>4, <1>5, FinishHolds, OthersHold DEF Inv

LEMMA FaultInv ==
    ASSUME Inv, NEW w \in Worker, WebhookError(w) \/ Crash(w)
    PROVE  Inv'
<1>1. Finish(w) /\ hooks' \subseteq hooks /\ UNCHANGED <<branches, pr>>
  BY DEF WebhookError, Crash, worldVars
<1>2. UNCHANGED <<rowVars, attemptVars, config>>
  BY DEF WebhookError, Crash
<1>3. TypeOK' /\ Rows' /\ Steady
  BY <1>1, <1>2, FinishHolds
  DEF Inv, TypeOK, Rows, Fresh, Owned, HooksKnown, Known, Steady, rowVars,
      attemptVars
<1>4. QED
  BY <1>1, <1>3, FinishHolds, OthersHold DEF Inv

LEMMA EnvironmentInv ==
    ASSUME Inv, Environment
    PROVE  Inv'
<1>1. UNCHANGED workerVars /\ Steady
  BY DEF Environment, UpsertFailure, MarkWontFix, ReopenFailure, UpsertConfig,
         WindowSlides, OpenPullRequest, MergePullRequest, Redeliver,
         MergeElsewhere, Steady, attemptVars
<1>2. ASSUME NEW f \in Failure,
             UpsertFailure(f) \/ MarkWontFix(f) \/ ReopenFailure(f)
      PROVE  TypeOK' /\ Rows'
  BY <1>2
  DEF Inv, TypeOK, Rows, Fresh, Owned, HooksKnown, Known, UpsertFailure,
      MarkWontFix, ReopenFailure, SetFixStatus, FixStatus, attemptVars,
      worldVars, workerVars
<1>3. ASSUME NEW p \in Project, NEW c \in Configs, UpsertConfig(p, c)
      PROVE  TypeOK' /\ Rows'
  BY <1>3, ConstantsAssumption
  DEF Inv, TypeOK, Rows, Fresh, Owned, HooksKnown, Known, UpsertConfig,
      rowVars, attemptVars, worldVars, workerVars
<1>4. ASSUME NEW a \in Attempt, WindowSlides(a) \/ OpenPullRequest(a)
      PROVE  TypeOK' /\ Rows'
  BY <1>4
  DEF Inv, TypeOK, Rows, Fresh, Owned, HooksKnown, Known, WindowSlides,
      OpenPullRequest, rowVars, attemptVars, worldVars, workerVars
<1>5. ASSUME NEW a \in Attempt, NEW p \in Project, NEW d,
             d = Delivery(a, p), Known(a), hooks' = hooks \cup {d},
             UNCHANGED <<rowVars, attemptVars, config, branches, workerVars>>,
             \/ pr' = pr
             \/ pr' = [pr EXCEPT ![a] = "merged"]
      PROVE  TypeOK' /\ Rows'
  <2>1. /\ d \in [attempt : Attempt, repo : Project \cup {None}]
        /\ d.attempt = a
    BY <1>5 DEF Delivery
  <2>2. QED
    BY <1>5, <2>1
    DEF Inv, TypeOK, Rows, Fresh, Owned, HooksKnown, Known, rowVars,
        attemptVars, workerVars
<1>6. ASSUME NEW a \in Attempt, MergePullRequest(a) \/ Redeliver(a)
      PROVE  TypeOK' /\ Rows'
  <2>1. Known(a) /\ ProjectOf[failureOf[a]] \in Project
    BY <1>6, ConstantsAssumption
    DEF Inv, TypeOK, Rows, Fresh, Owned, Known, MergePullRequest, Redeliver
  <2>2. QED
    BY <1>5, <1>6, <2>1 DEF MergePullRequest, Redeliver
<1>7. ASSUME NEW a \in Attempt, NEW p \in Project, MergeElsewhere(a, p)
      PROVE  TypeOK' /\ Rows'
  BY <1>5, <1>7 DEF MergeElsewhere, Known
<1>8. QED
  BY <1>1, <1>2, <1>3, <1>4, <1>6, <1>7, AllHold DEF Environment, Inv

LEMMA NextInv ==
    ASSUME Inv, [Next]_vars
    PROVE  Inv'
<1>1. ASSUME NEW w \in Worker, Request(w)
      PROVE  Inv'
  BY <1>1, ProposeLoadInv, ApplyLoadInv, VerifyLoadInv, WebhookReceiveInv
  DEF Request
<1>2. ASSUME NEW w \in Worker, WorkerStep(w)
      PROVE  Inv'
  BY <1>2, ProposeQuotaInv, ProposeClaimInv, InsertAttemptInv, CallLlmInv,
     FinalizeAttemptInv, ReleaseClaimInv, ApplyGitInv, RecordApplyInv,
     RunPlaywrightInv, RecordVerifiedInv, RecordVerifyFailedInv,
     SettleFailureInv, RecordMergedInv, RecordResolvedInv
  DEF WorkerStep
<1>3. ASSUME NEW w \in Worker, Fault(w)
      PROVE  Inv'
  BY <1>3, RecordApplyErrorInv, FaultInv DEF Fault
<1>4. CASE UNCHANGED vars
  <2>1. TypeOK' /\ Rows' /\ Steady /\ UNCHANGED workerVars
    BY <1>4
    DEF Inv, TypeOK, Rows, Fresh, Owned, HooksKnown, Known, Steady, vars,
        rowVars, attemptVars, worldVars, workerVars
  <2>2. QED
    BY <2>1, AllHold DEF Inv
<1>5. QED
  BY <1>1, <1>2, <1>3, <1>4, EnvironmentInv DEF Next

\* Types hold in every reachable state.
THEOREM TypeCorrect == Spec => []TypeOK
<1>1. Inv => TypeOK
  BY DEF Inv
<1>2. QED
  BY <1>1, InitInv, NextInv, PTL DEF Spec

\* The strengthening itself, for the theorems that build on it.
THEOREM InvHolds == Spec => []Inv
BY InitInv, NextInv, PTL DEF Spec
-----------------------------------------------------------------------------
(* The lifecycle of a failure *)

\* The actions that write test_failures, by what they do to a row.  Every
\* property of the rows is proved from this case analysis.
Detected(f) ==
    /\ fixStatus[f] \in {"absent", "resolved"}
    /\ fixStatus' = [fixStatus EXCEPT ![f] = "open"]
    /\ resolvedAt' = resolvedAt

Claimed(f) ==
    /\ fixStatus[f] = "open"
    /\ fixStatus' = [fixStatus EXCEPT ![f] = "fix_proposed"]
    /\ resolvedAt' = resolvedAt

Released(f) ==
    /\ fixStatus[f] = "fix_proposed"
    /\ fixStatus' = [fixStatus EXCEPT ![f] = "open"]
    /\ resolvedAt' = resolvedAt

GivenUp(f) ==
    /\ fixStatus[f] \in {"open", "fix_proposed"}
    /\ fixStatus' = [fixStatus EXCEPT ![f] = "wont_fix"]
    /\ resolvedAt' = resolvedAt \cup {f}

Revived(f) ==
    /\ f \in OperatorRows
    /\ fixStatus[f] = "wont_fix"
    /\ fixStatus' = [fixStatus EXCEPT ![f] = "open"]
    /\ resolvedAt' = resolvedAt \ {f}

Resolved(f, w) ==
    /\ pc[w] = "resolve"
    /\ f = job[w].failure
    /\ fixStatus[f] \in {"fix_proposed", "fix_merged"}
    /\ fixStatus' = [fixStatus EXCEPT ![f] = "resolved"]
    /\ resolvedAt' = resolvedAt \cup {f}

RowMove(f) ==
    \/ Detected(f)
    \/ Claimed(f)
    \/ Released(f)
    \/ GivenUp(f)
    \/ Revived(f)
    \/ \E w \in Worker : Resolved(f, w)

\* A step moves no row, or one row in one of six ways; and only the steps
\* that leave GitHub alone move a row.
LEMMA StepMovesOneRow ==
    ASSUME Inv, [Next]_vars
    PROVE  \/ UNCHANGED rowVars
           \/ /\ \E f \in Failure : RowMove(f)
              /\ UNCHANGED <<failureOf, pr>>
<1> DEFINE Goal == \/ UNCHANGED rowVars
                   \/ /\ \E f \in Failure : RowMove(f)
                      /\ UNCHANGED <<failureOf, pr>>
<1>1. ASSUME NEW w \in Worker, Request(w) \/ Fault(w)
      PROVE  UNCHANGED rowVars
  BY <1>1
  DEF Request, Fault, ProposeLoad, ApplyLoad, VerifyLoad, WebhookReceive,
      RecordApplyError, WebhookError, Crash
<1>2. ASSUME NEW w \in Worker, WorkerStep(w)
      PROVE  Goal
  <2>1. CASE ProposeClaim(w)
    <3>1. job[w].failure \in Failure
      BY <2>1 DEF Inv, Holds, ProposeClaim, Proposing
    <3>2. QED
      BY <2>1, <3>1
      DEF ProposeClaim, RowMove, Claimed, SetFixStatus, rowVars, attemptVars,
          worldVars
  <2>2. CASE ReleaseClaim(w)
    <3>1. job[w].failure \in Failure
      BY <2>2 DEF Inv, Holds, ReleaseClaim, Proposing
    <3>2. QED
      BY <2>2, <3>1
      DEF ReleaseClaim, RowMove, Released, SetFixStatus, rowVars,
          attemptVars, worldVars
  <2>3. CASE SettleFailure(w)
    <3>1. job[w].failure \in Failure
      BY <2>3 DEF Inv, Rows, Owned, Known, Holds, SettleFailure, Verifying
    <3>2. QED
      BY <2>3, <3>1
      DEF SettleFailure, RowMove, Released, GivenUp, SetFixStatus, rowVars,
          attemptVars, worldVars
  <2>4. CASE RecordResolved(w)
    <3>1. job[w].failure \in Failure
      BY <2>4 DEF Inv, Rows, Owned, Known, Holds, RecordResolved, Merging
    <3>2. QED
      BY <2>4, <3>1
      DEF RecordResolved, RowMove, Resolved, SetFixStatus, rowVars,
          attemptVars
  <2>5. QED
    BY <1>2, <2>1, <2>2, <2>3, <2>4
    DEF WorkerStep, ProposeQuota, InsertAttempt, CallLlm, FinalizeAttempt,
        ApplyGit, RecordApply, RunPlaywright, RecordVerified,
        RecordVerifyFailed, RecordMerged
<1>3. CASE Environment
  <2>1. ASSUME NEW f \in Failure,
               UpsertFailure(f) \/ MarkWontFix(f) \/ ReopenFailure(f)
        PROVE  Goal
    BY <2>1
    DEF UpsertFailure, MarkWontFix, ReopenFailure, RowMove, Detected,
        GivenUp, Revived, SetFixStatus, attemptVars, worldVars
  <2>2. QED
    BY <1>3, <2>1
    DEF Environment, UpsertConfig, WindowSlides, OpenPullRequest,
        MergePullRequest, Redeliver, MergeElsewhere
<1>4. QED
  BY <1>1, <1>2, <1>3 DEF Next, vars, rowVars

\* wont_fix is left by an operator's reopen and by nothing else, for any
\* number of requests in flight and with any of them dying half way.
THEOREM WontFixIsFinal == Spec => WontFixStands
<1>1. Inv /\ [Next]_vars
        => [\A f \in Failure :
              fixStatus[f] = "wont_fix" /\ fixStatus'[f] # "wont_fix"
                  => fixStatus'[f] = "open" /\ f \in OperatorRows
                     /\ f \notin resolvedAt']_vars
  <2>1. SUFFICES ASSUME Inv, [Next]_vars, NEW f \in Failure,
                        fixStatus[f] = "wont_fix", fixStatus'[f] # "wont_fix"
                 PROVE  /\ fixStatus'[f] = "open"
                        /\ f \in OperatorRows
                        /\ f \notin resolvedAt'
    OBVIOUS
  <2>2. PICK g \in Failure : RowMove(g)
    BY <2>1, StepMovesOneRow DEF rowVars
  <2>3. g = f /\ Revived(f)
    BY <2>1, <2>2
    DEF Inv, TypeOK, RowMove, Detected, Claimed, Released, GivenUp, Revived,
        Resolved
  <2>4. QED
    BY <2>1, <2>3 DEF Inv, TypeOK, Revived
<1>2. QED
  BY <1>1, InvHolds, PTL DEF Spec, WontFixStands

\* Whichever writer closes a row dates it, and no writer removes the date of
\* a row that stays closed.
THEOREM ClosedAreDated == Spec => []ClosedRowsAreDated
<1>1. Init => ClosedRowsAreDated
  BY DEF Init, ClosedRowsAreDated
<1>2. Inv /\ ClosedRowsAreDated /\ [Next]_vars => ClosedRowsAreDated'
  <2>1. SUFFICES ASSUME Inv, ClosedRowsAreDated, [Next]_vars
                 PROVE  ClosedRowsAreDated'
    OBVIOUS
  <2>2. CASE UNCHANGED rowVars
    BY <2>1, <2>2 DEF ClosedRowsAreDated, rowVars
  <2>3. ASSUME NEW f \in Failure, RowMove(f)
        PROVE  ClosedRowsAreDated'
    BY <2>1, <2>3
    DEF Inv, TypeOK, ClosedRowsAreDated, RowMove, Detected, Claimed,
        Released, GivenUp, Revived, Resolved
  <2>4. QED
    BY <2>1, <2>2, <2>3, StepMovesOneRow
<1>3. QED
  BY <1>1, <1>2, InvHolds, PTL DEF Spec
-----------------------------------------------------------------------------
(* Merged means landed *)

\* What the theorems below assume: no repository of another project merges a
\* branch of the same name, or the lookup behind the tenant check answers.
TenantsKeptApart == Lookalikes = {} \/ ~LookupMayFail

\* A delivery the tenant check lets through speaks of a pull request that is
\* merged, and so does every request past that check.
HooksSpeakTrue == \A d \in hooks : SameTenant(d) => pr[d.attempt] = "merged"

MergersSpeakTrue ==
    \A w \in Worker : pc[w] \in Merging => pr[job[w].attempt] = "merged"

LandInv ==
    /\ HooksSpeakTrue
    /\ MergersSpeakTrue
    /\ MergedMeansLanded
    /\ ResolvedByLandedFix

\* A merge on GitHub is not taken back.
LEMMA MergesStay ==
    ASSUME Inv, [Next]_vars
    PROVE  \A a \in Attempt : pr[a] = "merged" => pr'[a] = "merged"
<1>1. ASSUME NEW w \in Worker, Request(w) \/ WorkerStep(w) \/ Fault(w)
      PROVE  pr' = pr \/ ApplyGit(w) \/ RecordApplyError(w)
  BY <1>1
  DEF Request, ProposeLoad, ApplyLoad, VerifyLoad, WebhookReceive, Fault,
      WebhookError, Crash, WorkerStep, ProposeQuota, ProposeClaim,
      InsertAttempt, CallLlm, FinalizeAttempt, ReleaseClaim, RecordApply,
      RunPlaywright, RecordVerified, RecordVerifyFailed, SettleFailure,
      RecordMerged, RecordResolved, worldVars
<1>2. ASSUME NEW w \in Worker, ApplyGit(w)
      PROVE  \A a \in Attempt : pr[a] = "merged" => pr'[a] = "merged"
  BY <1>2 DEF Inv, TypeOK, ApplyGit
<1>3. ASSUME NEW w \in Worker, RecordApplyError(w)
      PROVE  \A a \in Attempt : pr[a] = "merged" => pr'[a] = "merged"
  BY <1>3 DEF Inv, TypeOK, RecordApplyError
<1>4. ASSUME Environment
      PROVE  \A a \in Attempt : pr[a] = "merged" => pr'[a] = "merged"
  BY <1>4
  DEF Inv, TypeOK, Environment, UpsertFailure, MarkWontFix, ReopenFailure,
      UpsertConfig, WindowSlides, OpenPullRequest, MergePullRequest,
      Redeliver, MergeElsewhere, worldVars
<1>5. QED
  BY <1>1, <1>2, <1>3, <1>4 DEF Next, vars, worldVars

\* Every step is steady: no attempt is deleted or handed to another failure.
LEMMA NextSteady ==
    ASSUME Inv, [Next]_vars
    PROVE  Steady
<1>1. ASSUME NEW w \in Worker, Request(w) \/ Fault(w)
      PROVE  Steady
  BY <1>1
  DEF Request, ProposeLoad, ApplyLoad, VerifyLoad, WebhookReceive, Fault,
      WebhookError, Crash, RecordApplyError, Steady, attemptVars
<1>2. ASSUME NEW w \in Worker, WorkerStep(w)
      PROVE  Steady
  <2>1. CASE InsertAttempt(w)
    BY <2>1 DEF Inv, TypeOK, InsertAttempt, SetStatus, Unused, Steady
  <2>2. CASE \/ FinalizeAttempt(w) \/ RecordApply(w) \/ RecordVerified(w)
             \/ RecordVerifyFailed(w) \/ RecordMerged(w)
    BY <2>2
    DEF Inv, TypeOK, Holds, Known, Applying, Verifying, Merging,
        FinalizeAttempt, RecordApply, RecordVerified, RecordVerifyFailed,
        RecordMerged, SetStatus, Steady
  <2>3. QED
    BY <1>2, <2>1, <2>2
    DEF WorkerStep, ProposeQuota, ProposeClaim, CallLlm, ReleaseClaim,
        ApplyGit, RunPlaywright, SettleFailure, RecordResolved, Steady,
        attemptVars
<1>3. ASSUME Environment
      PROVE  Steady
  BY <1>3
  DEF Environment, UpsertFailure, MarkWontFix, ReopenFailure, UpsertConfig,
      WindowSlides, OpenPullRequest, MergePullRequest, Redeliver,
      MergeElsewhere, Steady, attemptVars
<1>4. QED
  BY <1>1, <1>2, <1>3 DEF Next, Steady, vars, attemptVars
\* A request reaches markMerged's writes only past the tenant check.
LEMMA MergersPassTheCheck ==
    ASSUME Inv, [Next]_vars, NEW v \in Worker, pc'[v] \in Merging
    PROVE  \/ pc[v] \in Merging /\ job'[v].attempt = job[v].attempt
           \/ \E d \in hooks : SameTenant(d) /\ job'[v].attempt = d.attempt
<1> DEFINE Goal ==
             \/ pc[v] \in Merging /\ job'[v].attempt = job[v].attempt
             \/ \E d \in hooks : SameTenant(d) /\ job'[v].attempt = d.attempt
<1>1. CASE UNCHANGED workerVars
  BY <1>1 DEF workerVars
<1>2. ASSUME NEW w \in Worker, Finish(w)
      PROVE  Goal
  BY <1>2 DEF Inv, TypeOK, Finish, Merging
<1>3. ASSUME NEW w \in Worker, Request(w)
      PROVE  Goal
  <2>1. CASE v # w
    BY <1>3, <2>1
    DEF Inv, TypeOK, Request, ProposeLoad, ApplyLoad, VerifyLoad,
        WebhookReceive, GoTo, workerVars
  <2>2. ASSUME NEW d \in hooks, WebhookReceive(w, d)
        PROVE  Goal
    <3>1. CASE UNCHANGED workerVars
      BY <1>1, <3>1
    <3>2. CASE /\ SameTenant(d)
               /\ job' = [job EXCEPT ![w] =
                            [Idle EXCEPT !.failure = failureOf[d.attempt],
                                         !.attempt = d.attempt,
                                         !.repo = d.repo]]
      BY <2>1, <3>2 DEF Inv, TypeOK, Idle
    <3>3. QED
      BY <2>2, <3>1, <3>2 DEF WebhookReceive
  <2>3. CASE v = w /\ ~(\E d \in hooks : WebhookReceive(w, d))
    BY <1>3, <2>3
    DEF Inv, TypeOK, Request, ProposeLoad, ApplyLoad, VerifyLoad, GoTo,
        Merging
  <2>4. QED
    BY <2>1, <2>2, <2>3
<1>4. ASSUME NEW w \in Worker, WorkerStep(w)
      PROVE  Goal
  <2>1. CASE RecordMerged(w)
    BY <2>1 DEF Inv, TypeOK, RecordMerged, GoTo, Merging
  <2>2. QED
    BY <1>2, <1>4, <2>1
    DEF Inv, TypeOK, WorkerStep, ProposeQuota, ProposeClaim, InsertAttempt,
        CallLlm, FinalizeAttempt, ReleaseClaim, ApplyGit, RecordApply,
        RunPlaywright, RecordVerified, RecordVerifyFailed, SettleFailure,
        RecordResolved, GoTo, Merging
<1>5. ASSUME NEW w \in Worker, Fault(w)
      PROVE  Goal
  BY <1>2, <1>5
  DEF Inv, TypeOK, Fault, RecordApplyError, WebhookError, Crash, Merging
<1>6. CASE Environment
  BY <1>1, <1>6
  DEF Environment, UpsertFailure, MarkWontFix, ReopenFailure, UpsertConfig,
      WindowSlides, OpenPullRequest, MergePullRequest, Redeliver,
      MergeElsewhere
<1>7. QED
  BY <1>1, <1>3, <1>4, <1>5, <1>6 DEF Next, vars

\* Only markMerged writes 'merged'.
LEMMA OnlyMergersMerge ==
    ASSUME Inv, [Next]_vars, NEW a \in Attempt, status'[a] = "merged"
    PROVE  \/ status[a] = "merged"
           \/ \E w \in Worker : pc[w] \in Merging /\ a = job[w].attempt
<1>1. ASSUME NEW w \in Worker, Request(w) \/ Fault(w)
      PROVE  status' = status
  BY <1>1
  DEF Request, ProposeLoad, ApplyLoad, VerifyLoad, WebhookReceive, Fault,
      WebhookError, Crash, RecordApplyError, attemptVars
<1>2. ASSUME NEW w \in Worker, WorkerStep(w)
      PROVE  \/ status[a] = "merged"
             \/ pc[w] \in Merging /\ a = job[w].attempt
  <2>1. CASE InsertAttempt(w)
    BY <2>1 DEF Inv, TypeOK, InsertAttempt, SetStatus
  <2>2. CASE \/ FinalizeAttempt(w) \/ RecordApply(w) \/ RecordVerified(w)
             \/ RecordVerifyFailed(w) \/ RecordMerged(w)
    BY <2>2
    DEF Inv, TypeOK, Holds, Merging, FinalizeAttempt, RecordApply,
        RecordVerified, RecordVerifyFailed, RecordMerged, SetStatus
  <2>3. QED
    BY <1>2, <2>1, <2>2
    DEF WorkerStep, ProposeQuota, ProposeClaim, CallLlm, ReleaseClaim,
        ApplyGit, RunPlaywright, SettleFailure, RecordResolved, attemptVars
<1>3. ASSUME Environment
      PROVE  status' = status
  BY <1>3
  DEF Environment, UpsertFailure, MarkWontFix, ReopenFailure, UpsertConfig,
      WindowSlides, OpenPullRequest, MergePullRequest, Redeliver,
      MergeElsewhere, attemptVars
<1>4. QED
  BY <1>1, <1>2, <1>3 DEF Next, vars, attemptVars

\* A new delivery either speaks of a merged pull request or fails the check.
LEMMA NewHooksSpeakTrue ==
    ASSUME Inv, [Next]_vars, TenantsKeptApart, NEW d \in hooks', d \notin hooks
    PROVE  SameTenant(d) => pr'[d.attempt] = "merged"
<1>1. ASSUME NEW w \in Worker, Request(w) \/ WorkerStep(w) \/ Fault(w)
      PROVE  hooks' \subseteq hooks
  BY <1>1
  DEF Request, ProposeLoad, ApplyLoad, VerifyLoad, WebhookReceive, Fault,
      WebhookError, Crash, RecordApplyError, WorkerStep, ProposeQuota,
      ProposeClaim, InsertAttempt, CallLlm, FinalizeAttempt, ReleaseClaim,
      ApplyGit, RecordApply, RunPlaywright, RecordVerified,
      RecordVerifyFailed, SettleFailure, RecordMerged, RecordResolved,
      worldVars
<1>2. Environment
  BY <1>1 DEF Next, vars, worldVars
<1>3. ASSUME NEW a \in Attempt, MergePullRequest(a) \/ Redeliver(a)
      PROVE  pr'[d.attempt] = "merged"
  BY <1>3 DEF Inv, TypeOK, MergePullRequest, Redeliver, Delivery
<1>4. ASSUME NEW a \in Attempt, NEW p \in Project, MergeElsewhere(a, p)
      PROVE  ~SameTenant(d)
  <2>1. d = [attempt |-> a, repo |-> p]
    BY <1>4 DEF MergeElsewhere, Delivery
  <2>2. ~LookupMayFail
    BY <1>4 DEF MergeElsewhere, TenantsKeptApart
  <2>3. QED
    BY <1>4, <2>1, <2>2, ConstantsAssumption DEF MergeElsewhere, SameTenant
<1>5. QED
  BY <1>2, <1>3, <1>4
  DEF Environment, UpsertFailure, MarkWontFix, ReopenFailure, UpsertConfig,
      WindowSlides, OpenPullRequest, worldVars

\* The step that sends a delivery leaves fix_attempts alone.
LEMMA NewHooksLeaveAttempts ==
    ASSUME Inv, [Next]_vars, ~(hooks' \subseteq hooks)
    PROVE  UNCHANGED attemptVars
<1>1. ASSUME NEW w \in Worker, Request(w) \/ WorkerStep(w) \/ Fault(w)
      PROVE  hooks' \subseteq hooks
  BY <1>1
  DEF Request, ProposeLoad, ApplyLoad, VerifyLoad, WebhookReceive, Fault,
      WebhookError, Crash, RecordApplyError, WorkerStep, ProposeQuota,
      ProposeClaim, InsertAttempt, CallLlm, FinalizeAttempt, ReleaseClaim,
      ApplyGit, RecordApply, RunPlaywright, RecordVerified,
      RecordVerifyFailed, SettleFailure, RecordMerged, RecordResolved,
      worldVars
<1>2. QED
  BY <1>1
  DEF Next, Environment, UpsertFailure, MarkWontFix, ReopenFailure,
      UpsertConfig, WindowSlides, OpenPullRequest, MergePullRequest,
      Redeliver, MergeElsewhere, vars, worldVars

LEMMA LandInvKept ==
    ASSUME Inv, LandInv, [Next]_vars, TenantsKeptApart
    PROVE  LandInv'
<1>1. HooksSpeakTrue'
  <2>1. SUFFICES ASSUME NEW d \in hooks', SameTenant(d)'
                 PROVE  pr'[d.attempt] = "merged"
    BY DEF HooksSpeakTrue
  <2>2. Known(d.attempt)'
    BY NextInv DEF Inv, Rows, HooksKnown
  <2>3. CASE d \in hooks
    <3>1. Known(d.attempt)
      BY <2>3 DEF Inv, Rows, HooksKnown
    <3>2. SameTenant(d)
      BY <2>1, <3>1, NextSteady DEF SameTenant, Steady, Known
    <3>3. QED
      BY <2>3, <3>1, <3>2, MergesStay DEF LandInv, HooksSpeakTrue, Known
  <2>4. CASE d \notin hooks
    <3>1. failureOf'[d.attempt] = failureOf[d.attempt]
      BY <2>4, NewHooksLeaveAttempts DEF attemptVars
    <3>2. QED
      BY <2>1, <2>4, <3>1, NewHooksSpeakTrue DEF SameTenant
  <2>5. QED
    BY <2>3, <2>4
<1>2. MergersSpeakTrue'
  BY MergersPassTheCheck, MergesStay
  DEF Inv, Rows, HooksKnown, Holds, Known, LandInv, MergersSpeakTrue,
      HooksSpeakTrue
<1>3. MergedMeansLanded'
  BY OnlyMergersMerge, MergesStay
  DEF LandInv, MergersSpeakTrue, MergedMeansLanded
<1>4. ResolvedByLandedFix'
  <2>1. ASSUME NEW f \in Failure, NEW a \in AttemptsOf(f), pr[a] = "merged"
        PROVE  a \in AttemptsOf(f)' /\ pr'[a] = "merged"
    BY <2>1, NextSteady, MergesStay
    DEF Inv, Rows, Fresh, AttemptsOf, Steady
  <2>2. CASE UNCHANGED rowVars
    BY <2>1, <2>2 DEF LandInv, ResolvedByLandedFix, rowVars
  <2>3. ASSUME NEW f \in Failure, RowMove(f)
        PROVE  ResolvedByLandedFix'
    <3>1. ASSUME NEW w \in Worker, Resolved(f, w)
          PROVE  \E a \in AttemptsOf(f) : pr[a] = "merged"
      BY <3>1
      DEF Inv, Holds, Known, Resolved, Merging, LandInv, MergersSpeakTrue,
          AttemptsOf
    <3>2. \A g \in Failure \ {f} : fixStatus'[g] = fixStatus[g]
      BY <2>3
      DEF Inv, TypeOK, RowMove, Detected, Claimed, Released, GivenUp,
          Revived, Resolved
    <3>3. fixStatus'[f] = "resolved" => \E w \in Worker : Resolved(f, w)
      BY <2>3
      DEF Inv, TypeOK, RowMove, Detected, Claimed, Released, GivenUp,
          Revived
    <3>4. QED
      BY <2>1, <3>1, <3>2, <3>3 DEF LandInv, ResolvedByLandedFix
  <2>4. QED
    BY <2>2, <2>3, StepMovesOneRow
<1>5. QED
  BY <1>1, <1>2, <1>3, <1>4 DEF LandInv

LEMMA InitLandInv == Init => LandInv
BY DEF Init, LandInv, HooksSpeakTrue, MergersSpeakTrue, MergedMeansLanded,
       ResolvedByLandedFix, Merging

THEOREM LandInvHolds == TenantsKeptApart => (Spec => []LandInv)
<1>1. SUFFICES ASSUME TenantsKeptApart
               PROVE  Spec => []LandInv
  OBVIOUS
<1>2. Inv /\ LandInv /\ [Next]_vars => LandInv'
  BY <1>1, LandInvKept
<1>3. QED
  BY <1>2, InitLandInv, InvHolds, PTL DEF Spec

\* With tenants kept apart, an attempt is 'merged' only if its own pull
\* request was.
THEOREM MergedHaveLanded == TenantsKeptApart => (Spec => []MergedMeansLanded)
<1>1. LandInv => MergedMeansLanded
  BY DEF LandInv
<1>2. QED
  BY <1>1, LandInvHolds, PTL

\* With tenants kept apart, a failure is 'resolved' only on the strength of a
\* merged attempt of its own.
THEOREM ResolvedHaveLanded ==
    TenantsKeptApart => (Spec => []ResolvedByLandedFix)
<1>1. LandInv => ResolvedByLandedFix
  BY DEF LandInv
<1>2. QED
  BY <1>1, LandInvHolds, PTL

\* With tenants kept apart, the loop takes for merged only what was.
THEOREM MergesHaveLanded == TenantsKeptApart => (Spec => []MergesAreReal)
<1>1. ResolvedByLandedFix /\ MergedMeansLanded => MergesAreReal
  BY DEF MergesAreReal
<1>2. QED
  BY <1>1, MergedHaveLanded, ResolvedHaveLanded, PTL
-----------------------------------------------------------------------------
(* AutoFix implements FailureLifecycle *)

\* No writer uses 'fix_merged', though two guards admit it.
NeverFixMerged == \A f \in Failure : fixStatus[f] # "fix_merged"

LEMMA NeverFixMergedHolds == Spec => []NeverFixMerged
<1>1. Init => NeverFixMerged
  BY DEF Init, NeverFixMerged
<1>2. Inv /\ NeverFixMerged /\ [Next]_vars => NeverFixMerged'
  BY StepMovesOneRow
  DEF Inv, TypeOK, NeverFixMerged, rowVars, RowMove, Detected, Claimed,
      Released, GivenUp, Revived, Resolved
<1>3. QED
  BY <1>1, <1>2, InvHolds, PTL DEF Spec

\* GitHub merges one pull request at a time.
LEMMA OneMergeAtATime ==
    ASSUME Inv, [Next]_vars
    PROVE  \E b \in Attempt \cup {None} :
               /\ \A a \in Attempt \ {b} : pr'[a] = "merged" => pr[a] = "merged"
               /\ b # None => Known(b)
<1>1. ASSUME NEW w \in Worker, Request(w) \/ WorkerStep(w) \/ Fault(w)
      PROVE  pr' = pr \/ ApplyGit(w) \/ RecordApplyError(w)
  BY <1>1
  DEF Request, ProposeLoad, ApplyLoad, VerifyLoad, WebhookReceive, Fault,
      WebhookError, Crash, WorkerStep, ProposeQuota, ProposeClaim,
      InsertAttempt, CallLlm, FinalizeAttempt, ReleaseClaim, RecordApply,
      RunPlaywright, RecordVerified, RecordVerifyFailed, SettleFailure,
      RecordMerged, RecordResolved, worldVars
<1>2. ASSUME NEW w \in Worker, ApplyGit(w) \/ RecordApplyError(w)
      PROVE  \A a \in Attempt : pr'[a] = "merged" => pr[a] = "merged"
  BY <1>2 DEF Inv, TypeOK, ApplyGit, RecordApplyError
<1>3. ASSUME NEW a \in Attempt, MergePullRequest(a)
      PROVE  /\ \A c \in Attempt \ {a} : pr'[c] = pr[c]
             /\ Known(a)
  BY <1>3 DEF Inv, TypeOK, Rows, Fresh, Known, MergePullRequest
<1>4. ASSUME NEW a \in Attempt, OpenPullRequest(a)
      PROVE  \A c \in Attempt : pr'[c] = "merged" => pr[c] = "merged"
  BY <1>4 DEF Inv, TypeOK, OpenPullRequest
<1>5. \/ \A a \in Attempt : pr'[a] = "merged" => pr[a] = "merged"
      \/ \E b \in Attempt : /\ \A c \in Attempt \ {b} : pr'[c] = pr[c]
                            /\ Known(b)
  BY <1>1, <1>2, <1>3, <1>4
  DEF Next, Environment, UpsertFailure, MarkWontFix, ReopenFailure,
      UpsertConfig, WindowSlides, Redeliver, MergeElsewhere, vars, worldVars
<1>6. QED
  BY <1>5

\* A failure lands at most once per step, and stays landed.
LEMMA LandsOneByOne ==
    ASSUME Inv, [Next]_vars
    PROVE  Landed' = Landed \/ \E f \in Failure : Landed' = Landed \cup {f}
<1>1. Landed \subseteq Landed'
  BY NextSteady, MergesStay
  DEF Inv, Rows, Fresh, Landed, AttemptsOf, Steady
<1>2. PICK b \in Attempt \cup {None} :
         /\ \A a \in Attempt \ {b} : pr'[a] = "merged" => pr[a] = "merged"
         /\ b # None => Known(b)
  BY OneMergeAtATime
<1>3. ASSUME NEW f \in Landed', f \notin Landed
      PROVE  b # None /\ f = failureOf[b] /\ b \in Attempt
  <2>1. PICK a \in Attempt : failureOf'[a] = f /\ pr'[a] = "merged"
    BY <1>3 DEF Landed, AttemptsOf
  <2>2. CASE a = b
    BY <1>2, <2>1, <2>2, NextSteady, ConstantsAssumption
    DEF Steady, Known
  <2>3. CASE a # b
    <3>1. pr[a] = "merged"
      BY <1>2, <2>1, <2>3
    <3>2. failureOf[a] = f
      BY <2>1, <3>1, NextSteady DEF Inv, Rows, Fresh, Steady
    <3>3. QED
      BY <1>3, <2>1, <3>1, <3>2 DEF Landed, AttemptsOf
  <2>4. QED
    BY <2>2, <2>3
<1>4. Landed' \subseteq Failure
  BY DEF Landed
<1>5. CASE Landed' = Landed
  BY <1>5
<1>6. CASE Landed' # Landed
  <2>1. PICK f \in Landed' : f \notin Landed
    BY <1>1, <1>6
  <2>2. Landed' = Landed \cup {f}
    BY <1>1, <1>3, <2>1
  <2>3. QED
    BY <1>4, <2>1, <2>2
<1>7. QED
  BY <1>5, <1>6

\* With tenants kept apart, every behaviour of the loop is a behaviour of
\* FailureLifecycle.
THEOREM Implements == TenantsKeptApart => (Spec => ImplementsLifecycle)
<1>1. SUFFICES ASSUME TenantsKeptApart
               PROVE  Spec => ImplementsLifecycle
  OBVIOUS
<1>2. Init => Lifecycle!Init
  BY DEF Init, Lifecycle!Init, Landed, AttemptsOf
<1>3. Inv /\ LandInv /\ NeverFixMerged /\ [Next]_vars
        => [Lifecycle!Next]_(Lifecycle!vars)
  <2>1. SUFFICES ASSUME Inv, LandInv, NeverFixMerged, [Next]_vars
                 PROVE  [Lifecycle!Next]_(Lifecycle!vars)
    OBVIOUS
  <2>2. CASE UNCHANGED rowVars
    BY <2>1, <2>2, LandsOneByOne
    DEF rowVars, Lifecycle!Next, Lifecycle!Land, Lifecycle!vars
  <2>3. ASSUME NEW f \in Failure, RowMove(f), UNCHANGED <<failureOf, pr>>
        PROVE  Lifecycle!Next
    <3>1. Landed' = Landed
      BY <2>3 DEF Landed, AttemptsOf
    <3>2. ASSUME NEW w \in Worker, Resolved(f, w)
          PROVE  f \in Landed /\ fixStatus[f] = "fix_proposed"
      BY <2>1, <3>2
      DEF Inv, Holds, Known, Resolved, Merging, LandInv, MergersSpeakTrue,
          NeverFixMerged, Landed, AttemptsOf
    <3>3. QED
      BY <2>3, <3>1, <3>2
      DEF RowMove, Detected, Claimed, Released, GivenUp, Revived, Resolved,
          Lifecycle!Next, Lifecycle!Detect, Lifecycle!Claim,
          Lifecycle!Release, Lifecycle!GiveUp, Lifecycle!Revive,
          Lifecycle!Resolve, Lifecycle!Move
  <2>4. QED
    BY <2>1, <2>2, <2>3, StepMovesOneRow
<1>4. QED
  BY <1>1, <1>2, <1>3, InvHolds, LandInvHolds, NeverFixMergedHolds, PTL
  DEF Spec, ImplementsLifecycle, Lifecycle!Spec
-----------------------------------------------------------------------------
(* What is behind a claim *)

Backs(a, f) ==
    /\ failureOf[a] = f
    /\ status[a] \in Live \/ (status[a] = "failed" /\ a \in newCode)

Backed(f) ==
    \/ \E w \in Worker : HoldsClaim(w, f)
    \/ \E a \in Attempt : Backs(a, f)

\* A request that has inserted an attempt works on it for the failure it
\* claimed; and what is applied has code.
ClaimInv ==
    /\ \A w \in Worker :
          /\ pc[w] \in {"llm", "finalize"} => failureOf[job[w].attempt] = job[w].failure
          /\ pc[w] \in Applying => job[w].attempt \in newCode
    /\ \A f \in Failure : fixStatus[f] = "fix_proposed" => Backed(f)

LEMMA InitClaimInv == Init => ClaimInv
BY DEF Init, ClaimInv, Applying

\* Code, once there, stays.
LEMMA CodeStays == ASSUME [Next]_vars PROVE newCode \subseteq newCode'
BY DEF Next, Request, ProposeLoad, ApplyLoad, VerifyLoad, WebhookReceive, Fault,
       WebhookError, Crash, RecordApplyError, WorkerStep, ProposeQuota, ProposeClaim,
       InsertAttempt, CallLlm, FinalizeAttempt, ReleaseClaim, ApplyGit, RecordApply,
       RunPlaywright, RecordVerified, RecordVerifyFailed, SettleFailure, RecordMerged,
       RecordResolved, Environment, UpsertFailure, MarkWontFix, ReopenFailure,
       UpsertConfig, WindowSlides, OpenPullRequest, MergePullRequest, Redeliver,
       MergeElsewhere, attemptVars, vars

\* The first part of ClaimInv, of one request.
Carries(w) ==
    /\ pc[w] \in {"llm", "finalize"} => failureOf[job[w].attempt] = job[w].failure
    /\ pc[w] \in Applying => job[w].attempt \in newCode

LEMMA StillCarries ==
    ASSUME Inv, [Next]_vars, NEW w \in Worker, Carries(w), pc'[w] = pc[w], job'[w] = job[w]
    PROVE  Carries(w)'
BY NextSteady, CodeStays DEF Inv, Holds, Known, Steady, Carries

LEMMA CarriesStays ==
    ASSUME Inv, [Next]_vars, \A v \in Worker : Carries(v), NEW v \in Worker
    PROVE  Carries(v)'
<1>1. CASE UNCHANGED workerVars
  BY <1>1, StillCarries DEF workerVars
<1>2. ASSUME NEW w \in Worker, Finish(w) PROVE Carries(v)'
  <2>1. CASE v = w
    BY <1>2, <2>1 DEF Inv, TypeOK, Finish, Carries, Applying
  <2>2. CASE v # w
    BY <1>2, <2>2, StillCarries DEF Inv, TypeOK, Finish
  <2>3. QED
    BY <2>1, <2>2
<1>4. ASSUME NEW w \in Worker, Request(w) PROVE Carries(v)'
  <2>1. CASE v # w
    <3>1. \/ UNCHANGED workerVars
          \/ pc'[v] = pc[v] /\ job'[v] = job[v]
      BY <1>4, <2>1 DEF Inv, TypeOK, Request, ProposeLoad, ApplyLoad, VerifyLoad,
                        WebhookReceive, GoTo, workerVars
    <3>2. QED
      BY <1>1, <3>1, StillCarries
  <2>2. CASE v = w
    <3>1. ASSUME NEW a \in Attempt, ApplyLoad(w, a) PROVE Carries(w)'
      BY <3>1 DEF Inv, TypeOK, ApplyLoad, GoTo, attemptVars, Carries, Idle
    <3>2. ASSUME ~\E a \in Attempt : ApplyLoad(w, a) PROVE Carries(w)'
      <4>1. UNCHANGED workerVars \/ pc'[w] \in {"quota", "claim", "playwright", "merge"}
        BY <1>4, <3>2 DEF Inv, TypeOK, Request, ProposeLoad, VerifyLoad, WebhookReceive, GoTo
      <4>2. QED
        BY <1>1, <2>2, <4>1 DEF Carries, Applying
    <3>3. QED
      BY <2>2, <3>1, <3>2
  <2>3. QED
    BY <2>1, <2>2
<1>5. ASSUME NEW w \in Worker, WorkerStep(w) PROVE Carries(v)'
  <2>1. CASE v # w
    <3>1. pc'[v] = pc[v] /\ job'[v] = job[v]
      BY <1>5, <2>1
      DEF Inv, TypeOK, WorkerStep, ProposeQuota, ProposeClaim, InsertAttempt, CallLlm,
          FinalizeAttempt, ReleaseClaim, ApplyGit, RecordApply, RunPlaywright,
          RecordVerified, RecordVerifyFailed, SettleFailure, RecordMerged,
          RecordResolved, GoTo, Finish
    <3>2. QED
      BY <3>1, StillCarries
  <2>2. CASE InsertAttempt(w) /\ v = w
    <3>1. PICK a \in Unused :
             /\ failureOf' = [failureOf EXCEPT ![a] = job[w].failure]
             /\ job' = [job EXCEPT ![w].attempt = a]
      BY <2>2 DEF InsertAttempt
    <3>2. job'[w].attempt = a /\ job'[w].failure = job[w].failure /\ pc'[w] = "llm"
      BY <2>2, <3>1 DEF Inv, TypeOK, Job, InsertAttempt, GoTo
    <3>3. QED
      BY <2>2, <3>1, <3>2 DEF Inv, TypeOK, Unused, Carries, Applying
  <2>3. CASE (CallLlm(w) \/ ApplyGit(w)) /\ v = w
    <3>1. \/ Finish(w)
          \/ /\ UNCHANGED attemptVars
             /\ job'[w].attempt = job[w].attempt /\ job'[w].failure = job[w].failure
             /\ \/ pc[w] = "llm" /\ pc'[w] = "finalize"
                \/ pc[w] = "git" /\ pc'[w] = "recordApply"
      BY <2>3 DEF Inv, TypeOK, Job, CallLlm, ApplyGit, GoTo
    <3>2. QED
      BY <1>2, <2>3, <3>1 DEF Carries, attemptVars, Applying
  <2>4. CASE ~InsertAttempt(w) /\ ~CallLlm(w) /\ ~ApplyGit(w) /\ v = w
    <3>1. \/ Finish(w)
          \/ pc'[w] \in {"claim", "insert", "release", "recordVerified",
                         "recordVerifyFailed", "settle", "resolve"}
      BY <1>5, <2>4
      DEF Inv, TypeOK, WorkerStep, ProposeQuota, ProposeClaim, FinalizeAttempt,
          ReleaseClaim, RecordApply, RunPlaywright, RecordVerified,
          RecordVerifyFailed, SettleFailure, RecordMerged, RecordResolved, GoTo
    <3>2. QED
      BY <1>2, <2>4, <3>1 DEF Carries, Applying
  <2>5. QED
    BY <2>1, <2>2, <2>3, <2>4
<1>6. ASSUME NEW w \in Worker, Fault(w) PROVE Carries(v)'
  <2>1. CASE RecordApplyError(w)
    <3>1. /\ pc' = pc /\ UNCHANGED attemptVars
          /\ job'[v].attempt = job[v].attempt /\ job'[v].failure = job[v].failure
      BY <2>1 DEF Inv, TypeOK, Job, RecordApplyError
    <3>2. QED
      BY <3>1 DEF Carries, attemptVars
  <2>2. QED
    BY <1>2, <1>6, <2>1 DEF Fault, WebhookError, Crash
<1>7. CASE Environment
  BY <1>1, <1>7
  DEF Environment, UpsertFailure, MarkWontFix, ReopenFailure, UpsertConfig,
      WindowSlides, OpenPullRequest, MergePullRequest, Redeliver, MergeElsewhere
<1>8. QED
  BY <1>1, <1>4, <1>5, <1>6, <1>7 DEF Next, vars

\* A request behind a claim may hand it on to its attempt, and no attempt may
\* stop backing a claim but for a request that takes its place.
LEMMA StaysBacked ==
    ASSUME NEW f \in Failure, Backed(f), NEW w \in Worker, Apart(w),
           HoldsClaim(w, f) => Backed(f)',
           \A a \in Attempt : Backs(a, f) => Backs(a, f)' \/ Backed(f)'
    PROVE  Backed(f)'
BY DEF Backed, HoldsClaim, Apart

LEMMA QuietlyBacked ==
    ASSUME NEW f \in Failure, Backed(f), NEW w \in Worker, Apart(w),
           HoldsClaim(w, f) => HoldsClaim(w, f)', UNCHANGED <<status, failureOf, newCode>>
    PROVE  Backed(f)'
BY StaysBacked DEF Backs, Backed

LEMMA RequestBacked ==
    ASSUME Inv, NEW w \in Worker, Request(w), NEW f \in Failure, Backed(f)
    PROVE  Backed(f)'
<1>1. \/ Apart(w) /\ ~HoldsClaim(w, f) /\ UNCHANGED attemptVars
      \/ UNCHANGED <<attemptVars, workerVars>>
  BY DEF Inv, TypeOK, Request, ProposeLoad, ApplyLoad, VerifyLoad, WebhookReceive, GoTo,
         Apart, HoldsClaim
<1>2. CASE UNCHANGED <<attemptVars, workerVars>>
  BY <1>2 DEF attemptVars, workerVars, Backed, Backs, HoldsClaim
<1>3. QED
  BY <1>1, <1>2, QuietlyBacked DEF attemptVars

\* The steps that write no attempt: to the next await, or home.
LEMMA WalkBacked ==
    ASSUME Inv, NEW w \in Worker, NEW f \in Failure, fixStatus'[f] = "fix_proposed",
           fixStatus[f] = "fix_proposed" => Backed(f),
           \/ ProposeQuota(w) \/ ProposeClaim(w) \/ CallLlm(w) \/ ReleaseClaim(w)
           \/ ApplyGit(w) \/ RunPlaywright(w) \/ SettleFailure(w) \/ RecordResolved(w)
    PROVE  Backed(f)'
<1>1. Apart(w) /\ UNCHANGED <<status, failureOf, newCode>>
  BY DEF Inv, TypeOK, ProposeQuota, ProposeClaim, CallLlm, ReleaseClaim, ApplyGit,
         RunPlaywright, SettleFailure, RecordResolved, GoTo, Finish, Apart, attemptVars
<1>2. CASE ProposeClaim(w) /\ f = job[w].failure /\ fixStatus[f] = "open"
  BY <1>2 DEF Inv, TypeOK, ProposeClaim, SetFixStatus, GoTo, Backed, HoldsClaim
<1>3. CASE fixStatus[f] = "fix_proposed"
  <2>1. HoldsClaim(w, f) => HoldsClaim(w, f)'
    <3>1. CASE CallLlm(w)
      BY <3>1 DEF Inv, TypeOK, Job, CallLlm, GoTo, HoldsClaim
    <3>2. CASE ~CallLlm(w)
      BY <1>3, <3>2 DEF Inv, TypeOK, ProposeQuota, ProposeClaim, ReleaseClaim, ApplyGit,
             RunPlaywright, SettleFailure, RecordResolved, SetFixStatus, HoldsClaim
    <3>3. QED
      BY <3>1, <3>2
  <2>2. QED
    BY <1>1, <1>3, <2>1, QuietlyBacked
<1>4. CASE /\ fixStatus[f] # "fix_proposed"
           /\ ~(ProposeClaim(w) /\ f = job[w].failure /\ fixStatus[f] = "open")
  BY <1>4 DEF Inv, TypeOK, ProposeQuota, ProposeClaim, CallLlm, ReleaseClaim, ApplyGit,
         RunPlaywright, SettleFailure, RecordResolved, SetFixStatus, rowVars
<1>5. QED
  BY <1>2, <1>3, <1>4

\* The steps that write the attempt in hand.
LEMMA WriteBacked ==
    ASSUME Inv, NEW w \in Worker, Carries(w), NEW f \in Failure, Backed(f),
           \/ InsertAttempt(w) \/ FinalizeAttempt(w) \/ RecordApply(w)
           \/ RecordVerified(w) \/ RecordVerifyFailed(w) \/ RecordMerged(w)
    PROVE  Backed(f)'
<1>1. Apart(w)
  BY DEF Inv, TypeOK, InsertAttempt, FinalizeAttempt, RecordApply, RecordVerified,
         RecordVerifyFailed, RecordMerged, GoTo, Finish, Apart
<1>2. CASE InsertAttempt(w)
  <2>1. PICK a \in Unused :
           /\ status' = [status EXCEPT ![a] = "patching"]
           /\ failureOf' = [failureOf EXCEPT ![a] = job[w].failure]
           /\ newCode' = newCode
           /\ job' = [job EXCEPT ![w].attempt = a]
    BY <1>2 DEF InsertAttempt, SetStatus
  <2>2. HoldsClaim(w, f) => HoldsClaim(w, f)'
    BY <1>2, <2>1 DEF Inv, TypeOK, Job, InsertAttempt, GoTo, HoldsClaim
  <2>3. \A b \in Attempt : Backs(b, f) => Backs(b, f)'
    BY <2>1 DEF Inv, TypeOK, Backs, Unused, Live
  <2>4. QED
    BY <1>1, <2>2, <2>3, StaysBacked DEF Backed
<1>3. CASE ~InsertAttempt(w)
  <2>1. PICK a : a = job[w].attempt
    OBVIOUS
  <2>2. /\ Known(a) /\ UNCHANGED failureOf /\ newCode \subseteq newCode'
        /\ \E s : status' = [status EXCEPT ![a] = s]
    BY <1>3, <2>1 DEF Inv, Holds, Applying, Verifying, Merging, FinalizeAttempt,
           RecordApply, RecordVerified, RecordVerifyFailed, RecordMerged, SetStatus
  <2>3. \A b \in Attempt \ {a} : Backs(b, f) => Backs(b, f)'
    BY <2>2 DEF Inv, TypeOK, Backs
  <2>4. CASE FinalizeAttempt(w)
    <3>1. failureOf[a] = job[w].failure /\ pc[w] = "finalize"
      BY <2>1, <2>4 DEF Carries, FinalizeAttempt
    <3>2. job[w].failure = f => Backed(f)'
      BY <2>1, <2>2, <2>4, <3>1
      DEF Inv, TypeOK, Known, FinalizeAttempt, SetStatus, GoTo, Backed, Backs, Live,
          HoldsClaim
    <3>3. HoldsClaim(w, f) => Backed(f)'
      BY <3>2 DEF HoldsClaim
    <3>4. Backs(a, f) => Backed(f)'
      BY <3>1, <3>2 DEF Backs
    <3>5. QED
      BY <1>1, <2>3, <3>3, <3>4, StaysBacked
  <2>5. CASE RecordApply(w) \/ RecordVerified(w)
    <3>1. Backs(a, f) => Backs(a, f)'
      <4>1. CASE RecordApply(w)
        BY <2>1, <2>2, <4>1 DEF Inv, TypeOK, Holds, Known, Applying, Carries,
               RecordApply, SetStatus, Backs, Live
      <4>2. CASE RecordVerified(w)
        BY <2>1, <2>2, <4>2 DEF Inv, TypeOK, Known, RecordVerified, SetStatus, Backs, Live
      <4>3. QED
        BY <2>5, <4>1, <4>2
    <3>2. ~HoldsClaim(w, f)
      BY <2>5 DEF RecordApply, RecordVerified, HoldsClaim
    <3>3. QED
      BY <1>1, <2>3, <3>1, <3>2, StaysBacked
  <2>6. CASE RecordVerifyFailed(w) \/ RecordMerged(w)
    <3>1. failureOf[a] = job[w].failure
      BY <2>1, <2>6 DEF Inv, Holds, Verifying, Merging, RecordVerifyFailed, RecordMerged
    <3>2. failureOf[a] = f => HoldsClaim(w, f)'
      BY <2>6, <3>1 DEF Inv, TypeOK, RecordVerifyFailed, RecordMerged, GoTo, HoldsClaim
    <3>3. ~HoldsClaim(w, f)
      BY <2>6 DEF RecordVerifyFailed, RecordMerged, HoldsClaim
    <3>4. QED
      BY <1>1, <2>3, <3>2, <3>3, StaysBacked DEF Backs, Backed
  <2>7. QED
    BY <1>3, <2>4, <2>5, <2>6
<1>4. QED
  BY <1>2, <1>3

LEMMA EnvironmentBacked ==
    ASSUME Inv, Environment, NEW f \in Failure, fixStatus'[f] = "fix_proposed"
    PROVE  fixStatus[f] = "fix_proposed" /\ (Backed(f) => Backed(f)')
<1>1. fixStatus[f] = "fix_proposed"
  BY DEF Inv, TypeOK, Environment, UpsertFailure, MarkWontFix, ReopenFailure, UpsertConfig,
         WindowSlides, OpenPullRequest, MergePullRequest, Redeliver, MergeElsewhere,
         SetFixStatus, rowVars
<1>2. UNCHANGED <<status, failureOf, newCode, workerVars>>
  BY DEF Environment, UpsertFailure, MarkWontFix, ReopenFailure, UpsertConfig,
         WindowSlides, OpenPullRequest, MergePullRequest, Redeliver, MergeElsewhere,
         attemptVars
<1>3. Backed(f) => Backed(f)'
  BY <1>2 DEF workerVars, Backed, Backs, HoldsClaim
<1>4. QED
  BY <1>1, <1>3

LEMMA ClaimInvKept ==
    ASSUME Unreliable = {}, Inv, ClaimInv, [Next]_vars PROVE ClaimInv'
<1>1. \A v \in Worker : Carries(v) /\ Carries(v)'
  <2>1. \A v \in Worker : Carries(v)
    BY DEF ClaimInv, Carries
  <2>2. QED
    BY <2>1, CarriesStays
<1>2. ASSUME NEW f \in Failure, fixStatus'[f] = "fix_proposed" PROVE Backed(f)'
  <2>1. fixStatus[f] = "fix_proposed" => Backed(f)
    BY DEF ClaimInv
  <2>2. CASE UNCHANGED vars
    BY <1>2, <2>1, <2>2 DEF vars, rowVars, attemptVars, workerVars, Backed, Backs, HoldsClaim
  <2>3. \A w \in Worker : ~Fault(w)
    BY DEF Fault, RecordApplyError, WebhookError, Crash
  <2>4. ASSUME NEW w \in Worker, Request(w) PROVE Backed(f)'
    <3>1. UNCHANGED fixStatus
      BY <2>4 DEF Request, ProposeLoad, ApplyLoad, VerifyLoad, WebhookReceive, rowVars
    <3>2. QED
      BY <1>2, <2>1, <2>4, <3>1, RequestBacked
  <2>5. ASSUME NEW w \in Worker, WorkerStep(w) PROVE Backed(f)'
    <3>1. CASE \/ InsertAttempt(w) \/ FinalizeAttempt(w) \/ RecordApply(w)
               \/ RecordVerified(w) \/ RecordVerifyFailed(w) \/ RecordMerged(w)
      <4>1. UNCHANGED fixStatus
        BY <3>1 DEF InsertAttempt, FinalizeAttempt, RecordApply, RecordVerified,
               RecordVerifyFailed, RecordMerged, rowVars
      <4>2. QED
        BY <1>1, <1>2, <2>1, <3>1, <4>1, WriteBacked
    <3>2. QED
      BY <1>2, <2>1, <2>5, <3>1, WalkBacked DEF WorkerStep
  <2>6. CASE Environment
    BY <1>2, <2>1, <2>6, EnvironmentBacked
  <2>7. QED
    BY <2>2, <2>3, <2>4, <2>5, <2>6 DEF Next
<1>3. QED
  BY <1>1, <1>2 DEF ClaimInv, Carries

\* When no worker dies, a failed apply is the only way a claim is left with
\* nothing behind it.
THEOREM ClaimsAreBacked == Unreliable = {} => (Spec => []ClaimLeaksOnlyByApply)
<1>1. SUFFICES ASSUME Unreliable = {} PROVE Spec => []ClaimLeaksOnlyByApply
  OBVIOUS
<1>2. Inv /\ ClaimInv /\ [Next]_vars => ClaimInv'
  BY <1>1, ClaimInvKept
<1>3. ClaimInv => ClaimLeaksOnlyByApply
  BY DEF ClaimInv, Backed, Backs, ClaimLeaksOnlyByApply, AttemptsOf
<1>4. QED
  BY <1>2, <1>3, InitClaimInv, InvHolds, PTL DEF Spec
-----------------------------------------------------------------------------
(* The daily gate *)

\* No operator sets another limit than the one that is in force without him.
LimitStands == \A c \in Configs : c.dailyLimit \in {NoOverride, EnvDailyLimit}

\* Proposals that have passed the gate and not yet inserted what it counts.
Past(p) == {w \in Worker : pc[w] \in {"claim", "insert"} /\ ProjectOf[job[w].failure] = p}

Within(p) ==
    Cardinality(RecentAttempts(p)) + Cardinality(Past(p)) < EnvDailyLimit + Cardinality(Worker)

QuotaInv ==
    /\ IsFiniteSet(recent)
    /\ \A p \in Project : config[p].dailyLimit \in {NoOverride, EnvDailyLimit}
    /\ \A w \in Worker : pc[w] = "quota" => job[w].limit = EnvDailyLimit
    /\ EnvDailyLimit > 0 => \A p \in Project : Within(p)

LEMMA RecentFinite ==
    ASSUME IsFiniteSet(recent), NEW p
    PROVE  IsFiniteSet(RecentAttempts(p)) /\ Cardinality(RecentAttempts(p)) \in Nat
BY FS_Subset, FS_CardinalityType DEF RecentAttempts

LEMMA PastFinite ==
    ASSUME IsFiniteSet(Worker), NEW p
    PROVE  /\ IsFiniteSet(Past(p))
           /\ Cardinality(Past(p)) \in Nat /\ Cardinality(Worker) \in Nat
           /\ Cardinality(Past(p)) <= Cardinality(Worker)
BY FS_Subset, FS_CardinalityType DEF Past

LEMMA InitQuotaInv ==
    ASSUME IsFiniteSet(Worker), Init PROVE QuotaInv
<1>1. IsFiniteSet(recent)
  BY FS_EmptySet DEF Init
<1>2. ASSUME EnvDailyLimit > 0, NEW p \in Project PROVE Within(p)
  <2>1. RecentAttempts(p) = {} /\ Past(p) = {}
    BY DEF Init, RecentAttempts, Past
  <2>2. QED
    BY <1>2, <2>1, FS_EmptySet, FS_CardinalityType, ConstantsAssumption DEF Within
<1>3. QED
  BY <1>1, <1>2 DEF Init, QuotaInv

\* Most steps take away from what a project has, if anything.
LEMMA ShrinkWithin ==
    ASSUME IsFiniteSet(Worker), IsFiniteSet(recent), NEW p, Within(p),
           NEW R, NEW P, R = RecentAttempts(p)', P = Past(p)',
           R \subseteq RecentAttempts(p), P \subseteq Past(p)
    PROVE  Within(p)'
<1>1. /\ IsFiniteSet(RecentAttempts(p)) /\ IsFiniteSet(Past(p))
      /\ Cardinality(Past(p)) \in Nat /\ Cardinality(RecentAttempts(p)) \in Nat
      /\ Cardinality(Worker) \in Nat
  BY RecentFinite, PastFinite
<1>2. /\ Cardinality(R) \in Nat /\ Cardinality(R) <= Cardinality(RecentAttempts(p))
      /\ Cardinality(P) \in Nat /\ Cardinality(P) <= Cardinality(Past(p))
  BY <1>1, FS_Subset, FS_CardinalityType
<1>3. QED
  BY <1>1, <1>2, ConstantsAssumption DEF Within

\* Nobody passes, and nothing more is counted.
LEMMA OthersShrink ==
    ASSUME Inv, [Next]_vars, NEW p \in Project, EnvDailyLimit > 0,
           \A w \in Worker : ~InsertAttempt(w) /\ ~ProposeQuota(w),
           config[p].dailyLimit \in {NoOverride, EnvDailyLimit},
           \A q \in Project : config[q].dailyLimit \in {NoOverride, EnvDailyLimit}
    PROVE  RecentAttempts(p)' \subseteq RecentAttempts(p) /\ Past(p)' \subseteq Past(p)
<1>1. failureOf' = failureOf /\ recent' \subseteq recent
  BY DEF Next, Request, ProposeLoad, ApplyLoad, VerifyLoad, WebhookReceive, Fault,
         WebhookError, Crash, RecordApplyError, WorkerStep, ProposeClaim, CallLlm,
         FinalizeAttempt, ReleaseClaim, ApplyGit, RecordApply, RunPlaywright,
         RecordVerified, RecordVerifyFailed, SettleFailure, RecordMerged, RecordResolved,
         Environment, UpsertFailure, MarkWontFix, ReopenFailure, UpsertConfig,
         WindowSlides, OpenPullRequest, MergePullRequest, Redeliver, MergeElsewhere,
         attemptVars, vars
<1>2. RecentAttempts(p)' \subseteq RecentAttempts(p)
  BY <1>1 DEF RecentAttempts
<1>3. ASSUME NEW v \in Worker, pc'[v] \in {"claim", "insert"}
      PROVE  pc[v] \in {"claim", "insert"} /\ job'[v].failure = job[v].failure
  <2>1. CASE UNCHANGED workerVars
    BY <1>3, <2>1 DEF workerVars
  <2>2. ASSUME NEW w \in Worker, Request(w)
        PROVE  UNCHANGED workerVars \/ (Apart(w) /\ pc'[w] \notin {"claim", "insert"})
    <3>1. ASSUME NEW f \in Failure, ProposeLoad(w, f) PROVE pc'[w] = "quota"
      BY <3>1, ConstantsAssumption DEF Inv, TypeOK, EffectiveLimit, ProposeLoad, GoTo
    <3>2. ASSUME NEW f \in Failure, ProposeLoad(w, f) PROVE Apart(w)
      BY <3>2 DEF Inv, TypeOK, ProposeLoad, GoTo, Apart
    <3>3. ASSUME NEW a \in Attempt, ApplyLoad(w, a) \/ VerifyLoad(w, a)
          PROVE  Apart(w) /\ pc'[w] \in {"git", "playwright"}
      BY <3>3 DEF Inv, TypeOK, ApplyLoad, VerifyLoad, GoTo, Apart
    <3>4. ASSUME NEW d \in hooks, WebhookReceive(w, d)
          PROVE  UNCHANGED workerVars \/ (Apart(w) /\ pc'[w] = "merge")
      BY <3>4 DEF Inv, TypeOK, WebhookReceive, GoTo, Apart, workerVars
    <3>5. QED
      BY <2>2, <3>1, <3>2, <3>3, <3>4 DEF Request
  <2>3. ASSUME NEW w \in Worker, WorkerStep(w)
        PROVE  /\ Apart(w)
               /\ pc'[w] \in {"claim", "insert"} =>
                    pc[w] \in {"claim", "insert"} /\ job'[w].failure = job[w].failure
    BY <2>3
    DEF Inv, TypeOK, WorkerStep, ProposeClaim, CallLlm, FinalizeAttempt, ReleaseClaim,
        ApplyGit, RecordApply, RunPlaywright, RecordVerified, RecordVerifyFailed,
        SettleFailure, RecordMerged, RecordResolved, GoTo, Finish, Apart
  <2>4. ASSUME NEW w \in Worker, Fault(w)
        PROVE  /\ Apart(w)
               /\ pc'[w] \in {"claim", "insert"} =>
                    pc[w] \in {"claim", "insert"} /\ job'[w].failure = job[w].failure
    BY <2>4 DEF Inv, TypeOK, Fault, WebhookError, Crash, RecordApplyError, Finish, Apart
  <2>5. CASE Environment
    BY <2>1, <2>5
    DEF Environment, UpsertFailure, MarkWontFix, ReopenFailure, UpsertConfig,
        WindowSlides, OpenPullRequest, MergePullRequest, Redeliver, MergeElsewhere
  <2>6. QED
    BY <1>3, <2>1, <2>2, <2>3, <2>4, <2>5 DEF Next, Apart, vars
<1>4. QED
  BY <1>2, <1>3 DEF Past

LEMMA PassWithin ==
    ASSUME IsFiniteSet(Worker), Inv, QuotaInv, EnvDailyLimit > 0,
           NEW w \in Worker, ProposeQuota(w), NEW p \in Project
    PROVE  Within(p)'
<1>1. Apart(w) /\ UNCHANGED attemptVars
  BY DEF Inv, TypeOK, ProposeQuota, GoTo, Finish, Apart
<1>2. RecentAttempts(p)' = RecentAttempts(p)
  BY <1>1 DEF RecentAttempts, attemptVars
<1>3. CASE pc'[w] = "claim" /\ ProjectOf[job[w].failure] = p
  <2>1. Cardinality(RecentAttempts(p)) < EnvDailyLimit
    BY <1>3 DEF Inv, TypeOK, QuotaInv, ProposeQuota, GoTo, Finish
  <2>2. PICK P : P = Past(p)'
    OBVIOUS
  <2>3. P \subseteq Worker
    BY <2>2 DEF Past
  <2>4. Cardinality(P) \in Nat /\ Cardinality(P) <= Cardinality(Worker)
    BY <2>3, FS_Subset, FS_CardinalityType
  <2>5. Cardinality(RecentAttempts(p)) \in Nat /\ Cardinality(Worker) \in Nat
    BY RecentFinite, PastFinite DEF QuotaInv
  <2>6. QED
    BY <1>2, <2>1, <2>2, <2>4, <2>5, ConstantsAssumption DEF Within
<1>4. CASE ~(pc'[w] = "claim" /\ ProjectOf[job[w].failure] = p)
  <2>1. Past(p)' \subseteq Past(p)
    BY <1>1, <1>4 DEF Inv, TypeOK, Past, Apart, ProposeQuota, GoTo, Finish
  <2>2. QED
    BY <1>2, <2>1, ShrinkWithin DEF QuotaInv
<1>5. QED
  BY <1>3, <1>4

\* The attempt takes the place of the request that inserts it.
LEMMA InsertWithin ==
    ASSUME IsFiniteSet(Worker), Inv, QuotaInv, EnvDailyLimit > 0,
           NEW w \in Worker, InsertAttempt(w), NEW p \in Project
    PROVE  Within(p)'
<1>1. PICK a \in Attempt :
         /\ failureOf' = [failureOf EXCEPT ![a] = job[w].failure]
         /\ recent' = recent \cup {a}
         /\ job' = [job EXCEPT ![w].attempt = a]
         /\ pc' = [pc EXCEPT ![w] = "llm"]
         /\ pc[w] = "insert"
  BY DEF InsertAttempt, GoTo, Unused
<1>2. Past(p)' = Past(p) \ {w}
  BY <1>1 DEF Inv, TypeOK, Job, Past
<1>3. CASE ProjectOf[job[w].failure] = p
  <2>1. w \in Past(p)
    BY <1>1, <1>3 DEF Past
  <2>2. PICK R : R = RecentAttempts(p)'
    OBVIOUS
  <2>3. R \subseteq RecentAttempts(p) \cup {a}
    BY <1>1, <2>2 DEF Inv, TypeOK, RecentAttempts
  <2>4. /\ IsFiniteSet(RecentAttempts(p)) /\ IsFiniteSet(Past(p))
        /\ Cardinality(Past(p)) \in Nat /\ Cardinality(RecentAttempts(p)) \in Nat
        /\ Cardinality(Worker) \in Nat
    BY RecentFinite, PastFinite DEF QuotaInv
  <2>5. /\ IsFiniteSet(RecentAttempts(p) \cup {a})
        /\ Cardinality(RecentAttempts(p) \cup {a}) <= Cardinality(RecentAttempts(p)) + 1
    <3>1. PICK S : S = RecentAttempts(p)
      OBVIOUS
    <3>2. /\ IsFiniteSet(S \cup {a})
          /\ Cardinality(S \cup {a}) = IF a \in S THEN Cardinality(S) ELSE Cardinality(S) + 1
      BY <2>4, <3>1, FS_AddElement
    <3>3. QED
      BY <2>4, <3>1, <3>2
  <2>6. /\ Cardinality(R) \in Nat
        /\ Cardinality(R) <= Cardinality(RecentAttempts(p) \cup {a})
    BY <2>3, <2>5, FS_Subset, FS_CardinalityType
  <2>7. Cardinality(RecentAttempts(p) \cup {a}) \in Nat
    BY <2>5, FS_CardinalityType
  <2>8. Cardinality(Past(p) \ {w}) = Cardinality(Past(p)) - 1
    BY <2>1, <2>4, FS_RemoveElement
  <2>9. QED
    BY <1>2, <2>2, <2>4, <2>5, <2>6, <2>7, <2>8, ConstantsAssumption DEF Within, QuotaInv
<1>4. CASE ProjectOf[job[w].failure] # p
  <2>1. RecentAttempts(p)' \subseteq RecentAttempts(p)
    BY <1>1, <1>4 DEF Inv, TypeOK, RecentAttempts
  <2>2. QED
    BY <1>2, <2>1, ShrinkWithin DEF QuotaInv
<1>5. QED
  BY <1>3, <1>4

LEMMA QuotaInvKept ==
    ASSUME IsFiniteSet(Worker), LimitStands, Inv, QuotaInv, [Next]_vars PROVE QuotaInv'
<1>1. IsFiniteSet(recent')
  <2>1. recent' \subseteq recent \/ \E a \in Attempt : recent' = recent \cup {a}
    BY DEF Next, Request, ProposeLoad, ApplyLoad, VerifyLoad, WebhookReceive, Fault,
           WebhookError, Crash, RecordApplyError, WorkerStep, ProposeQuota, ProposeClaim,
           InsertAttempt, Unused, CallLlm,
           FinalizeAttempt, ReleaseClaim, ApplyGit, RecordApply, RunPlaywright,
           RecordVerified, RecordVerifyFailed, SettleFailure, RecordMerged, RecordResolved,
           Environment, UpsertFailure, MarkWontFix, ReopenFailure, UpsertConfig,
           WindowSlides, OpenPullRequest, MergePullRequest, Redeliver, MergeElsewhere,
           attemptVars, vars
  <2>2. QED
    BY <2>1, FS_Subset, FS_AddElement DEF QuotaInv
<1>2. \A p \in Project : config'[p].dailyLimit \in {NoOverride, EnvDailyLimit}
  <2>1. config' = config \/ \E p \in Project, c \in Configs : config' = [config EXCEPT ![p] = c]
    BY DEF Next, Request, ProposeLoad, ApplyLoad, VerifyLoad, WebhookReceive, Fault,
           WebhookError, Crash, RecordApplyError, WorkerStep, ProposeQuota, ProposeClaim,
           InsertAttempt, CallLlm,
           FinalizeAttempt, ReleaseClaim, ApplyGit, RecordApply, RunPlaywright,
           RecordVerified, RecordVerifyFailed, SettleFailure, RecordMerged, RecordResolved,
           Environment, UpsertFailure, MarkWontFix, ReopenFailure, UpsertConfig,
           WindowSlides, OpenPullRequest, MergePullRequest, Redeliver, MergeElsewhere, vars
  <2>2. QED
    BY <2>1 DEF QuotaInv, LimitStands, Inv, TypeOK
<1>3. ASSUME NEW v \in Worker, pc'[v] = "quota" PROVE job'[v].limit = EnvDailyLimit
  <2>1. CASE UNCHANGED workerVars
    BY <1>3, <2>1 DEF workerVars, QuotaInv
  <2>2. ASSUME NEW w \in Worker, Request(w)
        PROVE  UNCHANGED workerVars
               \/ (Apart(w) /\ (pc'[w] = "quota" => job'[w].limit = EnvDailyLimit))
    <3>1. ASSUME NEW f \in Failure, ProposeLoad(w, f)
          PROVE  pc'[w] = "quota" => job'[w].limit = EnvDailyLimit
      BY <3>1, ConstantsAssumption
      DEF Inv, TypeOK, QuotaInv, EffectiveLimit, ProposeLoad, GoTo, Idle
    <3>2. ASSUME NEW f \in Failure, ProposeLoad(w, f) PROVE Apart(w)
      BY <3>2 DEF Inv, TypeOK, ProposeLoad, GoTo, Apart
    <3>3. ASSUME NEW a \in Attempt, ApplyLoad(w, a) \/ VerifyLoad(w, a)
          PROVE  Apart(w) /\ pc'[w] \in {"git", "playwright"}
      BY <3>3 DEF Inv, TypeOK, ApplyLoad, VerifyLoad, GoTo, Apart
    <3>4. ASSUME NEW d \in hooks, WebhookReceive(w, d)
          PROVE  UNCHANGED workerVars \/ (Apart(w) /\ pc'[w] = "merge")
      BY <3>4 DEF Inv, TypeOK, WebhookReceive, GoTo, Apart, workerVars
    <3>5. QED
      BY <2>2, <3>1, <3>2, <3>3, <3>4 DEF Request
  <2>3. ASSUME NEW w \in Worker, WorkerStep(w) PROVE Apart(w) /\ pc'[w] # "quota"
    <3>1. Apart(w)
      BY <2>3
      DEF Inv, TypeOK, WorkerStep, ProposeQuota, ProposeClaim, InsertAttempt, CallLlm,
          FinalizeAttempt, ReleaseClaim, ApplyGit, RecordApply, RunPlaywright,
          RecordVerified, RecordVerifyFailed, SettleFailure, RecordMerged,
          RecordResolved, GoTo, Finish, Apart
    <3>2. QED
      BY <2>3, <3>1
      DEF Inv, TypeOK, WorkerStep, ProposeQuota, ProposeClaim, InsertAttempt, CallLlm,
          FinalizeAttempt, ReleaseClaim, ApplyGit, RecordApply, RunPlaywright,
          RecordVerified, RecordVerifyFailed, SettleFailure, RecordMerged,
          RecordResolved, GoTo, Finish
  <2>4. ASSUME NEW w \in Worker, Fault(w) PROVE Apart(w) /\ pc'[w] # "quota"
    BY <2>4 DEF Inv, TypeOK, Fault, WebhookError, Crash, RecordApplyError, Finish, Apart
  <2>5. CASE Environment
    BY <2>1, <2>5
    DEF Environment, UpsertFailure, MarkWontFix, ReopenFailure, UpsertConfig,
        WindowSlides, OpenPullRequest, MergePullRequest, Redeliver, MergeElsewhere
  <2>6. QED
    BY <1>3, <2>1, <2>2, <2>3, <2>4, <2>5 DEF Next, Apart, vars, QuotaInv
<1>4. ASSUME EnvDailyLimit > 0, NEW p \in Project PROVE Within(p)'
  <2>1. ASSUME NEW w \in Worker, ProposeQuota(w) PROVE Within(p)'
    BY <1>4, <2>1, PassWithin
  <2>2. ASSUME NEW w \in Worker, InsertAttempt(w) PROVE Within(p)'
    BY <1>4, <2>2, InsertWithin
  <2>3. CASE \A w \in Worker : ~InsertAttempt(w) /\ ~ProposeQuota(w)
    BY <1>4, <2>3, OthersShrink, ShrinkWithin DEF QuotaInv
  <2>4. QED
    BY <2>1, <2>2, <2>3
<1>5. QED
  BY <1>1, <1>2, <1>3, <1>4 DEF QuotaInv

\* However many proposals pass the daily gate together, they exceed the
\* ceiling by less than their number, as long as nobody moves the ceiling.
THEOREM OvershootIsBounded ==
    IsFiniteSet(Worker) /\ LimitStands => (Spec => []QuotaOvershootBounded)
<1>1. SUFFICES ASSUME IsFiniteSet(Worker), LimitStands PROVE Spec => []QuotaOvershootBounded
  OBVIOUS
<1>2. Inv /\ QuotaInv /\ [Next]_vars => QuotaInv'
  BY <1>1, QuotaInvKept
<1>3. Init => QuotaInv
  BY <1>1, InitQuotaInv
<1>4. QuotaInv => QuotaOvershootBounded
  <2>1. SUFFICES ASSUME QuotaInv, NEW p \in Project, EffectiveLimit(p) > 0
                 PROVE  Cardinality(RecentAttempts(p)) < EffectiveLimit(p) + Cardinality(Worker)
    BY DEF QuotaOvershootBounded
  <2>2. EffectiveLimit(p) = EnvDailyLimit
    BY <2>1 DEF QuotaInv, EffectiveLimit
  <2>3. QED
    BY <1>1, <2>1, <2>2, RecentFinite, PastFinite, ConstantsAssumption DEF QuotaInv, Within
<1>5. QED
  BY <1>2, <1>3, <1>4, InvHolds, PTL DEF Spec

(***************************************************************************)
(* The cron.                                                               *)
(***************************************************************************)

Ticks == [step : {"off", "lock", "find", "row", "propose", "apply",
                  "verify", "unlock"},
          rows : Seq(Failure),
          attempt : Attempt \cup {None}]

\* Where a tick is says which awaits its row can be suspended at, and a row
\* past its proposal works on the attempt the tick holds.
Stage(w) ==
    /\ tick[w].step \notin {"propose", "apply", "verify"} => pc[w] = "idle"
    /\ tick[w].step = "row" => tick[w].rows # <<>>
    /\ tick[w].step = "propose" => pc[w] \in Proposing
    /\ tick[w].step = "apply" => pc[w] \in Applying \cup {"idle"}
    /\ tick[w].step = "verify" => pc[w] \in Verifying \cup {"idle"}
    /\ tick[w].step \in {"apply", "verify"}
           => /\ Known(tick[w].attempt)
              /\ pc[w] # "idle" => job[w].attempt = tick[w].attempt

\* The strengthening that makes CronTypeOK inductive.
CronInv == Inv /\ CronTypeOK /\ \A w \in Pod : Stage(w)

\* What a step of w, or of no pod at all, does to the other pods.
PodsApart(w) ==
    \A v \in Pod \ {w} : tick'[v] = tick[v] /\ pc'[v] = pc[v] /\ job'[v] = job[v]

LEMMA PodsAreWorkers == Pod \subseteq Worker /\ None \notin Pod
BY CronAssumption

LEMMA CronTypes == CronTypeOK => tick \in [Pod -> Ticks]
BY DEF CronTypeOK, Ticks

LEMMA OffIsATick == Off \in Ticks
BY DEF Off, Ticks

LEMMA InitCronInv == CronInit => CronInv
<1> SUFFICES ASSUME CronInit PROVE CronInv
  OBVIOUS
<1>1. Inv /\ \A w \in Pod : pc[w] = "idle"
  BY InitInv, PodsAreWorkers DEF CronInit, Init
<1>2. CronTypeOK /\ \A w \in Pod : tick[w] = Off
  BY OffIsATick DEF CronInit, CronTypeOK, Ticks
<1>3. QED
  BY <1>1, <1>2 DEF CronInv, Stage, Off

\* What the other pods are doing survives.
LEMMA OtherPodsHold ==
    ASSUME CronInv, NEW w \in Pod, Steady, PodsApart(w), Stage(w)'
    PROVE  (\A v \in Pod : Stage(v))'
<1> SUFFICES ASSUME NEW v \in Pod \ {w}
             PROVE  Stage(v)'
  OBVIOUS
<1>1. Stage(v) /\ tick'[v] = tick[v] /\ pc'[v] = pc[v] /\ job'[v] = job[v]
  BY DEF CronInv, PodsApart
<1>2. \A a : Known(a) => Known(a)'
  BY DEF Steady, Known
<1>3. QED
  BY <1>1, <1>2 DEF Stage

\* A batch is a sequence of failures.
LEMMA BatchesAreRows == Batches \subseteq Seq(Failure)
<1>1. IsFiniteSet(Eligible)
  BY CronAssumption, ConstantsAssumption, FS_Subset DEF Eligible
<1>2. Cardinality(Eligible) \in Nat
  BY <1>1, FS_CardinalityType
<1>3. Eligible \subseteq Failure
  BY ConstantsAssumption DEF Eligible
<1>4. ASSUME NEW n \in Nat, NEW rows \in [1..n -> Eligible]
      PROVE  rows \in Seq(Failure)
  BY <1>3, <1>4, SeqDef
<1>5. QED
  BY <1>2, <1>4, CronAssumption DEF Batches

\* Going on to the next row, or to the finally block.
LEMMA NextRowHolds ==
    ASSUME CronInv, NEW w \in Pod, NEW rows \in Seq(Failure),
           NextRow(w, rows), pc'[w] = "idle"
    PROVE  /\ tick' \in [Pod -> Ticks]
           /\ Stage(w)'
           /\ \A v \in Pod \ {w} : tick'[v] = tick[v]
           /\ tick'[w].step \in {"row", "unlock"}
<1> DEFINE t == [Off EXCEPT !.rows = rows,
                            !.step = IF rows = <<>> THEN "unlock" ELSE "row"]
<1>1. /\ t \in Ticks
      /\ t.step \in {"row", "unlock"}
      /\ t.step = "row" => t.rows # <<>>
  BY OffIsATick DEF Ticks, Off
<1>2. tick' = [tick EXCEPT ![w] = t]
  BY DEF NextRow
<1> HIDE DEF t
<1>3. QED
  BY <1>1, <1>2, CronTypes DEF CronInv, Stage

\* Moving a tick along without touching its rows or its attempt.
LEMMA GoOnHolds ==
    ASSUME CronInv, NEW w \in Pod, pc'[w] = "idle",
           NEW step \in {"off", "lock", "find", "unlock"}, GoOn(w, step)
    PROVE  /\ tick' \in [Pod -> Ticks]
           /\ Stage(w)'
           /\ \A v \in Pod \ {w} : tick'[v] = tick[v]
           /\ tick'[w].step = step
<1>1. tick \in [Pod -> Ticks]
  BY CronTypes DEF CronInv
<1>2. [tick[w] EXCEPT !.step = step] \in Ticks
  BY <1>1 DEF Ticks
<1>3. QED
  BY <1>1, <1>2 DEF GoOn, Stage, Ticks

\* What a step of w may do for the invariant to survive it.
Moves(w) ==
    /\ [Next]_vars
    /\ tick' \in [Pod -> Ticks]
    /\ Stage(w)'
    /\ PodsApart(w)

LEMMA MovesKeep ==
    ASSUME CronInv, NEW w \in Pod, Moves(w),
           holder' \in Pod \cup {None}, lost' \subseteq Pod, leaked' \subseteq Pod
    PROVE  CronInv'
<1>1. Inv' /\ Steady
  BY NextInv, NextSteady DEF CronInv, Moves
<1>2. (\A v \in Pod : Stage(v))'
  BY <1>1, OtherPodsHold DEF Moves
<1>3. CronTypeOK'
  BY DEF Moves, CronTypeOK, Ticks
<1>4. QED
  BY <1>1, <1>2, <1>3 DEF CronInv

\* A step of AutoFix that is taken by w leaves the other workers alone.
LEMMA WorkersApart ==
    ASSUME Inv, NEW w \in Worker, Request(w) \/ WorkerStep(w) \/ Fault(w)
    PROVE  Apart(w)
<1>1. CASE Request(w)
  BY <1>1
  DEF Inv, TypeOK, Request, ProposeLoad, ApplyLoad, VerifyLoad,
      WebhookReceive, GoTo, workerVars, Apart
<1>2. CASE Fault(w)
  BY <1>2
  DEF Inv, TypeOK, Fault, RecordApplyError, WebhookError, Crash, Finish,
      Apart
<1>3. CASE WorkerStep(w)
  BY <1>3
  DEF Inv, TypeOK, WorkerStep, ProposeQuota, ProposeClaim, InsertAttempt,
      CallLlm, FinalizeAttempt, ReleaseClaim, ApplyGit, RecordApply,
      RunPlaywright, RecordVerified, RecordVerifyFailed, SettleFailure,
      RecordMerged, RecordResolved, GoTo, Finish, Apart
<1>4. QED
  BY <1>1, <1>2, <1>3

\* Only a request that is at an await steps.
LEMMA StepsAreAwaits ==
    ASSUME NEW w, WorkerStep(w)
    PROVE  pc[w] # "idle"
BY DEF WorkerStep, ProposeQuota, ProposeClaim, InsertAttempt, CallLlm,
       FinalizeAttempt, ReleaseClaim, ApplyGit, RecordApply, RunPlaywright,
       RecordVerified, RecordVerifyFailed, SettleFailure, RecordMerged,
       RecordResolved

\* The awaits of one stage lead to each other or end the stage.
LEMMA StagesClosed ==
    ASSUME Inv, NEW w \in Worker, WorkerStep(w)
    PROVE  /\ pc[w] \in Proposing => pc'[w] \in Proposing \cup {"idle"}
           /\ pc[w] \in Applying => pc'[w] \in Applying \cup {"idle"}
           /\ pc[w] \in Verifying => pc'[w] \in Verifying \cup {"idle"}
           /\ pc[w] \in Applying \cup Verifying /\ pc'[w] # "idle"
                  => job'[w].attempt = job[w].attempt
<1>1. CASE \/ ProposeQuota(w) \/ ProposeClaim(w) \/ InsertAttempt(w)
           \/ CallLlm(w) \/ FinalizeAttempt(w) \/ ReleaseClaim(w)
  BY <1>1
  DEF Inv, TypeOK, ProposeQuota, ProposeClaim, InsertAttempt, CallLlm,
      FinalizeAttempt, ReleaseClaim, GoTo, Finish, Proposing, Applying,
      Verifying
<1>2. CASE ApplyGit(w)
  <2>1. CASE Finish(w)
    BY <1>2, <2>1
    DEF Inv, TypeOK, ApplyGit, Finish, Proposing, Applying, Verifying
  <2>2. CASE \E outcome : job' = [job EXCEPT ![w].outcome = outcome]
    BY <1>2, <2>2
    DEF Inv, TypeOK, Job, ApplyGit, GoTo, Finish, Proposing, Applying,
        Verifying
  <2>3. QED
    BY <1>2, <2>1, <2>2 DEF ApplyGit
<1>3. CASE \/ RecordApply(w) \/ RunPlaywright(w) \/ RecordVerified(w)
           \/ RecordVerifyFailed(w) \/ SettleFailure(w)
  BY <1>3
  DEF Inv, TypeOK, RecordApply, RunPlaywright, RecordVerified,
      RecordVerifyFailed, SettleFailure, GoTo, Finish, Proposing, Applying,
      Verifying
<1>4. CASE RecordMerged(w) \/ RecordResolved(w)
  BY <1>4
  DEF RecordMerged, RecordResolved, Proposing, Applying, Verifying
<1>5. QED
  BY <1>1, <1>2, <1>3, <1>4 DEF WorkerStep
-----------------------------------------------------------------------------
(* One lemma per action of a tick *)

LEMMA QuietStep ==
    ASSUME UNCHANGED vars
    PROVE  UNCHANGED <<pc, job>> /\ [Next]_vars
BY DEF vars, workerVars

LEMMA FireMoves ==
    ASSUME CronInv, NEW w \in Pod, Fire(w)
    PROVE  Moves(w)
<1>1. pc'[w] = "idle"
  BY QuietStep DEF CronInv, Stage, Fire, Running
<1>2. QED
  BY <1>1, QuietStep, GoOnHolds DEF Fire, Moves, PodsApart

LEMMA TryLockMoves ==
    ASSUME CronInv, NEW w \in Pod, TryLock(w)
    PROVE  Moves(w)
<1>1. pc'[w] = "idle"
  BY QuietStep DEF CronInv, Stage, TryLock
<1>2. GoOn(w, "find") \/ GoOn(w, "off")
  BY DEF TryLock
<1>3. QED
  BY <1>1, <1>2, QuietStep, GoOnHolds DEF TryLock, Moves, PodsApart

LEMMA FindMoves ==
    ASSUME CronInv, NEW w \in Pod, Find(w)
    PROVE  Moves(w)
<1>1. pc'[w] = "idle"
  BY QuietStep DEF CronInv, Stage, Find
<1>2. GoOn(w, "unlock") \/ \E rows \in Seq(Failure) : NextRow(w, rows)
  BY BatchesAreRows DEF Find
<1>3. QED
  BY <1>1, <1>2, QuietStep, GoOnHolds, NextRowHolds
  DEF Find, Moves, PodsApart

LEMMA UnlockMoves ==
    ASSUME CronInv, NEW w \in Pod, Unlock(w)
    PROVE  Moves(w)
<1>1. pc'[w] = "idle"
  BY QuietStep DEF CronInv, Stage, Unlock
<1>2. tick' = [tick EXCEPT ![w] = Off] /\ Off.step = "off"
  BY DEF Unlock, Off
<1>3. tick' \in [Pod -> Ticks] /\ Stage(w)'
  BY <1>1, <1>2, CronTypes, OffIsATick DEF CronInv, Stage
<1>4. QED
  BY <1>2, <1>3, QuietStep, CronTypes DEF CronInv, Unlock, Moves, PodsApart

\* The rows of a tick that is about to start one.
LEMMA RowsLeft ==
    ASSUME CronInv, NEW w \in Pod
    PROVE  /\ tick[w].rows \in Seq(Failure)
           /\ tick[w].step = "row"
                  => /\ Head(tick[w].rows) \in Failure
                     /\ Tail(tick[w].rows) \in Seq(Failure)
<1>1. tick[w].rows \in Seq(Failure)
  BY CronTypes DEF CronInv, Ticks
<1>2. tick[w].step = "row" => tick[w].rows # <<>>
  BY DEF CronInv, Stage
<1>3. QED
  BY <1>1, <1>2

LEMMA StartRowMoves ==
    ASSUME CronInv, NEW w \in Pod, StartRow(w)
    PROVE  Moves(w)
<1> DEFINE f == Head(tick[w].rows)
           rest == Tail(tick[w].rows)
<1>1. f \in Failure /\ rest \in Seq(Failure) /\ tick \in [Pod -> Ticks]
  BY RowsLeft, CronTypes DEF StartRow, CronInv
<1>2. CASE /\ ProposeLoad(w, f)
           /\ tick' = [tick EXCEPT ![w].step = "propose", ![w].rows = rest]
  <2>1. Request(w) /\ Apart(w)
    BY <1>1, <1>2, WorkersApart, PodsAreWorkers DEF CronInv, Request
  <2>2. pc'[w] \in Proposing
    BY <1>2, PodsAreWorkers
    DEF CronInv, Inv, TypeOK, ProposeLoad, GoTo, Proposing
  <2>3. tick' \in [Pod -> Ticks] /\ tick'[w].step = "propose"
    BY <1>1, <1>2 DEF Ticks
  <2>4. QED
    BY <1>2, <2>1, <2>2, <2>3, PodsAreWorkers
    DEF Moves, Stage, PodsApart, Apart, Next
<1>3. CASE NextRow(w, rest) /\ UNCHANGED vars
  <2>1. pc'[w] = "idle"
    BY <1>3, QuietStep DEF CronInv, Stage, StartRow
  <2>2. QED
    BY <1>1, <1>3, <2>1, QuietStep, NextRowHolds DEF Moves, PodsApart
<1>4. QED
  BY <1>2, <1>3 DEF StartRow

\* Starting apply, or verify, on the attempt in hand.
LEMMA StartApplyMoves ==
    ASSUME CronInv, NEW w \in Pod, StartApply(w)
    PROVE  Moves(w)
<1> DEFINE a == tick[w].attempt
<1>1. a \in Attempt /\ Known(a) /\ tick \in [Pod -> Ticks]
  BY CronTypes DEF StartApply, CronInv, Stage, Known
<1>2. CASE ApplyLoad(w, a) /\ UNCHANGED tick
  <2>1. Request(w) /\ Apart(w)
    BY <1>1, <1>2, WorkersApart, PodsAreWorkers DEF CronInv, Request
  <2>2. /\ pc'[w] = "git"
        /\ job'[w].attempt = a
        /\ status' = status
    BY <1>2, PodsAreWorkers
    DEF CronInv, Inv, TypeOK, ApplyLoad, GoTo, Idle, attemptVars
  <2>3. Stage(w)'
    BY <1>1, <1>2, <2>2 DEF StartApply, Stage, Known, Applying
  <2>4. QED
    BY <1>1, <1>2, <2>1, <2>3, PodsAreWorkers DEF Moves, PodsApart, Apart, Next
<1>3. CASE NextRow(w, tick[w].rows) /\ UNCHANGED vars
  BY <1>3, QuietStep, NextRowHolds, RowsLeft DEF StartApply, Moves, PodsApart
<1>4. QED
  BY <1>2, <1>3 DEF StartApply

LEMMA StartVerifyMoves ==
    ASSUME CronInv, NEW w \in Pod, StartVerify(w)
    PROVE  Moves(w)
<1> DEFINE a == tick[w].attempt
<1>1. a \in Attempt /\ Known(a) /\ tick \in [Pod -> Ticks]
  BY CronTypes DEF StartVerify, CronInv, Stage, Known
<1>2. CASE VerifyLoad(w, a) /\ UNCHANGED tick
  <2>1. Request(w) /\ Apart(w)
    BY <1>1, <1>2, WorkersApart, PodsAreWorkers DEF CronInv, Request
  <2>2. /\ pc'[w] = "playwright"
        /\ job'[w].attempt = a
        /\ status' = status
    BY <1>2, PodsAreWorkers
    DEF CronInv, Inv, TypeOK, VerifyLoad, GoTo, Idle, attemptVars
  <2>3. Stage(w)'
    BY <1>1, <1>2, <2>2 DEF StartVerify, Stage, Known, Verifying
  <2>4. QED
    BY <1>1, <1>2, <2>1, <2>3, PodsAreWorkers DEF Moves, PodsApart, Apart, Next
<1>3. CASE NextRow(w, tick[w].rows) /\ UNCHANGED vars
  BY <1>3, QuietStep, NextRowHolds, RowsLeft DEF StartVerify, Moves, PodsApart
<1>4. QED
  BY <1>2, <1>3 DEF StartVerify

\* A row that is at an await is in the stage that await belongs to.
LEMMA RowIsInStage ==
    ASSUME CronInv, NEW w \in Pod, pc[w] # "idle"
    PROVE  \/ tick[w].step = "propose" /\ pc[w] \in Proposing
           \/ tick[w].step = "apply" /\ pc[w] \in Applying
           \/ tick[w].step = "verify" /\ pc[w] \in Verifying
BY DEF CronInv, Stage

LEMMA RowStepMoves ==
    ASSUME CronInv, NEW w \in Pod, RowStep(w)
    PROVE  Moves(w)
<1>1. /\ WorkerStep(w) /\ Apart(w) /\ [Next]_vars /\ Steady
      /\ pc[w] # "idle"
  <2>1. WorkerStep(w) /\ [Next]_vars
    BY PodsAreWorkers DEF RowStep, Next
  <2>2. pc[w] # "idle"
    BY <2>1, StepsAreAwaits
  <2>3. QED
    BY <2>1, <2>2, WorkersApart, NextSteady, PodsAreWorkers DEF CronInv
<1>2. tick \in [Pod -> Ticks]
  BY CronTypes DEF CronInv
<1>3. \A a : Known(a) => Known(a)'
  BY <1>1 DEF Steady, Known
<1>4. CASE pc'[w] # "idle" /\ UNCHANGED tick
  <2>1. Stage(w)'
    BY <1>1, <1>3, <1>4, RowIsInStage, StagesClosed, PodsAreWorkers
    DEF CronInv, Stage, Proposing, Applying, Verifying
  <2>2. QED
    BY <1>1, <1>2, <1>4, <2>1, PodsAreWorkers DEF Moves, PodsApart, Apart
<1>5. CASE /\ pc'[w] = "idle"
           /\ pc[w] = "finalize"
           /\ tick' = [tick EXCEPT ![w].step = "apply",
                                   ![w].attempt = job[w].attempt]
  <2>1. Known(job[w].attempt)
    BY <1>5, PodsAreWorkers DEF CronInv, Inv, Holds
  <2>2. /\ tick' \in [Pod -> Ticks]
        /\ tick'[w].step = "apply"
        /\ tick'[w].attempt = job[w].attempt
        /\ \A v \in Pod \ {w} : tick'[v] = tick[v]
    BY <1>2, <1>5, <2>1 DEF Ticks, Known
  <2>3. Stage(w)'
    BY <1>3, <1>5, <2>1, <2>2 DEF Stage
  <2>4. QED
    BY <1>1, <2>2, <2>3, PodsAreWorkers DEF Moves, PodsApart, Apart
<1>6. CASE pc'[w] = "idle" /\ pc[w] = "recordApply" /\ GoOn(w, "verify")
  <2>1. tick[w].step = "apply" /\ Known(tick[w].attempt)
    BY <1>6, RowIsInStage DEF CronInv, Stage, Proposing, Applying, Verifying
  <2>2. /\ tick' \in [Pod -> Ticks]
        /\ tick'[w].step = "verify"
        /\ tick'[w].attempt = tick[w].attempt
        /\ \A v \in Pod \ {w} : tick'[v] = tick[v]
    BY <1>2, <1>6 DEF GoOn, Ticks
  <2>3. Stage(w)'
    BY <1>3, <1>6, <2>1, <2>2 DEF Stage
  <2>4. QED
    BY <1>1, <2>2, <2>3, PodsAreWorkers DEF Moves, PodsApart, Apart
<1>7. CASE pc'[w] = "idle" /\ NextRow(w, tick[w].rows)
  BY <1>1, <1>7, RowsLeft, NextRowHolds, PodsAreWorkers
  DEF Moves, PodsApart, Apart
<1>8. QED
  BY <1>4, <1>5, <1>6, <1>7 DEF RowStep

LEMMA RowErrorMoves ==
    ASSUME CronInv, NEW w \in Pod, RowError(w)
    PROVE  Moves(w)
<1>1. Fault(w) /\ Apart(w) /\ [Next]_vars /\ Steady
  BY WorkersApart, NextSteady, PodsAreWorkers
  DEF CronInv, RowError, Fault, Next
<1>2. CASE RecordApplyError(w) /\ UNCHANGED tick
  <2>1. /\ pc[w] = "recordApply"
        /\ pc' = pc
        /\ job'[w].attempt = job[w].attempt
    BY <1>2, PodsAreWorkers DEF CronInv, Inv, TypeOK, Job, RecordApplyError
  <2>2. Stage(w)'
    BY <1>1, <1>2, <2>1 DEF CronInv, Stage, Steady, Known
  <2>3. QED
    BY <1>1, <1>2, <2>2, CronTypes, PodsAreWorkers
    DEF CronInv, Moves, PodsApart, Apart
<1>3. CASE Crash(w) /\ NextRow(w, tick[w].rows)
  <2>1. pc'[w] = "idle"
    BY <1>3, PodsAreWorkers DEF CronInv, Inv, TypeOK, Crash, Finish
  <2>2. QED
    BY <1>1, <1>3, <2>1, RowsLeft, NextRowHolds, PodsAreWorkers
    DEF Moves, PodsApart, Apart
<1>4. QED
  BY <1>2, <1>3 DEF RowError

LEMMA PodDiesMoves ==
    ASSUME CronInv, NEW w \in Pod, PodDies(w)
    PROVE  Moves(w)
<1>1. /\ [Next]_vars
      /\ pc'[w] = "idle"
      /\ \A v \in Pod \ {w} : pc'[v] = pc[v] /\ job'[v] = job[v]
  <2>1. CASE pc[w] = "idle"
    BY <2>1, QuietStep DEF PodDies
  <2>2. CASE pc[w] # "idle"
    <3>1. Crash(w)
      BY <2>2 DEF PodDies
    <3>2. Fault(w) /\ Apart(w)
      BY <3>1, WorkersApart, PodsAreWorkers DEF CronInv, Fault
    <3>3. pc'[w] = "idle"
      BY <3>1, PodsAreWorkers DEF CronInv, Inv, TypeOK, Crash, Finish
    <3>4. QED
      BY <3>2, <3>3, PodsAreWorkers DEF Apart, Next
  <2>3. QED
    BY <2>1, <2>2
<1>2. tick' = [tick EXCEPT ![w] = Off] /\ Off.step = "off"
  BY DEF PodDies, Off
<1>3. tick' \in [Pod -> Ticks] /\ Stage(w)'
  BY <1>1, <1>2, CronTypes, OffIsATick DEF CronInv, Stage
<1>4. QED
  BY <1>1, <1>2, <1>3, CronTypes DEF CronInv, Moves, PodsApart

LEMMA SessionDropsMoves ==
    ASSUME CronInv, NEW w \in Pod, SessionDrops(w)
    PROVE  Moves(w)
<1>1. UNCHANGED <<tick, pc, job, status>> /\ [Next]_vars
  BY QuietStep DEF SessionDrops, vars, attemptVars
<1>2. Stage(w)'
  BY <1>1 DEF CronInv, Stage, Known
<1>3. QED
  BY <1>1, <1>2, CronTypes DEF CronInv, Moves, PodsApart

\* Requests that are not ticks leave the ticks alone.
LEMMA OthersMove ==
    ASSUME CronInv, Others
    PROVE  [Next]_vars /\ CronInv' /\ UNCHANGED <<tick, holder, lost, leaked>>
           /\ \A v \in Pod : pc'[v] = pc[v] /\ job'[v] = job[v]
<1>1. [Next]_vars /\ UNCHANGED <<tick, holder, lost, leaked>>
  BY DEF Others, Next, cronVars
<1>2. Inv' /\ Steady
  BY <1>1, NextInv, NextSteady DEF CronInv
<1>3. \A v \in Pod : pc'[v] = pc[v] /\ job'[v] = job[v]
  <2>1. CASE Environment
    BY <2>1
    DEF Environment, UpsertFailure, MarkWontFix, ReopenFailure, UpsertConfig,
        WindowSlides, OpenPullRequest, MergePullRequest, Redeliver,
        MergeElsewhere, workerVars
  <2>2. CASE \E w \in Worker \ Pod : Request(w) \/ WorkerStep(w) \/ Fault(w)
    BY <2>2, WorkersApart, PodsAreWorkers DEF CronInv, Apart
  <2>3. QED
    BY <2>1, <2>2 DEF Others
<1>4. (\A v \in Pod : Stage(v))'
  BY <1>1, <1>2, <1>3 DEF CronInv, Stage, Steady, Known
<1>5. QED
  BY <1>1, <1>2, <1>3, <1>4 DEF CronInv, CronTypeOK

\* A step of the cron is a step of one pod, or of none.
PodMoves(w) ==
    Fire(w) \/ PodStep(w) \/ RowError(w) \/ PodDies(w) \/ SessionDrops(w)

LEMMA EveryPodMoves ==
    ASSUME CronInv, NEW w \in Pod, PodMoves(w)
    PROVE  Moves(w) /\ CronInv'
<1>1. Moves(w)
  BY FireMoves, TryLockMoves, FindMoves, StartRowMoves, StartApplyMoves,
     StartVerifyMoves, RowStepMoves, UnlockMoves, RowErrorMoves, PodDiesMoves,
     SessionDropsMoves
  DEF PodMoves, PodStep
<1>2. holder' \in Pod \cup {None} /\ lost' \subseteq Pod /\ leaked' \subseteq Pod
  BY DEF CronInv, CronTypeOK, PodMoves, PodStep, Fire, TryLock, Find,
         StartRow, StartApply, StartVerify, RowStep, Unlock, RowError, PodDies,
         SessionDrops
<1>3. QED
  BY <1>1, <1>2, MovesKeep

LEMMA CronNextInv ==
    ASSUME CronInv, [CronNext]_cronAll
    PROVE  CronInv' /\ [Next]_vars
<1>1. ASSUME NEW w \in Pod, PodMoves(w)
      PROVE  CronInv' /\ [Next]_vars
  BY <1>1, EveryPodMoves DEF Moves
<1>2. CASE UNCHANGED cronAll
  <2>1. UNCHANGED <<tick, holder, lost, leaked, pc, job, status>> /\ [Next]_vars
    BY <1>2, QuietStep DEF cronAll, cronVars, vars, attemptVars
  <2>2. Inv'
    BY <2>1, NextInv DEF CronInv
  <2>3. QED
    BY <2>1, <2>2 DEF CronInv, CronTypeOK, Stage, Known
<1>3. QED
  BY <1>1, <1>2, OthersMove DEF CronNext, PodMoves

\* The cron's own variables stay well typed: ticks, batches, the lock.
THEOREM CronTypeCorrect == CronSpec => []CronTypeOK
<1>1. CronInv => CronTypeOK
  BY DEF CronInv
<1>2. QED
  BY <1>1, InitCronInv, CronNextInv, PTL DEF CronSpec

\* Every step of the cron is a step of AutoFix or leaves its rows alone, so
\* what is proved of AutoFix holds of the cron.
THEOREM CronIsAutoFix == CronSpec => Spec
<1>1. CronInit => Init
  BY DEF CronInit
<1>2. QED
  BY <1>1, InitCronInv, CronNextInv, PTL DEF CronSpec, Spec
-----------------------------------------------------------------------------
(* The cluster lock *)

\* A session that holds the lock is of a tick that is past the gate, or lies
\* in the pool; a tick that is past the gate has the lock's session, or has
\* lost it, and not both.
LockInv ==
    /\ LockIsBacked
    /\ lost \subseteq Inside
    /\ holder \notin lost
    /\ \A w \in Inside : w = holder \/ w \in lost

\* The steps of a tick past the gate that touch neither lock nor gate.
LEMMA StaysInside ==
    ASSUME CronInv, NEW w \in Pod,
           \/ Find(w) \/ StartRow(w) \/ StartApply(w) \/ StartVerify(w)
           \/ RowStep(w) \/ RowError(w)
    PROVE  w \in Inside /\ Inside' = Inside /\ UNCHANGED <<holder, lost, leaked>>
<1>1. tick \in [Pod -> Ticks]
  BY CronTypes DEF CronInv
<1>2. \A v \in Pod \ {w} : tick'[v] = tick[v]
  BY FindMoves, StartRowMoves, StartApplyMoves, StartVerifyMoves, RowStepMoves,
     RowErrorMoves
  DEF Moves, PodsApart
<1>3. w \in Inside /\ tick'[w].step \notin {"off", "lock"}
  <2>1. CASE Find(w)
    <3>1. tick[w].step = "find"
          /\ (GoOn(w, "unlock") \/ \E rows : NextRow(w, rows))
      BY <2>1 DEF Find
    <3>2. w \in Inside
      BY <3>1 DEF Inside
    <3>3. CASE GoOn(w, "unlock")
      BY <1>1, <3>2, <3>3 DEF GoOn, Ticks
    <3>4. CASE \E rows : NextRow(w, rows)
      BY <1>1, <3>2, <3>4 DEF NextRow, Off
    <3>5. QED
      BY <3>1, <3>3, <3>4, <3>2
  <2>2. CASE StartRow(w)
    BY <1>1, <2>2 DEF StartRow, NextRow, Inside, Off, Ticks
  <2>3. CASE StartApply(w) \/ StartVerify(w)
    BY <1>1, <2>3 DEF StartApply, StartVerify, NextRow, Inside, Off, Ticks
  <2>4. CASE RowStep(w) \/ RowError(w)
    <3>1. pc[w] # "idle"
      BY <2>4, StepsAreAwaits DEF RowStep, RowError, RecordApplyError, Crash
    <3>2. w \in Inside
      BY <3>1, RowIsInStage DEF Inside
    <3>3. CASE UNCHANGED tick
      BY <3>2, <3>3 DEF Inside
    <3>4. CASE \/ tick' = [tick EXCEPT ![w].step = "apply",
                                       ![w].attempt = job[w].attempt]
               \/ GoOn(w, "verify")
      BY <1>1, <3>2, <3>4 DEF GoOn, Ticks
    <3>5. CASE NextRow(w, tick[w].rows)
      BY <1>1, <3>2, <3>5 DEF NextRow, Off
    <3>6. QED
      BY <2>4, <3>2, <3>3, <3>4, <3>5 DEF RowStep, RowError
  <2>5. QED
    BY <2>1, <2>2, <2>3, <2>4
<1>4. QED
  BY <1>2, <1>3
  DEF Inside, Find, StartRow, StartApply, StartVerify, RowStep, RowError

LEMMA LockInvKept ==
    ASSUME CronInv, LockInv, [CronNext]_cronAll
    PROVE  LockInv'
<1>1. tick \in [Pod -> Ticks] /\ None \notin Pod
  BY CronTypes, PodsAreWorkers DEF CronInv
<1>2. ASSUME NEW w \in Pod, Fire(w)
      PROVE  LockInv'
  <2>1. Inside' = Inside
    BY <1>1, <1>2 DEF Fire, Running, GoOn, Inside, Ticks
  <2>2. QED
    BY <1>2, <2>1 DEF Fire, LockInv, LockIsBacked
<1>3. ASSUME NEW w \in Pod, TryLock(w)
      PROVE  LockInv'
  <2>1. w \notin Inside /\ w \notin lost
    BY <1>3 DEF TryLock, Inside, LockInv
  <2>2. CASE holder \in {None, w} /\ holder' = w /\ GoOn(w, "find")
    <3>1. Inside' = Inside \cup {w}
      BY <1>1, <2>2 DEF GoOn, Inside, Ticks
    <3>2. QED
      BY <1>1, <1>3, <2>1, <2>2, <3>1 DEF TryLock, LockInv, LockIsBacked, Inside
  <2>3. CASE GoOn(w, "off") /\ UNCHANGED holder
    <3>1. Inside' = Inside
      BY <1>1, <2>1, <2>3 DEF GoOn, Inside, Ticks
    <3>2. QED
      BY <1>3, <2>3, <3>1 DEF TryLock, LockInv, LockIsBacked
  <2>4. QED
    BY <1>3, <2>2, <2>3 DEF TryLock
<1>4. ASSUME NEW w \in Pod,
             \/ Find(w) \/ StartRow(w) \/ StartApply(w) \/ StartVerify(w)
             \/ RowStep(w) \/ RowError(w)
      PROVE  LockInv'
  BY <1>4, StaysInside DEF LockInv, LockIsBacked
<1>5. ASSUME NEW w \in Pod, Unlock(w) \/ PodDies(w)
      PROVE  LockInv'
  <2>1. tick' = [tick EXCEPT ![w] = Off] /\ lost' = lost \ {w}
    BY <1>5 DEF Unlock, PodDies
  <2>2. Inside' = Inside \ {w}
    BY <1>1, <2>1 DEF Inside, Off
  <2>3. lost' \subseteq Inside'
    BY <2>1, <2>2 DEF LockInv
  <2>4. CASE holder = w /\ leaked' = leaked \cup {w} /\ UNCHANGED holder
    <3>1. w \in Unreliable \cup leaked
      BY <1>5, <2>4 DEF Unlock, PodDies, LockInv, LockIsBacked
    <3>2. QED
      BY <1>1, <2>1, <2>2, <2>3, <2>4, <3>1 DEF LockInv, LockIsBacked
  <2>5. CASE /\ holder' = IF holder = w THEN None ELSE holder
             /\ leaked' = leaked \ {w}
    <3>1. holder # w => leaked \subseteq {holder} \ {w}
      BY DEF LockInv, LockIsBacked
    <3>2. holder = w => leaked' = {} /\ holder' = None
      BY <2>5 DEF LockInv, LockIsBacked
    <3>3. LockIsBacked'
      BY <1>1, <2>2, <2>5, <3>1, <3>2 DEF LockInv, LockIsBacked
    <3>4. holder' \notin lost'
      BY <1>1, <2>1, <2>5 DEF LockInv, CronInv, CronTypeOK
    <3>5. \A v \in Inside' : v = holder' \/ v \in lost'
      BY <2>1, <2>2, <2>5 DEF LockInv
    <3>6. QED
      BY <2>3, <3>3, <3>4, <3>5 DEF LockInv
  <2>6. Unlock(w) => \/ holder = w /\ leaked' = leaked \cup {w} /\ UNCHANGED holder
                    \/ /\ holder' = IF holder = w THEN None ELSE holder
                       /\ leaked' = leaked \ {w}
    BY DEF Unlock
  <2>7. QED
    BY <1>5, <2>4, <2>5, <2>6 DEF PodDies
<1>6. ASSUME NEW w \in Pod, SessionDrops(w)
      PROVE  LockInv'
  <2>1. Inside' = Inside
    BY <1>6 DEF SessionDrops, Inside
  <2>2. leaked' = {} /\ holder' = None /\ holder = w
    BY <1>6 DEF SessionDrops, LockInv, LockIsBacked
  <2>3. LockIsBacked'
    BY <2>2 DEF LockIsBacked
  <2>4. /\ lost' \subseteq Inside'
        /\ \A v \in Inside' : v = holder' \/ v \in lost'
    BY <1>6, <2>1, <2>2 DEF SessionDrops, LockInv
  <2>5. holder' \notin lost'
    BY <1>1, <2>2, <2>4 DEF Inside
  <2>6. QED
    BY <2>3, <2>4, <2>5 DEF LockInv
<1>7. CASE UNCHANGED <<tick, holder, lost, leaked>>
  BY <1>7 DEF LockInv, LockIsBacked, Inside
<1>8. Others \/ UNCHANGED cronAll => UNCHANGED <<tick, holder, lost, leaked>>
  BY DEF Others, cronAll, cronVars
<1>9. QED
  BY <1>2, <1>3, <1>4, <1>5, <1>6, <1>7, <1>8 DEF CronNext, PodStep

LEMMA InitLockInv == CronInit => LockInv
BY DEF CronInit, LockInv, LockIsBacked, Inside, Off

THEOREM LockInvHolds == CronSpec => []LockInv
BY InitCronInv, CronNextInv, InitLockInv, LockInvKept, PTL DEF CronSpec

\* The advisory lock outlives the tick that took it only on a session that
\* a failed unlock put back into the pool of its pod.
THEOREM LockAlwaysBacked == CronSpec => []LockIsBacked
<1>1. LockInv => LockIsBacked
  BY DEF LockInv
<1>2. QED
  BY <1>1, LockInvHolds, PTL

\* Two ticks are past the gate together only if one has lost its session.
THEOREM TicksExclude == CronSpec => []OneTickPerSession
<1>1. LockInv => OneTickPerSession
  BY DEF LockInv, OneTickPerSession
<1>2. QED
  BY <1>1, LockInvHolds, PTL

\* The cluster lock does both: it keeps ticks apart, and it is left behind by
\* nothing but a failed unlock.
THEOREM ClusterLock == CronSpec => []ClusterLockHolds
<1>1. LockIsBacked /\ OneTickPerSession => ClusterLockHolds
  BY DEF ClusterLockHolds
<1>2. QED
  BY <1>1, LockAlwaysBacked, TicksExclude, PTL
-----------------------------------------------------------------------------
(* One tick per attempt *)

\* The attempt a tick is working on: what its stage holds, or what its
\* proposal has just inserted.
InHand(w) ==
    IF tick[w].step \in {"apply", "verify"} THEN {tick[w].attempt}
    ELSE IF pc[w] \in {"llm", "finalize"} THEN {job[w].attempt}
    ELSE {}

HandsApart ==
    \A v, w \in Pod : v # w => InHand(v) \cap InHand(w) = {}

LEMMA InHandKnown ==
    ASSUME CronInv, NEW w \in Pod, NEW a \in InHand(w)
    PROVE  Known(a)
BY PodsAreWorkers DEF CronInv, Stage, Inv, Holds, InHand

\* A step of w keeps what w had in hand, lets it go, or takes a new row.
LEMMA HandsKept ==
    ASSUME CronInv, NEW w \in Pod, PodMoves(w), NEW a \in InHand(w)'
    PROVE  a \in InHand(w) \/ a \in Unused
<1>1. tick \in [Pod -> Ticks] /\ Stage(w) /\ w \in Worker
  BY CronTypes, PodsAreWorkers DEF CronInv
<1>2. CASE Fire(w) \/ TryLock(w) \/ Find(w) \/ Unlock(w)
  <2>1. pc'[w] = "idle"
    BY <1>1, <1>2, QuietStep DEF Fire, TryLock, Find, Unlock, Running, Stage
  <2>2. tick'[w].step \notin {"apply", "verify"}
    <3>1. CASE \E rows : NextRow(w, rows)
      BY <1>1, <3>1 DEF NextRow, Off
    <3>2. CASE \E step \in {"off", "lock", "find", "unlock"} : GoOn(w, step)
      BY <1>1, <3>2 DEF GoOn, Ticks
    <3>3. CASE Unlock(w)
      BY <1>1, <3>3 DEF Unlock, Off
    <3>4. QED
      BY <1>2, <3>1, <3>2, <3>3 DEF Fire, TryLock, Find
  <2>3. QED
    BY <2>1, <2>2 DEF InHand
<1>3. CASE SessionDrops(w)
  BY <1>3, QuietStep DEF SessionDrops, InHand
<1>4. CASE StartRow(w)
  <2>1. CASE /\ ProposeLoad(w, Head(tick[w].rows))
             /\ tick' = [tick EXCEPT ![w].step = "propose",
                                     ![w].rows = Tail(tick[w].rows)]
    <3>1. pc'[w] \in {"quota", "claim"}
      BY <1>1, <2>1 DEF CronInv, Inv, TypeOK, ProposeLoad, GoTo
    <3>2. tick'[w].step = "propose"
      BY <1>1, <2>1 DEF Ticks
    <3>3. QED
      BY <3>1, <3>2 DEF InHand
  <2>2. CASE NextRow(w, Tail(tick[w].rows)) /\ UNCHANGED vars
    <3>1. pc'[w] = "idle"
      BY <1>1, <1>4, <2>2, QuietStep DEF StartRow, Stage
    <3>2. tick'[w].step \in {"row", "unlock"}
      BY <1>1, <2>2 DEF NextRow, Off
    <3>3. QED
      BY <3>1, <3>2 DEF InHand
  <2>3. QED
    BY <1>4, <2>1, <2>2 DEF StartRow
<1>5. CASE StartApply(w) \/ StartVerify(w)
  <2>1. CASE UNCHANGED tick
    BY <1>5, <2>1 DEF StartApply, StartVerify, InHand
  <2>2. CASE NextRow(w, tick[w].rows) /\ UNCHANGED vars
    BY <1>1, <1>5, <2>2, QuietStep
    DEF StartApply, StartVerify, NextRow, Off, Ticks, InHand
  <2>3. QED
    BY <1>5, <2>1, <2>2 DEF StartApply, StartVerify
<1>6. CASE RowStep(w)
  <2>1. CASE pc[w] \notin Proposing
    <3>1. tick'[w].step \in {"apply", "verify"}
             => tick'[w].attempt = tick[w].attempt
                /\ tick[w].step \in {"apply", "verify"}
      BY <1>1, <1>6, <2>1, RowIsInStage
      DEF RowStep, GoOn, NextRow, Off, Ticks, Stage, Proposing
    <3>2. pc'[w] \notin {"llm", "finalize"}
      <4>1. WorkerStep(w) /\ pc[w] \in Applying \cup Verifying
        BY <1>6, <2>1, RowIsInStage, StepsAreAwaits DEF RowStep
      <4>2. pc'[w] \in Applying \cup Verifying \cup {"idle"}
        BY <1>1, <4>1, StagesClosed DEF CronInv
      <4>3. QED
        BY <4>2 DEF Applying, Verifying
    <3>3. QED
      BY <3>1, <3>2 DEF InHand
  <2>2. CASE pc[w] \in Proposing
    <3>1. tick[w].step = "propose"
      BY <1>1, <2>2 DEF Stage, Proposing, Applying, Verifying
    <3>2. CASE pc'[w] = "idle"
      BY <1>1, <1>6, <2>2, <3>1, <3>2
      DEF RowStep, GoOn, NextRow, Off, Ticks, InHand, Proposing
    <3>3. CASE pc'[w] # "idle"
      <4>1. tick' = tick
        BY <1>6, <3>3 DEF RowStep
      <4>2. pc'[w] \in {"llm", "finalize"} /\ a = job'[w].attempt
        BY <3>1, <4>1 DEF InHand
      <4>3. \/ InsertAttempt(w)
            \/ CallLlm(w) /\ pc[w] = "llm"
        BY <1>1, <1>6, <2>2, <4>2
        DEF CronInv, Inv, TypeOK, RowStep, WorkerStep, ProposeQuota,
            ProposeClaim, CallLlm, FinalizeAttempt, ReleaseClaim, ApplyGit,
            RecordApply, RunPlaywright, RecordVerified, RecordVerifyFailed,
            SettleFailure, RecordMerged, RecordResolved, GoTo, Finish
      <4>4. CASE InsertAttempt(w)
        BY <1>1, <4>2, <4>4 DEF CronInv, Inv, TypeOK, InsertAttempt, Job
      <4>5. CASE CallLlm(w) /\ pc[w] = "llm"
        BY <1>1, <3>1, <4>2, <4>5
        DEF CronInv, Inv, TypeOK, CallLlm, Job, InHand
      <4>6. QED
        BY <4>3, <4>4, <4>5
    <3>4. QED
      BY <3>2, <3>3
  <2>3. QED
    BY <2>1, <2>2
<1>7. CASE RowError(w)
  <2>1. CASE RecordApplyError(w) /\ UNCHANGED tick
    BY <1>1, <2>1, RowIsInStage
    DEF RecordApplyError, InHand, Proposing, Applying, Verifying
  <2>2. CASE Crash(w) /\ NextRow(w, tick[w].rows)
    BY <1>1, <2>2
    DEF CronInv, Inv, TypeOK, Crash, Finish, NextRow, Off, InHand
  <2>3. QED
    BY <1>7, <2>1, <2>2 DEF RowError
<1>8. CASE PodDies(w)
  <2>1. tick'[w].step = "off" /\ pc'[w] = "idle"
    <3>1. tick' = [tick EXCEPT ![w] = Off] /\ Stage(w)'
      BY <1>8, PodDiesMoves DEF PodDies, Moves
    <3>2. QED
      BY <1>1, <3>1 DEF Off, Stage
  <2>2. QED
    BY <2>1 DEF InHand
<1>9. QED
  BY <1>2, <1>3, <1>4, <1>5, <1>6, <1>7, <1>8 DEF PodMoves, PodStep

LEMMA HandsApartKept ==
    ASSUME CronInv, HandsApart, [CronNext]_cronAll
    PROVE  HandsApart'
<1>1. ASSUME NEW w \in Pod, PodMoves(w)
      PROVE  HandsApart'
  <2>1. \A v \in Pod \ {w} : InHand(v)' = InHand(v)
    BY <1>1, EveryPodMoves DEF Moves, PodsApart, InHand
  <2>2. \A a \in InHand(w)' : a \in InHand(w) \/ a \in Unused
    BY <1>1, HandsKept
  <2>3. \A v \in Pod : \A a \in InHand(v) : a \notin Unused
    BY InHandKnown DEF Known, Unused
  <2>4. ASSUME NEW v \in Pod \ {w}
        PROVE  InHand(v)' \cap InHand(w)' = {}
    BY <2>1, <2>2, <2>3 DEF HandsApart
  <2>5. QED
    BY <2>1, <2>4 DEF HandsApart
<1>2. CASE Others \/ UNCHANGED cronAll
  <2>1. \A v \in Pod : tick'[v] = tick[v] /\ pc'[v] = pc[v] /\ job'[v] = job[v]
    BY <1>2, OthersMove DEF cronAll, cronVars, vars, workerVars
  <2>2. \A v \in Pod : InHand(v)' = InHand(v)
    BY <2>1 DEF InHand
  <2>3. QED
    BY <2>2 DEF HandsApart
<1>3. QED
  BY <1>1, <1>2 DEF CronNext, PodMoves

LEMMA InitHandsApart == CronInit => HandsApart
BY PodsAreWorkers DEF CronInit, Init, HandsApart, InHand, Off

\* No attempt is ever verified by two ticks at once, with or without the
\* cluster lock: ids are fresh and a tick verifies what it proposed.
THEOREM VerifyOnce == CronSpec => []VerifiedOnce
<1>1. CronInv /\ HandsApart => VerifiedOnce
  <2> SUFFICES ASSUME CronInv, HandsApart,
                      NEW v \in Pod, NEW w \in Pod,
                      pc[v] \in Verifying, pc[w] \in Verifying,
                      job[v].attempt = job[w].attempt
               PROVE  v = w
    BY DEF VerifiedOnce
  <2>1. ASSUME NEW u \in Pod, pc[u] \in Verifying
        PROVE  InHand(u) = {job[u].attempt}
    BY <2>1 DEF CronInv, Stage, InHand, Proposing, Applying, Verifying
  <2>2. QED
    BY <2>1 DEF HandsApart
<1>2. QED
  BY <1>1, InitCronInv, CronNextInv, InitHandsApart, HandsApartKept, PTL
  DEF CronSpec
-----------------------------------------------------------------------------
(* The retry cap *)

\* Nobody but the ticks works on failures, and nobody moves the cap.
LeftToTheCron ==
    /\ Pod = Worker
    /\ OperatorRows = {}
    /\ \A c \in Configs : c.maxRetries = NoOverride

\* The tick that has the claim of f and has not settled it.
Charged(w, f) ==
    \/ pc[w] \in {"insert", "llm", "finalize", "release"} /\ job[w].failure = f
    \/ /\ tick[w].step \in {"apply", "verify"}
       /\ failureOf[tick[w].attempt] = f

\* f has failed its verification n times at most.
Tries(f, n) ==
    IsFiniteSet(VerifyFailures(f)) /\ Cardinality(VerifyFailures(f)) <= n

CapOf(f) ==
    /\ fixStatus[f] # "resolved"
    /\ Tries(f, EnvMaxRetries)
    /\ fixStatus[f] \in {"absent", "open"} => Tries(f, EnvMaxRetries - 1)

\* A claim that has not been settled has a try left.
Covered(w, f) ==
    Charged(w, f) => /\ fixStatus[f] = "fix_proposed"
                     /\ pc[w] # "settle" => Tries(f, EnvMaxRetries - 1)

\* A proposal is of the failure it was started for, and a tick that verifies
\* counts against the cap of the environment.
OnItsWay(w) ==
    /\ pc[w] \in {"llm", "finalize"} => failureOf[job[w].attempt] = job[w].failure
    /\ pc[w] \in Verifying => job[w].retries = EnvMaxRetries

\* Whatever is open has a try left, and each claim is in the hands of one tick.
CapInv ==
    /\ \A p \in Project : config[p].maxRetries = NoOverride
    /\ \A f \in Failure : CapOf(f)
    /\ \A w \in Pod : /\ \A f \in Failure : Covered(w, f)
                      /\ OnItsWay(w)
    /\ \A f \in Failure : \A v, w \in Pod : Charged(v, f) /\ Charged(w, f) => v = w

LEMMA TriesShrink ==
    ASSUME NEW f, NEW n \in Int, Tries(f, n),
           VerifyFailures(f)' \subseteq VerifyFailures(f)
    PROVE  Tries(f, n)'
<1>1. PICK S : S = VerifyFailures(f)
  OBVIOUS
<1>2. PICK T : T = VerifyFailures(f)'
  OBVIOUS
<1>3. IsFiniteSet(S) /\ Cardinality(S) <= n /\ T \in SUBSET S
  BY <1>1, <1>2 DEF Tries
<1>4. /\ IsFiniteSet(T) /\ Cardinality(T) <= Cardinality(S)
      /\ Cardinality(S) \in Nat /\ Cardinality(T) \in Nat
  BY <1>3, FS_Subset, FS_CardinalityType
<1>5. IsFiniteSet(T) /\ Cardinality(T) <= n
  BY <1>3, <1>4
<1>6. QED
  BY <1>2, <1>5 DEF Tries

LEMMA TriesGrow ==
    ASSUME NEW f, NEW a, NEW n \in Int, Tries(f, n - 1),
           VerifyFailures(f)' \subseteq VerifyFailures(f) \cup {a}
    PROVE  Tries(f, n)'
<1>1. PICK S : S = VerifyFailures(f)
  OBVIOUS
<1>2. PICK T : T = VerifyFailures(f)'
  OBVIOUS
<1>3. IsFiniteSet(S) /\ Cardinality(S) <= n - 1 /\ T \in SUBSET (S \cup {a})
  BY <1>1, <1>2 DEF Tries
<1>4. PICK U : U = S \cup {a}
  OBVIOUS
<1>5. IsFiniteSet(U) /\ Cardinality(S) \in Nat
      /\ Cardinality(U) \in {Cardinality(S), Cardinality(S) + 1}
  BY <1>3, <1>4, FS_AddElement, FS_CardinalityType
<1>6. /\ IsFiniteSet(T) /\ Cardinality(T) <= Cardinality(U)
      /\ Cardinality(T) \in Nat
  BY <1>3, <1>4, <1>5, FS_Subset, FS_CardinalityType
<1>7. IsFiniteSet(T) /\ Cardinality(T) <= n
  BY <1>3, <1>5, <1>6
<1>8. QED
  BY <1>2, <1>7 DEF Tries

\* What w is charged with is in the hand that its await says.
LEMMA ChargedAt ==
    ASSUME CronInv, NEW w \in Pod, NEW f \in Failure
    PROVE  /\ pc[w] \in {"insert", "llm", "finalize", "release"}
                  => (Charged(w, f) <=> job[w].failure = f)
           /\ pc[w] \in {"quota", "claim"} => ~Charged(w, f)
           /\ pc[w] \in Verifying => (Charged(w, f) <=> job[w].failure = f)
           /\ pc[w] \in Verifying => job[w].failure = failureOf[job[w].attempt]
           /\ pc[w] \in Applying \cup Verifying
                  => (Charged(w, f) <=> failureOf[job[w].attempt] = f)
<1>1. Stage(w) /\ Holds(w)
  BY PodsAreWorkers DEF CronInv, Inv
<1>2. QED
  BY <1>1 DEF Stage, Holds, Charged, Proposing, Applying, Verifying

\* A step of w leaves the charges of the others where they are.
LEMMA OthersCharged ==
    ASSUME CronInv, NEW w \in Pod, Moves(w), NEW v \in Pod \ {w},
           NEW f \in Failure
    PROVE  (Charged(v, f)' <=> Charged(v, f)) /\ pc'[v] = pc[v]
<1>1. tick'[v] = tick[v] /\ pc'[v] = pc[v] /\ job'[v] = job[v]
  BY DEF Moves, PodsApart
<1>2. Steady /\ Stage(v)
  BY NextSteady DEF CronInv, Moves
<1>3. tick[v].step \in {"apply", "verify"}
         => failureOf'[tick[v].attempt] = failureOf[tick[v].attempt]
  BY <1>2 DEF Stage, Steady, Known
<1>4. QED
  BY <1>1, <1>3 DEF Charged

LEMMA OthersOnTheirWay ==
    ASSUME CronInv, CapInv, NEW w \in Pod, Moves(w), OnItsWay(w)'
    PROVE  \A v \in Pod : OnItsWay(v)'
<1> SUFFICES ASSUME NEW v \in Pod \ {w}
             PROVE  OnItsWay(v)'
  OBVIOUS
<1>1. pc'[v] = pc[v] /\ job'[v] = job[v]
  BY DEF Moves, PodsApart
<1>2. Steady /\ Holds(v) /\ OnItsWay(v)
  BY NextSteady, PodsAreWorkers DEF CronInv, Moves, Inv, CapInv
<1>3. pc[v] \in {"llm", "finalize"}
         => failureOf'[job[v].attempt] = failureOf[job[v].attempt]
  BY <1>2 DEF Holds, Steady, Known
<1>4. QED
  BY <1>1, <1>2, <1>3 DEF OnItsWay

\* A step that moves no row, adds no failed verification and takes no charge.
Tame(w) ==
    \A f \in Failure :
        /\ fixStatus'[f] = fixStatus[f]
        /\ VerifyFailures(f)' \subseteq VerifyFailures(f)
        /\ Charged(w, f)' => Charged(w, f) /\ pc[w] # "settle"

Sole == \A f \in Failure : \A v, w \in Pod : Charged(v, f) /\ Charged(w, f) => v = w

\* What is left to say when the others are as they were.
LEMMA SoleKept ==
    ASSUME CronInv, CapInv, NEW w \in Pod, Moves(w),
           \A f \in Failure : Charged(w, f)'
               => \A v \in Pod \ {w} : ~Charged(v, f)
    PROVE  Sole'
<1> SUFFICES ASSUME NEW f \in Failure, NEW u \in Pod, NEW v \in Pod,
                    Charged(u, f)', Charged(v, f)'
             PROVE  u = v
  BY DEF Sole
<1>1. CASE u = w \/ v = w
  BY <1>1, OthersCharged
<1>2. CASE u # w /\ v # w
  BY <1>2, OthersCharged DEF CapInv
<1>3. QED
  BY <1>1, <1>2

LEMMA AloneCharged ==
    ASSUME CapInv, NEW w \in Pod, NEW f \in Failure, Charged(w, f),
           NEW v \in Pod \ {w}
    PROVE  ~Charged(v, f)
BY DEF CapInv

LEMMA CapNumbers == EnvMaxRetries \in Int /\ EnvMaxRetries - 1 \in Int
BY ConstantsAssumption

LEMMA TameKept ==
    ASSUME CronInv, CapInv, NEW w \in Pod, Moves(w), Tame(w), OnItsWay(w)',
           UNCHANGED config
    PROVE  CapInv'
<1>1. ASSUME NEW f \in Failure
      PROVE  CapOf(f)'
  <2>1. CapOf(f) /\ fixStatus'[f] = fixStatus[f]
        /\ VerifyFailures(f)' \subseteq VerifyFailures(f)
    BY DEF CapInv, Tame
  <2>2. Tries(f, EnvMaxRetries)'
    BY <2>1, TriesShrink, CapNumbers DEF CapOf
  <2>3. Tries(f, EnvMaxRetries - 1) => Tries(f, EnvMaxRetries - 1)'
    BY <2>1, TriesShrink, CapNumbers
  <2>4. QED
    BY <2>1, <2>2, <2>3 DEF CapOf
<1>2. ASSUME NEW v \in Pod, NEW f \in Failure
      PROVE  Covered(v, f)'
  <2>1. Covered(v, f) /\ fixStatus'[f] = fixStatus[f]
        /\ VerifyFailures(f)' \subseteq VerifyFailures(f)
    BY DEF CapInv, Tame
  <2>2. Tries(f, EnvMaxRetries - 1) => Tries(f, EnvMaxRetries - 1)'
    BY <2>1, TriesShrink, CapNumbers
  <2>3. CASE v = w
    BY <2>1, <2>2, <2>3 DEF Covered, Tame
  <2>4. CASE v # w
    BY <2>1, <2>2, <2>4, OthersCharged DEF Covered
  <2>5. QED
    BY <2>3, <2>4
<1>3. \A v \in Pod : OnItsWay(v)'
  BY OthersOnTheirWay
<1>4. Sole'
  BY SoleKept, AloneCharged DEF Tame
<1>5. (\A p \in Project : config[p].maxRetries = NoOverride)'
  BY DEF CapInv
<1>6. QED
  BY <1>1, <1>2, <1>3, <1>4, <1>5 DEF CapInv, Sole

\* The failed verifications are the same, or fewer.
LEMMA SameFailures ==
    ASSUME UNCHANGED <<status, failureOf>>, NEW f
    PROVE  VerifyFailures(f)' = VerifyFailures(f)
BY DEF VerifyFailures, AttemptsOf

LEMMA FewerFailures ==
    ASSUME Inv, NEW a \in Attempt, NEW s, s # "verify_failed",
           SetStatus(a, s), UNCHANGED failureOf, NEW f
    PROVE  VerifyFailures(f)' \subseteq VerifyFailures(f)
BY DEF Inv, TypeOK, SetStatus, VerifyFailures, AttemptsOf

\* A step that moves no row and leaves w without a charge.
LEMMA LetGo ==
    ASSUME CronInv, NEW w \in Pod, UNCHANGED <<fixStatus, status, failureOf>>,
           pc'[w] \notin {"insert", "llm", "finalize", "release"},
           tick'[w].step \notin {"apply", "verify"}
    PROVE  Tame(w)
BY SameFailures DEF Tame, Charged

\* A tick that stays in its stage, past the proposal, keeps its charge.
LEMMA SameCharge ==
    ASSUME CronInv, NEW w \in Pod, Moves(w),
           tick[w].step \in {"apply", "verify"},
           tick'[w].step \in {"apply", "verify"},
           tick'[w].attempt = tick[w].attempt,
           NEW f \in Failure, Charged(w, f)'
    PROVE  Charged(w, f)
<1>1. Stage(w) /\ Stage(w)' /\ Steady
  BY NextSteady DEF CronInv, Moves
<1>2. failureOf'[tick[w].attempt] = failureOf[tick[w].attempt]
  BY <1>1 DEF Stage, Steady, Known
<1>3. pc'[w] \notin {"insert", "llm", "finalize", "release"}
  BY <1>1 DEF Stage, Applying, Verifying
<1>4. QED
  BY <1>2, <1>3 DEF Charged

\* A request that ends, or has not claimed yet, has nothing on its way.
LEMMA NothingOnItsWay ==
    ASSUME NEW w, pc'[w] \notin {"llm", "finalize"} \cup Verifying
    PROVE  OnItsWay(w)'
BY DEF OnItsWay

\* What is claimed was open, so that nobody is charged with it.
LEMMA ClaimKept ==
    ASSUME CronInv, CapInv, NEW w \in Pod, Moves(w), NEW f \in Failure,
           fixStatus[f] = "open", SetFixStatus(f, "fix_proposed"),
           UNCHANGED <<config, status, failureOf>>,
           pc'[w] = "insert", job'[w].failure = f,
           tick'[w].step = "propose"
    PROVE  CapInv'
<1>1. \A g \in Failure : /\ Charged(w, g)' <=> g = f
                         /\ VerifyFailures(g)' = VerifyFailures(g)
                         /\ fixStatus'[g] = IF g = f THEN "fix_proposed" ELSE fixStatus[g]
  BY SameFailures DEF Charged, CronInv, Inv, TypeOK, SetFixStatus
<1>2. \A v \in Pod : ~Charged(v, f)
  BY DEF CapInv, Covered
<1>3. Tries(f, EnvMaxRetries - 1)
  BY DEF CapInv, CapOf
<1>4. \A g \in Failure : \A n : Tries(g, n)' <=> Tries(g, n)
  BY <1>1 DEF Tries
<1>5. ASSUME NEW g \in Failure
      PROVE  CapOf(g)'
  BY <1>1, <1>4 DEF CapInv, CapOf
<1>6. ASSUME NEW v \in Pod, NEW g \in Failure
      PROVE  Covered(v, g)'
  <2>1. CASE v = w
    BY <1>1, <1>3, <1>4, <2>1 DEF Covered
  <2>2. CASE v # w
    BY <1>1, <1>2, <1>4, <2>2, OthersCharged DEF Covered, CapInv
  <2>3. QED
    BY <2>1, <2>2
<1>7. \A v \in Pod : OnItsWay(v)'
  BY NothingOnItsWay, OthersOnTheirWay DEF Verifying
<1>8. Sole'
  BY <1>1, <1>2, SoleKept
<1>9. QED
  BY <1>5, <1>6, <1>7, <1>8 DEF CapInv, Sole

\* The claim is given back, if there is a try left, or the failure is given
\* up: nobody else is charged with it.
LEMMA SettleKept ==
    ASSUME CronInv, CapInv, NEW w \in Pod, Moves(w), NEW f \in Failure,
           Charged(w, f), UNCHANGED <<config, status, failureOf>>,
           pc'[w] = "idle", tick'[w].step \notin {"apply", "verify"},
           fixStatus' \in {fixStatus, [fixStatus EXCEPT ![f] = "open"],
                          [fixStatus EXCEPT ![f] = "wont_fix"]},
           fixStatus'[f] = "open" => Tries(f, EnvMaxRetries - 1)
    PROVE  CapInv'
<1>1. \A g \in Failure : /\ ~Charged(w, g)'
                         /\ VerifyFailures(g)' = VerifyFailures(g)
                         /\ g # f => fixStatus'[g] = fixStatus[g]
  BY SameFailures DEF Charged, CronInv, Inv, TypeOK
<1>2. \A v \in Pod \ {w} : ~Charged(v, f)
  BY AloneCharged
<1>3. fixStatus[f] = "fix_proposed"
  BY DEF CapInv, Covered
<1>4. \A g \in Failure : \A n : Tries(g, n)' <=> Tries(g, n)
  BY <1>1 DEF Tries
<1>5. ASSUME NEW g \in Failure
      PROVE  CapOf(g)'
  <2>1. CASE g # f
    BY <1>1, <1>4, <2>1 DEF CapInv, CapOf
  <2>2. CASE g = f
    <3>1. \/ fixStatus'[f] \in {"fix_proposed", "wont_fix"}
          \/ fixStatus'[f] = "open" /\ Tries(f, EnvMaxRetries - 1)
      BY <1>3 DEF CronInv, Inv, TypeOK
    <3>2. Tries(f, EnvMaxRetries)
      BY DEF CapInv, CapOf
    <3>3. QED
      BY <1>4, <2>2, <3>1, <3>2 DEF CapOf
  <2>3. QED
    BY <2>1, <2>2
<1>6. ASSUME NEW v \in Pod, NEW g \in Failure
      PROVE  Covered(v, g)'
  <2>1. CASE v = w
    BY <1>1, <2>1 DEF Covered
  <2>2. CASE v # w
    BY <1>1, <1>2, <1>4, <2>2, OthersCharged DEF Covered, CapInv
  <2>3. QED
    BY <2>1, <2>2
<1>7. \A v \in Pod : OnItsWay(v)'
  BY NothingOnItsWay, OthersOnTheirWay DEF Verifying
<1>8. Sole'
  BY <1>1, SoleKept
<1>9. QED
  BY <1>5, <1>6, <1>7, <1>8 DEF CapInv, Sole

\* The verdict uses up the try that the claim had left.
LEMMA VerdictKept ==
    ASSUME CronInv, CapInv, NEW w \in Pod, Moves(w), RecordVerifyFailed(w),
           UNCHANGED tick
    PROVE  CapInv'
<1> DEFINE a == job[w].attempt
<1>1. /\ Known(a) /\ pc[w] = "recordVerifyFailed" /\ pc'[w] = "settle"
      /\ job'[w] = job[w] /\ tick[w].step = "verify"
  BY PodsAreWorkers, RowIsInStage
  DEF CronInv, Inv, TypeOK, Holds, RecordVerifyFailed, GoTo, Verifying, Proposing,
      Applying
<1>2. PICK f \in Failure : f = failureOf[a]
  BY <1>1 DEF CronInv, Inv, Rows, Owned, Known
<1>3. Charged(w, f) /\ \A g \in Failure : Charged(w, g)' => g = f
  <2>1. \A g \in Failure : Charged(w, g) <=> g = f
    BY <1>1, <1>2, ChargedAt DEF Verifying
  <2>2. \A g \in Failure : Charged(w, g)' => Charged(w, g)
    BY <1>1, SameCharge
  <2>3. QED
    BY <2>1, <2>2
<1>4. Tries(f, EnvMaxRetries - 1) /\ fixStatus[f] = "fix_proposed"
  BY <1>1, <1>3 DEF CapInv, Covered
<1>5. ASSUME NEW g \in Failure
      PROVE  /\ VerifyFailures(g)' \subseteq VerifyFailures(g) \cup {a}
             /\ g # f => VerifyFailures(g)' \subseteq VerifyFailures(g)
  BY <1>1, <1>2
  DEF CronInv, Inv, TypeOK, RecordVerifyFailed, SetStatus, VerifyFailures, AttemptsOf,
      Known
<1>6. fixStatus' = fixStatus /\ config' = config
  BY DEF RecordVerifyFailed, rowVars
<1>7. \A g \in Failure \ {f} : \A n \in Int : Tries(g, n) => Tries(g, n)'
  BY <1>5, TriesShrink
<1>8. Tries(f, EnvMaxRetries)'
  BY <1>4, <1>5, TriesGrow, CapNumbers
<1>9. ASSUME NEW g \in Failure
      PROVE  CapOf(g)'
  BY <1>4, <1>6, <1>7, <1>8, CapNumbers DEF CapInv, CapOf
<1>10. ASSUME NEW v \in Pod, NEW g \in Failure
      PROVE  Covered(v, g)'
  <2>1. CASE v = w
    BY <1>1, <1>3, <1>4, <1>6, <2>1 DEF Covered
  <2>2. CASE v # w
    <3>1. Covered(v, g) /\ ~Charged(v, f)
      BY <1>3, <2>2, AloneCharged DEF CapInv
    <3>2. QED
      BY <1>6, <1>7, <2>2, <3>1, CapNumbers, OthersCharged DEF Covered
  <2>3. QED
    BY <2>1, <2>2
<1>11. \A v \in Pod : OnItsWay(v)'
  <2>1. OnItsWay(w)'
    BY <1>1 DEF CapInv, OnItsWay, Verifying
  <2>2. QED
    BY <2>1, OthersOnTheirWay
<1>12. Sole'
  BY <1>3, SoleKept, AloneCharged
<1>13. QED
  BY <1>6, <1>9, <1>10, <1>11, <1>12 DEF CapInv, Sole

\* What is left when no tick moves: rows that appear, configurations.
LEMMA NobodyMoves ==
    ASSUME CapInv, UNCHANGED <<tick, pc, job, status, failureOf>>,
           \A p \in Project : config'[p].maxRetries = NoOverride,
           \A f \in Failure : \/ fixStatus'[f] = fixStatus[f]
                              \/ fixStatus[f] = "absent" /\ fixStatus'[f] = "open"
    PROVE  CapInv'
<1>1. \A v \in Pod : \A f \in Failure : Charged(v, f)' <=> Charged(v, f)
  BY DEF Charged
<1>2. \A f \in Failure : \A n : Tries(f, n)' <=> Tries(f, n)
  BY SameFailures DEF Tries
<1>3. ASSUME NEW f \in Failure
      PROVE  CapOf(f)'
  BY <1>2 DEF CapInv, CapOf
<1>4. ASSUME NEW v \in Pod, NEW f \in Failure
      PROVE  Covered(v, f)'
  BY <1>1, <1>2 DEF CapInv, Covered
<1>5. \A v \in Pod : OnItsWay(v)'
  BY DEF CapInv, OnItsWay
<1>6. QED
  BY <1>1, <1>3, <1>4, <1>5 DEF CapInv

LEMMA LetGoKept ==
    ASSUME CronInv, CapInv, NEW w \in Pod, Moves(w),
           UNCHANGED <<fixStatus, status, failureOf, config>>,
           pc'[w] \in {"idle", "quota", "claim"},
           tick'[w].step \notin {"apply", "verify"}
    PROVE  CapInv'
BY LetGo, NothingOnItsWay, TameKept DEF Verifying

\* After a row, and before the first, a tick is charged with nothing.
LEMMA NextRowLetsGo ==
    ASSUME CronInv, NEW w \in Pod, NEW rows, NextRow(w, rows)
    PROVE  tick'[w].step \notin {"apply", "verify"}
<1>1. tick \in [Pod -> Ticks]
  BY CronTypes DEF CronInv
<1>2. QED
  BY <1>1 DEF NextRow, Off

LEMMA BetweenRowsKept ==
    ASSUME CronInv, CapInv, NEW w \in Pod,
           Fire(w) \/ TryLock(w) \/ Find(w) \/ Unlock(w) \/ PodDies(w)
    PROVE  CapInv'
<1>1. tick \in [Pod -> Ticks] /\ Stage(w) /\ w \in Worker
  BY CronTypes, PodsAreWorkers DEF CronInv
<1>2. Moves(w)
  BY FireMoves, TryLockMoves, FindMoves, UnlockMoves, PodDiesMoves
<1>3. UNCHANGED <<fixStatus, status, failureOf, config>>
  BY DEF Fire, TryLock, Find, Unlock, PodDies, Crash, vars, rowVars, attemptVars
<1>4. tick'[w].step \in {"off", "lock", "find", "row", "unlock"}
  <2>1. CASE \E rows : NextRow(w, rows)
    BY <1>1, <2>1 DEF NextRow, Off
  <2>2. CASE \E step \in {"off", "lock", "find", "unlock"} : GoOn(w, step)
    BY <1>1, <2>2 DEF GoOn, Ticks
  <2>3. CASE Unlock(w) \/ PodDies(w)
    BY <1>1, <2>3 DEF Unlock, PodDies, Off
  <2>4. QED
    BY <2>1, <2>2, <2>3 DEF Fire, TryLock, Find
<1>5. pc'[w] = "idle"
  BY <1>2, <1>4 DEF Moves, Stage
<1>6. QED
  BY <1>2, <1>3, <1>4, <1>5, LetGoKept

LEMMA StartRowKept ==
    ASSUME CronInv, CapInv, NEW w \in Pod, StartRow(w)
    PROVE  CapInv'
<1>1. tick \in [Pod -> Ticks] /\ Stage(w) /\ w \in Worker /\ Moves(w)
  BY CronTypes, PodsAreWorkers, StartRowMoves DEF CronInv
<1>2. CASE /\ ProposeLoad(w, Head(tick[w].rows))
           /\ tick' = [tick EXCEPT ![w].step = "propose",
                                   ![w].rows = Tail(tick[w].rows)]
  <2>1. pc'[w] \in {"quota", "claim"}
    BY <1>1, <1>2 DEF CronInv, Inv, TypeOK, ProposeLoad, GoTo
  <2>2. tick'[w].step = "propose"
    BY <1>1, <1>2 DEF Ticks
  <2>3. UNCHANGED <<fixStatus, status, failureOf, config>>
    BY <1>2 DEF ProposeLoad, rowVars, attemptVars
  <2>4. QED
    BY <1>1, <2>1, <2>2, <2>3, LetGoKept
<1>3. CASE NextRow(w, Tail(tick[w].rows)) /\ UNCHANGED vars
  <2>1. pc'[w] = "idle" /\ UNCHANGED <<fixStatus, status, failureOf, config>>
    BY <1>1, <1>3 DEF StartRow, Stage, vars, rowVars, attemptVars, workerVars
  <2>2. QED
    BY <1>1, <1>3, <2>1, NextRowLetsGo, LetGoKept
<1>4. QED
  BY <1>2, <1>3 DEF StartRow

LEMMA StartStageKept ==
    ASSUME CronInv, CapInv, NEW w \in Pod, StartApply(w) \/ StartVerify(w)
    PROVE  CapInv'
<1>1. w \in Worker /\ Moves(w) /\ pc[w] = "idle"
      /\ tick[w].step \in {"apply", "verify"} /\ Known(tick[w].attempt)
  BY PodsAreWorkers, StartApplyMoves, StartVerifyMoves
  DEF CronInv, StartApply, StartVerify, Stage
<1>2. PICK a : a = tick[w].attempt
  OBVIOUS
<1>3. CASE (ApplyLoad(w, a) \/ VerifyLoad(w, a)) /\ UNCHANGED tick
  <2>1. UNCHANGED <<fixStatus, status, failureOf, config>>
    BY <1>3 DEF ApplyLoad, VerifyLoad, rowVars, attemptVars
  <2>2. Tame(w)
    BY <1>1, <1>3, <2>1, SameCharge, SameFailures DEF Tame
  <2>3. OnItsWay(w)'
    <3>1. CASE ApplyLoad(w, a)
      <4>1. pc'[w] = "git"
        BY <1>1, <3>1 DEF CronInv, Inv, TypeOK, ApplyLoad, GoTo
      <4>2. QED
        BY <4>1, NothingOnItsWay DEF Verifying
    <3>2. CASE VerifyLoad(w, a)
      <4>1. PICK f \in Failure : f = failureOf[a]
        BY <1>1, <1>2 DEF CronInv, Inv, Rows, Owned, Known
      <4>2. ProjectOf[f] \in Project
        BY ConstantsAssumption
      <4>3. EffectiveRetries(ProjectOf[f]) = EnvMaxRetries
        BY <4>2 DEF CapInv, EffectiveRetries
      <4>4. pc'[w] = "playwright" /\ job'[w].retries = EnvMaxRetries
        BY <1>1, <3>2, <4>1, <4>3
        DEF CronInv, Inv, TypeOK, VerifyLoad, GoTo, Idle
      <4>5. QED
        BY <4>4 DEF OnItsWay
    <3>3. QED
      BY <1>3, <3>1, <3>2
  <2>4. QED
    BY <1>1, <2>1, <2>2, <2>3, TameKept
<1>4. CASE NextRow(w, tick[w].rows) /\ UNCHANGED vars
  <2>1. pc'[w] = "idle" /\ UNCHANGED <<fixStatus, status, failureOf, config>>
    BY <1>1, <1>4 DEF vars, rowVars, attemptVars, workerVars
  <2>2. QED
    BY <1>1, <1>4, <2>1, NextRowLetsGo, LetGoKept
<1>5. QED
  BY <1>2, <1>3, <1>4 DEF StartApply, StartVerify

LEMMA RowErrorKept ==
    ASSUME CronInv, CapInv, NEW w \in Pod, RowError(w)
    PROVE  CapInv'
<1>1. w \in Worker /\ Moves(w)
  BY PodsAreWorkers, RowErrorMoves
<1>2. CASE RecordApplyError(w) /\ UNCHANGED tick
  <2>1. pc[w] = "recordApply" /\ UNCHANGED <<fixStatus, status, failureOf, config, pc>>
    BY <1>2 DEF RecordApplyError, rowVars, attemptVars
  <2>2. tick[w].step = "apply"
    BY <2>1, RowIsInStage DEF Proposing, Verifying
  <2>3. Tame(w)
    BY <1>1, <1>2, <2>1, <2>2, SameCharge, SameFailures DEF Tame
  <2>4. OnItsWay(w)'
    BY <2>1, NothingOnItsWay DEF Verifying
  <2>5. QED
    BY <1>1, <2>1, <2>3, <2>4, TameKept
<1>3. CASE Crash(w) /\ NextRow(w, tick[w].rows)
  <2>1. pc'[w] = "idle" /\ UNCHANGED <<fixStatus, status, failureOf, config>>
    BY <1>1, <1>3 DEF CronInv, Inv, TypeOK, Crash, Finish, rowVars, attemptVars
  <2>2. QED
    BY <1>1, <1>3, <2>1, NextRowLetsGo, LetGoKept
<1>4. QED
  BY <1>2, <1>3 DEF RowError

\* Where a row's await leaves its tick.
LEMMA RowStepTick ==
    ASSUME CronInv, NEW w \in Pod, RowStep(w)
    PROVE  /\ pc'[w] # "idle" => tick' = tick
           /\ pc'[w] = "idle" /\ pc[w] \notin {"finalize", "recordApply"}
                  => tick'[w].step \notin {"apply", "verify"}
           /\ pc'[w] = "idle" /\ pc[w] = "finalize"
                  => /\ tick'[w].step = "apply"
                     /\ tick'[w].attempt = job[w].attempt
           /\ pc'[w] = "idle" /\ pc[w] = "recordApply"
                  => /\ job[w].outcome \in {"proposed", "failed"}
                     /\ \/ tick'[w].step \notin {"apply", "verify"}
                        \/ /\ tick'[w].step = "verify"
                           /\ tick'[w].attempt = tick[w].attempt
<1>1. tick \in [Pod -> Ticks]
  BY CronTypes DEF CronInv
<1>2. NextRow(w, tick[w].rows) => tick'[w].step \notin {"apply", "verify"}
  BY NextRowLetsGo
<1>3. GoOn(w, "verify") => /\ tick'[w].step = "verify"
                           /\ tick'[w].attempt = tick[w].attempt
  BY <1>1 DEF GoOn, Ticks
<1>4. tick' = [tick EXCEPT ![w].step = "apply", ![w].attempt = job[w].attempt]
        => tick'[w].step = "apply" /\ tick'[w].attempt = job[w].attempt
  BY <1>1 DEF Ticks
<1>5. QED
  BY <1>2, <1>3, <1>4 DEF RowStep

\* The proposal's awaits that write no attempt.
LEMMA GateKept ==
    ASSUME CronInv, CapInv, NEW w \in Pod, RowStep(w),
           ProposeQuota(w) \/ ProposeClaim(w)
    PROVE  CapInv'
<1>1. w \in Worker /\ Moves(w) /\ tick[w].step = "propose"
  BY PodsAreWorkers, RowStepMoves, RowIsInStage
  DEF ProposeQuota, ProposeClaim, Applying, Verifying
<1>2. CASE \/ ProposeQuota(w)
           \/ ProposeClaim(w) /\ fixStatus[job[w].failure] # "open"
  <2>1. UNCHANGED <<fixStatus, status, failureOf, config>>
    BY <1>2 DEF ProposeQuota, ProposeClaim, rowVars, attemptVars
  <2>2. pc'[w] \in {"idle", "claim"} /\ pc[w] \in {"quota", "claim"}
    BY <1>1, <1>2
    DEF CronInv, Inv, TypeOK, ProposeQuota, ProposeClaim, GoTo, Finish
  <2>3. tick'[w].step \notin {"apply", "verify"}
    BY <1>1, <2>2, RowStepTick
  <2>4. QED
    BY <1>1, <2>1, <2>2, <2>3, LetGoKept
<1>3. CASE ProposeClaim(w) /\ fixStatus[job[w].failure] = "open"
  <2>1. PICK f \in Failure : f = job[w].failure
    BY <1>1, <1>3 DEF CronInv, Inv, Holds, ProposeClaim, Proposing
  <2>2. /\ SetFixStatus(f, "fix_proposed")
        /\ UNCHANGED <<config, status, failureOf, job>>
        /\ pc'[w] = "insert"
    BY <1>1, <1>3, <2>1 DEF CronInv, Inv, TypeOK, ProposeClaim, GoTo, attemptVars
  <2>3. tick' = tick
    BY <2>2, RowStepTick
  <2>4. QED
    BY <1>1, <1>3, <2>1, <2>2, <2>3, ClaimKept
<1>4. QED
  BY <1>2, <1>3

LEMMA InsertKept ==
    ASSUME CronInv, CapInv, NEW w \in Pod, RowStep(w), InsertAttempt(w)
    PROVE  CapInv'
<1>1. w \in Worker /\ Moves(w) /\ pc[w] = "insert" /\ tick[w].step = "propose"
  BY PodsAreWorkers, RowStepMoves, RowIsInStage
  DEF InsertAttempt, Applying, Verifying
<1>2. PICK a \in Unused : /\ SetStatus(a, "patching")
                          /\ failureOf' = [failureOf EXCEPT ![a] = job[w].failure]
                          /\ job' = [job EXCEPT ![w].attempt = a]
  BY DEF InsertAttempt
<1>3. /\ a \in Attempt /\ failureOf'[a] = job[w].failure
      /\ job'[w].attempt = a /\ job'[w].failure = job[w].failure
      /\ pc'[w] = "llm"
  BY <1>1, <1>2
  DEF CronInv, Inv, TypeOK, Unused, Job, InsertAttempt, GoTo
<1>4. tick' = tick
  BY <1>3, RowStepTick
<1>5. \A f \in Failure : VerifyFailures(f)' \subseteq VerifyFailures(f)
  BY <1>2, <1>3 DEF CronInv, Inv, TypeOK, SetStatus, VerifyFailures, AttemptsOf
<1>6. UNCHANGED <<fixStatus, config>>
  BY DEF InsertAttempt, rowVars
<1>7. Tame(w)
  BY <1>1, <1>3, <1>4, <1>5, <1>6 DEF Tame, Charged
<1>8. OnItsWay(w)'
  BY <1>3 DEF OnItsWay, Verifying
<1>9. QED
  BY <1>1, <1>6, <1>7, <1>8, TameKept

LEMMA AnswerKept ==
    ASSUME CronInv, CapInv, NEW w \in Pod, RowStep(w), CallLlm(w)
    PROVE  CapInv'
<1>1. w \in Worker /\ Moves(w) /\ pc[w] = "llm" /\ tick[w].step = "propose"
  BY PodsAreWorkers, RowStepMoves, RowIsInStage
  DEF CallLlm, Applying, Verifying
<1>2. /\ job'[w].attempt = job[w].attempt /\ job'[w].failure = job[w].failure
      /\ pc'[w] = "finalize"
  BY <1>1 DEF CronInv, Inv, TypeOK, Job, CallLlm, GoTo
<1>3. tick' = tick
  BY <1>2, RowStepTick
<1>4. UNCHANGED <<fixStatus, config, status, failureOf>>
  BY DEF CallLlm, rowVars, attemptVars
<1>5. Tame(w)
  BY <1>1, <1>2, <1>3, <1>4, SameFailures DEF Tame, Charged
<1>6. OnItsWay(w)'
  BY <1>1, <1>2, <1>4 DEF CapInv, OnItsWay, Verifying
<1>7. QED
  BY <1>1, <1>4, <1>5, <1>6, TameKept

LEMMA FinalizeKept ==
    ASSUME CronInv, CapInv, NEW w \in Pod, RowStep(w), FinalizeAttempt(w)
    PROVE  CapInv'
<1>1. w \in Worker /\ Moves(w) /\ pc[w] = "finalize" /\ tick[w].step = "propose"
  BY PodsAreWorkers, RowStepMoves, RowIsInStage
  DEF FinalizeAttempt, Applying, Verifying
<1>2. PICK a \in Attempt : a = job[w].attempt
  BY <1>1 DEF CronInv, Inv, Holds, Known
<1>3. failureOf[a] = job[w].failure
  BY <1>1, <1>2 DEF CapInv, OnItsWay
<1>4. SetStatus(a, job[w].outcome) /\ job[w].outcome # "verify_failed"
  BY <1>2 DEF FinalizeAttempt
<1>5. UNCHANGED <<fixStatus, config, failureOf>>
  BY DEF FinalizeAttempt, rowVars
<1>6. \A f \in Failure : VerifyFailures(f)' \subseteq VerifyFailures(f)
  BY <1>4, <1>5, FewerFailures DEF CronInv
<1>7. \A f \in Failure : Charged(w, f)' => Charged(w, f)
  <2>1. CASE job[w].outcome = "proposed"
    <3>1. pc'[w] = "idle"
      BY <1>1, <2>1 DEF CronInv, Inv, TypeOK, FinalizeAttempt, Finish
    <3>2. tick'[w].step = "apply" /\ tick'[w].attempt = a
      BY <1>1, <1>2, <3>1, RowStepTick
    <3>3. QED
      BY <1>1, <1>3, <1>5, <3>1, <3>2 DEF Charged
  <2>2. CASE job[w].outcome = "failed"
    <3>1. pc'[w] = "release" /\ job' = job
      BY <1>1, <2>2 DEF CronInv, Inv, TypeOK, FinalizeAttempt, GoTo
    <3>2. tick' = tick
      BY <3>1, RowStepTick
    <3>3. QED
      BY <1>1, <3>1, <3>2 DEF Charged
  <2>3. QED
    BY <2>1, <2>2 DEF FinalizeAttempt
<1>8. Tame(w)
  BY <1>1, <1>5, <1>6, <1>7 DEF Tame
<1>9. OnItsWay(w)'
  <2>1. pc'[w] \in {"idle", "release"}
    BY <1>1 DEF CronInv, Inv, TypeOK, FinalizeAttempt, GoTo, Finish
  <2>2. QED
    BY <2>1, NothingOnItsWay DEF Verifying
<1>10. QED
  BY <1>1, <1>5, <1>8, <1>9, TameKept

LEMMA ReleaseKept ==
    ASSUME CronInv, CapInv, NEW w \in Pod, RowStep(w), ReleaseClaim(w)
    PROVE  CapInv'
<1>1. w \in Worker /\ Moves(w) /\ pc[w] = "release"
  BY PodsAreWorkers, RowStepMoves DEF ReleaseClaim
<1>2. PICK f \in Failure : f = job[w].failure
  BY <1>1 DEF CronInv, Inv, Holds, Proposing
<1>3. Charged(w, f)
  BY <1>1, <1>2 DEF Charged
<1>4. Tries(f, EnvMaxRetries - 1)
  BY <1>1, <1>3 DEF CapInv, Covered
<1>5. /\ pc'[w] = "idle"
      /\ UNCHANGED <<config, status, failureOf>>
      /\ fixStatus' \in {fixStatus, [fixStatus EXCEPT ![f] = "open"]}
  BY <1>1, <1>2
  DEF CronInv, Inv, TypeOK, ReleaseClaim, Finish, SetFixStatus, attemptVars
<1>6. tick'[w].step \notin {"apply", "verify"}
  BY <1>1, <1>5, RowStepTick
<1>7. QED
  BY <1>1, <1>3, <1>4, <1>5, <1>6, SettleKept

LEMMA ApplyKept ==
    ASSUME CronInv, CapInv, NEW w \in Pod, RowStep(w),
           ApplyGit(w) \/ RecordApply(w)
    PROVE  CapInv'
<1>1. w \in Worker /\ Moves(w) /\ pc[w] \in {"git", "recordApply"}
      /\ tick[w].step = "apply"
  BY PodsAreWorkers, RowStepMoves, RowIsInStage
  DEF ApplyGit, RecordApply, Proposing, Verifying
<1>2. UNCHANGED <<fixStatus, failureOf, config>>
  BY DEF ApplyGit, RecordApply, rowVars, attemptVars
<1>3. pc'[w] \in {"idle", "recordApply"}
  BY <1>1 DEF CronInv, Inv, TypeOK, ApplyGit, RecordApply, GoTo, Finish
<1>4. \A f \in Failure : VerifyFailures(f)' \subseteq VerifyFailures(f)
  <2>1. CASE ApplyGit(w)
    BY <2>1, SameFailures DEF ApplyGit, attemptVars
  <2>2. CASE RecordApply(w)
    <3>1. PICK a \in Attempt : a = job[w].attempt
      BY <2>2, <1>1 DEF CronInv, Inv, Holds, Known, RecordApply, Applying
    <3>2. pc[w] = "recordApply" /\ pc'[w] = "idle"
      BY <2>2, <1>1 DEF CronInv, Inv, TypeOK, RecordApply, Finish
    <3>3. SetStatus(a, job[w].outcome) /\ job[w].outcome # "verify_failed"
      BY <2>2, <3>1, <3>2, RowStepTick DEF RecordApply
    <3>4. QED
      BY <1>2, <3>3, FewerFailures DEF CronInv
  <2>3. QED
    BY <2>1, <2>2
<1>5. ASSUME NEW f \in Failure, Charged(w, f)'
      PROVE  Charged(w, f)
  <2>1. tick'[w].step \in {"apply", "verify"}
    BY <1>3, <1>5 DEF Charged
  <2>2. tick'[w].attempt = tick[w].attempt
    BY <1>1, <1>3, <2>1, RowStepTick
  <2>3. QED
    BY <1>1, <1>5, <2>1, <2>2, SameCharge
<1>6. Tame(w)
  BY <1>1, <1>2, <1>4, <1>5 DEF Tame
<1>7. OnItsWay(w)'
  BY <1>3, NothingOnItsWay DEF Verifying
<1>8. QED
  BY <1>1, <1>2, <1>6, <1>7, TameKept

LEMMA PlaywrightKept ==
    ASSUME CronInv, CapInv, NEW w \in Pod, RowStep(w),
           RunPlaywright(w) \/ RecordVerified(w)
    PROVE  CapInv'
<1>1. /\ w \in Worker /\ Moves(w) /\ tick[w].step = "verify"
      /\ pc[w] \in {"playwright", "recordVerified"}
  BY PodsAreWorkers, RowStepMoves, RowIsInStage
  DEF RunPlaywright, RecordVerified, Proposing, Applying
<1>2. UNCHANGED <<fixStatus, failureOf, config>>
  BY DEF RunPlaywright, RecordVerified, rowVars, attemptVars
<1>3. CASE pc'[w] = "idle" /\ status' = status
  <2>1. tick'[w].step \notin {"apply", "verify"}
    BY <1>1, <1>3, RowStepTick
  <2>2. QED
    BY <1>1, <1>2, <1>3, <2>1, LetGoKept
<1>4. CASE pc'[w] = "idle" /\ RecordVerified(w)
  <2>1. tick'[w].step \notin {"apply", "verify"}
    BY <1>1, <1>4, RowStepTick
  <2>2. PICK a \in Attempt : a = job[w].attempt
    BY <1>1, <1>4 DEF CronInv, Inv, Holds, Known, RecordVerified, Verifying
  <2>3. \A f \in Failure : VerifyFailures(f)' \subseteq VerifyFailures(f)
    BY <1>2, <1>4, <2>2, FewerFailures DEF CronInv, RecordVerified
  <2>4. Tame(w)
    BY <1>2, <1>4, <2>1, <2>3 DEF Tame, Charged
  <2>5. OnItsWay(w)'
    BY <1>4, NothingOnItsWay DEF Verifying
  <2>6. QED
    BY <1>1, <1>2, <2>4, <2>5, TameKept
<1>5. CASE /\ pc'[w] \in {"recordVerified", "recordVerifyFailed"}
           /\ job' = job /\ status' = status
  <2>1. tick' = tick
    BY <1>5, RowStepTick
  <2>2. Tame(w)
    BY <1>1, <1>2, <1>5, <2>1, SameCharge, SameFailures DEF Tame
  <2>3. OnItsWay(w)'
    BY <1>1, <1>5 DEF CapInv, OnItsWay, Verifying
  <2>4. QED
    BY <1>1, <1>2, <2>2, <2>3, TameKept
<1>6. QED
  BY <1>1, <1>3, <1>4, <1>5
  DEF CronInv, Inv, TypeOK, RunPlaywright, RecordVerified, GoTo, Finish,
      attemptVars

LEMMA FailedVerdictKept ==
    ASSUME CronInv, CapInv, NEW w \in Pod, RowStep(w), RecordVerifyFailed(w)
    PROVE  CapInv'
<1>1. w \in Worker /\ Moves(w) /\ pc'[w] = "settle"
  BY PodsAreWorkers, RowStepMoves
  DEF CronInv, Inv, TypeOK, RecordVerifyFailed, GoTo
<1>2. tick' = tick
  BY <1>1, RowStepTick
<1>3. QED
  BY <1>1, <1>2, VerdictKept

\* The cap is what the failed verifications are counted against.
LEMMA SettleStepKept ==
    ASSUME CronInv, CapInv, EnvMaxRetries > 0, NEW w \in Pod, RowStep(w),
           SettleFailure(w)
    PROVE  CapInv'
<1>1. w \in Worker /\ Moves(w) /\ pc[w] = "settle" /\ pc[w] \in Verifying
  BY PodsAreWorkers, RowStepMoves DEF SettleFailure, Verifying
<1>2. PICK f \in Failure : f = job[w].failure
  <2>1. Known(job[w].attempt) /\ job[w].failure = failureOf[job[w].attempt]
    BY <1>1, ChargedAt DEF CronInv, Inv, Holds
  <2>2. QED
    BY <2>1 DEF CronInv, Inv, Rows, Owned, Known
<1>3. Charged(w, f)
  BY <1>1, <1>2, ChargedAt
<1>4. fixStatus[f] = "fix_proposed" /\ job[w].retries = EnvMaxRetries
  BY <1>1, <1>3 DEF CapInv, Covered, OnItsWay
<1>5. ~CapReached(f, EnvMaxRetries) => Tries(f, EnvMaxRetries - 1)
  <2>1. PICK S : S = VerifyFailures(f)
    OBVIOUS
  <2>2. IsFiniteSet(S) /\ Cardinality(S) \in Nat
    BY <2>1, FS_CardinalityType DEF CapInv, CapOf, Tries
  <2>3. ~(Cardinality(S) >= EnvMaxRetries) => Cardinality(S) <= EnvMaxRetries - 1
    BY <2>2, ConstantsAssumption
  <2>4. QED
    BY <2>1, <2>2, <2>3 DEF CapReached, Tries
<1>6. /\ pc'[w] = "idle"
      /\ UNCHANGED <<config, status, failureOf>>
  BY <1>1 DEF CronInv, Inv, TypeOK, SettleFailure, Finish, attemptVars
<1>7. \/ fixStatus' = [fixStatus EXCEPT ![f] = "wont_fix"]
      \/ /\ fixStatus' = [fixStatus EXCEPT ![f] = "open"]
         /\ Tries(f, EnvMaxRetries - 1)
  BY <1>2, <1>4, <1>5 DEF SettleFailure, SetFixStatus
<1>8. fixStatus'[f] = "open" => Tries(f, EnvMaxRetries - 1)
  BY <1>7 DEF CronInv, Inv, TypeOK
<1>9. tick'[w].step \notin {"apply", "verify"}
  BY <1>1, <1>6, RowStepTick
<1>10. QED
  BY <1>1, <1>3, <1>6, <1>7, <1>8, <1>9, SettleKept

LEMMA RowStepKept ==
    ASSUME CronInv, CapInv, EnvMaxRetries > 0, NEW w \in Pod, RowStep(w)
    PROVE  CapInv'
<1>1. WorkerStep(w) /\ w \in Worker
  BY PodsAreWorkers DEF RowStep
<1>2. ~RecordMerged(w) /\ ~RecordResolved(w)
  BY RowIsInStage
  DEF RecordMerged, RecordResolved, Proposing, Applying, Verifying
<1>3. QED
  BY <1>1, <1>2, GateKept, InsertKept, AnswerKept, FinalizeKept, ReleaseKept,
     ApplyKept, PlaywrightKept, FailedVerdictKept, SettleStepKept
  DEF WorkerStep

LEMMA OthersKept ==
    ASSUME CronInv, CapInv, LeftToTheCron, Others
    PROVE  CapInv'
<1>1. Environment /\ UNCHANGED tick
  BY DEF Others, LeftToTheCron, cronVars
<1>2. UNCHANGED <<pc, job, status, failureOf>>
  BY <1>1
  DEF Environment, UpsertFailure, MarkWontFix, ReopenFailure, UpsertConfig,
      WindowSlides, OpenPullRequest, MergePullRequest, Redeliver,
      MergeElsewhere, workerVars, attemptVars
<1>3. \A p \in Project : config'[p].maxRetries = NoOverride
  BY <1>1
  DEF CronInv, Inv, TypeOK, CapInv, LeftToTheCron, Environment,
      UpsertFailure, MarkWontFix, ReopenFailure, UpsertConfig, WindowSlides,
      OpenPullRequest, MergePullRequest, Redeliver, MergeElsewhere
<1>4. \A f \in Failure : \/ fixStatus'[f] = fixStatus[f]
                         \/ fixStatus[f] = "absent" /\ fixStatus'[f] = "open"
  BY <1>1
  DEF CronInv, Inv, TypeOK, CapInv, CapOf, LeftToTheCron, Environment,
      UpsertFailure, MarkWontFix, ReopenFailure, UpsertConfig, WindowSlides,
      OpenPullRequest, MergePullRequest, Redeliver, MergeElsewhere, SetFixStatus,
      rowVars
<1>5. QED
  BY <1>1, <1>2, <1>3, <1>4, NobodyMoves

LEMMA CapInvKept ==
    ASSUME CronInv, CapInv, LeftToTheCron, EnvMaxRetries > 0,
           [CronNext]_cronAll
    PROVE  CapInv'
<1>1. CASE UNCHANGED <<vars, tick>>
  <2>1. UNCHANGED <<pc, job, status, failureOf, fixStatus, config>>
    BY <1>1 DEF vars, rowVars, attemptVars, workerVars
  <2>2. QED
    BY <1>1, <2>1, NobodyMoves DEF CapInv
<1>2. ASSUME NEW w \in Pod, PodMoves(w)
      PROVE  CapInv'
  BY <1>1, <1>2, BetweenRowsKept, StartRowKept, StartStageKept, RowErrorKept,
     RowStepKept
  DEF PodMoves, PodStep, SessionDrops
<1>3. CASE Others
  BY <1>3, OthersKept
<1>4. CASE UNCHANGED cronAll
  BY <1>1, <1>4 DEF cronAll, cronVars
<1>5. QED
  BY <1>2, <1>3, <1>4 DEF CronNext, PodMoves

LEMMA InitCapInv ==
    ASSUME CronInit, EnvMaxRetries > 0
    PROVE  CapInv
<1>1. \A f \in Failure : VerifyFailures(f) = {}
  BY DEF CronInit, Init, VerifyFailures, AttemptsOf
<1>2. \A n \in Int : n >= 0 => \A f \in Failure : Tries(f, n)
  BY <1>1, FS_EmptySet DEF Tries
<1>3. EnvMaxRetries \in Int /\ EnvMaxRetries - 1 \in Int /\ EnvMaxRetries - 1 >= 0
  BY ConstantsAssumption
<1>4. \A f \in Failure : CapOf(f)
  BY <1>2, <1>3 DEF CapOf, CronInit, Init
<1>5. \A w \in Pod : pc[w] = "idle" /\ tick[w].step = "off"
  BY PodsAreWorkers DEF CronInit, Init, Off
<1>6. \A w \in Pod : OnItsWay(w) /\ \A f \in Failure : ~Charged(w, f)
  BY <1>5 DEF OnItsWay, Charged, Verifying
<1>7. \A p \in Project : config[p].maxRetries = NoOverride
  BY DEF CronInit, Init
<1>8. QED
  BY <1>4, <1>6, <1>7 DEF CapInv, Covered

\* Left to the cron, a failure fails its verification at most
\* AUTOFIX_MAX_RETRIES_PER_FAILURE times, through deaths, lost sessions and
\* failed queries, for any number of pods and ticks.
THEOREM CapIsKept == LeftToTheCron => (CronSpec => []RetryCapHolds)
<1>1. CASE ~(EnvMaxRetries > 0)
  <2>1. RetryCapHolds
    BY <1>1 DEF RetryCapHolds
  <2>2. []RetryCapHolds
    BY <2>1, PTL
  <2>3. QED
    BY <2>2
<1>2. ASSUME LeftToTheCron, EnvMaxRetries > 0
      PROVE  CronSpec => []RetryCapHolds
  <2>1. CapInv => RetryCapHolds
    BY DEF CapInv, CapOf, Tries, RetryCapHolds
  <2>2. CronInit => CronInv /\ CapInv
    BY <1>2, InitCronInv, InitCapInv
  <2>3. CronInv /\ CapInv /\ [CronNext]_cronAll => CronInv' /\ CapInv'
    BY <1>2, CronNextInv, CapInvKept
  <2>4. QED
    BY <2>1, <2>2, <2>3, PTL DEF CronSpec
<1>3. QED
  BY <1>1, <1>2
=============================================================================
