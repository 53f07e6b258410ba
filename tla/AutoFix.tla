------------------------------ MODULE AutoFix -------------------------------
(***************************************************************************)
(* The auto-fix loop of testgenie-backend: rows of test_failures are       *)
(* claimed, patched by a model, applied to a git checkout, verified by     *)
(* Playwright and closed when the pull request lands.                      *)
(*                                                                         *)
(* A worker is one asynchronous request in flight: a cron row, an          *)
(* /api/autofix call, a CLI script or a webhook delivery, in any process   *)
(* that shares the database.  Every action of a worker is what runs        *)
(* between two awaits (one SQL statement, or one synchronous stretch of    *)
(* git and Playwright), so every interleaving of the handlers is a         *)
(* behaviour.  A worker that dies, or whose query throws, is Crash.        *)
(***************************************************************************)
EXTENDS Integers, FiniteSets

CONSTANTS
    None,           \* NULL
    Project,        \* projects
    Failure,        \* test_failures rows that lineage may create
    ProjectOf,      \* test_failures.project_id
    Patchable,      \* failures whose last_test_id has spec code
    Attempt,        \* fix_attempts.id (a bound: the table is unbounded)
    Worker,         \* requests that may be in flight at once (a bound)
    NoOverride,     \* NULL in project_autofix_configs
    EnvDailyLimit,  \* AUTOFIX_DAILY_LIMIT, 0 disables the gate
    EnvMaxRetries,  \* AUTOFIX_MAX_RETRIES_PER_FAILURE, 0 disables the cap
    Configs,        \* the configurations an operator may PUT
    OperatorRows,   \* failures an operator marks or reopens
    Unreliable,     \* workers that may die, or see a query fail, half way
    Aging,          \* attempts that may leave the 24 hour window
    Reviewed,       \* attempts a person may open a pull request for
    Registered,     \* projects whose config row names a github_repo
    Lookalikes,     \* attempts whose branch name another project's repository
                    \* may also merge
    LookupMayFail   \* whether the webhook's repository lookup may throw

Config == [enabled : BOOLEAN,
           dailyLimit : Nat \cup {NoOverride},
           maxRetries : Nat \cup {NoOverride}]

ASSUME ConstantsAssumption ==
    /\ Attempt \subseteq Nat
    /\ ProjectOf \in [Failure -> Project]
    /\ Patchable \subseteq Failure
    /\ NoOverride \notin Nat
    /\ EnvDailyLimit \in Nat
    /\ EnvMaxRetries \in Nat
    /\ Configs \subseteq Config
    /\ OperatorRows \subseteq Failure
    /\ Unreliable \subseteq Worker
    /\ Aging \subseteq Attempt
    /\ Reviewed \subseteq Attempt
    /\ Registered \subseteq Project
    /\ Lookalikes \subseteq Attempt
    /\ LookupMayFail \in BOOLEAN
    /\ None \notin Project \cup Failure \cup Attempt

VARIABLES
    fixStatus,      \* test_failures.fix_status, "absent" before the INSERT
    resolvedAt,     \* failures whose resolved_at is not NULL
    status,         \* fix_attempts.status, "unused" before the INSERT
    failureOf,      \* fix_attempts.test_failure_id
    newCode,        \* attempts whose new_code is not NULL
    recent,         \* attempts started within the last 24 hours
    config,         \* project_autofix_configs, merged with "no row"
    branches,       \* attempts whose agent branch exists in the checkout
    pr,             \* the pull request of an attempt's branch on GitHub
    hooks,          \* merge deliveries GitHub still holds: [attempt, repo]
    pc,             \* where each worker is
    job             \* its local variables

rowVars == <<fixStatus, resolvedAt>>
attemptVars == <<status, failureOf, newCode, recent>>
worldVars == <<branches, pr, hooks>>
workerVars == <<pc, job>>
vars == <<rowVars, attemptVars, config, worldVars, workerVars>>

FixStatus == {"open", "fix_proposed", "fix_merged", "wont_fix", "resolved"}
AttemptStatus == {"patching", "proposed", "pr_opened", "verified",
                  "verify_failed", "merged", "failed"}

\* The awaits a request can be suspended at.
Proposing == {"quota", "claim", "insert", "llm", "finalize", "release"}
Applying == {"git", "recordApply"}
Verifying == {"playwright", "recordVerified", "recordVerifyFailed", "settle"}
Merging == {"merge", "resolve"}
Step == {"idle"} \cup Proposing \cup Applying \cup Verifying \cup Merging

\* failure, attempt: the row in hand; limit, retries: the configuration read
\* before the await; outcome: the status about to be written; repo: whose
\* repository the delivery in hand names.
Job == [failure : Failure \cup {None},
        attempt : Attempt \cup {None},
        limit : Nat,
        retries : Nat,
        outcome : {None, "proposed", "pr_opened", "failed"},
        repo : Project \cup {None}]

Idle == [failure |-> None, attempt |-> None, limit |-> 0, retries |-> 0,
         outcome |-> None, repo |-> None]
-----------------------------------------------------------------------------
EffectiveLimit(p) ==
    IF config[p].dailyLimit = NoOverride THEN EnvDailyLimit
                                         ELSE config[p].dailyLimit

EffectiveRetries(p) ==
    IF config[p].maxRetries = NoOverride THEN EnvMaxRetries
                                         ELSE config[p].maxRetries

AttemptsOf(f) == {a \in Attempt : failureOf[a] = f}

RecentAttempts(p) ==
    {a \in recent : failureOf[a] \in Failure /\ ProjectOf[failureOf[a]] = p}

VerifyFailures(f) == {a \in AttemptsOf(f) : status[a] = "verify_failed"}

Unused == {a \in Attempt : status[a] = "unused"}

SetFixStatus(f, s) == fixStatus' = [fixStatus EXCEPT ![f] = s]

SetStatus(a, s) == status' = [status EXCEPT ![a] = s]

GoTo(w, step) == pc' = [pc EXCEPT ![w] = step]

Finish(w) ==
    /\ pc' = [pc EXCEPT ![w] = "idle"]
    /\ job' = [job EXCEPT ![w] = Idle]

Init ==
    /\ fixStatus = [f \in Failure |-> "absent"]
    /\ resolvedAt = {}
    /\ status = [a \in Attempt |-> "unused"]
    /\ failureOf = [a \in Attempt |-> None]
    /\ newCode = {}
    /\ recent = {}
    /\ config = [p \in Project |-> [enabled |-> TRUE,
                                    dailyLimit |-> NoOverride,
                                    maxRetries |-> NoOverride]]
    /\ branches = {}
    /\ pr = [a \in Attempt |-> "none"]
    /\ hooks = {}
    /\ pc = [w \in Worker |-> "idle"]
    /\ job = [w \in Worker |-> Idle]
-----------------------------------------------------------------------------
(* proposeFix *)

\* Load the failure and its project's configuration.  A missing row, a row
\* without spec code and a disabled project throw before anything is written.
ProposeLoad(w, f) ==
    LET p == ProjectOf[f] IN
    /\ pc[w] = "idle"
    /\ fixStatus[f] # "absent"
    /\ f \in Patchable
    /\ config[p].enabled
    /\ job' = [job EXCEPT ![w] = [Idle EXCEPT !.failure = f,
                                              !.limit = EffectiveLimit(p)]]
    /\ GoTo(w, IF EffectiveLimit(p) > 0 THEN "quota" ELSE "claim")
    /\ UNCHANGED <<rowVars, attemptVars, config, worldVars>>

\* Mutant: the gate lets the attempt after the last one through.
ProposeQuotaOffByOne(w) ==
    LET used == Cardinality(RecentAttempts(ProjectOf[job[w].failure])) IN
    /\ pc[w] = "quota"
    /\ IF used <= job[w].limit THEN GoTo(w, "claim") /\ UNCHANGED job
                               ELSE Finish(w)
    /\ UNCHANGED <<rowVars, attemptVars, config, worldVars>>

\* The daily gate: 429 when the rolling window already holds the limit.
ProposeQuota(w) ==
    LET used == Cardinality(RecentAttempts(ProjectOf[job[w].failure])) IN
    /\ pc[w] = "quota"
    /\ IF used < job[w].limit THEN GoTo(w, "claim") /\ UNCHANGED job
                              ELSE Finish(w)
    /\ UNCHANGED <<rowVars, attemptVars, config, worldVars>>

\* UPDATE ... WHERE fix_status = 'open'.  The second conjunct is the bound
\* on Attempt: every claim in flight finds an unused id.
ProposeClaim(w) ==
    LET f == job[w].failure IN
    /\ pc[w] = "claim"
    /\ Cardinality({v \in Worker : pc[v] = "insert"}) < Cardinality(Unused)
    /\ \/ /\ fixStatus[f] = "open"
          /\ SetFixStatus(f, "fix_proposed")
          /\ GoTo(w, "insert")
          /\ UNCHANGED job
       \/ /\ fixStatus[f] # "open"
          /\ Finish(w)
          /\ UNCHANGED fixStatus
    /\ UNCHANGED <<resolvedAt, attemptVars, config, worldVars>>

\* insertAttempt takes the next id, then an UPDATE names its branch: nothing
\* reads the branch of an attempt that has no code yet, so this is one step.
InsertAttempt(w) ==
    /\ pc[w] = "insert"
    /\ \E a \in Unused :
          /\ \A b \in Unused : a <= b
          /\ SetStatus(a, "patching")
          /\ failureOf' = [failureOf EXCEPT ![a] = job[w].failure]
          /\ recent' = recent \cup {a}
          /\ job' = [job EXCEPT ![w].attempt = a]
    /\ GoTo(w, "llm")
    /\ UNCHANGED <<rowVars, newCode, config, worldVars>>

\* The model answers with a patch, or the call fails, or the diff is empty.
CallLlm(w) ==
    /\ pc[w] = "llm"
    /\ \E outcome \in {"proposed", "failed"} :
          job' = [job EXCEPT ![w].outcome = outcome]
    /\ GoTo(w, "finalize")
    /\ UNCHANGED <<rowVars, attemptVars, config, worldVars>>

\* Mutant: a failed proposal returns without giving the claim back.
FinalizeAttemptKeepsClaim(w) ==
    LET a == job[w].attempt IN
    /\ pc[w] = "finalize"
    /\ SetStatus(a, job[w].outcome)
    /\ newCode' = IF job[w].outcome = "proposed" THEN newCode \cup {a}
                                                 ELSE newCode
    /\ Finish(w)
    /\ UNCHANGED <<rowVars, failureOf, recent, config, worldVars>>

FinalizeAttempt(w) ==
    LET a == job[w].attempt IN
    /\ pc[w] = "finalize"
    /\ SetStatus(a, job[w].outcome)
    /\ \/ /\ job[w].outcome = "proposed"
          /\ newCode' = newCode \cup {a}
          /\ Finish(w)
       \/ /\ job[w].outcome = "failed"
          /\ GoTo(w, "release")
          /\ UNCHANGED <<newCode, job>>
    /\ UNCHANGED <<rowVars, failureOf, recent, config, worldVars>>

\* Mutant: the claim is released whatever has become of the row.
ReleaseClaimUnguarded(w) ==
    /\ pc[w] = "release"
    /\ SetFixStatus(job[w].failure, "open")
    /\ Finish(w)
    /\ UNCHANGED <<resolvedAt, attemptVars, config, worldVars>>

\* releaseClaim: guarded by fix_status = 'fix_proposed' and nothing else.
ReleaseClaim(w) ==
    LET f == job[w].failure IN
    /\ pc[w] = "release"
    /\ IF fixStatus[f] = "fix_proposed" THEN SetFixStatus(f, "open")
                                        ELSE UNCHANGED fixStatus
    /\ Finish(w)
    /\ UNCHANGED <<resolvedAt, attemptVars, config, worldVars>>
-----------------------------------------------------------------------------
(* applyFix *)

ApplyLoad(w, a) ==
    /\ pc[w] = "idle"
    /\ status[a] \in {"proposed", "patching"}
    /\ a \in newCode
    /\ job' = [job EXCEPT ![w] = [Idle EXCEPT !.attempt = a]]
    /\ GoTo(w, "git")
    /\ UNCHANGED <<rowVars, attemptVars, config, worldVars>>

\* One synchronous stretch of git.  An existing branch, an ambiguous or
\* dirty target throw before the checkout; past it, any failure rolls the
\* branch back (as far as git lets it) and is recorded as 'failed'.
ApplyGit(w) ==
    LET a == job[w].attempt IN
    /\ pc[w] = "git"
    /\ \/ /\ Finish(w)
          /\ UNCHANGED <<branches, pr>>
       \/ /\ a \notin branches
          /\ \E outcome \in {"proposed", "pr_opened", "failed"} :
                /\ job' = [job EXCEPT ![w].outcome = outcome]
                /\ \/ branches' = branches \cup {a}
                   \/ outcome = "failed" /\ UNCHANGED branches
                /\ pr' = IF outcome = "pr_opened" /\ pr[a] = "none"
                         THEN [pr EXCEPT ![a] = "open"] ELSE pr
          /\ GoTo(w, "recordApply")
    /\ UNCHANGED <<rowVars, attemptVars, config, hooks>>

\* recordApply writes by id, whatever the row's status has become.
RecordApply(w) ==
    /\ pc[w] = "recordApply"
    /\ SetStatus(job[w].attempt, job[w].outcome)
    /\ Finish(w)
    /\ UNCHANGED <<rowVars, failureOf, newCode, recent, config, worldVars>>

\* The UPDATE itself throws inside the try block: roll back, best effort, and
\* record 'failed'.  Deleting the remote ref closes an open pull request.
RecordApplyError(w) ==
    LET a == job[w].attempt IN
    /\ pc[w] = "recordApply"
    /\ w \in Unreliable
    /\ job[w].outcome # "failed"
    /\ job' = [job EXCEPT ![w].outcome = "failed"]
    /\ branches' \in {branches, branches \ {a}}
    /\ pr' \in {pr, IF pr[a] = "open" THEN [pr EXCEPT ![a] = "none"] ELSE pr}
    /\ UNCHANGED <<rowVars, attemptVars, config, hooks, pc>>
-----------------------------------------------------------------------------
(* verifyFix *)

VerifyLoad(w, a) ==
    LET f == failureOf[a] IN
    /\ pc[w] = "idle"
    /\ status[a] \in {"proposed", "pr_opened"}
    /\ job' = [job EXCEPT ![w] =
                 [Idle EXCEPT !.failure = f, !.attempt = a,
                              !.retries = EffectiveRetries(ProjectOf[f])]]
    /\ GoTo(w, "playwright")
    /\ UNCHANGED <<rowVars, attemptVars, config, worldVars>>

\* Check the branch out and run the spec.  A checkout that fails, for want of
\* the branch or otherwise, is an error and no verdict.
RunPlaywright(w) ==
    /\ pc[w] = "playwright"
    /\ \/ Finish(w)
       \/ /\ job[w].attempt \in branches
          /\ \E verdict \in {"recordVerified", "recordVerifyFailed"} :
                GoTo(w, verdict)
          /\ UNCHANGED job
    /\ UNCHANGED <<rowVars, attemptVars, config, worldVars>>

RecordVerified(w) ==
    /\ pc[w] = "recordVerified"
    /\ SetStatus(job[w].attempt, "verified")
    /\ Finish(w)
    /\ UNCHANGED <<rowVars, failureOf, newCode, recent, config, worldVars>>

\* recordVerifyFailed, first write: the attempt.
RecordVerifyFailed(w) ==
    /\ pc[w] = "recordVerifyFailed"
    /\ SetStatus(job[w].attempt, "verify_failed")
    /\ GoTo(w, "settle")
    /\ UNCHANGED <<rowVars, failureOf, newCode, recent, config, worldVars, job>>

\* Mutant: the attempt just flipped is not counted.
CapReachedLate(f, retries) ==
    retries > 0 /\ Cardinality(VerifyFailures(f)) > retries

CapReached(f, retries) ==
    retries > 0 /\ Cardinality(VerifyFailures(f)) >= retries

\* recordVerifyFailed, second write: back to 'open', or 'wont_fix' once the
\* failure has used its retries.
SettleFailure(w) ==
    LET f == job[w].failure IN
    /\ pc[w] = "settle"
    /\ \/ /\ fixStatus[f] = "fix_proposed"
          /\ CapReached(f, job[w].retries)
          /\ SetFixStatus(f, "wont_fix")
          /\ resolvedAt' = resolvedAt \cup {f}
       \/ /\ fixStatus[f] = "fix_proposed"
          /\ ~CapReached(f, job[w].retries)
          /\ SetFixStatus(f, "open")
          /\ UNCHANGED resolvedAt
       \/ /\ fixStatus[f] # "fix_proposed"
          /\ UNCHANGED rowVars
    /\ Finish(w)
    /\ UNCHANGED <<attemptVars, config, worldVars>>
-----------------------------------------------------------------------------
(* The webhook and markMerged *)

\* Mutant: no tenant check.
SameTenantUnchecked(d) == d \in hooks

\* A repository no project registered passes the check, and so does one
\* whose lookup throws.
SameTenant(d) ==
    \/ d.repo = None
    \/ d.repo = ProjectOf[failureOf[d.attempt]]
    \/ LookupMayFail

\* Look the branch up, refuse another project's repository, answer 200 to a
\* status that cannot merge (already merged included), else go on.
WebhookReceive(w, d) ==
    LET a == d.attempt IN
    /\ pc[w] = "idle"
    /\ d \in hooks
    /\ \/ /\ status[a] \in {"verified", "pr_opened"}
          /\ SameTenant(d)
          /\ job' = [job EXCEPT ![w] =
                       [Idle EXCEPT !.failure = failureOf[a], !.attempt = a,
                                    !.repo = d.repo]]
          /\ GoTo(w, "merge")
          /\ UNCHANGED hooks
       \/ /\ \/ status[a] \notin {"verified", "pr_opened"}
             \/ d.repo \notin {None, ProjectOf[failureOf[a]]}
          /\ hooks' = hooks \ {d}
          /\ UNCHANGED workerVars
    /\ UNCHANGED <<rowVars, attemptVars, config, branches, pr>>

RecordMerged(w) ==
    /\ pc[w] = "merge"
    /\ SetStatus(job[w].attempt, "merged")
    /\ GoTo(w, "resolve")
    /\ UNCHANGED <<rowVars, failureOf, newCode, recent, config, worldVars, job>>

\* markMerged's query throws: the handler logs it and answers 200 all the
\* same, so GitHub has no failure to deliver again.
WebhookError(w) ==
    /\ w \in Unreliable
    /\ pc[w] \in Merging
    /\ hooks' = hooks \ {[attempt |-> job[w].attempt, repo |-> job[w].repo]}
    /\ Finish(w)
    /\ UNCHANGED <<rowVars, attemptVars, config, branches, pr>>

\* The second write, and the 200 that settles the delivery.
RecordResolved(w) ==
    LET f == job[w].failure IN
    /\ pc[w] = "resolve"
    /\ IF fixStatus[f] \in {"fix_proposed", "fix_merged"}
       THEN /\ SetFixStatus(f, "resolved")
            /\ resolvedAt' = resolvedAt \cup {f}
       ELSE UNCHANGED rowVars
    /\ hooks' = hooks \ {[attempt |-> job[w].attempt, repo |-> job[w].repo]}
    /\ Finish(w)
    /\ UNCHANGED <<attemptVars, config, branches, pr>>
-----------------------------------------------------------------------------
(* Everything else that writes the same rows *)

\* A worker dies, or its query throws, at an await: nothing it did before is
\* undone, nothing after happens.
Crash(w) ==
    /\ w \in Unreliable
    /\ pc[w] # "idle"
    /\ Finish(w)
    /\ UNCHANGED <<rowVars, attemptVars, config, worldVars>>

\* Mutant: ON CONFLICT reopens every row, not only resolved ones.
UpsertFailureReopens(f) ==
    /\ fixStatus[f] # "open"
    /\ SetFixStatus(f, "open")
    /\ UNCHANGED <<resolvedAt, attemptVars, config, worldVars, workerVars>>

\* upsertFailure: a run saw this signature fail (again).
UpsertFailure(f) ==
    /\ fixStatus[f] \in {"absent", "resolved"}
    /\ SetFixStatus(f, "open")
    /\ UNCHANGED <<resolvedAt, attemptVars, config, worldVars, workerVars>>

\* Mutant: an operator's wont_fix does not set resolved_at.
MarkWontFixUndated(f) ==
    /\ f \in OperatorRows
    /\ fixStatus[f] \in {"open", "fix_proposed"}
    /\ SetFixStatus(f, "wont_fix")
    /\ UNCHANGED <<resolvedAt, attemptVars, config, worldVars, workerVars>>

MarkWontFix(f) ==
    /\ f \in OperatorRows
    /\ fixStatus[f] \in {"open", "fix_proposed"}
    /\ SetFixStatus(f, "wont_fix")
    /\ resolvedAt' = resolvedAt \cup {f}
    /\ UNCHANGED <<attemptVars, config, worldVars, workerVars>>

ReopenFailure(f) ==
    /\ f \in OperatorRows
    /\ fixStatus[f] = "wont_fix"
    /\ SetFixStatus(f, "open")
    /\ resolvedAt' = resolvedAt \ {f}
    /\ UNCHANGED <<attemptVars, config, worldVars, workerVars>>

\* upsertConfig replaces the whole row.
UpsertConfig(p, c) ==
    /\ config[p] # c
    /\ config' = [config EXCEPT ![p] = c]
    /\ UNCHANGED <<rowVars, attemptVars, worldVars, workerVars>>

\* 24 hours pass since an attempt started.
WindowSlides(a) ==
    /\ a \in Aging \cap recent
    /\ recent' = recent \ {a}
    /\ UNCHANGED <<rowVars, status, failureOf, newCode, config, worldVars,
                   workerVars>>

\* GitHub and the people in front of it.
OpenPullRequest(a) ==
    /\ a \in Reviewed \cap branches
    /\ pr[a] = "none"
    /\ pr' = [pr EXCEPT ![a] = "open"]
    /\ UNCHANGED <<rowVars, attemptVars, config, branches, hooks, workerVars>>

\* What the webhook sees of a merge in p's repository.
Delivery(a, p) ==
    [attempt |-> a, repo |-> IF p \in Registered THEN p ELSE None]

MergePullRequest(a) ==
    /\ pr[a] = "open"
    /\ pr' = [pr EXCEPT ![a] = "merged"]
    /\ hooks' = hooks \cup {Delivery(a, ProjectOf[failureOf[a]])}
    /\ UNCHANGED <<rowVars, attemptVars, config, branches, workerVars>>

\* A pull request with the same head ref is merged in a repository that is
\* registered to another project.
MergeElsewhere(a, p) ==
    /\ a \in Lookalikes
    /\ p \in Registered
    /\ status[a] # "unused"
    /\ ProjectOf[failureOf[a]] # p
    /\ Delivery(a, p) \notin hooks
    /\ hooks' = hooks \cup {Delivery(a, p)}
    /\ UNCHANGED <<rowVars, attemptVars, config, branches, pr, workerVars>>

Redeliver(a) ==
    LET d == Delivery(a, ProjectOf[failureOf[a]]) IN
    /\ pr[a] = "merged"
    /\ d \notin hooks
    /\ hooks' = hooks \cup {d}
    /\ UNCHANGED <<rowVars, attemptVars, config, branches, pr, workerVars>>
-----------------------------------------------------------------------------
WorkerStep(w) ==
    \/ ProposeQuota(w)
    \/ ProposeClaim(w)
    \/ InsertAttempt(w)
    \/ CallLlm(w)
    \/ FinalizeAttempt(w)
    \/ ReleaseClaim(w)
    \/ ApplyGit(w)
    \/ RecordApply(w)
    \/ RunPlaywright(w)
    \/ RecordVerified(w)
    \/ RecordVerifyFailed(w)
    \/ SettleFailure(w)
    \/ RecordMerged(w)
    \/ RecordResolved(w)

Request(w) ==
    \/ \E f \in Failure : ProposeLoad(w, f)
    \/ \E a \in Attempt : ApplyLoad(w, a) \/ VerifyLoad(w, a)
    \/ \E d \in hooks : WebhookReceive(w, d)

Fault(w) == RecordApplyError(w) \/ WebhookError(w) \/ Crash(w)

Environment ==
    \/ \E f \in Failure : UpsertFailure(f) \/ MarkWontFix(f) \/ ReopenFailure(f)
    \/ \E p \in Project, c \in Configs : UpsertConfig(p, c)
    \/ \E a \in Attempt : \/ WindowSlides(a)
                          \/ OpenPullRequest(a)
                          \/ MergePullRequest(a)
                          \/ Redeliver(a)
                          \/ \E p \in Project : MergeElsewhere(a, p)

Next ==
    \/ \E w \in Worker : Request(w) \/ WorkerStep(w) \/ Fault(w)
    \/ Environment

Spec == Init /\ [][Next]_vars
-----------------------------------------------------------------------------
(* Properties *)

TypeOK ==
    /\ fixStatus \in [Failure -> FixStatus \cup {"absent"}]
    /\ resolvedAt \subseteq Failure
    /\ status \in [Attempt -> AttemptStatus \cup {"unused"}]
    /\ failureOf \in [Attempt -> Failure \cup {None}]
    /\ newCode \subseteq Attempt
    /\ recent \subseteq Attempt
    /\ config \in [Project -> Config]
    /\ branches \subseteq Attempt
    /\ pr \in [Attempt -> {"none", "open", "merged"}]
    /\ hooks \subseteq [attempt : Attempt, repo : Project \cup {None}]
    /\ pc \in [Worker -> Step]
    /\ job \in [Worker -> Job]

\* An operator's (or the cap's) wont_fix stands until an operator reopens the
\* row: no attempt still in flight, whatever it read before, moves it.  This
\* is what the comment of markWontFix promises of stuck and in-flight rows.
WontFixStands ==
    [][\A f \in Failure :
          fixStatus[f] = "wont_fix" /\ fixStatus'[f] # "wont_fix"
              => fixStatus'[f] = "open" /\ f \in OperatorRows
                 /\ f \notin resolvedAt']_vars

\* A failure is only ever resolved on the strength of one of its own
\* attempts whose pull request GitHub has merged (webhook -> markMerged).
ResolvedByLandedFix ==
    \A f \in Failure :
        fixStatus[f] = "resolved"
            => \E a \in AttemptsOf(f) : pr[a] = "merged"

\* An attempt is 'merged' only if its own pull request was: a merge of a
\* like-named branch in another tenant's repository does not count.
MergedMeansLanded ==
    \A a \in Attempt : status[a] = "merged" => pr[a] = "merged"

\* The loop takes for merged, and for resolved, only what GitHub has merged.
MergesAreReal == ResolvedByLandedFix /\ MergedMeansLanded

\* Closed rows carry the time they were closed, whichever of the four writers
\* closed them: the cap-hit metrics select on fix_status and resolved_at.
ClosedRowsAreDated ==
    \A f \in Failure :
        fixStatus[f] \in {"wont_fix", "resolved"} => f \in resolvedAt

\* The daily gate is a check before an insert, so concurrent proposals can
\* pass it together; they exceed the ceiling by less than their number.
QuotaOvershootBounded ==
    \A p \in Project :
        EffectiveLimit(p) > 0
            => Cardinality(RecentAttempts(p))
                   < EffectiveLimit(p) + Cardinality(Worker)

\* Requests that hold the claim of f and will still act on it.
HoldsClaim(w, f) ==
    /\ job[w].failure = f
    /\ pc[w] \in {"insert", "llm", "finalize", "release", "settle", "resolve"}

Live == {"proposed", "pr_opened", "verified"}

\* When no worker dies, a failed apply is the only way a claim is left with
\* nothing behind it.
ClaimLeaksOnlyByApply ==
    \A f \in Failure :
        fixStatus[f] = "fix_proposed"
            => \/ \E w \in Worker : HoldsClaim(w, f)
               \/ \E a \in AttemptsOf(f) :
                     \/ status[a] \in Live
                     \/ status[a] = "failed" /\ a \in newCode

Landed == {f \in Failure : \E a \in AttemptsOf(f) : pr[a] = "merged"}

Lifecycle == INSTANCE FailureLifecycle WITH landed <- Landed

\* Every interleaving of requests, deaths and deliveries moves each failure
\* only as FailureLifecycle allows, and resolves it only after a fix landed.
ImplementsLifecycle == Lifecycle!Spec
=============================================================================
