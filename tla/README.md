# Verification of testgenie-backend

TLA+ models of the stateful parts of the TestGenie backend (an Express
application over Postgres), the TLC configurations that check them on small
instances, and proofs, checked by TLAPS, of what matters most for every value of
the constants.  Paths below are relative to the repository.

## 1. The system

One Node process (or several: the cron code calls them pods) serves a REST API
over one Postgres database.  Node runs one callback at a time, so the unit of
atomicity is *what runs between two awaits*; one SQL statement is atomic, and
almost no handler opens a transaction.  Every hard behaviour of the program
comes from that: two requests, two pods, or a request and a background job
interleave at their awaits, and a process may die at any of them.

| Component | State it keeps | What is hard | What makes it correct | Module |
|---|---|---|---|---|
| **Auto-fix: propose** `autoFixService.js` | `test_failures.fix_status`, `fix_attempts` | the gate is a count before an insert; the claim is a status, not an owner; a crash keeps it | bounded spending, a claim is always backed by something | AutoFix |
| **Auto-fix: apply** `autoFixApplyService.js` | a git checkout, pull requests | git may fail half way; the row is written by id after minutes of git | what landed stays landed | AutoFix |
| **Auto-fix: verify, merge** `autoFixVerifyService.js`, `routes/webhooks.js` | the same tables; deliveries GitHub holds | two writes without a transaction; late verdicts; duplicated deliveries; like-named branches | resolved and merged mean landed | AutoFix, FailureLifecycle |
| **Auto-fix: operators, configuration, lineage** `autoFixFailuresService.js`, `autoFixProjectConfigService.js`, `lineageService.js` | the same rows | operators act, and runs report failures, while attempts are in flight | `wont_fix` stands until an operator lifts it; closed rows are dated | AutoFix |
| **Auto-fix: cron** `autoFixCronService.js` | a flag in each process, one advisory lock | overlapping ticks, several pods, lost sessions, deaths | one tick per cluster while its session lives, every tick ends, the retry cap | AutoFixCron |
| **Accounts** `authService.js`, `signupJanitor.js` | users, organizations, links, sessions | checks before writes; the janitor and a boot run among requests | one organization per domain, sessions of verified users | Accounts, DomainClaims |
| **Second factor** `totpService.js` | `totp_secret_enc`, `user_recovery_codes` | two writes per change; two logins with one code | a code works once; the factor is whole | TwoFactor |
| **Team** `teamService.js` | roles, `users.organization_id`, invitations | a membership takes two rows; roles are read before an await | memberships whole, invitations honest, owners stay | Team |
| **Platform administration** `routes/admin.js`, `middleware/platformAdmin.js` | a cache of administrators, access tokens | revocation against a cache, a token, a read under way | what is taken away ends in time | Administration |
| **Test runs** `testRunService.js` | `test_runs`, `test_run_results` (JSON columns) | read, edit and write back by several testers | no step is lost, a run is not completed early | TestRuns, StepSheet |
| **Run reports** `routes/collections.js`, `runReportService.js` | `run_reports` | callbacks nobody waits for, a list written back whole | a report adds up and is closed | RunReports |
| **Schedules** `routes/schedules.js` | `scheduled_tests`, `activeJobs`, timers | memory and table change at different times; the restore races requests | a timer ticks iff its row is active | Schedules |
| **Stories and Playwright runs** `routes/stories.js`, `playwrightRunnerService.js` | stories, scenarios, cases; assets, runs, items | reviews overlap; runs outlive their request | approved scenarios have one case; verdicts agree; the run of an asset ends | Stories, PlaywrightRuns |
| **API sources** `apiSourceService.js`, `apiSources/*` | sources, versions, endpoints | overlapping refreshes; A, B, A; formats that name the same call differently | history and counts are honest; a commit is whole | ApiSources, ApiDocuments |
| **Chain sessions** `chainSessions.js`, `runners/apiRunner.js` | a Map over `chain_sessions` | cold loads, saves and resets race | steps get what they are owed, resets start cold | ChainSessions, ApiRunner |
| **Jira** `routes/jira.js` | OAuth client, tokens, a link | two reads with a refresh in between | a token goes to its own site | Jira |
| **Environments** `environmentService.js` | variables, one active set per user | clear, then set; secrets shown as a mask | one environment is active, with stored secrets | Environments |
| **Dashboards** `dashboardService.js` | nothing of its own | many queries of three windows, each of which may fail | the numbers add up | Dashboard |
| **Globals** `routes/globals.js` | `global_variables`, open streams | events after writes, lists beside events | a browser shows the rows | Globals |
| **Folders** `folderService.js`, `routes/folders.js` | folders, and what is filed in them | filing races deletion | nothing dangles, no test is lost with a folder | Folders |
| Metrics, e-mail, audit | rows nothing reads back | none that a state machine would show | | |

Components talk through the database.  The auto-fix loop in particular has no
caller that sees all of it: lineage inserts rows, the cron (or an operator) moves
them, GitHub closes them.  `PROJECT.json` lists every component with what is left
out of it, the hazards of each at the line where they bite, and the properties
that would catch them.

## 2. The modules

    FailureLifecycle          what the loop promises of one failure (abstract)
          ^ implemented by
    AutoFix                   rows, requests, webhook, operators, GitHub
          ^ extended by
    AutoFixCron               pods, the flag, the advisory lock, batches

    DomainClaims              who holds a company domain (abstract)
          ^ implemented by
    Accounts                  signup: rows, requests, janitor, boots

    StepSheet                 the steps of a tester's case (abstract)
          ^ implemented by
    TestRuns                  a run, its list, its results, its requests

    Stories <- PlaywrightRuns           scenarios, then the runs made of them
    ApiRunner <- ChainSessions          one API test, then a session of them
    ApiDocuments <- ApiSources          what texts say, then their history
    RunReports   Schedules   Team   Administration   TwoFactor   Jira
    Environments   Dashboard   Globals   Folders

    MC*                       values for TLC
    *Proofs                   theorems

In every module a *request* (worker, job, client, tab, page...) is one asynchronous
call in flight; its `at` (or `pc`) names the await it is suspended at, its other
fields the locals it still needs.  An action is what runs from one await to the
next, the statement it ends in included.  Variables called *history* in their
module change nothing: they record that requests have overlapped, that a query
failed, or what was shown to somebody, so that a property can say when the code
promises nothing.

### AutoFix

A *worker* is one asynchronous request in flight, in any process: a cron row, an
API call, a CLI script, a webhook delivery.  `pc[w]` names the await it is
suspended at and `job[w]` the local variables it still needs.

| Variable | Code |
|---|---|
| `fixStatus`, `resolvedAt` | `test_failures.fix_status`; whether `resolved_at` is set |
| `status`, `failureOf`, `newCode` | `fix_attempts.status`, `.test_failure_id`; whether `new_code` is set |
| `recent` | attempts with `started_at > NOW() - INTERVAL '24 hours'` |
| `config` | `project_autofix_configs`, a missing row being one without overrides |
| `branches`, `pr` | agent branches in the checkout; the pull request of each |
| `hooks` | deliveries GitHub has not had an answer to |

The actions follow the handlers await by await: `ProposeLoad`, `ProposeQuota`,
`ProposeClaim`, `InsertAttempt`, `CallLlm`, `FinalizeAttempt`, `ReleaseClaim` are
`proposeFix`; `ApplyLoad`, `ApplyGit`, `RecordApply` (and its failure,
`RecordApplyError`) are `applyFix`; `VerifyLoad`, `RunPlaywright`,
`RecordVerified`, `RecordVerifyFailed`, `SettleFailure` are `verifyFix`;
`WebhookReceive`, `RecordMerged`, `RecordResolved`, `WebhookError` are the webhook
with `markMerged`.  `ApplyGit` and `RunPlaywright` are single steps because git is
run with `execFileSync`, and nothing reads the checkout in the middle of a
Playwright run.  `Crash` is a death or a thrown query at any await.
`UpsertFailure`, `MarkWontFix`, `ReopenFailure`, `UpsertConfig` are single
statements; `WindowSlides`, `OpenPullRequest`, `MergePullRequest`,
`MergeElsewhere` and `Redeliver` are the clock, GitHub and the people in front
of it.

Two reads that precede a write in the same handler are folded into it where
nothing the model distinguishes can change between them: `insertAttempt` and the
`UPDATE` that names the branch of the new attempt, and the attempt and
configuration reads at the head of `proposeFix` and `verifyFix`.

### AutoFixCron

A pod is a worker whose stages are started by its tick.  `tick[w]` is where the
tick is, the rows of the batch that are left and the attempt in hand; `holder`
is the pod whose session holds the advisory lock; `lost` are pods whose tick goes
on although the pinned connection, and the lock with it, is gone (the process
logs an uncaught exception and carries on, `src/index.js:822`).  `Unlock` is the
finally block with both of its ends: a `pg_advisory_unlock` that fails is logged and
swallowed, and its client goes back to the pool with the lock still on it
(`autoFixCronService.js:262-268`).  `leaked` are the pods that is true of.  Their pool
may hand the locked connection to a later tick, which takes the lock once more, or
another one, which is refused; `SessionDrops` is also the pool closing an idle
connection, `PodDies` also the end of a pod between its ticks.  Workers that are not
pods keep all of AutoFix's behaviour (`Others`).

### FailureLifecycle

The legal moves of one failure: detect, claim, release, give up, revive, land,
resolve.  `AutoFix!Lifecycle` maps `landed` to the failures one of whose own
attempts has a merged pull request.  `Resolve` leaves `fix_proposed` only: the
code also accepts `fix_merged`, a status nothing writes.

### Accounts

A table is a function from row ids to rows, NULL where there is no row.  A *request*
is one HTTP call; `job[r].at` is the await it is suspended at, the other fields of
`job[r]` the locals it still needs.  An id is free again once no row and no request
remembers it: rows are deleted and created for ever in a finite instance.

| Variable | Code |
|---|---|
| `user` | `users`: e-mail, `organization_id`, whether `email_verified_at` is set, whether the row is older than `PENDING_TTL_DAYS`; with it the role of `organization_members` (`"none"`: no row) |
| `org` | `organizations`: domain, verified, suspended, old |
| `link` | `email_verification_tokens`: the user, whether it was used |
| `session` | `refresh_tokens`: the user |
| `invite` | the organization with a pending invitation for an address |
| `sweeping`, `boot`, `boots` | `sweepOnce` between its two statements; the statement `runStartupMigrations` is at; restarts so far |
| `domainUnique` | the schema, see below |

`register` is `Register` (its reads, up to the await that decides the case), then
`InsertFirstOrg`, `InsertUser`, `InsertMember` on the bootstrap path, `InsertUser`,
`InsertMember` on the join path, or `InsertPending`, the one path with a
transaction.  `registerWithInvite` is `RegisterWithInvite`, `InsertUser`,
`InsertMember`, `MarkAccepted`.  `verifyEmail` is a transaction too, and one action.
`ResendLookup`, `InsertLink` are the resend; `Login`, `RefreshSelect`, `RotateDelete`,
`RefreshGate`, `IssueSession` are login and refresh, with `Admitted` for
`enforceAccountAccess`.  `SweepUsers` and `SweepOrgs` are the janitor's two statements;
`Restart`, `GrandfatherUsers`, `GrandfatherOrgs` are a boot over tables in use, the old
process killed or draining meanwhile.  `Ages` is the clock, `SetSuspended` the platform
admin, `CreateInvite` an owner (standing for whoever may invite).  `Crash` is a death, or
a query that fails, at an await in `Fatal`.

Every INSERT decides by the unique indexes, as Postgres does: `EmailTaken` (users.email),
`Claimed` (the partial index over verified organizations) and `HasRow` (the UNIQUE of
`organizations.domain`).  Migration 006 creates that column UNIQUE and nothing drops it;
where the table is older than the migration, `CREATE TABLE IF NOT EXISTS` leaves the
column to `ADD COLUMN IF NOT EXISTS domain TEXT` (`src/src/index.js:134`), without it.  Both
schemas exist, so `domainUnique` is chosen by `Init`.

### DomainClaims

Of each domain the set of organizations that hold it: a step may give a domain that
nobody holds one holder, and never takes a holder away.  `Accounts!Claims` maps
`holders` to the verified organizations of the domain.

### TestRuns and StepSheet

One run of a project: `run` is the row of `test_runs` (state and `test_case_ids`),
`result` the `test_run_results` rows by case (status, `step_results`), `live` the
test cases there are, `job` the requests.  `OpenSteps`, `SaveStep`, `SaveNote` are
`setStepResult` and `setStepNote`; `SetResult` writes a whole case; both end in
`ReadRun`, `CountResults`, `SaveState`, the recount that moves the run between its
states.  `AddCases`, `AppendCases`, `SeedCase` and `RemoveCase`, `FilterCases`,
`UnseedCase` edit the list, which is read, changed and written back whole;
`CreateRun`, `UpdateRun`, `RemoveRun`, `SetCaseAssignee`, `CreateCase` and
`DeleteCase` are single statements; `Fail` is a query that throws at an await of
`Fatal`.  Lists are sets; a case id may be taken again once nothing remembers it.
StepSheet is one cell per step: marking one changes that one.  It is refined over
the cases of one tester (`Case \ Shared`): two testers of one case do overwrite each
other's JSON.

### RunReports

One run of one collection of `N` tests, in one of three `mode`s: `"parallel"` and
`"chained"` requests dispatch tests and do not wait for the callbacks that write the
report, `"scheduled"` runs do.  `phase[i]` is where a test, then its callback, is;
`SelectResults`, `AppendResult`, `BumpProgress` are `addTestResult` and the counter
beside it; `listed[i]` is the list as the callback read it, which it writes back with
one more.  `RecordAgain` is the catch block of a scheduled run, which records the
same test a second time; `CompleteRunReport` closes the report.  Queries fail at the
awaits of `Unreliable`; `Die` is the process.

### Schedules

`row` and `count` are `scheduled_tests`, `activeJobs` the map of the process and
`timers` the number of cron timers that really tick.  `StartJob` and `StopJob` are
the halves of a handler after its write; `ReadSchedules` and `StartRestored` are
`restoreSchedules`; `Fire`, `OpenReport`, `CloseReport`, `CountRun` a scheduled run.
One process: several would each restore every schedule (section 5).  A restore that
fails is not retried, so `ActiveSchedulesRun` excuses it.

### Team and Administration

Team has the rows of one organization: `role` is `organization_members`, `place` is
`users.organization_id`, `status`, `invite`.  `UpdateMemberRole`, `RemoveMember`,
`DeactivateMember`, `ReactivateMember`, `GrantRole`, `CreateInvite`, `ResendInvite`,
`RevokeInvite`, `AcceptInvite` read and decide; the actions named for a write
(`WriteRole`, `DeleteMembership`, `DetachUser`, `InsertMembership`, `AttachUser`,
`MarkAccepted`...) follow after an await each.  `JoinElsewhere` is a user who joins
another organization, `Fail` a request that ends between two of its writes.

Administration has time.  `remembered` is `_adminCache`; `access` are the ticks left to
an access token of a user's own, `lent` those left to one that was minted for an
impersonation or an entry (`Minted`).
`GateHit`, `LoadAdminRow`, `InstallAdminRow` are `requirePlatformAdmin` with its cache
and the read under way; `PatchUser`, `DeleteUser`, `PatchOrganization`, `SignIn`,
`Renew`, `Impersonate`, `EnterOrganization` are the routes.  `adminGrace`, `enterGrace`
and `entryGrace` count down from the moment something is taken away: the pages of an
administrator, the tokens of entry of a platform administrator, the account.  What
`StandingIsRecent` does not bound is what the code does not (see the divergences): tokens
of entry of a deleted or deactivated user who is still platform administrator, and tokens
of impersonation.  Members do not move
between organizations here; passwords are right; `Target` restricts whose pages are
opened; `Latency` is how many ticks a read under way may take (0 in the instance, any
number in the theorem).

### Stories and PlaywrightRuns

Stories is one story: extraction (by the model, or by the rules when it returns too
few), review, and `ensureTestCaseForScenario`, which looks for the case
(`FindCaseOfStory`, `FindCase`), inserts it (`InsertCase`) and swallows every error.
PlaywrightRuns extends it: `GenerateTests`, `CreateAsset`, `RequestRun` with its
preflight, `InsertRun`, `MarkAsset` for one run, `RequestBulk`, `InsertBulk`,
`QueueItems`, `NextAsset`, `Refuse`, `CloseBulk` for many; and, detached from any
request, `RunPlaywright`, `RecordVerdict`, `ReportToAsset`, `FinishItems`, `FailRun`,
`FailAsset`.  `RunsSettle` says of the run of one asset that it ends, and of a bulk run
only that its list does: `CloseBulk` leaves the row of a bulk run at "running" as soon
as one of its assets got started, and nothing writes it again
(`playwrightRunnerService.js:452`).  The readiness label and the archived flag, which no run reads, are left
out.

### ApiRunner and ChainSessions

ApiRunner is a pure function: one test sent to a site that is a function from
requests to responses, with substitution, redirects and their cookies, assertions and
extraction.  Values are names (there or not there), and `contains` and `matches` are
not told apart.  ChainSessions has `cached` (the Map), `heap` (the objects requests
hold), `row` (the table) and the requests of one session key: `ReadRow` and `Install`
are the cold load, `Ingest` what a step makes of a response, `Save` the write back,
`BeginReset` and `DeleteRow` the reset, `Restart` and `Expire` the ends of a session
(expiry only where nothing is in flight).

### ApiDocuments and ApiSources

ApiDocuments says which operations, with which fingerprints, the adapters for OpenAPI,
Postman, curl and bare addresses find in a text; headers, bodies and the secret scan are
left out.  A segment of a path is text, a path parameter in either spelling, a Postman
`{{variable}}` or, at the end, the query string; `Fake` is what the Postman adapter does
to the variables of an absolute address, each of which it replaces by the text
"placeholder" for good (`postman.js:117`), while the query stays in the path
(`postman.js:123`).  ApiSources has the `source`, its `version`s, the
`endpoint`s of the import and the `test`s made of them: `Probe`, `PasteSource`,
`IngestSource`, `Respond`, `Redirect`, `Import`; `RefreshSource`, `Compare`,
`CountDrift`, `InsertVersion`, `CommitVersion`; `CommitToCollection`,
`CheckCollection`, `InsertTest`, `CommitTests` for the one transaction.

### TwoFactor, Jira, Environments, Dashboard, Globals, Folders

- **TwoFactor**: `factor` is `totp_secret_enc` and whether `totp_enabled_at` is set,
  `recovery` the codes.  `StoreSecret`, `WipeCodes` are a setup; `Enable` a
  confirmation; `MarkUsed`, `DropSecret`, `Drop` disabling; `Consume` and
  `LetThrough` a login.  A code of the authenticator is as good as its secret; ten
  recovery codes are a few.
- **Jira**: `oauth`, `integration`, `link`; `ExchangeCode`, `ReadResources`, `Upsert`
  connect; `GetValidToken`, `RefreshToken`, `SaveToken`, then the second read
  `ReadCloudId` and `PostComment` use it.
- **Environments**: `ClearActive` then `SetActive`, with `PatchEnvironment` and the
  other single statements.  A value is plain or the mask that stands for a secret.
- **Dashboard**: `SafeQuery` runs the next query of a dashboard over rows that change
  (`InsertExecution`, `RecordResult`) and grow old (`LeaveWeek`, `LeaveMonth`: `aged` has
  how many executions, which are in order of their age, and which results are past the
  windows); one that fails counts as no rows.  `Answer` gives each query its window: the
  trends thirty days, the failing and the flaky tests seven, the rest none.
- **Globals**: `UpsertGlobal`, `UpdateGlobal`, `DeleteGlobal` write a row, `Broadcast`
  tells the streams; `ListGlobals` and `ShowList` are a list that crosses the events.
- **Folders**: both tables of folders, with `MoveFolder` for those of projects;
  `EmptyFolder` and `DeleteFolder` are the two statements of a deletion.

## 3. The runs

| Run | Instance | What it shows |
|---|---|---|
| `autofix_loop` | 1 failure, 2 attempts, 2 workers that may die, operators, merges, redeliveries, a look-alike branch in a second tenant, no daily limit | closed rows are dated, resolved and merged mean landed, `wont_fix` stands, and every step is one of FailureLifecycle |
| `autofix_quota` | 1 failure, 3 attempts, the first of which leaves the 24 hour window, 2 workers, an operator who spells out the configuration | concurrent proposals pass the daily limit by less than their number; when nobody dies, a failed apply is the only way to leave a claim with nothing behind it |
| `autofix_cron` | 2 pods, 2 failures, batch 2, 4 attempts, one pod that may die, see queries or its unlock fail, or lose the lock's session, an operator who may switch the project off | one tick at a time while its session lives; the lock is backed by a tick, or by a session that a failed unlock gave back to the pool; no attempt is verified twice at once, the retry cap holds, every tick ends |
| `accounts_signup` | two colleagues, suspension of their organization, the janitor, one reboot, a death after the first organization, both schemas | no session of an unverified user, no organization swept from under a user, colleagues in one organization, DomainClaims implemented |
| `accounts_settle` | `FairSpec`; one of the two may be invited, requests may die between the inserts of either path | every signup ends verified or cleared away, with its organization |
| `accounts_boot` | expects a violation | a restart verifies every pending signup without a link |
| `test_runs` | 2 cases (one shared and without steps, one with two), 2 requests, queries that fail at three awaits | testers alone never complete a run early; a request nobody came between settles it; StepSheet implemented |
| `run_reports` | `FairSpec`; 3 tests, a pool of 2, all three modes, failing queries and deaths | chained tests see what came before; counters, list and status of a report agree; reports settle |
| `schedules` | `FairSpec`; 1 schedule, 2 requests, 2 runs, 1 restart, a failing restore and failing reports | timers follow `activeJobs`, jobs follow rows, counted runs are closed, active schedules run |
| `team` | 2 users, 2 invitations, 2 requests; beside it 2 accounts, 1 company, lifetimes of one tick | memberships are whole, invitations tell the truth, an owner falls only to an owner; what an administrator takes away ends in time, but for what the code renews for ever |
| `playwright_runs` | fairness of requests and executions; 2 scenarios, 2 writers, 2 assets, 2 runs | approved scenarios have one case, verdicts agree from run to asset; the run of an asset ends once it was started, a bulk run comes to the end of its list |
| `services` | TwoFactor, Jira, Environments, Dashboard, Globals, Folders, ApiSources and ChainSessions, each with its own part of the instance | `SessionsHold`, `HistoryIsHonest`, `ImportIsWhole`, `FactorHolds`, `TokensFitTheSite`, `RunsKnowTheirEnvironment`, `DashboardAddsUp`, `StreamsFollowRows`, `FoldersLoseNothing` |

`MCTeam` and `MCServices` check several components in one run.  A variable `part`,
chosen at the start, says which of them moves; they share no variable, so every
behaviour is a behaviour of one of them and the states are their sum, not their
product.  (Team and Administration do change the same tables.  Their interleaving is
in neither: Team has the statements of both on one organization.)

### Bounds

- AutoFix: `Attempt` bounds `fix_attempts` (guards of `ProposeClaim` and `Fire` keep a
  claim from finding no id left), `Worker` the requests in flight, `Aging` the
  attempts that may leave the 24 hour window, `Reviewed` those a person may open a
  pull request for, `Lookalikes` those whose branch name also exists in another
  tenant's repository, `Unreliable` the workers that may die or see a query fail.  Two
  workers are enough for every race between two requests; three attempts are needed
  where two pass the gate together and a third may be let in, wrongly at once, or
  rightly when the first has left the window (`autofix_quota`; one failure is enough,
  which two requests claim one after the other once both have passed the gate).
- Accounts: two addresses of one company domain, two requests, two user and link rows,
  as many organizations as can exist at once, one session row.  Colleagues race for
  one domain, which takes two of everything.  `MaxBoots` bounds the restarts over
  populated tables, `Suspendable` the domains whose organizations an admin touches,
  `Fatal` the awaits at which a request may die, `Invitable` the addresses that are
  invited.
- TestRuns: the races are between two writers of one row, so two requests; of two
  cases one has steps and one tester, the other is shared.  `Deletable` bounds which
  case disappears under the run.
- RunReports: three tests and a pool of two are the least in which one test waits for
  the pool while two callbacks write over each other.
- Schedules: two runs overlap, two handlers cross, and one restart meets both.  An id
  is not used twice, as in the table.
- AutoFixCron: one pod may lose the session, and is the unreliable one: what the other
  may do, it meets as the one that is refused, or let in beside it.
- PlaywrightRuns: two runs of one asset, or one bulk run of two; `MCPlaywrightRuns`
  lets assets be made once the story rests, so that not every state of the one is met
  by every state of the other.  `Lost` and `Drop` are the awaits that fail; with no id of
  `Run` left an insert throws, as for a deleted asset (`CannotInsert`).
- Team: a caller, a target and an invitation, twice.  `Given`, `Granted`, `Invited`,
  `Subject` restrict which roles and whom, `Fatal` where a request dies.
- Services: two requests each, which is what every race in them takes; three
  objects for two sessions and the one that replaces them; three versions, which the
  drift against the import takes; two sites for one token in the wrong hands; two
  environments of two users; two executions, of any age (`RunsListed` and
  `FailuresListed` 1, so that lists are cut); two folders and two tests.  `Fragile` and
  `Breaks` are the awaits that fail.  Of ApiSources refreshes and commits are explored
  apart, because they share only the endpoints of the import, which no step changes once
  they are there.  Its texts are one API in several formats and words, one of them a
  collection whose path has a `{{variable}}` and a query.

Symmetry is over requests (and, in `accounts_signup`, addresses; in `team`,
invitations): nothing tells them apart.  The ids that an action picks from by
`CHOOSE` are in no symmetry set.  Runs with liveness properties use none.

`CHECK_DEADLOCK` is off everywhere: once all ids are used and every request has
ended, the system really stops.

Deliberate choices behind the passing runs: `autofix_quota` has no deaths, because
`ClaimLeaksOnlyByApply` is about the paths of healthy requests (a death between claim
and finalize leaks a claim trivially); `autofix_loop` has `LookupMayFail = FALSE`,
because the webhook lets a merge through when its repository lookup throws, and
`MergedMeansLanded` then fails by design of that code; `ColleaguesShareOrg` speaks of
the time before the first boot over populated tables, because a boot verifies users
whose organization it cannot verify, and of addresses an organization has not let
through as guests; `SwitchedOff` in `autofix_cron` and `Override` in `autofix_quota`
leave the limits as they are, because a cap or a ceiling that is lowered has been
passed already.

### Fairness

- `FairCronSpec`: weak fairness of each pod's `PodStep`.  Every await of a tick is a
  pool query, a synchronous git command, a model call or a Playwright run; all of
  these return, throw or time out, and the tick is the only caller of its own
  continuation.  Nothing makes the schedule fire, a pod die or a session drop.
- `FairSpec` of Accounts: weak fairness of a request in flight (it waits for a query,
  which returns or throws), of `Ages` (the clock runs), of `SweepUsers` and
  `SweepOrgs` (`setInterval` calls `sweepOnce`).  Nobody is made to register, to click
  a link, to ask for one or to log in.
- `FairSpec` of RunReports: weak fairness of `Complete` and of each test's `Work`: a
  test has a timeout, its callback waits for queries.
- `FairSpec` of Schedules: weak fairness of the restore, which a timer starts, and of
  requests in flight.  Nothing makes a schedule fire.
- `Fairness` of PlaywrightRuns: weak fairness of requests and of executions, whose
  process is spawned with a timeout (`playwrightRunnerService.js:490`).

### Findings

One run expects a violation.  A boot executes
`UPDATE users SET email_verified_at = created_at WHERE email_verified_at IS NULL`
every time, where the comment beside it (`src/src/index.js:406`) says that it is for
the users who were there before the column.  `VerifiedByLink` says that nobody is
verified but by a link; `accounts_boot` registers one address, restarts and finds the
row verified.  `PROJECT.json` quotes the line.

### Known divergences

What the code allows, and no property forbids.  The models have all of it unless it is
marked as outside of them.

- *Auto-fix.*  A failed apply leaves a failure `fix_proposed` with nothing behind it.
  Two verdicts on one attempt release its claim twice, the second time from under a
  new proposer.  A late verdict or apply overwrites `merged`.  If the second write of
  `markMerged` fails, no redelivery repairs it.  Lineage reopens a resolved row with
  its `resolved_at`.
- *Auto-fix cron.*  An unlock that fails leaves the lock on an idle connection, and every
  pod's ticks, but one that happens to get that connection, are refused until the pool
  closes it.  Two ticks overlap after one has lost its session.  The comment at
  `autoFixCronService.js:207-209` says that without the cluster lock Playwright "would
  spawn twice for the same fix_attempt"; `VerifiedOnce` holds, and is proved, without the
  lock: the claim is per failure, `insertAttempt` hands out a new id, and a tick verifies
  the attempt it has proposed itself.  What the lock adds is that two ticks do not work
  through one batch side by side.
- *Accounts.*  A pending organization keeps a second signup of its domain out, where
  the column is UNIQUE.
- *Administration.*  Two platform administrators can revoke each other.
  `_loadAdminRow` ignores `status`, and `POST /admin/organizations/:id/enter` mints a
  token of 30 minutes for whoever it admits, so a platform administrator who was deleted
  or deactivated, and not demoted, goes on for ever: each token opens the next
  (`routes/admin.js:664-711`).  Only a demotion ends it.  An impersonation does not look
  at the status of the user it is of.  `requireAdminAccess` looks at the row of the token's
  subject, not at its `isPlatformAdmin`.
- *Test runs.*  Two testers of one case overwrite each other's JSON.
- *Playwright runs.*  The parent of a bulk run stays "running" for ever as soon as one of
  its assets got started, with no failure anywhere (`playwrightRunnerService.js:452`), and
  so do the items of those assets: `executePlaywrightRun` updates items under the id of
  the child run, which has none (`playwrightRunnerService.js:355-360`).  A bulk run
  records its verdicts without the organization.
- *Schedules.*  Activation clears the failure flag of the caller and not of the owner.
  A PATCH without a cron keeps the old environment in the timer.  Several processes
  would each restore every schedule (not modelled).
- *API sources.*  Texts A, B, A leave B the current version.  Imported tests assert
  with operators (`lt`, `eq`) that `evaluateAssertions` does not know, contrary to
  `apiSourceService.js:299-302`.  A commit ignores `deleted_at`, a refresh updates a
  deleted source, overlapping refreshes may leave the older text current.
  Fingerprints read the first server only; the base path of a server makes formats
  disagree, and so do a query, which only Postman keeps in the path, and a `{{variable}}`
  of an absolute Postman address, which becomes the text "placeholder": `GET /users/{id}`
  in OpenAPI and `https://host/users/{{id}}` in Postman are one endpoint more and one
  less at a refresh, contrary to `fingerprint.js:3-8`, and two variables of one place are
  the same endpoint.  `Comparable` says of which texts formats do agree; a pasted text
  without servers is fingerprinted with no address at import and with that of the source
  at a refresh; samples of a Postman collection keep `{id}` unbound; curl's `-G` counts
  only before `-X`.
- *Jira.*  Taking the link of a defect to an open report ignores Jira's answer; a
  replaced OAuth client leaves the expired token in place, in silence.
- *Environments.*  A mask that is sent back is stored over the secret it stood for.
- *Dashboards.*  The trends are of thirty days, the failing and the flaky tests of seven,
  the summaries above them of all rows: they disagree as soon as a row is older.
- *Globals.*  Streams reach the same user in the same process, although the comment
  says all team members; a list that was read before an event and arrives after it
  undoes it.
- *Folders.*  A project's folder may be moved into its own subtree; folders and tests
  may name folders of another collection or project; a deletion that names the wrong
  collection takes the tests out of the folder before it answers 404.

## 4. The proofs

Each proof module extends the module it is about, and its theorems assume only what
that module ASSUMEs of its constants, which TLC evaluates in every run, and the
hypotheses they state.  The argument is everywhere the same: an inductive invariant
that says what a request in flight may still count on; one lemma per action; a lemma
for the requests that did not move; and the property read off the invariant (or, for
an action property, off what each step may change).  All inductive invariants were
checked by TLC on an instance before they were proved.

**AutoFixProofs**, for any sets of projects, failures, attempts and workers:

- `TypeCorrect`, `InvHolds`.  `TypeOK` is not inductive by itself: `RecordApply` writes
  the status of `job[w].attempt`, which has to be an attempt and not NULL.  `Inv` adds
  that an attempt in use names a failure (`Owned`), that unused attempts have no
  branch, pull request or code (`Fresh`), that every delivery names an attempt in use
  (`HooksKnown`), and that a request past its first await still holds the rows it read
  (`Holds`).
- `WontFixIsFinal`: only an operator's reopen takes a failure out of `wont_fix`.
- `ClosedAreDated`: wont_fix and resolved rows carry `resolved_at`.
- `MergedHaveLanded`, `ResolvedHaveLanded`, `MergesHaveLanded`, `Implements`: under
  `TenantsKeptApart` (no look-alike branch, or a repository lookup that does not fail)
  merged and resolved mean landed, and AutoFix implements FailureLifecycle.  The extra
  invariant `LandInv` says which deliveries and which requests in flight carry a merge
  that really happened.
- `ClaimsAreBacked`: if no request dies, every claimed failure has a request at work on
  it, or an attempt that can still land, or one whose apply failed.  `ClaimInv` says
  what each is between two awaits; a request that will settle a failure carries the
  attempt of that failure.
- `OvershootIsBounded`: proposals that pass the gate together exceed the ceiling by
  less than their number.  The gate is a count before an insert, so `QuotaInv` counts
  what is to come too: attempts of the last day and requests past the gate, together,
  are fewer than the ceiling and the workers.  Hypotheses: finitely many workers, and
  nobody moves the ceiling (`LimitStands`).

`StepMovesOneRow` says which row a step may move and how; the action-level theorems
are read off it.

The second half of the module is about the cron, from `CronAssumption` as well (its
finiteness of `Failure` makes the size of a batch a number):

- `CronTypeCorrect`, by `CronInv`: where a tick is says which awaits its row can
  be at (`Stage`), and past the proposal the request works on the attempt the tick
  holds.  Without it a tick could be at `apply` with no attempt in hand.
- `CronIsAutoFix`: `CronSpec => Spec`, so AutoFix's theorems hold of the cron.
- `LockAlwaysBacked`, `TicksExclude`, `ClusterLock`, by `LockInv`: every tick past the
  gate either holds the lock or has lost its session, and a lock is held by such a tick or
  by a session that an unlock that failed has leaked.
- `VerifyOnce`, by `HandsApart`: no two ticks have the same attempt in hand, because
  `InsertAttempt` hands out an unused id and a tick works on nothing else.  The proof
  does not use `LockInv`: it holds even of ticks that overlap.
- `CapIsKept`: left to the cron (every request is a tick, no operator works on rows,
  no configuration overrides the number of retries), a failure fails its verification
  at most AUTOFIX_MAX_RETRIES_PER_FAILURE times.  The cap is only looked at when a
  verdict settles, so `CapInv` says why no tick starts without a try left: whatever is
  open has one, and each claim is in the hands of one tick, whose failure has one until
  the verdict is written.  A tick that dies keeps its claim for ever, and with it the
  count.

**AccountsProofs**, for any addresses, domains, row ids, requests and boots:

- `TypeCorrect`, `InvHolds`, `SessionsVerified`, `OrgsStay`.  The inductive invariant
  `Inv` adds that links name users (`LinksLive`), that the organization of every user
  exists, and is out of the janitor's reach as long as the user has no membership row
  (`UsersHoused`), that invitations name such organizations too (`InvitesKept`), and
  what a request still knows at each await (`Holds`).  Out of reach is `Kept`: verified,
  or with a verified member.  Without it `SweepOrgs` could take the organization a
  request is about to insert a user into.  `Lasting` says what no step takes away.
- `Implements`: Accounts implements DomainClaims.  `OrgStep` says what a step may do
  to organizations: a domain never changes, a verified one stays so, and one that
  becomes verified was alone with its domain.
- `ColleaguesTogether`: `ClanInv` adds that two verified organizations of one domain are
  one (`OneHolder`, from `OrgStep`), and, before the first boot, that verified users are
  in verified organizations and that users, invitations and requests about to insert
  a user match the domain of the organization.

**TestRunsProofs**, for any cases, steps and requests: `RunsTypeCorrect`;
`RunsAreDoneInTime`, a run that only testers write is not completed before as many
cases are executed as its list is long; `SerialRequestsSettle`, a request that nobody
came between leaves the run in the state its rows call for; `SheetsAreKept`, TestRuns
implements StepSheet over the cases of one tester.  `RunsInv` says of each request what
it carries (`Shape`), what it still knows while nobody wrote, or nobody edited the
list (`Knows`), and that the steps it read of its own case are the row's (`Holds`).

**RunReportsProofs**, for any number of tests, any pool and any failing await:
`RunReportsTypeCorrect`; `ChainsAreInOrder`, a chained test starts when those before it
have ended; `ReportsAreHonest`, counters, list and status agree.  In `ReportsInv`,
`Chained` and `Serial` say how far the tests of the two sequential modes are, and the
report of overlapping callbacks is bounded by a set of the tests that were appended:
counters are its size, and the list, which a callback may have written back short, is
part of it.

**SchedulesProofs**, for any schedules, requests, runs and restarts.  `SchedulesInv` has
three parts.  `Basis` holds whatever overlaps: types, that an id never given out is
nowhere, and that a schedule has the timer of its job and no other.  `Orderly` is about
a schedule on which handlers have kept apart: one request at most is at work on it and
none while the restore is about to start it (`Alone`), what the restore has read still
stands (`Restoring`), what a request is about to do is what the row calls for
(`Intends`), and where nobody is about to do anything the job fits the row (`Fits`,
`Runs`).  `Counts` bounds the column by the set of the runs that may have been counted,
those closed and past the write of the statistics.

- `JobsAreInStep`: a timer is the one `activeJobs` knows of, and a job is the one its row
  calls for.
- `RunsAreCounted`: `run_count` is at most the number of reports closed.

**PlaywrightProofs**, for any scenarios, reviewers, assets, runs and requests:

- `StoriesHaveCases`, by `StoriesInv`: an approved scenario whose case was neither lost
  nor deleted has one, or an approval on its way to it (`Covered`), and never two: the
  unique index refuses the insert of an approval that was overtaken (`OneCaseEach`).
- `VerdictsAreHonest`, by `RunsInv`: what a request carries at each await (`Carries`), what
  it still knows of the run it has inserted or of the bulk run it works through (`Holds`),
  that no run is in two hands (`Apart`), what the rows say (`RowStands`), how far a row is by
  what its execution is at (`StageStands`), and that the verdict of an asset has a run
  behind it, reported or about to be (`Shown`).

**TeamProofs**, for any users, invitations and requests: `TeamTypeCorrect`;
`MembersAreWhole`, a role and a membership go together unless a request died between
them; `InvitesAreHonest`, one pending invitation an address, accepted if and only if
somebody joined by it; `OwnersFallToOwners`.  `TeamInv` is a conjunction by subject:
what a request has in hand (`WellFormed`), that its target is no owner while nobody has
overtaken it (`Standing`), that two requests do not complete one membership
(`Distinct`), and the rows of `Membership`, `Invitation` and `Acceptance`.
`StandingOutlivesLittle` is about Administration, for all lifetimes and all delays of a
read: `GraceInv` ties the time left to the cache, to each token and to each read under
way to the time since the thing was taken away; a request let in has used up no more
grace than it has waited.  `EnteredInv` adds the tokens of entry, which are minted on the
word of the cache or of a read under way, and last from there.

**ServicesProofs**, the components that share no variable:

- `FactorIsSound`: a recovery code lets one login in, whatever overlaps, and changes
  of the factor that do not overlap leave it whole (`FactorInv`).
- `TokensStayWithTheirSite`: a token goes to its own site unless the user reconnected
  between the two reads (`JiraInv`).
- `EnvironmentsAreKnown`: a run resolves its variables with one environment and with
  stored secrets, but for the cases the property names (`EnvironmentsInv`).
- `BrowsersFollowRows`: a browser shows the rows, but for requests in flight and events
  out of order (`GlobalsInv`).
- `DashboardIsConsistent`: a dashboard adds up unless a query failed, or a row changed or
  left a window, meanwhile, and its pass rate is a percentage in any case.  By `ViewStands`,
  a query is to come, or answered as the rows are, or they have been stirred.  A window
  shows no more than all rows (`DaysAreOfRows`, `DaysAreOfBoth`), and the same only while
  none is older: that is all that is claimed of trend and summary.
- `FormatsMeanTheSame`: for all texts of OpenAPI or Postman whose calls go to the root of
  one server, at paths without a query and without a `{{variable}}` (`Comparable`), as many
  fingerprints are new as calls.  Every format is taken apart: the fingerprints of a text are its calls with
  the names of variables dropped, one to one (`DescriptionsCompare`,
  `CollectionsCompare`, `PrintsDiffer`).  `ApiSourcesAssumption` asks of a text no more
  than that it is a finite object, with segments of the kinds above, and of a collection
  that it is a tree; what the formats disagree about is left to `Comparable`.
- `HistoryStaysHonest`, `ImportsAreWhole`, by `SourcesInv` (for all texts; that the drift is
  of calls, for those of `Comparable`): what the rows of a source say
  of its versions (`CatalogStands`), that a content stored twice was stored by refreshes
  that overlapped (`ContentsApart`), and what a request holds of both (`CallerStands`).
- `ChainTypeCorrect`, `StepsAreHandedTheirDue`, `ResetsStartCold`: whatever site is under
  test, a step is sent what the steps before it were handed, unless the session was lost,
  and nothing from before a reset, unless what was in flight brought it back.  In
  `ChainInv`, `OwedIsKept` and `CarriesOn` hold while nothing was lost, `NothingIsOlder`
  and `StartsCold` while nothing was revived, and a request that a reset has crossed does
  not share the object of the Map (`IsApart`).  `SessionsStand` draws the conclusion that
  `SessionsHold` states, that such a step passes, for sites that fail no test for being
  handed more than it was owed (`Generous`).  That is a hypothesis about somebody else's
  program, so the theorem states it; TLC evaluates it for the site of the run.
- `FoldersKeepTests`: nothing is left in a folder that is not there, and what goes with a
  folder is what is under it, even where folders have been moved under themselves.
  `SubtreeIsClosure`: the levels of the cascade settle, because one that does not is
  larger than its number says, and there are as many levels as folders.

**Recursive functions.**  The induction theorems of the library take an operator as a
parameter, which no prover instantiates; the theorem that a well-founded relation has
minimal elements takes a set.  What a recursive function computes (the walk through a
collection, `FlattenSeq`, the levels of a subtree, the trail of redirects) is therefore
proved by the least place at which it would be wrong (`SomeIsLeast`).

**Model-checked only.**  The liveness properties `TickEnds`, `SignupsEnd`,
`ReportsSettle`, `ActiveSchedulesRun` and `RunsSettle`: fairness and ENABLED are out of the
prover's reach.  Every other property of a passing run is stated by a theorem.

## 5. Not modelled

- The commit a branch starts from: `applyFix` branches from whatever HEAD is.
- HMAC verification, prompts, diffs, `previewConfig`, exports, metrics, audit.
- A webhook delivery for a branch no attempt names: it is answered 200.
- Of accounts: password reset, the expiry of links and of refresh tokens (a link that
  expired is one nobody clicks), the throttle of resends (a request that it turns away
  changes nothing).
- Several processes that keep schedules.
- Of teams: allowed domains, settings, the audit trail; of the administration: feature
  flags, metrics, lists.
- Of API sources: headers, bodies, authentication, the secret scan.
- Of dashboards: durations, distributions, schedules, the LIMIT of the lists of failing and
  of flaky tests.
- Browser steps of a test, the text of generated tests, the parsing of reports.
- E-mail, sharing, and routes that only read.

`PROJECT.json` says of every component what is left out of it.

## 6. What is left

1. AgentRepo: HEAD, stacked branches and rollback, composed with AutoFix's `ApplyGit`.
2. Several processes for Schedules, each with its own `activeJobs`.
3. Team and Administration on the same tables, in one module that composes them.
