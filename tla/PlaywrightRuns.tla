---------------------------- MODULE PlaywrightRuns ----------------------------
(***************************************************************************)
(* From approved scenarios to Playwright runs: generated tests, automation *)
(* assets, the readiness that is verified before a run, single and bulk    *)
(* runs, and the executions that go on after the request was answered.     *)
(***************************************************************************)
EXTENDS Stories

CONSTANTS
    Asset, Run,     \* ids of automation_assets and playwright_runs (bounds)
    Client,         \* requests on the assets that are in flight at once
    Drop            \* awaits at which one of those, or an execution, may fail

Config == {"unmapped", "mapped"}    \* the default config, and its selectors
Code == {"draft", "grounded"}       \* tests, with and without TODO selectors
Verdict == {"passed", "failed"}
RunRow == [asset : Asset, parent : BOOLEAN, status : Verdict \cup {"running"}]
ClientAt == {"idle", "store", "insertRun", "markAsset",
             "insertBulk", "items", "next", "refuse"}
ExecAt == {"none", "files", "final", "asset", "items", "failing"}

ASSUME PlaywrightAssumption ==
    /\ NULL \notin Asset \cup Config \cup Verdict \cup {"never", "running"}
    /\ NULL \notin Run \cup RunRow /\ Run \subseteq Nat
    /\ Drop \subseteq {"insertRun", "markAsset", "items", "refuse", "files",
                    "final", "asset", "items", "failing"}

VARIABLES
    config,     \* the project's default target app config, or NULL
    test,       \* playwright_tests of the story: rows are never deleted
    asset,      \* automation_assets.last_run_status, "never", or NULL: no row
    run,        \* playwright_runs, the parents of bulk runs among them
    item,       \* execution_run_items of each parent, by asset
    client,     \* requests in flight
    exec,       \* executions in flight, detached from any request
    exit,       \* history: whether Playwright exited with 0, by run
    faulty      \* history: runs about which a query failed, or a process died

assetVars == <<config, test, asset, run, item, client, exec, exit, faulty>>
vars == <<storyVars, assetVars>>

Waiting == [at |-> "idle", asset |-> NULL, run |-> NULL, bulk |-> NULL,
            todo |-> {}, started |-> FALSE, config |-> NULL]
Still == [at |-> "none", left |-> {}]

Init ==
    /\ StoriesInit
    /\ config = NULL /\ test = {}
    /\ asset = [a \in Asset |-> NULL]
    /\ run = [r \in Run |-> NULL]
    /\ item = [r \in Run |-> <<>>]
    /\ client = [c \in Client |-> Waiting]
    /\ exec = [r \in Run |-> Still]
    /\ exit = [r \in Run |-> NULL]
    /\ faulty = {}

At(c, await) == client[c].at = await
Goto(c, await) == client' = [client EXCEPT ![c].at = await]
Done(c) == client' = [client EXCEPT ![c] = Waiting]
ExecGoto(r, await) == exec' = [exec EXCEPT ![r].at = await]

\* An UPDATE of a row that is gone changes nothing.
SetRun(r, status) ==
    run' = IF run[r] = NULL THEN run ELSE [run EXCEPT ![r].status = status]
UpdateLastRun(a, status) ==
    asset' = IF asset[a] = NULL THEN asset ELSE [asset EXCEPT ![a] = status]
SetItem(p, a, status) ==
    item' = IF p = NULL \/ a \notin DOMAIN item[p] THEN item
            ELSE [item EXCEPT ![p][a] = status]

Used(r) == \/ run[r] # NULL \/ exec[r] # Still
           \/ \E c \in Client : r \in {client[c].run, client[c].bulk}

\* The row is refused: its asset was deleted since it was verified, or, which
\* is the bound on Run and stands for a failing query, no id is left.
CannotInsert(a) == asset[a] = NULL \/ \A r \in Run : Used(r)

(***************************************************************************)
(* Target app configs, tests and assets.                                   *)
(***************************************************************************)

\* The old default is unset in a statement of its own, ...
SwapConfig(c, new) ==
    /\ At(c, "idle") /\ new # config
    /\ config' = NULL
    /\ client' = [client EXCEPT ![c].at = "store", ![c].config = new]
    /\ UNCHANGED <<storyVars, test, asset, run, item, exec, exit, faulty>>

\* ... and the unique index refuses a second one.
StoreConfig(c) ==
    /\ At(c, "store")
    /\ config' = IF config = NULL THEN client[c].config ELSE config
    /\ Done(c)
    /\ UNCHANGED <<storyVars, test, asset, run, item, exec, exit, faulty>>

RemoveConfig ==
    /\ config # NULL
    /\ config' = NULL
    /\ UNCHANGED <<storyVars, test, asset, run, item, client, exec, exit, faulty>>

\* One test for each approved scenario, a draft if there is no config.
GenerateTests ==
    /\ Approved # {}
    /\ test' = test \cup {IF config = NULL THEN "draft" ELSE "grounded"}
    /\ UNCHANGED <<storyVars, config, asset, run, item, client, exec, exit, faulty>>

CreateAsset(a) ==
    /\ asset[a] = NULL /\ \A r \in Run : run[r] # NULL => run[r].asset # a
    /\ \A c \in Client : a # client[c].asset /\ a \notin client[c].todo
    /\ \A r \in Run : exec[r] = Still
    /\ asset' = [asset EXCEPT ![a] = "never"]
    /\ UNCHANGED <<storyVars, config, test, run, item, client, exec, exit, faulty>>

\* Its runs go with it, and the items of any run.
DeleteAsset(a) ==
    LET gone == {r \in Run : run[r] # NULL /\ run[r].asset = a}
    IN  /\ asset[a] # NULL
        /\ asset' = [asset EXCEPT ![a] = NULL]
        /\ run' = [r \in Run |-> IF r \in gone THEN NULL ELSE run[r]]
        /\ item' = [r \in Run |->
                      [b \in (IF r \in gone THEN {} ELSE DOMAIN item[r] \ {a})
                            |-> item[r][b]]]
        /\ exit' = [r \in Run |-> IF r \in gone THEN NULL ELSE exit[r]]
        /\ faulty' = faulty \ gone
        /\ UNCHANGED <<storyVars, config, test, client, exec>>

(***************************************************************************)
(* Running an asset.  The readiness that is verified first leaves a label  *)
(* on the asset, which nothing reads.                                      *)
(***************************************************************************)

\* runPreflight: what would block a run.
Ready(a) ==
    /\ asset[a] # NULL
    /\ config # NULL
    /\ test # {} /\ ("draft" \in test => config = "mapped")

RequestRun(c, a, skipPreflight) ==
    /\ At(c, "idle") /\ asset[a] # NULL
    /\ skipPreflight \/ Ready(a)
    /\ client' = [client EXCEPT ![c].at = "insertRun", ![c].asset = a]
    /\ UNCHANGED <<storyVars, config, test, asset, run, item, exec, exit, faulty>>

\* What becomes of a request whose runAsset has thrown.
Thrown(c) == IF client[c].bulk = NULL THEN Done(c) ELSE Goto(c, "refuse")

NewRun(r, a, parent) ==
    /\ ~Used(r) /\ \A p \in Run : p < r => Used(p)
    /\ run' = [run EXCEPT ![r] = [asset |-> a, parent |-> parent,
                                 status |-> "running"]]

\* Mutant: Playwright is started before the asset says so.
InsertRunAndStart(c) ==
    /\ At(c, "insertRun")
    /\ IF CannotInsert(client[c].asset)
       THEN Thrown(c) /\ UNCHANGED <<run, exec>>
       ELSE \E r \in Run : /\ NewRun(r, client[c].asset, FALSE)
                          /\ client' = [client EXCEPT ![c].at = "markAsset",
                                                      ![c].run = r]
                          /\ ExecGoto(r, "files")
    /\ UNCHANGED <<storyVars, config, test, asset, item, exit, faulty>>

InsertRun(c) ==
    /\ At(c, "insertRun")
    /\ IF CannotInsert(client[c].asset)
       THEN Thrown(c) /\ UNCHANGED run
       ELSE \E r \in Run : /\ NewRun(r, client[c].asset, FALSE)
                          /\ client' = [client EXCEPT ![c].at = "markAsset",
                                                      ![c].run = r]
    /\ UNCHANGED <<storyVars, config, test, asset, item, exec, exit, faulty>>

\* From here on the execution goes its own way.
MarkAsset(c) ==
    /\ At(c, "markAsset")
    /\ UpdateLastRun(client[c].asset, "running")
    /\ exec' = [exec EXCEPT ![client[c].run].at =
                  IF @ = "none" THEN "files" ELSE @]
    /\ IF client[c].bulk = NULL THEN Done(c)
       ELSE client' = [client EXCEPT ![c].at = "next", ![c].run = NULL,
                                     ![c].asset = NULL, ![c].started = TRUE]
    /\ UNCHANGED <<storyVars, config, test, run, item, exit, faulty>>

(***************************************************************************)
(* Bulk runs: a parent, an item for each asset, then one run after another *)
(* is started.  The parent of a bulk run that got started stays "running". *)
(***************************************************************************)

RequestBulk(c, A, readyOnly) ==
    LET ready == {a \in A : Ready(a)}
    IN  /\ At(c, "idle")
        /\ ready # {} /\ (readyOnly \/ ready = A)
        /\ client' = [client EXCEPT ![c].at = "insertBulk", ![c].todo = ready]
        /\ UNCHANGED <<storyVars, config, test, asset, run, item, exec, exit,
                       faulty>>

\* The parent is entered under the first asset of the list.
InsertBulk(c) ==
    /\ At(c, "insertBulk")
    /\ \E first \in client[c].todo :
          IF CannotInsert(first) THEN Done(c) /\ UNCHANGED run
          ELSE \E r \in Run : /\ NewRun(r, first, TRUE)
                             /\ client' = [client EXCEPT ![c].at = "items",
                                                         ![c].bulk = r]
    /\ UNCHANGED <<storyVars, config, test, asset, item, exec, exit, faulty>>

\* The first item that is refused (its asset, or the parent, is gone) ends
\* the request.
QueueItems(c) ==
    LET p == client[c].bulk
        there == {a \in client[c].todo : asset[a] # NULL}
    IN  /\ At(c, "items")
        /\ IF run[p] # NULL /\ there = client[c].todo
           THEN /\ item' = [item EXCEPT ![p] = [a \in there |-> "queued"]]
                /\ Goto(c, "next")
                /\ UNCHANGED faulty
           ELSE /\ \E some \in SUBSET there :
                      item' = [item EXCEPT ![p] =
                          [a \in (IF run[p] = NULL THEN {} ELSE some) |-> "queued"]]
                /\ faulty' = faulty \cup ({p} \ {r \in Run : run[r] = NULL})
                /\ Done(c)
        /\ UNCHANGED <<storyVars, config, test, asset, run, exec, exit>>

NextAsset(c) ==
    /\ At(c, "next")
    /\ \E a \in client[c].todo :
          /\ SetItem(client[c].bulk, a, "running")
          /\ client' = [client EXCEPT ![c].at = "insertRun", ![c].asset = a,
                                      ![c].todo = @ \ {a}]
    /\ UNCHANGED <<storyVars, config, test, asset, run, exec, exit, faulty>>

Refuse(c) ==
    /\ At(c, "refuse")
    /\ SetItem(client[c].bulk, client[c].asset, "failed")
    /\ client' = [client EXCEPT ![c].at = "next", ![c].run = NULL, ![c].asset = NULL]
    /\ UNCHANGED <<storyVars, config, test, asset, run, exec, exit, faulty>>

CloseBulk(c) ==
    /\ At(c, "next") /\ client[c].todo = {}
    /\ SetRun(client[c].bulk, IF client[c].started THEN "running" ELSE "failed")
    /\ Done(c)
    /\ UNCHANGED <<storyVars, config, test, asset, item, exec, exit, faulty>>

(***************************************************************************)
(* An execution.                                                           *)
(***************************************************************************)

\* Mutant: nobody catches what it throws.
ThrowsUnheard(r) == exec' = [exec EXCEPT ![r] = Still]

\* The two updates that follow an exception are not awaited.
Throws(r) == exec' = [exec EXCEPT ![r] = [at |-> "failing",
                                          left |-> {"run", "asset"}]]

\* No files, and it throws.  Playwright is killed after ten minutes, which is
\* no exit with 0.
RunPlaywright(r) ==
    /\ exec[r].at = "files"
    /\ IF test = {}
       THEN Throws(r) /\ UNCHANGED exit
       ELSE /\ \E verdict \in Verdict :
                  exit' = IF run[r] = NULL THEN exit
                                           ELSE [exit EXCEPT ![r] = verdict]
            /\ ExecGoto(r, "final")
    /\ UNCHANGED <<storyVars, config, test, asset, run, item, client, faulty>>

RecordVerdict(r) ==
    /\ exec[r].at = "final"
    /\ SetRun(r, exit[r])
    /\ ExecGoto(r, "asset")
    /\ UNCHANGED <<storyVars, config, test, asset, item, client, exit, faulty>>

ReportToAsset(r) ==
    /\ exec[r].at = "asset"
    /\ IF run[r] = NULL THEN UNCHANGED asset
                        ELSE UpdateLastRun(run[r].asset, exit[r])
    /\ ExecGoto(r, "items")
    /\ UNCHANGED <<storyVars, config, test, run, item, client, exit, faulty>>

\* By the id of this run, not of its parent: no item is ever found.
FinishItems(r) ==
    /\ exec[r].at = "items"
    /\ IF run[r] = NULL THEN UNCHANGED item ELSE SetItem(r, run[r].asset, exit[r])
    /\ exec' = [exec EXCEPT ![r] = Still]
    /\ UNCHANGED <<storyVars, config, test, asset, run, client, exit, faulty>>

FailRun(r) ==
    /\ "run" \in exec[r].left
    /\ SetRun(r, "failed")
    /\ exec' = [exec EXCEPT ![r] = IF @.left = {"run"} THEN Still
                                   ELSE [@ EXCEPT !.left = {"asset"}]]
    /\ UNCHANGED <<storyVars, config, test, asset, item, client, exit, faulty>>

FailAsset(r) ==
    /\ "asset" \in exec[r].left
    /\ IF run[r] = NULL THEN UNCHANGED asset
                        ELSE UpdateLastRun(run[r].asset, "failed")
    /\ exec' = [exec EXCEPT ![r] = IF @.left = {"asset"} THEN Still
                                   ELSE [@ EXCEPT !.left = {"run"}]]
    /\ UNCHANGED <<storyVars, config, test, run, item, client, exit, faulty>>

(***************************************************************************)
(* Failures.                                                               *)
(***************************************************************************)

Known(rs) == {r \in rs \cap Run : run[r] # NULL}

\* A query of a request fails.  A bulk run catches what runAsset throws.
ClientFails(c) ==
    LET inRunAsset == client[c].at \in {"insertRun", "markAsset"}
    IN  /\ client[c].at \in Drop
        /\ IF inRunAsset THEN Thrown(c) ELSE Done(c)
        /\ faulty' = faulty \cup Known(IF inRunAsset THEN {client[c].run}
                                                    ELSE {client[c].bulk})
        /\ UNCHANGED <<storyVars, config, test, asset, run, item, exec, exit>>

\* Something in an execution throws: the installation of its packages, or a
\* query, be it after the verdict was recorded.
ExecFails(r) ==
    /\ exec[r].at \in Drop
    /\ IF exec[r].at = "failing" THEN exec' = [exec EXCEPT ![r] = Still]
                                 ELSE Throws(r)
    /\ faulty' = faulty \cup (IF exec[r].at = "files" THEN {} ELSE Known({r}))
    /\ exit' = [exit EXCEPT ![r] = NULL]
    /\ UNCHANGED <<storyVars, config, test, asset, run, item, client>>

\* The process ends: nothing will ever close the runs that it was at.
Die ==
    /\ \E r \in Run : exec[r] # Still
    /\ client' = [c \in Client |-> Waiting]
    /\ exec' = [r \in Run |-> Still]
    /\ faulty' = faulty \cup Known({r \in Run : exec[r] # Still}
                         \cup UNION {{client[c].run, client[c].bulk} : c \in Client})
    /\ UNCHANGED <<storyVars, config, test, asset, run, item, exit>>

Ask(c) ==
    \/ \E a \in Asset, skip \in BOOLEAN : RequestRun(c, a, skip)
    \/ \E A \in SUBSET Asset, only \in BOOLEAN : RequestBulk(c, A, only)

Continue(c) ==
    \/ StoreConfig(c)
    \/ InsertRun(c) \/ MarkAsset(c)
    \/ InsertBulk(c) \/ QueueItems(c) \/ NextAsset(c) \/ Refuse(c) \/ CloseBulk(c)

Execute(r) ==
    \/ RunPlaywright(r)
    \/ RecordVerdict(r) \/ ReportToAsset(r) \/ FinishItems(r)
    \/ FailRun(r) \/ FailAsset(r)

Prepare == \/ \E c \in Client, new \in Config : SwapConfig(c, new)
           \/ RemoveConfig \/ GenerateTests
Curate(a) == CreateAsset(a) \/ DeleteAsset(a)

Next ==
    \/ StoriesNext /\ UNCHANGED assetVars
    \/ Prepare
    \/ \E a \in Asset : Curate(a)
    \/ \E c \in Client : Ask(c) \/ Continue(c) \/ ClientFails(c)
    \/ \E r \in Run : Execute(r) \/ ExecFails(r)
    \/ Die

\* Node runs what has been awaited, and Playwright is killed if it does not end.
Fairness == /\ \A c \in Client : WF_vars(Continue(c))
            /\ \A r \in Run : WF_vars(Execute(r))

Spec == Init /\ [][Next]_vars /\ Fairness

(***************************************************************************)
(* Properties.                                                             *)
(***************************************************************************)

TypeOK ==
    /\ StoriesTypeOK
    /\ config \in Config \cup {NULL} /\ test \subseteq Code
    /\ asset \in [Asset -> Verdict \cup {NULL, "never", "running"}]
    /\ run \in [Run -> RunRow \cup {NULL}]
    /\ exit \in [Run -> Verdict \cup {NULL}]
    /\ \A r \in Run : exec[r].at \in ExecAt /\ exec[r].left \subseteq {"run", "asset"}
    /\ \A c \in Client : client[c].at \in ClientAt
    /\ faulty \subseteq Run

Running(r) == \/ exec[r] # Still
              \/ \E c \in Client : r \in {client[c].run, client[c].bulk}
RunsOf(a) == {r \in Run : run[r] # NULL /\ run[r].asset = a /\ ~run[r].parent}
Passed(r) == IF exit[r] = "passed" THEN "passed" ELSE "failed"

\* When nothing goes on about a run any more, and no query about it failed,
\* its row says how Playwright exited; its asset, "running" once, shows the
\* verdict of one of its runs, whatever order they were started and ended
\* in; and a bulk run says "failed" only if every asset of it was refused.
VerdictsAgree ==
    /\ \A r \in Run \ faulty :
          run[r] # NULL /\ ~Running(r) =>
              IF run[r].parent
              THEN run[r].status = "failed" =>
                      \A a \in DOMAIN item[r] : item[r][a] = "failed"
              ELSE run[r].status = Passed(r)
    /\ \A a \in Asset :
          /\ asset[a] # NULL
          /\ \A r \in RunsOf(a) : ~Running(r) /\ r \notin faulty
          => \/ asset[a] = "never" /\ RunsOf(a) = {}
             \/ \E r \in RunsOf(a) : asset[a] = Passed(r)

\* The request of a bulk run is over, and no asset of it waits any more:
\* each was refused, or its run was started.
BulkIsOver(r) == /\ \A c \in Client : client[c].bulk # r
                 /\ \A a \in DOMAIN item[r] : item[r][a] # "queued"

\* The run of one asset ends once it was started, alone or in a bulk run,
\* unless a query about it fails or the process ends.  A bulk run itself does
\* not: bulkRunWithItems leaves its row at "running" as soon as one of its
\* assets got started, and that asset's item, and no code comes back to
\* either.  What it does come to is the end of its list, whatever its assets
\* throw on the way.
RunsSettle ==
    \A r \in Run :
        /\ run[r] # NULL /\ ~run[r].parent /\ run[r].status = "running"
               ~> run[r] = NULL \/ run[r].status # "running" \/ r \in faulty
        /\ run[r] # NULL /\ run[r].parent
               ~> run[r] = NULL \/ BulkIsOver(r) \/ r \in faulty
=============================================================================
