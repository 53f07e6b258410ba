--------------------------- MODULE PlaywrightProofs ---------------------------
(***************************************************************************)
(* What holds of Stories and PlaywrightRuns for every number of scenarios, *)
(* reviewers, assets, runs and requests: an approved scenario has its test *)
(* case, and runs and assets show verdicts that Playwright gave.           *)
(***************************************************************************)
EXTENDS PlaywrightRuns, FiniteSetTheorems, TLAPS

(***************************************************************************)
(* The stories.                                                            *)
(***************************************************************************)

\* An approval holds the scenario that it is about.
ApprovalsKnow ==
    \A w \in Writer : writer[w].at \in {"select", "insert"}
                        => writer[w].scenario \in Scenario

OneCaseEach ==
    \A c, d \in Case : case[c] = case[d] /\ case[c] \in Scenario => c = d

Covered == \A s \in Approved \ excused : ~Approving(s) => Cases(s) # {}

\* The strengthening of ApprovedHaveCase.
StoriesInv == StoriesTypeOK /\ ApprovalsKnow /\ OneCaseEach /\ Covered

LEMMA RestIsBusy == Rest \in Busy /\ Rest.at = "idle" /\ Rest.scenario = NULL
BY DEF Rest, Busy, WriterAt

LEMMA StoriesStart == StoriesInit => StoriesInv
<1> SUFFICES ASSUME StoriesInit PROVE StoriesInv
  OBVIOUS
<1>1. StoriesTypeOK
  BY RestIsBusy DEF StoriesInit, StoriesTypeOK, Review
<1>2. ApprovalsKnow
  BY RestIsBusy DEF StoriesInit, ApprovalsKnow
<1>3. OneCaseEach /\ Covered
  BY StoriesAssumption DEF StoriesInit, OneCaseEach, Covered, Approved, Review
<1>4. QED
  BY <1>1, <1>2, <1>3 DEF StoriesInv

\* A request that moves on, and drops no approval.
LEMMA WriterMoves ==
    ASSUME StoriesTypeOK, NEW w \in Writer, NEW await \in WriterAt,
           WriterGoto(w, await)
    PROVE  /\ writer' \in [Writer -> Busy]
           /\ writer'[w].at = await /\ writer'[w].scenario = writer[w].scenario
           /\ \A v \in Writer \ {w} : writer'[v] = writer[v]
BY DEF StoriesTypeOK, WriterGoto, Busy

LEMMA WriterEnds ==
    ASSUME StoriesTypeOK, NEW w \in Writer, WriterDone(w)
    PROVE  /\ writer' \in [Writer -> Busy] /\ writer'[w] = Rest
           /\ \A v \in Writer \ {w} : writer'[v] = writer[v]
BY RestIsBusy DEF StoriesTypeOK, WriterDone

\* A request that approves nothing may come and go.
LEMMA ApprovalsStay ==
    ASSUME StoriesInv, NEW w \in Writer,
           \A v \in Writer \ {w} : writer'[v] = writer[v],
           writer[w].at \notin {"select", "insert"},
           writer'[w].at \notin {"select", "insert"}
    PROVE  ApprovalsKnow' /\ \A s \in Scenario : Approving(s)' <=> Approving(s)
BY DEF StoriesInv, ApprovalsKnow, Approving

LEMMA CreateStoryKeeps ==
    ASSUME StoriesInv, NEW w \in Writer, CreateStory(w)
    PROVE  StoriesInv'
<1>1. /\ writer[w].at = "idle" /\ story' = "draft"
      /\ UNCHANGED <<scenario, case, excused>> /\ WriterGoto(w, "generate")
  BY DEF CreateStory
<1>2. /\ writer' \in [Writer -> Busy] /\ writer'[w].at = "generate"
      /\ \A v \in Writer \ {w} : writer'[v] = writer[v]
  BY <1>1, WriterMoves DEF StoriesInv, WriterAt
<1>3. ApprovalsKnow' /\ \A s \in Scenario : Approving(s)' <=> Approving(s)
  BY <1>1, <1>2, ApprovalsStay
<1>4. QED
  BY <1>1, <1>2, <1>3
  DEF StoriesInv, StoriesTypeOK, OneCaseEach, Covered, Approved, Cases

LEMMA ExtractScenariosKeeps ==
    ASSUME StoriesInv, NEW w \in Writer, ExtractScenarios(w)
    PROVE  StoriesInv'
<1>1. /\ writer[w].at = "generate" /\ UNCHANGED <<story, case, excused>>
      /\ WriterGoto(w, "extracted") \/ WriterDone(w)
  BY DEF ExtractScenarios
<1>2. /\ writer' \in [Writer -> Busy] /\ writer'[w].at \in {"extracted", "idle"}
      /\ \A v \in Writer \ {w} : writer'[v] = writer[v]
  BY <1>1, WriterMoves, WriterEnds, RestIsBusy DEF StoriesInv, WriterAt
<1>3. ApprovalsKnow' /\ \A s \in Scenario : Approving(s)' <=> Approving(s)
  BY <1>1, <1>2, ApprovalsStay
<1>4. /\ scenario' \in [Scenario -> Review \cup {NULL}]
      /\ \A s \in Scenario : scenario'[s] \in {scenario[s], "pending"}
  BY DEF ExtractScenarios, StoriesInv, StoriesTypeOK, Review
<1>5. Approved' \subseteq Approved
  BY <1>4 DEF Approved
<1>6. Covered'
  BY <1>1, <1>3, <1>5 DEF StoriesInv, Covered, Approved, Cases
<1>7. QED
  BY <1>1, <1>2, <1>3, <1>4, <1>6 DEF StoriesInv, StoriesTypeOK, OneCaseEach

LEMMA MarkExtractedKeeps ==
    ASSUME StoriesInv, NEW w \in Writer, MarkExtracted(w)
    PROVE  StoriesInv'
<1>1. /\ writer[w].at = "extracted" /\ UNCHANGED <<scenario, case, excused>>
      /\ WriterDone(w) /\ story' \in {story, "extracted"}
  BY DEF MarkExtracted
<1>2. /\ writer' \in [Writer -> Busy] /\ writer'[w].at = "idle"
      /\ \A v \in Writer \ {w} : writer'[v] = writer[v]
  BY <1>1, WriterEnds, RestIsBusy DEF StoriesInv
<1>3. ApprovalsKnow' /\ \A s \in Scenario : Approving(s)' <=> Approving(s)
  BY <1>1, <1>2, ApprovalsStay
<1>4. QED
  BY <1>1, <1>2, <1>3
  DEF StoriesInv, StoriesTypeOK, OneCaseEach, Covered, Approved, Cases

LEMMA PatchScenarioKeeps ==
    ASSUME StoriesInv, NEW w \in Writer, NEW s \in Scenario,
           NEW status \in Review, PatchScenario(w, s, status)
    PROVE  StoriesInv'
<1>1. /\ writer[w].at = "idle" /\ scenario' = [scenario EXCEPT ![s] = status]
      /\ UNCHANGED <<story, case, excused>>
  BY DEF PatchScenario
<1>2. /\ scenario' \in [Scenario -> Review \cup {NULL}] /\ scenario'[s] = status
      /\ \A t \in Scenario \ {s} : scenario'[t] = scenario[t]
  BY <1>1 DEF StoriesInv, StoriesTypeOK
<1>3. CASE status # "approved"
  <2>1. writer' = writer
    BY <1>3 DEF PatchScenario
  <2>2. Approved' \subseteq Approved
    BY <1>2, <1>3 DEF Approved
  <2>3. Covered'
    BY <1>1, <2>1, <2>2 DEF StoriesInv, Covered, Approving, Cases
  <2>4. QED
    BY <1>1, <1>2, <2>1, <2>3
    DEF StoriesInv, StoriesTypeOK, ApprovalsKnow, OneCaseEach
<1>4. CASE status = "approved"
  <2>1. writer' = [writer EXCEPT ![w] = [at |-> "select", scenario |-> s]]
    BY <1>4 DEF PatchScenario
  <2>2. [at |-> "select", scenario |-> s] \in Busy
    BY DEF Busy, WriterAt
  <2>3. /\ writer' \in [Writer -> Busy]
        /\ writer'[w].at = "select" /\ writer'[w].scenario = s
        /\ \A v \in Writer \ {w} : writer'[v] = writer[v]
    BY <2>1, <2>2 DEF StoriesInv, StoriesTypeOK
  <2>4. ApprovalsKnow'
    BY <2>3 DEF StoriesInv, ApprovalsKnow
  <2>5. Approving(s)' /\ \A t \in Scenario : Approving(t) => Approving(t)'
    BY <1>1, <2>3 DEF Approving
  <2>6. Approved' \subseteq Approved \cup {s} /\ Approved \subseteq Scenario
    BY <1>2 DEF Approved
  <2>7. Covered'
    BY <1>1, <2>5, <2>6 DEF StoriesInv, Covered, Cases
  <2>8. QED
    BY <1>1, <1>2, <2>3, <2>4, <2>7 DEF StoriesInv, StoriesTypeOK, OneCaseEach
<1>5. QED
  BY <1>3, <1>4

LEMMA FindCaseKeeps ==
    ASSUME StoriesInv, NEW w \in Writer, FindCase(w)
    PROVE  StoriesInv'
<1>1. PICK s : s = writer[w].scenario
  OBVIOUS
<1>2. /\ writer[w].at = "select" /\ s \in Scenario
      /\ UNCHANGED <<story, scenario, case>>
  BY <1>1 DEF FindCase, StoriesInv, ApprovalsKnow
<1>3. \/ Cases(s) # {} /\ WriterDone(w) /\ excused' = excused \ {s}
      \/ WriterGoto(w, "insert") /\ UNCHANGED excused
  BY <1>1 DEF FindCase
<1>4. /\ writer' \in [Writer -> Busy]
      /\ \A v \in Writer \ {w} : writer'[v] = writer[v]
      /\ \/ writer'[w] = Rest /\ Cases(s) # {} /\ excused' = excused \ {s}
         \/ /\ writer'[w].at = "insert" /\ writer'[w].scenario = s
            /\ excused' = excused
  BY <1>1, <1>3, WriterMoves, WriterEnds DEF StoriesInv, WriterAt
<1>5. ApprovalsKnow'
  BY <1>2, <1>4, RestIsBusy DEF StoriesInv, ApprovalsKnow
<1>6. \A t \in Scenario \ {s} : Approving(t) => Approving(t)'
  BY <1>1, <1>4 DEF Approving
<1>7. Covered'
  <2>1. \A t \in Scenario : Cases(t)' = Cases(t)
    BY <1>2 DEF Cases
  <2>2. Approved' = Approved /\ Approved \subseteq Scenario
    BY <1>2 DEF Approved
  <2>3. Cases(s) # {} \/ (Approving(s)' /\ Approving(s))
    BY <1>1, <1>2, <1>4 DEF Approving
  <2>4. excused' = excused \/ excused' = excused \ {s}
    BY <1>4
  <2>5. QED
    BY <1>2, <1>6, <2>1, <2>2, <2>3, <2>4 DEF StoriesInv, Covered
<1>8. QED
  BY <1>2, <1>4, <1>5, <1>7 DEF StoriesInv, StoriesTypeOK, OneCaseEach

LEMMA InsertCaseKeeps ==
    ASSUME StoriesInv, NEW w \in Writer, InsertCase(w)
    PROVE  StoriesInv'
<1>1. PICK s : s = writer[w].scenario
  OBVIOUS
<1>2. /\ writer[w].at = "insert" /\ s \in Scenario
      /\ UNCHANGED <<story, scenario>> /\ excused' = excused \ {s}
      /\ WriterDone(w)
  BY <1>1 DEF InsertCase, StoriesInv, ApprovalsKnow
<1>3. \/ (scenario[s] = NULL \/ Cases(s) # {}) /\ case' = case
      \/ /\ Cases(s) = {}
         /\ \E c \in Case : case[c] = "free" /\ case' = [case EXCEPT ![c] = s]
  BY <1>1 DEF InsertCase
<1>4. /\ writer' \in [Writer -> Busy] /\ writer'[w] = Rest
      /\ \A v \in Writer \ {w} : writer'[v] = writer[v]
  BY <1>2, WriterEnds DEF StoriesInv
<1>5. ApprovalsKnow'
  BY <1>4, RestIsBusy DEF StoriesInv, ApprovalsKnow
<1>6. /\ case' \in [Case -> Scenario \cup {NULL, "free"}] /\ OneCaseEach'
      /\ \A t \in Scenario : Cases(t) \subseteq Cases(t)'
      /\ scenario[s] = NULL \/ Cases(s)' # {}
  <2>1. CASE (scenario[s] = NULL \/ Cases(s) # {}) /\ case' = case
    BY <2>1 DEF StoriesInv, StoriesTypeOK, OneCaseEach, Cases
  <2>2. ASSUME Cases(s) = {}, NEW c \in Case, case[c] = "free",
               case' = [case EXCEPT ![c] = s]
        PROVE  /\ case' \in [Case -> Scenario \cup {NULL, "free"}] /\ OneCaseEach'
               /\ \A t \in Scenario : Cases(t) \subseteq Cases(t)'
               /\ Cases(s)' # {}
    <3>1. /\ case' \in [Case -> Scenario \cup {NULL, "free"}] /\ case'[c] = s
          /\ \A d \in Case \ {c} : case'[d] = case[d] /\ case[d] # s
      BY <1>2, <2>2 DEF StoriesInv, StoriesTypeOK, Cases
    <3>2. OneCaseEach'
      BY <3>1 DEF StoriesInv, OneCaseEach
    <3>3. /\ \A t \in Scenario : Cases(t) \subseteq Cases(t)'
          /\ Cases(s)' # {}
      BY <2>2, <3>1, StoriesAssumption DEF Cases
    <3>4. QED
      BY <3>1, <3>2, <3>3
  <2>3. QED
    BY <1>3, <2>1, <2>2
<1>7. Covered'
  <2>1. \A t \in Scenario \ {s} : Approving(t) => Approving(t)'
    BY <1>1, <1>4 DEF Approving
  <2>2. /\ Approved' = Approved /\ Approved \subseteq Scenario
        /\ s \in Approved => scenario[s] # NULL
    BY <1>2, StoriesAssumption DEF Approved, Review
  <2>3. QED
    BY <1>2, <1>6, <2>1, <2>2 DEF StoriesInv, Covered
<1>8. QED
  BY <1>2, <1>4, <1>5, <1>6, <1>7 DEF StoriesInv, StoriesTypeOK

LEMMA LoseRequestKeeps ==
    ASSUME StoriesInv, NEW w \in Writer, LoseRequest(w)
    PROVE  StoriesInv'
<1>1. PICK s : s = writer[w].scenario
  OBVIOUS
<1>2. /\ WriterDone(w) /\ UNCHANGED <<story, scenario, case>>
      /\ excused' = excused \cup ({s} \cap Rows)
  BY <1>1 DEF LoseRequest
<1>3. /\ writer' \in [Writer -> Busy] /\ writer'[w] = Rest
      /\ \A v \in Writer \ {w} : writer'[v] = writer[v]
  BY <1>2, WriterEnds DEF StoriesInv
<1>4. ApprovalsKnow'
  BY <1>3, RestIsBusy DEF StoriesInv, ApprovalsKnow
<1>5. Covered'
  <2>1. \A t \in Scenario : t # s => (Approving(t) => Approving(t)')
    BY <1>1, <1>3 DEF Approving
  <2>2. Approved' = Approved /\ Approved \subseteq Rows /\ Approved \subseteq Scenario
    BY <1>2, StoriesAssumption DEF Approved, Rows, Review
  <2>3. \A t \in Scenario : Cases(t)' = Cases(t)
    BY <1>2 DEF Cases
  <2>4. QED
    BY <1>2, <2>1, <2>2, <2>3 DEF StoriesInv, Covered
<1>6. QED
  BY <1>2, <1>3, <1>4, <1>5 DEF StoriesInv, StoriesTypeOK, OneCaseEach, Rows

LEMMA AddScenarioKeeps ==
    ASSUME StoriesInv, NEW s \in Scenario, AddScenario(s)
    PROVE  StoriesInv'
<1>1. /\ scenario' \in [Scenario -> Review \cup {NULL}]
      /\ Approved' \subseteq Approved /\ UNCHANGED <<story, case, writer, excused>>
  BY DEF AddScenario, Approved, StoriesInv, StoriesTypeOK, Review
<1>2. Covered'
  BY <1>1 DEF StoriesInv, Covered, Approving, Cases
<1>3. QED
  BY <1>1, <1>2 DEF StoriesInv, StoriesTypeOK, ApprovalsKnow, OneCaseEach

LEMMA AddManualCaseKeeps ==
    ASSUME StoriesInv, NEW c \in Case, AddManualCase(c)
    PROVE  StoriesInv'
<1>1. /\ case' \in [Case -> Scenario \cup {NULL, "free"}] /\ case'[c] = NULL
      /\ case[c] = "free" /\ \A d \in Case \ {c} : case'[d] = case[d]
      /\ UNCHANGED <<story, scenario, writer, excused>>
  BY DEF AddManualCase, StoriesInv, StoriesTypeOK
<1>2. \A s \in Scenario : Cases(s)' = Cases(s)
  BY <1>1, StoriesAssumption DEF Cases
<1>3. Covered'
  BY <1>1, <1>2 DEF StoriesInv, Covered, Approving, Approved
<1>4. OneCaseEach'
  BY <1>1, StoriesAssumption DEF StoriesInv, OneCaseEach
<1>5. QED
  BY <1>1, <1>3, <1>4 DEF StoriesInv, StoriesTypeOK, ApprovalsKnow

LEMMA DeleteCaseKeeps ==
    ASSUME StoriesInv, NEW c \in Case, DeleteCase(c)
    PROVE  StoriesInv'
<1>1. /\ case' \in [Case -> Scenario \cup {NULL, "free"}] /\ case'[c] = "free"
      /\ \A d \in Case \ {c} : case'[d] = case[d]
      /\ excused' = excused \cup ({case[c]} \cap Scenario)
      /\ UNCHANGED <<story, scenario, writer>>
  BY DEF DeleteCase, StoriesInv, StoriesTypeOK
<1>2. \A s \in Scenario : s # case[c] => Cases(s)' = Cases(s)
  BY <1>1, StoriesAssumption DEF Cases
<1>3. Covered'
  BY <1>1, <1>2 DEF StoriesInv, Covered, Approving, Approved
<1>4. OneCaseEach'
  BY <1>1, StoriesAssumption DEF StoriesInv, OneCaseEach
<1>5. QED
  BY <1>1, <1>3, <1>4 DEF StoriesInv, StoriesTypeOK, ApprovalsKnow

LEMMA DeleteStoryKeeps ==
    ASSUME StoriesInv, DeleteStory
    PROVE  StoriesInv'
<1>1. /\ story' = "deleted" /\ scenario' = [s \in Scenario |-> NULL]
      /\ case' = [c \in Case |-> IF case[c] \in Scenario THEN NULL ELSE case[c]]
      /\ excused' = {} /\ writer' = writer
  BY DEF DeleteStory
<1>2. StoriesTypeOK'
  BY <1>1 DEF StoriesInv, StoriesTypeOK
<1>3. Covered'
  BY <1>1, StoriesAssumption DEF Covered, Approved, Review
<1>4. OneCaseEach'
  BY <1>1, StoriesAssumption DEF OneCaseEach
<1>5. QED
  BY <1>1, <1>2, <1>3, <1>4 DEF StoriesInv, ApprovalsKnow

LEMMA StoriesStep == StoriesInv /\ [StoriesNext]_storyVars => StoriesInv'
<1> SUFFICES ASSUME StoriesInv, [StoriesNext]_storyVars PROVE StoriesInv'
  OBVIOUS
<1>1. CASE UNCHANGED storyVars
  BY <1>1 DEF storyVars, StoriesInv, StoriesTypeOK, ApprovalsKnow, OneCaseEach,
              Covered, Approved, Approving, Cases
<1>2. CASE StoriesNext
  BY <1>2, CreateStoryKeeps, ExtractScenariosKeeps, MarkExtractedKeeps,
     PatchScenarioKeeps, FindCaseKeeps, InsertCaseKeeps, LoseRequestKeeps,
     AddScenarioKeeps, AddManualCaseKeeps, DeleteCaseKeeps, DeleteStoryKeeps
  DEF StoriesNext
<1>3. QED
  BY <1>1, <1>2

LEMMA StoriesProperty == StoriesInv => ApprovedHaveCase
<1> SUFFICES ASSUME StoriesInv PROVE ApprovedHaveCase
  OBVIOUS
<1>1. ASSUME NEW s \in Scenario
      PROVE  Cardinality(Cases(s)) <= 1
  <2>1. PICK C : C = Cases(s)
    OBVIOUS
  <2>2. \A c, d \in C : c = d
    BY <2>1 DEF StoriesInv, OneCaseEach, Cases
  <2>3. CASE C = {}
    BY <2>1, <2>3, FS_EmptySet
  <2>4. ASSUME NEW c \in C
        PROVE  Cardinality(C) <= 1
    <3>1. C = {c}
      BY <2>2
    <3>2. Cardinality(C) = 1
      BY <3>1, FS_Singleton
    <3>3. QED
      BY <3>2
  <2>5. QED
    BY <2>1, <2>3, <2>4
<1>2. QED
  BY <1>1 DEF StoriesInv, Covered, ApprovedHaveCase

(***************************************************************************)
(* The runs.                                                               *)
(***************************************************************************)

ClientRecord == [at : ClientAt, asset : Asset \cup {NULL}, run : Run \cup {NULL},
                 bulk : Run \cup {NULL}, todo : SUBSET Asset, started : BOOLEAN,
                 config : Config \cup {NULL}]
ExecRecord == [at : ExecAt, left : SUBSET {"run", "asset"}]
ItemStatus == {"queued", "running", "passed", "failed"}
Table == UNION {[A -> ItemStatus] : A \in SUBSET Asset}
LastRun == Verdict \cup {NULL, "never", "running"}

RowsTypeOK ==
    /\ asset \in [Asset -> LastRun]
    /\ run \in [Run -> RunRow \cup {NULL}]
    /\ item \in [Run -> Table]
    /\ exit \in [Run -> Verdict \cup {NULL}]
    /\ exec \in [Run -> ExecRecord]
    /\ client \in [Client -> ClientRecord]
    /\ faulty \subseteq Run

\* What a request carries at each await.
Carries(c) ==
    /\ client[c].at \notin {"markAsset", "refuse"} => client[c].run = NULL
    /\ client[c].at \in {"idle", "store", "insertBulk"} => client[c].bulk = NULL
    /\ client[c].at \in {"idle", "insertBulk", "items", "next"} => client[c].asset = NULL
    /\ client[c].at \in {"insertRun", "markAsset", "refuse"} => client[c].asset \in Asset
    /\ client[c].at = "markAsset" => client[c].run \in Run
    /\ client[c].at \in {"items", "next", "refuse"} => client[c].bulk \in Run

\* The run that c has inserted, and not started.
Marks(c, r) ==
    /\ exec[r] = Still /\ exit[r] = NULL
    /\ \/ run[r] = NULL /\ asset[client[c].asset] = NULL
       \/ run[r] # NULL /\ run[r].asset = client[c].asset /\ ~run[r].parent

\* Of the bulk run of c, what is neither to do nor started was refused.
Bulk(c, p) ==
    /\ exec[p] = Still
    /\ run[p] # NULL =>
          /\ run[p].parent /\ run[p].status = "running"
          /\ client[c].at # "items" /\ ~client[c].started =>
                \A a \in DOMAIN item[p] : \/ a \in client[c].todo \cup {client[c].asset}
                                          \/ item[p][a] = "failed"

Holds(c) ==
    /\ client[c].run # NULL => client[c].run # client[c].bulk
    /\ client[c].at = "markAsset" => Marks(c, client[c].run)
    /\ client[c].at = "refuse" /\ client[c].run # NULL
          => run[client[c].run] = NULL \/ client[c].run \in faulty
    /\ client[c].bulk # NULL => Bulk(c, client[c].bulk)

\* No run is in two hands.
Apart(c, d) ==
    /\ client[c].run # NULL => client[c].run \notin {client[d].run, client[d].bulk}
    /\ client[c].bulk # NULL => client[c].bulk \notin {client[d].run, client[d].bulk}

\* The rows of a run, and of its items.
RowStands(r) ==
    /\ run[r] = NULL => exit[r] = NULL /\ r \notin faulty /\ DOMAIN item[r] = {}
    /\ run[r] # NULL =>
          /\ asset[run[r].asset] # NULL
          /\ exec[r] # Still => ~run[r].parent
          /\ ~run[r].parent => DOMAIN item[r] = {}
          /\ run[r].parent /\ run[r].status = "failed"
                => \A a \in DOMAIN item[r] : item[r][a] = "failed"

Marked(r) == \E c \in Client : client[c].at = "markAsset" /\ client[c].run = r

\* How far the row of a run is, by what its execution is at.
StageStands(r) ==
    /\ exec[r].at = "none" => exec[r] = Still
    /\ exec[r].at = "failing" <=> exec[r].left # {}
    /\ run[r] # NULL /\ ~run[r].parent =>
          /\ exec[r].at = "files" => exit[r] = NULL
          /\ exec[r].at \in {"final", "asset", "items"} => exit[r] \in Verdict
          /\ exec[r].at \in {"asset", "items"} => run[r].status = exit[r]
          /\ exec[r].at = "failing" =>
                /\ exit[r] = NULL
                /\ "run" \notin exec[r].left => run[r].status = "failed"
          /\ exec[r] = Still /\ r \notin faulty =>
                run[r].status = Passed(r) \/ Marked(r)

ToReport(r) == exec[r].at \in {"files", "final", "asset"} \/ "asset" \in exec[r].left

\* A run that its asset shows, or is about to.
Witness(r, a) ==
    \/ r \in faulty \/ ToReport(r)
    \/ asset[a] = Passed(r) /\ exec[r].at \notin {"files", "final"}

Shown(a) ==
    /\ asset[a] = "never" => \A r \in RunsOf(a) : r \in faulty \/ Marked(r)
    /\ asset[a] \notin {NULL, "never"} => \E r \in RunsOf(a) : Witness(r, a)

\* The strengthening of VerdictsAgree.
RunsInv ==
    /\ RowsTypeOK
    /\ \A c \in Client : Carries(c) /\ Holds(c)
    /\ \A c \in Client : \A d \in Client \ {c} : Apart(c, d)
    /\ \A r \in Run : RowStands(r) /\ StageStands(r)
    /\ \A a \in Asset : Shown(a)

LEMMA RecordsAreTyped ==
    /\ Waiting \in ClientRecord /\ Still \in ExecRecord /\ <<>> \in Table
    /\ Waiting.at = "idle" /\ Waiting.run = NULL /\ Waiting.bulk = NULL
    /\ Waiting.asset = NULL /\ Still.at = "none" /\ Still.left = {}
    /\ DOMAIN <<>> = {}
<1>1. /\ Waiting \in ClientRecord /\ Still \in ExecRecord
      /\ Waiting.at = "idle" /\ Waiting.run = NULL /\ Waiting.bulk = NULL
      /\ Waiting.asset = NULL /\ Still.at = "none" /\ Still.left = {}
  BY DEF Waiting, Still, ClientRecord, ExecRecord, ClientAt, ExecAt
<1>2. DOMAIN <<>> = {} /\ <<>> \in [{} -> ItemStatus]
  OBVIOUS
<1>3. {} \in SUBSET Asset
  OBVIOUS
<1>4. QED
  BY <1>1, <1>2, <1>3 DEF Table

LEMMA RunsStart == Init => RunsInv
<1> SUFFICES ASSUME Init PROVE RunsInv
  OBVIOUS
<1>1. RowsTypeOK
  BY RecordsAreTyped DEF Init, RowsTypeOK, LastRun
<1>2. \A c \in Client : Carries(c) /\ Holds(c)
  BY RecordsAreTyped DEF Init, Carries, Holds
<1>3. \A c \in Client : \A d \in Client \ {c} : Apart(c, d)
  BY RecordsAreTyped DEF Init, Apart
<1>4. \A r \in Run : RowStands(r) /\ StageStands(r)
  BY RecordsAreTyped DEF Init, RowStands, StageStands
<1>5. \A a \in Asset : Shown(a)
  BY PlaywrightAssumption DEF Init, Shown
<1>6. QED
  BY <1>1, <1>2, <1>3, <1>4, <1>5 DEF RunsInv

(***************************************************************************)
(* Executions.                                                             *)
(***************************************************************************)

\* An execution writes its own run, and what its asset shows.
LEMMA ExecMoves ==
    ASSUME RunsInv, NEW r \in Run, exec[r] # Still,
           client' = client, item' = item, RowsTypeOK',
           \A x \in Run \ {r} : /\ exec'[x] = exec[x] /\ run'[x] = run[x]
                                /\ exit'[x] = exit[x],
           run[r] = NULL => run'[r] = NULL /\ exit'[r] = NULL,
           run[r] # NULL => /\ run'[r] # NULL /\ run'[r].asset = run[r].asset
                            /\ run'[r].parent = run[r].parent,
           faulty \subseteq faulty',
           \A x \in faulty' : x \in faulty \/ (x = r /\ run[r] # NULL),
           \A a \in Asset :
              \/ asset'[a] = asset[a]
              \/ /\ run[r] # NULL /\ run[r].asset = a /\ asset[a] # NULL
                 /\ asset'[a] \notin {NULL, "never"},
           run[r] # NULL =>
              \/ Witness(r, run[r].asset)'
              \/ ~Witness(r, run[r].asset) /\ asset' = asset,
           StageStands(r)'
    PROVE  RunsInv'
<1>1. RowsTypeOK
  BY DEF RunsInv
<1>2. ~Marked(r) /\ \A c \in Client : client[c].bulk # r
  BY PlaywrightAssumption DEF RunsInv, Holds, Marks, Bulk, Marked
<1>3. /\ \A x \in Run : /\ run'[x] = NULL <=> run[x] = NULL
                        /\ run[x] # NULL => /\ run'[x].asset = run[x].asset
                                            /\ run'[x].parent = run[x].parent
      /\ \A a \in Asset : asset'[a] = NULL <=> asset[a] = NULL
  OBVIOUS
<1>4. \A c \in Client : Carries(c)'
  BY DEF RunsInv, Carries
<1>5. ASSUME NEW c \in Client
      PROVE  Holds(c)'
  <2>1. Holds(c) /\ Carries(c) /\ client[c] \in ClientRecord
    BY <1>1 DEF RunsInv, RowsTypeOK
  <2>2. client[c].at = "markAsset" => Marks(c, client[c].run)'
    BY <1>2, <1>3, <2>1 DEF Holds, Carries, Marks, Marked
  <2>3. client[c].at = "refuse" /\ client[c].run # NULL
          => run'[client[c].run] = NULL \/ client[c].run \in faulty'
    BY <1>3, <2>1 DEF Holds, ClientRecord
  <2>4. client[c].bulk # NULL => Bulk(c, client[c].bulk)'
    BY <1>2, <2>1 DEF Holds, Bulk, ClientRecord
  <2>5. QED
    BY <2>1, <2>2, <2>3, <2>4 DEF Holds
<1>6. \A c \in Client : \A d \in Client \ {c} : Apart(c, d)'
  BY DEF RunsInv, Apart
<1>7. ASSUME NEW x \in Run
      PROVE  RowStands(x)' /\ StageStands(x)'
  <2>1. RowStands(x) /\ StageStands(x) /\ (run[x] # NULL => run[x] \in RunRow)
    BY <1>1 DEF RunsInv, RowsTypeOK
  <2>2. CASE x = r
    BY <1>3, <2>1, <2>2, <1>1 DEF RowStands, RunRow
  <2>3. CASE x # r
    <3>1. x \in faulty' <=> x \in faulty
      BY <2>3
    <3>2. Marked(x)' <=> Marked(x)
      BY DEF Marked
    <3>3. Passed(x)' = Passed(x)
      BY <2>3 DEF Passed
    <3>4. RowStands(x)'
      BY <1>3, <2>1, <2>3, <3>1 DEF RowStands, RunRow
    <3>5. StageStands(x)'
      BY <2>1, <2>3, <3>1, <3>2, <3>3 DEF StageStands
    <3>6. QED
      BY <3>4, <3>5
  <2>4. QED
    BY <2>2, <2>3
<1>8. ASSUME NEW a \in Asset
      PROVE  Shown(a)'
  <2>1. Shown(a) /\ RunsOf(a)' = RunsOf(a)
    BY <1>3 DEF RunsInv, RunsOf
  <2>2. asset'[a] = "never" => \A x \in RunsOf(a) : x \in faulty' \/ Marked(x)'
    BY <2>1 DEF Shown, Marked
  <2>3. ASSUME asset'[a] \notin {NULL, "never"}
        PROVE  \E x \in RunsOf(a) : Witness(x, a)'
    <3>1. r \in RunsOf(a) /\ Witness(r, a)'
            => \E x \in RunsOf(a) : Witness(x, a)'
      OBVIOUS
    <3>2. CASE asset'[a] # asset[a]
      <4>1. run[r] # NULL /\ run[r].asset = a
        BY <3>2
      <4>2. ~run[r].parent
        BY <4>1 DEF RunsInv, RowStands
      <4>3. r \in RunsOf(a)
        BY <4>1, <4>2 DEF RunsOf
      <4>4. QED
        BY <3>1, <3>2, <4>1, <4>3
    <3>3. CASE asset'[a] = asset[a]
      <4>1. PICK x \in RunsOf(a) : Witness(x, a)
        BY <2>1, <2>3, <3>3 DEF Shown
      <4>2. CASE x = r
        BY <3>1, <4>1, <4>2 DEF RunsOf
      <4>3. CASE x # r
        BY <3>3, <4>1, <4>3 DEF Witness, ToReport, Passed, RunsOf
      <4>4. QED
        BY <4>2, <4>3
    <3>4. QED
      BY <3>2, <3>3
  <2>4. QED
    BY <2>1, <2>2, <2>3 DEF Shown
<1>9. QED
  BY <1>4, <1>5, <1>6, <1>7, <1>8 DEF RunsInv

\* What is known of a run while it is executed.
LEMMA Executing ==
    ASSUME RunsInv, NEW r \in Run, exec[r].at # "none"
    PROVE  /\ exec[r] # Still /\ exec[r] \in ExecRecord
           /\ StageStands(r) /\ RowStands(r)
           /\ run[r] # NULL => /\ run[r] \in RunRow /\ run[r].asset \in Asset
                               /\ ~run[r].parent /\ DOMAIN item[r] = {}
                               /\ asset[run[r].asset] # NULL
<1>1. exec[r] # Still /\ exec[r] \in ExecRecord
  BY RecordsAreTyped DEF RunsInv, RowsTypeOK
<1>2. run[r] # NULL => run[r] \in RunRow /\ run[r].asset \in Asset
  BY DEF RunsInv, RowsTypeOK, RunRow
<1>3. QED
  BY <1>1, <1>2 DEF RunsInv, RowStands

LEMMA ExecGoes ==
    ASSUME RowsTypeOK, NEW r \in Run, NEW j \in ExecRecord,
           exec' = [exec EXCEPT ![r] = j]
    PROVE  /\ exec' \in [Run -> ExecRecord] /\ exec'[r] = j
           /\ \A x \in Run \ {r} : exec'[x] = exec[x]
BY DEF RowsTypeOK

LEMMA ExecGoesTo ==
    ASSUME RowsTypeOK, NEW r \in Run, NEW await \in ExecAt, ExecGoto(r, await)
    PROVE  /\ exec' \in [Run -> ExecRecord]
           /\ exec'[r].at = await /\ exec'[r].left = exec[r].left
           /\ \A x \in Run \ {r} : exec'[x] = exec[x]
BY DEF RowsTypeOK, ExecGoto, ExecRecord

LEMMA RunIsSet ==
    ASSUME RowsTypeOK, NEW r \in Run, NEW status, SetRun(r, status),
           run[r] # NULL => status \in Verdict \cup {"running"}
    PROVE  /\ run' \in [Run -> RunRow \cup {NULL}]
           /\ \A x \in Run \ {r} : run'[x] = run[x]
           /\ run[r] = NULL => run'[r] = NULL
           /\ run[r] # NULL =>
                 /\ run'[r] # NULL /\ run'[r].status = status
                 /\ run'[r].asset = run[r].asset /\ run'[r].parent = run[r].parent
<1>1. CASE run[r] = NULL
  BY <1>1 DEF SetRun, RowsTypeOK
<1>2. CASE run[r] # NULL
  <2>1. run[r] \in RunRow /\ run' = [run EXCEPT ![r] = [run[r] EXCEPT !.status = status]]
    BY <1>2 DEF SetRun, RowsTypeOK
  <2>2. PICK new : new = [run[r] EXCEPT !.status = status]
    OBVIOUS
  <2>3. /\ new \in RunRow /\ new.status = status /\ new.asset = run[r].asset
        /\ new.parent = run[r].parent
    BY <1>2, <2>1, <2>2 DEF RunRow
  <2>4. new # NULL
    BY <2>3, PlaywrightAssumption
  <2>5. run' = [run EXCEPT ![r] = new]
    BY <2>1, <2>2
  <2>6. QED
    BY <1>2, <2>3, <2>4, <2>5 DEF RowsTypeOK
<1>3. QED
  BY <1>1, <1>2

LEMMA LastRunIsSet ==
    ASSUME RowsTypeOK, NEW a \in Asset, NEW status \in Verdict \cup {"running"},
           UpdateLastRun(a, status)
    PROVE  /\ asset' \in [Asset -> LastRun]
           /\ \A b \in Asset \ {a} : asset'[b] = asset[b]
           /\ asset'[a] = IF asset[a] = NULL THEN NULL ELSE status
           /\ asset[a] # NULL => asset'[a] \notin {NULL, "never"}
BY PlaywrightAssumption DEF RowsTypeOK, UpdateLastRun, LastRun, Verdict

LEMMA RunPlaywrightKeeps ==
    ASSUME RunsInv, NEW r \in Run, RunPlaywright(r)
    PROVE  RunsInv'
<1>1. /\ exec[r].at = "files"
      /\ UNCHANGED <<asset, run, item, client, faulty>>
  BY DEF RunPlaywright
<1>2. RowsTypeOK
  BY DEF RunsInv
<1>3. /\ exec[r] # Still /\ exec[r] \in ExecRecord
      /\ StageStands(r) /\ RowStands(r)
      /\ run[r] # NULL => ~run[r].parent
  BY <1>1, Executing
<1>4. exec[r].left = {}
  BY <1>1, <1>3 DEF StageStands
<1>5. \/ Throws(r) /\ exit' = exit
      \/ /\ ExecGoto(r, "final")
         /\ \E outcome \in Verdict :
               exit' = IF run[r] = NULL THEN exit ELSE [exit EXCEPT ![r] = outcome]
  BY DEF RunPlaywright
<1>6. /\ exit' \in [Run -> Verdict \cup {NULL}]
      /\ \A x \in Run \ {r} : exit'[x] = exit[x]
      /\ run[r] = NULL => exit'[r] = NULL
  BY <1>2, <1>3, <1>5 DEF RowsTypeOK, RowStands
<1>7. CASE Throws(r) /\ exit' = exit
  <2>1. PICK j : j = [at |-> "failing", left |-> {"run", "asset"}]
    OBVIOUS
  <2>2. j \in ExecRecord /\ j.at = "failing" /\ j.left = {"run", "asset"}
    BY <2>1 DEF ExecRecord, ExecAt
  <2>3. /\ exec' \in [Run -> ExecRecord] /\ exec'[r] = j
        /\ \A x \in Run \ {r} : exec'[x] = exec[x]
    BY <1>2, <1>7, <2>1, <2>2, ExecGoes DEF Throws
  <2>4. StageStands(r)'
    BY <1>1, <1>3, <1>7, <2>2, <2>3, RecordsAreTyped DEF StageStands
  <2>5. RowsTypeOK'
    BY <1>1, <1>2, <1>6, <2>3 DEF RowsTypeOK
  <2>6. Witness(r, run[r].asset)'
    BY <2>2, <2>3 DEF Witness, ToReport
  <2>7. QED
    BY <1>1, <1>3, <1>6, <2>3, <2>4, <2>5, <2>6, ExecMoves
<1>8. CASE /\ ExecGoto(r, "final")
           /\ \E outcome \in Verdict :
                 exit' = IF run[r] = NULL THEN exit ELSE [exit EXCEPT ![r] = outcome]
  <2>1. /\ exec' \in [Run -> ExecRecord] /\ exec'[r].at = "final"
        /\ exec'[r].left = {} /\ \A x \in Run \ {r} : exec'[x] = exec[x]
    BY <1>2, <1>4, <1>8, ExecGoesTo DEF ExecAt
  <2>2. run[r] # NULL => exit'[r] \in Verdict
    BY <1>2, <1>8 DEF RowsTypeOK
  <2>3. StageStands(r)'
    BY <1>1, <2>1, <2>2, RecordsAreTyped DEF StageStands
  <2>4. RowsTypeOK'
    BY <1>1, <1>2, <1>6, <2>1 DEF RowsTypeOK
  <2>5. Witness(r, run[r].asset)'
    BY <2>1 DEF Witness, ToReport
  <2>6. QED
    BY <1>1, <1>3, <1>6, <2>1, <2>3, <2>4, <2>5, ExecMoves
<1>9. QED
  BY <1>5, <1>7, <1>8

LEMMA RecordVerdictKeeps ==
    ASSUME RunsInv, NEW r \in Run, RecordVerdict(r)
    PROVE  RunsInv'
<1>1. /\ exec[r].at = "final" /\ SetRun(r, exit[r]) /\ ExecGoto(r, "asset")
      /\ UNCHANGED <<asset, item, client, exit, faulty>>
  BY DEF RecordVerdict
<1>2. RowsTypeOK
  BY DEF RunsInv
<1>3. /\ exec[r] # Still /\ exec[r] \in ExecRecord
      /\ StageStands(r) /\ RowStands(r)
      /\ run[r] # NULL => ~run[r].parent
  BY <1>1, Executing
<1>4. exec[r].left = {} /\ (run[r] # NULL => exit[r] \in Verdict)
  BY <1>1, <1>3 DEF StageStands
<1>5. /\ exec' \in [Run -> ExecRecord] /\ exec'[r].at = "asset"
      /\ exec'[r].left = {} /\ \A x \in Run \ {r} : exec'[x] = exec[x]
  BY <1>1, <1>2, <1>4, ExecGoesTo DEF ExecAt
<1>6. /\ run' \in [Run -> RunRow \cup {NULL}]
      /\ \A x \in Run \ {r} : run'[x] = run[x]
      /\ run[r] = NULL => run'[r] = NULL
      /\ run[r] # NULL =>
            /\ run'[r] # NULL /\ run'[r].status = exit[r]
            /\ run'[r].asset = run[r].asset /\ run'[r].parent = run[r].parent
  BY <1>1, <1>2, <1>4, RunIsSet
<1>7. StageStands(r)'
  BY <1>1, <1>4, <1>5, <1>6, RecordsAreTyped DEF StageStands
<1>8. RowsTypeOK'
  BY <1>1, <1>2, <1>5, <1>6 DEF RowsTypeOK
<1>9. Witness(r, run[r].asset)'
  BY <1>5 DEF Witness, ToReport
<1>10. run[r] = NULL => exit'[r] = NULL
  BY <1>1, <1>3 DEF RowStands
<1>11. QED
  BY <1>1, <1>3, <1>5, <1>6, <1>7, <1>8, <1>9, <1>10, ExecMoves

LEMMA ReportToAssetKeeps ==
    ASSUME RunsInv, NEW r \in Run, ReportToAsset(r)
    PROVE  RunsInv'
<1>1. /\ exec[r].at = "asset" /\ ExecGoto(r, "items")
      /\ UNCHANGED <<run, item, client, exit, faulty>>
  BY DEF ReportToAsset
<1>2. RowsTypeOK
  BY DEF RunsInv
<1>3. /\ exec[r] # Still /\ exec[r] \in ExecRecord
      /\ StageStands(r) /\ RowStands(r)
      /\ run[r] # NULL => /\ ~run[r].parent /\ run[r].asset \in Asset
                          /\ asset[run[r].asset] # NULL
  BY <1>1, Executing
<1>4. exec[r].left = {}
      /\ (run[r] # NULL => exit[r] \in Verdict /\ run[r].status = exit[r])
  BY <1>1, <1>3 DEF StageStands
<1>5. /\ exec' \in [Run -> ExecRecord] /\ exec'[r].at = "items"
      /\ exec'[r].left = {} /\ \A x \in Run \ {r} : exec'[x] = exec[x]
  BY <1>1, <1>2, <1>4, ExecGoesTo DEF ExecAt
<1>6. CASE run[r] = NULL
  <2>1. asset' = asset
    BY <1>6 DEF ReportToAsset
  <2>2. RowsTypeOK'
    BY <1>1, <1>2, <1>5, <2>1 DEF RowsTypeOK
  <2>3. StageStands(r)'
    BY <1>1, <1>5, <1>6, RecordsAreTyped DEF StageStands
  <2>4. QED
    BY <1>1, <1>3, <1>5, <1>6, <2>1, <2>2, <2>3, ExecMoves DEF RowStands
<1>7. CASE run[r] # NULL
  <2>1. PICK a \in Asset : a = run[r].asset
    BY <1>3, <1>7
  <2>2. /\ asset' \in [Asset -> LastRun] /\ asset'[a] = exit[r]
        /\ \A b \in Asset \ {a} : asset'[b] = asset[b]
        /\ asset'[a] \notin {NULL, "never"}
    BY <1>2, <1>3, <1>4, <1>7, <2>1, LastRunIsSet DEF ReportToAsset
  <2>3. RowsTypeOK'
    BY <1>1, <1>2, <1>5, <2>2 DEF RowsTypeOK
  <2>4. StageStands(r)'
    BY <1>1, <1>4, <1>5, RecordsAreTyped DEF StageStands
  <2>5. exit[r] = Passed(r)'
    BY <1>1, <1>4, <1>7 DEF Passed, Verdict
  <2>6. Witness(r, run[r].asset)'
    BY <1>1, <1>5, <2>1, <2>2, <2>5 DEF Witness
  <2>7. QED
    BY <1>1, <1>3, <1>5, <1>7, <2>1, <2>2, <2>3, <2>4, <2>6, ExecMoves
<1>8. QED
  BY <1>6, <1>7

\* No item has a run of its own.
LEMMA FinishItemsKeeps ==
    ASSUME RunsInv, NEW r \in Run, FinishItems(r)
    PROVE  RunsInv'
<1>1. /\ exec[r].at = "items" /\ exec' = [exec EXCEPT ![r] = Still]
      /\ UNCHANGED <<asset, run, client, exit, faulty>>
  BY DEF FinishItems
<1>2. RowsTypeOK
  BY DEF RunsInv
<1>3. /\ exec[r] # Still /\ exec[r] \in ExecRecord
      /\ StageStands(r) /\ RowStands(r)
      /\ run[r] # NULL => ~run[r].parent /\ DOMAIN item[r] = {}
  BY <1>1, Executing
<1>4. item' = item
  BY <1>3 DEF FinishItems, SetItem
<1>5. /\ exec' \in [Run -> ExecRecord] /\ exec'[r] = Still
      /\ \A x \in Run \ {r} : exec'[x] = exec[x]
  BY <1>1, <1>2, ExecGoes, RecordsAreTyped
<1>6. RowsTypeOK'
  BY <1>1, <1>2, <1>4, <1>5 DEF RowsTypeOK
<1>7. StageStands(r)'
  <2>1. run[r] # NULL => run[r].status = Passed(r)'
    BY <1>1, <1>3 DEF StageStands, Passed, Verdict
  <2>2. QED
    BY <1>1, <1>5, <2>1, RecordsAreTyped DEF StageStands
<1>8. Witness(r, run[r].asset) => Witness(r, run[r].asset)'
  BY <1>1, <1>3, <1>5, RecordsAreTyped DEF Witness, ToReport, Passed, StageStands
<1>9. QED
  BY <1>1, <1>3, <1>4, <1>5, <1>6, <1>7, <1>8, ExecMoves DEF RowStands

LEMMA FailRunKeeps ==
    ASSUME RunsInv, NEW r \in Run, FailRun(r)
    PROVE  RunsInv'
<1>1. /\ "run" \in exec[r].left /\ SetRun(r, "failed")
      /\ UNCHANGED <<asset, item, client, exit, faulty>>
  BY DEF FailRun
<1>2. RowsTypeOK
  BY DEF RunsInv
<1>3. exec[r].at = "failing"
  BY <1>1 DEF RunsInv, StageStands
<1>4. /\ exec[r] # Still /\ exec[r] \in ExecRecord
      /\ StageStands(r) /\ RowStands(r)
      /\ run[r] # NULL => ~run[r].parent
  BY <1>3, Executing
<1>5. PICK j : j = IF exec[r].left = {"run"} THEN Still
                   ELSE [exec[r] EXCEPT !.left = {"asset"}]
  OBVIOUS
<1>6. /\ j \in ExecRecord
      /\ \/ exec[r].left = {"run"} /\ j = Still
         \/ /\ "asset" \in exec[r].left
            /\ j.at = "failing" /\ j.left = {"asset"}
  BY <1>1, <1>3, <1>4, <1>5, RecordsAreTyped DEF ExecRecord
<1>7. exec' = [exec EXCEPT ![r] = j]
  BY <1>5 DEF FailRun
<1>8. /\ exec' \in [Run -> ExecRecord] /\ exec'[r] = j
      /\ \A x \in Run \ {r} : exec'[x] = exec[x]
  BY <1>2, <1>6, <1>7, ExecGoes
<1>9. /\ run' \in [Run -> RunRow \cup {NULL}]
      /\ \A x \in Run \ {r} : run'[x] = run[x]
      /\ run[r] = NULL => run'[r] = NULL
      /\ run[r] # NULL =>
            /\ run'[r] # NULL /\ run'[r].status = "failed"
            /\ run'[r].asset = run[r].asset /\ run'[r].parent = run[r].parent
  BY <1>1, <1>2, RunIsSet DEF Verdict
<1>10. RowsTypeOK'
  BY <1>1, <1>2, <1>8, <1>9 DEF RowsTypeOK
<1>11. run[r] # NULL => exit[r] = NULL /\ Passed(r)' = "failed"
  BY <1>1, <1>3, <1>4, PlaywrightAssumption DEF StageStands, Passed, Verdict
<1>12. StageStands(r)'
  BY <1>1, <1>6, <1>8, <1>9, <1>11, RecordsAreTyped DEF StageStands
<1>13. Witness(r, run[r].asset) /\ run[r] # NULL => Witness(r, run[r].asset)'
  BY <1>1, <1>3, <1>6, <1>8, <1>9, RecordsAreTyped DEF Witness, ToReport, Passed
<1>14. QED
  BY <1>1, <1>4, <1>8, <1>9, <1>10, <1>12, <1>13, ExecMoves DEF RowStands

LEMMA FailAssetKeeps ==
    ASSUME RunsInv, NEW r \in Run, FailAsset(r)
    PROVE  RunsInv'
<1>1. /\ "asset" \in exec[r].left
      /\ UNCHANGED <<run, item, client, exit, faulty>>
  BY DEF FailAsset
<1>2. RowsTypeOK
  BY DEF RunsInv
<1>3. exec[r].at = "failing"
  BY <1>1 DEF RunsInv, StageStands
<1>4. /\ exec[r] # Still /\ exec[r] \in ExecRecord
      /\ StageStands(r) /\ RowStands(r)
      /\ run[r] # NULL => /\ ~run[r].parent /\ run[r].asset \in Asset
                          /\ asset[run[r].asset] # NULL
  BY <1>3, Executing
<1>5. PICK j : j = IF exec[r].left = {"asset"} THEN Still
                   ELSE [exec[r] EXCEPT !.left = {"run"}]
  OBVIOUS
<1>6. /\ j \in ExecRecord
      /\ \/ exec[r].left = {"asset"} /\ j = Still
         \/ "run" \in exec[r].left /\ j.at = "failing" /\ j.left = {"run"}
  BY <1>1, <1>3, <1>4, <1>5, RecordsAreTyped DEF ExecRecord
<1>7. exec' = [exec EXCEPT ![r] = j]
  BY <1>5 DEF FailAsset
<1>8. /\ exec' \in [Run -> ExecRecord] /\ exec'[r] = j
      /\ \A x \in Run \ {r} : exec'[x] = exec[x]
  BY <1>2, <1>6, <1>7, ExecGoes
<1>9. run[r] # NULL => exit[r] = NULL /\ Passed(r)' = "failed" /\ Passed(r) = "failed"
  BY <1>1, <1>3, <1>4, PlaywrightAssumption DEF StageStands, Passed, Verdict
<1>10. StageStands(r)'
  <2>1. run[r] # NULL /\ exec[r].left = {"asset"} => run[r].status = "failed"
    BY <1>3, <1>4 DEF StageStands
  <2>2. run[r] # NULL /\ "run" \in exec[r].left => "run" \in j.left
    BY <1>6
  <2>3. QED
    BY <1>1, <1>6, <1>8, <1>9, <2>1, <2>2, RecordsAreTyped DEF StageStands
<1>11. CASE run[r] = NULL
  <2>1. asset' = asset
    BY <1>11 DEF FailAsset
  <2>2. RowsTypeOK'
    BY <1>1, <1>2, <1>8, <2>1 DEF RowsTypeOK
  <2>3. QED
    BY <1>1, <1>4, <1>8, <1>10, <1>11, <2>1, <2>2, ExecMoves DEF RowStands
<1>12. CASE run[r] # NULL
  <2>1. PICK a \in Asset : a = run[r].asset
    BY <1>4, <1>12
  <2>2. /\ asset' \in [Asset -> LastRun] /\ asset'[a] = "failed"
        /\ \A b \in Asset \ {a} : asset'[b] = asset[b]
        /\ asset'[a] \notin {NULL, "never"}
    BY <1>2, <1>4, <1>12, <2>1, LastRunIsSet DEF FailAsset, Verdict
  <2>3. RowsTypeOK'
    BY <1>1, <1>2, <1>8, <2>2 DEF RowsTypeOK
  <2>4. Witness(r, run[r].asset)'
    BY <1>1, <1>6, <1>8, <1>9, <1>12, <2>1, <2>2, RecordsAreTyped DEF Witness
  <2>5. QED
    BY <1>1, <1>4, <1>8, <1>10, <1>12, <2>1, <2>2, <2>3, <2>4, ExecMoves
<1>13. QED
  BY <1>11, <1>12

LEMMA ExecFailsKeeps ==
    ASSUME RunsInv, NEW r \in Run, ExecFails(r)
    PROVE  RunsInv'
<1>1. /\ exec[r].at \in Drop /\ exit' = [exit EXCEPT ![r] = NULL]
      /\ IF exec[r].at = "failing" THEN exec' = [exec EXCEPT ![r] = Still]
                                   ELSE Throws(r)
      /\ faulty' = faulty \cup (IF exec[r].at = "files" THEN {} ELSE Known({r}))
      /\ UNCHANGED <<asset, run, item, client>>
  BY DEF ExecFails
<1>2. RowsTypeOK
  BY DEF RunsInv
<1>3. exec[r].at # "none"
  BY <1>1, PlaywrightAssumption
<1>4. /\ exec[r] # Still /\ exec[r] \in ExecRecord
      /\ StageStands(r) /\ RowStands(r)
      /\ run[r] # NULL => ~run[r].parent
  BY <1>3, Executing
<1>5. /\ exit' \in [Run -> Verdict \cup {NULL}] /\ exit'[r] = NULL
      /\ \A x \in Run \ {r} : exit'[x] = exit[x]
  BY <1>1, <1>2 DEF RowsTypeOK
<1>6. /\ faulty \subseteq faulty' /\ faulty' \subseteq Run
      /\ \A x \in faulty' : x \in faulty \/ (x = r /\ run[r] # NULL)
      /\ exec[r].at # "files" /\ run[r] # NULL => r \in faulty'
  BY <1>1, <1>2 DEF RowsTypeOK, Known
<1>7. PICK j : j = IF exec[r].at = "failing" THEN Still
                   ELSE [at |-> "failing", left |-> {"run", "asset"}]
  OBVIOUS
<1>8. /\ j \in ExecRecord
      /\ \/ exec[r].at = "failing" /\ j = Still
         \/ j.at = "failing" /\ j.left = {"run", "asset"}
  BY <1>7, RecordsAreTyped DEF ExecRecord, ExecAt
<1>9. exec' = [exec EXCEPT ![r] = j]
  BY <1>1, <1>7 DEF Throws
<1>10. /\ exec' \in [Run -> ExecRecord] /\ exec'[r] = j
       /\ \A x \in Run \ {r} : exec'[x] = exec[x]
  BY <1>2, <1>8, <1>9, ExecGoes
<1>11. RowsTypeOK'
  BY <1>1, <1>2, <1>5, <1>6, <1>10 DEF RowsTypeOK
<1>12. StageStands(r)'
  BY <1>1, <1>5, <1>6, <1>8, <1>10, RecordsAreTyped DEF StageStands
<1>13. run[r] # NULL => Witness(r, run[r].asset)'
  BY <1>6, <1>8, <1>10 DEF Witness, ToReport
<1>14. QED
  BY <1>1, <1>4, <1>5, <1>6, <1>10, <1>11, <1>12, <1>13, ExecMoves

(***************************************************************************)
(* Requests.                                                               *)
(***************************************************************************)

\* A request goes on: it lets go of a run that is faulty, or has no row, and
\* writes the items of its bulk run.
LEMMA ClientMoves ==
    ASSUME RunsInv, NEW c \in Client,
           asset' = asset, run' = run, exec' = exec, exit' = exit, RowsTypeOK',
           \A d \in Client \ {c} : client'[d] = client[d],
           client'[c].run \in {NULL, client[c].run},
           client'[c].bulk \in {NULL, client[c].bulk},
           faulty \subseteq faulty',
           \A x \in faulty' : x \in faulty \/ run[x] # NULL,
           \A x \in Run : \/ item'[x] = item[x]
                          \/ /\ x = client[c].bulk
                             /\ run[x] = NULL => DOMAIN item'[x] = {},
           client[c].at = "markAsset" =>
              \/ client'[c].at = "markAsset" /\ client'[c].run = client[c].run
              \/ run[client[c].run] = NULL \/ client[c].run \in faulty',
           Carries(c)', Holds(c)'
    PROVE  RunsInv'
<1>1. RowsTypeOK
  BY DEF RunsInv
<1>2. /\ Holds(c) /\ Carries(c) /\ client[c] \in ClientRecord
      /\ NULL \notin Run
  BY <1>1, PlaywrightAssumption DEF RunsInv, RowsTypeOK
<1>3. \A x \in Run : x = client[c].bulk => Bulk(c, x)
  BY <1>2 DEF Holds
<1>4. ASSUME NEW d \in Client \ {c}
      PROVE  Carries(d)' /\ Holds(d)'
  <2>1. /\ Holds(d) /\ Carries(d) /\ client[d] \in ClientRecord /\ Apart(d, c)
        /\ client'[d] = client[d]
    BY <1>1 DEF RunsInv, RowsTypeOK
  <2>2. Carries(d)'
    BY <2>1 DEF Carries
  <2>3. client[d].bulk # NULL => Bulk(d, client[d].bulk)'
    <3>1. ASSUME client[d].bulk # NULL
          PROVE  Bulk(d, client[d].bulk)'
      <4>1. PICK p \in Run : p = client[d].bulk
        BY <2>1, <3>1 DEF ClientRecord
      <4>2. p # client[c].bulk
        BY <2>1, <3>1, <4>1 DEF Apart
      <4>3. item'[p] = item[p] /\ Bulk(d, p)
        BY <2>1, <3>1, <4>1, <4>2 DEF Holds
      <4>4. QED
        BY <2>1, <4>1, <4>3 DEF Bulk
    <3>2. QED
      BY <3>1
  <2>4. client[d].at = "markAsset" => Marks(d, client[d].run)'
    BY <2>1 DEF Holds, Marks
  <2>5. Holds(d)'
    BY <2>1, <2>3, <2>4 DEF Holds
  <2>6. QED
    BY <2>2, <2>5
<1>5. ASSUME NEW d \in Client, NEW e \in Client \ {d}
      PROVE  Apart(d, e)'
  <2>1. Apart(d, e) /\ Apart(e, d)
    BY DEF RunsInv
  <2>2. CASE d = c
    BY <2>1, <2>2 DEF Apart
  <2>3. CASE e = c
    BY <2>1, <2>3 DEF Apart
  <2>4. CASE d # c /\ e # c
    BY <2>1, <2>4 DEF Apart
  <2>5. QED
    BY <2>2, <2>3, <2>4
<1>6. ASSUME NEW x \in Run, Marked(x)
      PROVE  Marked(x)' \/ run[x] = NULL \/ x \in faulty'
  <2>1. PICK d \in Client : client[d].at = "markAsset" /\ client[d].run = x
    BY <1>6 DEF Marked
  <2>2. CASE d = c
    BY <2>1, <2>2 DEF Marked
  <2>3. CASE d # c
    BY <2>1, <2>3 DEF Marked
  <2>4. QED
    BY <2>2, <2>3
<1>7. ASSUME NEW x \in Run
      PROVE  RowStands(x)' /\ StageStands(x)'
  <2>1. RowStands(x) /\ StageStands(x)
    BY DEF RunsInv
  <2>2. RowStands(x)'
    <3>1. CASE item'[x] = item[x]
      BY <2>1, <3>1 DEF RowStands
    <3>2. CASE x = client[c].bulk /\ (run[x] = NULL => DOMAIN item'[x] = {})
      BY <1>3, <2>1, <3>2 DEF RowStands, Bulk
    <3>3. QED
      BY <3>1, <3>2
  <2>3. StageStands(x)'
    BY <1>6, <2>1 DEF StageStands, Passed
  <2>4. QED
    BY <2>2, <2>3
<1>8. ASSUME NEW a \in Asset
      PROVE  Shown(a)'
  <2>1. Shown(a) /\ RunsOf(a)' = RunsOf(a)
        /\ \A x \in RunsOf(a) : x \in Run /\ run[x] # NULL
    BY DEF RunsInv, RunsOf
  <2>2. \A x \in RunsOf(a) : x \in faulty \/ Marked(x) => x \in faulty' \/ Marked(x)'
    BY <1>6, <2>1
  <2>3. \A x \in RunsOf(a) : Witness(x, a) => Witness(x, a)'
    BY DEF Witness, ToReport, Passed
  <2>4. QED
    BY <2>1, <2>2, <2>3 DEF Shown
<1>9. QED
  BY <1>4, <1>5, <1>7, <1>8 DEF RunsInv

\* What a request that is over leaves behind.
LEMMA ClientRests ==
    ASSUME RowsTypeOK, NEW c \in Client, Done(c)
    PROVE  /\ client' \in [Client -> ClientRecord]
           /\ client'[c] = Waiting
           /\ \A d \in Client \ {c} : client'[d] = client[d]
           /\ client'[c].run = NULL /\ client'[c].bulk = NULL
           /\ client'[c].at = "idle"
           /\ Carries(c)' /\ Holds(c)'
<1>1. /\ client' \in [Client -> ClientRecord] /\ client'[c] = Waiting
      /\ \A d \in Client \ {c} : client'[d] = client[d]
  BY RecordsAreTyped DEF RowsTypeOK, Done
<1>2. Carries(c)' /\ Holds(c)'
  BY <1>1, RecordsAreTyped DEF Carries, Holds
<1>3. QED
  BY <1>1, <1>2, RecordsAreTyped

LEMMA ClientGoes ==
    ASSUME RowsTypeOK, NEW c \in Client, NEW at \in ClientAt, Goto(c, at)
    PROVE  /\ client' \in [Client -> ClientRecord]
           /\ \A d \in Client \ {c} : client'[d] = client[d]
           /\ client'[c].at = at
           /\ client'[c].run = client[c].run /\ client'[c].bulk = client[c].bulk
           /\ client'[c].asset = client[c].asset /\ client'[c].todo = client[c].todo
           /\ client'[c].started = client[c].started
BY DEF RowsTypeOK, Goto, ClientRecord

\* A request is over, or goes to where it refuses its asset.
LEMMA ThrownKeeps ==
    ASSUME RunsInv, NEW c \in Client, Thrown(c),
           client[c].at \in {"insertRun", "markAsset"},
           asset' = asset, run' = run, item' = item, exec' = exec, exit' = exit,
           faulty \subseteq faulty', faulty' \subseteq Run,
           \A x \in faulty' : x \in faulty \/ run[x] # NULL,
           client[c].run # NULL => run[client[c].run] = NULL \/ client[c].run \in faulty'
    PROVE  RunsInv'
<1>1. RowsTypeOK /\ Carries(c) /\ Holds(c) /\ client[c] \in ClientRecord
  BY DEF RunsInv, RowsTypeOK
<1>2. client[c].at = "markAsset" => client[c].run # NULL
  BY <1>1, PlaywrightAssumption DEF Carries
<1>3. CASE client[c].bulk = NULL
  <2>1. Done(c)
    BY <1>3 DEF Thrown
  <2>2. RowsTypeOK'
    BY <1>1, <2>1, ClientRests DEF RowsTypeOK
  <2>3. QED
    BY <1>1, <1>2, <2>1, <2>2, ClientRests, ClientMoves
<1>4. CASE client[c].bulk # NULL
  <2>1. Goto(c, "refuse") /\ "refuse" \in ClientAt
    BY <1>4 DEF Thrown, ClientAt
  <2>2. /\ client' \in [Client -> ClientRecord]
        /\ \A d \in Client \ {c} : client'[d] = client[d]
        /\ client'[c].at = "refuse"
        /\ client'[c].run = client[c].run /\ client'[c].bulk = client[c].bulk
        /\ client'[c].asset = client[c].asset /\ client'[c].todo = client[c].todo
        /\ client'[c].started = client[c].started
    BY <1>1, <2>1, ClientGoes
  <2>3. RowsTypeOK'
    BY <1>1, <2>2 DEF RowsTypeOK
  <2>4. Carries(c)'
    BY <1>1, <1>4, <2>2 DEF Carries, ClientRecord
  <2>5. Bulk(c, client[c].bulk)'
    BY <1>1, <1>4, <2>2 DEF Holds, Bulk
  <2>6. Holds(c)'
    BY <1>1, <2>2, <2>5 DEF Holds
  <2>7. QED
    BY <1>2, <2>2, <2>3, <2>4, <2>6, ClientMoves
<1>5. QED
  BY <1>3, <1>4

LEMMA ItemIsSet ==
    ASSUME RowsTypeOK, NEW p \in Run, p # NULL, NEW a \in Asset,
           NEW status \in ItemStatus, SetItem(p, a, status)
    PROVE  /\ item' \in [Run -> Table]
           /\ \A x \in Run \ {p} : item'[x] = item[x]
           /\ DOMAIN item'[p] = DOMAIN item[p]
           /\ \A b \in DOMAIN item[p] : item'[p][b] = IF b = a THEN status ELSE item[p][b]
<1>1. CASE a \notin DOMAIN item[p]
  BY <1>1 DEF SetItem, RowsTypeOK
<1>2. CASE a \in DOMAIN item[p]
  <2>1. PICK A \in SUBSET Asset : item[p] \in [A -> ItemStatus]
    BY DEF RowsTypeOK, Table
  <2>2. PICK new : new = [item[p] EXCEPT ![a] = status]
    OBVIOUS
  <2>3. /\ new \in [A -> ItemStatus] /\ DOMAIN new = DOMAIN item[p]
        /\ \A b \in DOMAIN item[p] : new[b] = IF b = a THEN status ELSE item[p][b]
    BY <2>1, <2>2
  <2>4. new \in Table
    BY <2>3 DEF Table
  <2>5. item' = [item EXCEPT ![p] = new]
    BY <1>2, <2>2 DEF SetItem
  <2>6. QED
    BY <2>3, <2>4, <2>5 DEF RowsTypeOK
<1>3. QED
  BY <1>1, <1>2

LEMMA SwapConfigKeeps ==
    ASSUME RunsInv, NEW c \in Client, NEW new \in Config, SwapConfig(c, new)
    PROVE  RunsInv'
<1>1. RowsTypeOK /\ Carries(c) /\ Holds(c) /\ client[c] \in ClientRecord
  BY DEF RunsInv, RowsTypeOK
<1>2. /\ client[c].at = "idle"
      /\ client' = [client EXCEPT ![c].at = "store", ![c].config = new]
      /\ UNCHANGED <<asset, run, item, exec, exit, faulty>>
  BY DEF SwapConfig, At
<1>3. /\ client' \in [Client -> ClientRecord]
      /\ \A d \in Client \ {c} : client'[d] = client[d]
      /\ client'[c].at = "store"
      /\ client'[c].run = client[c].run /\ client'[c].bulk = client[c].bulk
  BY <1>1, <1>2 DEF RowsTypeOK, ClientRecord, ClientAt
<1>4. RowsTypeOK'
  BY <1>1, <1>2, <1>3 DEF RowsTypeOK
<1>5. Carries(c)' /\ Holds(c)'
  BY <1>1, <1>2, <1>3 DEF Carries, Holds
<1>6. QED
  BY <1>2, <1>3, <1>4, <1>5, ClientMoves DEF RunsInv, RowsTypeOK

LEMMA StoreConfigKeeps ==
    ASSUME RunsInv, NEW c \in Client, StoreConfig(c)
    PROVE  RunsInv'
<1>1. RowsTypeOK
  BY DEF RunsInv
<1>2. /\ client[c].at = "store" /\ Done(c)
      /\ UNCHANGED <<asset, run, item, exec, exit, faulty>>
  BY DEF StoreConfig, At
<1>3. RowsTypeOK'
  BY <1>1, <1>2, ClientRests DEF RowsTypeOK
<1>4. QED
  BY <1>1, <1>2, <1>3, ClientRests, ClientMoves DEF RowsTypeOK

LEMMA RequestRunKeeps ==
    ASSUME RunsInv, NEW c \in Client, NEW a \in Asset, NEW skip, RequestRun(c, a, skip)
    PROVE  RunsInv'
<1>1. RowsTypeOK /\ Carries(c) /\ Holds(c) /\ client[c] \in ClientRecord
  BY DEF RunsInv, RowsTypeOK
<1>2. /\ client[c].at = "idle"
      /\ client' = [client EXCEPT ![c].at = "insertRun", ![c].asset = a]
      /\ UNCHANGED <<asset, run, item, exec, exit, faulty>>
  BY DEF RequestRun, At
<1>3. /\ client' \in [Client -> ClientRecord]
      /\ \A d \in Client \ {c} : client'[d] = client[d]
      /\ client'[c].at = "insertRun" /\ client'[c].asset = a
      /\ client'[c].run = client[c].run /\ client'[c].bulk = client[c].bulk
  BY <1>1, <1>2 DEF RowsTypeOK, ClientRecord, ClientAt
<1>4. RowsTypeOK'
  BY <1>1, <1>2, <1>3 DEF RowsTypeOK
<1>5. Carries(c)' /\ Holds(c)'
  BY <1>1, <1>2, <1>3 DEF Carries, Holds
<1>6. QED
  BY <1>2, <1>3, <1>4, <1>5, ClientMoves DEF RunsInv, RowsTypeOK

LEMMA RequestBulkKeeps ==
    ASSUME RunsInv, NEW c \in Client, NEW A \in SUBSET Asset, NEW only,
           RequestBulk(c, A, only)
    PROVE  RunsInv'
<1>1. RowsTypeOK /\ Carries(c) /\ Holds(c) /\ client[c] \in ClientRecord
  BY DEF RunsInv, RowsTypeOK
<1>2. PICK ready \in SUBSET Asset :
        client' = [client EXCEPT ![c].at = "insertBulk", ![c].todo = ready]
  BY DEF RequestBulk
<1>3. /\ client[c].at = "idle"
      /\ UNCHANGED <<asset, run, item, exec, exit, faulty>>
  BY DEF RequestBulk, At
<1>4. /\ client' \in [Client -> ClientRecord]
      /\ \A d \in Client \ {c} : client'[d] = client[d]
      /\ client'[c].at = "insertBulk"
      /\ client'[c].run = client[c].run /\ client'[c].bulk = client[c].bulk
      /\ client'[c].asset = client[c].asset
  BY <1>1, <1>2 DEF RowsTypeOK, ClientRecord, ClientAt
<1>5. RowsTypeOK'
  BY <1>1, <1>3, <1>4 DEF RowsTypeOK
<1>6. Carries(c)' /\ Holds(c)'
  BY <1>1, <1>3, <1>4 DEF Carries, Holds
<1>7. QED
  BY <1>3, <1>4, <1>5, <1>6, ClientMoves DEF RunsInv, RowsTypeOK

LEMMA ClientFailsKeeps ==
    ASSUME RunsInv, NEW c \in Client, ClientFails(c)
    PROVE  RunsInv'
<1>1. RowsTypeOK /\ Carries(c) /\ Holds(c) /\ client[c] \in ClientRecord
  BY DEF RunsInv, RowsTypeOK
<1>2. UNCHANGED <<asset, run, item, exec, exit>>
  BY DEF ClientFails
<1>3. CASE client[c].at \in {"insertRun", "markAsset"}
  <2>1. Thrown(c) /\ faulty' = faulty \cup Known({client[c].run})
    BY <1>3 DEF ClientFails
  <2>2. /\ faulty \subseteq faulty' /\ faulty' \subseteq Run
        /\ \A x \in faulty' : x \in faulty \/ run[x] # NULL
        /\ client[c].run # NULL
               => run[client[c].run] = NULL \/ client[c].run \in faulty'
    BY <1>1, <2>1 DEF Known, RowsTypeOK, ClientRecord
  <2>3. QED
    BY <1>2, <1>3, <2>1, <2>2, ThrownKeeps
<1>4. CASE client[c].at \notin {"insertRun", "markAsset"}
  <2>1. Done(c) /\ faulty' = faulty \cup Known({client[c].bulk})
    BY <1>4 DEF ClientFails
  <2>2. /\ faulty \subseteq faulty' /\ faulty' \subseteq Run
        /\ \A x \in faulty' : x \in faulty \/ run[x] # NULL
    BY <1>1, <2>1 DEF Known, RowsTypeOK
  <2>3. client[c].run # NULL
           => run[client[c].run] = NULL \/ client[c].run \in faulty'
    BY <1>1, <1>4, <2>2 DEF Carries, Holds
  <2>4. RowsTypeOK'
    BY <1>1, <1>2, <2>1, <2>2, ClientRests DEF RowsTypeOK
  <2>5. QED
    BY <1>1, <1>2, <1>4, <2>1, <2>2, <2>3, <2>4, ClientRests, ClientMoves
<1>5. QED
  BY <1>3, <1>4

LEMMA RefuseKeeps ==
    ASSUME RunsInv, NEW c \in Client, Refuse(c)
    PROVE  RunsInv'
<1>1. RowsTypeOK /\ Carries(c) /\ Holds(c) /\ client[c] \in ClientRecord
  BY DEF RunsInv, RowsTypeOK
<1>2. /\ client[c].at = "refuse"
      /\ client' = [client EXCEPT ![c].at = "next", ![c].run = NULL, ![c].asset = NULL]
      /\ UNCHANGED <<asset, run, exec, exit, faulty>>
      /\ SetItem(client[c].bulk, client[c].asset, "failed")
  BY DEF Refuse, At
<1>3. PICK p \in Run, a \in Asset :
         p = client[c].bulk /\ a = client[c].asset
  BY <1>1, <1>2 DEF Carries
<1>4. p # NULL /\ Bulk(c, p)
  BY <1>1, <1>3, PlaywrightAssumption DEF Holds
<1>5. /\ item' \in [Run -> Table]
      /\ \A x \in Run \ {p} : item'[x] = item[x]
      /\ DOMAIN item'[p] = DOMAIN item[p]
      /\ \A b \in DOMAIN item[p] : item'[p][b] = IF b = a THEN "failed" ELSE item[p][b]
  BY <1>1, <1>2, <1>3, <1>4, ItemIsSet DEF ItemStatus
<1>6. /\ client' \in [Client -> ClientRecord]
      /\ \A d \in Client \ {c} : client'[d] = client[d]
      /\ client'[c].at = "next" /\ client'[c].asset = NULL
      /\ client'[c].run = NULL /\ client'[c].bulk = client[c].bulk
      /\ client'[c].todo = client[c].todo /\ client'[c].started = client[c].started
  BY <1>1, <1>2 DEF RowsTypeOK, ClientRecord, ClientAt
<1>7. RowsTypeOK'
  BY <1>1, <1>2, <1>5, <1>6 DEF RowsTypeOK
<1>8. Carries(c)'
  BY <1>3, <1>6 DEF Carries
<1>9. Bulk(c, p)'
  BY <1>2, <1>3, <1>4, <1>5, <1>6 DEF Bulk
<1>10. Holds(c)'
  BY <1>3, <1>4, <1>6, <1>9 DEF Holds
<1>11. run[p] = NULL => DOMAIN item'[p] = {}
  BY <1>5 DEF RunsInv, RowStands
<1>12. QED
  BY <1>1, <1>2, <1>3, <1>5, <1>6, <1>7, <1>8, <1>10, <1>11, ClientMoves DEF RowsTypeOK

LEMMA NextAssetKeeps ==
    ASSUME RunsInv, NEW c \in Client, NextAsset(c)
    PROVE  RunsInv'
<1>1. RowsTypeOK /\ Carries(c) /\ Holds(c) /\ client[c] \in ClientRecord
  BY DEF RunsInv, RowsTypeOK
<1>2. client[c].at = "next" /\ UNCHANGED <<asset, run, exec, exit, faulty>>
  BY DEF NextAsset, At
<1>3. PICK a \in client[c].todo :
         /\ SetItem(client[c].bulk, a, "running")
         /\ client' = [client EXCEPT ![c].at = "insertRun", ![c].asset = a,
                                     ![c].todo = @ \ {a}]
  BY DEF NextAsset
<1>4. PICK p \in Run : p = client[c].bulk
  BY <1>1, <1>2 DEF Carries
<1>5. p # NULL /\ Bulk(c, p) /\ a \in Asset
  BY <1>1, <1>4, PlaywrightAssumption DEF Holds, ClientRecord
<1>6. /\ item' \in [Run -> Table]
      /\ \A x \in Run \ {p} : item'[x] = item[x]
      /\ DOMAIN item'[p] = DOMAIN item[p]
      /\ \A b \in DOMAIN item[p] : item'[p][b] = IF b = a THEN "running" ELSE item[p][b]
  BY <1>1, <1>3, <1>4, <1>5, ItemIsSet DEF ItemStatus
<1>7. /\ client' \in [Client -> ClientRecord]
      /\ \A d \in Client \ {c} : client'[d] = client[d]
      /\ client'[c].at = "insertRun" /\ client'[c].asset = a
      /\ client'[c].run = client[c].run /\ client'[c].bulk = client[c].bulk
      /\ client'[c].todo = client[c].todo \ {a}
      /\ client'[c].started = client[c].started
  BY <1>1, <1>3, <1>5 DEF RowsTypeOK, ClientRecord, ClientAt
<1>8. RowsTypeOK'
  BY <1>1, <1>2, <1>6, <1>7 DEF RowsTypeOK
<1>9. Carries(c)'
  BY <1>1, <1>2, <1>5, <1>7 DEF Carries
<1>10. Bulk(c, p)'
  <2>1. run[p] # NULL /\ ~client[c].started =>
           \A b \in DOMAIN item[p] : \/ b \in client[c].todo \cup {NULL}
                                     \/ item[p][b] = "failed"
    BY <1>1, <1>2, <1>5 DEF Bulk, Carries
  <2>2. \A b \in DOMAIN item[p] : b \in Asset
    BY <1>1 DEF RowsTypeOK, Table
  <2>3. run[p] # NULL /\ ~client[c].started =>
           \A b \in DOMAIN item[p] : \/ b \in (client[c].todo \ {a}) \cup {a}
                                     \/ item'[p][b] = "failed"
    BY <1>6, <2>1, <2>2, PlaywrightAssumption
  <2>4. QED
    BY <1>2, <1>5, <1>6, <1>7, <2>3 DEF Bulk
<1>11. Holds(c)'
  BY <1>1, <1>2, <1>4, <1>5, <1>7, <1>10 DEF Holds, Carries
<1>12. run[p] = NULL => DOMAIN item'[p] = {}
  BY <1>6 DEF RunsInv, RowStands
<1>13. QED
  BY <1>1, <1>2, <1>4, <1>6, <1>7, <1>8, <1>9, <1>11, <1>12, ClientMoves DEF RowsTypeOK

LEMMA QueueItemsKeeps ==
    ASSUME RunsInv, NEW c \in Client, QueueItems(c)
    PROVE  RunsInv'
<1>1. RowsTypeOK /\ Carries(c) /\ Holds(c) /\ client[c] \in ClientRecord
  BY DEF RunsInv, RowsTypeOK
<1>2. client[c].at = "items" /\ UNCHANGED <<asset, run, exec, exit>>
  BY DEF QueueItems, At
<1>3. PICK p \in Run : p = client[c].bulk
  BY <1>1, <1>2 DEF Carries
<1>4. p # NULL /\ Bulk(c, p)
  BY <1>1, <1>3, PlaywrightAssumption DEF Holds
<1>5. PICK some \in SUBSET Asset :
        /\ item' = [item EXCEPT ![p] = [a \in some |-> "queued"]]
        /\ \/ /\ run[p] # NULL /\ some \subseteq client[c].todo
              /\ Goto(c, "next") /\ faulty' = faulty
           \/ /\ run[p] = NULL => some = {}
              /\ faulty' = faulty \cup ({p} \ {r \in Run : run[r] = NULL})
              /\ Done(c)
  <2>1. CASE run[p] # NULL /\ {a \in client[c].todo : asset[a] # NULL} = client[c].todo
    <3>1. PICK some \in SUBSET Asset : some = client[c].todo
      BY <1>1 DEF ClientRecord
    <3>2. QED
      BY <1>3, <2>1, <3>1 DEF QueueItems
  <2>2. CASE ~(run[p] # NULL /\ {a \in client[c].todo : asset[a] # NULL} = client[c].todo)
    <3>1. PICK some \in SUBSET {a \in client[c].todo : asset[a] # NULL} :
             /\ item' = [item EXCEPT ![p] =
                   [a \in (IF run[p] = NULL THEN {} ELSE some) |-> "queued"]]
             /\ faulty' = faulty \cup ({p} \ {r \in Run : run[r] = NULL})
             /\ Done(c)
      BY <1>3, <2>2 DEF QueueItems
    <3>2. PICK these : these = IF run[p] = NULL THEN {} ELSE some
      OBVIOUS
    <3>3. these \in SUBSET Asset /\ (run[p] = NULL => these = {})
      BY <1>1, <3>2 DEF ClientRecord
    <3>4. item' = [item EXCEPT ![p] = [a \in these |-> "queued"]]
      BY <3>1, <3>2
    <3>5. QED
      BY <3>1, <3>3, <3>4
  <2>3. QED
    BY <2>1, <2>2
<1>6. /\ [a \in some |-> "queued"] \in Table
      /\ DOMAIN [a \in some |-> "queued"] = some
  <2>1. [a \in some |-> "queued"] \in [some -> ItemStatus]
    BY DEF ItemStatus
  <2>2. QED
    BY <2>1 DEF Table
<1>7. /\ item' \in [Run -> Table] /\ DOMAIN item'[p] = some
      /\ \A x \in Run \ {p} : item'[x] = item[x]
  BY <1>1, <1>5, <1>6 DEF RowsTypeOK
<1>8. CASE /\ run[p] # NULL /\ some \subseteq client[c].todo
           /\ Goto(c, "next") /\ faulty' = faulty
  <2>1. /\ client' \in [Client -> ClientRecord]
        /\ \A d \in Client \ {c} : client'[d] = client[d]
        /\ client'[c].at = "next"
        /\ client'[c].run = client[c].run /\ client'[c].bulk = client[c].bulk
        /\ client'[c].asset = client[c].asset /\ client'[c].todo = client[c].todo
        /\ client'[c].started = client[c].started
    BY <1>1, <1>8, ClientGoes DEF ClientAt
  <2>2. RowsTypeOK'
    BY <1>1, <1>2, <1>7, <1>8, <2>1 DEF RowsTypeOK
  <2>3. Carries(c)'
    BY <1>1, <1>2, <1>3, <2>1 DEF Carries
  <2>4. Bulk(c, p)'
    BY <1>2, <1>4, <1>7, <1>8, <2>1 DEF Bulk
  <2>5. Holds(c)'
    BY <1>1, <1>2, <1>3, <1>4, <2>1, <2>4 DEF Holds, Carries
  <2>6. QED
    BY <1>1, <1>2, <1>3, <1>7, <1>8, <2>1, <2>2, <2>3, <2>5, ClientMoves DEF RowsTypeOK
<1>9. CASE /\ run[p] = NULL => some = {}
           /\ faulty' = faulty \cup ({p} \ {r \in Run : run[r] = NULL})
           /\ Done(c)
  <2>1. RowsTypeOK'
    BY <1>1, <1>2, <1>7, <1>9, ClientRests DEF RowsTypeOK
  <2>2. QED
    BY <1>1, <1>2, <1>3, <1>7, <1>9, <2>1, ClientRests, ClientMoves DEF RowsTypeOK
<1>10. QED
  BY <1>5, <1>8, <1>9

\* A run is entered, of which nothing was known before.
LEMMA InsertMoves ==
    ASSUME RunsInv, NEW c \in Client, NEW r \in Run, NEW a \in Asset,
           NEW parent \in BOOLEAN, NewRun(r, a, parent), asset[a] # NULL,
           asset' = asset, item' = item, exec' = exec, exit' = exit, faulty' = faulty,
           client[c].run = NULL, client[c].at # "markAsset",
           client' \in [Client -> ClientRecord],
           \A d \in Client \ {c} : client'[d] = client[d],
           parent => /\ client'[c].run = NULL /\ client'[c].bulk = r
                     /\ client[c].bulk = NULL /\ client'[c].at = "items",
           ~parent => /\ client'[c].run = r /\ client'[c].bulk = client[c].bulk
                      /\ client'[c].at = "markAsset" /\ client'[c].asset = a
                      /\ client[c].at # "items"
                      /\ client[c].asset = a /\ client'[c].todo = client[c].todo
                      /\ client'[c].started = client[c].started,
           Carries(c)'
    PROVE  RunsInv'
<1>1. /\ RowsTypeOK /\ Holds(c) /\ Carries(c) /\ client[c] \in ClientRecord
      /\ RowStands(r) /\ StageStands(r)
  BY DEF RunsInv, RowsTypeOK
<1>2. /\ run[r] = NULL /\ exec[r] = Still
      /\ \A d \in Client : client[d].run # r /\ client[d].bulk # r
  BY DEF NewRun, Used
<1>3. PICK new : new = [asset |-> a, parent |-> parent, status |-> "running"]
  OBVIOUS
<1>4. /\ new \in RunRow /\ new.asset = a /\ new.parent = parent
      /\ new.status = "running"
  BY <1>3 DEF RunRow
<1>5. new # NULL
  BY <1>4, PlaywrightAssumption
<1>6. /\ run' \in [Run -> RunRow \cup {NULL}] /\ run'[r] = new
      /\ \A x \in Run \ {r} : run'[x] = run[x]
  BY <1>1, <1>3, <1>4 DEF NewRun, RowsTypeOK
<1>7. exit[r] = NULL /\ r \notin faulty /\ DOMAIN item[r] = {}
  BY <1>1, <1>2 DEF RowStands
<1>8. RowsTypeOK'
  BY <1>1, <1>6 DEF RowsTypeOK
<1>9. ASSUME NEW p \in Run, NEW d \in Client, client[d].bulk = p, client'[d].bulk = p,
             client[d].at # "items", client'[d].at # "items",
             client'[d].started = client[d].started,
             client'[d].todo = client[d].todo, client'[d].asset = client[d].asset,
             Bulk(d, p)
      PROVE  Bulk(d, p)'
  BY <1>2, <1>6, <1>9 DEF Bulk
<1>10. Holds(c)'
  <2>1. CASE parent
    <3>1. Bulk(c, r)'
      BY <1>2, <1>4, <1>5, <1>6, <2>1 DEF Bulk
    <3>2. QED
      BY <2>1, <3>1 DEF Holds
  <2>2. CASE ~parent
    <3>1. Marks(c, r)'
      BY <1>2, <1>4, <1>5, <1>6, <1>7, <2>2 DEF Marks
    <3>2. client[c].bulk # NULL => Bulk(c, client[c].bulk)'
      BY <1>1, <1>9, <2>2 DEF Holds, ClientRecord
    <3>3. r # client[c].bulk /\ r # NULL
      BY <1>2, PlaywrightAssumption
    <3>4. QED
      BY <2>2, <3>1, <3>2, <3>3 DEF Holds
  <2>3. QED
    BY <2>1, <2>2
<1>11. ASSUME NEW d \in Client \ {c}
       PROVE  Carries(d)' /\ Holds(d)'
  <2>1. /\ Holds(d) /\ Carries(d) /\ client[d] \in ClientRecord
        /\ client'[d] = client[d] /\ client[d].run # r /\ client[d].bulk # r
    BY <1>1, <1>2 DEF RunsInv, RowsTypeOK
  <2>2. Carries(d)'
    BY <2>1 DEF Carries
  <2>3. client[d].bulk # NULL => Bulk(d, client[d].bulk)'
    <3>1. ASSUME NEW p \in Run, client[d].bulk = p, Bulk(d, p)
          PROVE  Bulk(d, p)'
      BY <1>6, <2>1, <3>1 DEF Bulk
    <3>2. QED
      BY <2>1, <3>1 DEF Holds, ClientRecord
  <2>4. client[d].at = "markAsset" => Marks(d, client[d].run)'
    BY <1>6, <2>1 DEF Holds, Marks, Carries
  <2>5. client[d].at = "refuse" /\ client[d].run # NULL
          => run'[client[d].run] = NULL \/ client[d].run \in faulty
    BY <1>6, <2>1 DEF Holds, ClientRecord
  <2>6. Holds(d)'
    BY <2>1, <2>3, <2>4, <2>5 DEF Holds
  <2>7. QED
    BY <2>2, <2>6
<1>12. ASSUME NEW d \in Client, NEW e \in Client \ {d}
       PROVE  Apart(d, e)'
  <2>1. Apart(d, e) /\ Apart(e, d) /\ r # NULL
    BY PlaywrightAssumption DEF RunsInv
  <2>2. CASE d = c
    <3>1. client'[e] = client[e] /\ client[e].run # r /\ client[e].bulk # r
      BY <1>2, <2>2
    <3>2. QED
      BY <2>1, <2>2, <3>1 DEF Apart
  <2>3. CASE e = c
    <3>1. client'[d] = client[d] /\ client[d].run # r /\ client[d].bulk # r
      BY <1>2, <2>3
    <3>2. CASE parent
      BY <2>1, <2>3, <3>1, <3>2 DEF Apart
    <3>3. CASE ~parent
      BY <2>1, <2>3, <3>1, <3>3 DEF Apart
    <3>4. QED
      BY <3>2, <3>3
  <2>4. CASE d # c /\ e # c
    BY <2>1, <2>4 DEF Apart
  <2>5. QED
    BY <2>2, <2>3, <2>4
<1>13. ASSUME NEW x \in Run, Marked(x)
       PROVE  Marked(x)'
  <2>1. PICK d \in Client : client[d].at = "markAsset" /\ client[d].run = x
    BY <1>13 DEF Marked
  <2>2. client'[d] = client[d]
    BY <2>1
  <2>3. QED
    BY <2>1, <2>2 DEF Marked
<1>14. ~parent => Marked(r)'
  BY DEF Marked
<1>15. ASSUME NEW x \in Run
       PROVE  RowStands(x)' /\ StageStands(x)'
  <2>1. CASE x = r
    BY <1>1, <1>2, <1>4, <1>5, <1>6, <1>7, <1>14, <2>1, RecordsAreTyped
       DEF RowStands, StageStands
  <2>2. CASE x # r
    <3>1. RowStands(x) /\ StageStands(x) /\ run'[x] = run[x]
      BY <1>6, <2>2 DEF RunsInv
    <3>2. RowStands(x)'
      BY <3>1 DEF RowStands
    <3>3. StageStands(x)'
      BY <1>13, <3>1 DEF StageStands, Passed
    <3>4. QED
      BY <3>2, <3>3
  <2>3. QED
    BY <2>1, <2>2
<1>16. ASSUME NEW b \in Asset
       PROVE  Shown(b)'
  <2>1. Shown(b)
    BY DEF RunsInv
  <2>2. \A x \in RunsOf(b) : x \in RunsOf(b)'
    BY <1>2, <1>6 DEF RunsOf
  <2>3. \A x \in RunsOf(b)' : x \in RunsOf(b) \/ (x = r /\ ~parent)
    BY <1>4, <1>6 DEF RunsOf
  <2>4. \A x \in RunsOf(b) : x \in Run
    BY DEF RunsOf
  <2>5. \A x \in Run : Witness(x, b) => Witness(x, b)'
    BY DEF Witness, ToReport, Passed
  <2>6. asset'[b] = "never" => \A x \in RunsOf(b)' : x \in faulty' \/ Marked(x)'
    BY <1>13, <1>14, <2>1, <2>3, <2>4 DEF Shown
  <2>7. asset'[b] \notin {NULL, "never"} => \E x \in RunsOf(b)' : Witness(x, b)'
    BY <2>1, <2>2, <2>4, <2>5 DEF Shown
  <2>8. QED
    BY <2>6, <2>7 DEF Shown
<1>17. QED
  BY <1>8, <1>10, <1>11, <1>12, <1>15, <1>16 DEF RunsInv

LEMMA InsertRunKeeps ==
    ASSUME RunsInv, NEW c \in Client, InsertRun(c)
    PROVE  RunsInv'
<1>1. RowsTypeOK /\ Carries(c) /\ Holds(c) /\ client[c] \in ClientRecord
  BY DEF RunsInv, RowsTypeOK
<1>2. /\ client[c].at = "insertRun" /\ UNCHANGED <<asset, item, exec, exit, faulty>>
  BY DEF InsertRun, At
<1>3. PICK a \in Asset : a = client[c].asset
  BY <1>1, <1>2 DEF Carries
<1>4. client[c].run = NULL
  BY <1>1, <1>2 DEF Carries
<1>5. CASE CannotInsert(a)
  <2>1. Thrown(c) /\ run' = run
    BY <1>3, <1>5 DEF InsertRun
  <2>2. QED
    BY <1>1, <1>2, <1>4, <2>1, ThrownKeeps DEF RowsTypeOK
<1>6. CASE ~CannotInsert(a)
  <2>1. PICK r \in Run : /\ NewRun(r, a, FALSE)
                         /\ client' = [client EXCEPT ![c].at = "markAsset", ![c].run = r]
    BY <1>3, <1>6 DEF InsertRun
  <2>2. /\ client' \in [Client -> ClientRecord]
        /\ \A d \in Client \ {c} : client'[d] = client[d]
        /\ client'[c].at = "markAsset" /\ client'[c].run = r
        /\ client'[c].asset = a /\ client'[c].bulk = client[c].bulk
        /\ client'[c].todo = client[c].todo /\ client'[c].started = client[c].started
    BY <1>1, <1>3, <2>1 DEF RowsTypeOK, ClientRecord, ClientAt
  <2>3. Carries(c)'
    BY <2>2 DEF Carries
  <2>4. QED
    BY <1>2, <1>3, <1>4, <1>6, <2>1, <2>2, <2>3, InsertMoves DEF CannotInsert
<1>7. QED
  BY <1>5, <1>6

LEMMA InsertBulkKeeps ==
    ASSUME RunsInv, NEW c \in Client, InsertBulk(c)
    PROVE  RunsInv'
<1>1. RowsTypeOK /\ Carries(c) /\ Holds(c) /\ client[c] \in ClientRecord
  BY DEF RunsInv, RowsTypeOK
<1>2. /\ client[c].at = "insertBulk" /\ UNCHANGED <<asset, item, exec, exit, faulty>>
  BY DEF InsertBulk, At
<1>3. client[c].run = NULL /\ client[c].bulk = NULL
  BY <1>1, <1>2 DEF Carries
<1>4. PICK a \in client[c].todo :
        IF CannotInsert(a) THEN Done(c) /\ UNCHANGED run
        ELSE \E r \in Run : /\ NewRun(r, a, TRUE)
                            /\ client' = [client EXCEPT ![c].at = "items",
                                                        ![c].bulk = r]
  BY DEF InsertBulk
<1>5. a \in Asset
  BY <1>1 DEF ClientRecord
<1>6. CASE CannotInsert(a)
  <2>1. Done(c) /\ run' = run
    BY <1>4, <1>6
  <2>2. RowsTypeOK'
    BY <1>1, <1>2, <2>1, ClientRests DEF RowsTypeOK
  <2>3. QED
    BY <1>1, <1>2, <2>1, <2>2, ClientRests, ClientMoves DEF RowsTypeOK
<1>7. CASE ~CannotInsert(a)
  <2>1. PICK r \in Run : /\ NewRun(r, a, TRUE)
                         /\ client' = [client EXCEPT ![c].at = "items", ![c].bulk = r]
    BY <1>4, <1>7
  <2>2. /\ client' \in [Client -> ClientRecord]
        /\ \A d \in Client \ {c} : client'[d] = client[d]
        /\ client'[c].at = "items" /\ client'[c].bulk = r
        /\ client'[c].run = NULL /\ client'[c].asset = client[c].asset
    BY <1>1, <1>3, <2>1 DEF RowsTypeOK, ClientRecord, ClientAt
  <2>3. client'[c].asset = NULL
    BY <1>1, <1>2, <2>2 DEF Carries
  <2>4. Carries(c)'
    BY <2>2, <2>3 DEF Carries
  <2>5. QED
    BY <1>2, <1>3, <1>5, <1>7, <2>1, <2>2, <2>4, InsertMoves DEF CannotInsert
<1>8. QED
  BY <1>6, <1>7

\* The asset of a run is marked, and its execution starts.
LEMMA MarkAssetKeeps ==
    ASSUME RunsInv, NEW c \in Client, MarkAsset(c)
    PROVE  RunsInv'
<1>1. RowsTypeOK /\ Carries(c) /\ Holds(c) /\ client[c] \in ClientRecord
  BY DEF RunsInv, RowsTypeOK
<1>2. client[c].at = "markAsset" /\ UNCHANGED <<run, item, exit, faulty>>
  BY DEF MarkAsset, At
<1>3. PICK a \in Asset, r \in Run : a = client[c].asset /\ r = client[c].run
  BY <1>1, <1>2 DEF Carries
<1>4. /\ Marks(c, r) /\ RowStands(r) /\ StageStands(r) /\ r # NULL
      /\ r # client[c].bulk
  BY <1>1, <1>2, <1>3, PlaywrightAssumption DEF RunsInv, Holds
<1>5. /\ exec[r] = Still /\ exit[r] = NULL /\ exec[r].at = "none" /\ exec[r].left = {}
      /\ \/ run[r] = NULL /\ asset[a] = NULL
         \/ run[r] # NULL /\ run[r].asset = a /\ ~run[r].parent
  BY <1>3, <1>4, RecordsAreTyped DEF Marks
<1>6. /\ exec' \in [Run -> ExecRecord]
      /\ exec'[r].at = "files" /\ exec'[r].left = {} /\ exec'[r] # Still
      /\ \A x \in Run \ {r} : exec'[x] = exec[x]
  <2>1. exec' = [exec EXCEPT ![r].at = "files"]
    BY <1>3, <1>5 DEF MarkAsset
  <2>2. QED
    BY <1>1, <1>5, <2>1, RecordsAreTyped DEF RowsTypeOK, ExecRecord, ExecAt
<1>7. /\ asset' \in [Asset -> LastRun]
      /\ \A b \in Asset \ {a} : asset'[b] = asset[b]
      /\ asset'[a] = IF asset[a] = NULL THEN NULL ELSE "running"
      /\ asset[a] # NULL => asset'[a] \notin {NULL, "never"}
  BY <1>1, <1>3, LastRunIsSet DEF MarkAsset
<1>8. \A b \in Asset : asset'[b] = NULL <=> asset[b] = NULL
  BY <1>7
<1>9. /\ client' \in [Client -> ClientRecord]
      /\ \A d \in Client \ {c} : client'[d] = client[d]
      /\ client'[c].run = NULL
      /\ \/ client'[c].bulk = NULL /\ client'[c].at = "idle" /\ client'[c].asset = NULL
         \/ /\ client'[c].bulk = client[c].bulk /\ client'[c].bulk # NULL
            /\ client'[c].at = "next"
            /\ client'[c].asset = NULL /\ client'[c].started
  <2>1. CASE client[c].bulk = NULL
    <3>1. Done(c)
      BY <2>1 DEF MarkAsset
    <3>2. QED
      BY <1>1, <3>1, ClientRests, RecordsAreTyped
  <2>2. CASE client[c].bulk # NULL
    <3>1. client' = [client EXCEPT ![c].at = "next", ![c].run = NULL,
                                   ![c].asset = NULL, ![c].started = TRUE]
      BY <2>2 DEF MarkAsset
    <3>2. QED
      BY <1>1, <2>2, <3>1 DEF RowsTypeOK, ClientRecord, ClientAt
  <2>3. QED
    BY <2>1, <2>2
<1>10. RowsTypeOK'
  BY <1>1, <1>2, <1>6, <1>7, <1>9 DEF RowsTypeOK
<1>11. Carries(c)' /\ Holds(c)'
  <2>1. Carries(c)'
    BY <1>1, <1>9 DEF Carries, ClientRecord
  <2>2. ASSUME NEW p \in Run, client'[c].bulk = p
        PROVE  Bulk(c, p)'
    <3>1. /\ client[c].bulk = p /\ client'[c].bulk # NULL /\ p # r
          /\ client'[c].started
      BY <1>4, <1>9, <2>2, PlaywrightAssumption
    <3>2. Bulk(c, p) /\ exec'[p] = exec[p]
      BY <1>1, <1>6, <2>2, <3>1 DEF Holds
    <3>3. QED
      BY <1>2, <3>1, <3>2 DEF Bulk
  <2>3. Holds(c)'
    BY <1>9, <2>2 DEF Holds, ClientRecord
  <2>4. QED
    BY <2>1, <2>3
<1>12. ASSUME NEW d \in Client \ {c}
       PROVE  Carries(d)' /\ Holds(d)'
  <2>1. /\ Holds(d) /\ Carries(d) /\ client[d] \in ClientRecord
        /\ client'[d] = client[d] /\ client[d].run # r /\ client[d].bulk # r
    BY <1>1, <1>3, <1>4, <1>9 DEF RunsInv, RowsTypeOK, Apart
  <2>2. Carries(d)'
    BY <2>1 DEF Carries
  <2>3. client[d].bulk # NULL => Bulk(d, client[d].bulk)'
    BY <1>2, <1>6, <2>1 DEF Holds, Bulk, ClientRecord
  <2>4. client[d].at = "markAsset" => Marks(d, client[d].run)'
    BY <1>2, <1>6, <1>8, <2>1 DEF Holds, Marks, Carries
  <2>5. Holds(d)'
    BY <1>2, <2>1, <2>3, <2>4 DEF Holds
  <2>6. QED
    BY <2>2, <2>5
<1>13. ASSUME NEW d \in Client, NEW e \in Client \ {d}
       PROVE  Apart(d, e)'
  <2>1. Apart(d, e)
    BY DEF RunsInv
  <2>2. CASE d = c
    BY <1>9, <2>1, <2>2 DEF Apart
  <2>3. CASE e = c
    BY <1>9, <2>1, <2>3 DEF Apart
  <2>4. CASE d # c /\ e # c
    BY <1>9, <2>1, <2>4 DEF Apart
  <2>5. QED
    BY <2>2, <2>3, <2>4
<1>14. ASSUME NEW x \in Run \ {r}, Marked(x)
       PROVE  Marked(x)'
  <2>1. PICK d \in Client : client[d].at = "markAsset" /\ client[d].run = x
    BY <1>14 DEF Marked
  <2>2. client'[d] = client[d]
    BY <1>3, <1>9, <2>1
  <2>3. QED
    BY <2>1, <2>2 DEF Marked
<1>15. ASSUME NEW x \in Run
       PROVE  RowStands(x)' /\ StageStands(x)'
  <2>1. CASE x = r
    <3>1. RowStands(r)'
      BY <1>1, <1>2, <1>4, <1>5, <1>8 DEF RowStands, RowsTypeOK, RunRow
    <3>2. StageStands(r)'
      BY <1>2, <1>4, <1>5, <1>6 DEF StageStands
    <3>3. QED
      BY <2>1, <3>1, <3>2
  <2>2. CASE x # r
    <3>1. RowStands(x) /\ StageStands(x) /\ exec'[x] = exec[x]
          /\ (run[x] # NULL => run[x] \in RunRow)
      BY <1>1, <1>6, <2>2 DEF RunsInv, RowsTypeOK
    <3>2. RowStands(x)'
      BY <1>2, <1>8, <3>1 DEF RowStands, RunRow
    <3>3. StageStands(x)'
      BY <1>2, <1>14, <2>2, <3>1 DEF StageStands, Passed
    <3>4. QED
      BY <3>2, <3>3
  <2>3. QED
    BY <2>1, <2>2
<1>16. ASSUME NEW b \in Asset
       PROVE  Shown(b)'
  <2>1. Shown(b) /\ RunsOf(b)' = RunsOf(b)
        /\ \A x \in RunsOf(b) : x \in Run /\ run[x] # NULL /\ run[x].asset = b
                                /\ ~run[x].parent
    BY <1>2 DEF RunsInv, RunsOf
  <2>2. CASE b = a /\ run[r] # NULL
    <3>1. asset[a] # NULL /\ r \in RunsOf(a)
      BY <1>4, <1>5, <2>2 DEF RowStands, RunsOf
    <3>2. Witness(r, a)'
      BY <1>6 DEF Witness, ToReport
    <3>3. asset'[a] # "never"
      BY <1>7, <3>1
    <3>4. QED
      BY <2>1, <2>2, <3>1, <3>2, <3>3 DEF Shown
  <2>3. CASE b = a /\ run[r] = NULL
    BY <1>5, <1>7, <2>3, PlaywrightAssumption DEF Shown
  <2>4. CASE b # a
    <3>1. \A x \in RunsOf(b) : x # r
      BY <1>5, <2>1, <2>4
    <3>2. asset'[b] = asset[b]
      BY <1>7, <2>4
    <3>3. \A x \in RunsOf(b) : x \in faulty \/ Marked(x) => x \in faulty' \/ Marked(x)'
      BY <1>2, <1>14, <2>1, <3>1
    <3>4. \A x \in RunsOf(b) : Witness(x, b) => Witness(x, b)'
      BY <1>2, <1>6, <2>1, <3>1, <3>2 DEF Witness, ToReport, Passed
    <3>5. QED
      BY <2>1, <3>2, <3>3, <3>4 DEF Shown
  <2>5. QED
    BY <2>2, <2>3, <2>4
<1>17. QED
  BY <1>10, <1>11, <1>12, <1>13, <1>15, <1>16 DEF RunsInv

\* The row of a bulk run gets the word of its request.
LEMMA CloseBulkKeeps ==
    ASSUME RunsInv, NEW c \in Client, CloseBulk(c)
    PROVE  RunsInv'
<1>1. RowsTypeOK /\ Carries(c) /\ Holds(c) /\ client[c] \in ClientRecord
  BY DEF RunsInv, RowsTypeOK
<1>2. /\ client[c].at = "next" /\ client[c].todo = {} /\ Done(c)
      /\ UNCHANGED <<asset, item, exec, exit, faulty>>
  BY DEF CloseBulk, At
<1>3. PICK p \in Run : p = client[c].bulk
  BY <1>1, <1>2 DEF Carries
<1>4. p # NULL /\ Bulk(c, p)
  BY <1>1, <1>3, PlaywrightAssumption DEF Holds
<1>5. PICK status : status = IF client[c].started THEN "running" ELSE "failed"
  OBVIOUS
<1>6. SetRun(p, status)
  BY <1>3, <1>5 DEF CloseBulk
<1>7. /\ run' \in [Run -> RunRow \cup {NULL}]
      /\ \A x \in Run \ {p} : run'[x] = run[x]
      /\ run[p] = NULL => run'[p] = NULL
      /\ run[p] # NULL =>
            /\ run'[p] # NULL /\ run'[p].status = status
            /\ run'[p].asset = run[p].asset /\ run'[p].parent = run[p].parent
  BY <1>1, <1>5, <1>6, RunIsSet DEF Verdict
<1>8. \A x \in Run : /\ run'[x] = NULL <=> run[x] = NULL
                     /\ run[x] # NULL => /\ run'[x].asset = run[x].asset
                                         /\ run'[x].parent = run[x].parent
  BY <1>7
<1>9. /\ client' \in [Client -> ClientRecord]
      /\ \A d \in Client \ {c} : client'[d] = client[d]
      /\ client'[c].run = NULL /\ client'[c].bulk = NULL /\ client'[c].at = "idle"
      /\ Carries(c)' /\ Holds(c)'
  BY <1>1, <1>2, ClientRests
<1>10. RowsTypeOK'
  BY <1>1, <1>2, <1>7, <1>9 DEF RowsTypeOK
<1>11. run[p] # NULL /\ status = "failed" => \A b \in DOMAIN item[p] : item[p][b] = "failed"
  <2>1. \A b \in DOMAIN item[p] : b \in Asset
    BY <1>1 DEF RowsTypeOK, Table
  <2>2. client[c].asset = NULL
    BY <1>1, <1>2 DEF Carries
  <2>3. QED
    BY <1>2, <1>4, <1>5, <2>1, <2>2, PlaywrightAssumption DEF Bulk
<1>12. ASSUME NEW d \in Client \ {c}
       PROVE  Carries(d)' /\ Holds(d)'
  <2>1. /\ Holds(d) /\ Carries(d) /\ client[d] \in ClientRecord
        /\ client'[d] = client[d] /\ client[d].run # p /\ client[d].bulk # p
    BY <1>1, <1>3, <1>4, <1>9 DEF RunsInv, RowsTypeOK, Apart
  <2>2. Carries(d)'
    BY <2>1 DEF Carries
  <2>3. client[d].bulk # NULL => Bulk(d, client[d].bulk)'
    BY <1>2, <1>7, <2>1 DEF Holds, Bulk, ClientRecord
  <2>4. client[d].at = "markAsset" => Marks(d, client[d].run)'
    BY <1>2, <1>8, <2>1 DEF Holds, Marks, Carries
  <2>5. client[d].at = "refuse" /\ client[d].run # NULL
          => run'[client[d].run] = NULL \/ client[d].run \in faulty
    BY <1>8, <2>1 DEF Holds, ClientRecord
  <2>6. Holds(d)'
    BY <1>2, <2>1, <2>3, <2>4, <2>5 DEF Holds
  <2>7. QED
    BY <2>2, <2>6
<1>13. ASSUME NEW d \in Client, NEW e \in Client \ {d}
       PROVE  Apart(d, e)'
  <2>1. Apart(d, e)
    BY DEF RunsInv
  <2>2. CASE d = c
    BY <1>9, <2>1, <2>2 DEF Apart
  <2>3. CASE e = c
    BY <1>9, <2>1, <2>3 DEF Apart
  <2>4. CASE d # c /\ e # c
    BY <1>9, <2>1, <2>4 DEF Apart
  <2>5. QED
    BY <2>2, <2>3, <2>4
<1>14. ASSUME NEW x \in Run, Marked(x)
       PROVE  Marked(x)'
  <2>1. PICK d \in Client : client[d].at = "markAsset" /\ client[d].run = x
    BY <1>14 DEF Marked
  <2>2. client'[d] = client[d]
    BY <1>2, <1>9, <2>1
  <2>3. QED
    BY <2>1, <2>2 DEF Marked
<1>15. ASSUME NEW x \in Run
       PROVE  RowStands(x)' /\ StageStands(x)'
  <2>1. RowStands(x) /\ StageStands(x)
    BY DEF RunsInv
  <2>2. CASE x = p
    <3>1. RowStands(p)'
      BY <1>2, <1>7, <1>11, <2>1, <2>2 DEF RowStands
    <3>2. StageStands(p)'
      BY <1>2, <1>4, <1>8, <2>1, <2>2 DEF StageStands, Bulk
    <3>3. QED
      BY <2>2, <3>1, <3>2
  <2>3. CASE x # p
    <3>1. run'[x] = run[x]
      BY <1>7, <2>3
    <3>2. RowStands(x)'
      BY <1>2, <2>1, <3>1 DEF RowStands
    <3>3. StageStands(x)'
      BY <1>2, <1>14, <2>1, <3>1 DEF StageStands, Passed
    <3>4. QED
      BY <3>2, <3>3
  <2>4. QED
    BY <2>2, <2>3
<1>16. ASSUME NEW b \in Asset
       PROVE  Shown(b)'
  <2>1. Shown(b) /\ RunsOf(b)' = RunsOf(b) /\ RunsOf(b) \subseteq Run
    BY <1>8 DEF RunsInv, RunsOf
  <2>2. \A x \in Run : Witness(x, b) => Witness(x, b)'
    BY <1>2 DEF Witness, ToReport, Passed
  <2>3. QED
    BY <1>2, <1>14, <2>1, <2>2 DEF Shown
<1>17. QED
  BY <1>9, <1>10, <1>12, <1>13, <1>15, <1>16 DEF RunsInv

\* Nothing is known of an asset that is created.
LEMMA CreateAssetKeeps ==
    ASSUME RunsInv, NEW a \in Asset, CreateAsset(a)
    PROVE  RunsInv'
<1>1. RowsTypeOK
  BY DEF RunsInv
<1>2. /\ asset[a] = NULL /\ \A r \in Run : run[r] # NULL => run[r].asset # a
      /\ \A c \in Client : a # client[c].asset
      /\ asset' = [asset EXCEPT ![a] = "never"]
      /\ UNCHANGED <<run, item, client, exec, exit, faulty>>
  BY DEF CreateAsset
<1>3. /\ asset' \in [Asset -> LastRun] /\ asset'[a] = "never"
      /\ \A b \in Asset \ {a} : asset'[b] = asset[b]
  BY <1>1, <1>2 DEF RowsTypeOK, LastRun
<1>4. RowsTypeOK'
  BY <1>1, <1>2, <1>3 DEF RowsTypeOK
<1>5. ASSUME NEW c \in Client
      PROVE  Carries(c)' /\ Holds(c)'
  <2>1. Holds(c) /\ Carries(c)
    BY DEF RunsInv
  <2>2. client[c].at = "markAsset" => Marks(c, client[c].run)'
    BY <1>2, <1>3, <2>1 DEF Holds, Marks, Carries
  <2>3. client[c].bulk # NULL => Bulk(c, client[c].bulk)'
    BY <1>2, <2>1 DEF Holds, Bulk
  <2>4. QED
    BY <1>2, <2>1, <2>2, <2>3 DEF Holds, Carries
<1>6. \A c \in Client : \A d \in Client \ {c} : Apart(c, d)'
  BY <1>2 DEF RunsInv, Apart
<1>7. ASSUME NEW x \in Run
      PROVE  RowStands(x)' /\ StageStands(x)'
  <2>1. RowStands(x) /\ StageStands(x) /\ (run[x] # NULL => run[x] \in RunRow)
    BY <1>1 DEF RunsInv, RowsTypeOK
  <2>2. run[x] # NULL => asset'[run[x].asset] # NULL
    BY <1>2, <1>3, <2>1 DEF RowStands, RunRow
  <2>3. RowStands(x)'
    BY <1>2, <2>1, <2>2 DEF RowStands
  <2>4. StageStands(x)'
    BY <1>2, <2>1 DEF StageStands, Passed, Marked
  <2>5. QED
    BY <2>3, <2>4
<1>8. ASSUME NEW b \in Asset
      PROVE  Shown(b)'
  <2>1. CASE b = a
    BY <1>2, <1>3, <2>1 DEF Shown, RunsOf
  <2>2. CASE b # a
    <3>1. Shown(b) /\ asset'[b] = asset[b] /\ RunsOf(b)' = RunsOf(b)
          /\ \A x \in RunsOf(b) : Witness(x, b) => Witness(x, b)'
      BY <1>2, <1>3, <2>2 DEF RunsInv, RunsOf, Witness, ToReport, Passed
    <3>2. QED
      BY <1>2, <3>1 DEF Shown, Marked
  <2>3. QED
    BY <2>1, <2>2
<1>9. QED
  BY <1>4, <1>5, <1>6, <1>7, <1>8 DEF RunsInv

\* With an asset all goes that is known of its runs.
LEMMA DeleteAssetKeeps ==
    ASSUME RunsInv, NEW a \in Asset, DeleteAsset(a)
    PROVE  RunsInv'
<1>1. RowsTypeOK
  BY DEF RunsInv
<1>2. PICK gone \in SUBSET Run : gone = {r \in Run : run[r] # NULL /\ run[r].asset = a}
  OBVIOUS
<1>3. /\ asset' = [asset EXCEPT ![a] = NULL]
      /\ run' = [r \in Run |-> IF r \in gone THEN NULL ELSE run[r]]
      /\ item' = [r \in Run |->
                    [b \in (IF r \in gone THEN {} ELSE DOMAIN item[r] \ {a})
                          |-> item[r][b]]]
      /\ exit' = [r \in Run |-> IF r \in gone THEN NULL ELSE exit[r]]
      /\ faulty' = faulty \ gone
      /\ UNCHANGED <<client, exec>>
  BY <1>2 DEF DeleteAsset
<1>4. /\ asset' \in [Asset -> LastRun] /\ asset'[a] = NULL
      /\ \A b \in Asset \ {a} : asset'[b] = asset[b]
  BY <1>1, <1>3 DEF RowsTypeOK, LastRun
<1>5. ASSUME NEW r \in Run
      PROVE  /\ item'[r] \in Table
             /\ r \in gone => DOMAIN item'[r] = {}
             /\ r \notin gone => /\ DOMAIN item'[r] = DOMAIN item[r] \ {a}
                                 /\ \A b \in DOMAIN item[r] \ {a} : item'[r][b] = item[r][b]
  <2>1. PICK A \in SUBSET Asset : item[r] \in [A -> ItemStatus]
    BY <1>1 DEF RowsTypeOK, Table
  <2>2. PICK B \in SUBSET A : B = IF r \in gone THEN {} ELSE A \ {a}
    OBVIOUS
  <2>3. item'[r] = [b \in B |-> item[r][b]]
    BY <1>3, <2>1, <2>2
  <2>4. item'[r] \in [B -> ItemStatus]
    BY <2>1, <2>2, <2>3
  <2>5. QED
    BY <2>1, <2>2, <2>3, <2>4 DEF Table
<1>6. /\ item' \in [Run -> Table]
      /\ run' \in [Run -> RunRow \cup {NULL}]
      /\ exit' \in [Run -> Verdict \cup {NULL}]
      /\ faulty' \subseteq Run
  <2>1. item' \in [Run -> Table]
    BY <1>3, <1>5
  <2>2. QED
    BY <1>1, <1>3, <2>1 DEF RowsTypeOK
<1>7. RowsTypeOK'
  BY <1>1, <1>3, <1>4, <1>6 DEF RowsTypeOK
<1>8. /\ \A r \in gone : run'[r] = NULL /\ exit'[r] = NULL /\ r \notin faulty'
                         /\ run[r] # NULL /\ run[r].asset = a
      /\ \A r \in Run \ gone : /\ run'[r] = run[r] /\ exit'[r] = exit[r]
                               /\ r \in faulty' <=> r \in faulty
                               /\ run[r] # NULL => run[r].asset # a
  BY <1>2, <1>3
<1>9. ASSUME NEW c \in Client
      PROVE  Carries(c)' /\ Holds(c)'
  <2>1. Holds(c) /\ Carries(c) /\ client'[c] = client[c] /\ client[c] \in ClientRecord
    BY <1>1, <1>3 DEF RunsInv, RowsTypeOK
  <2>2. client[c].at = "markAsset" => Marks(c, client[c].run)'
    <3>1. ASSUME client[c].at = "markAsset", NEW r \in Run, r = client[c].run
          PROVE  Marks(c, r)'
      <4>1. Marks(c, r) /\ client[c].asset \in Asset
        BY <2>1, <3>1 DEF Holds, Carries
      <4>2. CASE r \in gone
        BY <1>3, <1>4, <1>8, <2>1, <4>1, <4>2 DEF Marks
      <4>3. CASE r \notin gone
        BY <1>3, <1>4, <1>8, <2>1, <4>1, <4>3 DEF Marks
      <4>4. QED
        BY <4>2, <4>3
    <3>2. QED
      BY <2>1, <3>1 DEF Carries
  <2>3. client[c].bulk # NULL => Bulk(c, client[c].bulk)'
    <3>1. ASSUME NEW p \in Run, p = client[c].bulk, Bulk(c, p)
          PROVE  Bulk(c, p)'
      <4>1. CASE p \in gone
        BY <1>3, <1>8, <3>1, <4>1 DEF Bulk
      <4>2. CASE p \notin gone
        BY <1>3, <1>5, <1>8, <3>1, <4>2 DEF Bulk
      <4>3. QED
        BY <4>1, <4>2
    <3>2. QED
      BY <2>1, <3>1 DEF Holds, ClientRecord
  <2>4. client[c].at = "refuse" /\ client[c].run # NULL
          => run'[client[c].run] = NULL \/ client[c].run \in faulty'
    BY <1>8, <2>1 DEF Holds, ClientRecord
  <2>5. Holds(c)'
    BY <2>1, <2>2, <2>3, <2>4 DEF Holds
  <2>6. QED
    BY <2>1, <2>5 DEF Carries
<1>10. \A c \in Client : \A d \in Client \ {c} : Apart(c, d)'
  BY <1>3 DEF RunsInv, Apart
<1>11. ASSUME NEW x \in Run
       PROVE  RowStands(x)' /\ StageStands(x)'
  <2>1. RowStands(x) /\ StageStands(x) /\ (run[x] # NULL => run[x] \in RunRow)
    BY <1>1 DEF RunsInv, RowsTypeOK
  <2>2. CASE x \in gone
    BY <1>3, <1>5, <1>8, <2>1, <2>2 DEF RowStands, StageStands
  <2>3. CASE x \notin gone
    <3>1. run[x] # NULL => asset'[run[x].asset] # NULL
      BY <1>4, <1>8, <2>1, <2>3 DEF RowStands, RunRow
    <3>2. RowStands(x)'
      BY <1>3, <1>5, <1>8, <2>1, <2>3, <3>1 DEF RowStands
    <3>3. StageStands(x)'
      BY <1>3, <1>8, <2>1, <2>3 DEF StageStands, Passed, Marked
    <3>4. QED
      BY <3>2, <3>3
  <2>4. QED
    BY <2>2, <2>3
<1>12. ASSUME NEW b \in Asset
       PROVE  Shown(b)'
  <2>1. CASE b = a
    BY <1>4, <2>1, PlaywrightAssumption DEF Shown
  <2>2. CASE b # a
    <3>1. Shown(b) /\ asset'[b] = asset[b]
      BY <1>4, <2>2 DEF RunsInv
    <3>2. RunsOf(b)' = RunsOf(b) /\ RunsOf(b) \subseteq Run \ gone
      BY <1>8, <2>2 DEF RunsOf
    <3>3. \A x \in RunsOf(b) : /\ Witness(x, b) => Witness(x, b)'
                               /\ x \in faulty' <=> x \in faulty
      BY <1>3, <1>8, <3>1, <3>2 DEF Witness, ToReport, Passed
    <3>4. QED
      BY <1>3, <3>1, <3>2, <3>3 DEF Shown, Marked
  <2>3. QED
    BY <2>1, <2>2
<1>13. QED
  BY <1>7, <1>9, <1>10, <1>11, <1>12 DEF RunsInv

\* Whatever was under way is over, and its runs are faulty.
LEMMA DieKeeps ==
    ASSUME RunsInv, Die
    PROVE  RunsInv'
<1>1. RowsTypeOK
  BY DEF RunsInv
<1>2. /\ client' = [c \in Client |-> Waiting]
      /\ exec' = [r \in Run |-> Still]
      /\ faulty' = faulty \cup Known({r \in Run : exec[r] # Still}
                     \cup UNION {{client[c].run, client[c].bulk} : c \in Client})
      /\ UNCHANGED <<asset, run, item, exit>>
  BY DEF Die
<1>3. RowsTypeOK'
  BY <1>1, <1>2, RecordsAreTyped DEF RowsTypeOK, Known
<1>4. \A c \in Client : Carries(c)' /\ Holds(c)'
  BY <1>2, RecordsAreTyped DEF Carries, Holds
<1>5. \A c \in Client : \A d \in Client \ {c} : Apart(c, d)'
  BY <1>2, RecordsAreTyped DEF Apart
<1>6. /\ faulty \subseteq faulty'
      /\ \A x \in faulty' : x \in faulty \/ run[x] # NULL
      /\ \A x \in Run : run[x] # NULL /\ (exec[x] # Still \/ Marked(x)) => x \in faulty'
  BY <1>2 DEF Known, Marked
<1>7. \A x \in Run : exec'[x] = Still
  BY <1>2
<1>8. ASSUME NEW x \in Run
      PROVE  RowStands(x)' /\ StageStands(x)'
  <2>1. RowStands(x) /\ StageStands(x)
    BY DEF RunsInv
  <2>2. RowStands(x)'
    BY <1>2, <1>6, <1>7, <2>1 DEF RowStands
  <2>3. StageStands(x)'
    BY <1>2, <1>6, <1>7, <2>1, RecordsAreTyped DEF StageStands, Passed
  <2>4. QED
    BY <2>2, <2>3
<1>9. ASSUME NEW b \in Asset
      PROVE  Shown(b)'
  <2>1. Shown(b) /\ RunsOf(b)' = RunsOf(b)
        /\ \A x \in RunsOf(b) : x \in Run /\ run[x] # NULL
    BY <1>2 DEF RunsInv, RunsOf
  <2>2. \A x \in RunsOf(b) : Marked(x) => x \in faulty'
    BY <1>6, <2>1
  <2>3. ASSUME NEW x \in RunsOf(b), Witness(x, b)
        PROVE  Witness(x, b)'
    <3>1. CASE exec[x] = Still
      BY <1>2, <1>6, <1>7, <2>3, <3>1, RecordsAreTyped DEF Witness, ToReport, Passed
    <3>2. CASE exec[x] # Still
      BY <1>6, <2>1, <3>2 DEF Witness
    <3>3. QED
      BY <3>1, <3>2
  <2>4. QED
    BY <1>2, <1>6, <2>1, <2>2, <2>3 DEF Shown
<1>10. QED
  BY <1>3, <1>4, <1>5, <1>8, <1>9 DEF RunsInv

(***************************************************************************)
(* What follows.                                                           *)
(***************************************************************************)

LEMMA RunsStay ==
    ASSUME RunsInv, UNCHANGED <<asset, run, item, client, exec, exit, faulty>>
    PROVE  RunsInv'
<1>1. RowsTypeOK'
  BY DEF RunsInv, RowsTypeOK
<1>2. \A c \in Client : Carries(c)' /\ Holds(c)'
  BY DEF RunsInv, Carries, Holds, Marks, Bulk
<1>3. \A c \in Client : \A d \in Client \ {c} : Apart(c, d)'
  BY DEF RunsInv, Apart
<1>4. \A r \in Run : RowStands(r)' /\ StageStands(r)'
  BY DEF RunsInv, RowStands, StageStands, Marked, Passed
<1>5. \A a \in Asset : Shown(a)'
  BY DEF RunsInv, Shown, RunsOf, Witness, ToReport, Marked, Passed
<1>6. QED
  BY <1>1, <1>2, <1>3, <1>4, <1>5 DEF RunsInv

LEMMA RunsStep == RunsInv /\ [Next]_vars => RunsInv'
<1> SUFFICES ASSUME RunsInv, [Next]_vars PROVE RunsInv'
  OBVIOUS
<1>1. CASE UNCHANGED vars \/ (StoriesNext /\ UNCHANGED assetVars)
  BY <1>1, RunsStay DEF vars, assetVars
<1>2. CASE Prepare
  <2>1. CASE RemoveConfig \/ GenerateTests
    BY <2>1, RunsStay DEF RemoveConfig, GenerateTests
  <2>2. QED
    BY <1>2, <2>1, SwapConfigKeeps DEF Prepare
<1>3. CASE \E a \in Asset : Curate(a)
  BY <1>3, CreateAssetKeeps, DeleteAssetKeeps DEF Curate
<1>4. ASSUME NEW c \in Client, Ask(c) \/ Continue(c) \/ ClientFails(c)
      PROVE  RunsInv'
  <2>1. CASE Ask(c)
    BY <2>1, RequestRunKeeps, RequestBulkKeeps DEF Ask
  <2>2. CASE Continue(c)
    BY <2>2, StoreConfigKeeps, InsertRunKeeps, MarkAssetKeeps, InsertBulkKeeps,
       QueueItemsKeeps, NextAssetKeeps, RefuseKeeps, CloseBulkKeeps DEF Continue
  <2>3. QED
    BY <1>4, <2>1, <2>2, ClientFailsKeeps
<1>5. ASSUME NEW r \in Run, Execute(r) \/ ExecFails(r)
      PROVE  RunsInv'
  BY <1>5, RunPlaywrightKeeps, RecordVerdictKeeps, ReportToAssetKeeps, FinishItemsKeeps,
     FailRunKeeps, FailAssetKeeps, ExecFailsKeeps DEF Execute
<1>6. CASE Die
  BY <1>6, DieKeeps
<1>7. QED
  BY <1>1, <1>2, <1>3, <1>4, <1>5, <1>6 DEF Next

LEMMA RunsAgree == RunsInv => VerdictsAgree
<1> SUFFICES ASSUME RunsInv PROVE VerdictsAgree
  OBVIOUS
<1>1. \A r \in Run : Marked(r) => Running(r)
  BY DEF Marked, Running
<1>2. ASSUME NEW r \in Run \ faulty, run[r] # NULL, ~Running(r)
      PROVE  IF run[r].parent
             THEN run[r].status = "failed" =>
                     \A a \in DOMAIN item[r] : item[r][a] = "failed"
             ELSE run[r].status = Passed(r)
  <2>1. RowStands(r) /\ StageStands(r) /\ exec[r] = Still /\ ~Marked(r)
    BY <1>1, <1>2 DEF RunsInv, Running
  <2>2. QED
    BY <1>2, <2>1 DEF RowStands, StageStands
<1>3. ASSUME NEW a \in Asset, asset[a] # NULL,
             \A r \in RunsOf(a) : ~Running(r) /\ r \notin faulty
      PROVE  \/ asset[a] = "never" /\ RunsOf(a) = {}
             \/ \E r \in RunsOf(a) : asset[a] = Passed(r)
  <2>1. Shown(a) /\ RunsOf(a) \subseteq Run
    BY DEF RunsInv, RunsOf
  <2>2. CASE asset[a] = "never"
    BY <1>1, <1>3, <2>1, <2>2 DEF Shown
  <2>3. CASE asset[a] # "never"
    <3>1. PICK r \in RunsOf(a) : Witness(r, a)
      BY <1>3, <2>1, <2>3 DEF Shown
    <3>2. r \notin faulty /\ exec[r] = Still
      BY <1>3, <3>1 DEF Running
    <3>3. ~ToReport(r)
      BY <3>2, RecordsAreTyped DEF ToReport
    <3>4. QED
      BY <3>1, <3>2, <3>3 DEF Witness
  <2>4. QED
    BY <2>2, <2>3
<1>4. QED
  BY <1>2, <1>3 DEF VerdictsAgree

(***************************************************************************)
(* The theorems.  A step of the runs leaves the stories alone.             *)
(***************************************************************************)

PlaywrightInv ==
    StoriesInv /\ RunsInv /\ config \in Config \cup {NULL} /\ test \subseteq Code

LEMMA PlaywrightStart == Init => PlaywrightInv
<1>1. Init => StoriesInv /\ RunsInv
  BY StoriesStart, RunsStart DEF Init
<1>2. QED
  BY <1>1 DEF Init, PlaywrightInv

LEMMA StoriesApart ==
    ASSUME Next
    PROVE  (StoriesNext /\ UNCHANGED assetVars) \/ UNCHANGED storyVars
<1>1. CASE Prepare
  BY <1>1 DEF Prepare, SwapConfig, RemoveConfig, GenerateTests
<1>2. CASE \E a \in Asset : Curate(a)
  BY <1>2 DEF Curate, CreateAsset, DeleteAsset
<1>3. ASSUME NEW c \in Client, Ask(c) \/ Continue(c) \/ ClientFails(c)
      PROVE  UNCHANGED storyVars
  BY <1>3 DEF Ask, Continue, ClientFails, RequestRun, RequestBulk, StoreConfig,
              InsertRun, MarkAsset, InsertBulk, QueueItems, NextAsset, Refuse, CloseBulk
<1>4. ASSUME NEW r \in Run, Execute(r) \/ ExecFails(r)
      PROVE  UNCHANGED storyVars
  BY <1>4 DEF Execute, ExecFails, RunPlaywright, RecordVerdict, ReportToAsset,
              FinishItems, FailRun, FailAsset
<1>5. CASE Die
  BY <1>5 DEF Die
<1>6. QED
  BY <1>1, <1>2, <1>3, <1>4, <1>5 DEF Next

\* Configs come from the requests that store them, tests from their generation.
LEMMA ConfigsStay ==
    ASSUME PlaywrightInv, Next
    PROVE  config' \in Config \cup {NULL} /\ test' \subseteq Code
<1>1. \A c \in Client : client[c].config \in Config \cup {NULL}
  BY DEF PlaywrightInv, RunsInv, RowsTypeOK, ClientRecord
<1>2. CASE StoriesNext /\ UNCHANGED assetVars
  BY <1>2 DEF PlaywrightInv, assetVars
<1>3. CASE Prepare
  BY <1>3 DEF PlaywrightInv, Prepare, SwapConfig, RemoveConfig, GenerateTests, Code
<1>4. CASE \E a \in Asset : Curate(a)
  BY <1>4 DEF PlaywrightInv, Curate, CreateAsset, DeleteAsset
<1>5. ASSUME NEW c \in Client, Ask(c) \/ Continue(c) \/ ClientFails(c)
      PROVE  config' \in Config \cup {NULL} /\ test' \subseteq Code
  BY <1>1, <1>5 DEF PlaywrightInv, Ask, Continue, ClientFails, RequestRun, RequestBulk,
     StoreConfig, InsertRun, MarkAsset, InsertBulk, QueueItems, NextAsset, Refuse,
     CloseBulk
<1>6. ASSUME NEW r \in Run, Execute(r) \/ ExecFails(r)
      PROVE  config' \in Config \cup {NULL} /\ test' \subseteq Code
  BY <1>6 DEF PlaywrightInv, Execute, ExecFails, RunPlaywright, RecordVerdict,
     ReportToAsset, FinishItems, FailRun, FailAsset
<1>7. CASE Die
  BY <1>7 DEF PlaywrightInv, Die
<1>8. QED
  BY <1>2, <1>3, <1>4, <1>5, <1>6, <1>7 DEF Next

LEMMA PlaywrightStep == PlaywrightInv /\ [Next]_vars => PlaywrightInv'
<1> SUFFICES ASSUME PlaywrightInv, [Next]_vars PROVE PlaywrightInv'
  OBVIOUS
<1>1. [StoriesNext]_storyVars
  BY StoriesApart DEF vars
<1>2. StoriesInv'
  BY <1>1, StoriesStep DEF PlaywrightInv
<1>3. RunsInv'
  BY RunsStep DEF PlaywrightInv
<1>4. config' \in Config \cup {NULL} /\ test' \subseteq Code
  BY ConfigsStay DEF PlaywrightInv, vars, assetVars
<1>5. QED
  BY <1>2, <1>3, <1>4 DEF PlaywrightInv

LEMMA PlaywrightInvHolds == Spec => []PlaywrightInv
<1>1. Init => PlaywrightInv
  BY PlaywrightStart
<1>2. PlaywrightInv /\ [Next]_vars => PlaywrightInv'
  BY PlaywrightStep
<1>3. QED
  BY <1>1, <1>2, PTL DEF Spec

\* The rows, the requests and the executions keep their types.
THEOREM PlaywrightTypeCorrect == Spec => []TypeOK
<1>1. PlaywrightInv => TypeOK
  BY DEF PlaywrightInv, StoriesInv, RunsInv, RowsTypeOK, TypeOK, LastRun, ClientRecord,
         ExecRecord
<1>2. QED
  BY <1>1, PlaywrightInvHolds, PTL

\* However many reviewers approve, reject and withdraw, an approved scenario has
\* one test case: scenarioGenerator's look-up and insert keep to it although no
\* transaction spans them.
THEOREM StoriesHaveCases == Spec => []ApprovedHaveCase
<1>1. PlaywrightInv => ApprovedHaveCase
  BY StoriesProperty DEF PlaywrightInv
<1>2. QED
  BY <1>1, PlaywrightInvHolds, PTL

\* However many runs of however many assets are started, alone or in bulk, and
\* in whatever order playwrightRunnerService's detached executions end: a run
\* that is over says how Playwright exited, and an asset the verdict of one of
\* its runs.
THEOREM VerdictsAreHonest == Spec => []VerdictsAgree
<1>1. PlaywrightInv => VerdictsAgree
  BY RunsAgree DEF PlaywrightInv
<1>2. QED
  BY <1>1, PlaywrightInvHolds, PTL
=============================================================================
