------------------------------- MODULE Stories -------------------------------
(***************************************************************************)
(* One user story of testgenie-backend, the scenarios extracted from it,   *)
(* their review, and the test cases that approval makes of them.           *)
(***************************************************************************)
EXTENDS Naturals, FiniteSets

CONSTANTS
    NULL,
    Scenario, Case,     \* ids of scenarios and of test_cases (bounds)
    Fallback,           \* the scenarios that the rules find in the story
    Enough,             \* valid answers that the model must give (10)
    Writer,             \* requests on the story that are in flight at once
    Lost                \* awaits at which a request may die, or its query fail

Review == {"pending", "approved", "rejected"}
WriterAt == {"idle", "generate", "extracted", "select", "insert"}

ASSUME StoriesAssumption ==
    /\ NULL \notin Scenario \cup Case \cup Review /\ "free" \notin Scenario
    /\ Fallback \subseteq Scenario /\ Fallback # {}
    /\ Enough \in Nat \ {0}
    /\ Lost \subseteq WriterAt \ {"idle"}

VARIABLES
    story,      \* "none", the status of the row, or "deleted"
    scenario,   \* scenarios.status, or NULL
    case,       \* test_cases: the scenario of each, NULL, or "free"
    writer,     \* requests in flight
    excused     \* history: scenarios whose test case was lost or deleted

storyVars == <<story, scenario, case, writer, excused>>

Busy == [at : WriterAt, scenario : Scenario \cup {NULL}]
Rest == [at |-> "idle", scenario |-> NULL]

StoriesInit ==
    /\ story = "none"
    /\ scenario = [s \in Scenario |-> NULL]
    /\ case = [c \in Case |-> "free"]
    /\ writer = [w \in Writer |-> Rest]
    /\ excused = {}

Exists == story \notin {"none", "deleted"}
Rows == {s \in Scenario : scenario[s] # NULL}
Approved == {s \in Scenario : scenario[s] = "approved"}
Cases(s) == {c \in Case : case[c] = s}
Approving(s) == \E w \in Writer : /\ writer[w].scenario = s
                                  /\ writer[w].at \in {"select", "insert"}

WriterGoto(w, await) == writer' = [writer EXCEPT ![w].at = await]
WriterDone(w) == writer' = [writer EXCEPT ![w] = Rest]

(***************************************************************************)
(* Ingestion.                                                              *)
(***************************************************************************)

CreateStory(w) ==
    /\ writer[w].at = "idle" /\ story = "none"
    /\ story' = "draft"
    /\ WriterGoto(w, "generate")
    /\ UNCHANGED <<scenario, case, excused>>

\* The answers of the model that stand validation, if they are many enough;
\* else, and after any error, what the rules find.
Generated(valid) == IF Cardinality(valid) >= Enough THEN valid ELSE Fallback

\* One INSERT for all of them: the foreign key refuses it if the story is gone.
ExtractScenarios(w) ==
    /\ writer[w].at = "generate"
    /\ IF Exists
       THEN /\ \E valid \in SUBSET Scenario :
                  scenario' = [s \in Scenario |->
                      IF s \in Generated(valid) \ Rows THEN "pending"
                                                       ELSE scenario[s]]
            /\ WriterGoto(w, "extracted")
       ELSE WriterDone(w) /\ UNCHANGED scenario
    /\ UNCHANGED <<story, case, excused>>

MarkExtracted(w) ==
    /\ writer[w].at = "extracted"
    /\ story' = IF Exists THEN "extracted" ELSE story
    /\ WriterDone(w)
    /\ UNCHANGED <<scenario, case, excused>>

AddScenario(s) ==
    /\ Exists /\ scenario[s] = NULL /\ ~Approving(s)
    /\ scenario' = [scenario EXCEPT ![s] = "pending"]
    /\ UNCHANGED <<story, case, writer, excused>>

\* Scenarios go with the story; test cases stay, without a scenario.
DeleteStory ==
    /\ Exists
    /\ story' = "deleted"
    /\ scenario' = [s \in Scenario |-> NULL]
    /\ case' = [c \in Case |-> IF case[c] \in Scenario THEN NULL ELSE case[c]]
    /\ excused' = {}
    /\ UNCHANGED writer

(***************************************************************************)
(* Review.                                                                 *)
(***************************************************************************)

\* The status first; an approval then sees to the test case.
PatchScenario(w, s, status) ==
    /\ writer[w].at = "idle"
    /\ scenario[s] # NULL
    /\ scenario' = [scenario EXCEPT ![s] = status]
    /\ writer' = IF status # "approved" THEN writer
                 ELSE [writer EXCEPT ![w] = [at |-> "select", scenario |-> s]]
    /\ UNCHANGED <<story, case, excused>>

\* Mutant: any test case of the story will do.
FindCaseOfStory(w) ==
    /\ writer[w].at = "select"
    /\ IF \E c \in Case : case[c] # "free"
       THEN WriterDone(w) ELSE WriterGoto(w, "insert")
    /\ UNCHANGED <<story, scenario, case, excused>>

FindCase(w) ==
    LET s == writer[w].scenario
    IN  /\ writer[w].at = "select"
        /\ IF Cases(s) # {}
           THEN WriterDone(w) /\ excused' = excused \ {s}
           ELSE WriterGoto(w, "insert") /\ UNCHANGED excused
        /\ UNCHANGED <<story, scenario, case>>

\* Refused, and the error swallowed, if the scenario has got a test case
\* meanwhile (unique index) or is gone (foreign key).
InsertCase(w) ==
    LET s == writer[w].scenario
    IN  /\ writer[w].at = "insert"
        /\ IF scenario[s] = NULL \/ Cases(s) # {}
           THEN UNCHANGED case
           ELSE \E c \in Case : case[c] = "free" /\ case' = [case EXCEPT ![c] = s]
        /\ excused' = excused \ {s}
        /\ WriterDone(w)
        /\ UNCHANGED <<story, scenario>>

AddManualCase(c) ==
    /\ Exists /\ case[c] = "free"
    /\ case' = [case EXCEPT ![c] = NULL]
    /\ UNCHANGED <<story, scenario, writer, excused>>

\* A test case may be deleted, and its scenario stays approved.
DeleteCase(c) ==
    /\ case[c] # "free"
    /\ case' = [case EXCEPT ![c] = "free"]
    /\ excused' = excused \cup ({case[c]} \cap Scenario)
    /\ UNCHANGED <<story, scenario, writer>>

\* The process ends, or a query fails: an approval stands all the same.
LoseRequest(w) ==
    /\ writer[w].at \in Lost
    /\ excused' = excused \cup ({writer[w].scenario} \cap Rows)
    /\ WriterDone(w)
    /\ UNCHANGED <<story, scenario, case>>

StoriesNext ==
    \/ \E w \in Writer :
          \/ CreateStory(w) \/ ExtractScenarios(w) \/ MarkExtracted(w)
          \/ \E s \in Scenario, status \in Review : PatchScenario(w, s, status)
          \/ FindCase(w) \/ InsertCase(w) \/ LoseRequest(w)
    \/ \E s \in Scenario : AddScenario(s)
    \/ \E c \in Case : AddManualCase(c) \/ DeleteCase(c)
    \/ DeleteStory

(***************************************************************************)
(* Properties.                                                             *)
(***************************************************************************)

StoriesTypeOK ==
    /\ story \in {"none", "draft", "extracted", "deleted"}
    /\ scenario \in [Scenario -> Review \cup {NULL}]
    /\ case \in [Case -> Scenario \cup {NULL, "free"}]
    /\ writer \in [Writer -> Busy]
    /\ excused \subseteq Scenario

\* An approved scenario has one test case, and only one, however its reviews
\* overlap: unless that case was deleted since, or the request that was to
\* make it died.  (ensureTestCaseForScenario swallows every error.)
ApprovedHaveCase ==
    /\ \A s \in Scenario : Cardinality(Cases(s)) <= 1
    /\ \A s \in Approved \ excused : ~Approving(s) => Cases(s) # {}
=============================================================================
