--------------------------- MODULE MCPlaywrightRuns ---------------------------
(* A bound on PlaywrightRuns that its configuration file cannot write.      *)
(*                                                                          *)
(* The story and the runs meet in the tests that are generated.  So that    *)
(* not every state of the one is met by every state of the other, assets    *)
(* are made once the story rests; it rests from then on, and tests and      *)
(* configs are as they are.  (A run may skip the verification of both.)     *)
EXTENDS PlaywrightRuns

StoryRests ==
    /\ story = "extracted" /\ Approved = Rows /\ excused = {}
    /\ \A w \in Writer : writer[w] = Rest
    /\ \A s \in Rows : case[CHOOSE c \in Case : TRUE] = s
    /\ \/ config = NULL /\ test = {}
       \/ config = "mapped" /\ test = Code

NoAsset == /\ \A a \in Asset : asset[a] = NULL
           /\ \A r \in Run : exec[r] = Still
           /\ \A c \in Client : client[c].at \in {"idle", "store"}

MCNext ==
    \/ NoAsset /\ StoriesNext /\ UNCHANGED assetVars
    \/ NoAsset /\ Prepare
    \/ \E a \in Asset : (NoAsset => StoryRests) /\ Curate(a)
    \/ \E c \in Client : Ask(c) \/ Continue(c) \/ ClientFails(c)
    \/ \E r \in Run : Execute(r) \/ ExecFails(r)
    \/ Die

MCSpec == Init /\ [][MCNext]_vars /\ Fairness
=============================================================================
