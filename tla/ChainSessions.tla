---------------------------- MODULE ChainSessions ----------------------------
(***************************************************************************)
(* The chain session of one user and one collection in testgenie-backend:  *)
(* the cookies and variables that one click on "run" hands to the next.    *)
(*                                                                         *)
(* A Map of the process holds the session, the table chain_sessions keeps  *)
(* it over restarts.  A cold request loads the row and installs an object  *)
(* of its own; a run changes the object it was given and then writes       *)
(* whatever object the Map holds; a reset empties the Map, then the table. *)
(***************************************************************************)
EXTENDS ApiRunner, FiniteSets

CONSTANTS
    Client,     \* requests in flight at one time
    Object,     \* session objects: one per client and one in the Map
    Tests,      \* the tests of the collection
    Failing     \* the queries that may fail: "load", "save", "delete"

Session == [jar : SUBSET Names, vars : SUBSET Names]
Empty == [jar |-> {}, vars |-> {}]
At == {"idle", "load", "install", "http", "save", "peek", "reinstall",
       "delete"}
Lapse == {"lost",       \* a cold request replaced the session of another, a
                        \* write landed after a later one, or a query failed
          "revived"}    \* what a reset removed is back, or was never removed

ASSUME ChainSessionsAssumption ==
    /\ Tests \subseteq Test
    /\ IsFiniteSet(Client) /\ IsFiniteSet(Object)
    /\ Cardinality(Object) > Cardinality(Client)
    /\ NULL \notin Object \cup Session
    /\ Failing \subseteq {"load", "save", "delete"}

VARIABLES
    cached,     \* sessions.get(key)
    heap,       \* the session objects
    row,        \* the row of chain_sessions, if it is younger than the TTL
    req,        \* the requests
    owed,       \* history: what answered steps have handed on
    since,      \* history: what steps have handed on since the last reset
    lapses      \* history: how a session has come to be lost or revived

vars == <<cached, heap, row, req, owed, since, lapses>>
history == <<owed, since, lapses>>

Idle == [at |-> "idle", test |-> NULL, object |-> NULL, copy |-> NULL,
         sent |-> Empty, due |-> Empty, gave |-> Empty, crossed |-> FALSE,
         late |-> FALSE]

Plus(a, b) == [jar |-> a.jar \cup b.jar, vars |-> a.vars \cup b.vars]
Within(a, b) == a.jar \subseteq b.jar /\ a.vars \subseteq b.vars

\* The history after a step: once there is a lapse it says no more.
History(ls, o, s) ==
    /\ lapses' = ls
    /\ owed' = IF "lost" \in ls THEN Empty ELSE o
    /\ since' = IF "revived" \in ls THEN Empty ELSE s

Init ==
    /\ cached = NULL
    /\ heap = [o \in Object |-> Empty]
    /\ row = NULL
    /\ req = [c \in Client |-> Idle]
    /\ owed = Empty
    /\ since = Empty
    /\ lapses = {}

\* An object that neither the Map nor a request refers to is gone: the heap
\* after a request lets go of its object, and after the Map does.
Elsewhere(o, c) == \E d \in Client \ {c} : req[d].object = o
Released(h, c) ==
    LET o == req[c].object
    IN IF o = cached \/ Elsewhere(o, c) THEN h ELSE [h EXCEPT ![o] = Empty]
Evicted(h) ==
    IF cached = NULL \/ \E d \in Client : req[d].object = cached THEN h
    ELSE [h EXCEPT ![cached] = Empty]

Spare == CHOOSE o \in Object : o # cached /\ \A c \in Client : req[c].object # o

\* What a step sends: the session as it is handed to the request.  What it
\* is due is what answered steps have handed on, if nothing was lost.
Sending(r, s, ls) ==
    [r EXCEPT !.at = "http", !.sent = s, !.copy = NULL,
              !.due = IF "lost" \in ls THEN Empty ELSE owed]

\* POST /:colId/tests/:testId/run, up to the await of getOrCreate: the
\* Map's own object, or a read of the table.
Open(c, t) ==
    /\ req[c].at = "idle"
    /\ req' = [req EXCEPT ![c] =
         IF cached = NULL THEN [Idle EXCEPT !.at = "load", !.test = t]
         ELSE Sending([Idle EXCEPT !.test = t, !.object = cached],
                      heap[cached], lapses)]
    /\ UNCHANGED <<cached, heap, row, history>>

Resetting == \E d \in Client : req[d].at = "delete"

\* The SELECT of loadFromDb; an error counts as no row.
ReadRow(c, from, to) ==
    /\ req[c].at = from
    /\ \/ /\ req' = [req EXCEPT ![c] = [@ EXCEPT !.at = to, !.copy = row,
                                                !.late = Resetting /\ row # NULL]]
          /\ UNCHANGED history
       \/ /\ "load" \in Failing
          /\ req' = [req EXCEPT ![c] = [@ EXCEPT !.at = to, !.copy = NULL]]
          /\ History(lapses \cup {"lost"}, owed, since)
    /\ UNCHANGED <<cached, heap, row>>

Lapses(c) ==
    lapses \cup (IF cached # NULL THEN {"lost"} ELSE {})
           \cup (IF req[c].late THEN {"revived"} ELSE {})

\* getOrCreate after its await: the object goes into the Map whatever the
\* Map holds by then.
Install(c) ==
    LET s == IF req[c].copy = NULL THEN Empty ELSE req[c].copy
    IN /\ req[c].at = "install"
       /\ cached' = Spare
       /\ heap' = [Evicted(heap) EXCEPT ![Spare] = s]
       /\ History(Lapses(c), owed, since)
       /\ req' = [req EXCEPT ![c] = Sending([@ EXCEPT !.object = Spare,
                                                      !.late = FALSE],
                                            s, Lapses(c))]
       /\ UNCHANGED row

\* persist: the object in the Map, if there is one.
Persisted == IF cached = NULL THEN NULL ELSE heap'[cached]

\* The answer of the site: it changes the object of the request, and the
\* object in the Map is serialised.  With no session in the Map the status
\* is looked up at once.
Ingest(c, outage) ==
    LET r == req[c]
        res == ExecuteTest(r.test, r.sent, outage)
        out == IF outage = "none" /\ r.test.type = "api" /\ Sendable(r.test)
               THEN HandedOut(r.test, r.sent) ELSE Empty
    IN /\ r.at = "http"
       /\ heap' = Released([heap EXCEPT ![r.object] =
                              Plus(@, [jar |-> res.jar, vars |-> res.vars])], c)
       /\ History(lapses, owed,
                  IF r.crossed THEN since
                  ELSE Plus(since, [jar |-> res.jar, vars |-> res.vars]))
       /\ req' = [req EXCEPT ![c] =
            [@ EXCEPT !.at = IF Persisted = NULL THEN "peek" ELSE "save",
                      !.copy = Persisted, !.test = NULL,
                      !.object = NULL, !.sent = Empty, !.due = Empty,
                      !.gave = out]]
       /\ UNCHANGED <<cached, row>>

\* The result cannot be stored: the request fails before it hands on.
StoreFails(c) ==
    /\ req[c].at = "http"
    /\ req' = [req EXCEPT ![c] = Idle]
    /\ heap' = Released(heap, c)
    /\ UNCHANGED <<cached, row, history>>

\* The request is answered.
Answered(c, ls) ==
    /\ req' = [req EXCEPT ![c] = Idle]
    /\ History(ls, IF req[c].crossed THEN owed ELSE Plus(owed, req[c].gave), since)

\* The upsert of saveToDb, an error of which is swallowed; then the status,
\* a peek that finds the Map's object or reads the table.
Save(c) ==
    LET behind == row # NULL /\ ~Within(row, req[c].copy)
        peek(ls) == IF cached # NULL THEN Answered(c, ls)
                    ELSE /\ req' = [req EXCEPT ![c] =
                                      [@ EXCEPT !.at = "peek", !.copy = NULL,
                                                !.late = FALSE]]
                         /\ History(ls, owed, since)
    IN /\ req[c].at = "save"
       /\ \/ /\ row' = req[c].copy
             /\ peek(lapses \cup (IF behind THEN {"lost"} ELSE {})
                            \cup (IF req[c].late THEN {"revived"} ELSE {}))
          \/ /\ "save" \in Failing
             /\ row' = row
             /\ peek(lapses \cup {"lost"})
       /\ UNCHANGED <<cached, heap>>

\* peek after its await: a row goes into the Map, whatever the Map holds.
Reinstall(c) ==
    /\ req[c].at = "reinstall"
    /\ IF req[c].copy = NULL
       THEN /\ UNCHANGED <<cached, heap>>
            /\ Answered(c, lapses)
       ELSE /\ cached' = Spare
            /\ heap' = [Evicted(heap) EXCEPT ![Spare] = req[c].copy]
            /\ Answered(c, Lapses(c))
    /\ UNCHANGED row

\* GET /:colId/session with a cold Map.
Badge(c) ==
    /\ req[c].at = "idle"
    /\ cached = NULL
    /\ req' = [req EXCEPT ![c] = [@ EXCEPT !.at = "peek"]]
    /\ UNCHANGED <<cached, heap, row, history>>

\* Whoever has a session by now hands on to the old one.
Crossed(r) ==
    [r EXCEPT !.crossed = r.at \in {"http", "save", "peek", "reinstall"},
              !.late = r.at \in {"save", "install", "reinstall"} /\ r.copy # NULL]

\* DELETE /:colId/session up to the await: the Map.
BeginReset(c) ==
    /\ req[c].at = "idle"
    /\ cached' = NULL
    /\ req' = [d \in Client |-> IF d = c THEN [Idle EXCEPT !.at = "delete"]
                                ELSE Crossed(req[d])]
    /\ owed' = Empty
    /\ since' = Empty
    /\ lapses' = {}
    /\ heap' = Evicted(heap)
    /\ UNCHANGED row

\* The DELETE of the row; an error is swallowed.  It may take a row that a
\* step has written meanwhile.
DeleteRow(c) ==
    /\ req[c].at = "delete"
    /\ \/ /\ row' = NULL
          /\ History(lapses \cup (IF cached # NULL THEN {"lost"} ELSE {}),
                     owed, since)
       \/ /\ "delete" \in Failing
          /\ row' = row
          /\ History(lapses \cup {"revived"}, owed, since)
    /\ req' = [req EXCEPT ![c] = Idle]
    /\ UNCHANGED <<cached, heap>>

\* The process ends and a new one starts: the Map is empty.  A reset that
\* was under way has deleted nothing.
Restart ==
    /\ cached' = NULL
    /\ heap' = [o \in Object |-> Empty]
    /\ req' = [c \in Client |-> Idle]
    /\ History(lapses \cup (IF Resetting THEN {"revived"} ELSE {}), owed, since)
    /\ UNCHANGED row

\* An hour without a request: sweepInMemory drops the object before it is
\* used again, and loadFromDb does not look at the row.
Expire ==
    /\ \A c \in Client : req[c].at = "idle"
    /\ cached # NULL \/ row # NULL
    /\ cached' = NULL
    /\ heap' = Evicted(heap)
    /\ row' = NULL
    /\ owed' = Empty
    /\ lapses' = {}
    /\ UNCHANGED <<req, since>>

Next ==
    \/ \E c \in Client :
         \/ \E t \in Tests : Open(c, t)
         \/ ReadRow(c, "load", "install")
         \/ Install(c)
         \/ \E outage \in Outage : Ingest(c, outage)
         \/ StoreFails(c)
         \/ Save(c)
         \/ ReadRow(c, "peek", "reinstall")
         \/ Reinstall(c)
         \/ Badge(c)
         \/ BeginReset(c)
         \/ DeleteRow(c)
    \/ Restart
    \/ Expire

Spec == Init /\ [][Next]_vars

-----------------------------------------------------------------------------
Row == Session \cup {NULL}

\* The Map, the table and the requests are well typed.
TypeOK ==
    /\ cached \in Object \cup {NULL}
    /\ heap \in [Object -> Session]
    /\ row \in Row
    /\ req \in [Client -> [at : At, test : Tests \cup {NULL},
                           object : Object \cup {NULL}, copy : Row,
                           sent : Session, due : Session, gave : Session,
                           crossed : BOOLEAN, late : BOOLEAN]]
    /\ owed \in Session
    /\ since \in Session
    /\ lapses \subseteq Lapse

\* Whatever test would pass with all that the steps answered since the last
\* reset were handed by the site passes in fact, over restarts too, unless
\* a cold request has replaced the session of another (chainSessions.js:162
\* and 169), a write has landed after a later one, or a query has failed.
StepsCarryOver ==
    \A c \in Client :
      LET r == req[c]
      IN r.at = "http" /\ ExecuteTest(r.test, r.due, "none").verdict = "passed"
           => ExecuteTest(r.test, r.sent, "none").verdict = "passed"

\* After a reset a step starts with nothing from before it, whatever was in
\* flight, unless a row that was read or serialised before the DELETE has
\* come back after the Map was emptied, or the DELETE has failed.
ResetStartsCold ==
    "revived" \notin lapses =>
      \A c \in Client :
        req[c].at = "http" /\ ~req[c].crossed => Within(req[c].sent, since)

\* A step is sent what its session owes it, and nothing that was reset.
SessionsHold == StepsCarryOver /\ ResetStartsCold

\* A test that passes passes too when its request carries more.  The sites
\* under test are not the program's; the proof takes this of them.
Generous ==
    \A t \in Tests, a, b \in Session :
        Within(a, b) /\ ExecuteTest(t, a, "none").verdict = "passed"
          => ExecuteTest(t, b, "none").verdict = "passed"
=============================================================================
