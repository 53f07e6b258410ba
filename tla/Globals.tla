------------------------------ MODULE Globals ------------------------------
(***************************************************************************)
(* The global variables of one user of testgenie-backend, and the streams  *)
(* on which her browsers are told of every change.  A request writes a row *)
(* and, when the database has answered, sends an event to each stream that *)
(* is connected to the process; a browser asks for the list as well.       *)
(***************************************************************************)
EXTENDS Naturals

CONSTANTS
    Unset,
    Key, Value,     \* of global_variables
    Editor,         \* requests in flight
    Stream          \* browsers

VariableRow == [value : Value \cup {"mask"}, secret : BOOLEAN]
Event == [key : Key, row : VariableRow \cup {Unset}, late : BOOLEAN]
Listing == [Key -> VariableRow \cup {Unset}]
StreamRow == [shows : Listing, listed : BOOLEAN, list : Listing \cup {Unset},
              missed : SUBSET Key]

ASSUME GlobalsAssumption == Unset \notin VariableRow \cup Event \cup Listing \cup StreamRow

VARIABLES
    variable,   \* rows by key, or Unset
    edit,       \* the event of a request that has written its row, or Unset
    stream,     \* what a browser shows while it is connected, or Unset
    doubted     \* history: <<browser, key>> about which it was told out of order

globalsVars == <<variable, edit, stream, doubted>>

GlobalsInit ==
    /\ variable = [k \in Key |-> Unset]
    /\ edit = [e \in Editor |-> Unset]
    /\ stream = [s \in Stream |-> Unset]
    /\ doubted = {}

\* The value of a secret never leaves the server.
Masked(row) ==
    IF row = Unset THEN Unset
    ELSE [row EXCEPT !.value = IF row.secret THEN "mask" ELSE @]

Streaming == {s \in Stream : stream[s] # Unset}

(***************************************************************************)
(* Requests that change a row.                                             *)
(***************************************************************************)

\* The statement, and the event its row will make: the events of others about
\* the same key are late from now on.
Written(e, k, row) ==
    /\ variable' = [variable EXCEPT ![k] = row]
    /\ edit' = [d \in Editor |->
                  IF d = e THEN [key |-> k, row |-> Masked(row), late |-> FALSE]
                  ELSE IF edit[d] # Unset /\ edit[d].key = k
                  THEN [edit[d] EXCEPT !.late = TRUE] ELSE edit[d]]
    /\ UNCHANGED <<stream, doubted>>

\* POST: ON CONFLICT (user_id, key) DO UPDATE.
UpsertGlobal(e, k, value, secret) ==
    /\ edit[e] = Unset
    /\ Written(e, k, [value |-> value, secret |-> secret])

\* PUT: the fields that are given.
UpdateGlobal(e, k, value, secret) ==
    /\ edit[e] = Unset /\ variable[k] # Unset
    /\ Written(e, k, [value |-> value, secret |-> secret])

\* Mutant: the deletion is not broadcast.
DeleteQuietly(e, k) ==
    /\ edit[e] = Unset /\ variable[k] # Unset
    /\ variable' = [variable EXCEPT ![k] = Unset]
    /\ UNCHANGED <<edit, stream, doubted>>

DeleteGlobal(e, k) ==
    /\ edit[e] = Unset /\ variable[k] # Unset
    /\ Written(e, k, Unset)

\* A list that was read before the event, and arrives after it, undoes it.
Broadcast(e) ==
    LET sent == edit[e]
        told == Streaming \X {sent.key}
    IN  /\ sent # Unset
        /\ edit' = [edit EXCEPT ![e] = Unset]
        /\ stream' = [s \in Stream |->
                        IF s \notin Streaming THEN Unset
                        ELSE [stream[s] EXCEPT !.shows[sent.key] = sent.row,
                                !.missed = IF stream[s].list = Unset THEN @
                                           ELSE @ \cup {sent.key}]]
        /\ doubted' = IF sent.late THEN doubted \cup told ELSE doubted \ told
        /\ UNCHANGED variable

(***************************************************************************)
(* Browsers.                                                               *)
(***************************************************************************)

OpenStream(s) ==
    /\ s \notin Streaming
    /\ stream' = [stream EXCEPT ![s] =
                    [shows |-> [k \in Key |-> Unset], listed |-> FALSE,
                     list |-> Unset, missed |-> {}]]
    /\ UNCHANGED <<variable, edit, doubted>>

ListGlobals(s) ==
    /\ s \in Streaming /\ stream[s].list = Unset
    /\ stream' = [stream EXCEPT ![s].list = [k \in Key |-> Masked(variable[k])]]
    /\ UNCHANGED <<variable, edit, doubted>>

ShowList(s) ==
    LET seen == stream[s]
    IN  /\ s \in Streaming /\ seen.list # Unset
        /\ stream' = [stream EXCEPT ![s] = [shows |-> seen.list, listed |-> TRUE,
                                            list |-> Unset, missed |-> {}]]
        /\ doubted' = (doubted \ ({s} \X Key)) \cup ({s} \X seen.missed)
        /\ UNCHANGED <<variable, edit>>

CloseStream(s) ==
    /\ s \in Streaming
    /\ stream' = [stream EXCEPT ![s] = Unset]
    /\ doubted' = doubted \ ({s} \X Key)
    /\ UNCHANGED <<variable, edit>>

\* The registry of the streams is in memory.
RestartServer ==
    /\ edit' = [e \in Editor |-> Unset]
    /\ stream' = [s \in Stream |-> Unset]
    /\ doubted' = {}
    /\ UNCHANGED variable

GlobalsNext ==
    \/ \E e \in Editor, k \in Key :
          \/ \E value \in Value, secret \in BOOLEAN :
                UpsertGlobal(e, k, value, secret) \/ UpdateGlobal(e, k, value, secret)
          \/ DeleteGlobal(e, k)
    \/ \E e \in Editor : Broadcast(e)
    \/ \E s \in Stream :
          OpenStream(s) \/ ListGlobals(s) \/ ShowList(s) \/ CloseStream(s)
    \/ RestartServer

GlobalsSpec == GlobalsInit /\ [][GlobalsNext]_globalsVars

(***************************************************************************)
(* Properties.                                                             *)
(***************************************************************************)

GlobalsTypeOK ==
    /\ variable \in [Key -> VariableRow \cup {Unset}]
    /\ edit \in [Editor -> Event \cup {Unset}]
    /\ stream \in [Stream -> StreamRow \cup {Unset}]
    /\ doubted \subseteq Stream \X Key

\* "Pushes updates to connected clients": when no request about a key is in
\* flight, a browser that is connected and has had its list shows what the
\* database holds, with secrets masked, unless the last it was told of the key
\* was told out of order; a list alone repairs that, or the next change.
StreamsFollowRows ==
    \A s \in Streaming, k \in Key :
        \/ stream[s].shows[k] = Masked(variable[k])
        \/ ~stream[s].listed \/ <<s, k>> \in doubted
        \/ \E e \in Editor : edit[e] # Unset /\ edit[e].key = k
=============================================================================
