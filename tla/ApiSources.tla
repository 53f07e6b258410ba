------------------------------ MODULE ApiSources ------------------------------
(***************************************************************************)
(* One API source of testgenie-backend: the document that is fetched from  *)
(* its URL, the versions that refreshing leaves behind, the endpoints of   *)
(* its import, and the tests that are made of them in a collection.        *)
(***************************************************************************)
EXTENDS ApiDocuments, Functions

CONSTANTS
    Missing,
    Doc, Text,          \* contents, and what each says
    Served,             \* those a site may answer with
    Url, Home,          \* addresses, and that of the source
    Dialable,           \* those with https and a public address
    MaxRedirects,       \* of fetchSpec (3)
    MaxVersions,        \* versions of the source (a bound)
    Caller, Fragile     \* requests in flight; awaits at which one may fail

\* What each content lists, if nothing in it says where its operations are.
Operations ==
    [d \in Doc |-> [from \in {Nowhere, Home} |-> Fingerprints(Text[d], from)]]
Fingerprint == UNION {Range(Operations[d][Home]) \cup Range(Operations[d][Nowhere]) : d \in Doc}
CallerAt == {"idle", "fetch", "parse", "compare", "version", "update",
             "read", "open", "insert", "commit"}
RequestKind == {"ingest", "paste", "refresh", "commit"}
SourceRow == [current : Nat, count : Nat, deleted : BOOLEAN, located : BOOLEAN]

ASSUME ApiSourcesAssumption ==
    /\ Home \in Url /\ Dialable \subseteq Url
    /\ Served \subseteq Doc
    /\ MaxRedirects \in Nat /\ MaxVersions \in Nat
    /\ {Missing, Nowhere} \cap (Url \cup Doc) = {} /\ Url \cap Doc = {}
    /\ Fragile \subseteq CallerAt \ {"idle"}
    /\ Missing \notin RequestKind \cup SourceRow
    /\ Nowhere \notin Server
    /\ \A d \in Doc : IsObject(Text[d])

VARIABLES
    source,     \* the row of api_sources, or Missing
    version,    \* api_source_versions: rows by id
    endpoint,   \* api_endpoints: the fingerprints of the import
    test,       \* collection_tests, by the request that made them
    collection, \* whether the collection is there
    client,     \* requests in flight
    nextId,     \* the sequence behind api_source_versions.id
    overlapped  \* history: versions whose refreshes overlapped another

sourceVars == <<source, version, endpoint, test, collection, client, nextId,
                overlapped>>
catalog == <<source, version, endpoint, nextId, overlapped>>
tests == <<test, collection>>

Rest == [at |-> "idle", kind |-> Missing, url |-> Missing, hops |-> 0,
         doc |-> Missing, spec |-> Missing,
         id |-> 0, drift |-> [added |-> 0, removed |-> 0],
         chosen |-> {}, written |-> {}, alone |-> TRUE]

SourceInit ==
    /\ source = Missing /\ version = [i \in {} |-> Missing] /\ endpoint = {}
    /\ test = [c \in Caller |-> {}] /\ collection = TRUE
    /\ client = [c \in Caller |-> Rest]
    /\ nextId = 1 /\ overlapped = {}

Awaits(c, await) == client[c].at = await
Goto(c, j) == client' = [client EXCEPT ![c] = j]
Then(c, await) == Goto(c, [client[c] EXCEPT !.at = await])
Refreshing(c) == client[c].kind = "refresh"

\* The document that is read when this content is: an address is still to be
\* probed for one.
SpecOf(doc) == IF Detect(Text[doc]) = "url_probe" THEN Missing ELSE doc

(***************************************************************************)
(* Fetching, hop by hop.  An address may answer differently each time.     *)
(***************************************************************************)

Respond(c, doc) ==
    /\ Awaits(c, "fetch") /\ client[c].url \in Dialable
    /\ Goto(c, [client[c] EXCEPT !.at = "parse", !.url = Missing, !.hops = 0,
                                   !.doc = doc, !.spec = SpecOf(doc)])
    /\ UNCHANGED <<catalog, tests>>

Redirect(c, url) ==
    /\ Awaits(c, "fetch") /\ client[c].url \in Dialable
    /\ Goto(c, IF client[c].hops = MaxRedirects THEN Rest
               ELSE [client[c] EXCEPT !.url = url, !.hops = @ + 1])
    /\ UNCHANGED <<catalog, tests>>

\* An address that may not be dialled, or an error.
GiveUp(c) ==
    /\ Awaits(c, "fetch")
    /\ Goto(c, Rest)
    /\ UNCHANGED <<catalog, tests>>

(***************************************************************************)
(* Import and refresh.                                                     *)
(***************************************************************************)

IngestSource(c) ==
    /\ Awaits(c, "idle") /\ source = Missing
    /\ \A d \in Caller : client[d].kind \notin {"ingest", "paste"}
    /\ Goto(c, [Rest EXCEPT !.at = "fetch", !.kind = "ingest", !.url = Home])
    /\ UNCHANGED <<catalog, tests>>

\* The text itself: it has no address, unless it is one.
PasteSource(c, doc) ==
    /\ Awaits(c, "idle") /\ source = Missing
    /\ \A d \in Caller : client[d].kind \notin {"ingest", "paste"}
    /\ Goto(c, [Rest EXCEPT !.at = "parse", !.kind = "paste",
                            !.doc = doc, !.spec = SpecOf(doc)])
    /\ UNCHANGED <<catalog, tests>>

\* The usual places of the site are asked one by one: the first OpenAPI
\* document, or the address alone if there is none.
Probe(c, spec) ==
    /\ Awaits(c, IF Refreshing(c) THEN "compare" ELSE "parse")
    /\ client[c].spec = Missing
    /\ spec \in {client[c].doc} \cup {d \in Served : Probed(Text[d])}
    /\ Goto(c, [client[c] EXCEPT !.spec = spec])
    /\ UNCHANGED <<catalog, tests>>

\* One transaction, of rows that nobody else knows yet.
Import(c) ==
    LET j == client[c]
        from == IF j.kind = "ingest" THEN Home ELSE Nowhere
        ops == Operations[j.spec][from]
    IN  /\ Awaits(c, "parse") /\ ~Refreshing(c) /\ j.spec # Missing
        /\ IF ~Readable(Text[j.spec]) THEN UNCHANGED catalog
           ELSE /\ version' = [i \in {nextId} |->
                                 [doc |-> j.doc, spec |-> j.spec, count |-> Len(ops),
                                  added |-> Len(ops), removed |-> 0]]
                /\ source' = [current |-> nextId, count |-> Len(ops), deleted |-> FALSE,
                              located |-> j.kind = "ingest" \/ SpecOf(j.doc) = Missing]
                /\ endpoint' = Range(ops)
                /\ nextId' = nextId + 1
                /\ UNCHANGED overlapped
        /\ Goto(c, Rest)
        /\ UNCHANGED tests

RefreshSource(c) ==
    /\ Awaits(c, "idle")
    /\ source # Missing /\ ~source.deleted /\ source.located
    /\ client' = [d \in Caller |->
                    IF d = c THEN [Rest EXCEPT !.at = "fetch", !.kind = "refresh",
                                               !.url = Home,
                                               !.alone = ~\E e \in Caller : Refreshing(e)]
                    ELSE IF Refreshing(d) THEN [client[d] EXCEPT !.alone = FALSE]
                    ELSE client[d]]
    /\ UNCHANGED <<catalog, tests>>

\* Mutant: the content is compared with the current version's.
CompareWithCurrent(c) ==
    /\ Awaits(c, "parse") /\ Refreshing(c)
    /\ IF version[source.current].doc = client[c].doc
       THEN Goto(c, Rest) ELSE Then(c, "compare")
    /\ UNCHANGED <<catalog, tests>>

\* A content that any version had is "no change", the current version or not.
Compare(c) ==
    /\ Awaits(c, "parse") /\ Refreshing(c)
    /\ IF \E i \in DOMAIN version : version[i].doc = client[c].doc
       THEN Goto(c, Rest) ELSE Then(c, "compare")
    /\ UNCHANGED <<catalog, tests>>

\* The drift is counted from the import: api_endpoints is never updated.
CountDrift(c) ==
    LET j == client[c]
        new == Range(Operations[j.spec][Home])
    IN  /\ Awaits(c, "compare") /\ j.spec # Missing
        /\ IF ~Readable(Text[j.spec]) THEN Goto(c, Rest)
           ELSE Goto(c, [j EXCEPT !.at = "version", !.drift =
                           [added |-> Cardinality(new \ endpoint),
                            removed |-> Cardinality(endpoint \ new)]])
        /\ UNCHANGED <<catalog, tests>>

\* Within the transaction: the id is taken, the row not to be seen yet.
InsertVersion(c) ==
    /\ Awaits(c, "version") /\ nextId <= MaxVersions
    /\ nextId' = nextId + 1
    /\ Goto(c, [client[c] EXCEPT !.at = "update", !.id = nextId])
    /\ UNCHANGED <<source, version, endpoint, overlapped, tests>>

\* The update of the source, deleted meanwhile or not, and COMMIT.
CommitVersion(c) ==
    LET j == client[c]
        count == Len(Operations[j.spec][Home])
    IN  /\ Awaits(c, "update")
        /\ version' = [i \in DOMAIN version \cup {j.id} |->
                        IF i = j.id
                        THEN [doc |-> j.doc, spec |-> j.spec, count |-> count,
                              added |-> j.drift.added, removed |-> j.drift.removed]
                        ELSE version[i]]
        /\ source' = [source EXCEPT !.current = j.id, !.count = count]
        /\ overlapped' = IF j.alone THEN overlapped ELSE overlapped \cup {j.id}
        /\ Goto(c, Rest)
        /\ UNCHANGED <<endpoint, nextId, tests>>

DeleteSource ==
    /\ source # Missing /\ ~source.deleted
    /\ source' = [source EXCEPT !.deleted = TRUE]
    /\ UNCHANGED <<version, endpoint, nextId, overlapped, tests, client>>

(***************************************************************************)
(* Tests of the endpoints.  Those of a deleted source can still be chosen. *)
(***************************************************************************)

CommitToCollection(c, chosen) ==
    /\ Awaits(c, "idle") /\ test[c] = {}
    /\ chosen # {}
    /\ Goto(c, [Rest EXCEPT !.at = "open", !.kind = "commit", !.chosen = chosen])
    /\ UNCHANGED <<catalog, tests>>

CheckCollection(c) ==
    /\ Awaits(c, "open")
    /\ IF collection THEN Then(c, "insert") ELSE Goto(c, Rest)
    /\ UNCHANGED <<catalog, tests>>

\* Mutant: outside of the transaction.
InsertTestAtOnce(c) ==
    /\ Awaits(c, "insert") /\ collection
    /\ \E e \in client[c].chosen \ client[c].written :
          /\ Goto(c, [client[c] EXCEPT !.written = @ \cup {e}])
          /\ test' = [test EXCEPT ![c] = @ \cup {e}]
    /\ UNCHANGED <<catalog, collection>>

\* One INSERT after the other; the foreign key misses the collection if it
\* is deleted, and everything is rolled back.
InsertTest(c) ==
    /\ Awaits(c, "insert")
    /\ IF ~collection THEN Goto(c, Rest)
       ELSE \E e \in client[c].chosen \ client[c].written :
              Goto(c, [client[c] EXCEPT !.written = @ \cup {e}])
    /\ UNCHANGED <<catalog, tests>>

\* From the first INSERT on the collection's row is locked against deletion.
CommitTests(c) ==
    /\ Awaits(c, "insert") /\ client[c].written = client[c].chosen
    /\ test' = [test EXCEPT ![c] = client[c].chosen]
    /\ Goto(c, Rest)
    /\ UNCHANGED <<catalog, collection>>

DeleteCollection ==
    /\ collection
    /\ \A c \in Caller : client[c].written = {}
    /\ collection' = FALSE
    /\ test' = [c \in Caller |-> {}]
    /\ UNCHANGED <<catalog, client>>

\* A query fails, or the process ends: ROLLBACK, whoever sends it.
Fail(c) ==
    /\ client[c].at \in Fragile
    /\ Goto(c, Rest)
    /\ UNCHANGED <<catalog, tests>>

SourceNext ==
    \/ \E c \in Caller :
          \/ \E doc \in Served : Respond(c, doc)
          \/ \E doc \in Doc : PasteSource(c, doc) \/ Probe(c, doc)
          \/ \E url \in Url : Redirect(c, url)
          \/ GiveUp(c)
          \/ IngestSource(c) \/ Import(c)
          \/ RefreshSource(c) \/ Compare(c) \/ CountDrift(c)
          \/ InsertVersion(c) \/ CommitVersion(c)
          \/ \E chosen \in SUBSET endpoint : CommitToCollection(c, chosen)
          \/ CheckCollection(c) \/ InsertTest(c) \/ CommitTests(c)
          \/ Fail(c)
    \/ DeleteSource \/ DeleteCollection

(***************************************************************************)
(* Properties.                                                             *)
(***************************************************************************)

SourceTypeOK ==
    /\ source # Missing => source.current \in DOMAIN version
    /\ \A i \in DOMAIN version : i < nextId /\ version[i].doc \in Doc
    /\ test \in [Caller -> SUBSET Fingerprint]
    /\ \A c \in Caller : client[c].at \in CallerAt

Meant == [d \in Doc |-> Meaning(Text[d])]
Comparable == {d \in Doc : OneServer(Text[d]) /\ PlainPaths(Text[d])}
Unbindable == {d \in Doc : Declared(Text[d]) /\ Unbound(Text[d]) # {}}

\* Of texts that can be compared: the calls that come and go are as many as
\* the fingerprints that do.  Of others they need not be: {{id}} in a URL of
\* a Postman collection is the text "placeholder" to its adapter, where an
\* OpenAPI document has a variable; it is yet another variable in an address
\* that begins with {{baseUrl}}; and a URL keeps its query, where the document
\* has none.
FormatsAgree ==
    \A old, new \in Comparable, from \in {Nowhere, Home} :
       LET was == Range(Operations[old][from])
           now == Range(Operations[new][Home])
       IN  /\ Cardinality(now \ was) = Cardinality(Meant[new] \ Meant[old])
           /\ Cardinality(was \ now) = Cardinality(Meant[old] \ Meant[new])

\* "This just keeps the version history and counts honest": a content is
\* stored once, unless refreshes overlapped, however often the site goes back
\* to it; the source counts the endpoints of its current version; and the
\* drift of each version adds up with the import.  Where the formats agree (the
\* texts of Comparable, OpenAPI documents and Postman collections) the drift
\* counts the calls that came and went, whichever of the two describes them and
\* however it calls and writes their variables in single braces or after a
\* colon.  fingerprint.js promises more ("a stable identity for an endpoint that
\* survives ... being imported via a different source format"), and that is
\* not so: FormatsAgree names the texts for which it fails.
HistoryIsHonest ==
    /\ \A i, k \in DOMAIN version :
          version[i].doc = version[k].doc => i = k \/ {i, k} \cap overlapped # {}
    /\ source # Missing =>
          LET import == CHOOSE i \in DOMAIN version : \A k \in DOMAIN version : i <= k
          IN  /\ source.count = Len(Operations[version[source.current].spec][Home])
              /\ \A i \in DOMAIN version \ {import} :
                    LET old == version[import].spec
                        new == version[i].spec
                    IN  /\ Cardinality(endpoint) + version[i].added - version[i].removed
                              = Cardinality(Range(Operations[version[i].spec][Home]))
                        /\ {old, new} \subseteq Comparable =>
                              /\ version[i].added = Cardinality(Meant[new] \ Meant[old])
                              /\ version[i].removed = Cardinality(Meant[old] \ Meant[new])

\* What one request commits to the collection appears there as a whole, or
\* not at all, whatever fails and whoever deletes the collection meanwhile; and
\* "path params are left as {{paramName}} so they bind to TestForge environment
\* variables": of an OpenAPI text that declares them, none is left unbound.
ImportIsWhole ==
    /\ [][\A c \in Caller : test'[c] # test[c] =>
            test'[c] = IF collection' THEN client[c].chosen ELSE {}]_sourceVars
    /\ [](\A i \in DOMAIN version :
            version[i].spec \notin Unbindable)
=============================================================================
