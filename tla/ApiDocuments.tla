---------------------------- MODULE ApiDocuments ----------------------------
(***************************************************************************)
(* What testgenie-backend reads in a text that describes an API: an        *)
(* OpenAPI or Swagger document, a Postman collection, a curl command or    *)
(* the bare address of a site.  Each adapter makes a sequence of           *)
(* operations of it, and an operation is known by its fingerprint.         *)
(*                                                                         *)
(* A path is a sequence of segments [is, name]: "text", a variable in      *)
(* braces or after a colon, "env", one in double braces that the           *)
(* environment of a run binds, and at the end perhaps a "query".  An       *)
(* origin is the protocol and host of an address; "env" stands for one     *)
(* whose host is in double braces.                                         *)
(***************************************************************************)
EXTENDS SequencesExt

CONSTANT Nowhere    \* no origin, no method, no flag

Var(segment) == segment.is \in {"brace", "colon"}

(***************************************************************************)
(* detector.js: an address or a command first, then the marks of the JSON  *)
(* or YAML object, in this order.                                          *)
(***************************************************************************)

Detect(text) ==
    IF text.is # "object" THEN text.is
    ELSE IF "openapi" \in text.marks THEN "openapi3"
    ELSE IF "swagger" \in text.marks THEN "openapi2"
    ELSE IF "postman" \in text.marks THEN "postman21"
    ELSE "unknown"


(***************************************************************************)
(* The adapters: an operation is [method, path, sample], where the path    *)
(* identifies it and the sample is the address of the test made of it.     *)
(***************************************************************************)

Operation(method, path, sample) == [method |-> method, path |-> path, sample |-> sample]

\* OpenAPI 3 lists its servers, Swagger 2 its schemes for one host.
Servers(doc) ==
    IF doc.servers # <<>> THEN doc.servers
    ELSE [i \in DOMAIN doc.origins |-> [origin |-> doc.origins[i], base |-> doc.base]]

\* Those of the path count for each of its operations.
PathParams(op, item) == {p.name : p \in {q \in item.params \cup op.params : q.in = "path"}}

\* The server is replaced by {{baseUrl}}, a declared variable by {{its name}}.
BuildSampleUrl(path, params) ==
    [i \in DOMAIN path |->
        IF path[i].is = "brace" /\ path[i].name \in params
        THEN [path[i] EXCEPT !.is = "env"] ELSE path[i]]

BuildSample(op, item) ==
    Operation(op.method, item.path, BuildSampleUrl(item.path, PathParams(op, item)))

OpenApi(doc) ==
    [server |-> IF Servers(doc) = <<>> THEN Nowhere ELSE Servers(doc)[1],
     operations |->
        SetToSeq(UNION {{BuildSample(op, item) : op \in item.ops} : item \in doc.paths})]

\* The requests of a collection, folders within folders, in their order.
WalkItems(doc) ==
    LET walk[n \in DOMAIN doc.nodes] ==
          IF doc.nodes[n].is = "request" THEN <<doc.nodes[n]>>
          ELSE FlattenSeq([i \in DOMAIN doc.nodes[n].item |-> walk[doc.nodes[n].item[i]]])
    IN walk[doc.root]

\* In an address given in parts, :name is written {name}, and the query is
\* no part of the path.
UrlFromPostman(url) ==
    IF url.parts
    THEN [i \in DOMAIN url.path |->
            IF url.path[i].is = "colon" THEN [url.path[i] EXCEPT !.is = "brace"]
            ELSE url.path[i]]
    ELSE url.path

\* "Temporarily", so that the address is a URL, but it is never put back: a
\* variable in double braces is the text "placeholder" from here on.
Placeholder == [is |-> "text", name |-> "placeholder"]
Fake(path) == [i \in DOMAIN path |-> IF path[i].is = "env" THEN Placeholder ELSE path[i]]
FakeOrigin(origin) == IF origin = "env" THEN "placeholder" ELSE origin

\* An address that begins with a variable is no URL even so: all of it, as it
\* is written, is the path.
BaseUrl == [is |-> "env", name |-> "baseUrl"]
PostmanPath(url) ==
    IF url.origin = Nowhere THEN <<BaseUrl>> \o UrlFromPostman(url)
    ELSE Fake(UrlFromPostman(url))

Postman(doc) ==
    LET requests == WalkItems(doc)
        located == {i \in DOMAIN requests : requests[i].url.origin # Nowhere}
    IN  [server |-> IF located = {} THEN Nowhere
                    ELSE [origin |-> FakeOrigin(requests[Min(located)].url.origin),
                          base |-> <<>>],
         operations |->
            [i \in DOMAIN requests |->
                Operation(requests[i].method, PostmanPath(requests[i].url),
                          UrlFromPostman(requests[i].url))]]

\* The URL parser escapes braces: what is in them is no variable then.
Pathname(path) ==
    [i \in DOMAIN path |->
        CASE path[i].is = "brace" -> [path[i] EXCEPT !.is = "escaped"]
          [] path[i].is = "env" -> [path[i] EXCEPT !.is = "escaped twice"]
          [] OTHER -> path[i]]

\* A flag may take the next token, whatever it is; the first address that
\* none took is the target.
ReadToken(state, token) ==
    CASE state.takes # Nowhere ->
            [state EXCEPT !.takes = Nowhere,
                          !.method = IF state.takes = "-X" THEN token.name ELSE @]
      [] state.takes = Nowhere /\ token.is = "flag" ->
            CASE token.name \in {"-X", "-H", "-u", "-o", "-A", "-x"} ->
                    [state EXCEPT !.takes = token.name]
              [] token.name \in {"-d", "--data-urlencode"} ->
                    [state EXCEPT !.takes = token.name,
                                  !.method = IF @ = Nowhere THEN "POST" ELSE @]
              [] token.name = "-G" -> [state EXCEPT !.method = "GET"]
              [] token.name = "-I" -> [state EXCEPT !.method = "HEAD"]
              [] OTHER -> state
      [] OTHER -> IF token.is = "url" /\ state.url = Nowhere
                  THEN [state EXCEPT !.url = token] ELSE state

ReadCommand(doc) ==
    FoldLeft(ReadToken, [takes |-> Nowhere, method |-> Nowhere, url |-> Nowhere],
             doc.tokens)

\* No mark of a format, or a command without an address.
Readable(text) ==
    /\ Detect(text) # "unknown"
    /\ Detect(text) = "curl" => ReadCommand(text).url # Nowhere

Curl(doc) ==
    LET said == ReadCommand(doc)
    IN  [server |-> [origin |-> said.url.origin, base |-> <<>>],
         operations |->
            <<Operation(IF said.method = Nowhere THEN "GET" ELSE said.method,
                        Pathname(said.url.path), said.url.path)>>]

\* None of the usual places of a site has a document: its address alone.
SiteItself(doc) ==
    [server |-> [origin |-> doc.origin, base |-> <<>>],
     operations |-> <<Operation("GET", Pathname(doc.path), doc.path)>>]

Parse(text) ==
    CASE Detect(text) \in {"openapi3", "openapi2"} -> OpenApi(text)
      [] Detect(text) = "postman21" -> Postman(text)
      [] Detect(text) = "curl" -> Curl(text)
      [] Detect(text) = "url_probe" -> SiteItself(text)
      [] OTHER -> [server |-> Nowhere, operations |-> <<>>]

\* What the probes of an address take for its document.
Probed(text) == Detect(text) \in {"openapi3", "openapi2"}

(***************************************************************************)
(* fingerprint.js.  Every operation of a text is taken to be on its first  *)
(* server, or else on the one the text came from.                          *)
(***************************************************************************)

\* Mutant: a variable keeps its name.
KeepNames(path) == path

\* Variables are numbered by their place, however they are called and written,
\* except that the second of two closing braces stays behind.
CanonicalizePath(path) ==
    [i \in DOMAIN path |->
        CASE Var(path[i]) -> [is |-> "var", name |-> ""]
          [] path[i].is = "env" -> [is |-> "var", name |-> "}"]
          [] OTHER -> path[i]]

EndpointFingerprint(op, server) ==
    [method |-> op.method, path |-> CanonicalizePath(op.path), server |-> server]

Fingerprints(text, default) ==
    LET read == Parse(text)
        server == IF read.server = Nowhere THEN default ELSE read.server
    IN [i \in DOMAIN read.operations |-> EndpointFingerprint(read.operations[i], server)]

(***************************************************************************)
(* What a JSON or YAML object may be: finite, and a collection of Postman  *)
(* a tree, its nodes numbered from the root down.  No segment is named by  *)
(* the word that stands for a variable.                                    *)
(***************************************************************************)

Segment == [is : {"text", "brace", "colon", "env", "query"}, name : STRING]
Server == [origin : STRING, base : Seq(Segment)]

IsPath(path) ==
    /\ path \in Seq(Segment)
    /\ \A k \in DOMAIN path : path[k].is = "text" => path[k].name # "anything"
    /\ \A k \in DOMAIN path : path[k].is = "query" => k = Len(path)

IsDescription(doc) ==
    /\ Servers(doc) \in Seq(Server)
    /\ IsFiniteSet(doc.paths)
    /\ \A item \in doc.paths : IsFiniteSet(item.ops) /\ IsPath(item.path)

IsCollection(doc) ==
    /\ doc.nodes \in Seq(Range(doc.nodes))
    /\ doc.root = 1 /\ doc.root \in DOMAIN doc.nodes
    /\ \A n \in DOMAIN doc.nodes :
          IF doc.nodes[n].is = "request"
          THEN IsPath(doc.nodes[n].url.path) /\ doc.nodes[n].url.origin \in STRING \cup {Nowhere}
          ELSE doc.nodes[n].item \in Seq((n + 1)..Len(doc.nodes))
    /\ \A n \in DOMAIN doc.nodes \ {doc.root} :
          \E m \in DOMAIN doc.nodes : /\ doc.nodes[m].is # "request"
                                     /\ n \in Range(doc.nodes[m].item)

IsObject(text) ==
    /\ Probed(text) => IsDescription(text)
    /\ Detect(text) = "postman21" => IsCollection(text)

(***************************************************************************)
(* What a text means, whatever its format: the calls one makes who follows *)
(* it.                                                                     *)
(***************************************************************************)

Calling(method, origin, path) ==
    [method |-> method, origin |-> origin,
     path |-> [i \in DOMAIN path |-> IF Var(path[i]) \/ path[i].is = "env" THEN "anything"
                                    ELSE path[i].name]]

Meaning(text) ==
    CASE Detect(text) \in {"openapi3", "openapi2"} ->
            LET server == Servers(text)[1]
            IN  UNION {{Calling(op.method, server.origin, server.base \o item.path) :
                          op \in item.ops} : item \in text.paths}
      [] Detect(text) = "postman21" ->
            {Calling(text.nodes[n].method, text.nodes[n].url.origin, text.nodes[n].url.path) :
               n \in {k \in DOMAIN text.nodes : text.nodes[k].is = "request"}}
      [] OTHER -> {}

\* Of an OpenAPI text, the operations a run would call with a variable unbound,
\* and whether the text declares all of its variables.
Unbound(text) ==
    {i \in DOMAIN Parse(text).operations :
        \E k \in DOMAIN Parse(text).operations[i].sample :
           Parse(text).operations[i].sample[k].is = "brace"}

Declared(text) ==
    /\ Probed(text)
    /\ \A item \in text.paths : \A op \in item.ops : \A k \in DOMAIN item.path :
          item.path[k].is = "brace" =>
             [name |-> item.path[k].name, in |-> "path"] \in item.params \cup op.params

\* Where the formats agree: on texts whose calls all go to the root of one
\* server, at a path without a query and without a variable in double braces.
PlainPath(path) == \A k \in DOMAIN path : path[k].is \notin {"env", "query"}

PlainPaths(text) ==
    CASE Detect(text) \in {"openapi3", "openapi2"} ->
            \A item \in text.paths : PlainPath(item.path)
      [] Detect(text) = "postman21" ->
            \A n \in DOMAIN text.nodes :
               text.nodes[n].is = "request" => PlainPath(text.nodes[n].url.path)
      [] OTHER -> FALSE

OneServer(text) ==
    CASE Detect(text) \in {"openapi3", "openapi2"} ->
            Len(Servers(text)) > 0 /\ Servers(text)[1].base = <<>>
      [] Detect(text) = "postman21" ->
            Cardinality({c.origin : c \in Meaning(text)} \cup {Nowhere}) = 2
            /\ \A c \in Meaning(text) : c.origin \notin {Nowhere, "env"}
      [] OTHER -> FALSE
=============================================================================
