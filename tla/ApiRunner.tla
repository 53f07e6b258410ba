------------------------------ MODULE ApiRunner ------------------------------
(***************************************************************************)
(* One test as testgenie-backend executes it (automation/runners): the     *)
(* request it sends, the redirects it follows, what it hands on to later   *)
(* tests and its verdict.  Values are names: a cookie or a variable is     *)
(* there or it is not, and the site under test is a function from          *)
(* requests to responses.                                                  *)
(***************************************************************************)
EXTENDS Naturals

CONSTANTS
    NULL,
    Urls,
    Names,      \* of cookies, of fields of a body, of headers
    MaxHops,    \* maxHops: requests sent along one chain of redirects
    Answers     \* the site under test: [Request -> Response]

Method == {"GET", "POST"}
Request == [url : Urls, method : Method, cookies : SUBSET Names,
            vars : SUBSET Names]    \* variables that its text refers to
Response == [status : Nat, to : Urls \cup {NULL},       \* Location
             sets : SUBSET Names,       \* Set-Cookie
             headers : SUBSET Names, fields : SUBSET Names,
             bag : SUBSET Names]        \* cookies inside the body

Assertion == [target : STRING, operator : STRING, expected : Nat,
              path : Names \cup {NULL}]
Extractor == [name : Names, source : {"body", "header", "cookie",
                                      "body-cookies"}]
Test == [type : {"api", "ui"}, url : Urls, method : Method,
         refs : SUBSET Names,           \* {{...}} in the definition
         cookie : SUBSET Names,         \* its own Cookie header
         login : Urls \cup {NULL},      \* auth.loginUrl
         body : {"none", "valid", "invalid"},
         extractors : SUBSET Extractor, assertions : SUBSET Assertion]

ASSUME ApiRunnerAssumption ==
    /\ MaxHops \in Nat \ {0} /\ NULL \notin Urls
    /\ Answers \in [Request -> Response]

Outage == {"none", "login", "request"}  \* what cannot be reached

\* The pre-flight login: its own cookies, and none if it fails.
SessionCookie(t, outage) ==
    IF t.login = NULL \/ outage = "login" THEN {}
    ELSE Answers[[url |-> t.login, method |-> "POST", cookies |-> {},
                  vars |-> {}]].sets

\* A body that cannot be built fails the request, unless none is sent.
Sendable(t) == t.method = "GET" \/ t.body # "invalid"

\* The request with its variables resolved and its cookies merged.
FirstRequest(t, session, outage) ==
    [url |-> t.url, method |-> t.method, vars |-> t.refs \cap session.vars,
     cookies |-> t.cookie \cup SessionCookie(t, outage) \cup session.jar]

\* 301 to 303 become a GET; the headers, Cookie among them, stay those of
\* the first request.
Redirected(r) ==
    LET a == Answers[r]
    IN IF a.to = NULL \/ a.status \notin 300..399 THEN r
       ELSE [r EXCEPT !.url = a.to,
                      !.method = IF a.status \in 301..303 THEN "GET" ELSE @]

\* The requests along the redirects; the last one repeats.
Trail(first) ==
    LET hop[n \in 1..MaxHops] ==
          IF n = 1 THEN first ELSE Redirected(hop[n - 1])
    IN hop

Final(first) == Answers[Trail(first)[MaxHops]]

\* Mutant: the Set-Cookie headers of the last hop only.
CollectedAtTheEnd(first) == Final(first).sets

\* aggregatedSetCookies: the cookies of every hop.
Collected(first) == UNION {Answers[Trail(first)[n]].sets : n \in 1..MaxHops}

\* A cookie extractor falls back on the cookies inside the body.
Found(e, r) ==
    \/ e.source = "body" /\ e.name \in r.fields
    \/ e.source = "header" /\ e.name \in r.headers
    \/ e.source = "cookie" /\ e.name \in r.sets \cup r.bag

BodyCookies(t, r) ==
    IF \E e \in t.extractors : e.source = "body-cookies" THEN r.bag ELSE {}

\* buildChainVars and extractedVars, both under response.prev.
Extracted(t, r) == r.fields \cup {e.name : e \in {x \in t.extractors : Found(x, r)}}

\* evaluateAssertions: an unknown target or operator fails.
Holds(a, r) ==
    \/ a.target = "status" /\ a.operator = "equals" /\ r.status = a.expected
    \/ a.target = "status" /\ a.operator = "less_than" /\ r.status < a.expected
    \/ a.target = "status" /\ a.operator = "greater_than" /\ r.status > a.expected
    \/ a.target = "body" /\ a.operator = "exists" /\ a.path \in r.fields
    \/ a.target = "header" /\ a.operator = "exists" /\ a.path \in r.headers

Verdict(b) == IF b THEN "passed" ELSE "failed"

\* A request that fails fails every assertion, and passes if there is none.
RunApiTest(t, session, outage) ==
    LET first == FirstRequest(t, session, outage)
        r == Final(first)
    IN IF outage = "request" \/ ~Sendable(t)
       THEN [verdict |-> Verdict(t.assertions = {}), jar |-> {}, vars |-> {}]
       ELSE [verdict |-> Verdict(\A a \in t.assertions : Holds(a, r)),
             jar |-> Collected(first) \cup BodyCookies(t, r),
             vars |-> Extracted(t, r)]

\* A browser test fails at its first step that throws, and hands nothing on.
RunUiTest(outage) ==
    [verdict |-> Verdict(outage = "none"), jar |-> {}, vars |-> {}]

ExecuteTest(t, session, outage) ==
    IF t.type = "ui" THEN RunUiTest(outage) ELSE RunApiTest(t, session, outage)

\* What the site hands to a client that keeps everything, as a browser does.
HandedOut(t, session) ==
    LET first == FirstRequest(t, session, "none")
    IN [jar |-> UNION {Answers[Trail(first)[n]].sets : n \in 1..MaxHops},
        vars |-> Final(first).fields]
=============================================================================
