------------------------------ MODULE MCServices ------------------------------
(* Components that share no state: a behaviour is one of theirs.            *)
(*                                                                          *)
(* The site under test of a chain session: a login that answers with a      *)
(* redirect, a page that wants its cookie and hands out a token, and one    *)
(* that wants the token.  The texts of an API source are an OpenAPI         *)
(* document, a Postman collection that describes one of its operations in   *)
(* other words, and twice, another that has its variable in double braces   *)
(* and a query, a command, the address of the site, and a page that no      *)
(* adapter understands.                                                     *)
EXTENDS ChainSessions, ApiSources, TwoFactor, Jira, Environments, Dashboard,
        Globals, Folders, TLC

CONSTANTS openapi, postman, template, command, address, page3, login, orders

Reply(r) ==
    LET reply(status, to, sets, fields) ==
          [status |-> status, to |-> to, sets |-> sets, headers |-> {},
           fields |-> fields, bag |-> {}]
    IN CASE r.url = "login" /\ r.method = "POST" -> reply(302, "home", {"sid"}, {})
         [] r.url = "home" /\ "sid" \in r.cookies -> reply(200, NULL, {}, {"token"})
         [] r.url = "orders" /\ "token" \in r.vars -> reply(200, NULL, {}, {})
         [] OTHER -> reply(401, NULL, {}, {})
SiteUnderTest == [r \in Request |-> Reply(r)]

Plain == [type |-> "api", url |-> "home", method |-> "GET", refs |-> {},
          cookie |-> {}, login |-> NULL, body |-> "none", extractors |-> {},
          assertions |-> {[target |-> "status", operator |-> "equals",
                           expected |-> 200, path |-> NULL]}]
Collection ==
    {[Plain EXCEPT !.url = "login", !.method = "POST", !.body = "valid",
        !.assertions = {[target |-> "status", operator |-> "less_than",
                         expected |-> 500, path |-> NULL]}],
     [Plain EXCEPT !.extractors = {[name |-> "token", source |-> "body"]}],
     [Plain EXCEPT !.url = "orders", !.refs = {"token"}]}

Users == [is |-> "text", name |-> "users"]
Colon == [is |-> "colon", name |-> "userId"]
Braced == [is |-> "env", name |-> "userId"]
Search == [is |-> "query", name |-> "page"]
Id == [name |-> "id", in |-> "path"]
Asks(method, path) ==
    [is |-> "request", method |-> method,
     url |-> [origin |-> "api", parts |-> TRUE, path |-> path]]
Word(is, name) == [is |-> is, name |-> name, origin |-> "api", path |-> <<Users>>]
Described ==
    (openapi :>
        [is |-> "object", marks |-> {"openapi"},
         servers |-> <<[origin |-> "api", base |-> <<>>]>>,
         paths |-> {[path |-> <<Users, [is |-> "brace", name |-> "id"]>>, params |-> {Id},
                     ops |-> {[method |-> "GET", params |-> {}],
                              [method |-> "DELETE", params |-> {}]}]}])
    @@ (postman :>
        [is |-> "object", marks |-> {"postman"}, root |-> 1,
         nodes |-> <<[is |-> "folder", item |-> <<2, 3>>],
                     [is |-> "folder", item |-> <<4, 5>>],
                     Asks("GET", <<Users, Colon>>), Asks("GET", <<Users, Colon>>),
                     Asks("POST", <<Users>>)>>])
    @@ (template :>
        [is |-> "object", marks |-> {"postman"}, root |-> 1,
         nodes |-> <<[is |-> "folder", item |-> <<2>>],
                     [Asks("GET", <<Users, Braced, Search>>) EXCEPT !.url.parts = FALSE]>>])
    @@ (command :>
        [is |-> "curl", tokens |-> <<Word("flag", "-H"), Word("url", "header"),
                                     Word("flag", "-d"), Word("word", "body"),
                                     Word("url", "target")>>])
    @@ (address :> [is |-> "url_probe", origin |-> "api", path |-> <<>>])
    @@ (page3 :> [is |-> "object", marks |-> {}])
Types == (login :> "api") @@ (orders :> "ui")
\* This site under test is one of those the proof is about.
ASSUME SiteIsGenerous == Generous

VARIABLE part

everything == <<vars, sourceVars, factorVars, jiraVars, environmentVars,
                dashboardVars, globalsVars, foldersVars, part>>

MCInit ==
    /\ Init /\ SourceInit /\ FactorInit /\ JiraInit /\ EnvironmentsInit
    /\ DashboardInit /\ GlobalsInit /\ FoldersInit
    /\ part \in {"chain", "refreshes", "commits", "factor", "jira",
                 "environments", "dashboard", "globals", "folders"}

Is(p) == part = p /\ UNCHANGED part

\* Refreshes and commits of an API source have only the endpoints of the import
\* in common, which no step changes: a behaviour has one or the other.
Without(kind) == \A c \in Caller : client'[c].kind # kind

MCNext ==
    \/ Is("chain") /\ Next
       /\ UNCHANGED <<sourceVars, factorVars, jiraVars, environmentVars,
                      dashboardVars, globalsVars, foldersVars>>
    \/ /\ \/ Is("refreshes") /\ SourceNext /\ Without("commit")
          \/ Is("commits") /\ SourceNext /\ Without("refresh")
       /\ UNCHANGED <<vars, factorVars, jiraVars, environmentVars,
                      dashboardVars, globalsVars, foldersVars>>
    \/ Is("factor") /\ FactorNext
       /\ UNCHANGED <<vars, sourceVars, jiraVars, environmentVars,
                      dashboardVars, globalsVars, foldersVars>>
    \/ Is("jira") /\ JiraNext
       /\ UNCHANGED <<vars, sourceVars, factorVars, environmentVars,
                      dashboardVars, globalsVars, foldersVars>>
    \/ Is("environments") /\ EnvironmentsNext
       /\ UNCHANGED <<vars, sourceVars, factorVars, jiraVars,
                      dashboardVars, globalsVars, foldersVars>>
    \/ Is("dashboard") /\ DashboardNext
       /\ UNCHANGED <<vars, sourceVars, factorVars, jiraVars,
                      environmentVars, globalsVars, foldersVars>>
    \/ Is("globals") /\ GlobalsNext
       /\ UNCHANGED <<vars, sourceVars, factorVars, jiraVars,
                      environmentVars, dashboardVars, foldersVars>>
    \/ Is("folders") /\ FoldersNext
       /\ UNCHANGED <<vars, sourceVars, factorVars, jiraVars,
                      environmentVars, dashboardVars, globalsVars>>

MCSpec == MCInit /\ [][MCNext]_everything

Interchangeable == Permutations(Client)
=============================================================================
