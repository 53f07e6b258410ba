-------------------------------- MODULE Jira --------------------------------
(***************************************************************************)
(* The Jira integration of one user of testgenie-backend: the OAuth client *)
(* of the organization, the tokens of the user, and the requests that use  *)
(* them to comment on issues and keep one link between an issue and a      *)
(* collection up to date.                                                  *)
(*                                                                         *)
(* A token is the site the user gave access to and the OAuth client it was *)
(* issued to.  Atlassian accepts a code or a refresh token from that       *)
(* client only; it may refuse it too.                                      *)
(***************************************************************************)

CONSTANTS
    Absent,
    JiraSite, OAuthClient,
    EnvClient,      \* JIRA_CLIENT_ID and its secret, or Absent
    Status,         \* of the last report of a collection; "unknown" if none
    Call         \* requests of the user in flight

JiraAt == {"idle", "consent", "resources", "upsert", "read", "exchange",
           "save", "cloud", "post", "mark"}
Token == [site : JiraSite, client : OAuthClient]

ASSUME JiraAssumption ==
    /\ Absent \notin JiraSite \cup OAuthClient \cup Token \cup Status
    /\ EnvClient \in OAuthClient \cup {Absent}

VARIABLES
    oauth,          \* jira_oauth_config of the organization, or Absent
    integration,    \* the row of jira_integrations, or Absent
    link,           \* last_run_status of the link, or Absent
    request         \* requests in flight

jiraVars == <<oauth, integration, link, request>>

NoRequest == [at |-> "idle", site |-> Absent, client |-> Absent,
              token |-> Absent, refresh |-> Absent, cloud |-> Absent,
              status |-> Absent, alone |-> TRUE]

JiraInit ==
    /\ oauth = Absent
    /\ integration = Absent
    /\ link = Absent
    /\ request = [q \in Call |-> NoRequest]

Waits(q, await) == request[q].at = await
Step(q, j) == request' = [request EXCEPT ![q] = j]
Leave(q) == Step(q, NoRequest)

\* jiraConfig: the row wins, the environment is the fallback.
JiraConfig == IF oauth # Absent THEN oauth ELSE EnvClient

\* The tokens of the user have been replaced under those who are using them.
Disturb(q) ==
    request' = [p \in Call |->
                  IF p = q THEN NoRequest
                  ELSE IF request[p].at \in {"exchange", "save", "cloud", "post"}
                  THEN [request[p] EXCEPT !.alone = FALSE]
                  ELSE request[p]]

(***************************************************************************)
(* The OAuth client of the organization.                                   *)
(***************************************************************************)

PutOAuthConfig(a) ==
    /\ oauth' = a
    /\ UNCHANGED <<integration, link, request>>

DeleteOAuthConfig ==
    /\ oauth # Absent
    /\ oauth' = Absent
    /\ UNCHANGED <<integration, link, request>>

(***************************************************************************)
(* Connecting.                                                             *)
(***************************************************************************)

\* GET /auth-url, and the user's consent for a site.
AuthUrl(q, s) ==
    /\ Waits(q, "idle") /\ JiraConfig # Absent
    /\ Step(q, [NoRequest EXCEPT !.at = "consent", !.site = s, !.client = JiraConfig])
    /\ UNCHANGED <<oauth, integration, link>>

\* GET /callback: the code is exchanged by the client configured by now.
ExchangeCode(q) ==
    /\ Waits(q, "consent")
    /\ \/ /\ JiraConfig = request[q].client
          /\ LET token == [site |-> request[q].site, client |-> JiraConfig]
             IN  \E refresh \in {token, Absent} :
                    Step(q, [request[q] EXCEPT !.at = "resources", !.token = token,
                                               !.refresh = refresh])
       \/ Leave(q)
    /\ UNCHANGED <<oauth, integration, link>>

\* The first of the accessible sites, or none if they cannot be listed.
ReadResources(q) ==
    /\ Waits(q, "resources")
    /\ \E cloud \in {request[q].site, Absent} :
          Step(q, [request[q] EXCEPT !.at = "upsert", !.cloud = cloud,
                                     !.site = Absent, !.client = Absent])
    /\ UNCHANGED <<oauth, integration, link>>

Connected(q, refresh) ==
    [site |-> request[q].cloud, access |-> request[q].token,
     refresh |-> refresh, expiring |-> FALSE, crossed |-> FALSE]

\* Mutant: a refresh token is kept until there is another.
UpsertKeepingRefresh(q) ==
    /\ Waits(q, "upsert")
    /\ integration' = Connected(q, IF integration = Absent \/ request[q].refresh # Absent
                                   THEN request[q].refresh ELSE integration.refresh)
    /\ Disturb(q)
    /\ UNCHANGED <<oauth, link>>

\* INSERT, or every column of the row is replaced.
Upsert(q) ==
    /\ Waits(q, "upsert")
    /\ integration' = Connected(q, request[q].refresh)
    /\ Disturb(q)
    /\ UNCHANGED <<oauth, link>>

Disconnect ==
    /\ integration # Absent
    /\ integration' = Absent
    /\ Disturb(Absent)
    /\ UNCHANGED <<oauth, link>>

TokenAges ==
    /\ integration # Absent /\ ~integration.expiring
    /\ integration' = [integration EXCEPT !.expiring = TRUE]
    /\ UNCHANGED <<oauth, link, request>>

(***************************************************************************)
(* Using the tokens.                                                       *)
(***************************************************************************)

\* GET /search and POST /issue/:issueKey/sync-test-cases.
UseJira(q) ==
    /\ Waits(q, "idle")
    /\ Step(q, [NoRequest EXCEPT !.at = "read"])
    /\ UNCHANGED <<oauth, integration, link>>

\* POST /links/:id/sync: the status of the report that comes first, and an
\* open one does; they are those of RunReports.
SyncLink(q, status) ==
    /\ Waits(q, "idle") /\ link # Absent
    /\ Step(q, [NoRequest EXCEPT !.at = "read", !.status = status])
    /\ UNCHANGED <<oauth, integration, link>>

\* getValidToken: without an integration the request fails.
GetValidToken(q) ==
    /\ Waits(q, "read")
    /\ Step(q, IF integration = Absent THEN NoRequest
               ELSE IF integration.refresh # Absent /\ integration.expiring
               THEN [request[q] EXCEPT !.at = "exchange", !.token = integration.access,
                                       !.refresh = integration.refresh]
               ELSE [request[q] EXCEPT !.at = "cloud", !.token = integration.access])
    /\ UNCHANGED <<oauth, integration, link>>

\* The client configured by now may be none, or there is no answer: an error.
\* It may be another, whom Atlassian refuses: then the old token has to do.
RefreshToken(q) ==
    /\ Waits(q, "exchange")
    /\ \/ Leave(q)
       \/ /\ JiraConfig = request[q].refresh.client
          /\ Step(q, [request[q] EXCEPT !.at = "save", !.token = request[q].refresh,
                                        !.refresh = Absent])
       \/ /\ JiraConfig # Absent
          /\ Step(q, [request[q] EXCEPT !.at = "cloud", !.refresh = Absent])
    /\ UNCHANGED <<oauth, integration, link>>

\* The access token of whatever row the user has by now.
SaveToken(q) ==
    /\ Waits(q, "save")
    /\ integration' = IF integration = Absent THEN Absent
                      ELSE [integration EXCEPT
                              !.access = request[q].token, !.expiring = FALSE,
                              !.crossed = @ \/ ~request[q].alone]
    /\ Step(q, [request[q] EXCEPT !.at = "cloud"])
    /\ UNCHANGED <<oauth, link>>

Marking(q) == [NoRequest EXCEPT !.at = "mark", !.status = request[q].status]

\* A second read, of the site; without one only a link is brought up to date.
ReadCloudId(q) ==
    /\ Waits(q, "cloud")
    /\ LET cloud == IF integration = Absent THEN Absent ELSE integration.site
       IN  Step(q, IF cloud # Absent
                   THEN [request[q] EXCEPT !.at = "post", !.cloud = cloud]
                   ELSE IF request[q].status # Absent
                        THEN Marking(q) ELSE NoRequest)
    /\ UNCHANGED <<oauth, integration, link>>

\* What Jira answers does not matter to anybody, unless it does not answer.
PostComment(q) ==
    /\ Waits(q, "post")
    /\ \/ request[q].status # Absent /\ Step(q, Marking(q))
       \/ Leave(q)
    /\ UNCHANGED <<oauth, integration, link>>

MarkLink(q) ==
    /\ Waits(q, "mark")
    /\ link' = IF link = Absent THEN Absent ELSE request[q].status
    /\ Leave(q)
    /\ UNCHANGED <<oauth, integration>>

CreateLink ==
    /\ link = Absent
    /\ \A q \in Call : request[q].status = Absent
    /\ link' = "unsynced"
    /\ UNCHANGED <<oauth, integration, request>>

DeleteLink ==
    /\ link # Absent
    /\ link' = Absent
    /\ UNCHANGED <<oauth, integration, request>>

JiraNext ==
    \/ \E a \in OAuthClient : PutOAuthConfig(a)
    \/ DeleteOAuthConfig
    \/ \E q \in Call :
          \/ \E s \in JiraSite : AuthUrl(q, s)
          \/ ExchangeCode(q) \/ ReadResources(q) \/ Upsert(q)
          \/ UseJira(q) \/ \E status \in Status : SyncLink(q, status)
          \/ GetValidToken(q) \/ RefreshToken(q) \/ SaveToken(q)
          \/ ReadCloudId(q) \/ PostComment(q) \/ MarkLink(q)
    \/ Disconnect \/ TokenAges
    \/ CreateLink \/ DeleteLink

JiraSpec == JiraInit /\ [][JiraNext]_jiraVars

(***************************************************************************)
(* Properties.                                                             *)
(***************************************************************************)

JiraTypeOK ==
    /\ oauth \in OAuthClient \cup {Absent}
    /\ integration = Absent \/
       integration \in [site : JiraSite \cup {Absent}, access : Token,
                        refresh : Token \cup {Absent},
                        expiring : BOOLEAN, crossed : BOOLEAN]
    /\ link \in Status \cup {"unsynced", Absent}
    /\ request \in [Call -> [at : JiraAt, site : JiraSite \cup {Absent},
                                client : OAuthClient \cup {Absent},
                                token : Token \cup {Absent},
                                refresh : Token \cup {Absent},
                                cloud : JiraSite \cup {Absent},
                                status : Status \cup {Absent}, alone : BOOLEAN]]

\* Unless the user connects again or disconnects while a token is refreshed,
\* the row holds the tokens of its own site, and a comment is sent to a site
\* with a token of that site: a refresh, with the second read after it, never
\* brings a site together with a token of the one before.
TokensFitTheSite ==
    integration # Absent /\ ~integration.crossed =>
        /\ integration.site \in {integration.access.site, Absent}
        /\ integration.refresh # Absent =>
              integration.refresh.site = integration.access.site
        /\ \A q \in Call :
              Waits(q, "post") /\ request[q].alone =>
                  request[q].cloud = request[q].token.site
=============================================================================
