---------------------------- MODULE Administration ----------------------------
(***************************************************************************)
(* The administration of testgenie-backend (middleware/platformAdmin,      *)
(* routes/admin) over the sessions of the accounts it changes: who is      *)
(* admitted to it, and for how long what it takes away lives on in a cache *)
(* and in access tokens.                                                   *)
(*                                                                         *)
(* Time passes in ticks.  Members do not move between organizations here   *)
(* (Team has that), passwords are right and kept out of the state, and the *)
(* two statements that use up a refresh token are in Accounts.             *)
(***************************************************************************)
EXTENDS Naturals, FiniteSets

CONSTANTS
    Nobody,
    Account, Company,   \* users, organizations
    HomeOf,               \* the organization of a user, or Nobody
    Chosen,            \* users that are platform administrators at first
    Body,               \* bodies of PATCH /users/:id
    Target,             \* users whose pages administrators open
    Desk,               \* requests in flight
    CacheTTL, AccessTTL, LentTTL, EnterTTL,     \* lifetimes, in ticks
    Latency             \* ticks from a SELECT to what its answer is used for

Roles == {"owner", "member"}
Condition == {"active", "deactivated", "deleted"}
NotSent == "not sent"

ASSUME AdministrationAssumption ==
    /\ HomeOf \in [Account -> Company \cup {Nobody}] /\ Nobody \notin Company
    /\ Chosen \subseteq Account /\ Target \subseteq Account
    /\ Body \subseteq [status : Condition \cup {NotSent},
                       platform : {"granted", "revoked", NotSent},
                       role : Roles \cup {NotSent}]
    /\ {CacheTTL, AccessTTL, LentTTL, EnterTTL, Latency} \subseteq Nat

VARIABLES
    account,        \* users and their membership
    company,        \* organizations.status
    renewable,      \* users with a row of refresh_tokens
    access,         \* ticks left to the access token of a user's own session
    lent,           \* ticks left to the two that the administration mints
    remembered,     \* _adminCache
    desk,           \* requests in flight
    adminGrace,     \* history: ticks left for a scope that was lost
    enterGrace,     \* history: the same, for the tokens minted under "platform"
    entryGrace      \* history: ticks left for a user who may not sign in

administrationVars == <<account, company, renewable, access, lent, remembered,
                        desk, adminGrace, enterGrace, entryGrace>>

\* Tokens for somebody's account, and for one's own in an organization.
Minted == {"impersonation", "entry"}

Scopes == Company \cup {"platform"}
AtRest == [at |-> "idle", by |-> Nobody, row |-> Nobody, body |-> Nobody, waited |-> 0]

AdministrationInit ==
    /\ account = [u \in Account |->
                    [status |-> "active", platform |-> u \in Chosen,
                     role |-> IF HomeOf[u] = Nobody THEN "member" ELSE "owner"]]
    /\ company = [o \in Company |-> "active"]
    /\ renewable = {}
    /\ access = [u \in Account |-> 0]
    /\ lent = [u \in Account |-> [kind \in Minted |-> 0]]
    /\ remembered = [u \in Account |-> Nobody]
    /\ desk = [d \in Desk |-> AtRest]
    /\ adminGrace = [u \in Account |-> [s \in Scopes |-> 0]]
    /\ enterGrace = [u \in Account |-> 0]
    /\ entryGrace = [u \in Account |-> 0]

DeskDone(d) == desk' = [desk EXCEPT ![d] = AtRest]

\* enforceAccountAccess, of users whose address is verified.
EnforceAccountAccess(u) ==
    /\ account[u].status = "active"
    /\ account[u].platform \/ HomeOf[u] \in {o \in Company : company[o] = "active"}
                                    \cup {Nobody}

\* What requireAdminAccess makes of a row of users.
AdminScope(u, row) ==
    IF row.platform THEN "platform"
    ELSE IF row.role = "owner" /\ HomeOf[u] # Nobody THEN HomeOf[u]
    ELSE Nobody

(***************************************************************************)
(* Sessions.                                                               *)
(***************************************************************************)

SignIn(d, u) ==
    /\ desk[d].at = "idle" /\ EnforceAccountAccess(u)
    /\ desk' = [desk EXCEPT ![d] = [AtRest EXCEPT !.at = "issue", !.by = u]]
    /\ UNCHANGED <<account, company, renewable, access, lent, remembered>>

Renew(d, u) ==
    /\ desk[d].at = "idle" /\ u \in renewable
    /\ renewable' = renewable \ {u}
    /\ desk' = [desk EXCEPT ![d] = [AtRest EXCEPT !.at = "renew", !.by = u]]
    /\ UNCHANGED <<account, company, access, lent, remembered>>

\* Mutant: the gate has looked at the user when the token was taken.
RenewGateOpen(d) ==
    /\ desk[d].at = "renew"
    /\ desk' = [desk EXCEPT ![d].at = "issue"]
    /\ UNCHANGED <<account, company, renewable, access, lent, remembered>>

RenewGate(d) ==
    /\ desk[d].at = "renew"
    /\ IF EnforceAccountAccess(desk[d].by)
       THEN desk' = [desk EXCEPT ![d].at = "issue"]
       ELSE DeskDone(d)
    /\ UNCHANGED <<account, company, renewable, access, lent, remembered>>

GenerateTokens(d) ==
    /\ desk[d].at = "issue"
    /\ access' = [access EXCEPT ![desk[d].by] = AccessTTL]
    /\ renewable' = renewable \cup {desk[d].by}
    /\ DeskDone(d)
    /\ UNCHANGED <<account, company, lent, remembered>>

(***************************************************************************)
(* What an administrator does.  A handler runs on from the gate to its     *)
(* first statement: u is who asks, s the scope that the gate gave.         *)
(***************************************************************************)

PatchOrganization(d, s, o, status) ==
    /\ s = "platform" /\ status \in {"active", "suspended"}
    /\ company' = [company EXCEPT ![o] = status]
    /\ DeskDone(d)
    /\ UNCHANGED <<account, lent>>

DeleteOrganization(d, s, o) ==
    /\ s = "platform"
    /\ company' = [company EXCEPT ![o] = "deleted"]
    /\ DeskDone(d)
    /\ UNCHANGED <<account, lent>>

\* The row of the target is read, and written in a later step.
SelectUser(d, s, target, step, body) ==
    /\ s \in {"platform", HomeOf[target]}
    /\ desk' = [desk EXCEPT ![d] = [AtRest EXCEPT !.at = step, !.by = target, !.body = body]]
    /\ UNCHANGED <<account, company, lent>>

PatchUser(d, u, s, target, body) ==
    /\ target = u => body.platform # "revoked"
    /\ body.platform # NotSent => s = "platform"
    /\ SelectUser(d, s, target, "patch", body)

ResetPassword(d, s, target) ==
    /\ account[target].platform => s = "platform"
    /\ SelectUser(d, s, target, "revoke", Nobody)

DeleteUser(d, u, s, target) ==
    /\ target # u
    /\ account[target].platform => s = "platform"
    /\ SelectUser(d, s, target, "mark", Nobody)

\* A token is added: the longest of those at hand counts.
Lend(u, kind, ttl) ==
    lent' = [lent EXCEPT ![u][kind] = IF @ < ttl THEN ttl ELSE @]

\* Whatever has become of the target: its status is not looked at.
Impersonate(d, u, s, target) ==
    /\ target # u /\ s \in {"platform", HomeOf[target]}
    /\ account[target].platform => s = "platform"
    /\ Lend(target, "impersonation", LentTTL)
    /\ DeskDone(d)
    /\ UNCHANGED <<account, company>>

\* And so with one's own: a platform administrator who was deleted mints the
\* next token with this one.
EnterOrganization(d, u, s, o) ==
    /\ s = "platform" /\ company[o] # "deleted"
    /\ Lend(u, "entry", EnterTTL)
    /\ DeskDone(d)
    /\ UNCHANGED <<account, company>>

Administer(d, u, s) ==
    \/ \E o \in Company : \/ PatchOrganization(d, s, o, "active")
                          \/ PatchOrganization(d, s, o, "suspended")
                          \/ DeleteOrganization(d, s, o)
                          \/ EnterOrganization(d, u, s, o)
    \/ \E target \in Target : \/ \E body \in Body : PatchUser(d, u, s, target, body)
                               \/ ResetPassword(d, s, target)
                               \/ DeleteUser(d, u, s, target)
                               \/ Impersonate(d, u, s, target)

\* The statements after the first.
UpdateUser(d) ==
    LET body == desk[d].body u == desk[d].by IN
    /\ desk[d].at = "patch"
    /\ account' = [account EXCEPT
                     ![u].status = IF body.status = NotSent THEN @ ELSE body.status,
                     ![u].platform = CASE body.platform = "granted" -> TRUE
                                       [] body.platform = "revoked" -> FALSE
                                       [] OTHER -> @]
    /\ IF body.role = NotSent \/ HomeOf[u] = Nobody THEN DeskDone(d)
       ELSE desk' = [desk EXCEPT ![d].at = "role"]
    /\ UNCHANGED <<company, renewable, access, lent, remembered>>

UpdateMembership(d) ==
    /\ desk[d].at = "role"
    /\ account' = [account EXCEPT ![desk[d].by].role = desk[d].body.role]
    /\ DeskDone(d)
    /\ UNCHANGED <<company, renewable, access, lent, remembered>>

MarkDeleted(d) ==
    /\ desk[d].at = "mark"
    /\ account' = [account EXCEPT ![desk[d].by].status = "deleted"]
    /\ desk' = [desk EXCEPT ![d].at = "revoke"]
    /\ UNCHANGED <<company, renewable, access, lent, remembered>>

RevokeSessions(d) ==
    /\ desk[d].at = "revoke"
    /\ renewable' = renewable \ {desk[d].by}
    /\ DeskDone(d)
    /\ UNCHANGED <<account, company, access, lent, remembered>>

(***************************************************************************)
(* The gate of the administration.                                         *)
(***************************************************************************)

Refused(d, u, row) ==
    /\ AdminScope(u, row) = Nobody
    /\ DeskDone(d)
    /\ UNCHANGED <<account, company, lent>>

Admitted(d, u, row) ==
    /\ AdminScope(u, row) # Nobody
    /\ Administer(d, u, AdminScope(u, row))

\* authenticate looks at the token alone.
HoldsToken(u) == access[u] > 0 \/ \E kind \in Minted : lent[u][kind] > 0

GateHit(d, u) ==
    /\ desk[d].at = "idle" /\ HoldsToken(u) /\ remembered[u] # Nobody
    /\ Refused(d, u, remembered[u].row) \/ Admitted(d, u, remembered[u].row)
    /\ UNCHANGED <<renewable, access, remembered>>

\* A miss reads the row: it is remembered when the answer is here.
LoadAdminRow(d, u) ==
    /\ desk[d].at = "idle" /\ HoldsToken(u) /\ remembered[u] = Nobody
    /\ desk' = [desk EXCEPT ![d] = [AtRest EXCEPT !.at = "install", !.by = u,
                                       !.row = [platform |-> account[u].platform,
                                                role |-> account[u].role]]]
    /\ UNCHANGED <<account, company, renewable, access, lent, remembered>>

InstallAdminRow(d) ==
    LET u == desk[d].by row == desk[d].row IN
    /\ desk[d].at = "install"
    /\ remembered' = [remembered EXCEPT ![u] = [row |-> row, left |-> CacheTTL]]
    /\ Refused(d, u, row) \/ Admitted(d, u, row)
    /\ UNCHANGED <<renewable, access>>

\* A query of the request fails, or the process ends: what is written stays.
DeskFails(d) ==
    /\ desk[d].at # "idle"
    /\ DeskDone(d)
    /\ UNCHANGED <<account, company, renewable, access, lent, remembered>>

(***************************************************************************)
(* Time.                                                                   *)
(***************************************************************************)

Sooner(n) == IF n = 0 THEN 0 ELSE n - 1

Stands(u, s) == AdminScope(u, account[u]) = s

\* The history after a step that takes so many ticks.
Follow(ticks) ==
    /\ adminGrace' = [u \in Account |-> [s \in Scopes |->
           IF Stands(u, s) THEN CacheTTL + Latency
           ELSE IF ticks = 0 THEN adminGrace[u][s] ELSE Sooner(adminGrace[u][s])]]
    /\ enterGrace' = [u \in Account |->
           IF Stands(u, "platform") THEN EnterTTL + CacheTTL + Latency
           ELSE IF ticks = 0 THEN enterGrace[u] ELSE Sooner(enterGrace[u])]
    /\ entryGrace' = [u \in Account |->
           IF EnforceAccountAccess(u) THEN AccessTTL + Latency
           ELSE IF ticks = 0 THEN entryGrace[u] ELSE Sooner(entryGrace[u])]

Waiting(d) == desk[d].at \in {"issue", "install"}

\* Mutant: the expiry is never looked at.
EvictNever(hit) == hit

EvictExpired(hit) == IF hit = Nobody \/ hit.left <= 1 THEN Nobody
                     ELSE [hit EXCEPT !.left = @ - 1]

Tick ==
    /\ \A d \in Desk : Waiting(d) => desk[d].waited < Latency
    /\ access' = [u \in Account |-> Sooner(access[u])]
    /\ lent' = [u \in Account |-> [kind \in Minted |-> Sooner(lent[u][kind])]]
    /\ remembered' = [u \in Account |-> EvictExpired(remembered[u])]
    /\ desk' = [d \in Desk |-> IF Waiting(d) THEN [desk[d] EXCEPT !.waited = @ + 1]
                               ELSE desk[d]]
    /\ Follow(1)
    /\ UNCHANGED <<account, company, renewable>>

AdministrationNext ==
    \/ \E d \in Desk :
          /\ \/ \E u \in Account : SignIn(d, u) \/ Renew(d, u)
                                   \/ GateHit(d, u) \/ LoadAdminRow(d, u)
             \/ RenewGate(d) \/ GenerateTokens(d) \/ InstallAdminRow(d)
             \/ UpdateUser(d) \/ UpdateMembership(d)
             \/ MarkDeleted(d) \/ RevokeSessions(d) \/ DeskFails(d)
          /\ Follow(0)
    \/ Tick

AdministrationSpec == AdministrationInit /\ [][AdministrationNext]_administrationVars

-----------------------------------------------------------------------------
AdministrationTypeOK ==
    /\ account \in [Account -> [status : Condition, platform : BOOLEAN, role : Roles]]
    /\ company \in [Company -> {"active", "suspended", "deleted"}]
    /\ renewable \subseteq Account
    /\ access \in [Account -> 0 .. AccessTTL]
    /\ lent \in [Account -> [Minted -> Nat]]

AdminGrace(u, s) == IF Stands(u, s) THEN CacheTTL + Latency ELSE adminGrace[u][s]
EnterGrace(u) == IF Stands(u, "platform") THEN EnterTTL + CacheTTL + Latency
                                          ELSE enterGrace[u]
EntryGrace(u) == IF EnforceAccountAccess(u) THEN AccessTTL + Latency ELSE entryGrace[u]

\* Who is demoted is served as an administrator no longer than a cache entry
\* lives (platformAdmin.js promises it of ADMIN_CACHE_TTL_MS), and lets itself
\* into organizations no longer than that and the token it then mints; who is
\* deleted, deactivated, or of a suspended organization keeps the session that
\* it signed in for no longer than an access token (refresh promises "one
\* refresh cycle").  All of it whatever reads of the rows were under way:
\* Latency is what one of them adds.
\*
\* That is as far as it goes.  The other two tokens are minted without a look
\* at users.status.  A deleted or deactivated user who is still a platform
\* administrator enters organizations for ever, each token good for the next
\* request; what is taken away "so the user can't keep using the app" are its
\* refresh tokens.  And an administrator impersonates any user, deleted or not,
\* for LentTTL at a time.
StandingIsRecent ==
    \A u \in Account :
       /\ access[u] <= EntryGrace(u)
       /\ lent[u]["entry"] <= EnterGrace(u)
       /\ remembered[u] # Nobody =>
             LET s == AdminScope(u, remembered[u].row)
             IN s # Nobody => remembered[u].left <= AdminGrace(u, s)
=============================================================================
