-------------------------------- MODULE Team --------------------------------
(***************************************************************************)
(* The members and invites of one organization in testgenie-backend, and   *)
(* the requests that change them.                                          *)
(*                                                                         *)
(* A handler reads the roles of the caller and of the target, decides, and *)
(* writes after an await.  To belong to the organization takes two rows: a *)
(* role in organization_members, and organization_id in users.             *)
(***************************************************************************)
EXTENDS Naturals, FiniteSets

CONSTANTS
    NULL,
    User, Invite,   \* Invite: ids of organization_invites (a bound)
    Founder,        \* the roles that the organization starts with
    Request,        \* requests in flight at once (a bound)
    Given,          \* roles that callers give, ...
    Granted,        \* ... and that the platform's administrators do (bounds)
    Invited,        \* addresses that are invited, here and elsewhere (a bound)
    Subject,        \* users who are (de)activated and promoted (a bound)
    Fatal           \* awaits at which a request may die, or its query fail

Role == {"owner", "admin", "member", "viewer"}
Managers == {"owner", "admin"}
Assignable == {"admin", "member", "viewer"}
Place == {"none", "here", "elsewhere"}
Await == {"idle", "writeRole", "unlink", "detach", "deactivate", "reactivate",
          "insert", "refresh", "resend", "revoke",
          "join", "attach", "accepted", "grant"}

InviteRow == [email : User, role : Role, fresh : BOOLEAN,
              status : {"pending", "accepted", "revoked"}]

ASSUME TeamAssumption ==
    /\ NULL \notin Role \cup User \cup Invite \cup InviteRow
    /\ Founder \in [User -> Role \cup {NULL}]
    /\ Given \subseteq Assignable /\ Granted \subseteq Role
    /\ Invited \cup Subject \subseteq User
    /\ Fatal \subseteq Await \ {"idle"}

VARIABLES
    role,           \* organization_members.role, or NULL
    place,          \* users.organization_id: none, this one, another one
    status,         \* users.status
    invite,         \* organization_invites
    request,        \* requests in flight
    joined,         \* history: invites by which somebody has become a member
    torn,           \* history: users of whom one of the two rows may be wrong
    doubled,        \* history: addresses invited twice at the same time
    crossed         \* history: invites whose acceptance something cut across

vars == <<role, place, status, invite, request, joined, torn, doubled, crossed>>
people == <<role, place, status>>
history == <<joined, torn, doubled, crossed>>

Idle == [at |-> "idle", was |-> NULL, target |-> NULL,
         role |-> NULL, invite |-> NULL, alone |-> FALSE]

Init ==
    /\ role = Founder
    /\ place = [u \in User |-> IF Founder[u] = NULL THEN "none" ELSE "here"]
    /\ status = [u \in User |-> "active"]
    /\ invite = [i \in Invite |-> NULL]
    /\ request = [q \in Request |-> Idle]
    /\ joined = {} /\ torn = {} /\ doubled = {} /\ crossed = {}

At(q, await) == request[q].at = await
Busy(u, awaits) == \E q \in Request : /\ request[q].target = u
                                      /\ request[q].at \in awaits
OnInvite(i, awaits) == \E q \in Request : /\ request[q].invite = i
                                          /\ request[q].at \in awaits
Leaving == {"unlink", "detach"}
Joining == {"join", "attach"}
Accepting == {"join", "attach", "accepted"}

Goto(q, j) == request' = [request EXCEPT ![q] = j]
Then(q, await) == Goto(q, [request[q] EXCEPT !.at = await])

\* A role has changed: every other request has decided on what it read before.
Wrote(q, j) ==
    request' = [p \in Request |-> IF p = q THEN j
                                  ELSE [request[p] EXCEPT !.alone = FALSE]]

\* requireRole: the role counts where the user's organization_id points.
May(a) == place[a] = "here" /\ role[a] \in Managers

\* The reads of a handler are one step: the roles of the caller and the target.
\* Who the caller was is remembered where somebody may lose something by it.
Begin(q, await, was, t, r, i) ==
    /\ At(q, "idle")
    /\ Goto(q, [at |-> await, was |-> was, target |-> t, role |-> r,
                invite |-> i, alone |-> was # NULL])

(***************************************************************************)
(* Members.                                                                *)
(***************************************************************************)

\* Mutant: an administrator may act on whomever he can see.
OutranksAnybody(a, t) == role[t] # NULL

\* Owners answer to owners only.
Outranks(a, t) == /\ role[t] # NULL
                  /\ role[t] = "owner" => role[a] = "owner"

UpdateMemberRole(q, a, t, r) ==
    /\ May(a) /\ Outranks(a, t)
    /\ a = t => role[a] = "owner"
    /\ role[a] = "admin" => r # "admin"
    /\ Begin(q, "writeRole", role[a], t, r, NULL)
    /\ UNCHANGED <<people, invite, history>>

SetRole(q, await) ==
    LET t == request[q].target
    IN  /\ At(q, await)
        /\ role' = IF role[t] = NULL THEN role
                                     ELSE [role EXCEPT ![t] = request[q].role]
        /\ Wrote(q, Idle)
        /\ UNCHANGED <<place, status, invite, history>>

WriteRole(q) == SetRole(q, "writeRole")

RemoveMember(q, a, t) ==
    /\ May(a) /\ a # t
    /\ role[t] \in {"member", "viewer"} \cup (IF role[a] = "owner"
                                              THEN {"admin"} ELSE {})
    /\ Begin(q, "unlink", role[a], t, NULL, NULL)
    /\ torn' = IF Busy(t, Joining) THEN torn \cup {t} ELSE torn
    /\ UNCHANGED <<people, invite, joined, doubled, crossed>>

\* The membership first, ...
DeleteMembership(q) ==
    /\ At(q, "unlink")
    /\ role' = [role EXCEPT ![request[q].target] = NULL]
    /\ Wrote(q, [Idle EXCEPT !.at = "detach", !.target = request[q].target])
    /\ UNCHANGED <<place, status, invite, history>>

\* Mutant: the user keeps the organization in his row.
DetachUserNot(q) ==
    /\ At(q, "detach")
    /\ Goto(q, Idle)
    /\ UNCHANGED <<people, invite, history>>

\* ... then organization_id, wherever it points.
DetachUser(q) ==
    /\ At(q, "detach")
    /\ place' = [place EXCEPT ![request[q].target] = "none"]
    /\ Goto(q, Idle)
    /\ UNCHANGED <<role, status, invite, history>>

DeactivateMember(q, a, t) ==
    /\ May(a) /\ a # t
    /\ role[t] \notin {NULL, "owner"} /\ t \in Subject
    /\ Begin(q, "deactivate", role[a], t, NULL, NULL)
    /\ UNCHANGED <<people, invite, history>>

\* The caller may be deactivated himself, and may name himself.
ReactivateMember(q, a, t) ==
    /\ May(a) /\ t \in Subject
    /\ Begin(q, "reactivate", NULL, t, NULL, NULL)
    /\ UNCHANGED <<people, invite, history>>

WriteStatus(q) ==
    /\ request[q].at \in {"deactivate", "reactivate"}
    /\ status' = [status EXCEPT ![request[q].target] =
                    IF At(q, "deactivate") THEN "deactivated" ELSE "active"]
    /\ Goto(q, Idle)
    /\ UNCHANGED <<role, place, invite, history>>

\* PATCH /api/admin/users/:id by the platform: any role, to anybody who has
\* one where his organization_id points.
GrantRole(q, t, r) ==
    /\ place[t] = "here" /\ t \in Subject
    /\ Begin(q, "grant", "platform", t, r, NULL)
    /\ UNCHANGED <<people, invite, history>>

WriteGrant(q) == SetRole(q, "grant")

(***************************************************************************)
(* Invites.  Two links to the same invite are told apart by nothing that   *)
(* matters here; an old link is one that nobody follows.                   *)
(***************************************************************************)

Pending(e) == {i \in Invite : /\ invite[i] # NULL
                              /\ invite[i].email = e
                              /\ invite[i].status = "pending"}
Free == {i \in Invite : invite[i] = NULL /\ ~OnInvite(i, {"insert"})}

Inviting(e) == Busy(e, {"insert", "refresh"})

\* A pending invite for the address is refreshed, else there is a new one.
\* (Bulk invites are one createInvite after the other.)
CreateInvite(q, a, e, r) ==
    /\ May(a)
    /\ r = "admin" => role[a] = "owner"
    /\ role[e] = NULL /\ e \in Invited
    /\ IF Pending(e) = {}
       THEN \E i \in Free : Begin(q, "insert", NULL, e, r, i)
       ELSE \E i \in Pending(e) : Begin(q, "refresh", NULL, e, r, i)
    /\ doubled' = IF Inviting(e) THEN doubled \cup {e} ELSE doubled
    /\ UNCHANGED <<people, invite, joined, torn, crossed>>

InsertInvite(q) ==
    LET j == request[q]
    IN  /\ At(q, "insert")
        /\ invite' = [invite EXCEPT ![j.invite] =
                        [email |-> j.target, role |-> j.role, fresh |-> TRUE,
                         status |-> "pending"]]
        /\ Goto(q, Idle)
        /\ UNCHANGED <<people, history>>

\* The token, the expiry and the role are replaced; the status is as it is.
RefreshInvite(q) ==
    LET j == request[q]
    IN  /\ At(q, "refresh")
        /\ invite' = [invite EXCEPT ![j.invite].role = j.role,
                                    ![j.invite].fresh = TRUE]
        /\ Goto(q, Idle)
        /\ UNCHANGED <<people, history>>

ResendInvite(q, a, i) ==
    /\ May(a)
    /\ invite[i] # NULL /\ invite[i].status = "pending"
    /\ Begin(q, "resend", NULL, NULL, NULL, i)
    /\ UNCHANGED <<people, invite, history>>

RenewInvite(q) ==
    /\ At(q, "resend")
    /\ invite' = [invite EXCEPT ![request[q].invite].fresh = TRUE]
    /\ Goto(q, Idle)
    /\ UNCHANGED <<people, history>>

RevokeInvite(q, a, i) ==
    /\ May(a)
    /\ invite[i] # NULL /\ invite[i].status = "pending"
    /\ Begin(q, "revoke", NULL, NULL, NULL, i)
    /\ crossed' = IF OnInvite(i, Accepting) THEN crossed \cup {i} ELSE crossed
    /\ UNCHANGED <<people, invite, joined, torn, doubled>>

\* Whatever has become of the invite since it was read as pending.
WriteRevoked(q) ==
    /\ At(q, "revoke")
    /\ invite' = [invite EXCEPT ![request[q].invite].status = "revoked"]
    /\ Goto(q, Idle)
    /\ UNCHANGED <<people, history>>

\* Expiry matters to an invite that is pending.
ExpireInvite(i) ==
    /\ invite[i] # NULL /\ invite[i].fresh /\ invite[i].status = "pending"
    /\ invite' = [invite EXCEPT ![i].fresh = FALSE]
    /\ UNCHANGED <<people, request, history>>

(***************************************************************************)
(* Acceptance.                                                             *)
(***************************************************************************)

AcceptInvite(q, u, i) ==
    /\ invite[i] # NULL /\ invite[i].email = u
    /\ invite[i].status = "pending" /\ invite[i].fresh
    /\ role[u] = NULL
    /\ Begin(q, "join", NULL, u, invite[i].role, i)
    /\ torn' = IF Busy(u, Leaving) THEN torn \cup {u} ELSE torn
    /\ crossed' = IF OnInvite(i, {"revoke"}) THEN crossed \cup {i} ELSE crossed
    /\ UNCHANGED <<people, invite, joined, doubled>>

\* The unique index refuses whoever has become a member meanwhile.
InsertMembership(q) ==
    LET j == request[q]
    IN  /\ At(q, "join")
        /\ IF role[j.target] # NULL
           THEN Goto(q, Idle) /\ UNCHANGED <<role, joined>>
           ELSE /\ role' = [role EXCEPT ![j.target] = j.role]
                /\ joined' = joined \cup {j.invite}
                /\ Wrote(q, [j EXCEPT !.at = "attach"])
        /\ UNCHANGED <<place, status, invite, torn, doubled, crossed>>

AttachUser(q) ==
    /\ At(q, "attach")
    /\ place' = [place EXCEPT ![request[q].target] = "here"]
    /\ Then(q, "accepted")
    /\ UNCHANGED <<role, status, invite, history>>

\* Mutant: the invite stays open.
MarkAcceptedNot(q) ==
    /\ At(q, "accepted")
    /\ Goto(q, Idle)
    /\ UNCHANGED <<people, invite, history>>

MarkAccepted(q) ==
    /\ At(q, "accepted")
    /\ invite' = [invite EXCEPT ![request[q].invite].status = "accepted"]
    /\ Goto(q, Idle)
    /\ UNCHANGED <<people, history>>

\* A user accepts the invite of another organization: he is not asked to
\* leave this one, and keeps his role in it.
JoinElsewhere(u) ==
    /\ place[u] # "elsewhere" /\ u \in Invited
    /\ place' = [place EXCEPT ![u] = "elsewhere"]
    /\ torn' = torn \cup {u}
    /\ UNCHANGED <<role, status, invite, request, joined, doubled, crossed>>

\* A death, or a query that fails: the rest of the request never happens.
Fail(q) ==
    LET j == request[q]
    IN  /\ j.at \in Fatal
        /\ Goto(q, Idle)
        /\ torn' = IF j.at \in {"detach", "attach"} THEN torn \cup {j.target}
                                                    ELSE torn
        /\ crossed' = IF j.at \in {"attach", "accepted"}
                      THEN crossed \cup {j.invite} ELSE crossed
        /\ UNCHANGED <<people, invite, joined, doubled>>

Manage(q) ==
    \/ \E a, t \in User :
          \/ \E r \in Given : UpdateMemberRole(q, a, t, r) \/ CreateInvite(q, a, t, r)
          \/ RemoveMember(q, a, t)
          \/ DeactivateMember(q, a, t)
          \/ ReactivateMember(q, a, t)
    \/ \E a \in User, i \in Invite : ResendInvite(q, a, i) \/ RevokeInvite(q, a, i)
    \/ \E u \in User, i \in Invite : AcceptInvite(q, u, i)
    \/ \E t \in User, r \in Granted : GrantRole(q, t, r)

Continue(q) ==
    \/ WriteRole(q) \/ WriteGrant(q)
    \/ DeleteMembership(q) \/ DetachUser(q)
    \/ WriteStatus(q)
    \/ InsertInvite(q) \/ RefreshInvite(q) \/ RenewInvite(q) \/ WriteRevoked(q)
    \/ InsertMembership(q) \/ AttachUser(q) \/ MarkAccepted(q)

Next ==
    \/ \E q \in Request : Manage(q) \/ Continue(q) \/ Fail(q)
    \/ \E i \in Invite : ExpireInvite(i)
    \/ \E u \in User : JoinElsewhere(u)

Spec == Init /\ [][Next]_vars

(***************************************************************************)
(* Properties.                                                             *)
(***************************************************************************)

RequestRow == [at : Await, was : Role \cup {"platform", NULL},
               target : User \cup {NULL}, role : Role \cup {NULL},
               invite : Invite \cup {NULL}, alone : BOOLEAN]

TypeOK ==
    /\ role \in [User -> Role \cup {NULL}]
    /\ place \in [User -> Place]
    /\ status \in [User -> {"active", "deactivated"}]
    /\ invite \in [Invite -> InviteRow \cup {NULL}]
    /\ request \in [Request -> RequestRow]
    /\ joined \subseteq Invite /\ crossed \subseteq Invite
    /\ torn \subseteq User /\ doubled \subseteq User

\* An owner loses his role, or his account, only to an owner, to the platform,
\* or to a request that some other change of roles has overtaken.
OwnersStay ==
    [][\A u \in User :
          /\ role[u] = "owner"
          /\ \/ role'[u] # "owner"
             \/ status[u] = "active" /\ status'[u] = "deactivated"
          => \E q \in Request :
                /\ request[q].target = u /\ request'[q] # request[q]
                /\ \/ request[q].was \in {"owner", "platform"}
                   \/ ~request[q].alone]_vars

\* Whoever has a role has his organization_id here, and the other way round,
\* however requests overlap: but for those who were accepting and being
\* removed at once, joined elsewhere, or whose request died half way.
MembershipWhole ==
    \A u \in User :
        u \notin torn /\ ~Busy(u, {"detach", "attach"})
            => (role[u] # NULL <=> place[u] = "here")

\* An address has one pending invite at most, unless it was invited by two
\* requests at the same time.  An invite says "accepted" exactly if somebody
\* has become a member by it: refreshing, resending, expiry and a second
\* acceptance change nothing about that.  Only a revocation, or a death, that
\* cuts across can.
InvitesTellTruth ==
    /\ \A e \in User \ doubled : Cardinality(Pending(e)) <= 1
    /\ \A i \in Invite \ crossed :
          invite[i] # NULL /\ ~OnInvite(i, Accepting)
              => (i \in joined <=> invite[i].status = "accepted")
=============================================================================
