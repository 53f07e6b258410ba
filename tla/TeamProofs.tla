----------------------------- MODULE TeamProofs -----------------------------
(***************************************************************************)
(* What holds of the team of an organization for every number of users,    *)
(* invites and requests, whatever they read before they write and wherever *)
(* they die: memberships are whole, invites tell the truth, and an owner   *)
(* loses the role to an owner.                                             *)
(***************************************************************************)
EXTENDS Team, Administration, FiniteSetTheorems, TLAPS

Targeted == Await \ {"idle", "resend", "revoke"}
Giving == {"writeRole", "grant", "insert", "refresh", "join"}
Knowing == {"refresh", "resend", "revoke", "join", "attach", "accepted"}
Taking == {"writeRole", "unlink", "deactivate"}

\* What a request has in hand, by the await it is at.
WellFormed(r) ==
    /\ r.at \in Targeted => r.target \in User
    /\ r.at \in Giving => r.role \in Role
    /\ r.at = "insert" => r.invite \in Invite /\ invite[r.invite] = NULL
    /\ r.at \in Knowing => r.invite \in Invite /\ invite[r.invite] # NULL
    /\ r.at \in {"attach", "accepted"} => r.invite \in joined

\* A request that nobody has overtaken still knows that its target is no owner.
Standing(r) ==
    /\ r.at \in Taking /\ r.alone /\ r.was \notin {"owner", "platform"}
          => role[r.target] # "owner"
    /\ r.at = "grant" => r.was = "platform"

\* Nobody is removed and accepted at once; in between the role says which.
Membership(u) ==
    /\ ~(Busy(u, Leaving) /\ Busy(u, Joining))
    /\ Busy(u, {"detach"}) => role[u] = NULL
    /\ Busy(u, {"attach"}) => role[u] # NULL
    /\ ~Busy(u, {"detach", "attach"}) => (role[u] # NULL <=> place[u] = "here")

\* One request at a time invites an address, and inserts only if none is pending.
Invitation(e) ==
    /\ \A p, q \in Request :
          /\ request[p].target = e /\ request[p].at \in {"insert", "refresh"}
          /\ request[q].target = e /\ request[q].at \in {"insert", "refresh"}
          => p = q
    /\ Busy(e, {"insert"}) => Pending(e) = {}
    /\ \A i, k \in Pending(e) : i = k

\* Nobody revokes an invite while it is accepted, nor one that was.
Acceptance(i) ==
    /\ ~(OnInvite(i, {"revoke"}) /\ OnInvite(i, Accepting))
    /\ OnInvite(i, {"revoke"}) => i \notin joined
    /\ invite[i] # NULL /\ ~OnInvite(i, {"attach", "accepted"})
          => (i \in joined <=> invite[i].status = "accepted")

\* Two requests never insert under one id.
Distinct ==
    \A p, q \in Request :
        At(p, "insert") /\ At(q, "insert") /\ request[p].invite = request[q].invite
            => p = q

\* The strengthening of MembershipWhole and InvitesTellTruth that is inductive,
\* with what OwnersStay needs.
TeamInv ==
    /\ TypeOK
    /\ \A q \in Request : WellFormed(request[q]) /\ Standing(request[q])
    /\ Distinct
    /\ \A i \in joined : invite[i] # NULL
    /\ \A u \in User \ torn : Membership(u)
    /\ \A e \in User \ doubled : Invitation(e)
    /\ \A i \in Invite \ crossed : Acceptance(i)

LEMMA InitTeamInv == Init => TeamInv
<1> SUFFICES ASSUME Init PROVE TeamInv
  OBVIOUS
<1>1. \A q \in Request : request[q] = Idle
  BY DEF Init
<1>2. Idle \in RequestRow /\ Idle.at = "idle"
  BY DEF Idle, RequestRow, Await
<1>3. TypeOK
  BY <1>2, TeamAssumption DEF Init, TypeOK, Place
<1>4. \A q \in Request : WellFormed(request[q]) /\ Standing(request[q])
  BY <1>1, <1>2 DEF WellFormed, Standing, Targeted, Giving, Knowing, Taking
<1>5. \A u \in User : Membership(u)
  BY <1>1, <1>2 DEF Membership, Busy, Leaving, Joining, Init
<1>6. \A e \in User : Invitation(e)
  BY <1>1, <1>2 DEF Invitation, Busy, Pending, Init
<1>7. \A i \in Invite : Acceptance(i)
  BY <1>1, <1>2 DEF Acceptance, OnInvite, Accepting, Init
<1>8. Distinct
  BY <1>1, <1>2 DEF Distinct, At
<1>9. QED
  BY <1>3, <1>4, <1>5, <1>6, <1>7, <1>8 DEF TeamInv, Init

(***************************************************************************)
(* One request goes on, the others stay where they are.                    *)
(***************************************************************************)

Advances(q, j) ==
    /\ request' \in [Request -> RequestRow]
    /\ request'[q] = j
    /\ \A p \in Request \ {q} :
          /\ request'[p].at = request[p].at
          /\ request'[p].was = request[p].was
          /\ request'[p].target = request[p].target
          /\ request'[p].role = request[p].role
          /\ request'[p].invite = request[p].invite
          /\ request'[p].alone => request[p].alone

LEMMA GotoAdvances ==
    ASSUME TypeOK, NEW q \in Request, NEW j \in RequestRow, Goto(q, j)
    PROVE  Advances(q, j)
BY DEF TypeOK, Goto, Advances

LEMMA WroteAdvances ==
    ASSUME TypeOK, NEW q \in Request, NEW j \in RequestRow, Wrote(q, j)
    PROVE  Advances(q, j) /\ \A p \in Request \ {q} : ~request'[p].alone
<1> DEFINE Overtaken(p) == [request[p] EXCEPT !.alone = FALSE]
<1>1. \A p \in Request : request[p] \in RequestRow
  BY DEF TypeOK
<1>2. \A p \in Request :
        /\ Overtaken(p) \in RequestRow
        /\ Overtaken(p).at = request[p].at /\ Overtaken(p).was = request[p].was
        /\ Overtaken(p).target = request[p].target /\ Overtaken(p).role = request[p].role
        /\ Overtaken(p).invite = request[p].invite /\ Overtaken(p).alone = FALSE
  BY <1>1 DEF RequestRow
<1>3. request' = [p \in Request |-> IF p = q THEN j ELSE Overtaken(p)]
  BY DEF Wrote
<1> HIDE DEF Overtaken
<1>4. QED
  BY <1>2, <1>3 DEF Advances

LEMMA IdleIsARequest == Idle \in RequestRow /\ Idle.at = "idle"
BY DEF Idle, RequestRow, Await

(***************************************************************************)
(* What each part of the invariant asks of a step.                         *)
(***************************************************************************)

\* Invites do not go, and the one that is inserted was nobody else's.
LEMMA FormsStay ==
    ASSUME TeamInv, NEW q \in Request, NEW j \in RequestRow, Advances(q, j),
           \A i \in Invite : invite[i] # NULL => invite'[i] # NULL,
           \A i \in Invite : invite[i] = NULL =>
              invite'[i] = NULL \/ (At(q, "insert") /\ i = request[q].invite),
           joined \subseteq joined', WellFormed(j)'
    PROVE  \A p \in Request : WellFormed(request[p])'
<1> TAKE p \in Request
<1>1. CASE p = q
  BY <1>1 DEF Advances
<1>2. CASE p # q
  <2>1. WellFormed(request[p])
    BY DEF TeamInv
  <2>2. /\ request'[p].at = request[p].at
        /\ request'[p].target = request[p].target
        /\ request'[p].role = request[p].role
        /\ request'[p].invite = request[p].invite
    BY <1>2 DEF Advances
  <2>3. request[p].at = "insert" => invite'[request[p].invite] = NULL
    BY <1>2, <2>1 DEF TeamInv, Distinct, At, WellFormed
  <2>4. QED
    BY <2>1, <2>2, <2>3 DEF WellFormed
<1>3. QED
  BY <1>1, <1>2

LEMMA DistinctStays ==
    ASSUME TeamInv, NEW q \in Request, NEW j \in RequestRow, Advances(q, j),
           j.at # "insert"
    PROVE  Distinct'
BY DEF TeamInv, Distinct, At, Advances

LEMMA StandingStays ==
    ASSUME TeamInv, NEW q \in Request, NEW j \in RequestRow, Advances(q, j),
           role' = role \/ \A p \in Request \ {q} : ~request'[p].alone,
           Standing(j)'
    PROVE  \A p \in Request : Standing(request[p])'
BY DEF TeamInv, Standing, Advances

LEMMA MembershipStays ==
    ASSUME TeamInv, NEW q \in Request, NEW j \in RequestRow, Advances(q, j),
           j.at \notin Leaving \cup Joining,
           request[q].at \notin {"detach", "attach"},
           UNCHANGED <<role, place>>, torn \subseteq torn'
    PROVE  \A u \in User \ torn' : Membership(u)'
BY DEF TeamInv, Membership, Busy, Leaving, Joining, Advances

LEMMA InvitationStays ==
    ASSUME TeamInv, NEW q \in Request, NEW j \in RequestRow, Advances(q, j),
           j.at \notin {"insert", "refresh"},
           \A e \in User : Pending(e)' \subseteq Pending(e), doubled \subseteq doubled'
    PROVE  \A e \in User \ doubled' : Invitation(e)'
BY DEF TeamInv, Invitation, Busy, Advances

\* Statuses as they were.
SameStatuses ==
    \A i \in Invite : /\ invite'[i] = NULL <=> invite[i] = NULL
                      /\ invite[i] # NULL => invite'[i].email = invite[i].email
                                             /\ invite'[i].status = invite[i].status

LEMMA StatusesStay ==
    ASSUME SameStatuses
    PROVE  \A e \in User : Pending(e)' = Pending(e)
BY DEF SameStatuses, Pending

LEMMA AcceptanceStays ==
    ASSUME TeamInv, NEW q \in Request, NEW j \in RequestRow, Advances(q, j),
           j.at \notin {"revoke"} \cup Accepting,
           request[q].at \notin {"attach", "accepted"},
           SameStatuses, joined' = joined, crossed \subseteq crossed'
    PROVE  \A i \in Invite \ crossed' : Acceptance(i)'
BY DEF TeamInv, Acceptance, OnInvite, Accepting, Advances, SameStatuses

(***************************************************************************)
(* A handler has read the roles, and awaits its first write.               *)
(***************************************************************************)

Started(await, was, t, r, i) ==
    [at |-> await, was |-> was, target |-> t, role |-> r, invite |-> i,
     alone |-> was # NULL]

LEMMA BeginAdvances ==
    ASSUME TypeOK, NEW q \in Request, NEW await \in Await,
           NEW was \in Role \cup {"platform", NULL}, NEW t \in User \cup {NULL},
           NEW r \in Role \cup {NULL}, NEW i \in Invite \cup {NULL},
           Begin(q, await, was, t, r, i)
    PROVE  /\ At(q, "idle")
           /\ Started(await, was, t, r, i) \in RequestRow
           /\ Advances(q, Started(await, was, t, r, i))
<1>1. Started(await, was, t, r, i) \in RequestRow
  BY DEF RequestRow, Started
<1>2. At(q, "idle") /\ Goto(q, Started(await, was, t, r, i))
  BY DEF Begin, Started
<1>3. QED
  BY <1>1, <1>2, GotoAdvances

LEMMA NothingMoves ==
    ASSUME TypeOK, UNCHANGED invite PROVE SameStatuses
BY DEF SameStatuses

\* It leaves the tables alone, and is about no membership and no acceptance.
LEMMA BeginKeepsInv ==
    ASSUME TeamInv, NEW q \in Request, NEW j \in RequestRow, Advances(q, j),
           At(q, "idle"), j.at \in {"writeRole", "grant", "deactivate", "reactivate", "resend"},
           WellFormed(j), Standing(j), UNCHANGED <<people, invite, history>>
    PROVE  TeamInv'
<1>1. WellFormed(j)' /\ Standing(j)'
  BY DEF WellFormed, Standing, people, history
<1>2. TypeOK'
  BY DEF TeamInv, TypeOK, Advances, people, history
<1>3. \A p \in Request : WellFormed(request[p])'
  BY <1>1, FormsStay DEF history
<1>4. \A p \in Request : Standing(request[p])'
  BY <1>1, StandingStays DEF people
<1>5. Distinct'
  BY DistinctStays
<1>6. \A u \in User \ torn' : Membership(u)'
  BY MembershipStays DEF At, Leaving, Joining, people, history
<1>7. \A e \in User \ doubled' : Invitation(e)'
  BY NothingMoves, StatusesStay, InvitationStays DEF history, TeamInv
<1>8. \A i \in Invite \ crossed' : Acceptance(i)'
  BY NothingMoves, AcceptanceStays DEF At, Accepting, history, TeamInv
<1>9. \A i \in joined' : invite'[i] # NULL
  BY DEF TeamInv, history
<1>10. QED
  BY <1>2, <1>3, <1>4, <1>5, <1>6, <1>7, <1>8, <1>9 DEF TeamInv

LEMMA ManagersHaveARole ==
    ASSUME NEW a \in User, May(a)
    PROVE  role[a] \in Managers /\ role[a] \in Role /\ role[a] # NULL
BY TeamAssumption DEF May, Managers, Role

LEMMA UpdateMemberRoleKeepsInv ==
    ASSUME TeamInv, NEW q \in Request, NEW a \in User, NEW t \in User, NEW r \in Given,
           UpdateMemberRole(q, a, t, r)
    PROVE  TeamInv'
<1> DEFINE j == Started("writeRole", role[a], t, r, NULL)
<1>1. TypeOK /\ r \in Role /\ role[a] \in Role
  BY ManagersHaveARole, TeamAssumption DEF TeamInv, UpdateMemberRole, Assignable, Role
<1>2. Begin(q, "writeRole", role[a], t, r, NULL)
  BY DEF UpdateMemberRole
<1>3. At(q, "idle") /\ j \in RequestRow /\ Advances(q, j)
  BY <1>1, <1>2, BeginAdvances DEF Await
<1>4. WellFormed(j) /\ Standing(j)
  BY <1>1 DEF Started, WellFormed, Standing, Targeted, Giving, Knowing, Taking, UpdateMemberRole,
              Outranks
<1>5. j.at = "writeRole"
  BY DEF Started
<1> HIDE DEF j
<1>6. QED
  BY <1>3, <1>4, <1>5, BeginKeepsInv DEF UpdateMemberRole

LEMMA DeactivateMemberKeepsInv ==
    ASSUME TeamInv, NEW q \in Request, NEW a \in User, NEW t \in User,
           DeactivateMember(q, a, t)
    PROVE  TeamInv'
<1> DEFINE j == Started("deactivate", role[a], t, NULL, NULL)
<1>1. TypeOK /\ role[a] \in Role
  BY ManagersHaveARole DEF TeamInv, DeactivateMember
<1>2. Begin(q, "deactivate", role[a], t, NULL, NULL)
  BY DEF DeactivateMember
<1>3. At(q, "idle") /\ j \in RequestRow /\ Advances(q, j)
  BY <1>1, <1>2, BeginAdvances DEF Await
<1>4. WellFormed(j) /\ Standing(j)
  BY <1>1 DEF Started, WellFormed, Standing, Targeted, Giving, Knowing, Taking, DeactivateMember
<1>5. j.at = "deactivate"
  BY DEF Started
<1> HIDE DEF j
<1>6. QED
  BY <1>3, <1>4, <1>5, BeginKeepsInv DEF DeactivateMember

LEMMA ReactivateMemberKeepsInv ==
    ASSUME TeamInv, NEW q \in Request, NEW a \in User, NEW t \in User,
           ReactivateMember(q, a, t)
    PROVE  TeamInv'
<1> DEFINE j == Started("reactivate", NULL, t, NULL, NULL)
<1>1. TypeOK
  BY DEF TeamInv
<1>2. Begin(q, "reactivate", NULL, t, NULL, NULL)
  BY DEF ReactivateMember
<1>3. At(q, "idle") /\ j \in RequestRow /\ Advances(q, j)
  BY <1>1, <1>2, BeginAdvances DEF Await
<1>4. WellFormed(j) /\ Standing(j)
  BY <1>1 DEF Started, WellFormed, Standing, Targeted, Giving, Knowing, Taking
<1>5. j.at = "reactivate"
  BY DEF Started
<1> HIDE DEF j
<1>6. QED
  BY <1>3, <1>4, <1>5, BeginKeepsInv DEF ReactivateMember

LEMMA GrantRoleKeepsInv ==
    ASSUME TeamInv, NEW q \in Request, NEW t \in User, NEW r \in Granted,
           GrantRole(q, t, r)
    PROVE  TeamInv'
<1> DEFINE j == Started("grant", "platform", t, r, NULL)
<1>1. TypeOK /\ r \in Role
  BY TeamAssumption DEF TeamInv
<1>2. Begin(q, "grant", "platform", t, r, NULL)
  BY DEF GrantRole
<1>3. At(q, "idle") /\ j \in RequestRow /\ Advances(q, j)
  BY <1>1, <1>2, BeginAdvances DEF Await
<1>4. WellFormed(j) /\ Standing(j)
  BY <1>1 DEF Started, WellFormed, Standing, Targeted, Giving, Knowing, Taking
<1>5. j.at = "grant"
  BY DEF Started
<1> HIDE DEF j
<1>6. QED
  BY <1>3, <1>4, <1>5, BeginKeepsInv DEF GrantRole

LEMMA ResendInviteKeepsInv ==
    ASSUME TeamInv, NEW q \in Request, NEW a \in User, NEW i \in Invite,
           ResendInvite(q, a, i)
    PROVE  TeamInv'
<1> DEFINE j == Started("resend", NULL, NULL, NULL, i)
<1>1. TypeOK
  BY DEF TeamInv
<1>2. Begin(q, "resend", NULL, NULL, NULL, i)
  BY DEF ResendInvite
<1>3. At(q, "idle") /\ j \in RequestRow /\ Advances(q, j)
  BY <1>1, <1>2, BeginAdvances DEF Await
<1>4. WellFormed(j) /\ Standing(j)
  BY <1>1 DEF Started, WellFormed, Standing, Targeted, Giving, Knowing, Taking, ResendInvite
<1>5. j.at = "resend"
  BY DEF Started
<1> HIDE DEF j
<1>6. QED
  BY <1>3, <1>4, <1>5, BeginKeepsInv DEF ResendInvite

LEMMA RemoveMemberKeepsInv ==
    ASSUME TeamInv, NEW q \in Request, NEW a \in User, NEW t \in User,
           RemoveMember(q, a, t)
    PROVE  TeamInv'
<1>0. PICK j : j = Started("unlink", role[a], t, NULL, NULL)
  OBVIOUS
<1>1. TypeOK /\ role[a] \in Role
  BY ManagersHaveARole DEF TeamInv, RemoveMember
<1>2. Begin(q, "unlink", role[a], t, NULL, NULL)
  BY DEF RemoveMember
<1>3. At(q, "idle") /\ j \in RequestRow /\ Advances(q, j)
  BY <1>0, <1>1, <1>2, BeginAdvances DEF Await
<1>4. j.at = "unlink" /\ j.target = t
  BY <1>0 DEF Started
<1>5. WellFormed(j)' /\ Standing(j)'
  BY <1>0, <1>1 DEF Started, WellFormed, Standing, Targeted, Giving, Knowing, Taking,
              RemoveMember, people
<1>6. /\ UNCHANGED <<role, place, status, invite, joined, doubled, crossed>>
      /\ torn \subseteq torn'
  BY DEF RemoveMember, people
<1>7. TypeOK'
  BY <1>1, <1>3, <1>6 DEF TypeOK, Advances, RemoveMember
<1>8. \A u \in User \ torn' : Membership(u)'
  BY <1>3, <1>4, <1>6 DEF TeamInv, Membership, Busy, Leaving, Joining, Advances, At, RemoveMember
<1>9. SameStatuses /\ j.at \notin {"insert", "refresh"}
  BY <1>1, <1>4, <1>6, NothingMoves
<1>10. \A e \in User \ doubled' : Invitation(e)'
  BY <1>3, <1>6, <1>9, StatusesStay, InvitationStays
<1>11. \A i \in Invite \ crossed' : Acceptance(i)'
  BY <1>3, <1>4, <1>6, <1>9, AcceptanceStays DEF At, Accepting
<1>12. \A p \in Request : WellFormed(request[p])' /\ Standing(request[p])'
  <2>1. \A p \in Request : WellFormed(request[p])'
    BY <1>3, <1>5, <1>6, FormsStay
  <2>2. \A p \in Request : Standing(request[p])'
    BY <1>3, <1>5, <1>6, StandingStays
  <2>3. QED
    BY <2>1, <2>2
<1>13. Distinct'
  BY <1>3, <1>4, DistinctStays
<1>14. \A i \in joined' : invite'[i] # NULL
  BY <1>6 DEF TeamInv
<1>15. QED
  BY <1>7, <1>8, <1>10, <1>11, <1>12, <1>13, <1>14 DEF TeamInv

\* Two requests for one address are remembered, and a free id is nobody's.
LEMMA CreateInviteKeepsInv ==
    ASSUME TeamInv, NEW q \in Request, NEW a \in User, NEW e \in User, NEW r \in Given,
           CreateInvite(q, a, e, r)
    PROVE  TeamInv'
<1>1. TypeOK /\ r \in Role
  BY TeamAssumption DEF TeamInv, Assignable, Role
<1>2. PICK i \in Invite, await \in {"insert", "refresh"} :
        /\ Begin(q, await, NULL, e, r, i)
        /\ await = "insert" => Pending(e) = {} /\ i \in Free
        /\ await = "refresh" => i \in Pending(e)
  BY DEF CreateInvite, Free, Pending
<1> DEFINE j == Started(await, NULL, e, r, i)
<1>3. At(q, "idle") /\ j \in RequestRow /\ Advances(q, j)
  BY <1>1, <1>2, BeginAdvances DEF Await
<1>4. j.at = await /\ j.target = e /\ j.invite = i
  BY DEF Started
<1>5. invite[i] = NULL <=> await = "insert"
  BY <1>2 DEF Free, Pending
<1>6. WellFormed(j)' /\ Standing(j)'
  BY <1>1, <1>2, <1>5 DEF Started, WellFormed, Standing, Targeted, Giving, Knowing, Taking,
              CreateInvite, people
<1> HIDE DEF j
<1>7. UNCHANGED <<role, place, status, invite, joined, torn, crossed>>
      /\ doubled \subseteq doubled'
  BY DEF CreateInvite, people
<1>8. TypeOK'
  BY <1>1, <1>3, <1>7 DEF TypeOK, Advances, CreateInvite
<1>9. SameStatuses
  BY <1>1, <1>7, NothingMoves
<1>10. \A u \in User \ torn' : Membership(u)'
  BY <1>2, <1>3, <1>4, <1>7, MembershipStays DEF At, Leaving, Joining
<1>11. ASSUME NEW d \in User \ doubled' PROVE Invitation(d)'
  <2>1. Pending(d)' = Pending(d) /\ Invitation(d)
    BY <1>7, <1>9, StatusesStay DEF TeamInv
  <2>2. CASE d = e
    <3>1. \A p \in Request : request[p].target = e
                                => request[p].at \notin {"insert", "refresh"}
      BY <2>2 DEF CreateInvite, Inviting, Busy
    <3>2. \A p \in Request \ {q} : request'[p].target = e
                                => request'[p].at \notin {"insert", "refresh"}
      BY <1>3, <3>1 DEF Advances
    <3>3. request'[q].at = "insert" => Pending(e) = {}
      BY <1>2, <1>3, <1>4 DEF Advances
    <3>4. QED
      BY <2>1, <2>2, <3>2, <3>3 DEF Invitation, Busy
  <2>3. CASE d # e
    BY <1>3, <1>4, <2>1, <2>3 DEF Invitation, Busy, Advances
  <2>4. QED
    BY <2>2, <2>3
<1>12. \A k \in Invite \ crossed' : Acceptance(k)'
  BY <1>2, <1>3, <1>4, <1>7, <1>9, AcceptanceStays DEF At, Accepting
<1>13. \A p \in Request : WellFormed(request[p])' /\ Standing(request[p])'
  BY <1>3, <1>6, <1>7, FormsStay, StandingStays
<1>14. Distinct'
  <2>1. await = "insert" => \A p \in Request : request[p].invite = i => request[p].at # "insert"
    BY <1>2 DEF Free, OnInvite
  <2>2. QED
    BY <1>3, <1>4, <2>1 DEF TeamInv, Distinct, At, Advances
<1>15. \A k \in joined' : invite'[k] # NULL
  BY <1>7 DEF TeamInv
<1>16. QED
  BY <1>8, <1>10, <1>11, <1>12, <1>13, <1>14, <1>15 DEF TeamInv

LEMMA RevokeInviteKeepsInv ==
    ASSUME TeamInv, NEW q \in Request, NEW a \in User, NEW i \in Invite,
           RevokeInvite(q, a, i)
    PROVE  TeamInv'
<1> DEFINE j == Started("revoke", NULL, NULL, NULL, i)
<1>1. TypeOK
  BY DEF TeamInv
<1>2. Begin(q, "revoke", NULL, NULL, NULL, i)
  BY DEF RevokeInvite
<1>3. At(q, "idle") /\ j \in RequestRow /\ Advances(q, j)
  BY <1>1, <1>2, BeginAdvances DEF Await
<1>4. j.at = "revoke" /\ j.invite = i
  BY DEF Started
<1>5. WellFormed(j)' /\ Standing(j)'
  BY DEF Started, WellFormed, Standing, Targeted, Giving, Knowing, Taking, RevokeInvite, people
<1> HIDE DEF j
<1>6. UNCHANGED <<role, place, status, invite, joined, torn, doubled>>
      /\ crossed \subseteq crossed'
  BY DEF RevokeInvite, people
<1>7. TypeOK'
  BY <1>1, <1>3, <1>6 DEF TypeOK, Advances, RevokeInvite
<1>8. SameStatuses
  BY <1>1, <1>6, NothingMoves
<1>9. \A u \in User \ torn' : Membership(u)'
  BY <1>3, <1>4, <1>6, MembershipStays DEF At, Leaving, Joining
<1>10. \A e \in User \ doubled' : Invitation(e)'
  BY <1>3, <1>4, <1>6, <1>8, StatusesStay, InvitationStays
<1>11. ASSUME NEW k \in Invite \ crossed' PROVE Acceptance(k)'
  <2>1. Acceptance(k)
    BY <1>6 DEF TeamInv
  <2>2. CASE k = i
    <3>1. ~OnInvite(i, Accepting) /\ invite[i] # NULL /\ invite[i].status = "pending"
      BY <2>2 DEF RevokeInvite
    <3>2. i \notin joined /\ ~OnInvite(i, {"attach", "accepted"})
      BY <2>1, <2>2, <3>1 DEF Acceptance, OnInvite, Accepting
    <3>3. ~OnInvite(i, Accepting)'
      BY <1>3, <1>4, <3>1 DEF OnInvite, Accepting, Advances
    <3>4. QED
      BY <1>6, <2>2, <3>1, <3>2, <3>3 DEF Acceptance
  <2>3. CASE k # i
    BY <1>3, <1>4, <1>6, <2>1, <2>3 DEF Acceptance, OnInvite, Accepting, Advances, At
  <2>4. QED
    BY <2>2, <2>3
<1>12. \A p \in Request : WellFormed(request[p])' /\ Standing(request[p])'
  <2>1. \A p \in Request : WellFormed(request[p])'
    BY <1>3, <1>5, <1>6, FormsStay
  <2>2. \A p \in Request : Standing(request[p])'
    BY <1>3, <1>5, <1>6, StandingStays
  <2>3. QED
    BY <2>1, <2>2
<1>13. Distinct'
  BY <1>3, <1>4, DistinctStays
<1>14. \A k \in joined' : invite'[k] # NULL
  BY <1>6 DEF TeamInv
<1>15. QED
  BY <1>7, <1>9, <1>10, <1>11, <1>12, <1>13, <1>14 DEF TeamInv

LEMMA AcceptInviteKeepsInv ==
    ASSUME TeamInv, NEW q \in Request, NEW u \in User, NEW i \in Invite,
           AcceptInvite(q, u, i)
    PROVE  TeamInv'
<1>0. PICK j : j = Started("join", NULL, u, invite[i].role, i)
  OBVIOUS
<1>1. TypeOK /\ invite[i].role \in Role
  BY DEF TeamInv, TypeOK, InviteRow, AcceptInvite
<1>2. Begin(q, "join", NULL, u, invite[i].role, i)
  BY DEF AcceptInvite
<1>3. At(q, "idle") /\ j \in RequestRow /\ Advances(q, j)
  BY <1>0, <1>1, <1>2, BeginAdvances DEF Await
<1>4. j.at = "join" /\ j.invite = i /\ j.target = u
  BY <1>0 DEF Started
<1>5. WellFormed(j)' /\ Standing(j)'
  BY <1>0, <1>1 DEF Started, WellFormed, Standing, Targeted, Giving, Knowing, Taking,
              AcceptInvite, people
<1>6. UNCHANGED <<role, place, status, invite, joined, doubled>>
      /\ crossed \subseteq crossed' /\ torn \subseteq torn'
  BY DEF AcceptInvite, people
<1>7. TypeOK'
  BY <1>1, <1>3, <1>6 DEF TypeOK, Advances, AcceptInvite
<1>8. SameStatuses
  BY <1>1, <1>6, NothingMoves
<1>9. \A v \in User \ torn' : Membership(v)'
  BY <1>3, <1>4, <1>6 DEF TeamInv, Membership, Busy, Leaving, Joining, Advances, At, AcceptInvite
<1>10. \A e \in User \ doubled' : Invitation(e)'
  BY <1>3, <1>4, <1>6, <1>8, StatusesStay, InvitationStays
<1>11. ASSUME NEW k \in Invite \ crossed' PROVE Acceptance(k)'
  <2>1. Acceptance(k)
    BY <1>6 DEF TeamInv
  <2>2. k = i => ~OnInvite(k, {"revoke"})
    BY DEF AcceptInvite
  <2>3. QED
    BY <1>3, <1>4, <1>6, <2>1, <2>2 DEF Acceptance, OnInvite, Accepting, Advances, At
<1>12. \A p \in Request : WellFormed(request[p])' /\ Standing(request[p])'
  <2>1. \A p \in Request : WellFormed(request[p])'
    BY <1>3, <1>5, <1>6, FormsStay
  <2>2. \A p \in Request : Standing(request[p])'
    BY <1>3, <1>5, <1>6, StandingStays
  <2>3. QED
    BY <2>1, <2>2
<1>13. Distinct'
  BY <1>3, <1>4, DistinctStays
<1>14. \A k \in joined' : invite'[k] # NULL
  BY <1>6 DEF TeamInv
<1>15. QED
  BY <1>7, <1>9, <1>10, <1>11, <1>12, <1>13, <1>14 DEF TeamInv

(***************************************************************************)
(* The writes.                                                             *)
(***************************************************************************)

LEMMA IdleIsWellFormed == WellFormed(Idle)' /\ Standing(Idle)'
BY IdleIsARequest DEF WellFormed, Standing, Targeted, Giving, Knowing, Taking

\* A request that is done with what is no membership, and leaves statuses alone.
LEMMA DoneKeepsInv ==
    ASSUME TeamInv, NEW q \in Request, Goto(q, Idle), TypeOK',
           request[q].at \notin {"detach", "attach", "accepted"},
           UNCHANGED <<role, place, history>>, SameStatuses
    PROVE  TeamInv'
<1>1. Idle \in RequestRow /\ Idle.at = "idle" /\ TypeOK /\ Advances(q, Idle)
  BY IdleIsARequest, GotoAdvances DEF TeamInv
<1>2. UNCHANGED <<joined, torn, doubled, crossed>>
  BY DEF history
<1>3. \A p \in Request : WellFormed(request[p])'
  BY <1>1, <1>2, IdleIsWellFormed, FormsStay DEF SameStatuses
<1>4. \A p \in Request : Standing(request[p])'
  BY <1>1, IdleIsWellFormed, StandingStays
<1>5. Distinct'
  BY <1>1, DistinctStays
<1>6. \A u \in User \ torn' : Membership(u)'
  BY <1>1, <1>2, MembershipStays DEF Leaving, Joining
<1>7. \A e \in User \ doubled' : Invitation(e)'
  BY <1>1, <1>2, StatusesStay, InvitationStays
<1>8. \A i \in Invite \ crossed' : Acceptance(i)'
  BY <1>1, <1>2, AcceptanceStays DEF Accepting
<1>9. \A i \in joined' : invite'[i] # NULL
  BY <1>1, <1>2 DEF TeamInv, TypeOK, SameStatuses
<1>10. QED
  BY <1>3, <1>4, <1>5, <1>6, <1>7, <1>8, <1>9 DEF TeamInv

LEMMA WriteStatusKeepsInv ==
    ASSUME TeamInv, NEW q \in Request, WriteStatus(q) PROVE TeamInv'
<1>1. TypeOK /\ UNCHANGED <<role, place, invite, history>> /\ Goto(q, Idle)
  BY DEF TeamInv, WriteStatus
<1>2. Advances(q, Idle)
  BY <1>1, IdleIsARequest, GotoAdvances
<1>3. status' \in [User -> {"active", "deactivated"}]
  BY <1>1 DEF WriteStatus, TypeOK
<1>4. TypeOK'
  BY <1>1, <1>2, <1>3 DEF TypeOK, Advances, history
<1>5. QED
  BY <1>1, <1>4, NothingMoves, DoneKeepsInv DEF WriteStatus

\* Of the row that is renewed, only the token, the expiry and the role change.
LEMMA RowKeepsItsStatus ==
    ASSUME TypeOK, NEW i \in Invite, invite[i] # NULL, NEW row \in InviteRow,
           row.email = invite[i].email, row.status = invite[i].status,
           invite' = [invite EXCEPT ![i] = row]
    PROVE  SameStatuses /\ invite' \in [Invite -> InviteRow \cup {NULL}]
<1>1. row # NULL
  BY TeamAssumption
<1>2. QED
  BY <1>1 DEF SameStatuses, TypeOK

LEMMA RefreshInviteKeepsInv ==
    ASSUME TeamInv, NEW q \in Request, RefreshInvite(q) PROVE TeamInv'
<1>1. PICK j : j = request[q]
  OBVIOUS
<1>2. TypeOK /\ j.at = "refresh" /\ j.role \in Role
      /\ j.invite \in Invite /\ invite[j.invite] \in InviteRow
  BY <1>1 DEF TeamInv, TypeOK, WellFormed, Giving, Knowing, RefreshInvite, At
<1>3. PICK row :
        /\ row = [invite[j.invite] EXCEPT !.role = j.role, !.fresh = TRUE]
        /\ row \in InviteRow
        /\ row.email = invite[j.invite].email /\ row.status = invite[j.invite].status
  <2>1. [invite[j.invite] EXCEPT !.role = j.role, !.fresh = TRUE] \in InviteRow
    BY <1>2 DEF InviteRow
  <2>2. QED
    BY <1>2, <2>1 DEF InviteRow
<1>4. invite' = [invite EXCEPT ![j.invite] = row]
  BY <1>1, <1>2, <1>3 DEF RefreshInvite, TypeOK, InviteRow
<1>5. invite[j.invite] # NULL
  BY <1>2, TeamAssumption
<1>6. SameStatuses /\ invite' \in [Invite -> InviteRow \cup {NULL}]
  BY <1>2, <1>3, <1>4, <1>5, RowKeepsItsStatus
<1>7. UNCHANGED <<role, place, status, history>> /\ Goto(q, Idle)
  BY DEF RefreshInvite, people
<1>8. Advances(q, Idle)
  BY <1>2, <1>7, IdleIsARequest, GotoAdvances
<1>9. TypeOK'
  BY <1>2, <1>6, <1>7, <1>8 DEF TypeOK, Advances, history
<1>10. QED
  BY <1>1, <1>2, <1>6, <1>7, <1>9, DoneKeepsInv

LEMMA RenewInviteKeepsInv ==
    ASSUME TeamInv, NEW q \in Request, RenewInvite(q) PROVE TeamInv'
<1>1. PICK i : i = request[q].invite
  OBVIOUS
<1>2. TypeOK /\ request[q].at = "resend" /\ i \in Invite /\ invite[i] \in InviteRow
  BY <1>1 DEF TeamInv, TypeOK, WellFormed, Giving, Knowing, RenewInvite, At
<1>3. PICK row :
        /\ row = [invite[i] EXCEPT !.fresh = TRUE]
        /\ row \in InviteRow
        /\ row.email = invite[i].email /\ row.status = invite[i].status
  <2>1. [invite[i] EXCEPT !.fresh = TRUE] \in InviteRow
    BY <1>2 DEF InviteRow
  <2>2. QED
    BY <1>2, <2>1 DEF InviteRow
<1>4. invite' = [invite EXCEPT ![i] = row]
  BY <1>1, <1>2, <1>3 DEF RenewInvite, TypeOK, InviteRow
<1>5. invite[i] # NULL
  BY <1>2, TeamAssumption
<1>6. SameStatuses /\ invite' \in [Invite -> InviteRow \cup {NULL}]
  BY <1>2, <1>3, <1>4, <1>5, RowKeepsItsStatus
<1>7. UNCHANGED <<role, place, status, history>> /\ Goto(q, Idle)
  BY DEF RenewInvite, people
<1>8. Advances(q, Idle)
  BY <1>2, <1>7, IdleIsARequest, GotoAdvances
<1>9. TypeOK'
  BY <1>2, <1>6, <1>7, <1>8 DEF TypeOK, Advances, history
<1>10. QED
  BY <1>2, <1>6, <1>7, <1>9, DoneKeepsInv

\* No request is about what changes: an invite that expires is only old.
LEMMA ExpireInviteKeepsInv ==
    ASSUME TeamInv, NEW i \in Invite, ExpireInvite(i) PROVE TeamInv'
<1>1. TypeOK /\ invite[i] # NULL /\ invite[i] \in InviteRow
      /\ UNCHANGED <<role, place, status, request, joined, torn, doubled, crossed>>
  BY DEF TeamInv, TypeOK, ExpireInvite, people, history
<1>2. PICK row :
        /\ row = [invite[i] EXCEPT !.fresh = FALSE]
        /\ row \in InviteRow
        /\ row.email = invite[i].email /\ row.status = invite[i].status
  <2>1. [invite[i] EXCEPT !.fresh = FALSE] \in InviteRow
    BY <1>1 DEF InviteRow
  <2>2. QED
    BY <1>1, <2>1 DEF InviteRow
<1>3. invite' = [invite EXCEPT ![i] = row]
  BY <1>1, <1>2 DEF ExpireInvite, TypeOK, InviteRow
<1>4. SameStatuses /\ invite' \in [Invite -> InviteRow \cup {NULL}]
  BY <1>1, <1>2, <1>3, RowKeepsItsStatus
<1>5. TypeOK'
  BY <1>1, <1>4 DEF TypeOK
<1>6. \A q \in Request : WellFormed(request[q])' /\ Standing(request[q])'
  BY <1>1, <1>4 DEF TeamInv, WellFormed, Standing, SameStatuses
<1>7. \A u \in User \ torn' : Membership(u)'
  BY <1>1 DEF TeamInv, Membership, Busy
<1>8. \A e \in User \ doubled' : Invitation(e)'
  BY <1>1, <1>4, StatusesStay DEF TeamInv, Invitation, Busy
<1>9. \A k \in Invite \ crossed' : Acceptance(k)'
  BY <1>1, <1>4 DEF TeamInv, Acceptance, OnInvite, SameStatuses
<1>10. Distinct' /\ \A k \in joined' : invite'[k] # NULL
  BY <1>1, <1>4 DEF TeamInv, Distinct, At, SameStatuses, TypeOK
<1>11. QED
  BY <1>5, <1>6, <1>7, <1>8, <1>9, <1>10 DEF TeamInv

LEMMA InsertInviteKeepsInv ==
    ASSUME TeamInv, NEW q \in Request, InsertInvite(q) PROVE TeamInv'
<1>1. PICK j : j = request[q]
  OBVIOUS
<1>2. TypeOK /\ j.at = "insert" /\ j.target \in User /\ j.role \in Role
      /\ j.invite \in Invite /\ invite[j.invite] = NULL
  BY <1>1 DEF TeamInv, WellFormed, Targeted, Giving, Await, InsertInvite, At
<1>3. PICK row :
        /\ row = [email |-> j.target, role |-> j.role, fresh |-> TRUE, status |-> "pending"]
        /\ row \in InviteRow
        /\ row.email = j.target /\ row.status = "pending"
  <2>1. [email |-> j.target, role |-> j.role, fresh |-> TRUE, status |-> "pending"] \in InviteRow
    BY <1>2 DEF InviteRow
  <2>2. QED
    BY <1>2, <2>1 DEF InviteRow
<1>4. invite' = [invite EXCEPT ![j.invite] = row] /\ row # NULL
  BY <1>1, <1>2, <1>3, TeamAssumption DEF InsertInvite
<1>5. UNCHANGED <<role, place, status, joined, torn, doubled, crossed>> /\ Goto(q, Idle)
  BY DEF InsertInvite, people, history
<1>6. Idle \in RequestRow /\ Idle.at = "idle" /\ Advances(q, Idle)
  BY <1>2, <1>5, IdleIsARequest, GotoAdvances
<1>7. invite' \in [Invite -> InviteRow \cup {NULL}]
  BY <1>2, <1>3, <1>4 DEF TypeOK
<1>8. TypeOK'
  BY <1>2, <1>5, <1>6, <1>7 DEF TypeOK, Advances
<1>9. /\ \A k \in Invite \ {j.invite} : invite'[k] = invite[k]
      /\ invite'[j.invite] = row
  BY <1>2, <1>4 DEF TypeOK
<1>10. \A p \in Request : WellFormed(request[p])'
  BY <1>1, <1>2, <1>4, <1>5, <1>6, <1>9, IdleIsWellFormed, FormsStay DEF At
<1>11. \A p \in Request : Standing(request[p])'
  BY <1>5, <1>6, IdleIsWellFormed, StandingStays
<1>12. Distinct'
  BY <1>6, DistinctStays
<1>13. \A u \in User \ torn' : Membership(u)'
  BY <1>1, <1>2, <1>5, <1>6, MembershipStays DEF Leaving, Joining
<1>14. ASSUME NEW e \in User \ doubled' PROVE Invitation(e)'
  <2>1. Invitation(e)
    BY <1>5 DEF TeamInv
  <2>2. CASE e = j.target
    <3>1. Pending(e) = {} /\ Pending(e)' = {j.invite}
      <4>1. Pending(e) = {}
        BY <1>1, <1>2, <2>1, <2>2 DEF Invitation, Busy
      <4>2. QED
        BY <1>2, <1>3, <1>4, <1>9, <2>2, <4>1 DEF Pending
    <3>2. \A p \in Request : request'[p].target = e
                                => request'[p].at \notin {"insert", "refresh"}
      BY <1>1, <1>2, <1>6, <2>1, <2>2 DEF Invitation, Advances
    <3>3. QED
      BY <3>1, <3>2 DEF Invitation, Busy
  <2>3. CASE e # j.target
    <3>1. Pending(e)' = Pending(e)
      BY <1>2, <1>3, <1>9, <2>3 DEF Pending
    <3>2. QED
      BY <1>6, <2>1, <3>1 DEF Invitation, Busy, Advances
  <2>4. QED
    BY <2>2, <2>3
<1>15. ASSUME NEW k \in Invite \ crossed' PROVE Acceptance(k)'
  <2>1. Acceptance(k)
    BY <1>5 DEF TeamInv
  <2>2. ~OnInvite(k, {"revoke"})' \/ OnInvite(k, {"revoke"})
    BY <1>6 DEF OnInvite, Advances
  <2>3. OnInvite(k, Accepting)' => OnInvite(k, Accepting)
    BY <1>6 DEF OnInvite, Advances, Accepting
  <2>4. OnInvite(k, {"attach", "accepted"}) => OnInvite(k, {"attach", "accepted"})'
    BY <1>1, <1>2, <1>6 DEF OnInvite, Advances
  <2>5. j.invite \notin joined
    BY <1>2 DEF TeamInv
  <2>6. QED
    BY <1>3, <1>5, <1>9, <2>1, <2>2, <2>3, <2>4, <2>5 DEF Acceptance
<1>16. \A k \in joined' : invite'[k] # NULL
  BY <1>2, <1>4, <1>5, <1>9 DEF TeamInv, TypeOK
<1>17. QED
  BY <1>8, <1>10, <1>11, <1>12, <1>13, <1>14, <1>15, <1>16 DEF TeamInv

\* The row of an invite is settled: nothing is pending that was not.
LEMMA SettledInvite ==
    ASSUME TypeOK, NEW i \in Invite, invite[i] # NULL,
           NEW s \in {"accepted", "revoked"}, invite' = [invite EXCEPT ![i].status = s]
    PROVE  /\ invite' \in [Invite -> InviteRow \cup {NULL}]
           /\ \A k \in Invite \ {i} : invite'[k] = invite[k]
           /\ invite'[i] # NULL /\ invite'[i].status = s
           /\ \A e \in User : Pending(e)' \subseteq Pending(e)
<1>1. PICK row : row = [invite[i] EXCEPT !.status = s]
  OBVIOUS
<1>2. invite[i] \in InviteRow
  BY DEF TypeOK
<1>3. row \in InviteRow /\ row.status = s
  BY <1>1, <1>2 DEF InviteRow
<1>4. invite' = [invite EXCEPT ![i] = row] /\ row # NULL
  BY <1>1, <1>3, TeamAssumption DEF TypeOK
<1>5. invite' \in [Invite -> InviteRow \cup {NULL}] /\ invite'[i] = row
      /\ \A k \in Invite \ {i} : invite'[k] = invite[k]
  BY <1>3, <1>4 DEF TypeOK
<1>6. \A e \in User : Pending(e)' \subseteq Pending(e)
  BY <1>3, <1>5 DEF Pending
<1>7. QED
  BY <1>3, <1>4, <1>5, <1>6

\* What settles an invite is done with it.
LEMMA SettleKeepsInv ==
    ASSUME TeamInv, NEW q \in Request, Goto(q, Idle), NEW i \in Invite,
           request[q].invite = i, request[q].at \in {"revoke", "accepted"},
           NEW s \in {"accepted", "revoked"}, invite' = [invite EXCEPT ![i].status = s],
           UNCHANGED <<people, history>>,
           i \notin crossed => (i \in joined <=> s = "accepted")
    PROVE  TeamInv'
<1>1. TypeOK /\ invite[i] # NULL
  BY DEF TeamInv, WellFormed, Knowing
<1>2. UNCHANGED <<role, place, status, joined, torn, doubled, crossed>>
  BY DEF people, history
<1>3. Idle \in RequestRow /\ Idle.at = "idle" /\ Advances(q, Idle)
  BY <1>1, IdleIsARequest, GotoAdvances
<1>4. /\ invite' \in [Invite -> InviteRow \cup {NULL}]
      /\ \A k \in Invite \ {i} : invite'[k] = invite[k]
      /\ invite'[i] # NULL /\ invite'[i].status = s
      /\ \A e \in User : Pending(e)' \subseteq Pending(e)
  BY <1>1, SettledInvite
<1>5. TypeOK'
  BY <1>1, <1>2, <1>3, <1>4 DEF TypeOK, Advances
<1>6. \A p \in Request : WellFormed(request[p])'
  BY <1>1, <1>2, <1>3, <1>4, IdleIsWellFormed, FormsStay
<1>7. \A p \in Request : Standing(request[p])'
  BY <1>2, <1>3, IdleIsWellFormed, StandingStays
<1>8. Distinct'
  BY <1>3, DistinctStays
<1>9. \A u \in User \ torn' : Membership(u)'
  BY <1>2, <1>3, MembershipStays DEF Leaving, Joining
<1>10. \A e \in User \ doubled' : Invitation(e)'
  BY <1>2, <1>3, <1>4, InvitationStays
<1>11. ASSUME NEW k \in Invite \ crossed' PROVE Acceptance(k)'
  <2>1. Acceptance(k)
    BY <1>2 DEF TeamInv
  <2>2. /\ OnInvite(k, {"revoke"})' => OnInvite(k, {"revoke"})
        /\ OnInvite(k, Accepting)' => OnInvite(k, Accepting)
        /\ k # i /\ OnInvite(k, {"attach", "accepted"})
              => OnInvite(k, {"attach", "accepted"})'
    BY <1>3 DEF OnInvite, Accepting, Advances
  <2>3. QED
    BY <1>2, <1>4, <2>1, <2>2 DEF Acceptance
<1>12. \A k \in joined' : invite'[k] # NULL
  BY <1>1, <1>2, <1>4 DEF TeamInv, TypeOK
<1>13. QED
  BY <1>5, <1>6, <1>7, <1>8, <1>9, <1>10, <1>11, <1>12 DEF TeamInv

LEMMA WriteRevokedKeepsInv ==
    ASSUME TeamInv, NEW q \in Request, WriteRevoked(q) PROVE TeamInv'
<1>1. PICK i : i = request[q].invite
  OBVIOUS
<1>2. request[q].at = "revoke" /\ i \in Invite
  BY <1>1 DEF TeamInv, WellFormed, Knowing, WriteRevoked, At
<1>3. i \notin crossed => i \notin joined
  BY <1>1, <1>2 DEF TeamInv, Acceptance, OnInvite
<1>4. Goto(q, Idle) /\ UNCHANGED <<people, history>>
      /\ invite' = [invite EXCEPT ![i].status = "revoked"]
  BY <1>1 DEF WriteRevoked
<1>5. QED
  BY <1>1, <1>2, <1>3, <1>4, SettleKeepsInv

LEMMA MarkAcceptedKeepsInv ==
    ASSUME TeamInv, NEW q \in Request, MarkAccepted(q) PROVE TeamInv'
<1>1. PICK i : i = request[q].invite
  OBVIOUS
<1>2. request[q].at = "accepted" /\ i \in Invite /\ i \in joined
  BY <1>1 DEF TeamInv, WellFormed, Knowing, MarkAccepted, At
<1>3. Goto(q, Idle) /\ UNCHANGED <<people, history>>
      /\ invite' = [invite EXCEPT ![i].status = "accepted"]
  BY <1>1 DEF MarkAccepted
<1>4. QED
  BY <1>1, <1>2, <1>3, SettleKeepsInv

(***************************************************************************)
(* The two rows of a member.                                               *)
(***************************************************************************)

\* The parts that a write of a membership leaves alone.
LEMMA MemberWritesKeep ==
    ASSUME TeamInv, NEW q \in Request, NEW j \in RequestRow, Advances(q, j),
           j.at \in {"idle", "detach"},
           request[q].at \notin {"attach", "accepted"},
           UNCHANGED <<status, invite, joined, doubled, crossed>>,
           torn' \subseteq User, torn \subseteq torn',
           role' \in [User -> Role \cup {NULL}], place' \in [User -> Place],
           j.target \in User \/ j.at = "idle",
           role' = role \/ \A p \in Request \ {q} : ~request'[p].alone,
           \A u \in User \ torn' : Membership(u)'
    PROVE  TeamInv'
<1>1. TypeOK /\ SameStatuses
  BY NothingMoves DEF TeamInv
<1>2. TypeOK'
  BY <1>1 DEF TypeOK, Advances
<1>3. WellFormed(j)' /\ Standing(j)'
  BY DEF WellFormed, Standing, Targeted, Giving, Knowing, Taking
<1>4. \A p \in Request : WellFormed(request[p])'
  BY <1>3, FormsStay
<1>5. \A p \in Request : Standing(request[p])'
  BY <1>3, StandingStays
<1>6. Distinct'
  BY DistinctStays
<1>7. \A e \in User \ doubled' : Invitation(e)'
  BY <1>1, StatusesStay, InvitationStays
<1>8. \A i \in Invite \ crossed' : Acceptance(i)'
  BY <1>1, AcceptanceStays DEF Accepting
<1>9. \A i \in joined' : invite'[i] # NULL
  BY DEF TeamInv
<1>10. QED
  BY <1>2, <1>4, <1>5, <1>6, <1>7, <1>8, <1>9 DEF TeamInv

LEMMA SetRoleKeepsInv ==
    ASSUME TeamInv, NEW q \in Request, NEW await \in {"writeRole", "grant"},
           SetRole(q, await)
    PROVE  TeamInv'
<1>1. PICK t, r : t = request[q].target /\ r = request[q].role
  OBVIOUS
<1>2. TypeOK /\ t \in User /\ r \in Role /\ request[q].at = await
  BY <1>1 DEF TeamInv, WellFormed, Targeted, Giving, Await, SetRole, At
<1>3. /\ role' = IF role[t] = NULL THEN role ELSE [role EXCEPT ![t] = r]
      /\ Wrote(q, Idle) /\ UNCHANGED <<place, status, invite, joined, torn, doubled, crossed>>
  BY <1>1 DEF SetRole, history
<1>4. Idle \in RequestRow /\ Idle.at = "idle" /\ Advances(q, Idle)
      /\ \A p \in Request \ {q} : ~request'[p].alone
  BY <1>2, <1>3, IdleIsARequest, WroteAdvances
<1>5. role' \in [User -> Role \cup {NULL}] /\ place' \in [User -> Place]
      /\ torn' \subseteq User
  BY <1>2, <1>3 DEF TypeOK
<1>6. \A u \in User : role'[u] = NULL <=> role[u] = NULL
  BY <1>2, <1>3, TeamAssumption DEF TypeOK
<1>7. \A u \in User \ torn' : Membership(u)'
  BY <1>2, <1>3, <1>4, <1>6 DEF TeamInv, Membership, Busy, Leaving, Joining, Advances
<1>8. QED
  BY <1>2, <1>3, <1>4, <1>5, <1>7, MemberWritesKeep

LEMMA DeleteMembershipKeepsInv ==
    ASSUME TeamInv, NEW q \in Request, DeleteMembership(q) PROVE TeamInv'
<1>1. PICK t : t = request[q].target
  OBVIOUS
<1>2. TypeOK /\ t \in User /\ request[q].at = "unlink"
  BY <1>1 DEF TeamInv, WellFormed, Targeted, Await, DeleteMembership, At
<1> DEFINE j == [Idle EXCEPT !.at = "detach", !.target = t]
<1>3. j \in RequestRow /\ j.at = "detach" /\ j.target = t
  BY <1>2 DEF Idle, RequestRow, Await
<1>4. role' = [role EXCEPT ![t] = NULL] /\ Wrote(q, j)
      /\ UNCHANGED <<place, status, invite, joined, torn, doubled, crossed>>
  BY <1>1 DEF DeleteMembership, history
<1> HIDE DEF j
<1>5. Advances(q, j) /\ \A p \in Request \ {q} : ~request'[p].alone
  BY <1>2, <1>3, <1>4, WroteAdvances
<1>6. role' \in [User -> Role \cup {NULL}] /\ place' \in [User -> Place]
      /\ torn' \subseteq User
  BY <1>2, <1>4 DEF TypeOK
<1>7. \A u \in User : role'[u] = IF u = t THEN NULL ELSE role[u]
  BY <1>2, <1>4 DEF TypeOK
<1>8. ASSUME NEW u \in User \ torn' PROVE Membership(u)'
  <2>1. Membership(u)
    BY <1>4 DEF TeamInv
  <2>2. CASE u = t
    <3>1. ~Busy(u, Joining)
      BY <1>1, <1>2, <2>1, <2>2 DEF Membership, Busy, Leaving
    <3>2. ~Busy(u, Joining)' /\ Busy(u, {"detach"})'
      BY <1>3, <1>5, <2>2, <3>1 DEF Busy, Joining, Advances
    <3>3. QED
      BY <1>7, <2>2, <3>2 DEF Membership, Busy, Joining
  <2>3. CASE u # t
    BY <1>1, <1>3, <1>4, <1>5, <1>7, <2>1, <2>3
       DEF Membership, Busy, Leaving, Joining, Advances
  <2>4. QED
    BY <2>2, <2>3
<1>9. QED
  BY <1>2, <1>3, <1>4, <1>5, <1>6, <1>8, MemberWritesKeep

LEMMA DetachUserKeepsInv ==
    ASSUME TeamInv, NEW q \in Request, DetachUser(q) PROVE TeamInv'
<1>1. PICK t : t = request[q].target
  OBVIOUS
<1>2. TypeOK /\ t \in User /\ request[q].at = "detach"
  BY <1>1 DEF TeamInv, WellFormed, Targeted, Await, DetachUser, At
<1>3. place' = [place EXCEPT ![t] = "none"] /\ Goto(q, Idle)
      /\ UNCHANGED <<role, status, invite, joined, torn, doubled, crossed>>
  BY <1>1 DEF DetachUser, history
<1>4. Idle \in RequestRow /\ Idle.at = "idle" /\ Advances(q, Idle)
  BY <1>2, <1>3, IdleIsARequest, GotoAdvances
<1>5. role' \in [User -> Role \cup {NULL}] /\ place' \in [User -> Place]
      /\ torn' \subseteq User
  BY <1>2, <1>3 DEF TypeOK, Place
<1>6. \A u \in User : place'[u] = IF u = t THEN "none" ELSE place[u]
  BY <1>2, <1>3 DEF TypeOK
<1>7. ASSUME NEW u \in User \ torn' PROVE Membership(u)'
  <2>1. Membership(u)
    BY <1>3 DEF TeamInv
  <2>2. /\ Busy(u, Joining)' => Busy(u, Joining)
        /\ Busy(u, Leaving)' => Busy(u, Leaving)
        /\ Busy(u, {"detach"})' => Busy(u, {"detach"})
        /\ Busy(u, {"attach"})' => Busy(u, {"attach"})
    BY <1>4 DEF Busy, Leaving, Joining, Advances
  <2>3. CASE u = t
    <3>1. role[u] = NULL
      BY <1>1, <1>2, <2>1, <2>3 DEF Membership, Busy
    <3>2. QED
      BY <1>3, <1>6, <2>1, <2>2, <2>3, <3>1 DEF Membership
  <2>4. CASE u # t
    <3>1. Busy(u, {"detach", "attach"}) => Busy(u, {"detach", "attach"})'
      BY <1>1, <1>4, <2>4 DEF Busy, Advances
    <3>2. QED
      BY <1>3, <1>6, <2>1, <2>2, <2>4, <3>1 DEF Membership
  <2>5. QED
    BY <2>3, <2>4
<1>8. QED
  BY <1>2, <1>3, <1>4, <1>5, <1>7, MemberWritesKeep

\* The unique index refused the membership: nothing was written.
LEMMA RefusedKeepsInv ==
    ASSUME TeamInv, NEW q \in Request, At(q, "join"), Goto(q, Idle),
           UNCHANGED <<people, invite, history>>
    PROVE  TeamInv'
<1>1. Idle \in RequestRow /\ TypeOK /\ Advances(q, Idle)
  BY IdleIsARequest, GotoAdvances DEF TeamInv
<1>2. TypeOK'
  BY <1>1 DEF TypeOK, Advances, people, history
<1>3. QED
  BY <1>1, <1>2, NothingMoves, DoneKeepsInv DEF people, At

LEMMA InsertMembershipKeepsInv ==
    ASSUME TeamInv, NEW q \in Request, InsertMembership(q) PROVE TeamInv'
<1>1. PICK r : r = request[q]
  OBVIOUS
<1>2. TypeOK /\ r \in RequestRow /\ r.at = "join" /\ r.target \in User /\ r.role \in Role
      /\ r.invite \in Invite /\ invite[r.invite] # NULL
  BY <1>1 DEF TeamInv, TypeOK, WellFormed, Targeted, Giving, Knowing, Await,
              InsertMembership, At
<1>3. CASE role[r.target] # NULL
  <2>1. UNCHANGED <<people, invite, history>> /\ Goto(q, Idle) /\ At(q, "join")
    BY <1>1, <1>3 DEF InsertMembership, people, history
  <2>2. QED
    BY <2>1, RefusedKeepsInv
<1>4. CASE role[r.target] = NULL
  <2> DEFINE j == [r EXCEPT !.at = "attach"]
  <2>1. j \in RequestRow /\ j.at = "attach" /\ j.target = r.target /\ j.invite = r.invite
        /\ j.alone = r.alone
    BY <1>2 DEF RequestRow, Await
  <2>2. /\ role' = [role EXCEPT ![r.target] = r.role]
        /\ joined' = joined \cup {r.invite} /\ Wrote(q, j)
        /\ UNCHANGED <<place, status, invite, torn, doubled, crossed>>
    BY <1>1, <1>4 DEF InsertMembership
  <2> HIDE DEF j
  <2>3. Advances(q, j) /\ \A p \in Request \ {q} : ~request'[p].alone
    BY <1>2, <2>1, <2>2, WroteAdvances
  <2>4. TypeOK' /\ \A u \in User : role'[u] = IF u = r.target THEN r.role ELSE role[u]
    BY <1>2, <2>2, <2>3 DEF TypeOK, Advances
  <2>5. WellFormed(j)' /\ Standing(j)'
    BY <1>2, <2>1, <2>2 DEF WellFormed, Standing, Targeted, Giving, Knowing, Taking
  <2>6. SameStatuses
    BY <1>2, <2>2, NothingMoves
  <2>7. \A p \in Request : WellFormed(request[p])'
    BY <2>1, <2>2, <2>3, <2>5, FormsStay
  <2>8. \A p \in Request : Standing(request[p])'
    BY <2>1, <2>3, <2>5, StandingStays
  <2>9. Distinct'
    BY <2>1, <2>3, DistinctStays
  <2>10. \A e \in User \ doubled' : Invitation(e)'
    BY <2>1, <2>2, <2>3, <2>6, StatusesStay, InvitationStays
  <2>11. ASSUME NEW u \in User \ torn' PROVE Membership(u)'
    <3>1. Membership(u)
      BY <2>2 DEF TeamInv
    <3>2. CASE u = r.target
      <4>1. ~Busy(u, Leaving)
        BY <1>1, <1>2, <3>1, <3>2 DEF Membership, Busy, Joining
      <4>2. ~Busy(u, Leaving)' /\ Busy(u, {"attach"})'
        BY <2>1, <2>3, <3>2, <4>1 DEF Busy, Leaving, Advances
      <4>3. role'[u] # NULL
        BY <1>2, <2>4, <3>2, TeamAssumption
      <4>4. QED
        BY <4>2, <4>3 DEF Membership, Busy, Leaving
    <3>3. CASE u # r.target
      BY <1>1, <2>1, <2>2, <2>3, <2>4, <3>1, <3>3
         DEF Membership, Busy, Leaving, Joining, Advances
    <3>4. QED
      BY <3>2, <3>3
  <2>12. ASSUME NEW k \in Invite \ crossed' PROVE Acceptance(k)'
    <3>1. Acceptance(k)
      BY <2>2 DEF TeamInv
    <3>2. CASE k = r.invite
      <4>1. ~OnInvite(k, {"revoke"})
        BY <1>1, <1>2, <3>1, <3>2 DEF Acceptance, OnInvite, Accepting
      <4>2. ~OnInvite(k, {"revoke"})' /\ OnInvite(k, {"attach", "accepted"})'
        BY <2>1, <2>3, <3>2, <4>1 DEF OnInvite, Advances
      <4>3. QED
        BY <4>2 DEF Acceptance
    <3>3. CASE k # r.invite
      BY <1>1, <2>1, <2>2, <2>3, <3>1, <3>3 DEF Acceptance, OnInvite, Accepting, Advances
    <3>4. QED
      BY <3>2, <3>3
  <2>13. \A k \in joined' : invite'[k] # NULL
    BY <1>2, <2>2 DEF TeamInv
  <2>14. QED
    BY <2>4, <2>7, <2>8, <2>9, <2>10, <2>11, <2>12, <2>13 DEF TeamInv
<1>5. QED
  BY <1>3, <1>4

LEMMA AttachUserKeepsInv ==
    ASSUME TeamInv, NEW q \in Request, AttachUser(q) PROVE TeamInv'
<1>1. PICK r : r = request[q]
  OBVIOUS
<1>2. TypeOK /\ r \in RequestRow /\ r.at = "attach" /\ r.target \in User
      /\ r.invite \in Invite /\ invite[r.invite] # NULL /\ r.invite \in joined
  BY <1>1 DEF TeamInv, TypeOK, WellFormed, Targeted, Knowing, Await, AttachUser, At
<1>3. PICK j : j = [r EXCEPT !.at = "accepted"]
  OBVIOUS
<1>4. j \in RequestRow /\ j.at = "accepted" /\ j.target = r.target /\ j.invite = r.invite
      /\ j.alone = r.alone
  BY <1>2, <1>3 DEF RequestRow, Await
<1>5. /\ place' = [place EXCEPT ![r.target] = "here"] /\ Goto(q, j)
      /\ UNCHANGED <<role, status, invite, joined, torn, doubled, crossed>>
  BY <1>1, <1>3 DEF AttachUser, Then, history
<1>6. Advances(q, j)
  BY <1>2, <1>4, <1>5, GotoAdvances
<1>7. \A u \in User : place'[u] = IF u = r.target THEN "here" ELSE place[u]
  BY <1>2, <1>5 DEF TypeOK
<1>8. TypeOK'
  BY <1>2, <1>5, <1>6 DEF TypeOK, Advances, Place
<1>9. WellFormed(j)' /\ Standing(j)'
  BY <1>2, <1>4, <1>5 DEF WellFormed, Standing, Targeted, Giving, Knowing, Taking
<1>10. SameStatuses
  BY <1>2, <1>5, NothingMoves
<1>11. \A p \in Request : WellFormed(request[p])'
  BY <1>4, <1>5, <1>6, <1>9, FormsStay
<1>12. \A p \in Request : Standing(request[p])'
  BY <1>4, <1>5, <1>6, <1>9, StandingStays
<1>13. Distinct'
  BY <1>4, <1>6, DistinctStays
<1>14. \A e \in User \ doubled' : Invitation(e)'
  BY <1>4, <1>5, <1>6, <1>10, StatusesStay, InvitationStays
<1>15. ASSUME NEW u \in User \ torn' PROVE Membership(u)'
  <2>1. Membership(u)
    BY <1>5 DEF TeamInv
  <2>2. /\ Busy(u, Joining)' => Busy(u, Joining)
        /\ Busy(u, Leaving)' => Busy(u, Leaving)
        /\ Busy(u, {"detach"})' => Busy(u, {"detach"})
        /\ Busy(u, {"attach"})' => Busy(u, {"attach"})
    BY <1>4, <1>6 DEF Busy, Leaving, Joining, Advances
  <2>3. CASE u = r.target
    <3>1. role[u] # NULL
      BY <1>1, <1>2, <2>1, <2>3 DEF Membership, Busy
    <3>2. QED
      BY <1>5, <1>7, <2>1, <2>2, <2>3, <3>1 DEF Membership
  <2>4. CASE u # r.target
    <3>1. Busy(u, {"detach", "attach"}) => Busy(u, {"detach", "attach"})'
      BY <1>1, <1>6, <2>4 DEF Busy, Advances
    <3>2. QED
      BY <1>5, <1>7, <2>1, <2>2, <2>4, <3>1 DEF Membership
  <2>5. QED
    BY <2>3, <2>4
<1>16. ASSUME NEW k \in Invite \ crossed' PROVE Acceptance(k)'
  BY <1>1, <1>2, <1>4, <1>5, <1>6 DEF TeamInv, Acceptance, OnInvite, Accepting, Advances
<1>17. \A k \in joined' : invite'[k] # NULL
  BY <1>5 DEF TeamInv
<1>18. QED
  BY <1>8, <1>11, <1>12, <1>13, <1>14, <1>15, <1>16, <1>17 DEF TeamInv

LEMMA JoinElsewhereKeepsInv ==
    ASSUME TeamInv, NEW u \in User, JoinElsewhere(u) PROVE TeamInv'
<1>1. /\ place' = [place EXCEPT ![u] = "elsewhere"] /\ torn' = torn \cup {u}
      /\ UNCHANGED <<role, status, invite, request, joined, doubled, crossed>>
  BY DEF JoinElsewhere
<1>2. TypeOK' /\ \A v \in User \ {u} : place'[v] = place[v]
  BY <1>1 DEF TeamInv, TypeOK, Place
<1>3. \A q \in Request : WellFormed(request[q])' /\ Standing(request[q])'
  BY <1>1 DEF TeamInv, WellFormed, Standing
<1>4. \A v \in User \ torn' : Membership(v)'
  BY <1>1, <1>2 DEF TeamInv, Membership, Busy
<1>5. \A e \in User \ doubled' : Invitation(e)'
  BY <1>1 DEF TeamInv, Invitation, Busy, Pending
<1>6. \A k \in Invite \ crossed' : Acceptance(k)'
  BY <1>1 DEF TeamInv, Acceptance, OnInvite
<1>7. Distinct' /\ \A k \in joined' : invite'[k] # NULL
  BY <1>1 DEF TeamInv, Distinct, At
<1>8. QED
  BY <1>2, <1>3, <1>4, <1>5, <1>6, <1>7 DEF TeamInv

\* Where a death may leave the rows apart, it is remembered.
LEMMA FailKeepsInv ==
    ASSUME TeamInv, NEW q \in Request, Fail(q) PROVE TeamInv'
<1>1. PICK r : r = request[q]
  OBVIOUS
<1>2. TypeOK /\ r \in RequestRow /\ WellFormed(r) /\ r.at \in Fatal
  BY <1>1 DEF TeamInv, TypeOK, Fail
<1>3. /\ Goto(q, Idle)
      /\ UNCHANGED <<role, place, status, invite, joined, doubled>>
      /\ torn' = IF r.at \in {"detach", "attach"} THEN torn \cup {r.target} ELSE torn
      /\ crossed' = IF r.at \in {"attach", "accepted"} THEN crossed \cup {r.invite} ELSE crossed
  BY <1>1 DEF Fail, people
<1>4. torn' \subseteq User /\ crossed' \subseteq Invite
  BY <1>2, <1>3 DEF TypeOK, WellFormed, Targeted, Knowing, Await
<1>5. Idle \in RequestRow /\ Idle.at = "idle" /\ Advances(q, Idle)
  BY <1>2, <1>3, IdleIsARequest, GotoAdvances
<1>6. TypeOK'
  BY <1>2, <1>3, <1>4, <1>5 DEF TypeOK, Advances
<1>7. SameStatuses
  BY <1>2, <1>3, NothingMoves
<1>8. \A p \in Request : WellFormed(request[p])'
  BY <1>3, <1>5, IdleIsWellFormed, FormsStay
<1>9. \A p \in Request : Standing(request[p])'
  BY <1>3, <1>5, IdleIsWellFormed, StandingStays
<1>10. Distinct'
  BY <1>5, DistinctStays
<1>11. \A e \in User \ doubled' : Invitation(e)'
  BY <1>3, <1>5, <1>7, StatusesStay, InvitationStays
<1>12. ASSUME NEW u \in User \ torn' PROVE Membership(u)'
  <2>1. Membership(u) /\ (r.at \in {"detach", "attach"} => u # r.target)
    BY <1>3 DEF TeamInv
  <2>2. /\ Busy(u, Joining)' => Busy(u, Joining)
        /\ Busy(u, Leaving)' => Busy(u, Leaving)
        /\ Busy(u, {"detach"})' => Busy(u, {"detach"})
        /\ Busy(u, {"attach"})' => Busy(u, {"attach"})
    BY <1>5 DEF Busy, Leaving, Joining, Advances
  <2>3. Busy(u, {"detach", "attach"}) => Busy(u, {"detach", "attach"})'
    BY <1>1, <1>5, <2>1 DEF Busy, Advances
  <2>4. QED
    BY <1>3, <2>1, <2>2, <2>3 DEF Membership
<1>13. ASSUME NEW k \in Invite \ crossed' PROVE Acceptance(k)'
  <2>1. Acceptance(k) /\ (r.at \in {"attach", "accepted"} => k # r.invite)
    BY <1>3 DEF TeamInv
  <2>2. /\ OnInvite(k, {"revoke"})' => OnInvite(k, {"revoke"})
        /\ OnInvite(k, Accepting)' => OnInvite(k, Accepting)
        /\ OnInvite(k, {"attach", "accepted"}) => OnInvite(k, {"attach", "accepted"})'
    BY <1>1, <1>5, <2>1 DEF OnInvite, Accepting, Advances
  <2>3. QED
    BY <1>3, <2>1, <2>2 DEF Acceptance
<1>14. \A k \in joined' : invite'[k] # NULL
  BY <1>3 DEF TeamInv
<1>15. QED
  BY <1>6, <1>8, <1>9, <1>10, <1>11, <1>12, <1>13, <1>14 DEF TeamInv

(***************************************************************************)
(* The theorems.                                                           *)
(***************************************************************************)

LEMMA StepTeamInv == TeamInv /\ [Next]_vars => TeamInv'
<1> SUFFICES ASSUME TeamInv, [Next]_vars PROVE TeamInv'
  OBVIOUS
<1>1. ASSUME NEW q \in Request, Manage(q) PROVE TeamInv'
  <2>1. Given \subseteq Role
    BY TeamAssumption DEF Assignable, Role
  <2>2. QED
    BY <1>1, UpdateMemberRoleKeepsInv, CreateInviteKeepsInv, RemoveMemberKeepsInv,
       DeactivateMemberKeepsInv, ReactivateMemberKeepsInv, ResendInviteKeepsInv,
       RevokeInviteKeepsInv, AcceptInviteKeepsInv, GrantRoleKeepsInv DEF Manage
<1>2. ASSUME NEW q \in Request, Continue(q) PROVE TeamInv'
  BY <1>2, SetRoleKeepsInv, DeleteMembershipKeepsInv, DetachUserKeepsInv,
     WriteStatusKeepsInv, InsertInviteKeepsInv, RefreshInviteKeepsInv, RenewInviteKeepsInv,
     WriteRevokedKeepsInv, InsertMembershipKeepsInv, AttachUserKeepsInv,
     MarkAcceptedKeepsInv DEF Continue, WriteRole, WriteGrant
<1>3. CASE UNCHANGED vars
  <2>1. UNCHANGED <<role, place, status, invite, request, joined, torn, doubled, crossed>>
    BY <1>3 DEF vars
  <2>2. QED
    BY <2>1 DEF TeamInv, TypeOK, WellFormed, Standing, Distinct, At, Membership, Busy,
                Invitation, Pending, Acceptance, OnInvite
<1>4. QED
  BY <1>1, <1>2, <1>3, FailKeepsInv, ExpireInviteKeepsInv, JoinElsewhereKeepsInv DEF Next

LEMMA TeamInvAlways == Spec => []TeamInv
BY InitTeamInv, StepTeamInv, PTL DEF Spec

\* Users, invites and requests keep their types.
THEOREM TeamTypeCorrect == Spec => []TypeOK
<1>1. TeamInv => TypeOK
  BY DEF TeamInv
<1>2. QED
  BY <1>1, TeamInvAlways, PTL

\* Whoever has a role belongs here, and the other way round, however requests
\* overlap.
THEOREM MembersAreWhole == Spec => []MembershipWhole
<1>1. TeamInv => MembershipWhole
  BY DEF TeamInv, Membership, MembershipWhole
<1>2. QED
  BY <1>1, TeamInvAlways, PTL

\* An address has one pending invite at most, and an invite says "accepted" if
\* somebody has become a member by it.
THEOREM InvitesAreHonest == Spec => []InvitesTellTruth
<1>1. ASSUME TeamInv PROVE InvitesTellTruth
  <2>1. ASSUME NEW e \in User \ doubled PROVE Cardinality(Pending(e)) <= 1
    <3>1. \A i, k \in Pending(e) : i = k
      BY <1>1 DEF TeamInv, Invitation
    <3>2. CASE Pending(e) = {}
      BY <3>2, FS_EmptySet
    <3>3. CASE Pending(e) # {}
      <4>1. PICK i : i \in Pending(e)
        BY <3>3
      <4>2. Pending(e) = {i}
        BY <3>1, <4>1
      <4>3. Cardinality(Pending(e)) = 1
        BY <4>2, FS_Singleton
      <4>4. QED
        BY <4>3
    <3>4. QED
      BY <3>2, <3>3
  <2>2. ASSUME NEW i \in Invite \ crossed, invite[i] # NULL, ~OnInvite(i, Accepting)
        PROVE  i \in joined <=> invite[i].status = "accepted"
    BY <1>1, <2>2 DEF TeamInv, Acceptance, OnInvite, Accepting
  <2>3. QED
    BY <2>1, <2>2 DEF InvitesTellTruth
<1>2. QED
  BY <1>1, TeamInvAlways, PTL

\* The steps that write a role or an account.
LEMMA WritersOfRoles ==
    ASSUME [Next]_vars
    PROVE  \/ UNCHANGED <<role, status>>
           \/ \E q \in Request :
                 \/ SetRole(q, "writeRole") \/ SetRole(q, "grant")
                 \/ DeleteMembership(q) \/ InsertMembership(q) \/ WriteStatus(q)
<1>1. ASSUME NEW q \in Request, Manage(q) \/ Fail(q) PROVE UNCHANGED <<role, status>>
  BY <1>1 DEF Manage, Fail, UpdateMemberRole, CreateInvite, RemoveMember, DeactivateMember,
              ReactivateMember, ResendInvite, RevokeInvite, AcceptInvite, GrantRole, people
<1>2. ASSUME NEW q \in Request, Continue(q)
      PROVE  \/ UNCHANGED <<role, status>>
             \/ SetRole(q, "writeRole") \/ SetRole(q, "grant")
             \/ DeleteMembership(q) \/ InsertMembership(q) \/ WriteStatus(q)
  BY <1>2 DEF Continue, WriteRole, WriteGrant, DetachUser, InsertInvite, RefreshInvite,
              RenewInvite, WriteRevoked, AttachUser, MarkAccepted, people
<1>3. QED
  BY <1>1, <1>2 DEF Next, ExpireInvite, JoinElsewhere, people, vars

\* Nobody takes an owner's role, or his account, but an owner, the platform, or
\* a request that another change of roles has overtaken.
THEOREM OwnersFallToOwners == Spec => OwnersStay
<1>1. TeamInv /\ [Next]_vars
        => [\A u \in User :
              /\ role[u] = "owner"
              /\ \/ role'[u] # "owner"
                 \/ status[u] = "active" /\ status'[u] = "deactivated"
              => \E q \in Request :
                    /\ request[q].target = u /\ request'[q] # request[q]
                    /\ \/ request[q].was \in {"owner", "platform"}
                       \/ ~request[q].alone]_vars
  <2>1. SUFFICES ASSUME TeamInv, [Next]_vars, NEW u \in User, role[u] = "owner",
                        \/ role'[u] # "owner"
                        \/ status[u] = "active" /\ status'[u] = "deactivated"
                 PROVE  \E q \in Request :
                          /\ request[q].target = u /\ request'[q] # request[q]
                          /\ \/ request[q].was \in {"owner", "platform"}
                             \/ ~request[q].alone
    OBVIOUS
  <2>2. PICK q \in Request :
           \/ SetRole(q, "writeRole") \/ SetRole(q, "grant")
           \/ DeleteMembership(q) \/ InsertMembership(q) \/ WriteStatus(q)
    BY <2>1, WritersOfRoles
  <2>3. TypeOK /\ WellFormed(request[q]) /\ Standing(request[q])
    BY <2>1 DEF TeamInv
  <2>4. /\ request[q].target = u
        /\ request[q].at \in {"writeRole", "grant", "unlink", "deactivate"}
        /\ request'[q].at \in {"idle", "detach"}
    <3>1. Idle.at = "idle" /\ \A t : [Idle EXCEPT !.at = "detach", !.target = t].at = "detach"
      BY DEF Idle
    <3>2. ASSUME NEW await \in {"writeRole", "grant"}, SetRole(q, await)
          PROVE  request[q].at = await /\ request[q].target = u /\ request'[q].at = "idle"
      BY <2>1, <2>3, <3>1, <3>2 DEF SetRole, At, TypeOK, Wrote
    <3>3. ASSUME DeleteMembership(q)
          PROVE  request[q].at = "unlink" /\ request[q].target = u /\ request'[q].at = "detach"
      <4>1. PICK j : j = [Idle EXCEPT !.at = "detach", !.target = request[q].target]
        OBVIOUS
      <4>2. Wrote(q, j) /\ j.at = "detach"
        BY <3>1, <3>3, <4>1 DEF DeleteMembership
      <4>3. request'[q].at = "detach"
        BY <4>2 DEF Wrote
      <4>4. request[q].at = "unlink" /\ request[q].target = u
        BY <2>1, <2>3, <3>3 DEF DeleteMembership, At, TypeOK
      <4>5. QED
        BY <4>3, <4>4
    <3>4. ~InsertMembership(q)
      BY <2>1, <2>3, TeamAssumption DEF InsertMembership, TypeOK, Role
    <3>5. ASSUME WriteStatus(q)
          PROVE  /\ request[q].at = "deactivate" /\ request[q].target = u
                 /\ request'[q].at = "idle"
      BY <2>1, <2>3, <3>1, <3>5 DEF WriteStatus, At, TypeOK, Goto, people
    <3>6. QED
      BY <2>2, <3>2, <3>3, <3>4, <3>5
  <2>5. QED
    BY <2>1, <2>3, <2>4 DEF Standing, Taking
<1>2. QED
  BY <1>1, TeamInvAlways, PTL DEF Spec, OwnersStay

(***************************************************************************)
(* The administration: what holds for every number of users, requests and  *)
(* organizations and for all lifetimes.  Who lost a scope is not served    *)
(* under it, and who may not sign in keeps no access token, for longer     *)
(* than the lifetime that the code promises and the longest of the reads   *)
(* that were under way.                                                    *)
(***************************************************************************)


Row == [platform : BOOLEAN, role : Roles]

\* Ticks that a session, and a scope, may outlive its loss by.
EntryLimit == AccessTTL + Latency
AdminLimit == CacheTTL + Latency

Requests == [at : {"idle", "issue", "renew", "patch", "role", "mark", "revoke", "install"},
             by : Account \cup {Nobody},
             row : Row \cup {Nobody},
             body : Body \cup {Nobody},
             waited : 0 .. Latency]

DeskWork(r) ==
    /\ r \in Requests
    /\ r.at # "idle" => r.by \in Account
    /\ r.at = "install" => r.row \in Row
    /\ r.at \in {"patch", "role"} => r.body \in Body
    /\ r.at = "role" => r.body.role \in Roles

GraceTypeOK ==
    /\ AdministrationTypeOK
    /\ remembered \in [Account -> [row : Row, left : 0 .. CacheTTL] \cup {Nobody}]
    /\ desk \in [Desk -> Requests] /\ \A d \in Desk : DeskWork(desk[d])
    /\ adminGrace \in [Account -> [Scopes -> 0 .. AdminLimit]]
    /\ entryGrace \in [Account -> 0 .. EntryLimit]

\* A request that was let in at the gate has, as ticks pass, used up of the
\* grace no more than it waited.
InTime(r) ==
    /\ r.at = "issue" => EntryLimit <= EntryGrace(r.by) + r.waited
    /\ r.at = "install" =>
          \A s \in Scopes :
             AdminScope(r.by, r.row) = s => AdminLimit <= AdminGrace(r.by, s) + r.waited

ServedInTime(u) ==
    remembered[u] # Nobody =>
        \A s \in Scopes : AdminScope(u, remembered[u].row) = s
                             => remembered[u].left <= AdminGrace(u, s)

\* The strengthening of StandingIsRecent that is inductive.
GraceInv ==
    /\ GraceTypeOK
    /\ \A d \in Desk : InTime(desk[d])
    /\ \A u \in Account : access[u] <= EntryGrace(u) /\ ServedInTime(u)

(***************************************************************************)
(* What a request may do to the state, and why the invariant survives it.  *)
(***************************************************************************)

\* Only the request of d moves; it starts to wait for its tokens only for a
\* user who may sign in now, and for a row that it has read now.
DeskMoves(d) ==
    /\ desk' = [desk EXCEPT ![d] = desk'[d]]
    /\ DeskWork(desk'[d])
    /\ desk'[d].at = "issue" => EnforceAccountAccess(desk'[d].by)
    /\ desk'[d].at = "install" =>
          \A s \in Scopes : AdminScope(desk'[d].by, desk'[d].row) = s
                               => Stands(desk'[d].by, s)

\* Tokens and cache entries are those of requests that waited.
Serves(d) ==
    /\ remembered' \in [Account -> [row : Row, left : 0 .. CacheTTL] \cup {Nobody}]
    /\ \A u \in Account :
          /\ \/ access'[u] = access[u]
             \/ access'[u] = AccessTTL /\ desk[d].at = "issue" /\ desk[d].by = u
          /\ \/ remembered'[u] = remembered[u]
             \/ /\ remembered'[u] = [row |-> desk[d].row, left |-> CacheTTL]
                /\ desk[d].at = "install" /\ desk[d].by = u

Moves(d) == AdministrationTypeOK' /\ DeskMoves(d) /\ Serves(d)

LEMMA Lifetimes ==
    /\ CacheTTL \in Nat /\ AccessTTL \in Nat /\ Latency \in Nat
    /\ EntryLimit \in Nat /\ AdminLimit \in Nat
    /\ LentTTL \in Nat /\ EnterTTL \in Nat
BY AdministrationAssumption DEF EntryLimit, AdminLimit

LEMMA GracesAreTicks ==
    ASSUME GraceTypeOK, NEW u \in Account, NEW s \in Scopes
    PROVE  EntryGrace(u) \in 0 .. EntryLimit /\ AdminGrace(u, s) \in 0 .. AdminLimit
BY Lifetimes DEF GraceTypeOK, EntryGrace, AdminGrace, EntryLimit, AdminLimit

LEMMA GracesStayTicks ==
    ASSUME GraceTypeOK', NEW u \in Account, NEW s \in Scopes
    PROVE  EntryGrace(u)' \in 0 .. EntryLimit /\ AdminGrace(u, s)' \in 0 .. AdminLimit
BY Lifetimes DEF GraceTypeOK, EntryGrace, AdminGrace, EntryLimit, AdminLimit, Scopes

LEMMA GracesStayTyped ==
    ASSUME GraceTypeOK, NEW n \in {0, 1}, Follow(n)
    PROVE  /\ (adminGrace \in [Account -> [Scopes -> 0 .. AdminLimit]])'
           /\ (entryGrace \in [Account -> 0 .. EntryLimit])'
<1>1. \A x \in 0 .. AdminLimit : Sooner(x) \in 0 .. AdminLimit
  BY Lifetimes DEF Sooner
<1>2. \A x \in 0 .. EntryLimit : Sooner(x) \in 0 .. EntryLimit
  BY Lifetimes DEF Sooner
<1>3. AdminLimit \in 0 .. AdminLimit /\ EntryLimit \in 0 .. EntryLimit
  BY Lifetimes
<1>4. (adminGrace \in [Account -> [Scopes -> 0 .. AdminLimit]])'
  BY <1>1, <1>3 DEF Follow, GraceTypeOK, AdminLimit
<1>5. (entryGrace \in [Account -> 0 .. EntryLimit])'
  BY <1>2, <1>3 DEF Follow, GraceTypeOK, EntryLimit
<1>6. QED
  BY <1>4, <1>5

\* A step that takes no time takes no grace, and leaves all of it to who
\* stands when it begins.
LEMMA GracesLast ==
    ASSUME GraceTypeOK, Follow(0), NEW u \in Account, NEW s \in Scopes
    PROVE  /\ EntryGrace(u) <= EntryGrace(u)'
           /\ AdminGrace(u, s) <= AdminGrace(u, s)'
           /\ EnforceAccountAccess(u) => EntryGrace(u)' = EntryLimit
           /\ Stands(u, s) => AdminGrace(u, s)' = AdminLimit
<1>1. /\ entryGrace'[u] = IF EnforceAccountAccess(u) THEN EntryLimit ELSE entryGrace[u]
      /\ adminGrace'[u][s] = IF Stands(u, s) THEN AdminLimit ELSE adminGrace[u][s]
  BY DEF Follow, EntryLimit, AdminLimit
<1>2. entryGrace[u] \in 0 .. EntryLimit /\ adminGrace[u][s] \in 0 .. AdminLimit
  BY DEF GraceTypeOK
<1>3. EntryGrace(u) <= EntryGrace(u)'
  BY <1>1, <1>2, Lifetimes DEF EntryGrace, EntryLimit
<1>4. AdminGrace(u, s) <= AdminGrace(u, s)'
  BY <1>1, <1>2, Lifetimes DEF AdminGrace, AdminLimit
<1>5. EnforceAccountAccess(u) => EntryGrace(u)' = EntryLimit
  BY <1>1 DEF EntryGrace, EntryLimit
<1>6. Stands(u, s) => AdminGrace(u, s)' = AdminLimit
  BY <1>1 DEF AdminGrace, AdminLimit
<1>7. QED
  BY <1>3, <1>4, <1>5, <1>6

\* A tick takes at most one.
LEMMA GracesWane ==
    ASSUME GraceTypeOK, Follow(1), UNCHANGED <<account, company>>,
           NEW u \in Account, NEW s \in Scopes
    PROVE  /\ EntryGrace(u) <= EntryGrace(u)' + 1
           /\ AdminGrace(u, s) <= AdminGrace(u, s)' + 1
           /\ Sooner(EntryGrace(u)) <= EntryGrace(u)'
           /\ Sooner(AdminGrace(u, s)) <= AdminGrace(u, s)'
<1>1. /\ entryGrace'[u] = IF EnforceAccountAccess(u) THEN EntryLimit
                          ELSE Sooner(entryGrace[u])
      /\ adminGrace'[u][s] = IF Stands(u, s) THEN AdminLimit
                             ELSE Sooner(adminGrace[u][s])
  BY DEF Follow, EntryLimit, AdminLimit
<1>2. entryGrace[u] \in 0 .. EntryLimit /\ adminGrace[u][s] \in 0 .. AdminLimit
  BY DEF GraceTypeOK
<1>3. EnforceAccountAccess(u)' = EnforceAccountAccess(u) /\ Stands(u, s)' = Stands(u, s)
  BY DEF EnforceAccountAccess, Stands, AdminScope
<1>4. /\ EntryGrace(u) = IF EnforceAccountAccess(u) THEN EntryLimit ELSE entryGrace[u]
      /\ EntryGrace(u)' = IF EnforceAccountAccess(u) THEN EntryLimit
                          ELSE Sooner(entryGrace[u])
  BY <1>1, <1>3 DEF EntryGrace, EntryLimit
<1>5. /\ AdminGrace(u, s) = IF Stands(u, s) THEN AdminLimit ELSE adminGrace[u][s]
      /\ AdminGrace(u, s)' = IF Stands(u, s) THEN AdminLimit
                             ELSE Sooner(adminGrace[u][s])
  BY <1>1, <1>3 DEF AdminGrace, AdminLimit
<1>6. QED
  BY <1>2, <1>4, <1>5, Lifetimes DEF Sooner

LEMMA ScopeOrNone ==
    ASSUME NEW u \in Account, NEW row
    PROVE  AdminScope(u, row) \in Scopes \cup {Nobody}
BY AdministrationAssumption DEF AdminScope, Scopes

LEMMA MovesKeepInv ==
    ASSUME GraceInv, Follow(0), NEW d \in Desk, Moves(d)
    PROVE  GraceInv'
<1>1. GraceTypeOK'
  <2>1. \A e \in Desk : DeskWork(desk'[e])
    BY DEF GraceInv, GraceTypeOK, Moves, DeskMoves
  <2>2. desk' \in [Desk -> Requests]
    <3>1. desk'[d] \in Requests
      BY <2>1 DEF DeskWork
    <3>2. QED
      BY <3>1 DEF GraceInv, GraceTypeOK, Moves, DeskMoves
  <2>3. (\A e \in Desk : DeskWork(desk[e]))'
    BY <2>1 DEF DeskWork, Requests, Row
  <2>4. QED
    BY <2>2, <2>3, GracesStayTyped
    DEF GraceInv, GraceTypeOK, Moves, Serves, Requests, Row, AdminLimit, EntryLimit, Scopes
<1>2. ASSUME NEW e \in Desk PROVE InTime(desk[e])'
  <2> DEFINE r == desk'[e]
  <2>1. CASE e = d /\ r.at = "issue"
    <3>1. r.by \in Account /\ EnforceAccountAccess(r.by) /\ r.waited \in 0 .. Latency
      BY <2>1 DEF Moves, DeskMoves, DeskWork, Requests
    <3>2. PICK u \in Account : u = r.by
      BY <3>1
    <3>3. EntryGrace(u)' = EntryLimit
      BY <3>1, <3>2, GracesLast DEF GraceInv, Scopes
    <3>4. QED
      BY <2>1, <3>1, <3>2, <3>3, Lifetimes DEF InTime
  <2>2. CASE e = d /\ r.at = "install"
    <3>1. PICK u \in Account : u = r.by
      BY <2>2 DEF Moves, DeskMoves, DeskWork
    <3>2. r.waited \in 0 .. Latency
      BY <2>2 DEF Moves, DeskMoves, DeskWork, Requests
    <3>3. ASSUME NEW s \in Scopes, AdminScope(u, r.row) = s
          PROVE  AdminGrace(u, s)' = AdminLimit
      BY <2>2, <3>1, <3>3, GracesLast DEF GraceInv, Moves, DeskMoves
    <3>4. QED
      BY <2>2, <3>1, <3>2, <3>3, Lifetimes DEF InTime
  <2>3. CASE e # d /\ r.at = "issue"
    <3>1. r = desk[e] /\ InTime(desk[e]) /\ DeskWork(desk[e])
      BY <2>3 DEF Moves, DeskMoves, GraceInv, GraceTypeOK
    <3>2. PICK u \in Account : u = r.by
      BY <2>3, <3>1 DEF DeskWork
    <3>3. EntryGrace(u) \in Nat /\ EntryGrace(u)' \in Nat /\ EntryGrace(u) <= EntryGrace(u)'
      BY <1>1, GracesLast, GracesAreTicks, GracesStayTicks, Lifetimes DEF GraceInv, Scopes
    <3>4. r.waited \in 0 .. Latency
      BY <3>1 DEF DeskWork, Requests
    <3>5. EntryLimit <= EntryGrace(u) + r.waited
      BY <2>3, <3>1, <3>2 DEF InTime
    <3>6. QED
      BY <2>3, <3>2, <3>3, <3>4, <3>5, Lifetimes DEF InTime
  <2>4. CASE e # d /\ r.at = "install"
    <3>1. r = desk[e] /\ InTime(desk[e]) /\ DeskWork(desk[e])
      BY <2>4 DEF Moves, DeskMoves, GraceInv, GraceTypeOK
    <3>2. PICK u \in Account : u = r.by
      BY <2>4, <3>1 DEF DeskWork
    <3>3. r.waited \in 0 .. Latency
      BY <3>1 DEF DeskWork, Requests
    <3>4. ASSUME NEW s \in Scopes, AdminScope(u, r.row) = s
          PROVE  AdminLimit <= AdminGrace(u, s)' + r.waited
      <4>1. AdminLimit <= AdminGrace(u, s) + r.waited
        BY <2>4, <3>1, <3>2, <3>4 DEF InTime
      <4>2. /\ AdminGrace(u, s) \in Nat /\ AdminGrace(u, s)' \in Nat
            /\ AdminGrace(u, s) <= AdminGrace(u, s)'
        BY <1>1, GracesLast, GracesAreTicks, GracesStayTicks, Lifetimes DEF GraceInv
      <4>3. QED
        BY <4>1, <4>2, <3>3, Lifetimes
    <3>5. QED
      BY <2>4, <3>2, <3>4 DEF InTime
  <2>5. QED
    BY <2>1, <2>2, <2>3, <2>4 DEF InTime
<1>3. ASSUME NEW u \in Account PROVE access'[u] <= EntryGrace(u)'
  <2>1. EntryGrace(u) \in Nat /\ EntryGrace(u)' \in Nat /\ EntryGrace(u) <= EntryGrace(u)'
    BY <1>1, GracesLast, GracesAreTicks, GracesStayTicks, Lifetimes DEF GraceInv, Scopes
  <2>2. access[u] \in Nat /\ access[u] <= EntryGrace(u)
    BY Lifetimes DEF GraceInv, GraceTypeOK, AdministrationTypeOK
  <2>3. CASE access'[u] = AccessTTL /\ desk[d].at = "issue" /\ desk[d].by = u
    <3>1. EntryLimit <= EntryGrace(u) + desk[d].waited /\ desk[d].waited \in 0 .. Latency
      BY <2>3 DEF GraceInv, GraceTypeOK, InTime, DeskWork, Requests
    <3>2. QED
      BY <2>1, <2>3, <3>1, Lifetimes DEF EntryLimit
  <2>4. QED
    BY <2>1, <2>2, <2>3 DEF Moves, Serves
<1>4. ASSUME NEW u \in Account PROVE ServedInTime(u)'
  <2> SUFFICES ASSUME remembered'[u] # Nobody, NEW s \in Scopes,
                      AdminScope(u, remembered'[u].row) = s
               PROVE  remembered'[u].left <= AdminGrace(u, s)'
    BY DEF ServedInTime
  <2>1. /\ AdminGrace(u, s) \in Nat /\ AdminGrace(u, s)' \in Nat
        /\ AdminGrace(u, s) <= AdminGrace(u, s)'
    BY <1>1, GracesLast, GracesAreTicks, GracesStayTicks, Lifetimes DEF GraceInv
  <2>2. CASE remembered'[u] = remembered[u]
    <3>1. remembered[u].left \in Nat /\ remembered[u].left <= AdminGrace(u, s)
      BY <2>2, Lifetimes DEF GraceInv, GraceTypeOK, ServedInTime
    <3>2. QED
      BY <2>1, <2>2, <3>1
  <2>3. CASE /\ remembered'[u] = [row |-> desk[d].row, left |-> CacheTTL]
             /\ desk[d].at = "install" /\ desk[d].by = u
    <3>1. AdminLimit <= AdminGrace(u, s) + desk[d].waited /\ desk[d].waited \in 0 .. Latency
      BY <2>3 DEF GraceInv, GraceTypeOK, InTime, DeskWork, Requests
    <3>2. QED
      BY <2>1, <2>3, <3>1, Lifetimes DEF AdminLimit
  <2>4. QED
    BY <2>2, <2>3 DEF Moves, Serves
<1>5. QED
  BY <1>1, <1>2, <1>3, <1>4 DEF GraceInv

(***************************************************************************)
(* Each action moves one request.                                          *)
(***************************************************************************)

LEMMA AtRestIsDeskWork == AtRest \in Requests /\ DeskWork(AtRest)
BY Lifetimes DEF AtRest, Requests, DeskWork

LEMMA DoneMoves ==
    ASSUME GraceInv, NEW d \in Desk, DeskDone(d)
    PROVE  DeskMoves(d)
<1>1. desk' = [desk EXCEPT ![d] = AtRest] /\ desk'[d] = AtRest
  BY DEF GraceInv, GraceTypeOK, DeskDone
<1>2. AtRest.at = "idle"
  BY DEF AtRest
<1>3. QED
  BY <1>1, <1>2, AtRestIsDeskWork DEF DeskMoves

\* A request that begins to wait for nothing that could expire.
LEMMA GoesOn ==
    ASSUME GraceInv, NEW d \in Desk, NEW r \in Requests, DeskWork(r),
           r.at \notin {"issue", "install"}, desk' = [desk EXCEPT ![d] = r]
    PROVE  DeskMoves(d)
BY DEF GraceInv, GraceTypeOK, DeskMoves

LEMMA OthersServe ==
    ASSUME GraceInv, NEW d \in Desk, UNCHANGED <<access, remembered>>
    PROVE  Serves(d)
BY DEF GraceInv, GraceTypeOK, Serves

Accounts == [status : Condition, platform : BOOLEAN, role : Roles]

LEMMA AccountIsTyped ==
    ASSUME GraceInv, NEW u \in Account, NEW row \in Accounts,
           account' = [account EXCEPT ![u] = row],
           UNCHANGED <<company, renewable, access, lent>>
    PROVE  AdministrationTypeOK'
BY DEF GraceInv, GraceTypeOK, AdministrationTypeOK, Accounts

LEMMA SignInMoves ==
    ASSUME GraceInv, NEW d \in Desk, NEW u \in Account, SignIn(d, u)
    PROVE  Moves(d)
<1> DEFINE r == [AtRest EXCEPT !.at = "issue", !.by = u]
<1>1. r \in Requests /\ DeskWork(r) /\ r.at = "issue" /\ r.by = u
  BY AtRestIsDeskWork DEF AtRest, Requests, DeskWork
<1>2. desk' = [desk EXCEPT ![d] = r] /\ desk'[d] = r
  BY DEF SignIn, GraceInv, GraceTypeOK
<1> HIDE DEF r
<1>3. DeskMoves(d)
  BY <1>1, <1>2 DEF DeskMoves, SignIn
<1>4. QED
  BY <1>3, OthersServe DEF Moves, SignIn, GraceInv, GraceTypeOK, AdministrationTypeOK

LEMMA RenewMoves ==
    ASSUME GraceInv, NEW d \in Desk, NEW u \in Account, Renew(d, u)
    PROVE  Moves(d)
<1> DEFINE r == [AtRest EXCEPT !.at = "renew", !.by = u]
<1>1. r \in Requests /\ DeskWork(r) /\ r.at = "renew"
  BY AtRestIsDeskWork DEF AtRest, Requests, DeskWork
<1>2. desk' = [desk EXCEPT ![d] = r]
  BY DEF Renew
<1> HIDE DEF r
<1>3. DeskMoves(d)
  BY <1>1, <1>2, GoesOn
<1>4. QED
  BY <1>3, OthersServe DEF Moves, Renew, GraceInv, GraceTypeOK, AdministrationTypeOK

LEMMA RenewGateMoves ==
    ASSUME GraceInv, NEW d \in Desk, RenewGate(d)
    PROVE  Moves(d)
<1>1. DeskMoves(d)
  <2>1. CASE EnforceAccountAccess(desk[d].by)
    <3> DEFINE r == [desk[d] EXCEPT !.at = "issue"]
    <3>1. /\ desk[d] \in Requests /\ desk[d].by \in Account
      BY DEF RenewGate, GraceInv, GraceTypeOK, DeskWork
    <3>2. r \in Requests /\ DeskWork(r) /\ r.at = "issue" /\ r.by = desk[d].by
      BY <3>1 DEF Requests, DeskWork
    <3>3. desk' = [desk EXCEPT ![d] = r] /\ desk'[d] = r
      BY <2>1 DEF RenewGate, GraceInv, GraceTypeOK
    <3> HIDE DEF r
    <3>4. QED
      BY <2>1, <3>2, <3>3 DEF DeskMoves
  <2>2. CASE ~EnforceAccountAccess(desk[d].by)
    BY <2>2, DoneMoves DEF RenewGate
  <2>3. QED
    BY <2>1, <2>2
<1>2. QED
  BY <1>1, OthersServe DEF Moves, RenewGate, GraceInv, GraceTypeOK, AdministrationTypeOK

LEMMA GenerateTokensMoves ==
    ASSUME GraceInv, NEW d \in Desk, GenerateTokens(d)
    PROVE  Moves(d)
<1>1. desk[d].by \in Account
  BY DEF GenerateTokens, GraceInv, GraceTypeOK, DeskWork
<1>2. DeskMoves(d)
  BY DoneMoves DEF GenerateTokens
<1>3. Serves(d)
  BY <1>1 DEF GenerateTokens, GraceInv, GraceTypeOK, AdministrationTypeOK, Serves
<1>4. AdministrationTypeOK'
  BY <1>1, Lifetimes DEF GenerateTokens, GraceInv, GraceTypeOK, AdministrationTypeOK
<1>5. QED
  BY <1>2, <1>3, <1>4 DEF Moves

LEMMA UpdateUserMoves ==
    ASSUME GraceInv, NEW d \in Desk, UpdateUser(d)
    PROVE  Moves(d)
<1>1. /\ desk[d] \in Requests /\ desk[d].by \in Account /\ desk[d].body \in Body
      /\ DeskWork(desk[d])
  BY DEF UpdateUser, GraceInv, GraceTypeOK, DeskWork
<1>2. PICK u \in Account, body \in Body : u = desk[d].by /\ body = desk[d].body
  BY <1>1
<1>3. /\ body.status \in Condition \cup {NotSent}
      /\ body.platform \in {"granted", "revoked", NotSent}
      /\ body.role \in Roles \cup {NotSent}
  BY AdministrationAssumption
<1>4. AdministrationTypeOK'
  <2> DEFINE row == [account[u] EXCEPT
                       !.status = IF body.status = NotSent THEN @ ELSE body.status,
                       !.platform = CASE body.platform = "granted" -> TRUE
                                      [] body.platform = "revoked" -> FALSE
                                      [] OTHER -> @]
  <2>1. account[u] \in Accounts
    BY DEF GraceInv, GraceTypeOK, AdministrationTypeOK, Accounts
  <2>2. row \in Accounts
    BY <1>3, <2>1 DEF Accounts
  <2>3. account' = [account EXCEPT ![u] = row]
    BY <1>2 DEF UpdateUser
  <2> HIDE DEF row
  <2>4. UNCHANGED <<company, renewable, access, lent>>
    BY DEF UpdateUser
  <2>5. QED
    BY <2>2, <2>3, <2>4, AccountIsTyped
<1>5. DeskMoves(d)
  <2>1. CASE body.role = NotSent \/ HomeOf[u] = Nobody
    BY <1>2, <2>1, DoneMoves DEF UpdateUser
  <2>2. CASE ~(body.role = NotSent \/ HomeOf[u] = Nobody)
    <3> DEFINE r == [desk[d] EXCEPT !.at = "role"]
    <3>1. r \in Requests /\ DeskWork(r) /\ r.at = "role"
      BY <1>1, <1>2, <1>3, <2>2 DEF Requests, DeskWork
    <3>2. desk' = [desk EXCEPT ![d] = r]
      BY <1>2, <2>2 DEF UpdateUser
    <3> HIDE DEF r
    <3>3. QED
      BY <3>1, <3>2, GoesOn
  <2>3. QED
    BY <2>1, <2>2
<1>6. QED
  BY <1>4, <1>5, OthersServe DEF Moves, UpdateUser

LEMMA UpdateMembershipMoves ==
    ASSUME GraceInv, NEW d \in Desk, UpdateMembership(d)
    PROVE  Moves(d)
<1>1. desk[d].by \in Account /\ desk[d].body.role \in Roles
  BY DEF UpdateMembership, GraceInv, GraceTypeOK, DeskWork
<1>2. PICK u \in Account, given \in Roles : u = desk[d].by /\ given = desk[d].body.role
  BY <1>1
<1>3. account' = [account EXCEPT ![u] = [account[u] EXCEPT !.role = given]]
  BY <1>2 DEF UpdateMembership
<1>4. DeskMoves(d)
  BY DoneMoves DEF UpdateMembership
<1>5. AdministrationTypeOK'
  <2>1. [account[u] EXCEPT !.role = given] \in Accounts
    BY DEF GraceInv, GraceTypeOK, AdministrationTypeOK, Accounts
  <2>2. UNCHANGED <<company, renewable, access, lent>>
    BY DEF UpdateMembership
  <2>3. QED
    BY <1>3, <2>1, <2>2, AccountIsTyped
<1>6. QED
  BY <1>4, <1>5, OthersServe DEF Moves, UpdateMembership

LEMMA MarkDeletedMoves ==
    ASSUME GraceInv, NEW d \in Desk, MarkDeleted(d)
    PROVE  Moves(d)
<1>1. desk[d] \in Requests /\ desk[d].by \in Account
  BY DEF MarkDeleted, GraceInv, GraceTypeOK, DeskWork
<1>2. PICK u \in Account : u = desk[d].by
  BY <1>1
<1>3. account' = [account EXCEPT ![u] = [account[u] EXCEPT !.status = "deleted"]]
  BY <1>2 DEF MarkDeleted
<1>4. DeskMoves(d)
  <2> DEFINE r == [desk[d] EXCEPT !.at = "revoke"]
  <2>1. r \in Requests /\ DeskWork(r) /\ r.at = "revoke"
    BY <1>1 DEF Requests, DeskWork
  <2>2. desk' = [desk EXCEPT ![d] = r]
    BY DEF MarkDeleted
  <2> HIDE DEF r
  <2>3. QED
    BY <2>1, <2>2, GoesOn
<1>5. AdministrationTypeOK'
  <2>1. [account[u] EXCEPT !.status = "deleted"] \in Accounts
    BY DEF GraceInv, GraceTypeOK, AdministrationTypeOK, Accounts, Condition
  <2>2. UNCHANGED <<company, renewable, access, lent>>
    BY DEF MarkDeleted
  <2>3. QED
    BY <1>3, <2>1, <2>2, AccountIsTyped
<1>6. QED
  BY <1>4, <1>5, OthersServe DEF Moves, MarkDeleted

LEMMA RevokeSessionsMoves ==
    ASSUME GraceInv, NEW d \in Desk, RevokeSessions(d)
    PROVE  Moves(d)
<1>1. DeskMoves(d)
  BY DoneMoves DEF RevokeSessions
<1>2. QED
  BY <1>1, OthersServe
  DEF Moves, RevokeSessions, GraceInv, GraceTypeOK, AdministrationTypeOK

LEMMA DeskFailsMoves ==
    ASSUME GraceInv, NEW d \in Desk, DeskFails(d)
    PROVE  Moves(d)
<1>1. DeskMoves(d)
  BY DoneMoves DEF DeskFails
<1>2. QED
  BY <1>1, OthersServe
  DEF Moves, DeskFails, GraceInv, GraceTypeOK, AdministrationTypeOK

LEMMA LoadAdminRowMoves ==
    ASSUME GraceInv, NEW d \in Desk, NEW u \in Account, LoadAdminRow(d, u)
    PROVE  Moves(d)
<1> DEFINE row == [platform |-> account[u].platform, role |-> account[u].role]
           r == [AtRest EXCEPT !.at = "install", !.by = u, !.row = row]
<1>1. row \in Row
  BY DEF GraceInv, GraceTypeOK, AdministrationTypeOK, Row
<1>2. \A s \in Scopes : AdminScope(u, row) = s => Stands(u, s)
  BY DEF AdminScope, Stands
<1> HIDE DEF row
<1>3. /\ r \in Requests /\ DeskWork(r)
      /\ r.at = "install" /\ r.by = u /\ r.row = row
  BY <1>1, AtRestIsDeskWork DEF AtRest, Requests, DeskWork
<1>4. desk' = [desk EXCEPT ![d] = r] /\ desk'[d] = r
  BY DEF LoadAdminRow, GraceInv, GraceTypeOK, row
<1> HIDE DEF r
<1>5. DeskMoves(d)
  BY <1>2, <1>3, <1>4 DEF DeskMoves
<1>6. QED
  BY <1>5, OthersServe
  DEF Moves, LoadAdminRow, GraceInv, GraceTypeOK, AdministrationTypeOK

LEMMA SelectUserMoves ==
    ASSUME GraceInv, NEW d \in Desk, NEW s, NEW target \in Target,
           NEW step \in {"patch", "revoke", "mark"}, NEW body \in Body \cup {Nobody},
           step = "patch" => body \in Body,
           SelectUser(d, s, target, step, body)
    PROVE  DeskMoves(d)
<1> DEFINE r == [AtRest EXCEPT !.at = step, !.by = target, !.body = body]
<1>1. target \in Account
  BY AdministrationAssumption
<1>2. r \in Requests /\ DeskWork(r) /\ r.at = step
  BY <1>1, AtRestIsDeskWork DEF AtRest, Requests, DeskWork
<1>3. desk' = [desk EXCEPT ![d] = r]
  BY DEF SelectUser
<1> HIDE DEF r
<1>4. QED
  BY <1>2, <1>3, GoesOn

LEMMA LendIsTyped ==
    ASSUME NEW u \in Account, NEW kind \in Minted, NEW ttl \in Nat,
           lent \in [Account -> [Minted -> Nat]], Lend(u, kind, ttl)
    PROVE  lent' \in [Account -> [Minted -> Nat]]
BY DEF Lend

LEMMA AdministerMoves ==
    ASSUME GraceInv, NEW d \in Desk, NEW u \in Account, NEW s,
           Administer(d, u, s), UNCHANGED <<renewable, access>>
    PROVE  DeskMoves(d) /\ AdministrationTypeOK'
<1> USE DEF GraceInv, GraceTypeOK, AdministrationTypeOK
<1>1. ASSUME NEW o \in Company, NEW standing, PatchOrganization(d, s, o, standing)
      PROVE  DeskMoves(d) /\ AdministrationTypeOK'
  <2>1. DeskMoves(d)
    BY <1>1, DoneMoves DEF PatchOrganization
  <2>2. AdministrationTypeOK'
    BY <1>1 DEF PatchOrganization
  <2>3. QED
    BY <2>1, <2>2
<1>2. ASSUME NEW o \in Company, DeleteOrganization(d, s, o)
      PROVE  DeskMoves(d) /\ AdministrationTypeOK'
  <2>1. DeskMoves(d)
    BY <1>2, DoneMoves DEF DeleteOrganization
  <2>2. AdministrationTypeOK'
    BY <1>2 DEF DeleteOrganization
  <2>3. QED
    BY <2>1, <2>2
<1>3. ASSUME NEW o \in Company, EnterOrganization(d, u, s, o)
      PROVE  DeskMoves(d) /\ AdministrationTypeOK'
  <2>1. DeskMoves(d)
    BY <1>3, DoneMoves DEF EnterOrganization
  <2>2. AdministrationTypeOK'
    BY <1>3, LendIsTyped, Lifetimes DEF EnterOrganization, Minted
  <2>3. QED
    BY <2>1, <2>2
<1>4. ASSUME NEW target \in Target, NEW body \in Body, PatchUser(d, u, s, target, body)
      PROVE  DeskMoves(d) /\ AdministrationTypeOK'
  <2>1. SelectUser(d, s, target, "patch", body)
    BY <1>4 DEF PatchUser
  <2>2. DeskMoves(d)
    BY <2>1, SelectUserMoves
  <2>3. QED
    BY <2>1, <2>2 DEF SelectUser
<1>5. ASSUME NEW target \in Target, ResetPassword(d, s, target)
      PROVE  DeskMoves(d) /\ AdministrationTypeOK'
  <2>1. SelectUser(d, s, target, "revoke", Nobody)
    BY <1>5 DEF ResetPassword
  <2>2. DeskMoves(d)
    BY <2>1, SelectUserMoves
  <2>3. QED
    BY <2>1, <2>2 DEF SelectUser
<1>6. ASSUME NEW target \in Target, DeleteUser(d, u, s, target)
      PROVE  DeskMoves(d) /\ AdministrationTypeOK'
  <2>1. SelectUser(d, s, target, "mark", Nobody)
    BY <1>6 DEF DeleteUser
  <2>2. DeskMoves(d)
    BY <2>1, SelectUserMoves
  <2>3. QED
    BY <2>1, <2>2 DEF SelectUser
<1>7. ASSUME NEW target \in Target, Impersonate(d, u, s, target)
      PROVE  DeskMoves(d) /\ AdministrationTypeOK'
  <2>1. DeskMoves(d)
    BY <1>7, DoneMoves DEF Impersonate
  <2>2. target \in Account
    BY AdministrationAssumption
  <2>3. AdministrationTypeOK'
    BY <1>7, <2>2, LendIsTyped, Lifetimes DEF Impersonate, Minted
  <2>4. QED
    BY <2>1, <2>3
<1>8. QED
  BY <1>1, <1>2, <1>3, <1>4, <1>5, <1>6, <1>7 DEF Administer

LEMMA GateMoves ==
    ASSUME GraceInv, NEW d \in Desk, NEW u \in Account, NEW row,
           Refused(d, u, row) \/ Admitted(d, u, row), UNCHANGED <<renewable, access>>
    PROVE  DeskMoves(d) /\ AdministrationTypeOK'
<1>1. CASE Refused(d, u, row)
  <2>1. DeskMoves(d)
    BY <1>1, DoneMoves DEF Refused
  <2>2. QED
    BY <1>1, <2>1 DEF Refused, GraceInv, GraceTypeOK, AdministrationTypeOK
<1>2. CASE Admitted(d, u, row)
  BY <1>2, AdministerMoves DEF Admitted
<1>3. QED
  BY <1>1, <1>2

LEMMA GateHitMoves ==
    ASSUME GraceInv, NEW d \in Desk, NEW u \in Account, GateHit(d, u)
    PROVE  Moves(d)
<1>1. DeskMoves(d) /\ AdministrationTypeOK'
  BY GateMoves DEF GateHit
<1>2. QED
  BY <1>1, OthersServe DEF GateHit, Moves

LEMMA InstallAdminRowMoves ==
    ASSUME GraceInv, NEW d \in Desk, InstallAdminRow(d)
    PROVE  Moves(d)
<1>1. desk[d].by \in Account /\ desk[d].row \in Row
  BY DEF InstallAdminRow, GraceInv, GraceTypeOK, DeskWork
<1>2. PICK u \in Account, row \in Row : u = desk[d].by /\ row = desk[d].row
  BY <1>1
<1>3. DeskMoves(d) /\ AdministrationTypeOK'
  BY <1>2, GateMoves DEF InstallAdminRow
<1>4. Serves(d)
  <2>1. /\ remembered' = [remembered EXCEPT ![u] = [row |-> row, left |-> CacheTTL]]
        /\ access' = access /\ desk[d].at = "install"
    BY <1>2 DEF InstallAdminRow
  <2>2. [row |-> row, left |-> CacheTTL] \in [row : Row, left : 0 .. CacheTTL]
    BY Lifetimes
  <2>3. QED
    BY <1>2, <2>1, <2>2 DEF Serves, GraceInv, GraceTypeOK
<1>5. QED
  BY <1>3, <1>4 DEF Moves

(***************************************************************************)
(* Time.                                                                   *)
(***************************************************************************)

LEMMA TickKeepsInv ==
    ASSUME GraceInv, Tick
    PROVE  GraceInv'
<1>1. ASSUME NEW d \in Desk
      PROVE  /\ desk'[d] = IF Waiting(d) THEN [desk[d] EXCEPT !.waited = @ + 1]
                           ELSE desk[d]
             /\ DeskWork(desk'[d])
  <2>1. desk'[d] = IF Waiting(d) THEN [desk[d] EXCEPT !.waited = @ + 1] ELSE desk[d]
    BY DEF Tick
  <2>2. DeskWork(desk[d]) /\ desk[d] \in Requests
    BY DEF GraceInv, GraceTypeOK
  <2>3. CASE Waiting(d)
    <3>1. desk[d].waited + 1 \in 0 .. Latency
      BY <2>2, <2>3, Lifetimes DEF Tick, Requests
    <3>2. QED
      BY <2>1, <2>2, <2>3, <3>1 DEF Requests, DeskWork
  <2>4. QED
    BY <2>1, <2>2, <2>3
<1>2. ASSUME NEW u \in Account
      PROVE  /\ access'[u] = Sooner(access[u]) /\ access[u] \in 0 .. AccessTTL
             /\ remembered'[u] = EvictExpired(remembered[u])
             /\ remembered[u] \in [row : Row, left : 0 .. CacheTTL] \cup {Nobody}
             /\ remembered'[u] \in [row : Row, left : 0 .. CacheTTL] \cup {Nobody}
             /\ remembered'[u] # Nobody =>
                   /\ remembered[u] # Nobody /\ remembered'[u].row = remembered[u].row
                   /\ remembered'[u].left = remembered[u].left - 1
                   /\ remembered[u].left > 1 /\ remembered[u].left \in Nat
  <2>1. /\ access'[u] = Sooner(access[u]) /\ access[u] \in 0 .. AccessTTL
        /\ remembered'[u] = EvictExpired(remembered[u])
        /\ remembered[u] \in [row : Row, left : 0 .. CacheTTL] \cup {Nobody}
    BY DEF Tick, GraceInv, GraceTypeOK, AdministrationTypeOK
  <2>2. CASE remembered[u] = Nobody \/ remembered[u].left <= 1
    BY <2>1, <2>2 DEF EvictExpired
  <2>3. CASE ~(remembered[u] = Nobody \/ remembered[u].left <= 1)
    <3>1. PICK row \in Row, left \in 0 .. CacheTTL :
             remembered[u] = [row |-> row, left |-> left]
      BY <2>1, <2>3
    <3>2. remembered'[u] = [row |-> row, left |-> left - 1]
      BY <2>1, <2>3, <3>1 DEF EvictExpired
    <3>3. left > 1 /\ left - 1 \in 0 .. CacheTTL
      BY <2>3, <3>1, Lifetimes
    <3>4. QED
      BY <2>1, <2>3, <3>1, <3>2, <3>3, Lifetimes
  <2>4. QED
    BY <2>2, <2>3
<1>3. GraceTypeOK'
  <2>1. AdministrationTypeOK'
    <3>1. ASSUME NEW u \in Account PROVE Sooner(access[u]) \in 0 .. AccessTTL
      BY <1>2, Lifetimes DEF Sooner
    <3>2. ASSUME NEW u \in Account, NEW kind \in Minted PROVE Sooner(lent[u][kind]) \in Nat
      BY DEF GraceInv, GraceTypeOK, AdministrationTypeOK, Sooner
    <3>3. QED
      BY <3>1, <3>2 DEF Tick, GraceInv, GraceTypeOK, AdministrationTypeOK
  <2>2. (remembered \in [Account -> [row : Row, left : 0 .. CacheTTL] \cup {Nobody}])'
    BY <1>2 DEF Tick, Row
  <2>3. (desk \in [Desk -> Requests] /\ \A d \in Desk : DeskWork(desk[d]))'
    <3>1. desk' \in [Desk -> Requests]
      BY <1>1 DEF Tick, DeskWork
    <3>2. QED
      BY <1>1, <3>1 DEF DeskWork, Requests, Row
  <2>4. QED
    BY <2>1, <2>2, <2>3, GracesStayTyped
    DEF Tick, GraceInv, GraceTypeOK, AdminLimit, EntryLimit, Scopes
<1>4. ASSUME NEW u \in Account, NEW s \in Scopes
      PROVE  /\ EntryGrace(u) \in Nat /\ EntryGrace(u)' \in Nat
             /\ AdminGrace(u, s) \in Nat /\ AdminGrace(u, s)' \in Nat
             /\ EntryGrace(u) <= EntryGrace(u)' + 1
             /\ AdminGrace(u, s) <= AdminGrace(u, s)' + 1
             /\ Sooner(EntryGrace(u)) <= EntryGrace(u)'
             /\ Sooner(AdminGrace(u, s)) <= AdminGrace(u, s)'
  BY <1>3, GracesWane, GracesAreTicks, GracesStayTicks, Lifetimes DEF Tick, GraceInv
<1>5. ASSUME NEW d \in Desk PROVE InTime(desk[d])'
  <2>1. DeskWork(desk[d]) /\ desk[d] \in Requests /\ InTime(desk[d])
    BY DEF GraceInv, GraceTypeOK
  <2>2. CASE desk'[d].at \in {"issue", "install"}
    <3>1. Waiting(d)
      BY <1>1, <2>1, <2>2 DEF Waiting, Requests
    <3>2. /\ desk[d].at = desk'[d].at /\ desk[d].by = desk'[d].by
          /\ desk[d].row = desk'[d].row /\ desk'[d].waited = desk[d].waited + 1
          /\ desk[d].waited \in Nat
      <4>1. desk'[d] = [desk[d] EXCEPT !.waited = @ + 1]
        BY <1>1, <3>1
      <4>2. QED
        BY <2>1, <4>1, Lifetimes DEF Requests
    <3>3. PICK u \in Account : u = desk[d].by
      BY <2>1, <2>2, <3>2 DEF DeskWork
    <3>4. CASE desk'[d].at = "issue"
      <4>1. EntryLimit <= EntryGrace(u) + desk[d].waited
        BY <2>1, <3>2, <3>3, <3>4 DEF InTime
      <4>2. EntryLimit <= EntryGrace(u)' + desk'[d].waited
        BY <1>4, <3>2, <4>1, Lifetimes DEF Scopes
      <4>3. QED
        BY <3>2, <3>3, <3>4, <4>2 DEF InTime
    <3>5. CASE desk'[d].at = "install"
      <4>1. ASSUME NEW s \in Scopes, AdminScope(u, desk'[d].row) = s
            PROVE  AdminLimit <= AdminGrace(u, s)' + desk'[d].waited
        <5>1. AdminLimit <= AdminGrace(u, s) + desk[d].waited
          BY <2>1, <3>2, <3>3, <3>5, <4>1 DEF InTime
        <5>2. QED
          BY <1>4, <3>2, <5>1, Lifetimes
      <4>2. QED
        BY <3>2, <3>3, <3>5, <4>1 DEF InTime
    <3>6. QED
      BY <2>2, <3>4, <3>5
  <2>3. CASE desk'[d].at \notin {"issue", "install"}
    BY <2>3 DEF InTime
  <2>4. QED
    BY <2>2, <2>3
<1>6. ASSUME NEW u \in Account PROVE access'[u] <= EntryGrace(u)' /\ ServedInTime(u)'
  <2>1. access'[u] <= EntryGrace(u)'
    <3>1. access[u] <= EntryGrace(u) /\ access'[u] = Sooner(access[u]) /\ access[u] \in Nat
      BY <1>2, Lifetimes DEF GraceInv
    <3>2. /\ EntryGrace(u) \in Nat /\ EntryGrace(u)' \in Nat
          /\ Sooner(EntryGrace(u)) <= EntryGrace(u)'
      BY <1>4 DEF Scopes
    <3>3. QED
      BY <3>1, <3>2 DEF Sooner
  <2>2. ServedInTime(u)'
    <3> SUFFICES ASSUME remembered'[u] # Nobody, NEW s \in Scopes,
                        AdminScope(u, remembered'[u].row) = s
                 PROVE  remembered'[u].left <= AdminGrace(u, s)'
      BY DEF ServedInTime
    <3>1. remembered[u].left <= AdminGrace(u, s)
      BY <1>2 DEF GraceInv, ServedInTime
    <3>2. QED
      BY <1>2, <1>4, <3>1
  <2>3. QED
    BY <2>1, <2>2
<1>7. QED
  BY <1>3, <1>5, <1>6 DEF GraceInv

(***************************************************************************)
(* The theorems.                                                           *)
(***************************************************************************)

LEMMA InitGraceInv == AdministrationInit => GraceInv
<1> SUFFICES ASSUME AdministrationInit PROVE GraceInv
  OBVIOUS
<1>1. GraceTypeOK
  <2>1. AdministrationTypeOK
    BY Lifetimes DEF AdministrationInit, AdministrationTypeOK, Condition, Roles
  <2>2. /\ remembered \in [Account -> [row : Row, left : 0 .. CacheTTL] \cup {Nobody}]
        /\ desk \in [Desk -> Requests] /\ \A d \in Desk : DeskWork(desk[d])
    BY AtRestIsDeskWork DEF AdministrationInit
  <2>3. /\ adminGrace \in [Account -> [Scopes -> 0 .. AdminLimit]]
        /\ entryGrace \in [Account -> 0 .. EntryLimit]
    BY Lifetimes DEF AdministrationInit
  <2>4. QED
    BY <2>1, <2>2, <2>3 DEF GraceTypeOK
<1>2. \A d \in Desk : InTime(desk[d])
  BY DEF AdministrationInit, AtRest, InTime
<1>3. ASSUME NEW u \in Account PROVE access[u] <= EntryGrace(u) /\ ServedInTime(u)
  <2>1. access[u] = 0 /\ remembered[u] = Nobody
    BY DEF AdministrationInit
  <2>2. EntryGrace(u) \in Nat
    BY <1>1, GracesAreTicks, Lifetimes DEF Scopes
  <2>3. QED
    BY <2>1, <2>2 DEF ServedInTime
<1>4. QED
  BY <1>1, <1>2, <1>3 DEF GraceInv

LEMMA StepGraceInv == GraceInv /\ [AdministrationNext]_administrationVars => GraceInv'
<1> SUFFICES ASSUME GraceInv, [AdministrationNext]_administrationVars
             PROVE  GraceInv'
  OBVIOUS
<1>1. ASSUME NEW d \in Desk, Follow(0), NEW u \in Account,
             SignIn(d, u) \/ Renew(d, u) \/ GateHit(d, u) \/ LoadAdminRow(d, u)
      PROVE  GraceInv'
  BY <1>1, MovesKeepInv, SignInMoves, RenewMoves, GateHitMoves, LoadAdminRowMoves
<1>2. ASSUME NEW d \in Desk, Follow(0),
             \/ RenewGate(d) \/ GenerateTokens(d) \/ InstallAdminRow(d)
             \/ UpdateUser(d) \/ UpdateMembership(d)
             \/ MarkDeleted(d) \/ RevokeSessions(d) \/ DeskFails(d)
      PROVE  GraceInv'
  BY <1>2, MovesKeepInv, RenewGateMoves, GenerateTokensMoves, InstallAdminRowMoves,
     UpdateUserMoves, UpdateMembershipMoves, MarkDeletedMoves, RevokeSessionsMoves,
     DeskFailsMoves
<1>3. CASE Tick
  BY <1>3, TickKeepsInv
<1>4. CASE UNCHANGED administrationVars
  <2> USE DEF administrationVars
  <2>1. GraceTypeOK'
    BY <1>4 DEF GraceInv, GraceTypeOK, AdministrationTypeOK, DeskWork, Requests, Row,
                Scopes, EntryLimit, AdminLimit
  <2>2. /\ \A u \in Account : EntryGrace(u)' = EntryGrace(u)
        /\ \A u \in Account, s \in Scopes : AdminGrace(u, s)' = AdminGrace(u, s)
    BY <1>4 DEF EntryGrace, AdminGrace, EnforceAccountAccess, Stands, AdminScope
  <2>3. ASSUME NEW d \in Desk PROVE InTime(desk[d])'
    BY <1>4, <2>2 DEF GraceInv, GraceTypeOK, DeskWork, InTime
  <2>4. ASSUME NEW u \in Account PROVE access'[u] <= EntryGrace(u)' /\ ServedInTime(u)'
    BY <1>4, <2>2 DEF GraceInv, ServedInTime
  <2>5. QED
    BY <2>1, <2>3, <2>4 DEF GraceInv
<1>5. QED
  BY <1>1, <1>2, <1>3, <1>4 DEF AdministrationNext

(***************************************************************************)
(* The tokens that a platform administrator mints for itself.              *)
(***************************************************************************)

\* Ticks by which such a token may outlive the scope it was minted under.
EnterLimit == EnterTTL + CacheTTL + Latency

\* Who may still mint one, by the cache or by a read that is under way, has
\* grace left for all of its life; so has who holds one for what is left.
EntersInTime(r) ==
    r.at = "install" /\ AdminScope(r.by, r.row) = "platform"
        => EnterLimit <= EnterGrace(r.by) + r.waited

EntersByCache(u) ==
    remembered[u] # Nobody /\ AdminScope(u, remembered[u].row) = "platform"
        => EnterTTL + remembered[u].left <= EnterGrace(u)

EnteredInv ==
    /\ enterGrace \in [Account -> 0 .. EnterLimit]
    /\ \A d \in Desk : EntersInTime(desk[d])
    /\ \A u \in Account : lent[u]["entry"] <= EnterGrace(u) /\ EntersByCache(u)

\* Only who is served as a platform administrator mints.
MayEnter(d, u) ==
    \/ remembered[u] # Nobody /\ AdminScope(u, remembered[u].row) = "platform"
    \/ /\ desk[d].at = "install" /\ desk[d].by = u
       /\ AdminScope(u, desk[d].row) = "platform"

Mints(d) ==
    \A u \in Account :
       \/ lent'[u]["entry"] = lent[u]["entry"]
       \/ lent'[u]["entry"] = EnterTTL /\ MayEnter(d, u)

LEMMA EnterLimitIsTicks == EnterLimit \in Nat /\ EnterTTL \in Nat
BY Lifetimes DEF EnterLimit

LEMMA EnterGracesLast ==
    ASSUME EnteredInv, Follow(0), NEW u \in Account
    PROVE  /\ EnterGrace(u) \in Nat /\ EnterGrace(u)' \in Nat
           /\ EnterGrace(u) <= EnterGrace(u)'
           /\ Stands(u, "platform") => EnterGrace(u)' = EnterLimit
           /\ enterGrace'[u] \in 0 .. EnterLimit
<1>1. enterGrace'[u] = IF Stands(u, "platform") THEN EnterLimit ELSE enterGrace[u]
  BY DEF Follow, EnterLimit
<1>2. enterGrace[u] \in 0 .. EnterLimit
  BY DEF EnteredInv
<1>3. /\ EnterGrace(u) = IF Stands(u, "platform") THEN EnterLimit ELSE enterGrace[u]
      /\ EnterGrace(u)' = IF Stands(u, "platform")' THEN EnterLimit ELSE enterGrace'[u]
  BY DEF EnterGrace, EnterLimit
<1>4. QED
  BY <1>1, <1>2, <1>3, EnterLimitIsTicks

LEMMA EnterGracesWane ==
    ASSUME EnteredInv, Follow(1), UNCHANGED account, NEW u \in Account
    PROVE  /\ EnterGrace(u) \in Nat /\ EnterGrace(u)' \in Nat
           /\ EnterGrace(u) <= EnterGrace(u)' + 1
           /\ Sooner(EnterGrace(u)) <= EnterGrace(u)'
           /\ enterGrace'[u] \in 0 .. EnterLimit
<1>1. enterGrace'[u] = IF Stands(u, "platform") THEN EnterLimit ELSE Sooner(enterGrace[u])
  BY DEF Follow, EnterLimit
<1>2. enterGrace[u] \in 0 .. EnterLimit
  BY DEF EnteredInv
<1>3. Stands(u, "platform")' = Stands(u, "platform")
  BY DEF Stands, AdminScope
<1>4. /\ EnterGrace(u) = IF Stands(u, "platform") THEN EnterLimit ELSE enterGrace[u]
      /\ EnterGrace(u)' = IF Stands(u, "platform") THEN EnterLimit ELSE enterGrace'[u]
  BY <1>3 DEF EnterGrace, EnterLimit
<1>5. QED
  BY <1>1, <1>2, <1>4, EnterLimitIsTicks DEF Sooner

LEMMA MovesKeepEntered ==
    ASSUME GraceInv, EnteredInv, Follow(0), NEW d \in Desk, Moves(d), Mints(d)
    PROVE  EnteredInv'
<1>1. enterGrace' \in [Account -> 0 .. EnterLimit]
  BY EnterGracesLast DEF Follow
<1>2. ASSUME NEW e \in Desk PROVE EntersInTime(desk[e])'
  <2> DEFINE r == desk'[e]
  <2> SUFFICES ASSUME r.at = "install", AdminScope(r.by, r.row) = "platform",
                      NEW u \in Account, u = r.by
               PROVE  EnterLimit <= EnterGrace(u)' + r.waited
    <3>1. r.at = "install" => r.by \in Account
      BY DEF GraceInv, GraceTypeOK, Moves, DeskMoves, DeskWork
    <3>2. QED
      BY <3>1 DEF EntersInTime, AdminScope
  <2>1. CASE e = d
    <3>1. r.waited \in 0 .. Latency /\ Stands(u, "platform")
      BY <2>1 DEF Moves, DeskMoves, DeskWork, Requests, Scopes
    <3>2. EnterGrace(u)' = EnterLimit
      BY <3>1, EnterGracesLast
    <3>3. QED
      BY <3>1, <3>2, Lifetimes, EnterLimitIsTicks
  <2>2. CASE e # d
    <3>1. r = desk[e] /\ EntersInTime(desk[e]) /\ DeskWork(desk[e])
      BY <2>2 DEF Moves, DeskMoves, GraceInv, GraceTypeOK, EnteredInv
    <3>2. r.waited \in 0 .. Latency
      BY <3>1 DEF DeskWork, Requests
    <3>3. EnterLimit <= EnterGrace(u) + r.waited
      BY <3>1 DEF EntersInTime
    <3>4. /\ EnterGrace(u) \in Nat /\ EnterGrace(u)' \in Nat
          /\ EnterGrace(u) <= EnterGrace(u)'
      BY EnterGracesLast
    <3>5. QED
      BY <3>2, <3>3, <3>4, Lifetimes, EnterLimitIsTicks
  <2>3. QED
    BY <2>1, <2>2
<1>3. ASSUME NEW u \in Account
      PROVE  /\ EnterGrace(u) \in Nat /\ EnterGrace(u)' \in Nat
             /\ EnterGrace(u) <= EnterGrace(u)'
             /\ MayEnter(d, u) => EnterTTL <= EnterGrace(u)
  <2>1. ASSUME remembered[u] # Nobody, AdminScope(u, remembered[u].row) = "platform"
        PROVE  EnterTTL <= EnterGrace(u)
    <3>1. remembered[u].left \in Nat
      BY <2>1, Lifetimes DEF GraceInv, GraceTypeOK
    <3>2. QED
      BY <2>1, <3>1, EnterGracesLast, EnterLimitIsTicks DEF EnteredInv, EntersByCache
  <2>2. ASSUME desk[d].at = "install", desk[d].by = u,
               AdminScope(u, desk[d].row) = "platform"
        PROVE  EnterTTL <= EnterGrace(u)
    <3>1. desk[d].waited \in 0 .. Latency
      BY DEF GraceInv, GraceTypeOK, Requests
    <3>2. EnterLimit <= EnterGrace(u) + desk[d].waited
      BY <2>2 DEF EnteredInv, EntersInTime
    <3>3. QED
      BY <3>1, <3>2, EnterGracesLast, Lifetimes DEF EnterLimit
  <2>3. QED
    BY <2>1, <2>2, EnterGracesLast DEF MayEnter
<1>4. ASSUME NEW u \in Account PROVE lent'[u]["entry"] <= EnterGrace(u)'
  <2>1. lent[u]["entry"] \in Nat /\ lent[u]["entry"] <= EnterGrace(u)
    BY DEF EnteredInv, GraceInv, GraceTypeOK, AdministrationTypeOK, Minted
  <2>2. \/ lent'[u]["entry"] = lent[u]["entry"]
        \/ lent'[u]["entry"] = EnterTTL /\ MayEnter(d, u)
    BY DEF Mints
  <2>3. QED
    BY <1>3, <2>1, <2>2, EnterLimitIsTicks
<1>5. ASSUME NEW u \in Account PROVE EntersByCache(u)'
  <2> DEFINE hit == remembered'[u]
  <2> SUFFICES ASSUME hit # Nobody, AdminScope(u, hit.row) = "platform"
               PROVE  EnterTTL + hit.left <= EnterGrace(u)'
    BY DEF EntersByCache, AdminScope
  <2>1. CASE hit = remembered[u]
    <3>1. remembered[u].left \in Nat
      BY <2>1, Lifetimes DEF GraceInv, GraceTypeOK
    <3>2. EnterTTL + remembered[u].left <= EnterGrace(u)
      BY <2>1 DEF EnteredInv, EntersByCache
    <3>3. QED
      BY <1>3, <2>1, <3>1, <3>2, EnterLimitIsTicks
  <2>2. CASE /\ hit = [row |-> desk[d].row, left |-> CacheTTL]
             /\ desk[d].at = "install" /\ desk[d].by = u
    <3>1. desk[d].waited \in 0 .. Latency
      BY DEF GraceInv, GraceTypeOK, Requests
    <3>2. EnterLimit <= EnterGrace(u) + desk[d].waited
      BY <2>2 DEF EnteredInv, EntersInTime
    <3>3. QED
      BY <1>3, <2>2, <3>1, <3>2, Lifetimes DEF EnterLimit
  <2>3. QED
    BY <2>1, <2>2 DEF Moves, Serves
<1>6. QED
  BY <1>1, <1>2, <1>4, <1>5 DEF EnteredInv

LEMMA AdministerMints ==
    ASSUME GraceInv, NEW d \in Desk, NEW u \in Account, NEW s, Administer(d, u, s),
           NEW v \in Account
    PROVE  \/ lent'[v]["entry"] = lent[v]["entry"]
           \/ lent'[v]["entry"] = EnterTTL /\ v = u /\ s = "platform"
<1>1. lent \in [Account -> [Minted -> Nat]] /\ Minted = {"impersonation", "entry"}
  BY DEF GraceInv, GraceTypeOK, AdministrationTypeOK, Minted
<1>2. CASE UNCHANGED lent
  BY <1>2
<1>3. CASE Lend(u, "entry", EnterTTL) /\ s = "platform"
  BY <1>1, <1>3 DEF Lend
<1>4. ASSUME NEW target \in Account, Lend(target, "impersonation", LentTTL)
      PROVE  lent'[v]["entry"] = lent[v]["entry"]
  BY <1>1, <1>4 DEF Lend
<1>5. Target \subseteq Account
  BY AdministrationAssumption
<1>6. QED
  BY <1>2, <1>3, <1>4, <1>5
  DEF Administer, PatchOrganization, DeleteOrganization, EnterOrganization,
      PatchUser, ResetPassword, DeleteUser, SelectUser, Impersonate

LEMMA GateMints ==
    ASSUME GraceInv, NEW d \in Desk, NEW u \in Account, NEW row,
           Refused(d, u, row) \/ Admitted(d, u, row),
           AdminScope(u, row) = "platform" => MayEnter(d, u)
    PROVE  Mints(d)
<1>1. CASE Refused(d, u, row)
  BY <1>1 DEF Refused, Mints
<1>2. CASE Admitted(d, u, row)
  <2>1. PICK s : s = AdminScope(u, row) /\ Administer(d, u, s)
    BY <1>2 DEF Admitted
  <2>2. ASSUME NEW v \in Account
        PROVE  \/ lent'[v]["entry"] = lent[v]["entry"]
               \/ lent'[v]["entry"] = EnterTTL /\ MayEnter(d, v)
    BY <2>1, AdministerMints
  <2>3. QED
    BY <2>2 DEF Mints
<1>3. QED
  BY <1>1, <1>2

LEMMA InstallMints ==
    ASSUME GraceInv, NEW d \in Desk, InstallAdminRow(d)
    PROVE  Mints(d)
<1>1. desk[d].by \in Account
  BY DEF InstallAdminRow, GraceInv, GraceTypeOK, DeskWork
<1>2. ASSUME NEW u \in Account, NEW row, u = desk[d].by, row = desk[d].row
      PROVE  Mints(d)
  BY <1>2, GateMints DEF InstallAdminRow, MayEnter
<1>3. QED
  BY <1>1, <1>2

LEMMA TickKeepsEntered ==
    ASSUME GraceInv, EnteredInv, Tick
    PROVE  EnteredInv'
<1>1. Follow(1) /\ UNCHANGED account
  BY DEF Tick
<1>2. enterGrace' \in [Account -> 0 .. EnterLimit]
  BY <1>1, EnterGracesWane DEF Follow
<1>3. ASSUME NEW d \in Desk PROVE EntersInTime(desk[d])'
  <2> DEFINE r == desk'[d]
  <2>1. DeskWork(desk[d]) /\ desk[d] \in Requests /\ EntersInTime(desk[d])
    BY DEF GraceInv, GraceTypeOK, EnteredInv
  <2>2. r = IF Waiting(d) THEN [desk[d] EXCEPT !.waited = @ + 1] ELSE desk[d]
    BY DEF Tick
  <2>3. r.at = desk[d].at /\ r.by = desk[d].by /\ r.row = desk[d].row
    BY <2>1, <2>2 DEF Requests
  <2> SUFFICES ASSUME r.at = "install", AdminScope(r.by, r.row) = "platform",
                      NEW u \in Account, u = r.by
               PROVE  EnterLimit <= EnterGrace(u)' + r.waited
    <3>1. r.at = "install" => r.by \in Account
      BY <2>1, <2>3 DEF DeskWork
    <3>2. QED
      BY <3>1 DEF EntersInTime, AdminScope
  <2>4. Waiting(d)
    BY <2>3 DEF Waiting
  <2>5. r.waited = desk[d].waited + 1 /\ desk[d].waited \in Nat
    BY <2>1, <2>2, <2>4, Lifetimes DEF Requests
  <2>6. EnterLimit <= EnterGrace(u) + desk[d].waited
    BY <2>1, <2>3 DEF EntersInTime
  <2>7. /\ EnterGrace(u) \in Nat /\ EnterGrace(u)' \in Nat
        /\ EnterGrace(u) <= EnterGrace(u)' + 1
    BY <1>1, EnterGracesWane
  <2>8. QED
    BY <2>5, <2>6, <2>7, EnterLimitIsTicks
<1>4. ASSUME NEW u \in Account PROVE lent'[u]["entry"] <= EnterGrace(u)'
  <2>1. lent'[u]["entry"] = Sooner(lent[u]["entry"]) /\ lent[u]["entry"] \in Nat
    BY DEF Tick, Minted, GraceInv, GraceTypeOK, AdministrationTypeOK
  <2>2. lent[u]["entry"] <= EnterGrace(u)
    BY DEF EnteredInv
  <2>3. QED
    BY <1>1, <2>1, <2>2, EnterGracesWane DEF Sooner
<1>5. ASSUME NEW u \in Account PROVE EntersByCache(u)'
  <2> DEFINE hit == remembered'[u]
  <2> SUFFICES ASSUME hit # Nobody, AdminScope(u, hit.row) = "platform"
               PROVE  EnterTTL + hit.left <= EnterGrace(u)'
    BY DEF EntersByCache, AdminScope
  <2>1. hit = EvictExpired(remembered[u])
    BY DEF Tick
  <2>2. remembered[u] # Nobody /\ ~(remembered[u].left <= 1)
    BY <2>1 DEF EvictExpired
  <2>3. PICK row \in Row, left \in 0 .. CacheTTL :
           remembered[u] = [row |-> row, left |-> left]
    BY <2>2 DEF GraceInv, GraceTypeOK
  <2>4. hit = [row |-> row, left |-> left - 1]
    BY <2>1, <2>2, <2>3 DEF EvictExpired
  <2>5. EnterTTL + left <= EnterGrace(u)
    BY <2>2, <2>3, <2>4 DEF EnteredInv, EntersByCache
  <2>6. /\ EnterGrace(u) \in Nat /\ EnterGrace(u)' \in Nat
        /\ EnterGrace(u) <= EnterGrace(u)' + 1
    BY <1>1, EnterGracesWane
  <2>7. hit.left = left - 1 /\ left \in Nat
    BY <2>3, <2>4, Lifetimes
  <2>8. QED
    BY <2>5, <2>6, <2>7, EnterLimitIsTicks
<1>6. QED
  BY <1>2, <1>3, <1>4, <1>5 DEF EnteredInv

LEMMA InitEnteredInv == AdministrationInit => EnteredInv
<1> SUFFICES ASSUME AdministrationInit PROVE EnteredInv
  OBVIOUS
<1>1. enterGrace \in [Account -> 0 .. EnterLimit]
  BY EnterLimitIsTicks DEF AdministrationInit
<1>2. \A d \in Desk : desk[d].at = "idle"
  BY DEF AdministrationInit, AtRest
<1>3. ASSUME NEW u \in Account
      PROVE  lent[u]["entry"] <= EnterGrace(u) /\ remembered[u] = Nobody
  <2>1. lent[u]["entry"] = 0 /\ remembered[u] = Nobody /\ enterGrace[u] = 0
    BY DEF AdministrationInit, Minted
  <2>2. EnterGrace(u) \in Nat
    BY <2>1, EnterLimitIsTicks DEF EnterGrace, EnterLimit
  <2>3. QED
    BY <2>1, <2>2
<1>4. QED
  BY <1>1, <1>2, <1>3 DEF EnteredInv, EntersInTime, EntersByCache

LEMMA StepEnteredInv ==
    GraceInv /\ EnteredInv /\ [AdministrationNext]_administrationVars => EnteredInv'
<1> SUFFICES ASSUME GraceInv, EnteredInv, [AdministrationNext]_administrationVars
             PROVE  EnteredInv'
  OBVIOUS
<1>1. ASSUME NEW d \in Desk, UNCHANGED lent
      PROVE  Mints(d)
  BY <1>1 DEF Mints
<1>2. ASSUME NEW d \in Desk, Follow(0), NEW u \in Account,
             SignIn(d, u) \/ Renew(d, u) \/ LoadAdminRow(d, u)
      PROVE  EnteredInv'
  BY <1>1, <1>2, MovesKeepEntered, SignInMoves, RenewMoves, LoadAdminRowMoves
  DEF SignIn, Renew, LoadAdminRow
<1>3. ASSUME NEW d \in Desk, Follow(0), NEW u \in Account, GateHit(d, u)
      PROVE  EnteredInv'
  <2>1. Mints(d)
    BY <1>3, GateMints DEF GateHit, MayEnter
  <2>2. QED
    BY <1>3, <2>1, MovesKeepEntered, GateHitMoves
<1>4. ASSUME NEW d \in Desk, Follow(0), InstallAdminRow(d)
      PROVE  EnteredInv'
  BY <1>4, InstallMints, MovesKeepEntered, InstallAdminRowMoves
<1>5. ASSUME NEW d \in Desk, Follow(0),
             \/ RenewGate(d) \/ GenerateTokens(d) \/ UpdateUser(d)
             \/ UpdateMembership(d) \/ MarkDeleted(d) \/ RevokeSessions(d)
             \/ DeskFails(d)
      PROVE  EnteredInv'
  <2>1. Mints(d)
    BY <1>1, <1>5
    DEF RenewGate, GenerateTokens, UpdateUser, UpdateMembership, MarkDeleted,
        RevokeSessions, DeskFails
  <2>2. QED
    BY <1>5, <2>1, MovesKeepEntered, RenewGateMoves, GenerateTokensMoves,
       UpdateUserMoves, UpdateMembershipMoves, MarkDeletedMoves,
       RevokeSessionsMoves, DeskFailsMoves
<1>6. CASE Tick
  BY <1>6, TickKeepsEntered
<1>7. CASE UNCHANGED administrationVars
  <2> USE DEF administrationVars
  <2>1. \A u \in Account : EnterGrace(u)' = EnterGrace(u)
    BY <1>7 DEF EnterGrace, Stands, AdminScope
  <2>2. ASSUME NEW d \in Desk PROVE EntersInTime(desk[d])'
    BY <1>7, <2>1 DEF GraceInv, GraceTypeOK, DeskWork, EnteredInv, EntersInTime, AdminScope
  <2>3. ASSUME NEW u \in Account
        PROVE  lent'[u]["entry"] <= EnterGrace(u)' /\ EntersByCache(u)'
    BY <1>7, <2>1 DEF EnteredInv, EntersByCache, AdminScope
  <2>4. QED
    BY <1>7, <2>2, <2>3 DEF EnteredInv
<1>8. QED
  BY <1>2, <1>3, <1>4, <1>5, <1>6, <1>7 DEF AdministrationNext

LEMMA GraceInvSuffices == GraceInv /\ EnteredInv => StandingIsRecent
<1> SUFFICES ASSUME GraceInv, EnteredInv PROVE StandingIsRecent
  OBVIOUS
<1>1. ASSUME NEW u \in Account, remembered[u] # Nobody,
             AdminScope(u, remembered[u].row) # Nobody
      PROVE  remembered[u].left <= AdminGrace(u, AdminScope(u, remembered[u].row))
  <2>1. AdminScope(u, remembered[u].row) \in Scopes
    BY <1>1, ScopeOrNone
  <2>2. QED
    BY <1>1, <2>1 DEF GraceInv, ServedInTime
<1>2. QED
  BY <1>1 DEF StandingIsRecent, GraceInv, EnteredInv

\* Who lost a scope of the administration is served under it for no longer
\* than the cache entry lives, and holds a token to enter organizations for no
\* longer than that and the token's own life; who may not sign in keeps the
\* session it signed in for no longer than its access token lives; to each the
\* longest read that was under way adds what it took.
THEOREM StandingOutlivesLittle == AdministrationSpec => []StandingIsRecent
<1>1. AdministrationSpec => [](GraceInv /\ EnteredInv)
  BY InitGraceInv, StepGraceInv, InitEnteredInv, StepEnteredInv, PTL
  DEF AdministrationSpec
<1>2. QED
  BY <1>1, GraceInvSuffices, PTL
=============================================================================
