--------------------------- MODULE AccountsProofs ---------------------------
(***************************************************************************)
(* What holds of public signup for any number of addresses, domains, rows, *)
(* requests and restarts: sessions belong to verified users, the janitor   *)
(* never takes an organization from under a user, domains are claimed as   *)
(* DomainClaims says, and colleagues end up in one organization.           *)
(***************************************************************************)
EXTENDS Accounts, TLAPS

\* An organization the janitor cannot sweep: verified, or with a verified
\* user who is a member.
Kept(o) ==
    /\ o \in Orgs
    /\ \/ org[o].verified
       \/ \E u \in Users : /\ user[u].verified
                           /\ user[u].org = o
                           /\ user[u].role # "none"

\* The foreign keys.
LinksLive == \A l \in Links : link[l].user \in Users
UsersHoused ==
    \A u \in Users : /\ user[u].org \in Orgs
                     /\ user[u].role = "none" => Kept(user[u].org)
InvitesKept == \A e \in Email : invite[e] # NULL => Kept(invite[e])

\* What a request whose job is j still knows at each await.
Holds(j) ==
    /\ j.at \in {"first", "owner", "join", "pending", "invited"}
          => j.email \in Email
    /\ j.at \in {"owner", "join", "invited"} => Kept(j.org)
    /\ j.at \in {"ownerRow", "memberRow", "issue"}
          => j.user \in Users /\ user[j.user].verified
    /\ j.at = "inviteRow" => j.user \in Users /\ ~user[j.user].stale

\* The strengthening that makes TypeOK and the properties below inductive.
Inv ==
    /\ TypeOK
    /\ SessionsAreOfVerifiedUsers
    /\ LinksLive
    /\ UsersHoused
    /\ InvitesKept
    /\ \A r \in Request : Holds(job[r])

\* What no step takes away.
Lasting ==
    /\ \A u \in Users : user[u].verified =>
          /\ u \in (Users)'
          /\ user'[u].verified
          /\ user'[u].org = user[u].org
          /\ user[u].role # "none" => user'[u].role # "none"
    /\ \A o \in Orgs : Kept(o) => /\ o \in (Orgs)'
                                  /\ org[o].verified => org'[o].verified
    /\ \A r \in Request : At(r, "inviteRow") /\ Holds(job[r]) =>
          job[r].user \in (Users)' /\ ~user'[job[r].user].stale

LEMMA SomeIsOne == ASSUME NEW ids, ids # {} PROVE Some(ids) \in ids
BY DEF Some

LEMMA NoRowIsNull ==
    /\ NULL \notin UserRow /\ NULL \notin OrgRow /\ NULL \notin LinkRow
    /\ NULL \notin User /\ NULL \notin Org /\ NULL \notin Session
    /\ NULL \notin Email /\ NULL \notin Domain
BY AccountsAssumption, RowsAssumption

LEMMA KeptLasts == Lasting => \A o : Kept(o) => Kept(o)'
BY DEF Lasting, Kept

LEMMA Preserved ==
    ASSUME Inv, TypeOK', SessionsAreOfVerifiedUsers', LinksLive', UsersHoused',
           InvitesKept', Lasting,
           \A r \in Request : job'[r] # job[r] => Holds(job[r])'
    PROVE  Inv'
<1> SUFFICES ASSUME NEW r \in Request, job'[r] = job[r]
             PROVE  Holds(job[r])'
  BY DEF Inv
<1>1. Holds(job[r])
  BY DEF Inv
<1>2. QED
  BY <1>1, KeptLasts DEF Lasting, Holds, At

\* A step of one request that touches no table.
LEMMA JobStep ==
    ASSUME Inv, NEW r \in Request, NEW j \in Job, Goto(r, j), Holds(j),
           UNCHANGED <<tables, server>>
    PROVE  Inv'
<1>1. job' = [job EXCEPT ![r] = j]
  BY DEF Goto
<1>2. TypeOK'
  BY <1>1 DEF Inv, TypeOK, tables, server
<1>3. Holds(j)'
  BY DEF Holds, Kept, Users, Orgs, tables
<1>4. \A q \in Request : job'[q] # job[q] => Holds(job[q])'
  BY <1>1, <1>3 DEF Inv, TypeOK
<1>5. /\ SessionsAreOfVerifiedUsers' /\ LinksLive' /\ UsersHoused'
      /\ InvitesKept' /\ Lasting
  BY DEF Inv, SessionsAreOfVerifiedUsers, LinksLive, UsersHoused, InvitesKept,
         Lasting, Kept, Users, Orgs, Links, tables, Holds, At
<1>6. QED
  BY <1>2, <1>4, <1>5, Preserved

LEMMA JobsAreTyped == ASSUME Inv, NEW r \in Request PROVE job[r] \in Job
BY DEF Inv, TypeOK

LEMMA InitInv == Init => Inv
<1> SUFFICES ASSUME Init PROVE Inv
  OBVIOUS
<1>1. Idle \in Job
  BY DEF Idle, Job, Await
<1> DEFINE row == [domain |-> NULL, verified |-> TRUE,
                   suspended |-> FALSE, stale |-> FALSE]
<1>2. row \in OrgRow
  BY DEF OrgRow
<1>3. org \in [Org -> OrgRow \cup {NULL}]
  <2>1. \/ org = [o \in Org |-> NULL]
        \/ org = [o \in Org |-> IF o = Some(Org) THEN row ELSE NULL]
    BY DEF Init
  <2> HIDE DEF row
  <2>2. QED
    BY <1>2, <2>1
<1>4. /\ user = [u \in User |-> NULL] /\ link = [l \in Link |-> NULL]
      /\ session = [s \in Session |-> NULL]
      /\ invite = [e \in Email |-> NULL]
      /\ job = [r \in Request |-> Idle]
      /\ sweeping = FALSE /\ boot = "up" /\ boots = 0
      /\ domainUnique \in Schemas
  BY DEF Init
<1>5. TypeOK
  <2>1. /\ user \in [User -> UserRow \cup {NULL}]
        /\ link \in [Link -> LinkRow \cup {NULL}]
        /\ session \in [Session -> User \cup {NULL}]
        /\ invite \in [Email -> Org \cup {NULL}]
    BY <1>4
  <2>2. job \in [Request -> Job]
    BY <1>1, <1>4
  <2>3. boots \in 0 .. MaxBoots
    BY <1>4, AccountsAssumption
  <2>4. QED
    BY <1>3, <1>4, <2>1, <2>2, <2>3 DEF TypeOK
<1>6. Users = {} /\ Links = {}
  BY <1>4 DEF Users, Links
<1>7. \A r \in Request : Holds(job[r])
  BY <1>4 DEF Idle, Holds
<1>8. QED
  BY <1>4, <1>5, <1>6, <1>7
     DEF Inv, SessionsAreOfVerifiedUsers, LinksLive, UsersHoused, InvitesKept

(***************************************************************************)
(* Steps of requests that touch no table.                                  *)
(***************************************************************************)

LEMMA IdleIsAJob == Idle \in Job /\ Idle.at = "idle" /\ Holds(Idle)
BY DEF Idle, Job, Await, Holds

LEMMA RegisterInv ==
    ASSUME Inv, NEW r \in Request, NEW e \in Email, Register(r, e)
    PROVE  Inv'
<1> DEFINE first == [Idle EXCEPT !.at = "first", !.email = e]
           pending == [Idle EXCEPT !.at = "pending", !.email = e]
           join(o) == [Idle EXCEPT !.at = "join", !.email = e, !.org = o]
<1>1. UNCHANGED <<tables, server>>
  BY DEF Register
<1>2. /\ first \in Job /\ Holds(first)
      /\ pending \in Job /\ Holds(pending)
  BY DEF Idle, Job, Await, Holds
<1>3. ASSUME NEW o \in CanJoin(DomainOf[e])
      PROVE  join(o) \in Job /\ Holds(join(o))
  <2>1. Kept(o) /\ o \in Org
    BY DEF CanJoin, Kept, Orgs
  <2>2. QED
    BY <2>1 DEF Idle, Job, Await, Holds
<1>4. \/ Goto(r, first) \/ Goto(r, pending)
      \/ \E o \in CanJoin(DomainOf[e]) : Goto(r, join(o))
  BY DEF Register
<1> HIDE DEF first, pending, join
<1>5. QED
  BY <1>1, <1>2, <1>3, <1>4, JobStep

LEMMA RegisterWithInviteInv ==
    ASSUME Inv, NEW r \in Request, NEW e \in Email, RegisterWithInvite(r, e)
    PROVE  Inv'
<1> DEFINE j == [Idle EXCEPT !.at = "invited", !.email = e, !.org = invite[e]]
<1>1. Kept(invite[e]) /\ invite[e] \in Org
  BY DEF RegisterWithInvite, Inv, InvitesKept, Kept, Orgs
<1>2. j \in Job /\ Holds(j)
  BY <1>1 DEF Idle, Job, Await, Holds
<1>3. Goto(r, j) /\ UNCHANGED <<tables, server>>
  BY DEF RegisterWithInvite
<1> HIDE DEF j
<1>4. QED
  BY <1>2, <1>3, JobStep

LEMMA ResendLookupInv ==
    ASSUME Inv, NEW r \in Request, NEW u \in User, ResendLookup(r, u)
    PROVE  Inv'
<1> DEFINE j == [Idle EXCEPT !.at = "resend", !.user = u]
<1>1. j \in Job /\ Holds(j)
  BY DEF Idle, Job, Await, Holds
<1>2. Goto(r, j) /\ UNCHANGED <<tables, server>>
  BY DEF ResendLookup
<1> HIDE DEF j
<1>3. QED
  BY <1>1, <1>2, JobStep

LEMMA LoginInv ==
    ASSUME Inv, NEW r \in Request, NEW u \in User, Login(r, u)
    PROVE  Inv'
<1> DEFINE j == [Idle EXCEPT !.at = "issue", !.user = u]
<1>1. j \in Job /\ Holds(j)
  BY DEF Login, Admitted, Idle, Job, Await, Holds
<1>2. Goto(r, j) /\ UNCHANGED <<tables, server>>
  BY DEF Login
<1> HIDE DEF j
<1>3. QED
  BY <1>1, <1>2, JobStep

LEMMA RefreshSelectInv ==
    ASSUME Inv, NEW r \in Request, NEW s \in Session, RefreshSelect(r, s)
    PROVE  Inv'
<1> DEFINE j == [Idle EXCEPT !.at = "rotate", !.user = session[s],
                             !.session = s]
<1>1. session[s] \in User \cup {NULL}
  BY DEF Inv, TypeOK
<1>2. j \in Job /\ Holds(j)
  BY <1>1 DEF Idle, Job, Await, Holds
<1>3. Goto(r, j) /\ UNCHANGED <<tables, server>>
  BY DEF RefreshSelect
<1> HIDE DEF j
<1>4. QED
  BY <1>2, <1>3, JobStep

LEMMA RefreshGateInv ==
    ASSUME Inv, NEW r \in Request, RefreshGate(r)
    PROVE  Inv'
<1> DEFINE j == [job[r] EXCEPT !.at = "issue"]
<1>1. j \in Job /\ j.at = "issue" /\ j.user = job[r].user
  BY JobsAreTyped DEF Job, Await
<1>2. UNCHANGED <<tables, server>>
  BY DEF RefreshGate
<1>3. \/ Admitted(job[r].user) /\ Goto(r, j)
      \/ Goto(r, Idle)
  BY DEF RefreshGate, End
<1>4. Admitted(job[r].user) => Holds(j)
  BY <1>1 DEF Admitted, Holds
<1> HIDE DEF j
<1>5. QED
  BY <1>1, <1>2, <1>3, <1>4, IdleIsAJob, JobStep

LEMMA CrashInv ==
    ASSUME Inv, NEW r \in Request, Crash(r)
    PROVE  Inv'
BY IdleIsAJob, JobStep DEF Crash, End

(***************************************************************************)
(* Steps of requests that write.                                           *)
(***************************************************************************)

LEMMA InsertFirstOrgInv ==
    ASSUME Inv, NEW r \in Request, InsertFirstOrg(r)
    PROVE  Inv'
<1> DEFINE d == DomainOf[job[r].email]
           o == Some(FreeOrgs)
           row == [domain |-> d, verified |-> TRUE, suspended |-> FALSE,
                   stale |-> FALSE]
           j == [job[r] EXCEPT !.at = "owner", !.org = o]
<1>1. CASE Goto(r, Idle) /\ UNCHANGED org
  BY <1>1, IdleIsAJob, JobStep DEF InsertFirstOrg, tables
<1>2. CASE /\ FreeOrgs # {}
           /\ org' = [org EXCEPT ![o] = row]
           /\ Goto(r, j)
  <2>1. o \in Org /\ o \notin Orgs
    BY <1>2, SomeIsOne DEF FreeOrgs
  <2>2. job[r].email \in Email /\ job[r] \in Job
    BY DEF InsertFirstOrg, At, Inv, Holds, TypeOK
  <2>3. row \in OrgRow /\ row.verified
    BY <2>2, AccountsAssumption DEF OrgRow
  <2>4. j \in Job /\ j.at = "owner" /\ j.org = o /\ j.email = job[r].email
    BY <2>1, <2>2 DEF Job, Await
  <2> HIDE DEF row, j, o
  <2>5. UNCHANGED <<user, link, session, invite, server>>
    BY DEF InsertFirstOrg
  <2>6. TypeOK'
    BY <1>2, <2>1, <2>3, <2>4, <2>5 DEF Inv, TypeOK, Goto, server
  <2>7. Orgs' = Orgs \cup {o} /\ Users' = Users
    BY <1>2, <2>1, <2>3, <2>5, NoRowIsNull DEF Orgs, Users, Inv, TypeOK
  <2>8. Lasting /\ org'[o].verified
    BY <1>2, <2>1, <2>3, <2>5, <2>7 DEF Lasting, Inv, TypeOK, Orgs, Holds, At
  <2>9. SessionsAreOfVerifiedUsers' /\ LinksLive'
    BY <2>5, <2>7 DEF Inv, SessionsAreOfVerifiedUsers, LinksLive, Links
  <2>10. UsersHoused' /\ InvitesKept'
    BY <2>5, <2>7, <2>8, KeptLasts DEF Inv, UsersHoused, InvitesKept
  <2>11. \A p : p = o => Kept(p)'
    BY <2>7, <2>8 DEF Kept
  <2>12. \A q \in Request : job'[q] # job[q] => Holds(job[q])'
    BY <1>2, <2>2, <2>4, <2>11 DEF Goto, Inv, TypeOK, Holds
  <2>13. QED
    BY <2>6, <2>8, <2>9, <2>10, <2>12, Preserved
<1>3. QED
  BY <1>1, <1>2 DEF InsertFirstOrg, End

LEMMA InsertUserInv ==
    ASSUME Inv, NEW r \in Request, InsertUser(r)
    PROVE  Inv'
<1> DEFINE u == Some(FreeUsers)
           row == [email |-> job[r].email, org |-> job[r].org,
                   verified |-> ~At(r, "invited"), role |-> "none",
                   stale |-> FALSE]
           next == [owner |-> "ownerRow", join |-> "memberRow",
                    invited |-> "inviteRow"]
           j == [job[r] EXCEPT !.at = next[job[r].at], !.user = u]
<1>1. CASE Goto(r, Idle) /\ UNCHANGED user
  BY <1>1, IdleIsAJob, JobStep DEF InsertUser, tables
<1>2. CASE /\ FreeUsers # {}
           /\ user' = [user EXCEPT ![u] = row]
           /\ Goto(r, j)
  <2>1. u \in User /\ u \notin Users
    BY <1>2, SomeIsOne DEF FreeUsers
  <2>2. /\ job[r].email \in Email /\ Kept(job[r].org) /\ job[r] \in Job
        /\ job[r].at \in {"owner", "join", "invited"}
    BY DEF InsertUser, At, Inv, Holds, TypeOK
  <2>3. /\ row \in UserRow /\ row.org = job[r].org /\ ~row.stale
        /\ row.verified = (job[r].at # "invited")
    BY <2>2 DEF UserRow, Kept, Orgs, At
  <2>4. next[job[r].at] = IF job[r].at = "owner" THEN "ownerRow"
                          ELSE IF job[r].at = "join" THEN "memberRow"
                          ELSE "inviteRow"
    BY <2>2
  <2> HIDE DEF next
  <2>5. /\ j \in Job /\ j.user = u
        /\ j.at \in {"ownerRow", "memberRow", "inviteRow"}
        /\ j.at # "inviteRow" => row.verified
    BY <2>1, <2>2, <2>3, <2>4 DEF Job, Await
  <2> HIDE DEF row, j, u
  <2>6. UNCHANGED <<org, link, session, invite, server>>
    BY DEF InsertUser
  <2>7. TypeOK'
    BY <1>2, <2>1, <2>3, <2>5, <2>6 DEF Inv, TypeOK, Goto, server
  <2>8. Users' = Users \cup {u} /\ Orgs' = Orgs /\ Links' = Links
    BY <1>2, <2>1, <2>3, <2>6, NoRowIsNull DEF Orgs, Users, Links, Inv, TypeOK
  <2>9. user'[u] = row /\ \A v \in Users : user'[v] = user[v]
    BY <1>2, <2>1 DEF Inv, TypeOK, Users
  <2>10. Lasting
    BY <2>6, <2>8, <2>9 DEF Lasting, Holds, At
  <2>11. SessionsAreOfVerifiedUsers' /\ LinksLive'
    BY <2>6, <2>8, <2>9 DEF Inv, SessionsAreOfVerifiedUsers, LinksLive
  <2>12. UsersHoused' /\ InvitesKept'
    BY <2>2, <2>3, <2>6, <2>8, <2>9, <2>10, KeptLasts
       DEF Inv, UsersHoused, InvitesKept, Kept
  <2>13. \A q \in Request : job'[q] # job[q] => Holds(job[q])'
    BY <1>2, <2>3, <2>5, <2>8, <2>9 DEF Goto, Inv, TypeOK, Holds
  <2>14. QED
    BY <2>7, <2>10, <2>11, <2>12, <2>13, Preserved
<1>3. QED
  BY <1>1, <1>2 DEF InsertUser, End

LEMMA InsertMemberInv ==
    ASSUME Inv, NEW r \in Request, InsertMember(r)
    PROVE  Inv'
<1> DEFINE u == job[r].user
           role == IF At(r, "ownerRow") THEN "owner" ELSE "member"
           j == IF At(r, "inviteRow") THEN [job[r] EXCEPT !.at = "accept"]
                                      ELSE Idle
<1>1. u \in Users /\ u \in User
  BY DEF InsertMember, Inv, Holds, Users
<1>2. j \in Job /\ j.at \in {"accept", "idle"}
  BY JobsAreTyped, IdleIsAJob DEF Job, Await
<1>3. Goto(r, j) /\ UNCHANGED <<org, link, session, invite, server>>
  BY DEF InsertMember, End
<1>4. role # "none" /\ role \in {"owner", "member", "none"}
  OBVIOUS
<1>5. user' = [user EXCEPT ![u].role = role]
  BY DEF InsertMember
<1> HIDE DEF role, j, u
<1>6. user[u] \in UserRow /\ user \in [User -> UserRow \cup {NULL}]
  BY <1>1 DEF Inv, TypeOK, Users
<1>7. /\ user'[u] = [user[u] EXCEPT !.role = role]
      /\ \A v \in User \ {u} : user'[v] = user[v]
      /\ user'[u] \in UserRow /\ user' \in [User -> UserRow \cup {NULL}]
  BY <1>1, <1>4, <1>5, <1>6 DEF UserRow
<1>8. /\ user'[u].verified = user[u].verified
      /\ user'[u].stale = user[u].stale
      /\ user'[u].org = user[u].org
      /\ user'[u].role # "none"
  BY <1>4, <1>6, <1>7 DEF UserRow
<1>9. Users' = Users /\ Orgs' = Orgs /\ Links' = Links
  BY <1>1, <1>3, <1>7, NoRowIsNull DEF Orgs, Users, Links
<1>10. TypeOK'
  BY <1>2, <1>3, <1>7 DEF Inv, TypeOK, Goto, server
<1>11. Lasting
  BY <1>3, <1>7, <1>8, <1>9 DEF Lasting, Holds, At, Users
<1>12. SessionsAreOfVerifiedUsers' /\ LinksLive'
  BY <1>3, <1>7, <1>8, <1>9 DEF Inv, SessionsAreOfVerifiedUsers, LinksLive,
                                Users
<1>13. UsersHoused' /\ InvitesKept'
  BY <1>3, <1>7, <1>8, <1>9, <1>11, KeptLasts
     DEF Inv, UsersHoused, InvitesKept, Users
<1>14. \A q \in Request : job'[q] # job[q] => Holds(job[q])'
  BY <1>2, <1>3 DEF Goto, Inv, TypeOK, Holds
<1>15. QED
  BY <1>10, <1>11, <1>12, <1>13, <1>14, Preserved

LEMMA MarkAcceptedInv ==
    ASSUME Inv, NEW r \in Request, MarkAccepted(r)
    PROVE  Inv'
<1>1. Goto(r, Idle) /\ UNCHANGED <<user, org, link, session, server>>
  BY DEF MarkAccepted, End
<1>2. /\ invite' \in [Email -> Org \cup {NULL}]
      /\ \A e \in Email : invite'[e] \in {NULL, invite[e]}
  BY DEF MarkAccepted, Inv, TypeOK
<1>3. TypeOK'
  BY <1>1, <1>2, IdleIsAJob DEF Inv, TypeOK, Goto, server
<1>4. Lasting /\ SessionsAreOfVerifiedUsers' /\ LinksLive' /\ UsersHoused'
  BY <1>1 DEF Lasting, Inv, SessionsAreOfVerifiedUsers, LinksLive, UsersHoused,
              Kept, Users, Orgs, Links, Holds, At
<1>5. InvitesKept'
  BY <1>2, <1>4, KeptLasts DEF Inv, InvitesKept
<1>6. \A q \in Request : job'[q] # job[q] => Holds(job[q])'
  BY <1>1, IdleIsAJob DEF Goto, Inv, TypeOK, Holds
<1>7. QED
  BY <1>3, <1>4, <1>5, <1>6, Preserved

LEMMA InsertPendingInv ==
    ASSUME Inv, NEW r \in Request, InsertPending(r)
    PROVE  Inv'
<1>1. Goto(r, Idle) /\ UNCHANGED <<session, invite, server>>
  BY DEF InsertPending, End
<1>2. CASE UNCHANGED <<user, org, link>>
  BY <1>1, <1>2, IdleIsAJob, JobStep DEF tables
<1>3. ASSUME FreeUsers # {}, FreeOrgs # {}, FreeLinks # {},
             NEW u \in FreeUsers, NEW o \in FreeOrgs, NEW l \in FreeLinks,
             NEW e \in Email,
             org' = [org EXCEPT ![o] =
                       [domain |-> DomainOf[e], verified |-> FALSE,
                        suspended |-> FALSE, stale |-> FALSE]],
             user' = [user EXCEPT ![u] =
                        [email |-> e, org |-> o, verified |-> FALSE,
                         role |-> "owner", stale |-> FALSE]],
             link' = [link EXCEPT ![l] = [user |-> u, used |-> FALSE]]
      PROVE  Inv'
  <2> DEFINE orow == [domain |-> DomainOf[e], verified |-> FALSE,
                      suspended |-> FALSE, stale |-> FALSE]
             urow == [email |-> e, org |-> o, verified |-> FALSE,
                      role |-> "owner", stale |-> FALSE]
             lrow == [user |-> u, used |-> FALSE]
  <2>1. /\ u \in User /\ u \notin Users
        /\ o \in Org /\ o \notin Orgs
        /\ l \in Link /\ l \notin Links
    BY DEF FreeUsers, FreeOrgs, FreeLinks
  <2>2. orow \in OrgRow /\ urow \in UserRow /\ lrow \in LinkRow
    BY <2>1, AccountsAssumption DEF OrgRow, UserRow, LinkRow
  <2>3. /\ urow.org = o /\ ~urow.verified /\ urow.role = "owner"
        /\ lrow.user = u
    OBVIOUS
  <2>4. /\ org' = [org EXCEPT ![o] = orow]
        /\ user' = [user EXCEPT ![u] = urow]
        /\ link' = [link EXCEPT ![l] = lrow]
    BY <1>3
  <2> HIDE DEF orow, urow, lrow
  <2>5. TypeOK'
    BY <1>1, <2>1, <2>2, <2>4, IdleIsAJob DEF Inv, TypeOK, Goto, server
  <2>6. /\ Users' = Users \cup {u}
        /\ Orgs' = Orgs \cup {o}
        /\ Links' = Links \cup {l}
    BY <2>1, <2>2, <2>4, NoRowIsNull DEF Orgs, Users, Links, Inv, TypeOK
  <2>7. /\ user'[u] = urow /\ \A v \in Users : user'[v] = user[v]
        /\ link'[l] = lrow /\ \A k \in Links : link'[k] = link[k]
        /\ \A p \in Orgs : org'[p] = org[p]
    BY <2>1, <2>4 DEF Inv, TypeOK, Users, Links, Orgs
  <2>8. Lasting
    BY <2>6, <2>7 DEF Lasting, Holds, At
  <2>9. SessionsAreOfVerifiedUsers' /\ LinksLive'
    BY <1>1, <2>3, <2>6, <2>7 DEF Inv, SessionsAreOfVerifiedUsers, LinksLive
  <2>10. UsersHoused' /\ InvitesKept'
    BY <1>1, <2>3, <2>6, <2>7, <2>8, KeptLasts
       DEF Inv, UsersHoused, InvitesKept
  <2>11. \A q \in Request : job'[q] # job[q] => Holds(job[q])'
    BY <1>1, IdleIsAJob DEF Goto, Inv, TypeOK, Holds
  <2>12. QED
    BY <2>5, <2>8, <2>9, <2>10, <2>11, Preserved
<1>4. job[r].email \in Email
  BY DEF InsertPending, At, Inv, Holds
<1>5. QED
  BY <1>2, <1>3, <1>4, SomeIsOne DEF InsertPending

LEMMA VerifyEmailInv ==
    ASSUME Inv, NEW r \in Request, NEW l \in Link, VerifyEmail(r, l)
    PROVE  Inv'
<1>1. PICK u \in Users : u = link[l].user
  BY DEF VerifyEmail, Inv, LinksLive
<1>2. PICK o \in Orgs : o = user[u].org
  BY DEF Inv, UsersHoused
<1> DEFINE lrow == [link[l] EXCEPT !.used = TRUE]
           urow == [user[u] EXCEPT !.verified = TRUE, !.stale = FALSE]
           orow == [org[o] EXCEPT !.verified = TRUE, !.stale = FALSE]
           j == [Idle EXCEPT !.at = "issue", !.user = u]
<1>3. /\ u \in User /\ user[u] \in UserRow /\ o \in Org /\ org[o] \in OrgRow
      /\ l \in Links /\ link[l] \in LinkRow
  BY DEF VerifyEmail, Inv, TypeOK, Users, Orgs, Links
<1>4. /\ lrow \in LinkRow /\ lrow.user = u
      /\ urow \in UserRow /\ urow.verified /\ ~urow.stale
      /\ urow.org = o /\ urow.role = user[u].role
      /\ orow \in OrgRow /\ orow.verified
      /\ j \in Job /\ j.at = "issue" /\ j.user = u
  BY <1>1, <1>2, <1>3 DEF LinkRow, UserRow, OrgRow, Idle, Job, Await
<1>5. /\ link' = [link EXCEPT ![l] = lrow]
      /\ user' = [user EXCEPT ![u] = urow]
      /\ org' = [p \in Org |-> IF p = o THEN orow ELSE org[p]]
      /\ Goto(r, j)
      /\ UNCHANGED <<session, invite, server>>
  BY <1>1, <1>2 DEF VerifyEmail
<1> HIDE DEF lrow, urow, orow, j
<1>6. TypeOK'
  BY <1>3, <1>4, <1>5 DEF Inv, TypeOK, Goto, server
<1>7. Users' = Users /\ Orgs' = Orgs /\ Links' = Links
  BY <1>3, <1>4, <1>5, NoRowIsNull DEF Orgs, Users, Links, Inv, TypeOK
<1>8. /\ user'[u] = urow /\ \A v \in Users : v # u => user'[v] = user[v]
      /\ link'[l] = lrow /\ \A k \in Links : k # l => link'[k] = link[k]
      /\ org'[o] = orow /\ \A p \in Orgs : p # o => org'[p] = org[p]
  BY <1>3, <1>5 DEF Inv, TypeOK, Users, Links, Orgs
<1>9. Lasting
  BY <1>2, <1>4, <1>7, <1>8 DEF Lasting, Holds, At
<1>10. SessionsAreOfVerifiedUsers' /\ LinksLive'
  BY <1>4, <1>5, <1>7, <1>8 DEF Inv, SessionsAreOfVerifiedUsers, LinksLive
<1>11. UsersHoused' /\ InvitesKept'
  BY <1>2, <1>4, <1>5, <1>7, <1>8, <1>9, KeptLasts
     DEF Inv, UsersHoused, InvitesKept
<1>12. \A q \in Request : job'[q] # job[q] => Holds(job[q])'
  BY <1>4, <1>5, <1>7, <1>8 DEF Goto, Inv, TypeOK, Holds
<1>13. QED
  BY <1>6, <1>9, <1>10, <1>11, <1>12, Preserved

LEMMA InsertLinkInv ==
    ASSUME Inv, NEW r \in Request, InsertLink(r)
    PROVE  Inv'
<1>1. Goto(r, Idle) /\ UNCHANGED <<user, org, session, invite, server>>
  BY DEF InsertLink, End
<1>2. CASE UNCHANGED link
  BY <1>1, <1>2, IdleIsAJob, JobStep DEF tables
<1>3. ASSUME NEW l \in FreeLinks, NEW u \in Users,
             link' = [link EXCEPT ![l] = [user |-> u, used |-> FALSE]]
      PROVE  Inv'
  <2> DEFINE row == [user |-> u, used |-> FALSE]
  <2>1. row \in LinkRow /\ row.user = u /\ l \in Link
    BY DEF LinkRow, FreeLinks, Users
  <2>2. link' = [link EXCEPT ![l] = row]
    BY <1>3
  <2> HIDE DEF row
  <2>3. TypeOK'
    BY <1>1, <2>1, <2>2, IdleIsAJob DEF Inv, TypeOK, Goto, server
  <2>4. LinksLive'
    BY <1>1, <2>1, <2>2 DEF Inv, TypeOK, LinksLive, Links, Users
  <2>5. Lasting /\ SessionsAreOfVerifiedUsers' /\ UsersHoused' /\ InvitesKept'
    BY <1>1 DEF Lasting, Inv, SessionsAreOfVerifiedUsers, UsersHoused,
                InvitesKept, Kept, Users, Orgs, Holds, At
  <2>6. \A q \in Request : job'[q] # job[q] => Holds(job[q])'
    BY <1>1, IdleIsAJob DEF Goto, Inv, TypeOK, Holds
  <2>7. QED
    BY <2>3, <2>4, <2>5, <2>6, Preserved
<1>4. QED
  BY <1>2, <1>3, SomeIsOne DEF InsertLink

LEMMA IssueSessionInv ==
    ASSUME Inv, NEW r \in Request, IssueSession(r)
    PROVE  Inv'
<1>1. Goto(r, Idle) /\ UNCHANGED <<user, org, link, invite, server>>
  BY DEF IssueSession, End
<1>2. PICK u \in Users : u = job[r].user /\ user[u].verified
  BY DEF IssueSession, At, Inv, Holds
<1>3. PICK s \in Session : session' = [session EXCEPT ![s] = u]
  BY <1>2, SomeIsOne DEF IssueSession, FreeSessions
<1>4. TypeOK'
  BY <1>1, <1>3, IdleIsAJob DEF Inv, TypeOK, Goto, server, Users
<1>5. SessionsAreOfVerifiedUsers'
  BY <1>1, <1>2, <1>3 DEF Inv, TypeOK, SessionsAreOfVerifiedUsers, Users
<1>6. Lasting /\ LinksLive' /\ UsersHoused' /\ InvitesKept'
  BY <1>1 DEF Lasting, Inv, LinksLive, UsersHoused, InvitesKept, Kept, Users,
              Orgs, Links, Holds, At
<1>7. \A q \in Request : job'[q] # job[q] => Holds(job[q])'
  BY <1>1, IdleIsAJob DEF Goto, Inv, TypeOK, Holds
<1>8. QED
  BY <1>4, <1>5, <1>6, <1>7, Preserved

LEMMA RotateDeleteInv ==
    ASSUME Inv, NEW r \in Request, RotateDelete(r)
    PROVE  Inv'
<1> DEFINE j == [job[r] EXCEPT !.at = "gate", !.session = NULL]
<1>1. j \in Job
  BY JobsAreTyped DEF Job, Await
<1>2. Goto(r, j) /\ UNCHANGED <<user, org, link, invite, server>>
  BY DEF RotateDelete
<1>3. /\ session' \in [Session -> User \cup {NULL}]
      /\ \A s \in Session : session'[s] \in {NULL, session[s]}
  BY DEF RotateDelete, Inv, TypeOK
<1>4. j.at = "gate"
  BY JobsAreTyped DEF Job
<1> HIDE DEF j
<1>5. TypeOK'
  BY <1>1, <1>2, <1>3 DEF Inv, TypeOK, Goto, server
<1>6. SessionsAreOfVerifiedUsers'
  BY <1>2, <1>3 DEF Inv, SessionsAreOfVerifiedUsers, Users
<1>7. Lasting /\ LinksLive' /\ UsersHoused' /\ InvitesKept'
  BY <1>2 DEF Lasting, Inv, LinksLive, UsersHoused, InvitesKept, Kept, Users,
              Orgs, Links, Holds, At
<1>8. \A q \in Request : job'[q] # job[q] => Holds(job[q])'
  BY <1>2, <1>4 DEF Goto, Inv, TypeOK, Holds
<1>9. QED
  BY <1>5, <1>6, <1>7, <1>8, Preserved

LEMMA LogoutInv ==
    ASSUME Inv, NEW s \in Session, Logout(s)
    PROVE  Inv'
<1>1. UNCHANGED <<user, org, link, invite, job, server>>
  BY DEF Logout
<1>2. /\ session' \in [Session -> User \cup {NULL}]
      /\ \A t \in Session : session'[t] \in {NULL, session[t]}
  BY DEF Logout, Inv, TypeOK
<1>3. TypeOK' /\ SessionsAreOfVerifiedUsers'
  BY <1>1, <1>2 DEF Inv, TypeOK, server, SessionsAreOfVerifiedUsers, Users
<1>4. Lasting /\ LinksLive' /\ UsersHoused' /\ InvitesKept'
  BY <1>1 DEF Lasting, Inv, LinksLive, UsersHoused, InvitesKept, Kept, Users,
              Orgs, Links, Holds, At
<1>5. QED
  BY <1>1, <1>3, <1>4, Preserved

(***************************************************************************)
(* Owners, platform admins, the clock, the janitor and boots.              *)
(***************************************************************************)

LEMMA CreateInviteInv ==
    ASSUME Inv, NEW e \in Email, NEW o \in Org, CreateInvite(e, o)
    PROVE  Inv'
<1>1. UNCHANGED <<user, org, link, session, job, server>>
  BY DEF CreateInvite
<1>2. Kept(o)
  <2>1. PICK u \in Users : user[u].org = o /\ user[u].role = "owner"
                                           /\ user[u].verified
    BY DEF CreateInvite, Admitted
  <2>2. o \in Orgs
    BY <2>1 DEF Inv, UsersHoused
  <2>3. QED
    BY <2>1, <2>2 DEF Kept
<1>3. invite' = [invite EXCEPT ![e] = o]
  BY DEF CreateInvite
<1>4. TypeOK'
  BY <1>1, <1>3 DEF Inv, TypeOK, server
<1>5. Lasting /\ SessionsAreOfVerifiedUsers' /\ LinksLive' /\ UsersHoused'
  BY <1>1 DEF Lasting, Inv, SessionsAreOfVerifiedUsers, LinksLive, UsersHoused,
              Kept, Users, Orgs, Links, Holds, At
<1>6. InvitesKept'
  BY <1>2, <1>3, <1>5, KeptLasts DEF Inv, InvitesKept, TypeOK
<1>7. QED
  BY <1>1, <1>4, <1>5, <1>6, Preserved

LEMMA SetSuspendedInv ==
    ASSUME Inv, NEW o \in Org, SetSuspended(o)
    PROVE  Inv'
<1> DEFINE row == [org[o] EXCEPT !.suspended = ~@]
<1>1. UNCHANGED <<user, link, session, invite, job, server>>
  BY DEF SetSuspended
<1>2. o \in Orgs /\ org[o] \in OrgRow
  BY DEF SetSuspended, Inv, TypeOK, Orgs
<1>3. row \in OrgRow /\ row.verified = org[o].verified
  BY <1>2 DEF OrgRow
<1>4. org' = [org EXCEPT ![o] = row]
  BY DEF SetSuspended
<1> HIDE DEF row
<1>5. TypeOK'
  BY <1>1, <1>3, <1>4 DEF Inv, TypeOK, server
<1>6. Users' = Users /\ Orgs' = Orgs /\ Links' = Links
  BY <1>1, <1>2, <1>3, <1>4, NoRowIsNull DEF Orgs, Users, Links, Inv, TypeOK
<1>7. Lasting
  BY <1>1, <1>3, <1>4, <1>6 DEF Lasting, Holds, At, Inv, TypeOK, Orgs
<1>8. SessionsAreOfVerifiedUsers' /\ LinksLive'
  BY <1>1, <1>6 DEF Inv, SessionsAreOfVerifiedUsers, LinksLive
<1>9. UsersHoused' /\ InvitesKept'
  BY <1>1, <1>6, <1>7, KeptLasts DEF Inv, UsersHoused, InvitesKept
<1>10. QED
  BY <1>1, <1>5, <1>7, <1>8, <1>9, Preserved

LEMMA AgesInv ==
    ASSUME Inv, NEW u \in User, Ages(u)
    PROVE  Inv'
<1> DEFINE urow == [user[u] EXCEPT !.stale = TRUE]
           orow(o) == IF o = user[u].org /\ ~org[o].verified
                      THEN [org[o] EXCEPT !.stale = TRUE] ELSE org[o]
<1>1. UNCHANGED <<link, session, invite, job, server>>
  BY DEF Ages
<1>2. u \in Users /\ user[u] \in UserRow /\ user[u].org \in Orgs
  BY DEF Ages, Inv, TypeOK, Users, UsersHoused
<1>3. /\ urow \in UserRow /\ urow.verified = user[u].verified
      /\ urow.org = user[u].org /\ urow.role = user[u].role
  BY <1>2 DEF UserRow
<1>4. \A o \in Orgs : /\ org[o] \in OrgRow
                      /\ orow(o) \in OrgRow
                      /\ orow(o).verified = org[o].verified
  <2>1. \A o \in Orgs : org[o] \in OrgRow
    BY DEF Orgs, Inv, TypeOK
  <2>2. \A row \in OrgRow :
           /\ [row EXCEPT !.stale = TRUE] \in OrgRow
           /\ [row EXCEPT !.stale = TRUE].verified = row.verified
    BY DEF OrgRow
  <2>3. QED
    BY <2>1, <2>2
<1>5. \A o \in Org \ Orgs : orow(o) = NULL
  <2>1. \A o \in Org \ Orgs : o # user[u].org /\ org[o] = NULL
    BY <1>2 DEF Orgs
  <2>2. QED
    BY <2>1
<1>6. user' = [user EXCEPT ![u] = urow] /\ org' = [o \in Org |-> orow(o)]
  BY DEF Ages
<1>7. \A r \in Request : At(r, "inviteRow") => job[r].user # u
  BY DEF Ages, At
<1> HIDE DEF urow, orow
<1>8. TypeOK'
  <2>1. org' \in [Org -> OrgRow \cup {NULL}]
    BY <1>4, <1>5, <1>6 DEF Orgs
  <2>2. user' \in [User -> UserRow \cup {NULL}]
    BY <1>3, <1>6 DEF Inv, TypeOK
  <2>3. QED
    BY <1>1, <2>1, <2>2 DEF Inv, TypeOK, server
<1>9. Users' = Users /\ Orgs' = Orgs /\ Links' = Links
  <2>1. Orgs' = Orgs
    BY <1>4, <1>5, <1>6, NoRowIsNull DEF Orgs
  <2>2. QED
    BY <1>1, <1>2, <1>3, <1>6, <2>1, NoRowIsNull DEF Users, Links, Inv, TypeOK
<1>10. /\ user'[u] = urow
       /\ \A v \in Users : v # u => user'[v] = user[v]
       /\ \A o \in Orgs : org'[o] = orow(o)
  BY <1>2, <1>6 DEF Inv, TypeOK, Users, Orgs
<1>11. Lasting
  BY <1>3, <1>4, <1>7, <1>9, <1>10 DEF Lasting, Holds, At
<1>12. SessionsAreOfVerifiedUsers' /\ LinksLive'
  BY <1>1, <1>3, <1>9, <1>10 DEF Inv, SessionsAreOfVerifiedUsers, LinksLive
<1>13. UsersHoused' /\ InvitesKept'
  BY <1>1, <1>3, <1>9, <1>10, <1>11, KeptLasts
     DEF Inv, UsersHoused, InvitesKept
<1>14. QED
  BY <1>1, <1>8, <1>11, <1>12, <1>13, Preserved

LEMMA SweepUsersInv ==
    ASSUME Inv, SweepUsers
    PROVE  Inv'
<1> DEFINE swept == {u \in Users : ~user[u].verified /\ user[u].stale}
<1>1. /\ user' = [u \in User |-> IF u \in swept THEN NULL ELSE user[u]]
      /\ link' = [l \in Link |-> IF l \in Links /\ link[l].user \in swept
                                 THEN NULL ELSE link[l]]
      /\ session' = [s \in Session |-> IF session[s] \in swept
                                       THEN NULL ELSE session[s]]
      /\ sweeping' = TRUE
      /\ UNCHANGED <<org, invite, job, boot, boots, domainUnique>>
  BY DEF SweepUsers
<1>2. TypeOK'
  BY <1>1 DEF Inv, TypeOK
<1>3. \A u \in Users : ~user[u].verified /\ user[u].stale <=> u \in swept
  OBVIOUS
<1> HIDE DEF swept
<1>4. /\ \A u \in User : u \in (Users)' <=> u \in Users /\ u \notin swept
      /\ (Users)' \subseteq Users
      /\ \A u \in (Users)' : user'[u] = user[u]
      /\ Orgs' = Orgs
  BY <1>1 DEF Users, Orgs
<1>5. \A l \in (Links)' : /\ l \in Links /\ link'[l] = link[l]
                          /\ link[l].user \notin swept
  BY <1>1 DEF Links
<1>6. \A s \in Session : session'[s] # NULL
         => session'[s] = session[s] /\ session[s] \notin swept
  BY <1>1
<1>7. Lasting
  BY <1>1, <1>3, <1>4 DEF Lasting, Holds, At, Users, Kept
<1>8. SessionsAreOfVerifiedUsers'
  BY <1>4, <1>6 DEF Inv, SessionsAreOfVerifiedUsers, Users
<1>9. LinksLive'
  BY <1>4, <1>5 DEF Inv, LinksLive, Users
<1>10. UsersHoused' /\ InvitesKept'
  BY <1>1, <1>4, <1>7, KeptLasts DEF Inv, UsersHoused, InvitesKept
<1>11. QED
  BY <1>1, <1>2, <1>7, <1>8, <1>9, <1>10, Preserved

\* The janitor's second statement takes no organization that is anybody's.
LEMMA OrphansAreNobodys ==
    ASSUME Inv
    PROVE  /\ \A u \in Users : user[u].org \notin Orphans
           /\ \A o \in Orphans : ~Kept(o) /\ o \in Orgs
<1>1. \A o \in Orphans : ~Kept(o) /\ o \in Orgs
  BY DEF Orphans, Kept
<1>2. \A u \in Users : user[u].org \in Orphans => user[u].role = "none"
  BY DEF Orphans
<1>3. QED
  BY <1>1, <1>2 DEF Inv, UsersHoused

LEMMA SweepOrgsInv ==
    ASSUME Inv, SweepOrgs
    PROVE  Inv'
<1> DEFINE gone == Orphans
<1>1. /\ org' = [o \in Org |-> IF o \in gone THEN NULL ELSE org[o]]
      /\ user' = [u \in User |-> IF u \in Users /\ user[u].org \in gone
                                 THEN [user[u] EXCEPT !.org = NULL]
                                 ELSE user[u]]
      /\ invite' = [e \in Email |-> IF invite[e] \in gone THEN NULL
                                                          ELSE invite[e]]
      /\ sweeping' = FALSE
      /\ UNCHANGED <<link, session, job, boot, boots, domainUnique>>
  BY DEF SweepOrgs
<1>2. /\ \A u \in Users : user[u].org \notin gone
      /\ \A o \in gone : ~Kept(o) /\ o \in Orgs
  BY OrphansAreNobodys
<1> HIDE DEF gone
<1>3. user' = user
  <2>1. user' = [u \in User |-> user[u]]
    BY <1>1, <1>2
  <2>2. QED
    BY <2>1 DEF Inv, TypeOK
<1>4. TypeOK'
  BY <1>1, <1>3 DEF Inv, TypeOK
<1>5. /\ Users' = Users /\ Links' = Links
      /\ \A o \in Org : o \in (Orgs)' <=> o \in Orgs /\ o \notin gone
      /\ \A o \in (Orgs)' : org'[o] = org[o]
  BY <1>1, <1>3 DEF Users, Links, Orgs
<1>6. Lasting
  BY <1>1, <1>2, <1>3, <1>5 DEF Lasting, Holds, At, Orgs
<1>7. SessionsAreOfVerifiedUsers' /\ LinksLive'
  BY <1>1, <1>3, <1>5 DEF Inv, SessionsAreOfVerifiedUsers, LinksLive
<1>8. \A e \in Email : invite'[e] \in {NULL, invite[e]}
  BY <1>1
<1>9. UsersHoused' /\ InvitesKept'
  BY <1>2, <1>3, <1>5, <1>6, <1>8, KeptLasts
     DEF Inv, UsersHoused, InvitesKept, Orgs
<1>10. QED
  BY <1>1, <1>4, <1>6, <1>7, <1>9, Preserved

LEMMA RestartInv ==
    ASSUME Inv, Restart
    PROVE  Inv'
<1>1. UNCHANGED <<tables, domainUnique>> /\ boot' = "users"
  BY DEF Restart
<1>2. boots' \in 0 .. MaxBoots
  BY AccountsAssumption DEF Restart, Inv, TypeOK
<1>3. /\ \A r \in Request : job'[r] = job[r] \/ job'[r] = Idle
      /\ job' \in [Request -> Job]
      /\ sweeping' \in BOOLEAN
  BY IdleIsAJob DEF Restart, Inv, TypeOK
<1>4. TypeOK'
  BY <1>1, <1>2, <1>3 DEF Inv, TypeOK, tables
<1>5. /\ Lasting /\ SessionsAreOfVerifiedUsers' /\ LinksLive' /\ UsersHoused'
      /\ InvitesKept'
  BY <1>1 DEF Lasting, Inv, SessionsAreOfVerifiedUsers, LinksLive, UsersHoused,
              InvitesKept, Kept, Users, Orgs, Links, Holds, At, tables
<1>6. \A r \in Request : job'[r] # job[r] => Holds(job[r])'
  BY <1>3, IdleIsAJob DEF Holds
<1>7. QED
  BY <1>4, <1>5, <1>6, Preserved

LEMMA GrandfatherUsersInv ==
    ASSUME Inv, GrandfatherUsers
    PROVE  Inv'
<1> DEFINE row(u) == [user[u] EXCEPT !.verified = TRUE, !.stale = FALSE]
<1>1. UNCHANGED <<org, link, session, invite, job, sweeping, boots, domainUnique>>
  BY DEF GrandfatherUsers
<1>2. \A u \in Users : /\ row(u) \in UserRow /\ row(u).verified
                       /\ ~row(u).stale /\ row(u).org = user[u].org
                       /\ row(u).role = user[u].role
  <2>1. \A u \in Users : user[u] \in UserRow
    BY DEF Users, Inv, TypeOK
  <2>2. QED
    BY <2>1 DEF UserRow
<1>3. user' = [u \in User |-> IF u \in Users THEN row(u) ELSE user[u]]
  BY DEF GrandfatherUsers
<1>4. boot' = "orgs"
  BY DEF GrandfatherUsers
<1> HIDE DEF row
<1>5. user' \in [User -> UserRow \cup {NULL}]
  BY <1>2, <1>3 DEF Inv, TypeOK
<1>6. TypeOK'
  BY <1>1, <1>4, <1>5 DEF Inv, TypeOK
<1>7. Users' = Users /\ Orgs' = Orgs /\ Links' = Links
  BY <1>1, <1>2, <1>3, NoRowIsNull DEF Users, Orgs, Links
<1>8. \A u \in Users : user'[u] = row(u)
  BY <1>3 DEF Users
<1>9. Lasting
  BY <1>1, <1>2, <1>7, <1>8 DEF Lasting, Holds, At
<1>10. SessionsAreOfVerifiedUsers' /\ LinksLive'
  BY <1>1, <1>2, <1>7, <1>8 DEF Inv, SessionsAreOfVerifiedUsers, LinksLive
<1>11. UsersHoused' /\ InvitesKept'
  BY <1>1, <1>2, <1>7, <1>8, <1>9, KeptLasts DEF Inv, UsersHoused, InvitesKept
<1>12. QED
  BY <1>1, <1>6, <1>9, <1>10, <1>11, Preserved

LEMMA GrandfatherOrgsInv ==
    ASSUME Inv, GrandfatherOrgs
    PROVE  Inv'
<1> DEFINE row(o) == [org[o] EXCEPT !.verified = TRUE, !.stale = FALSE]
<1>1. /\ UNCHANGED <<user, link, session, invite, job, sweeping, boots,
                     domainUnique>>
      /\ boot' = "up"
  BY DEF GrandfatherOrgs
<1>2. \A o \in Orgs : row(o) \in OrgRow /\ row(o).verified
  <2>1. \A o \in Orgs : org[o] \in OrgRow
    BY DEF Orgs, Inv, TypeOK
  <2>2. QED
    BY <2>1 DEF OrgRow
<1>3. \/ org' = [o \in Org |-> IF o \in Orgs THEN row(o) ELSE org[o]]
      \/ org' = [o \in Org |-> org[o]]
  BY DEF GrandfatherOrgs
<1> HIDE DEF row
<1>4. /\ org' \in [Org -> OrgRow \cup {NULL}]
      /\ Orgs' = Orgs
      /\ \A o \in Orgs : org'[o] = row(o) \/ org'[o] = org[o]
  BY <1>2, <1>3, NoRowIsNull DEF Inv, TypeOK, Orgs
<1>5. TypeOK'
  BY <1>1, <1>4 DEF Inv, TypeOK
<1>6. Users' = Users /\ Links' = Links
  BY <1>1 DEF Users, Links
<1>7. Lasting
  BY <1>1, <1>2, <1>4, <1>6 DEF Lasting, Holds, At
<1>8. SessionsAreOfVerifiedUsers' /\ LinksLive'
  BY <1>1, <1>6 DEF Inv, SessionsAreOfVerifiedUsers, LinksLive
<1>9. UsersHoused' /\ InvitesKept'
  BY <1>1, <1>4, <1>6, <1>7, KeptLasts DEF Inv, UsersHoused, InvitesKept
<1>10. QED
  BY <1>1, <1>5, <1>7, <1>8, <1>9, Preserved

(***************************************************************************)
(* Every step, and the theorems.                                           *)
(***************************************************************************)

LEMMA ProceedInv == ASSUME Inv, NEW r \in Request, Proceed(r) PROVE Inv'
BY InsertFirstOrgInv, InsertUserInv, InsertMemberInv, MarkAcceptedInv,
   InsertPendingInv, InsertLinkInv, IssueSessionInv, RotateDeleteInv,
   RefreshGateInv DEF Proceed

LEMMA StartInv == ASSUME Inv, NEW r \in Request, Start(r) PROVE Inv'
BY RegisterInv, RegisterWithInviteInv, VerifyEmailInv, ResendLookupInv,
   LoginInv, RefreshSelectInv DEF Start

LEMMA StutterInv == ASSUME Inv, UNCHANGED vars PROVE Inv'
<1>1. UNCHANGED <<tables, job, server>>
  BY DEF vars
<1>2. TypeOK'
  BY <1>1 DEF Inv, TypeOK, tables, server
<1>3. /\ Lasting /\ SessionsAreOfVerifiedUsers' /\ LinksLive' /\ UsersHoused'
      /\ InvitesKept'
  BY <1>1 DEF Lasting, Inv, SessionsAreOfVerifiedUsers, LinksLive, UsersHoused,
              InvitesKept, Kept, Users, Orgs, Links, Holds, At, tables
<1>4. QED
  BY <1>1, <1>2, <1>3, Preserved

LEMMA NextInv == ASSUME Inv, [Next]_vars PROVE Inv'
BY ProceedInv, StartInv, CrashInv, LogoutInv, CreateInviteInv, SetSuspendedInv,
   AgesInv, SweepUsersInv, SweepOrgsInv, RestartInv, GrandfatherUsersInv,
   GrandfatherOrgsInv, StutterInv DEF Next

\* In every reachable state, for any number of everything, requests still hold
\* the rows they rely on and foreign keys name rows.
THEOREM InvHolds == Spec => []Inv
<1>1. Init => Inv
  BY InitInv
<1>2. Inv /\ [Next]_vars => Inv'
  BY NextInv
<1>3. QED
  BY <1>1, <1>2, PTL DEF Spec

\* The tables and the requests of every reachable state are well typed.
THEOREM TypeCorrect == Spec => []TypeOK
<1>1. Inv => TypeOK
  BY DEF Inv
<1>2. QED
  BY <1>1, InvHolds, PTL

\* Whatever was in flight when the janitor ran, every session is of a
\* verified user (login, refresh, verifyEmail and sweepOnce together).
THEOREM SessionsVerified == Spec => []SessionsAreOfVerifiedUsers
<1>1. Inv => SessionsAreOfVerifiedUsers
  BY DEF Inv
<1>2. QED
  BY <1>1, InvHolds, PTL

\* sweepOnce never takes an organization from under one of its users, even
\* where a boot has verified its owner and left the organization pending.
THEOREM OrgsStay == Spec => []LiveUsersKeepTheirOrg
<1>1. Inv => LiveUsersKeepTheirOrg
  BY NoRowIsNull DEF Inv, UsersHoused, LiveUsersKeepTheirOrg, Orgs
<1>2. QED
  BY <1>1, InvHolds, PTL

(***************************************************************************)
(* Domains are claimed as DomainClaims says.                               *)
(***************************************************************************)

\* o has just been verified, is alone, and nobody held its domain before.
NewClaim(o) ==
    /\ ~Claimed(org'[o].domain)
    /\ \A p \in (Orgs)' :
          org'[p].verified /\ org'[p].domain = org'[o].domain => p = o

\* What a step may do to organizations.
OrgStep ==
    /\ \A o \in Orgs :
          /\ o \in (Orgs)' => org'[o].domain = org[o].domain
          /\ org[o].verified => o \in (Orgs)' /\ org'[o].verified
    /\ \A o \in (Orgs)' :
          org'[o].verified => \/ o \in Orgs /\ org[o].verified
                              \/ org'[o].domain = NULL
                              \/ NewClaim(o)

LEMMA SameOrgs == ASSUME UNCHANGED org PROVE OrgStep
BY DEF OrgStep, Orgs

LEMMA FirstOrgStep ==
    ASSUME Inv, NEW r \in Request, InsertFirstOrg(r) PROVE OrgStep
<1>1. CASE UNCHANGED org
  BY <1>1, SameOrgs
<1>2. ASSUME NEW o \in FreeOrgs, NEW d, ~Claimed(d),
             org' = [org EXCEPT ![o] = [domain |-> d, verified |-> TRUE,
                                suspended |-> FALSE, stale |-> FALSE]]
      PROVE  OrgStep
  <2> DEFINE row == [domain |-> d, verified |-> TRUE, suspended |-> FALSE,
                     stale |-> FALSE]
  <2>1. row.domain = d /\ org' = [org EXCEPT ![o] = row]
    BY <1>2
  <2> HIDE DEF row
  <2>2. o \in Org /\ o \notin Orgs
    BY DEF FreeOrgs
  <2>3. /\ org'[o] = row
        /\ \A p \in Orgs : org'[p] = org[p]
        /\ (Orgs)' \subseteq Orgs \cup {o}
        /\ Orgs \subseteq (Orgs)'
    BY <2>1, <2>2 DEF Orgs, Inv, TypeOK
  <2>4. d # NULL => \A p \in Orgs : org[p].verified => org[p].domain # d
    BY <1>2 DEF Claimed
  <2>5. QED
    BY <1>2, <2>1, <2>3, <2>4 DEF OrgStep, NewClaim
<1>3. QED
  BY <1>1, <1>2, SomeIsOne DEF InsertFirstOrg

LEMMA PendingOrgStep ==
    ASSUME Inv, NEW r \in Request, InsertPending(r) PROVE OrgStep
<1>1. CASE UNCHANGED org
  BY <1>1, SameOrgs
<1>2. ASSUME NEW o \in FreeOrgs, NEW d,
             org' = [org EXCEPT ![o] = [domain |-> d, verified |-> FALSE,
                                suspended |-> FALSE, stale |-> FALSE]]
      PROVE  OrgStep
  <2> DEFINE row == [domain |-> d, verified |-> FALSE, suspended |-> FALSE,
                     stale |-> FALSE]
  <2>1. ~row.verified /\ org' = [org EXCEPT ![o] = row]
    BY <1>2
  <2> HIDE DEF row
  <2>2. o \in Org /\ o \notin Orgs
    BY DEF FreeOrgs
  <2>3. /\ org'[o] = row
        /\ \A p \in Orgs : org'[p] = org[p]
        /\ (Orgs)' \subseteq Orgs \cup {o}
        /\ Orgs \subseteq (Orgs)'
    BY <2>1, <2>2 DEF Orgs, Inv, TypeOK
  <2>4. QED
    BY <2>1, <2>3 DEF OrgStep
<1>3. QED
  BY <1>1, <1>2, SomeIsOne DEF InsertPending

LEMMA VerifyOrgStep ==
    ASSUME Inv, NEW r \in Request, NEW l \in Link, VerifyEmail(r, l)
    PROVE  OrgStep
<1>1. PICK u \in Users : u = link[l].user
  BY DEF VerifyEmail, Inv, LinksLive
<1>2. PICK o \in Orgs : o = user[u].org
  BY DEF Inv, UsersHoused
<1> DEFINE row == [org[o] EXCEPT !.verified = TRUE, !.stale = FALSE]
<1>3. org[o] \in OrgRow /\ o \in Org /\ o # NULL
  BY NoRowIsNull DEF Inv, TypeOK, Orgs
<1>4. row.domain = org[o].domain /\ row.verified /\ row \in OrgRow
  BY <1>3 DEF OrgRow
<1>5. /\ org' = [p \in Org |-> IF p = o THEN row ELSE org[p]]
      /\ ~org[o].verified => ~Claimed(org[o].domain)
  BY <1>1, <1>2, <1>3 DEF VerifyEmail
<1> HIDE DEF row
<1>6. /\ org'[o] = row
      /\ \A p \in Orgs : p # o => org'[p] = org[p]
      /\ (Orgs)' \subseteq Orgs
      /\ \A p \in Orgs : p # o => p \in (Orgs)'
  BY <1>3, <1>5 DEF Orgs
<1>7. o \in (Orgs)'
  BY <1>3, <1>4, <1>6, NoRowIsNull DEF Orgs
<1>8. ~org[o].verified /\ org[o].domain # NULL
        => \A p \in Orgs : org[p].verified => org[p].domain # org[o].domain
  BY <1>5 DEF Claimed
<1>9. QED
  BY <1>4, <1>5, <1>6, <1>7, <1>8 DEF OrgStep, NewClaim

LEMMA SuspendOrgStep ==
    ASSUME Inv, NEW o \in Org, SetSuspended(o) PROVE OrgStep
<1> DEFINE row == [org[o] EXCEPT !.suspended = ~@]
<1>1. o \in Orgs /\ org[o] \in OrgRow
  BY DEF SetSuspended, Inv, TypeOK, Orgs
<1>2. /\ row \in OrgRow /\ row.verified = org[o].verified
      /\ row.domain = org[o].domain
  BY <1>1 DEF OrgRow
<1>3. org' = [org EXCEPT ![o] = row]
  BY DEF SetSuspended
<1> HIDE DEF row
<1>4. /\ (Orgs)' = Orgs
      /\ \A p \in Orgs : /\ org'[p].verified = org[p].verified
                         /\ org'[p].domain = org[p].domain
  BY <1>1, <1>2, <1>3, NoRowIsNull DEF Orgs, Inv, TypeOK
<1>5. QED
  BY <1>4 DEF OrgStep

LEMMA AgesOrgStep ==
    ASSUME Inv, NEW u \in User, Ages(u) PROVE OrgStep
<1> DEFINE orow(o) == IF o = user[u].org /\ ~org[o].verified
                      THEN [org[o] EXCEPT !.stale = TRUE] ELSE org[o]
<1>1. \A o \in Orgs : org[o] \in OrgRow
  BY DEF Orgs, Inv, TypeOK
<1>2. \A row \in OrgRow :
         /\ [row EXCEPT !.stale = TRUE].domain = row.domain
         /\ [row EXCEPT !.stale = TRUE].verified = row.verified
  BY DEF OrgRow
<1>3. \A o \in Orgs : /\ orow(o).domain = org[o].domain
                      /\ orow(o).verified = org[o].verified
  BY <1>1, <1>2
<1>4. user[u].org \in Orgs
  BY DEF Ages, Inv, UsersHoused
<1>5. \A o \in Org \ Orgs : orow(o) = NULL
  <2>1. \A o \in Org \ Orgs : o # user[u].org /\ org[o] = NULL
    BY <1>4 DEF Orgs
  <2>2. QED
    BY <2>1
<1>6. org' = [o \in Org |-> orow(o)]
  BY DEF Ages
<1> HIDE DEF orow
<1>7. (Orgs)' \subseteq Orgs /\ \A o \in Orgs : org'[o] = orow(o)
  BY <1>5, <1>6 DEF Orgs
<1>8. Orgs \subseteq (Orgs)'
  <2>1. \A row \in OrgRow : [row EXCEPT !.stale = TRUE] \in OrgRow
    BY DEF OrgRow
  <2>2. \A o \in Orgs : orow(o) \in OrgRow
    BY <1>1, <2>1 DEF orow
  <2>3. QED
    BY <1>6, <2>2, NoRowIsNull DEF Orgs
<1>9. QED
  BY <1>3, <1>7, <1>8 DEF OrgStep

LEMMA SweepOrgStep ==
    ASSUME Inv, SweepOrgs PROVE OrgStep
<1>1. \A o \in Orphans : ~org[o].verified
  BY DEF Orphans
<1>2. org' = [o \in Org |-> IF o \in Orphans THEN NULL ELSE org[o]]
  BY DEF SweepOrgs
<1>3. /\ (Orgs)' \subseteq Orgs
      /\ \A o \in (Orgs)' : org'[o] = org[o]
      /\ \A o \in Orgs : org[o].verified => o \in (Orgs)'
  BY <1>1, <1>2 DEF Orgs
<1>4. QED
  BY <1>3 DEF OrgStep

LEMMA GrandfatherOrgStep ==
    ASSUME Inv, GrandfatherOrgs PROVE OrgStep
<1> DEFINE row(o) == [org[o] EXCEPT !.verified = TRUE, !.stale = FALSE]
<1>1. \A o \in Orgs : org[o] \in OrgRow
  BY DEF Orgs, Inv, TypeOK
<1>2. \A o \in Orgs : row(o) \in OrgRow /\ row(o).domain = org[o].domain
  BY <1>1 DEF OrgRow
<1>3. \/ org' = [o \in Org |-> org[o]]
      \/ /\ org' = [o \in Org |-> IF o \in Orgs THEN row(o) ELSE org[o]]
         /\ \A o, p \in Orgs : o # p /\ org[o].domain = org[p].domain
                                 => org[o].domain = NULL
  BY DEF GrandfatherOrgs
<1> HIDE DEF row
<1>4. (Orgs)' = Orgs
  BY <1>2, <1>3, NoRowIsNull DEF Orgs
<1>5. CASE org' = [o \in Org |-> org[o]]
  BY <1>4, <1>5 DEF OrgStep, Orgs
<1>6. CASE /\ org' = [o \in Org |-> IF o \in Orgs THEN row(o) ELSE org[o]]
           /\ \A o, p \in Orgs : o # p /\ org[o].domain = org[p].domain
                                   => org[o].domain = NULL
  <2>1. \A o \in Orgs : org'[o].domain = org[o].domain
    BY <1>2, <1>6 DEF Orgs
  <2>2. \A o \in Orgs : org'[o].verified
    BY <1>1, <1>6 DEF Orgs, row, OrgRow
  <2>3. \A o \in Orgs : org[o].domain # NULL /\ ~org[o].verified => NewClaim(o)
    BY <1>4, <1>6, <2>1 DEF NewClaim, Claimed
  <2>4. QED
    BY <1>4, <2>1, <2>2, <2>3 DEF OrgStep
<1>7. QED
  BY <1>3, <1>5, <1>6

LEMMA NextOrgStep == ASSUME Inv, [Next]_vars PROVE OrgStep
<1>1. CASE UNCHANGED org
  BY <1>1, SameOrgs
<1>2. ASSUME NEW r \in Request, Proceed(r) PROVE OrgStep
  BY <1>2, SameOrgs, FirstOrgStep, PendingOrgStep
     DEF Proceed, InsertUser, InsertMember, MarkAccepted, InsertLink,
         IssueSession, RotateDelete, RefreshGate, tables
<1>3. ASSUME NEW r \in Request, Start(r) PROVE OrgStep
  BY <1>3, SameOrgs, VerifyOrgStep
     DEF Start, Register, RegisterWithInvite, ResendLookup, Login,
         RefreshSelect, tables
<1>4. QED
  BY <1>1, <1>2, <1>3, SuspendOrgStep, AgesOrgStep, SweepOrgStep,
     GrandfatherOrgStep
     DEF Next, Crash, Logout, CreateInvite, SweepUsers, Restart,
         GrandfatherUsers, tables, vars

\* What the unique index is for, at one step: a domain that changes hands had
\* no holder and gets one.
LEMMA StepClaims ==
    ASSUME OrgStep, (Orgs)' \subseteq Org
    PROVE  [Claims!Claim]_Holders
<1>1. ASSUME NEW d \in Domain, Holders'[d] # Holders[d]
      PROVE  Holders[d] = {} /\ \E o \in Org : Holders'[d] = {o}
  <2>1. Holders[d] \subseteq Holders'[d]
    BY DEF Holders, OrgStep
  <2>2. PICK o \in Holders'[d] : o \notin Holders[d]
    BY <1>1, <2>1
  <2>3. /\ o \in (Orgs)' /\ org'[o].verified /\ org'[o].domain = d
        /\ d # NULL
    BY <2>2, NoRowIsNull DEF Holders
  <2>4. NewClaim(o)
    BY <2>2, <2>3 DEF OrgStep, Holders
  <2>5. Holders[d] = {} /\ Holders'[d] = {o}
    BY <2>3, <2>4 DEF NewClaim, Holders, Claimed
  <2>6. QED
    BY <2>3, <2>5
<1>2. Holders' \in [Domain -> SUBSET Org]
  BY DEF Holders
<1>3. QED
  BY <1>1, <1>2 DEF Claims!Claim

\* Accounts implements DomainClaims: registration, verification, suspension,
\* boots and the janitor together let a domain be claimed once and for good.
THEOREM Implements == Spec => ImplementsClaims
<1>1. Init => Claims!Init
  <2>1. Init => \A o \in Orgs : org[o].domain = NULL
    BY DEF Init, Orgs
  <2>2. QED
    BY <2>1, NoRowIsNull DEF Claims!Init, Holders
<1>2. Inv /\ [Next]_vars => [Claims!Claim]_Holders
  <2>1. Orgs' \subseteq Org
    BY DEF Orgs
  <2>2. QED
    BY <2>1, NextOrgStep, StepClaims
<1>3. QED
  BY <1>1, <1>2, InvHolds, PTL DEF Spec, ImplementsClaims, Claims!Spec

(***************************************************************************)
(* Colleagues end up in one organization.                                  *)
(***************************************************************************)

\* Where an address belongs: guests anywhere, the others with their domain.
Belongs(e, o) == e \in Guests \/ DomainOf[e] = org[o].domain

\* What a request that is about to insert a user knows of the organization.
Placed(j) ==
    /\ j.at \in {"owner", "join", "invited"} => Belongs(j.email, j.org)
    /\ j.at \in {"owner", "join"} => org[j.org].verified

OneHolder ==
    \A o, p \in Orgs :
       /\ org[o].verified /\ org[p].verified
       /\ org[o].domain = org[p].domain
       /\ org[o].domain # NULL
       => o = p

\* Before the first boot over populated tables, verified users are in
\* verified organizations, and everyone where the address belongs.
ClanInv ==
    /\ OneHolder
    /\ boots = 0 =>
          /\ boot = "up"
          /\ \A u \in Users :
                /\ Belongs(user[u].email, user[u].org)
                /\ user[u].verified => org[user[u].org].verified
          /\ \A e \in Email : invite[e] # NULL => Belongs(e, invite[e])
          /\ \A r \in Request : Placed(job[r])

\* What a step may do to users, as far as ClanInv goes.
UserStep ==
    \A u \in (Users)' :
       \/ /\ u \in Users
          /\ user'[u].email = user[u].email
          /\ user'[u].org = user[u].org
          /\ user'[u].verified =>
                user[u].verified \/ org'[user[u].org].verified
       \/ /\ Belongs(user[u].email, user[u].org)'
          /\ user'[u].verified => org'[user'[u].org].verified

InviteStep ==
    \A e \in Email : invite'[e] # NULL =>
       invite'[e] = invite[e] \/ Belongs(e, invite[e])'

JobStays(r) == job'[r] = job[r] \/ Placed(job[r])'

LEMMA HoldersApart == ASSUME OneHolder, OrgStep PROVE OneHolder'
<1> SUFFICES ASSUME NEW o \in (Orgs)', NEW p \in (Orgs)',
                    org'[o].verified, org'[p].verified,
                    org'[o].domain = org'[p].domain,
                    org'[o].domain # NULL
             PROVE  o = p
  BY DEF OneHolder
<1>1. CASE NewClaim(o) \/ NewClaim(p)
  BY <1>1 DEF NewClaim
<1>2. CASE /\ o \in Orgs /\ org[o].verified
           /\ p \in Orgs /\ org[p].verified
  BY <1>2 DEF OrgStep, OneHolder
<1>3. QED
  BY <1>1, <1>2 DEF OrgStep

LEMMA ClanPreserved ==
    ASSUME Inv, Inv', OrgStep, ClanInv,
           boots' = 0 => boots = 0 /\ boot' = "up",
           boots = 0 => UserStep /\ InviteStep /\ \A r \in Request : JobStays(r)
    PROVE  ClanInv'
<1>1. OneHolder'
  BY HoldersApart DEF ClanInv
<1> SUFFICES ASSUME boots' = 0
             PROVE  /\ boot' = "up"
                    /\ \A u \in (Users)' :
                          /\ Belongs(user[u].email, user[u].org)'
                          /\ user'[u].verified => org'[user'[u].org].verified
                    /\ \A e \in Email : invite'[e] # NULL =>
                          Belongs(e, invite[e])'
                    /\ \A r \in Request : Placed(job[r])'
  BY <1>1 DEF ClanInv
<1>2. \A e, o : o \in Orgs /\ o \in (Orgs)' /\ Belongs(e, o)
                   => Belongs(e, o)'
  BY DEF Belongs, OrgStep
<1>3. \A o \in Orgs : org[o].verified => org'[o].verified
  BY DEF OrgStep
<1>4. ASSUME NEW u \in (Users)'
      PROVE  /\ Belongs(user[u].email, user[u].org)'
             /\ user'[u].verified => org'[user'[u].org].verified
  <2>1. CASE /\ u \in Users
             /\ user'[u].email = user[u].email
             /\ user'[u].org = user[u].org
             /\ user'[u].verified =>
                   user[u].verified \/ org'[user[u].org].verified
    <3>1. user[u].org \in Orgs /\ user'[u].org \in (Orgs)'
      BY <2>1 DEF Inv, UsersHoused
    <3>2. /\ Belongs(user[u].email, user[u].org)
          /\ user[u].verified => org[user[u].org].verified
      BY <2>1 DEF ClanInv
    <3>3. QED
      BY <1>2, <1>3, <2>1, <3>1, <3>2
  <2>2. QED
    BY <2>1 DEF UserStep
<1>5. ASSUME NEW e \in Email, invite'[e] # NULL
      PROVE  Belongs(e, invite[e])'
  <2>1. CASE invite'[e] = invite[e]
    <3>1. invite[e] \in Orgs /\ invite'[e] \in (Orgs)'
      BY <1>5, <2>1 DEF Inv, InvitesKept, Kept
    <3>2. QED
      BY <1>2, <1>5, <2>1, <3>1 DEF ClanInv
  <2>2. QED
    BY <1>5, <2>1 DEF InviteStep
<1>6. ASSUME NEW r \in Request PROVE Placed(job[r])'
  <2>1. CASE job'[r] = job[r]
    <3>1. job[r].at \in {"owner", "join", "invited"} =>
             job[r].org \in Orgs /\ job[r].org \in (Orgs)'
      BY <2>1 DEF Inv, Holds, Kept
    <3>2. Placed(job[r])
      BY DEF ClanInv
    <3>3. QED
      BY <1>2, <1>3, <2>1, <3>1, <3>2 DEF Placed
  <2>2. QED
    BY <2>1 DEF JobStays
<1>7. QED
  BY <1>4, <1>5, <1>6

LEMMA OneJobMoves ==
    ASSUME Inv, NEW r \in Request, NEW j, Goto(r, j), Placed(j)'
    PROVE  \A q \in Request : JobStays(q)
BY DEF Goto, JobStays, Inv, TypeOK

\* A step that changes neither users nor invitations.
LEMMA ClanJobStep ==
    ASSUME Inv, Inv', OrgStep, ClanInv, UNCHANGED <<user, invite, server>>,
           NEW r \in Request, NEW j, Goto(r, j), boots = 0 => Placed(j)'
    PROVE  ClanInv'
<1>1. UserStep /\ InviteStep
  BY DEF UserStep, Users, InviteStep
<1>2. boots = 0 => \A q \in Request : JobStays(q)
  BY OneJobMoves
<1>3. QED
  BY <1>1, <1>2, ClanPreserved DEF server, ClanInv

LEMMA PlacedElsewhere == ASSUME NEW j, j.at \notin {"owner", "join", "invited"}
                      PROVE  Placed(j) /\ Placed(j)'
BY DEF Placed

LEMMA RegisterClan ==
    ASSUME Inv, Inv', OrgStep, ClanInv, NEW r \in Request, NEW e \in Email,
           Register(r, e) \/ RegisterWithInvite(r, e)
    PROVE  ClanInv'
<1>1. UNCHANGED <<org, user, invite, server>>
  BY DEF Register, RegisterWithInvite, tables
<1>2. ASSUME NEW j, Goto(r, j), j.at \in {"first", "pending"} PROVE ClanInv'
  BY <1>1, <1>2, PlacedElsewhere, ClanJobStep
<1>3. ASSUME NEW j, Goto(r, j), j.at \in {"join", "invited"},
             Belongs(j.email, j.org), j.at = "join" => org[j.org].verified
      PROVE  ClanInv'
  <2>1. Placed(j)'
    BY <1>1, <1>3 DEF Placed, Belongs
  <2>2. QED
    BY <1>1, <1>3, <2>1, ClanJobStep
<1>4. CASE Register(r, e)
  <2>1. CASE Goto(r, [Idle EXCEPT !.at = "first", !.email = e])
    BY <1>2, <2>1 DEF Idle
  <2>2. CASE Goto(r, [Idle EXCEPT !.at = "pending", !.email = e])
    BY <1>2, <2>2 DEF Idle
  <2>3. ASSUME NEW o \in CanJoin(DomainOf[e]),
               Goto(r, [Idle EXCEPT !.at = "join", !.email = e, !.org = o])
        PROVE  ClanInv'
    <3>1. Belongs(e, o) /\ org[o].verified
      BY DEF CanJoin, Belongs
    <3>2. QED
      BY <1>3, <2>3, <3>1 DEF Idle
  <2>4. QED
    BY <1>4, <2>1, <2>2, <2>3 DEF Register
<1>5. CASE RegisterWithInvite(r, e)
  <2> DEFINE j == [Idle EXCEPT !.at = "invited", !.email = e,
                               !.org = invite[e]]
  <2>1. Goto(r, j) /\ invite[e] # NULL
    BY <1>5 DEF RegisterWithInvite
  <2>2. j.at = "invited" /\ j.email = e /\ j.org = invite[e]
    BY DEF Idle
  <2> HIDE DEF j
  <2>3. boots = 0 => Belongs(j.email, j.org)
    BY <2>1, <2>2 DEF ClanInv
  <2>4. boots = 0 => ClanInv'
    BY <1>3, <2>1, <2>2, <2>3
  <2>5. boots # 0 => ClanInv'
    BY <1>1, <2>1, ClanJobStep
  <2>6. QED
    BY <2>4, <2>5
<1>6. QED
  BY <1>4, <1>5

\* Steps of a request that touch no user and leave it at no insert of one.
LEMMA RequestClan ==
    ASSUME Inv, Inv', OrgStep, ClanInv, NEW r \in Request,
           UNCHANGED <<user, invite, server>>,
           NEW j \in Job, Goto(r, j),
           j.at \in {"idle", "resend", "issue", "rotate", "gate"}
    PROVE  ClanInv'
BY PlacedElsewhere, ClanJobStep

LEMMA FirstOrgClan ==
    ASSUME Inv, Inv', OrgStep, ClanInv, NEW r \in Request, InsertFirstOrg(r)
    PROVE  ClanInv'
<1>1. UNCHANGED <<user, invite, server>>
  BY DEF InsertFirstOrg
<1>2. CASE End(r)
  BY <1>1, <1>2, IdleIsAJob, RequestClan DEF End
<1>3. ASSUME NEW o \in FreeOrgs, NEW row, NEW j,
             row.domain = DomainOf[j.email], row.verified,
             org' = [org EXCEPT ![o] = row],
             j.at = "owner", j.org = o, Goto(r, j)
      PROVE  ClanInv'
  <2>1. org'[o] = row
    BY <1>3 DEF FreeOrgs, Inv, TypeOK
  <2>2. Placed(j)'
    BY <1>3, <2>1 DEF Placed, Belongs
  <2>3. QED
    BY <1>1, <1>3, <2>2, ClanJobStep
<1>4. ASSUME NEW o \in FreeOrgs,
             org' = [org EXCEPT ![o] =
                       [domain |-> DomainOf[job[r].email], verified |-> TRUE,
                        suspended |-> FALSE, stale |-> FALSE]],
             Goto(r, [job[r] EXCEPT !.at = "owner", !.org = o])
      PROVE  ClanInv'
  <2> DEFINE j == [job[r] EXCEPT !.at = "owner", !.org = o]
             row == [domain |-> DomainOf[job[r].email], verified |-> TRUE,
                     suspended |-> FALSE, stale |-> FALSE]
  <2>1. j.at = "owner" /\ j.email = job[r].email /\ j.org = o
    BY JobsAreTyped DEF Job
  <2>2. row.domain = DomainOf[job[r].email] /\ row.verified
    OBVIOUS
  <2>3. Goto(r, j) /\ org' = [org EXCEPT ![o] = row]
    BY <1>4
  <2> HIDE DEF j, row
  <2>4. QED
    BY <1>3, <2>1, <2>2, <2>3
<1>5. QED
  BY <1>2, <1>4, SomeIsOne DEF InsertFirstOrg

\* Steps of nobody in flight that touch neither users nor invitations.
LEMMA QuietClan ==
    ASSUME Inv, Inv', OrgStep, ClanInv, UNCHANGED <<user, invite, job, server>>
    PROVE  ClanInv'
<1>1. UserStep /\ InviteStep /\ \A r \in Request : JobStays(r)
  BY DEF UserStep, Users, InviteStep, JobStays
<1>2. QED
  BY <1>1, ClanPreserved DEF server, ClanInv

LEMMA MarkAcceptedClan ==
    ASSUME Inv, Inv', OrgStep, ClanInv, NEW r \in Request, MarkAccepted(r)
    PROVE  ClanInv'
<1>1. /\ UNCHANGED <<user, server>> /\ Goto(r, Idle)
      /\ invite' = [invite EXCEPT ![job[r].email] = NULL]
  BY DEF MarkAccepted, End
<1>2. UserStep /\ InviteStep
  BY <1>1 DEF UserStep, Users, InviteStep, Inv, TypeOK
<1>3. \A q \in Request : JobStays(q)
  BY <1>1, IdleIsAJob, PlacedElsewhere, OneJobMoves
<1>4. QED
  BY <1>1, <1>2, <1>3, ClanPreserved DEF server, ClanInv

LEMMA CreateInviteClan ==
    ASSUME Inv, Inv', OrgStep, ClanInv, NEW e \in Email, NEW o \in Org,
           CreateInvite(e, o)
    PROVE  ClanInv'
<1>1. /\ UNCHANGED <<user, org, job, server>>
      /\ invite' = [invite EXCEPT ![e] = o]
      /\ Belongs(e, o)
  BY DEF CreateInvite, Belongs
<1>2. UserStep /\ InviteStep
  BY <1>1 DEF UserStep, Users, InviteStep, Inv, TypeOK, Belongs
<1>3. \A q \in Request : JobStays(q)
  BY <1>1 DEF JobStays
<1>4. QED
  BY <1>1, <1>2, <1>3, ClanPreserved DEF server, ClanInv

\* The users a request inserts go where its job says.
LEMMA InsertUserClan ==
    ASSUME Inv, Inv', OrgStep, ClanInv, NEW r \in Request, InsertUser(r)
    PROVE  ClanInv'
<1>1. UNCHANGED <<org, invite, server>>
  BY DEF InsertUser
<1>2. CASE End(r) /\ UNCHANGED user
  BY <1>1, <1>2, IdleIsAJob, RequestClan DEF End
<1>3. ASSUME NEW u \in User, NEW row, NEW j,
             row.email = job[r].email, row.org = job[r].org,
             row.verified = (job[r].at # "invited"),
             user' = [user EXCEPT ![u] = row],
             j.at \notin {"owner", "join", "invited"}, Goto(r, j)
      PROVE  ClanInv'
  <2>1. /\ user'[u] = row
        /\ \A v \in (Users)' : v # u => v \in Users /\ user'[v] = user[v]
    BY <1>3 DEF Inv, TypeOK, Users
  <2>2. ASSUME boots = 0 PROVE UserStep
    <3>1. /\ Belongs(row.email, row.org)
          /\ row.verified => org[row.org].verified
      BY <1>3, <2>2 DEF ClanInv, Placed, InsertUser
    <3>2. /\ Belongs(user[u].email, user[u].org)'
          /\ user'[u].verified => org'[user'[u].org].verified
      BY <1>1, <2>1, <3>1 DEF Belongs
    <3>3. QED
      BY <2>1, <3>2 DEF UserStep
  <2>3. InviteStep /\ \A q \in Request : JobStays(q)
    BY <1>1, <1>3, OneJobMoves, PlacedElsewhere DEF InviteStep
  <2>4. QED
    BY <1>1, <2>2, <2>3, ClanPreserved DEF server, ClanInv
<1>4. ASSUME NEW u \in User,
             user' = [user EXCEPT ![u] =
                        [email |-> job[r].email, org |-> job[r].org,
                         verified |-> ~At(r, "invited"), role |-> "none",
                         stale |-> FALSE]],
             NEW next, next \in {"ownerRow", "memberRow", "inviteRow"},
             Goto(r, [job[r] EXCEPT !.at = next, !.user = u])
      PROVE  ClanInv'
  <2> DEFINE row == [email |-> job[r].email, org |-> job[r].org,
                     verified |-> ~At(r, "invited"), role |-> "none",
                     stale |-> FALSE]
             j == [job[r] EXCEPT !.at = next, !.user = u]
  <2>1. row.email = job[r].email /\ row.org = job[r].org
    OBVIOUS
  <2>2. row.verified = (job[r].at # "invited")
    BY DEF At
  <2>3. j.at \notin {"owner", "join", "invited"}
    BY <1>4, JobsAreTyped DEF Job
  <2>4. Goto(r, j) /\ user' = [user EXCEPT ![u] = row]
    BY <1>4
  <2> HIDE DEF row, j
  <2>5. QED
    BY <1>3, <2>1, <2>2, <2>3, <2>4
<1>5. CASE ~EmailTaken(job[r].email)
  <2> DEFINE next == [owner |-> "ownerRow", join |-> "memberRow",
                      invited |-> "inviteRow"]
             u == Some(FreeUsers)
  <2>1. u \in User
    BY <1>5, SomeIsOne DEF InsertUser, FreeUsers
  <2>2. next[job[r].at] \in {"ownerRow", "memberRow", "inviteRow"}
    BY DEF InsertUser
  <2>3. /\ user' = [user EXCEPT ![u] =
                      [email |-> job[r].email, org |-> job[r].org,
                       verified |-> ~At(r, "invited"), role |-> "none",
                       stale |-> FALSE]]
        /\ Goto(r, [job[r] EXCEPT !.at = next[job[r].at], !.user = u])
    BY <1>5 DEF InsertUser
  <2> HIDE DEF next, u
  <2>4. QED
    BY <1>4, <2>1, <2>2, <2>3
<1>6. QED
  BY <1>2, <1>5 DEF InsertUser

LEMMA OneUserChanges ==
    ASSUME Inv, NEW u \in Users, NEW row,
           user' = [user EXCEPT ![u] = row],
           row.email = user[u].email, row.org = user[u].org,
           row.verified => user[u].verified \/ org'[row.org].verified
    PROVE  UserStep
<1>1. /\ user'[u] = row
      /\ \A v \in (Users)' : v \in Users /\ (v # u => user'[v] = user[v])
  BY DEF Inv, TypeOK, Users
<1>2. QED
  BY <1>1 DEF UserStep

LEMMA InsertMemberClan ==
    ASSUME Inv, Inv', OrgStep, ClanInv, NEW r \in Request, InsertMember(r)
    PROVE  ClanInv'
<1> DEFINE u == job[r].user
           role == IF At(r, "ownerRow") THEN "owner" ELSE "member"
           row == [user[u] EXCEPT !.role = role]
           j == IF At(r, "inviteRow") THEN [job[r] EXCEPT !.at = "accept"]
                                      ELSE Idle
<1>1. u \in Users /\ user[u] \in UserRow
  BY DEF InsertMember, Inv, Holds, Users, TypeOK
<1>2. j.at \notin {"owner", "join", "invited"}
  BY JobsAreTyped, IdleIsAJob DEF Job
<1>3. Goto(r, j) /\ UNCHANGED <<invite, server>>
  BY DEF InsertMember, End
<1>4. user' = [user EXCEPT ![u] = row]
  BY DEF InsertMember
<1>5. /\ row.email = user[u].email /\ row.org = user[u].org
      /\ row.verified = user[u].verified
  BY <1>1 DEF UserRow
<1> HIDE DEF row, j, u
<1>6. UserStep /\ InviteStep
  BY <1>1, <1>3, <1>4, <1>5, OneUserChanges DEF InviteStep
<1>7. \A q \in Request : JobStays(q)
  BY <1>2, <1>3, PlacedElsewhere, OneJobMoves
<1>8. QED
  BY <1>3, <1>6, <1>7, ClanPreserved DEF server, ClanInv

LEMMA VerifyEmailClan ==
    ASSUME Inv, Inv', OrgStep, ClanInv, NEW r \in Request, NEW l \in Link,
           VerifyEmail(r, l)
    PROVE  ClanInv'
<1>1. PICK u \in Users : u = link[l].user
  BY DEF VerifyEmail, Inv, LinksLive
<1>2. PICK o \in Orgs : o = user[u].org
  BY DEF Inv, UsersHoused
<1> DEFINE urow == [user[u] EXCEPT !.verified = TRUE, !.stale = FALSE]
           orow == [org[o] EXCEPT !.verified = TRUE, !.stale = FALSE]
           j == [Idle EXCEPT !.at = "issue", !.user = u]
<1>3. user[u] \in UserRow /\ o \in Org /\ org[o] \in OrgRow
  BY DEF Inv, TypeOK, Users, Orgs
<1>4. /\ urow.email = user[u].email /\ urow.org = o
      /\ orow.verified
      /\ j.at = "issue"
  BY <1>2, <1>3 DEF UserRow, OrgRow, Idle
<1>5. /\ user' = [user EXCEPT ![u] = urow]
      /\ org' = [p \in Org |-> IF p = o THEN orow ELSE org[p]]
      /\ Goto(r, j)
      /\ UNCHANGED <<invite, server>>
  BY <1>1, <1>2 DEF VerifyEmail
<1> HIDE DEF urow, orow, j
<1>6. org'[o].verified
  BY <1>3, <1>4, <1>5
<1>7. UserStep /\ InviteStep
  BY <1>2, <1>4, <1>5, <1>6, OneUserChanges DEF InviteStep
<1>8. \A q \in Request : JobStays(q)
  BY <1>4, <1>5, PlacedElsewhere, OneJobMoves
<1>9. QED
  BY <1>5, <1>7, <1>8, ClanPreserved DEF server, ClanInv

LEMMA AgesClan ==
    ASSUME Inv, Inv', OrgStep, ClanInv, NEW u \in User, Ages(u)
    PROVE  ClanInv'
<1> DEFINE row == [user[u] EXCEPT !.stale = TRUE]
<1>1. u \in Users /\ user[u] \in UserRow
  BY DEF Ages, Inv, TypeOK, Users
<1>2. /\ row.email = user[u].email /\ row.org = user[u].org
      /\ row.verified = user[u].verified
  BY <1>1 DEF UserRow
<1>3. user' = [user EXCEPT ![u] = row] /\ UNCHANGED <<invite, job, server>>
  BY DEF Ages
<1> HIDE DEF row
<1>4. UserStep /\ InviteStep /\ \A r \in Request : JobStays(r)
  BY <1>1, <1>2, <1>3, OneUserChanges DEF InviteStep, JobStays
<1>5. QED
  BY <1>3, <1>4, ClanPreserved DEF server, ClanInv

LEMMA InsertPendingClan ==
    ASSUME Inv, Inv', OrgStep, ClanInv, NEW r \in Request, InsertPending(r)
    PROVE  ClanInv'
<1>1. Goto(r, Idle) /\ UNCHANGED <<invite, server>>
  BY DEF InsertPending, End
<1>2. CASE UNCHANGED user
  BY <1>1, <1>2, IdleIsAJob, RequestClan
<1>3. ASSUME NEW u \in User, NEW o \in FreeOrgs, NEW e,
             org' = [org EXCEPT ![o] =
                       [domain |-> DomainOf[e], verified |-> FALSE,
                        suspended |-> FALSE, stale |-> FALSE]],
             user' = [user EXCEPT ![u] =
                        [email |-> e, org |-> o, verified |-> FALSE,
                         role |-> "owner", stale |-> FALSE]]
      PROVE  ClanInv'
  <2> DEFINE orow == [domain |-> DomainOf[e], verified |-> FALSE,
                      suspended |-> FALSE, stale |-> FALSE]
             urow == [email |-> e, org |-> o, verified |-> FALSE,
                      role |-> "owner", stale |-> FALSE]
  <2>1. /\ orow.domain = DomainOf[e]
        /\ urow.email = e /\ urow.org = o /\ ~urow.verified
    OBVIOUS
  <2>2. /\ org' = [org EXCEPT ![o] = orow]
        /\ user' = [user EXCEPT ![u] = urow]
    BY <1>3
  <2> HIDE DEF orow, urow
  <2>3. /\ org'[o] = orow /\ user'[u] = urow
        /\ \A v \in (Users)' : v # u => v \in Users /\ user'[v] = user[v]
    BY <2>2 DEF Inv, TypeOK, Users, FreeOrgs
  <2>4. Belongs(user[u].email, user[u].org)'
    BY <2>1, <2>3 DEF Belongs
  <2>5. UserStep /\ InviteStep
    BY <1>1, <2>1, <2>3, <2>4 DEF UserStep, InviteStep
  <2>6. \A q \in Request : JobStays(q)
    BY <1>1, IdleIsAJob, PlacedElsewhere, OneJobMoves
  <2>7. QED
    BY <1>1, <2>5, <2>6, ClanPreserved DEF server, ClanInv
<1>4. QED
  BY <1>2, <1>3, SomeIsOne DEF InsertPending, FreeUsers

LEMMA SweepsClan ==
    ASSUME Inv, Inv', OrgStep, ClanInv, SweepUsers \/ SweepOrgs
    PROVE  ClanInv'
<1>1. \A u \in (Users)' : u \in Users /\ user'[u] = user[u]
  <2>1. CASE SweepUsers
    BY <2>1 DEF SweepUsers, Users
  <2>2. CASE SweepOrgs
    BY <2>2, OrphansAreNobodys DEF SweepOrgs, Users
  <2>3. QED
    BY <2>1, <2>2
<1>2. InviteStep
  BY DEF SweepUsers, SweepOrgs, InviteStep
<1>3. UNCHANGED <<job, boot, boots>>
  BY DEF SweepUsers, SweepOrgs
<1>4. UserStep /\ \A r \in Request : JobStays(r)
  BY <1>1, <1>3 DEF UserStep, JobStays
<1>5. QED
  BY <1>2, <1>3, <1>4, ClanPreserved DEF ClanInv

LEMMA BootsClan ==
    ASSUME Inv, Inv', OrgStep, ClanInv,
           Restart \/ GrandfatherUsers \/ GrandfatherOrgs
    PROVE  ClanInv'
<1>1. boots' # 0
  <2>1. CASE Restart
    <3>1. boots \in Nat /\ boots' = boots + 1
      BY <2>1, AccountsAssumption DEF Restart, Inv, TypeOK
    <3>2. QED
      BY <3>1
  <2>2. CASE GrandfatherUsers \/ GrandfatherOrgs
    BY <2>2 DEF GrandfatherUsers, GrandfatherOrgs, ClanInv
  <2>3. QED
    BY <2>1, <2>2
<1>2. QED
  BY <1>1, HoldersApart DEF ClanInv

LEMMA ProceedClan ==
    ASSUME Inv, Inv', OrgStep, ClanInv, NEW r \in Request, Proceed(r)
    PROVE  ClanInv'
<1>1. CASE InsertLink(r)
  BY <1>1, IdleIsAJob, RequestClan DEF InsertLink, End
<1>2. CASE IssueSession(r)
  BY <1>2, IdleIsAJob, RequestClan DEF IssueSession, End
<1>3. CASE RotateDelete(r)
  <2> DEFINE j == [job[r] EXCEPT !.at = "gate", !.session = NULL]
  <2>1. j \in Job /\ j.at = "gate"
    BY JobsAreTyped DEF Job, Await
  <2>2. Goto(r, j) /\ UNCHANGED <<user, invite, server>>
    BY <1>3 DEF RotateDelete
  <2> HIDE DEF j
  <2>3. QED
    BY <2>1, <2>2, RequestClan
<1>4. CASE RefreshGate(r)
  <2> DEFINE j == [job[r] EXCEPT !.at = "issue"]
  <2>1. j \in Job /\ j.at = "issue"
    BY JobsAreTyped DEF Job, Await
  <2>2. /\ Goto(r, j) \/ Goto(r, Idle)
        /\ UNCHANGED <<user, invite, server>>
    BY <1>4 DEF RefreshGate, End, tables
  <2> HIDE DEF j
  <2>3. QED
    BY <2>1, <2>2, IdleIsAJob, RequestClan
<1>5. QED
  BY <1>1, <1>2, <1>3, <1>4, FirstOrgClan, InsertUserClan, InsertMemberClan,
     MarkAcceptedClan, InsertPendingClan DEF Proceed

LEMMA StartClan ==
    ASSUME Inv, Inv', OrgStep, ClanInv, NEW r \in Request, Start(r)
    PROVE  ClanInv'
<1>1. ASSUME NEW u \in User, ResendLookup(r, u) \/ Login(r, u)
      PROVE  ClanInv'
  <2>1. /\ Goto(r, [Idle EXCEPT !.at = "resend", !.user = u])
           \/ Goto(r, [Idle EXCEPT !.at = "issue", !.user = u])
        /\ UNCHANGED <<user, invite, server>>
    BY <1>1 DEF ResendLookup, Login, tables
  <2>2. ASSUME NEW j, Goto(r, j), j.at \in {"resend", "issue"} PROVE ClanInv'
    BY <2>1, <2>2, PlacedElsewhere, ClanJobStep
  <2>3. QED
    BY <2>1, <2>2 DEF Idle
<1>2. ASSUME NEW s \in Session, RefreshSelect(r, s) PROVE ClanInv'
  <2> DEFINE j == [Idle EXCEPT !.at = "rotate", !.user = session[s],
                               !.session = s]
  <2>1. j.at = "rotate"
    BY DEF Idle
  <2>2. Goto(r, j) /\ UNCHANGED <<user, invite, server>>
    BY <1>2 DEF RefreshSelect, tables
  <2> HIDE DEF j
  <2>3. QED
    BY <2>1, <2>2, PlacedElsewhere, ClanJobStep
<1>3. QED
  BY <1>1, <1>2, RegisterClan, VerifyEmailClan DEF Start

LEMMA NextClan == ASSUME Inv, [Next]_vars, ClanInv PROVE ClanInv'
<1>1. Inv' /\ OrgStep
  BY NextInv, NextOrgStep
<1>2. ASSUME NEW r \in Request, Crash(r) PROVE ClanInv'
  BY <1>1, <1>2, IdleIsAJob, RequestClan DEF Crash, End, tables
<1>3. CASE UNCHANGED <<user, invite, job, server>>
  BY <1>1, <1>3, QuietClan
<1>4. QED
  BY <1>1, <1>2, <1>3, ProceedClan, StartClan, CreateInviteClan, AgesClan,
     SweepsClan, BootsClan
     DEF Next, Logout, SetSuspended, vars, tables

\* Registrations, links, invitations and suspensions may race as they like:
\* as long as no boot has verified people on its own, verified colleagues are
\* in one organization (register, verifyEmail, createInvite).
THEOREM ColleaguesTogether == Spec => []ColleaguesShareOrg
<1>1. Init => ClanInv
  <2>1. ASSUME Init PROVE /\ Users = {} /\ boots = 0 /\ boot = "up"
                          /\ \A e \in Email : invite[e] = NULL
                          /\ \A r \in Request : Placed(job[r])
    BY <2>1, IdleIsAJob DEF Init, Users, Placed
  <2>2. Init => OneHolder
    BY DEF Init, Orgs, OneHolder
  <2>3. QED
    BY <2>1, <2>2 DEF ClanInv
<1>2. Inv /\ [Next]_vars /\ ClanInv => ClanInv'
  BY NextClan
<1>3. Inv /\ ClanInv => ColleaguesShareOrg
  <2> SUFFICES ASSUME Inv, ClanInv, boots = 0,
                      NEW u \in Users, NEW v \in Users,
                      user[u].verified, user[v].verified,
                      user[u].email \notin Guests, user[v].email \notin Guests,
                      Corporate(user[u].email),
                      DomainOf[user[u].email] = DomainOf[user[v].email]
               PROVE  user[u].org = user[v].org
    BY DEF ColleaguesShareOrg
  <2>1. /\ user[u].org \in Orgs /\ user[v].org \in Orgs
    BY DEF Inv, UsersHoused
  <2>2. /\ org[user[u].org].verified /\ org[user[v].org].verified
        /\ org[user[u].org].domain = DomainOf[user[u].email]
        /\ org[user[v].org].domain = DomainOf[user[v].email]
    BY DEF ClanInv, Belongs
  <2>3. QED
    BY <2>1, <2>2 DEF ClanInv, OneHolder, Corporate
<1>4. QED
  BY <1>1, <1>2, <1>3, InvHolds, PTL DEF Spec
=============================================================================
