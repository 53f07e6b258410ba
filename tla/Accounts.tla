------------------------------ MODULE Accounts ------------------------------
(***************************************************************************)
(* Public signup in testgenie-backend: registration, verification links,   *)
(* invitations, sessions, the signup janitor, and the statements every     *)
(* boot runs over the same tables.                                         *)
(*                                                                         *)
(* A table is a function from row ids to rows, NULL where there is no row. *)
(* An id is free again once no row and no request remembers it, so the     *)
(* tables stay small and nothing ever runs out of fresh ids for good.      *)
(* A request is one HTTP call in flight; job[r].at is the await it is      *)
(* suspended at, or "idle".                                                *)
(***************************************************************************)
EXTENDS Naturals

CONSTANTS
    NULL,
    Email,          \* addresses people sign up with
    Domain,         \* mail domains that can belong to a company
    DomainOf,       \* the domain of an address, NULL at a public provider
    Consumer,       \* domains only consumerEmailDomains.js knows to be consumer
    Invitable,      \* addresses owners send invitations to
    Guests,         \* of these, the ones a domain restriction lets through
    User, Org, Link, Session,   \* row ids (a bound on the rows at one time)
    Request,        \* requests that may be in flight at once (a bound)
    Fatal,          \* awaits at which a request may die or its query fail
    Suspendable,    \* domains whose organization platform admins suspend
    Schemas,        \* whether organizations.domain is UNIQUE: {TRUE} where
                    \* migration 006 created the table, FALSE possible where
                    \* the table is older (src/index.js:134)
    MaxBoots        \* restarts of the server over a populated database

ASSUME AccountsAssumption ==
    /\ NULL \notin Email \cup Domain \cup User \cup Org \cup Session
    /\ DomainOf \in [Email -> Domain \cup {NULL}]
    /\ Invitable \subseteq Email
    /\ Schemas \subseteq BOOLEAN
    /\ MaxBoots \in Nat

VARIABLES
    user,           \* users, with the role of organization_members
    org,            \* organizations
    link,           \* email_verification_tokens
    session,        \* refresh_tokens: the user of each
    invite,         \* the organization that has invited an address
    job,            \* requests in flight
    sweeping,       \* sweepOnce is between its two statements
    boot,           \* where runStartupMigrations is
    boots,          \* restarts so far
    domainUnique    \* the schema: organizations.domain is UNIQUE

tables == <<user, org, link, session, invite>>
server == <<sweeping, boot, boots, domainUnique>>
vars == <<tables, job, server>>

UserRow == [email : Email, org : Org \cup {NULL}, verified : BOOLEAN,
            role : {"owner", "member", "none"}, stale : BOOLEAN]
OrgRow == [domain : Domain \cup {NULL}, verified : BOOLEAN,
           suspended : BOOLEAN, stale : BOOLEAN]
LinkRow == [user : User, used : BOOLEAN]

Await == {"idle", "first", "owner", "join", "pending", "invited",
          "ownerRow", "memberRow", "inviteRow", "accept",
          "resend", "rotate", "gate", "issue"}
ASSUME RowsAssumption == NULL \notin UserRow \cup OrgRow \cup LinkRow
ASSUME FatalAssumption == Fatal \subseteq Await \ {"idle"}

Job == [at : Await, email : Email \cup {NULL}, user : User \cup {NULL},
        org : Org \cup {NULL}, session : Session \cup {NULL}]

Idle == [at |-> "idle", email |-> NULL, user |-> NULL, org |-> NULL,
         session |-> NULL]

Users == {u \in User : user[u] # NULL}
Orgs == {o \in Org : org[o] # NULL}
Links == {l \in Link : link[l] # NULL}

\* Ids no row has and no request remembers.  They are interchangeable: an
\* insert takes some one of them.
FreeUsers == {u \in User \ Users : \A r \in Request : job[r].user # u}
FreeOrgs == {o \in Org \ Orgs : \A r \in Request : job[r].org # o}
FreeLinks == Link \ Links
FreeSessions == {s \in Session : /\ session[s] = NULL
                                 /\ \A r \in Request : job[r].session # s}
Some(ids) == CHOOSE id \in ids : TRUE

\* users.email is UNIQUE.
EmailTaken(e) == \E u \in Users : user[u].email = e

\* Mutant: the index of the verified organizations leaves suspended ones out.
ClaimedByActive(d) == /\ d # NULL
                      /\ \E o \in Orgs : /\ org[o].verified
                                        /\ ~org[o].suspended
                                        /\ org[o].domain = d

\* idx_organizations_verified_domain: a NULL domain is nobody's.
Claimed(d) == d # NULL /\ \E o \in Orgs : org[o].verified /\ org[o].domain = d

\* The UNIQUE of the column, where there is one, counts pending ones too.
HasRow(d) == d # NULL /\ domainUnique /\ \E o \in Orgs : org[o].domain = d

\* The database is empty, or holds one organization, with people of its own,
\* that claims no domain.
Init ==
    /\ user = [u \in User |-> NULL]
    /\ \/ org = [o \in Org |-> NULL]
       \/ org = [o \in Org |->
                   IF o = Some(Org)
                   THEN [domain |-> NULL, verified |-> TRUE,
                         suspended |-> FALSE, stale |-> FALSE]
                   ELSE NULL]
    /\ link = [l \in Link |-> NULL]
    /\ session = [s \in Session |-> NULL]
    /\ invite = [e \in Email |-> NULL]
    /\ job = [r \in Request |-> Idle]
    /\ sweeping = FALSE
    /\ boot = "up"
    /\ boots = 0
    /\ domainUnique \in Schemas

At(r, await) == job[r].at = await
Goto(r, j) == job' = [job EXCEPT ![r] = j]
End(r) == Goto(r, Idle)

(***************************************************************************)
(* Registration.                                                           *)
(***************************************************************************)

CanJoin(d) == {o \in Orgs : org[o].domain = d /\ org[o].verified
                                              /\ ~org[o].suspended}
Corporate(e) == DomainOf[e] # NULL /\ DomainOf[e] \notin Consumer

\* register, up to the await that decides between its cases.  The reads are
\* one step: the first organization is verified and stays, and a second look
\* at the address is what the unique index of the insert is.
Register(r, e) ==
    /\ At(r, "idle")
    /\ ~EmailTaken(e)
    /\ \/ /\ Orgs = {}
          /\ Goto(r, [Idle EXCEPT !.at = "first", !.email = e])
       \/ /\ Orgs # {}
          /\ Corporate(e)
          /\ \/ \E o \in CanJoin(DomainOf[e]) :
                   Goto(r, [Idle EXCEPT !.at = "join", !.email = e, !.org = o])
             \/ /\ CanJoin(DomainOf[e]) = {}
                /\ Goto(r, [Idle EXCEPT !.at = "pending", !.email = e])
    /\ UNCHANGED <<tables, server>>

\* _registerFirstUser: the organization, verified at once.
InsertFirstOrg(r) ==
    LET d == DomainOf[job[r].email] IN
    /\ At(r, "first")
    /\ \/ /\ Claimed(d) \/ HasRow(d)
          /\ End(r)
          /\ UNCHANGED org
       \/ /\ ~Claimed(d) /\ ~HasRow(d)
          /\ FreeOrgs # {}
          /\ LET o == Some(FreeOrgs) IN
                /\ org' = [org EXCEPT ![o] = [domain |-> d, verified |-> TRUE,
                                suspended |-> FALSE, stale |-> FALSE]]
                /\ Goto(r, [job[r] EXCEPT !.at = "owner", !.org = o])
    /\ UNCHANGED <<user, link, session, invite, server>>

\* The users row of every path but the pending one: an invited user starts
\* unverified, the others are trusted with their organization.
InsertUser(r) ==
    LET row == [email |-> job[r].email, org |-> job[r].org,
                verified |-> ~At(r, "invited"), role |-> "none",
                stale |-> FALSE]
        next == [owner |-> "ownerRow", join |-> "memberRow",
                 invited |-> "inviteRow"]
    IN
    /\ job[r].at \in {"owner", "join", "invited"}
    /\ \/ /\ EmailTaken(job[r].email)
          /\ End(r)
          /\ UNCHANGED user
       \/ /\ ~EmailTaken(job[r].email)
          /\ FreeUsers # {}
          /\ LET u == Some(FreeUsers) IN
                /\ user' = [user EXCEPT ![u] = row]
                /\ Goto(r, [job[r] EXCEPT !.at = next[job[r].at], !.user = u])
    /\ UNCHANGED <<org, link, session, invite, server>>

InsertMember(r) ==
    LET role == IF At(r, "ownerRow") THEN "owner" ELSE "member" IN
    /\ job[r].at \in {"ownerRow", "memberRow", "inviteRow"}
    /\ user' = [user EXCEPT ![job[r].user].role = role]
    /\ IF At(r, "inviteRow")
       THEN Goto(r, [job[r] EXCEPT !.at = "accept"])
       ELSE End(r)
    /\ UNCHANGED <<org, link, session, invite, server>>

MarkAccepted(r) ==
    /\ At(r, "accept")
    /\ invite' = [invite EXCEPT ![job[r].email] = NULL]
    /\ End(r)
    /\ UNCHANGED <<user, org, link, session, server>>

\* _registerPending: one transaction, rolled back if an index
\* refuses the organization or the user.
InsertPending(r) ==
    LET e == job[r].email IN
    /\ At(r, "pending")
    /\ \/ /\ EmailTaken(e) \/ HasRow(DomainOf[e])
          /\ UNCHANGED <<user, org, link>>
       \/ /\ ~EmailTaken(e) /\ ~HasRow(DomainOf[e])
          /\ FreeUsers # {} /\ FreeOrgs # {} /\ FreeLinks # {}
          /\ LET u == Some(FreeUsers)
                 o == Some(FreeOrgs)
                 l == Some(FreeLinks)
             IN
                /\ org' = [org EXCEPT ![o] =
                             [domain |-> DomainOf[e], verified |-> FALSE,
                              suspended |-> FALSE, stale |-> FALSE]]
                /\ user' = [user EXCEPT ![u] =
                              [email |-> e, org |-> o, verified |-> FALSE,
                               role |-> "owner", stale |-> FALSE]]
                /\ link' = [link EXCEPT ![l] = [user |-> u, used |-> FALSE]]
    /\ End(r)
    /\ UNCHANGED <<session, invite, server>>

\* registerWithInvite, up to the insert of the user.
RegisterWithInvite(r, e) ==
    /\ At(r, "idle")
    /\ invite[e] # NULL
    /\ ~EmailTaken(e)
    /\ Goto(r, [Idle EXCEPT !.at = "invited", !.email = e, !.org = invite[e]])
    /\ UNCHANGED <<tables, server>>

(***************************************************************************)
(* Verification links.                                                     *)
(***************************************************************************)

\* verifyEmail: one transaction.  The unique index turns it back when the
\* domain has gone to another organization, and then nothing is written.
VerifyEmail(r, l) ==
    LET u == link[l].user
        o == user[u].org
    IN
    /\ At(r, "idle")
    /\ l \in Links
    /\ ~link[l].used
    /\ o # NULL /\ ~org[o].verified => ~Claimed(org[o].domain)
    /\ link' = [link EXCEPT ![l].used = TRUE]
    /\ user' = [user EXCEPT ![u].verified = TRUE, ![u].stale = FALSE]
    /\ org' = [p \in Org |-> IF p = o THEN [org[p] EXCEPT !.verified = TRUE,
                                                          !.stale = FALSE]
                                      ELSE org[p]]
    /\ Goto(r, [Idle EXCEPT !.at = "issue", !.user = u])
    /\ UNCHANGED <<session, invite, server>>

\* resendVerificationEmail: the user is looked up, the link inserted later.
ResendLookup(r, u) ==
    /\ At(r, "idle")
    /\ u \in Users
    /\ ~user[u].verified
    /\ Goto(r, [Idle EXCEPT !.at = "resend", !.user = u])
    /\ UNCHANGED <<tables, server>>

\* The foreign key refuses a link for a user swept in the meantime.
InsertLink(r) ==
    LET u == job[r].user IN
    /\ At(r, "resend")
    /\ \/ /\ u \notin Users
          /\ UNCHANGED link
       \/ /\ u \in Users
          /\ FreeLinks # {}
          /\ link' = [link EXCEPT ![Some(FreeLinks)] =
                        [user |-> u, used |-> FALSE]]
    /\ End(r)
    /\ UNCHANGED <<user, org, session, invite, server>>

(***************************************************************************)
(* Sessions.                                                               *)
(***************************************************************************)

\* Mutant: the gate of login and refresh forgets the verification.
AdmittedUnverified(u) ==
    /\ u \in Users
    /\ user[u].org # NULL => ~org[user[u].org].suspended

\* enforceAccountAccess
Admitted(u) ==
    /\ u \in Users
    /\ user[u].verified
    /\ user[u].org # NULL => ~org[user[u].org].suspended

Login(r, u) ==
    /\ At(r, "idle")
    /\ Admitted(u)
    /\ Goto(r, [Idle EXCEPT !.at = "issue", !.user = u])
    /\ UNCHANGED <<tables, server>>

\* generateTokens, behind login, refresh and verifyEmail alike.
IssueSession(r) ==
    /\ At(r, "issue")
    /\ FreeSessions # {}
    /\ session' = [session EXCEPT ![Some(FreeSessions)] = job[r].user]
    /\ End(r)
    /\ UNCHANGED <<user, org, link, invite, server>>

RefreshSelect(r, s) ==
    /\ At(r, "idle")
    /\ session[s] # NULL
    /\ Goto(r, [Idle EXCEPT !.at = "rotate", !.user = session[s],
                            !.session = s])
    /\ UNCHANGED <<tables, server>>

RotateDelete(r) ==
    /\ At(r, "rotate")
    /\ session' = [session EXCEPT ![job[r].session] = NULL]
    /\ Goto(r, [job[r] EXCEPT !.at = "gate", !.session = NULL])
    /\ UNCHANGED <<user, org, link, invite, server>>

RefreshGate(r) ==
    /\ At(r, "gate")
    /\ IF Admitted(job[r].user) THEN Goto(r, [job[r] EXCEPT !.at = "issue"])
                                ELSE End(r)
    /\ UNCHANGED <<tables, server>>

Logout(s) ==
    /\ session[s] # NULL
    /\ session' = [session EXCEPT ![s] = NULL]
    /\ UNCHANGED <<user, org, link, invite, job, server>>

(***************************************************************************)
(* Owners, platform admins, the clock.                                     *)
(***************************************************************************)

\* createInvite, under the domain restriction every organization starts with.
CreateInvite(e, o) ==
    /\ e \in Invitable
    /\ invite[e] = NULL
    /\ \E u \in Users : /\ user[u].org = o
                        /\ user[u].role = "owner"
                        /\ Admitted(u)
    /\ ~ \E u \in Users : user[u].email = e /\ user[u].org = o
                                            /\ user[u].role # "none"
    /\ e \in Guests \/ (DomainOf[e] # NULL /\ DomainOf[e] = org[o].domain)
    /\ invite' = [invite EXCEPT ![e] = o]
    /\ UNCHANGED <<user, org, link, session, job, server>>

\* PATCH /api/admin/organizations/:id
SetSuspended(o) ==
    /\ o \in Orgs
    /\ org[o].domain \in Suspendable
    /\ org' = [org EXCEPT ![o].suspended = ~@]
    /\ UNCHANGED <<user, link, session, invite, job, server>>

\* A pending signup passes PENDING_TTL_DAYS, its organization with it: one
\* transaction created both.  No registration takes a week.
Ages(u) ==
    /\ u \in Users
    /\ ~user[u].verified
    /\ ~user[u].stale
    /\ \A r \in Request :
          job[r].at \in {"inviteRow", "accept"} => job[r].user # u
    /\ user' = [user EXCEPT ![u].stale = TRUE]
    /\ org' = [o \in Org |->
                 IF o = user[u].org /\ ~org[o].verified
                 THEN [org[o] EXCEPT !.stale = TRUE] ELSE org[o]]
    /\ UNCHANGED <<link, session, invite, job, server>>

(***************************************************************************)
(* The signup janitor.                                                     *)
(***************************************************************************)

\* Mutant: the janitor spares users who are members of an organization.
SweepLoners ==
    LET swept == {u \in Users : /\ ~user[u].verified /\ user[u].stale
                                /\ user[u].role = "none"} IN
    /\ ~sweeping
    /\ user' = [u \in User |-> IF u \in swept THEN NULL ELSE user[u]]
    /\ link' = [l \in Link |-> IF l \in Links /\ link[l].user \in swept
                               THEN NULL ELSE link[l]]
    /\ sweeping' = TRUE
    /\ UNCHANGED <<org, session, invite, job, boot, boots, domainUnique>>

\* DELETE FROM users; the foreign keys take links, sessions and memberships.
SweepUsers ==
    LET swept == {u \in Users : ~user[u].verified /\ user[u].stale} IN
    /\ ~sweeping
    /\ user' = [u \in User |-> IF u \in swept THEN NULL ELSE user[u]]
    /\ link' = [l \in Link |-> IF l \in Links /\ link[l].user \in swept
                               THEN NULL ELSE link[l]]
    /\ session' = [s \in Session |-> IF session[s] \in swept
                                     THEN NULL ELSE session[s]]
    /\ sweeping' = TRUE
    /\ UNCHANGED <<org, invite, job, boot, boots, domainUnique>>

\* Mutant: the second statement does not look for members.
OrphansUnchecked == {o \in Orgs : ~org[o].verified /\ org[o].stale}

\* The orphans of the second statement: pending, old, and nobody's.
Orphans ==
    {o \in Orgs : /\ ~org[o].verified
                  /\ org[o].stale
                  /\ \A u \in Users : user[u].org = o => user[u].role = "none"}

SweepOrgs ==
    /\ sweeping
    /\ org' = [o \in Org |-> IF o \in Orphans THEN NULL ELSE org[o]]
    /\ user' = [u \in User |->
                  IF u \in Users /\ user[u].org \in Orphans
                  THEN [user[u] EXCEPT !.org = NULL] ELSE user[u]]
    /\ invite' = [e \in Email |-> IF invite[e] \in Orphans THEN NULL
                                                          ELSE invite[e]]
    /\ sweeping' = FALSE
    /\ UNCHANGED <<link, session, job, boot, boots, domainUnique>>

(***************************************************************************)
(* Boots.                                                                  *)
(***************************************************************************)

\* The old process is killed with what it had in flight, or drains while the
\* new one starts.
Restart ==
    /\ boot = "up"
    /\ boots < MaxBoots
    /\ boot' = "users"
    /\ boots' = boots + 1
    /\ \/ /\ job' = [r \in Request |-> Idle]
          /\ sweeping' = FALSE
       \/ UNCHANGED <<job, sweeping>>
    /\ UNCHANGED <<tables, domainUnique>>

\* UPDATE users SET email_verified_at = created_at WHERE it IS NULL
GrandfatherUsers ==
    /\ boot = "users"
    /\ user' = [u \in User |-> IF u \in Users
                               THEN [user[u] EXCEPT !.verified = TRUE,
                                                    !.stale = FALSE]
                               ELSE user[u]]
    /\ boot' = "orgs"
    /\ UNCHANGED <<org, link, session, invite, job, sweeping, boots, domainUnique>>

\* Mutant: the boot verifies the organizations of a domain all the same.
GrandfatherOrgsAlways ==
    /\ boot = "orgs"
    /\ org' = [o \in Org |-> IF o \in Orgs
                             THEN [org[o] EXCEPT !.verified = TRUE,
                                                 !.stale = FALSE]
                             ELSE org[o]]
    /\ boot' = "up"
    /\ UNCHANGED <<user, link, session, invite, job, sweeping, boots, domainUnique>>

\* The same for organizations.  Two of one domain make the statement fail,
\* and the boot goes on without it.
GrandfatherOrgs ==
    LET distinct == \A o, p \in Orgs :
                       o # p /\ org[o].domain = org[p].domain
                          => org[o].domain = NULL
    IN
    /\ boot = "orgs"
    /\ org' = [o \in Org |-> IF distinct /\ o \in Orgs
                             THEN [org[o] EXCEPT !.verified = TRUE,
                                                 !.stale = FALSE]
                             ELSE org[o]]
    /\ boot' = "up"
    /\ UNCHANGED <<user, link, session, invite, job, sweeping, boots, domainUnique>>

Crash(r) ==
    /\ job[r].at \in Fatal
    /\ End(r)
    /\ UNCHANGED <<tables, server>>

(***************************************************************************)
(* The specification.                                                      *)
(***************************************************************************)

\* What a request in flight does next.
Proceed(r) ==
    \/ InsertFirstOrg(r) \/ InsertUser(r) \/ InsertMember(r) \/ MarkAccepted(r)
    \/ InsertPending(r) \/ InsertLink(r)
    \/ IssueSession(r) \/ RotateDelete(r) \/ RefreshGate(r)

Start(r) ==
    \/ \E e \in Email : Register(r, e) \/ RegisterWithInvite(r, e)
    \/ \E l \in Link : VerifyEmail(r, l)
    \/ \E u \in User : ResendLookup(r, u) \/ Login(r, u)
    \/ \E s \in Session : RefreshSelect(r, s)

Next ==
    \/ \E r \in Request : Proceed(r) \/ Start(r) \/ Crash(r)
    \/ \E s \in Session : Logout(s)
    \/ \E e \in Email, o \in Org : CreateInvite(e, o)
    \/ \E o \in Org : SetSuspended(o)
    \/ \E u \in User : Ages(u)
    \/ SweepUsers \/ SweepOrgs
    \/ Restart \/ GrandfatherUsers \/ GrandfatherOrgs

Spec == Init /\ [][Next]_vars

\* Queries return or throw, the clock runs, and setInterval calls the janitor.
Fairness ==
    /\ \A r \in Request : WF_vars(Proceed(r))
    /\ \A u \in User : WF_vars(Ages(u))
    /\ WF_vars(SweepUsers)
    /\ WF_vars(SweepOrgs)

FairSpec == Spec /\ Fairness

(***************************************************************************)
(* What makes accounts correct.                                            *)
(***************************************************************************)

TypeOK ==
    /\ user \in [User -> UserRow \cup {NULL}]
    /\ org \in [Org -> OrgRow \cup {NULL}]
    /\ link \in [Link -> LinkRow \cup {NULL}]
    /\ session \in [Session -> User \cup {NULL}]
    /\ invite \in [Email -> Org \cup {NULL}]
    /\ job \in [Request -> Job]
    /\ sweeping \in BOOLEAN
    /\ boot \in {"up", "users", "orgs"}
    /\ boots \in 0 .. MaxBoots
    /\ domainUnique \in Schemas

\* Whatever was in flight when a user was swept, nobody holds a session who
\* has not been verified (the gate of login and refresh, and the sweep).
SessionsAreOfVerifiedUsers ==
    \A s \in Session :
       session[s] # NULL => session[s] \in Users /\ user[session[s]].verified

\* The janitor's second statement never takes an organization from under a
\* user: not one that aged between the two statements, not one whose owner
\* a boot has verified while the organization stayed pending.
LiveUsersKeepTheirOrg ==
    \A u \in Users : user[u].org # NULL /\ user[u].org \in Orgs

\* Verified users of one company domain are in one organization, however
\* their registrations, links and a suspension raced.  Guests go where they
\* are invited; a boot verifies users the index would have refused.
ColleaguesShareOrg ==
    boots = 0 =>
       \A u, v \in Users :
          /\ user[u].verified /\ user[v].verified
          /\ user[u].email \notin Guests /\ user[v].email \notin Guests
          /\ Corporate(user[u].email)
          /\ DomainOf[user[u].email] = DomainOf[user[v].email]
          => user[u].org = user[v].org

\* The verified organizations of each domain.
Holders ==
    [d \in Domain |-> {o \in Orgs : org[o].verified /\ org[o].domain = d}]

\* Verification, boots and the janitor keep the promise of DomainClaims: a
\* domain is claimed once and for good.
Claims == INSTANCE DomainClaims WITH holders <- Holders
ImplementsClaims == Claims!Spec

\* Every signup is either completed or cleared away, and no organization is
\* left pending behind it, so neither the address nor the name stays taken.
\* (After a boot an organization may stay pending with a verified owner.)
SignupsEnd ==
    /\ \A u \in User : (u \in Users /\ ~user[u].verified)
                          ~> (u \notin Users \/ user[u].verified)
    /\ \A o \in Org : (o \in Orgs /\ ~org[o].verified)
                          ~> (o \notin Orgs \/ org[o].verified \/ boots > 0)

\* src/index.js:406: "null until verification link clicked".  A user to whom
\* a link was sent is verified only if one of them was used.
VerifiedByLink ==
    \A u \in Users :
       /\ user[u].verified
       /\ \E l \in Links : link[l].user = u
       => \E l \in Links : link[l].user = u /\ link[l].used
=============================================================================
