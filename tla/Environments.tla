---------------------------- MODULE Environments ----------------------------
(***************************************************************************)
(* The environments of testgenie-backend: named variables, some of them    *)
(* secret, one set of them active for each user.  Every user may read and  *)
(* change every environment.                                               *)
(*                                                                         *)
(* A value is "plain", or the mask that is shown instead of a secret and   *)
(* that a browser may well send back.                                      *)
(***************************************************************************)
EXTENDS FiniteSets

CONSTANTS
    Nil,
    Env,            \* ids of environments
    Member,         \* users
    Page            \* requests in flight

Kind == {"create", "patch", "activate"}
Stored == {"plain", "mask"}
EnvironmentRow == [owner : Member, active : BOOLEAN, secret : BOOLEAN, value : Stored]
PageRow == [at : {"idle", "set"}, by : Member \cup {Nil}, env : Env \cup {Nil},
            kind : Kind \cup {Nil}, value : Stored, alone : BOOLEAN]

ASSUME EnvironmentsAssumption == Nil \notin Env \cup Member \cup EnvironmentRow

VARIABLES
    environment,    \* rows by id, or Nil
    page,           \* requests in flight
    muddled,        \* history: users whose rows were set active by a
                    \* colleague, or by two requests at once, since they were
                    \* last cleared
    sentBack        \* history: environments that were saved with a mask

environmentVars == <<environment, page, muddled, sentBack>>

NoPage == [at |-> "idle", by |-> Nil, env |-> Nil, kind |-> Nil,
           value |-> "plain", alone |-> TRUE]

EnvironmentsInit ==
    /\ environment = [e \in Env |-> Nil]
    /\ page = [p \in Page |-> NoPage]
    /\ muddled = {} /\ sentBack = {}

Exists(e) == environment[e] # Nil
OwnedBy(u) == {e \in Env : Exists(e) /\ environment[e].owner = u}
ActiveOf(u) == {e \in OwnedBy(u) : environment[e].active}

\* A request that sets an environment active, and whose rows it is about.
Setting(p, u) ==
    page[p].at = "set" /\ (page[p].by = u \/ page[p].env \in OwnedBy(u))

\* An id that nobody is about to insert, or still remembers.
Unclaimed(e) == \A p \in Page : page[p].env # e

SentBack(e, value) == IF value = "mask" THEN sentBack \cup {e} ELSE sentBack \ {e}

(***************************************************************************)
(* Reading.  What is shown of a secret is the mask.                        *)
(***************************************************************************)

Shown(e) == IF environment[e].secret THEN "mask" ELSE environment[e].value

\* The environment a run resolves its variables with when it names none:
\* LIMIT 1 of those that are active.
GetActiveEnvironment(u) == IF ActiveOf(u) = {} THEN {Nil} ELSE ActiveOf(u)

\* What a run replaces a variable by: the value that is stored.
RawVariable(e) == IF e = Nil THEN Nil ELSE environment[e].value

(***************************************************************************)
(* Writing.  To make an environment active is to clear the flag of the     *)
(* caller's environments first, whoever owns the one that is to be active. *)
(***************************************************************************)

\* Mutant: nothing is cleared.
ClearedNot(u) == environment

Cleared(u) ==
    [e \in Env |-> IF e \in OwnedBy(u) THEN [environment[e] EXCEPT !.active = FALSE]
                   ELSE environment[e]]

\* POST /, PATCH /:id with isActive, and POST /:id/activate, up to the UPDATE
\* that sets it; e is not there yet if it is created.
ClearActive(p, u, e, kind, value) ==
    /\ page[p].at = "idle"
    /\ IF kind = "create" THEN ~Exists(e) /\ Unclaimed(e) ELSE Exists(e)
    /\ \/ value = "plain"
       \/ kind = "patch" /\ value = Shown(e)
    /\ environment' = Cleared(u)
    /\ page' = [q \in Page |->
                  IF q = p
                  THEN [at |-> "set", by |-> u, env |-> e, kind |-> kind,
                        value |-> value, alone |-> ~\E r \in Page : Setting(r, u)]
                  ELSE IF Setting(q, u) THEN [page[q] EXCEPT !.alone = FALSE]
                  ELSE page[q]]
    /\ muddled' = muddled \ {u}
    /\ UNCHANGED sentBack

\* The row is there unless it was deleted meanwhile.
SetActive(p) ==
    LET j == page[p]
        owner == IF j.kind = "create" THEN j.by ELSE environment[j.env].owner
        row == CASE j.kind = "create" ->
                      {[owner |-> j.by, active |-> TRUE, secret |-> s, value |-> j.value] :
                          s \in BOOLEAN}
                 [] j.kind = "patch" ->
                      {[environment[j.env] EXCEPT !.active = TRUE, !.value = j.value]}
                 [] OTHER -> {[environment[j.env] EXCEPT !.active = TRUE]}
    IN  /\ j.at = "set"
        /\ IF j.kind # "create" /\ ~Exists(j.env)
           THEN UNCHANGED <<environment, muddled, sentBack>>
           ELSE /\ \E r \in row : environment' = [environment EXCEPT ![j.env] = r]
                /\ muddled' = IF j.alone /\ owner = j.by THEN muddled
                              ELSE muddled \cup {owner}
                /\ sentBack' = IF j.kind = "activate" THEN sentBack
                               ELSE SentBack(j.env, j.value)
        /\ page' = [page EXCEPT ![p] = NoPage]

\* PATCH without isActive, or with it false: one UPDATE.
PatchEnvironment(e, value, active, secret) ==
    /\ Exists(e) /\ value \in {Shown(e), "plain"}
    /\ active \in {environment[e].active, FALSE}
    /\ environment' = [environment EXCEPT ![e].value = value, ![e].active = active,
                                          ![e].secret = secret]
    /\ sentBack' = SentBack(e, value)
    /\ UNCHANGED <<page, muddled>>

\* POST / without isActive, and POST /:id/duplicate, of the stored values.
CreateEnvironment(u, e, secret) ==
    /\ ~Exists(e) /\ Unclaimed(e)
    /\ environment' = [environment EXCEPT ![e] =
                         [owner |-> u, active |-> FALSE, secret |-> secret, value |-> "plain"]]
    /\ UNCHANGED <<page, muddled, sentBack>>

DuplicateEnvironment(u, e, f) ==
    /\ Exists(f) /\ ~Exists(e) /\ Unclaimed(e)
    /\ environment' = [environment EXCEPT ![e] =
                         [environment[f] EXCEPT !.owner = u, !.active = FALSE]]
    /\ sentBack' = IF f \in sentBack THEN sentBack \cup {e} ELSE sentBack
    /\ UNCHANGED <<page, muddled>>

DeleteEnvironment(e) ==
    /\ Exists(e)
    /\ environment' = [environment EXCEPT ![e] = Nil]
    /\ sentBack' = sentBack \ {e}
    /\ UNCHANGED <<page, muddled>>

EnvironmentsNext ==
    \/ \E p \in Page, u \in Member, e \in Env, kind \in Kind, value \in Stored :
          ClearActive(p, u, e, kind, value)
    \/ \E p \in Page : SetActive(p)
    \/ \E e \in Env :
          \/ \E value \in Stored, active, secret \in BOOLEAN :
                PatchEnvironment(e, value, active, secret)
          \/ \E u \in Member, secret \in BOOLEAN : CreateEnvironment(u, e, secret)
          \/ \E u \in Member, f \in Env : DuplicateEnvironment(u, e, f)
          \/ DeleteEnvironment(e)

EnvironmentsSpec == EnvironmentsInit /\ [][EnvironmentsNext]_environmentVars

(***************************************************************************)
(* Properties.                                                             *)
(***************************************************************************)

EnvironmentsTypeOK ==
    /\ environment \in [Env -> EnvironmentRow \cup {Nil}]
    /\ page \in [Page -> PageRow]
    /\ muddled \subseteq Member /\ sentBack \subseteq Env

\* A run of a user without a named environment resolves its variables with
\* one environment, never with either of two, unless two requests set one
\* active at the same time or a colleague did it; and with the stored values
\* of its secrets, unless the mask that was shown of one was sent back.
RunsKnowTheirEnvironment ==
    \A u \in Member :
        /\ u \notin muddled => Cardinality(GetActiveEnvironment(u)) = 1
        /\ \A e \in GetActiveEnvironment(u) \ sentBack : RawVariable(e) \in {"plain", Nil}
=============================================================================
