------------------------------- MODULE MCTeam -------------------------------
(* The team of an organization, and the administration over all of them: a  *)
(* behaviour is one of theirs (they change the same tables, but Team has    *)
(* the statements of both on one organization).                             *)
EXTENDS Team, Administration, TLC

CONSTANTS ann, bob

Founders == ann :> "owner" @@ bob :> "admin"

Homes == (ann :> Nobody) @@ (bob :> "acme")
\* PATCH /users/:id takes the platform scope away and brings a deleted user
\* back; DELETE /users/:id leaves the scope.
Bodies == {[status |-> "active", platform |-> "revoked", role |-> "owner"]}

VARIABLE part

MCInit == Init /\ AdministrationInit /\ part \in {"team", "administration"}

MCNext ==
    /\ UNCHANGED part
    /\ \/ part = "team" /\ Next /\ UNCHANGED administrationVars
       \/ part = "administration" /\ AdministrationNext /\ UNCHANGED vars

MCSpec == MCInit /\ [][MCNext]_<<vars, administrationVars, part>>

Interchangeable == Permutations(Request) \cup Permutations(Invite)
=============================================================================
