---------------------------- MODULE DomainClaims ----------------------------
(***************************************************************************)
(* What public signup promises of company domains: a domain is claimed at  *)
(* most once, by one organization, and stays claimed by it.  Accounts      *)
(* implements it with a unique index over the verified organizations.      *)
(***************************************************************************)
CONSTANTS Domain, Org

VARIABLE holders        \* the organizations that hold a domain

Init == holders = [d \in Domain |-> {}]

\* One or more domains nobody holds get one holder each.
Claim ==
    /\ holders' \in [Domain -> SUBSET Org]
    /\ \A d \in Domain :
          holders'[d] # holders[d] =>
             /\ holders[d] = {}
             /\ \E o \in Org : holders'[d] = {o}

Spec == Init /\ [][Claim]_holders
=============================================================================
