----------------------------- MODULE MCAccounts -----------------------------
(* Values of Accounts' constants that a configuration file cannot write.    *)
EXTENDS Accounts, TLC

CONSTANTS alice, bob, guest, acme

\* Two colleagues, and an address at a public provider.
Domains == [e \in Email |-> IF e = guest THEN NULL ELSE acme]

\* Requests are interchangeable, and so are colleagues where nobody is
\* invited: no definition chooses among them.
Symmetry == Permutations(Request) \cup Permutations(Email)
=============================================================================
