------------------------------ MODULE TwoFactor ------------------------------
(***************************************************************************)
(* The second factor of one user of testgenie-backend: its enrolment, its  *)
(* recovery codes and what a challenged login does with them.              *)
(*                                                                         *)
(* A code of the authenticator is as good as the secret it is made of, so  *)
(* a request carries the secret.  Ten recovery codes are one here; a login *)
(* that ends with a code of the authenticator changes nothing but the      *)
(* session, which is in Accounts.                                          *)
(***************************************************************************)
EXTENDS Naturals

CONSTANTS
    None,
    Tab,            \* requests of the user in flight
    Secret, Code,   \* TOTP secrets, recovery codes
    Breaks          \* awaits at which a request may fail

TabAt == {"idle", "store", "wipe", "enable", "mark", "drop", "consume"}

ASSUME TwoFactorAssumption == None \notin Secret \cup Code /\ Breaks \subseteq TabAt

VARIABLES
    factor,     \* totp_secret_enc, and whether totp_enabled_at is set
    recovery,   \* user_recovery_codes: "absent", "fresh" or "used", by code
    challenged, \* whether the user has a pre-2fa token
    tab,        \* requests in flight
    known,      \* history: whether the user was shown the stored secret
    proven,     \* history: whether one of its codes was accepted
    shown,      \* history: recovery codes the user was shown for it
    opened,     \* history: logins let through, by recovery code
    tangled     \* history: requests that change the factor have overlapped

stored == <<factor, recovery>>
told == <<known, proven, shown>>
factorVars == <<factor, recovery, challenged, tab, known, proven, shown,
                opened, tangled>>

Quiet == [at |-> "idle", secret |-> None, code |-> None, alone |-> TRUE]

FactorInit ==
    /\ factor = [secret |-> None, enabled |-> FALSE]
    /\ recovery = [k \in Code |-> "absent"]
    /\ challenged = FALSE
    /\ tab = [t \in Tab |-> Quiet]
    /\ known = FALSE /\ proven = FALSE /\ shown = {}
    /\ opened = [k \in Code |-> 0]
    /\ tangled = FALSE

Changing(t) == tab[t].at \notin {"idle", "consume"}
TabDone(t) == tab' = [tab EXCEPT ![t] = Quiet]

\* A request that will change the factor enters: whoever is under way is no
\* longer alone.
Enter(t, j) ==
    /\ tab[t].at = "idle"
    /\ tab' = [u \in Tab |->
                 IF u = t THEN [j EXCEPT !.alone = ~\E v \in Tab : Changing(v)]
                 ELSE IF Changing(u) THEN [tab[u] EXCEPT !.alone = FALSE]
                 ELSE tab[u]]

\* It takes effect; if it leaves nothing of the past, so ends the tangle.
Untangles(t) == tangled' = ~tab[t].alone
Tangles(t) == tangled' = (tangled \/ ~tab[t].alone)

(***************************************************************************)
(* Enrolment.                                                              *)
(***************************************************************************)

\* POST /setup, up to the first write.
Setup(t, s) ==
    /\ ~factor.enabled
    /\ s # factor.secret /\ \A u \in Tab : tab[u].secret # s
    /\ Enter(t, [Quiet EXCEPT !.at = "store", !.secret = s])
    /\ UNCHANGED <<stored, challenged, told, opened, tangled>>

\* Whether it is enabled meanwhile or not, it is not afterwards.
StoreSecret(t) ==
    /\ tab[t].at = "store"
    /\ factor' = [secret |-> tab[t].secret, enabled |-> FALSE]
    /\ tab' = [tab EXCEPT ![t].at = "wipe"]
    /\ known' = FALSE /\ proven' = FALSE /\ shown' = {}
    /\ Tangles(t)
    /\ UNCHANGED <<recovery, challenged, opened>>

WipeCodes(t) ==
    /\ tab[t].at = "wipe"
    /\ recovery' = [k \in Code |-> "absent"]
    /\ known' = (known \/ factor.secret = tab[t].secret)
    /\ TabDone(t)
    /\ Untangles(t)
    /\ UNCHANGED <<factor, challenged, proven, shown, opened>>

\* POST /confirm, with a code of the stored secret.
Confirm(t) ==
    /\ ~factor.enabled /\ factor.secret # None /\ known
    /\ Enter(t, [Quiet EXCEPT !.at = "enable"])
    /\ proven' = TRUE
    /\ UNCHANGED <<stored, challenged, known, shown, opened, tangled>>

\* One transaction, whatever secret is stored by then.
Enable(t) ==
    /\ tab[t].at = "enable"
    /\ factor' = [factor EXCEPT !.enabled = TRUE]
    /\ \E k \in Code :
          /\ recovery[k] = "absent" /\ k \notin shown
          /\ \A u \in Tab : tab[u].code # k
          /\ recovery' = [recovery EXCEPT ![k] = "fresh"]
          /\ shown' = shown \cup {k}
          /\ opened' = [opened EXCEPT ![k] = 0]
    /\ TabDone(t)
    /\ Tangles(t)
    /\ UNCHANGED <<challenged, known, proven>>

(***************************************************************************)
(* POST /disable, with the password and a proof of the second factor.      *)
(***************************************************************************)

DisableByTotp(t) ==
    /\ factor.enabled /\ factor.secret # None /\ known
    /\ Enter(t, [Quiet EXCEPT !.at = "drop"])
    /\ UNCHANGED <<stored, challenged, told, opened, tangled>>

DisableByCode(t, k) ==
    /\ factor.enabled /\ recovery[k] = "fresh"
    /\ Enter(t, [Quiet EXCEPT !.at = "mark", !.code = k])
    /\ UNCHANGED <<stored, challenged, told, opened, tangled>>

\* Used meanwhile or not: only the SELECT has looked.
MarkUsed(t) ==
    /\ tab[t].at = "mark"
    /\ recovery' = [recovery EXCEPT ![tab[t].code] = IF @ = "absent" THEN @ ELSE "used"]
    /\ tab' = [tab EXCEPT ![t].at = "drop", ![t].code = None]
    /\ UNCHANGED <<factor, challenged, told, opened, tangled>>

\* Mutant: the recovery codes are left behind.
DropSecret(t) ==
    /\ tab[t].at = "drop"
    /\ factor' = [secret |-> None, enabled |-> FALSE]
    /\ known' = FALSE /\ proven' = FALSE /\ shown' = {}
    /\ TabDone(t)
    /\ Untangles(t)
    /\ UNCHANGED <<recovery, challenged, opened>>

Drop(t) ==
    /\ tab[t].at = "drop"
    /\ factor' = [secret |-> None, enabled |-> FALSE]
    /\ recovery' = [k \in Code |-> "absent"]
    /\ known' = FALSE /\ proven' = FALSE /\ shown' = {}
    /\ TabDone(t)
    /\ Untangles(t)
    /\ UNCHANGED <<challenged, opened>>

(***************************************************************************)
(* A login that has to show the second factor.                             *)
(***************************************************************************)

\* The password is right: a token for five minutes, and as many attempts.
Challenge ==
    /\ ~challenged /\ factor.enabled
    /\ challenged' = TRUE
    /\ UNCHANGED <<stored, tab, told, opened, tangled>>

ChallengeExpires ==
    /\ challenged
    /\ challenged' = FALSE
    /\ UNCHANGED <<stored, tab, told, opened, tangled>>

\* completeTwoFactorLogin, if there still is a factor, with a code the user
\* was shown once.
AnswerWithCode(t, k) ==
    /\ tab[t].at = "idle"
    /\ challenged /\ factor.enabled /\ factor.secret # None
    /\ k \in shown
    /\ tab' = [tab EXCEPT ![t] = [Quiet EXCEPT !.at = "consume", !.code = k]]
    /\ UNCHANGED <<stored, challenged, told, opened, tangled>>

LetThrough(t) ==
    /\ recovery' = [recovery EXCEPT ![tab[t].code] = "used"]
    /\ opened' = [opened EXCEPT ![tab[t].code] = @ + 1]

\* Mutant: the UPDATE does not ask whether the code is unused.
ConsumeAgain(t) ==
    /\ tab[t].at = "consume"
    /\ IF recovery[tab[t].code] # "absent"
       THEN LetThrough(t) ELSE UNCHANGED <<recovery, opened>>
    /\ TabDone(t)
    /\ UNCHANGED <<factor, challenged, told, tangled>>

\* A single UPDATE of the unused code decides.
Consume(t) ==
    /\ tab[t].at = "consume"
    /\ IF recovery[tab[t].code] = "fresh"
       THEN LetThrough(t) ELSE UNCHANGED <<recovery, opened>>
    /\ TabDone(t)
    /\ UNCHANGED <<factor, challenged, told, tangled>>

\* A query fails or the process ends: what was written stays, a transaction
\* is rolled back.
TabFails(t) ==
    /\ tab[t].at \in Breaks \ {"idle"}
    /\ TabDone(t)
    /\ UNCHANGED <<stored, challenged, told, opened, tangled>>

FactorNext ==
    \/ \E t \in Tab :
          \/ \E s \in Secret : Setup(t, s)
          \/ StoreSecret(t) \/ WipeCodes(t)
          \/ Confirm(t) \/ Enable(t)
          \/ DisableByTotp(t) \/ \E k \in Code : DisableByCode(t, k)
          \/ MarkUsed(t) \/ Drop(t)
          \/ \E k \in Code : AnswerWithCode(t, k)
          \/ Consume(t) \/ TabFails(t)
    \/ Challenge \/ ChallengeExpires

FactorSpec == FactorInit /\ [][FactorNext]_factorVars

(***************************************************************************)
(* Properties.                                                             *)
(***************************************************************************)

FactorTypeOK ==
    /\ factor \in [secret : Secret \cup {None}, enabled : BOOLEAN]
    /\ recovery \in [Code -> {"absent", "fresh", "used"}]
    /\ tab \in [Tab -> [at : TabAt, secret : Secret \cup {None},
                        code : Code \cup {None}, alone : BOOLEAN]]
    /\ {challenged, known, proven, tangled} \subseteq BOOLEAN
    /\ shown \subseteq Code /\ opened \in [Code -> Nat]

\* "Single-use - mark consumed atomically": however many logins are under way
\* with the same recovery code, one of them gets in.
CodesWorkOnce == \A k \in Code : opened[k] <= 1

\* Requests that change the factor one after another, each of them perhaps
\* broken off half way, leave it whole: when it is on, the user has proven to
\* have its secret and its recovery codes are on file; when it is off, there
\* are none.
FactorIsWhole ==
    ~tangled =>
        IF factor.enabled
        THEN /\ proven
             /\ shown # {} /\ \A k \in shown : recovery[k] # "absent"
        ELSE \A k \in Code : recovery[k] = "absent"

\* Both: what a login may count on, and what the pages of the user's settings
\* leave behind, whichever requests meet.
FactorHolds == CodesWorkOnce /\ FactorIsWhole
=============================================================================
