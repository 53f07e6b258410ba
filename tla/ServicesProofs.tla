--------------------------- MODULE ServicesProofs ---------------------------
(***************************************************************************)
(* What holds of the services for every value of their constants, each on  *)
(* its own: the second factor of a login, the Jira integration, the        *)
(* environments, the global variables, the dashboard, the API sources, the *)
(* chain sessions and the folders.  Each has an inductive invariant that   *)
(* says what a request may count on that nothing has disturbed since it    *)
(* looked, and what is to be doubted otherwise.                            *)
(***************************************************************************)
EXTENDS TwoFactor, Jira, Environments, Globals, Dashboard, ApiSources,
        ChainSessions, Folders, FiniteSetTheorems, WellFoundedInduction, TLAPS

(***************************************************************************)
(* The second factor: a recovery code lets one login in, and requests that *)
(* do not overlap leave the factor whole, wherever they break off.         *)
(***************************************************************************)

TabRows == [at : TabAt, secret : Secret \cup {None}, code : Code \cup {None},
             alone : BOOLEAN]

TabAlone(t) == Changing(t) /\ tab[t].alone

CodesAreKnown == \A t \in Tab : tab[t].at \in {"mark", "consume"} => tab[t].code \in Code

FreshIsUnopened == \A k \in Code : recovery[k] = "fresh" => opened[k] = 0

ShownIsOn == factor.enabled \/ shown = {}

\* What a request that has met no other may count on: that there is none, and
\* that the factor is as it was when the request looked.
TabsUndisturbed ==
    \A t \in Tab : TabAlone(t) =>
        /\ \A v \in Tab : Changing(v) => v = t
        /\ tab[t].at \in {"store", "wipe", "enable"} => ~factor.enabled
        /\ tab[t].at = "enable" => proven

\* The strengthening of FactorHolds that is inductive.
FactorInv ==
    /\ FactorTypeOK
    /\ CodesAreKnown /\ FreshIsUnopened /\ ShownIsOn /\ TabsUndisturbed
    /\ FactorHolds

LEMMA TabTypes == FactorTypeOK => tab \in [Tab -> TabRows]
BY DEF FactorTypeOK, TabRows

LEMMA QuietIsATab == Quiet \in TabRows
BY DEF Quiet, TabRows, TabAt

LEMMA InitFactorInv == FactorInit => FactorInv
<1> SUFFICES ASSUME FactorInit PROVE FactorInv
  OBVIOUS
<1>1. FactorTypeOK
  BY QuietIsATab DEF FactorInit, FactorTypeOK, TabRows
<1>2. \A t \in Tab : tab[t].at = "idle"
  BY DEF FactorInit, Quiet
<1>3. CodesAreKnown /\ TabsUndisturbed
  BY <1>2 DEF CodesAreKnown, TabsUndisturbed, TabAlone, Changing
<1>4. FreshIsUnopened /\ ShownIsOn /\ FactorHolds
  BY DEF FactorInit, FreshIsUnopened, ShownIsOn, FactorHolds, CodesWorkOnce, FactorIsWhole
<1>5. QED
  BY <1>1, <1>3, <1>4 DEF FactorInv

(***************************************************************************)
(* TabRows enter, go on and end.                                          *)
(***************************************************************************)

LEMMA EnterTypes ==
    ASSUME FactorInv, NEW t \in Tab, NEW j \in TabRows, Enter(t, j)
    PROVE  /\ (tab \in [Tab -> TabRows])'
           /\ \A u \in Tab \ {t} : /\ tab'[u].at = tab[u].at /\ tab'[u].code = tab[u].code
                                   /\ tab'[u].alone => tab[u].alone
                                   /\ Changing(u) => ~tab'[u].alone
           /\ tab'[t].at = j.at /\ tab'[t].code = j.code
           /\ tab'[t].alone = ~\E v \in Tab : Changing(v)
<1>1. \A u \in Tab : tab[u] \in TabRows
  BY TabTypes DEF FactorInv
<1>2. \A u \in Tab \ {t} : IF Changing(u) THEN tab'[u] = [tab[u] EXCEPT !.alone = FALSE]
                                          ELSE tab'[u] = tab[u]
  BY DEF Enter
<1> DEFINE met == \E v \in Tab : Changing(v)
<1>3. met \in BOOLEAN
  OBVIOUS
<1> HIDE DEF met
<1>4. tab'[t] = [j EXCEPT !.alone = ~met]
  BY DEF met, Enter
<1>5. /\ tab'[t] \in TabRows /\ tab'[t].at = j.at /\ tab'[t].code = j.code
      /\ tab'[t].alone = ~met
  BY <1>3, <1>4 DEF TabRows
<1>6. ASSUME NEW u \in Tab \ {t}
      PROVE  /\ tab'[u] \in TabRows
             /\ tab'[u].at = tab[u].at /\ tab'[u].code = tab[u].code
             /\ tab'[u].alone => tab[u].alone
             /\ Changing(u) => ~tab'[u].alone
  BY <1>1, <1>2 DEF TabRows
<1>7. tab' \in [Tab -> TabRows]
  BY <1>5, <1>6 DEF Enter
<1>8. QED
  BY <1>5, <1>6, <1>7 DEF TabRows, met

\* A request that changes the factor enters, and looks at it.
LEMMA EnterKeepsInv ==
    ASSUME FactorInv, NEW t \in Tab, NEW j \in TabRows, Enter(t, j),
           j.at \notin {"idle", "consume"},
           j.at = "mark" => j.code \in Code,
           j.at \in {"store", "wipe", "enable"} => ~factor.enabled,
           j.at = "enable" => proven',
           proven => proven', proven' \in BOOLEAN,
           UNCHANGED <<factor, recovery, challenged, known, shown, opened, tangled>>
    PROVE  FactorInv'
<1>1. FactorTypeOK'
  BY EnterTypes DEF FactorInv, FactorTypeOK, TabRows
<1>2. CodesAreKnown'
  BY EnterTypes DEF FactorInv, CodesAreKnown
<1>3. FreshIsUnopened' /\ ShownIsOn' /\ CodesWorkOnce'
  BY DEF FactorInv, FactorHolds, FreshIsUnopened, ShownIsOn, CodesWorkOnce
<1>4. FactorIsWhole'
  BY DEF FactorInv, FactorHolds, FactorIsWhole
<1>5. TabsUndisturbed'
  <2> SUFFICES ASSUME NEW u \in Tab, TabAlone(u)'
               PROVE  /\ \A v \in Tab : Changing(v)' => v = u
                      /\ tab'[u].at \in {"store", "wipe", "enable"} => ~factor'.enabled
                      /\ tab'[u].at = "enable" => proven'
    BY DEF TabsUndisturbed
  <2>1. u = t
    BY EnterTypes DEF TabAlone, Changing
  <2>2. \A v \in Tab : ~Changing(v)
    BY <2>1, EnterTypes DEF TabAlone
  <2>3. \A v \in Tab : Changing(v)' => v = u
    BY <2>1, <2>2, EnterTypes DEF Changing
  <2>4. QED
    BY <2>1, <2>3, EnterTypes
<1>6. QED
  BY <1>1, <1>2, <1>3, <1>4, <1>5 DEF FactorInv, FactorHolds

\* The request of t goes on or ends, and nobody enters.
TabGoes(t) ==
    /\ tab' = [tab EXCEPT ![t] = tab'[t]] /\ tab'[t] \in TabRows
    /\ tab'[t].at \in {"mark", "consume"} => tab'[t].code \in Code
    /\ Changing(t)' => Changing(t) /\ tab'[t].alone = tab[t].alone

LEMMA TabDoneGoes == ASSUME FactorInv, NEW t \in Tab, TabDone(t)
                  PROVE  TabGoes(t) /\ ~Changing(t)' /\ tab'[t].at = "idle"
<1>1. tab' = [tab EXCEPT ![t] = Quiet] /\ tab'[t] = Quiet
  BY TabTypes DEF FactorInv, TabDone
<1>2. QED
  <2>1. Quiet.at = "idle"
    BY DEF Quiet
  <2>2. QED
    BY <1>1, <2>1, QuietIsATab DEF TabGoes, Changing

LEMMA TabGoesTypes ==
    ASSUME FactorInv, NEW t \in Tab, TabGoes(t)
    PROVE  /\ (tab \in [Tab -> TabRows])' /\ CodesAreKnown'
           /\ \A u \in Tab \ {t} : tab'[u] = tab[u]
           /\ \A u \in Tab : TabAlone(u)' => TabAlone(u)
           /\ \A u, v \in Tab : TabAlone(u)' /\ Changing(v)' => v = u
<1>1. tab \in [Tab -> TabRows]
  BY TabTypes DEF FactorInv
<1>2. (tab \in [Tab -> TabRows])' /\ \A u \in Tab \ {t} : tab'[u] = tab[u]
  BY <1>1 DEF TabGoes
<1>3. CodesAreKnown'
  BY <1>2 DEF TabGoes, FactorInv, CodesAreKnown
<1>4. ASSUME NEW u \in Tab
      PROVE  (Changing(u)' => Changing(u)) /\ (TabAlone(u)' => TabAlone(u))
  BY <1>2 DEF TabGoes, TabAlone, Changing
<1>5. \A u, v \in Tab : TabAlone(u)' /\ Changing(v)' => v = u
  BY <1>4 DEF FactorInv, TabsUndisturbed
<1>6. QED
  BY <1>2, <1>3, <1>4, <1>5

LEMMA TabGoesUndisturbed ==
    ASSUME FactorInv, NEW t \in Tab, TabGoes(t),
           Changing(t) \/ UNCHANGED <<factor, proven>>,
           tab'[t].at \notin {"store", "enable"},
           tab'[t].at = "wipe" => ~factor'.enabled
    PROVE  TabsUndisturbed'
<1> SUFFICES ASSUME NEW u \in Tab, TabAlone(u)'
             PROVE  /\ \A v \in Tab : Changing(v)' => v = u
                    /\ tab'[u].at \in {"store", "wipe", "enable"} => ~factor'.enabled
                    /\ tab'[u].at = "enable" => proven'
  BY DEF TabsUndisturbed
<1>1. \A v \in Tab : Changing(v)' => v = u
  BY TabGoesTypes
<1>2. CASE u # t
  <2>1. tab'[u] = tab[u] /\ TabAlone(u) /\ (Changing(t) => t = u)
    BY <1>2, TabGoesTypes DEF FactorInv, TabsUndisturbed
  <2>2. QED
    BY <1>1, <1>2, <2>1 DEF FactorInv, TabsUndisturbed
<1>3. QED
  BY <1>1, <1>2

(***************************************************************************)
(* Each action.                                                            *)
(***************************************************************************)

LEMMA SetupKeepsInv ==
    ASSUME FactorInv, NEW t \in Tab, NEW s \in Secret, Setup(t, s)
    PROVE  FactorInv'
<1> DEFINE j == [Quiet EXCEPT !.at = "store", !.secret = s]
<1>1. j \in TabRows /\ j.at = "store"
  BY DEF Quiet, TabRows, TabAt
<1>2. Enter(t, j) /\ ~factor.enabled
  BY DEF Setup
<1>3. UNCHANGED <<factor, recovery, challenged, known, proven, shown, opened, tangled>>
  BY DEF Setup, stored, told
<1> HIDE DEF j
<1>4. proven' \in BOOLEAN
  BY <1>3 DEF FactorInv, FactorTypeOK
<1>5. QED
  BY <1>1, <1>2, <1>3, <1>4, EnterKeepsInv

LEMMA ConfirmKeepsInv ==
    ASSUME FactorInv, NEW t \in Tab, Confirm(t)
    PROVE  FactorInv'
<1> DEFINE j == [Quiet EXCEPT !.at = "enable"]
<1>1. j \in TabRows /\ j.at = "enable"
  BY DEF Quiet, TabRows, TabAt
<1>2. Enter(t, j) /\ ~factor.enabled /\ proven' = TRUE
  BY DEF Confirm
<1>3. UNCHANGED <<factor, recovery, challenged, known, shown, opened, tangled>>
  BY DEF Confirm, stored
<1> HIDE DEF j
<1>4. QED
  BY <1>1, <1>2, <1>3, EnterKeepsInv

LEMMA DisableKeepsInv ==
    ASSUME FactorInv, NEW t \in Tab,
           DisableByTotp(t) \/ \E k \in Code : DisableByCode(t, k)
    PROVE  FactorInv'
<1>1. PICK j \in TabRows : /\ Enter(t, j) /\ j.at \in {"drop", "mark"}
                           /\ j.at = "mark" => j.code \in Code
  <2>1. CASE DisableByTotp(t)
    <3>1. [Quiet EXCEPT !.at = "drop"] \in TabRows /\ [Quiet EXCEPT !.at = "drop"].at = "drop"
      BY DEF Quiet, TabRows, TabAt
    <3>2. QED
      BY <2>1, <3>1 DEF DisableByTotp
  <2>2. ASSUME NEW k \in Code, DisableByCode(t, k)
        PROVE  \E j \in TabRows : /\ Enter(t, j) /\ j.at \in {"drop", "mark"}
                                  /\ j.at = "mark" => j.code \in Code
    <3> DEFINE j == [Quiet EXCEPT !.at = "mark", !.code = k]
    <3>1. j \in TabRows /\ j.at = "mark" /\ j.code = k
      BY DEF Quiet, TabRows, TabAt
    <3>2. Enter(t, j)
      BY <2>2 DEF DisableByCode
    <3> HIDE DEF j
    <3>3. QED
      BY <3>1, <3>2
  <2>3. QED
    BY <2>1, <2>2
<1>2. UNCHANGED <<factor, recovery, challenged, known, proven, shown, opened, tangled>>
  BY DEF DisableByTotp, DisableByCode, stored, told
<1>3. proven' \in BOOLEAN
  BY <1>2 DEF FactorInv, FactorTypeOK
<1>4. QED
  BY <1>1, <1>2, <1>3, EnterKeepsInv

LEMMA StoreSecretKeepsInv ==
    ASSUME FactorInv, NEW t \in Tab, StoreSecret(t)
    PROVE  FactorInv'
<1>1. tab[t] \in TabRows /\ tab[t].at = "store" /\ Changing(t)
  BY TabTypes DEF FactorInv, StoreSecret, Changing
<1>2. TabGoes(t) /\ tab'[t].at = "wipe"
  <2> DEFINE r == [tab[t] EXCEPT !.at = "wipe"]
  <2>1. r \in TabRows /\ r.at = "wipe" /\ r.alone = tab[t].alone
    BY <1>1 DEF TabRows, TabAt
  <2>2. tab' = [tab EXCEPT ![t] = r] /\ tab'[t] = r
    BY TabTypes DEF FactorInv, StoreSecret
  <2> HIDE DEF r
  <2>3. QED
    BY <1>1, <2>1, <2>2 DEF TabGoes
<1>3. /\ factor' = [secret |-> tab[t].secret, enabled |-> FALSE] /\ shown' = {}
      /\ known' = FALSE /\ proven' = FALSE /\ tangled' = (tangled \/ ~tab[t].alone)
      /\ UNCHANGED <<recovery, challenged, opened>>
  BY DEF StoreSecret, Tangles
<1>4. FactorTypeOK'
  BY <1>1, <1>2, <1>3, TabGoesTypes DEF FactorInv, FactorTypeOK, TabRows
<1>5. TabsUndisturbed'
  BY <1>1, <1>2, <1>3, TabGoesUndisturbed
<1>6. FreshIsUnopened' /\ ShownIsOn' /\ CodesWorkOnce'
  BY <1>3 DEF FactorInv, FactorHolds, FreshIsUnopened, ShownIsOn, CodesWorkOnce
<1>7. FactorIsWhole'
  <2> SUFFICES ASSUME ~tangled' PROVE \A k \in Code : recovery'[k] = "absent"
    BY <1>3 DEF FactorIsWhole
  <2>1. ~tangled /\ TabAlone(t)
    BY <1>1, <1>3 DEF TabAlone
  <2>2. ~factor.enabled
    BY <1>1, <2>1 DEF FactorInv, TabsUndisturbed
  <2>3. QED
    BY <1>3, <2>1, <2>2 DEF FactorInv, FactorHolds, FactorIsWhole
<1>8. QED
  BY <1>2, <1>4, <1>5, <1>6, <1>7, TabGoesTypes DEF FactorInv, FactorHolds

LEMMA WipeCodesKeepsInv ==
    ASSUME FactorInv, NEW t \in Tab, WipeCodes(t)
    PROVE  FactorInv'
<1>1. tab[t] \in TabRows /\ tab[t].at = "wipe" /\ Changing(t)
  BY TabTypes DEF FactorInv, WipeCodes, Changing
<1>2. TabGoes(t) /\ tab'[t].at = "idle"
  BY TabDoneGoes DEF WipeCodes
<1>3. /\ recovery' = [k \in Code |-> "absent"] /\ tangled' = ~tab[t].alone
      /\ known' = (known \/ factor.secret = tab[t].secret)
      /\ UNCHANGED <<factor, challenged, proven, shown, opened>>
  BY DEF WipeCodes, Untangles
<1>4. FactorTypeOK'
  BY <1>1, <1>2, <1>3, TabGoesTypes DEF FactorInv, FactorTypeOK, TabRows
<1>5. TabsUndisturbed'
  BY <1>1, <1>2, <1>3, TabGoesUndisturbed
<1>6. FreshIsUnopened' /\ ShownIsOn' /\ CodesWorkOnce'
  BY <1>3 DEF FactorInv, FactorHolds, FreshIsUnopened, ShownIsOn, CodesWorkOnce
<1>7. FactorIsWhole'
  <2> SUFFICES ASSUME ~tangled' PROVE ~factor'.enabled
    BY <1>3 DEF FactorIsWhole
  <2>1. TabAlone(t)
    BY <1>1, <1>3 DEF TabAlone
  <2>2. QED
    BY <1>1, <1>3, <2>1 DEF FactorInv, TabsUndisturbed
<1>8. QED
  BY <1>2, <1>4, <1>5, <1>6, <1>7, TabGoesTypes DEF FactorInv, FactorHolds

LEMMA EnableKeepsInv ==
    ASSUME FactorInv, NEW t \in Tab, Enable(t)
    PROVE  FactorInv'
<1>1. tab[t] \in TabRows /\ tab[t].at = "enable" /\ Changing(t)
  BY TabTypes DEF FactorInv, Enable, Changing
<1>2. TabGoes(t) /\ tab'[t].at = "idle"
  BY TabDoneGoes DEF Enable
<1>3. PICK k \in Code : /\ recovery[k] = "absent"
                        /\ recovery' = [recovery EXCEPT ![k] = "fresh"]
                        /\ shown' = shown \cup {k}
                        /\ opened' = [opened EXCEPT ![k] = 0]
  BY DEF Enable
<1>4. /\ factor' = [factor EXCEPT !.enabled = TRUE]
      /\ tangled' = (tangled \/ ~tab[t].alone)
      /\ UNCHANGED <<challenged, known, proven>>
  BY DEF Enable, Tangles
<1>5. factor'.enabled = TRUE
  BY <1>4 DEF FactorInv, FactorTypeOK
<1>6. FactorTypeOK'
  BY <1>1, <1>2, <1>3, <1>4, TabGoesTypes DEF FactorInv, FactorTypeOK, TabRows
<1>7. TabsUndisturbed'
  BY <1>1, <1>2, TabGoesUndisturbed
<1>8. FreshIsUnopened' /\ ShownIsOn' /\ CodesWorkOnce'
  BY <1>3, <1>5 DEF FactorInv, FactorTypeOK, FactorHolds, FreshIsUnopened, ShownIsOn,
                    CodesWorkOnce
<1>9. FactorIsWhole'
  <2> SUFFICES ASSUME ~tangled'
               PROVE  proven' /\ shown' # {} /\ \A c \in shown' : recovery'[c] # "absent"
    BY <1>5 DEF FactorIsWhole
  <2>1. TabAlone(t)
    BY <1>1, <1>4 DEF TabAlone
  <2>2. ~factor.enabled /\ proven
    BY <1>1, <2>1 DEF FactorInv, TabsUndisturbed
  <2>3. shown = {}
    BY <2>2 DEF FactorInv, ShownIsOn
  <2>4. QED
    BY <1>3, <1>4, <2>2, <2>3 DEF FactorInv, FactorTypeOK
<1>10. QED
  BY <1>2, <1>6, <1>7, <1>8, <1>9, TabGoesTypes DEF FactorInv, FactorHolds

LEMMA MarkUsedKeepsInv ==
    ASSUME FactorInv, NEW t \in Tab, MarkUsed(t)
    PROVE  FactorInv'
<1>1. tab[t] \in TabRows /\ tab[t].at = "mark" /\ Changing(t) /\ tab[t].code \in Code
  BY TabTypes DEF FactorInv, CodesAreKnown, MarkUsed, Changing
<1>2. TabGoes(t) /\ tab'[t].at = "drop"
  <2> DEFINE r == [tab[t] EXCEPT !.at = "drop", !.code = None]
  <2>1. r \in TabRows /\ r.at = "drop" /\ r.alone = tab[t].alone
    BY <1>1 DEF TabRows, TabAt
  <2>2. tab' = [tab EXCEPT ![t] = r] /\ tab'[t] = r
    BY TabTypes DEF FactorInv, MarkUsed
  <2> HIDE DEF r
  <2>3. QED
    BY <1>1, <2>1, <2>2 DEF TabGoes
<1>3. PICK k \in Code : k = tab[t].code
  BY <1>1
<1>4. /\ recovery' = [recovery EXCEPT ![k] = IF @ = "absent" THEN @ ELSE "used"]
      /\ UNCHANGED <<factor, challenged, known, proven, shown, opened, tangled>>
  BY <1>3 DEF MarkUsed, told
<1>5. /\ recovery' \in [Code -> {"absent", "fresh", "used"}]
      /\ \A c \in Code : (recovery'[c] = "absent") <=> (recovery[c] = "absent")
      /\ \A c \in Code : recovery'[c] = "fresh" => recovery[c] = "fresh"
  BY <1>4 DEF FactorInv, FactorTypeOK
<1>6. FactorTypeOK'
  BY <1>2, <1>4, <1>5, TabGoesTypes DEF FactorInv, FactorTypeOK, TabRows
<1>7. TabsUndisturbed'
  BY <1>1, <1>2, <1>4, TabGoesUndisturbed
<1>8. FreshIsUnopened' /\ ShownIsOn' /\ CodesWorkOnce'
  BY <1>4, <1>5 DEF FactorInv, FactorHolds, FreshIsUnopened, ShownIsOn, CodesWorkOnce
<1>9. FactorIsWhole'
  BY <1>4, <1>5 DEF FactorInv, FactorTypeOK, FactorHolds, FactorIsWhole
<1>10. QED
  BY <1>2, <1>6, <1>7, <1>8, <1>9, TabGoesTypes DEF FactorInv, FactorHolds

LEMMA DropKeepsInv ==
    ASSUME FactorInv, NEW t \in Tab, Drop(t)
    PROVE  FactorInv'
<1>1. tab[t] \in TabRows /\ tab[t].at = "drop" /\ Changing(t)
  BY TabTypes DEF FactorInv, Drop, Changing
<1>2. TabGoes(t) /\ tab'[t].at = "idle"
  BY TabDoneGoes DEF Drop
<1>3. /\ factor' = [secret |-> None, enabled |-> FALSE] /\ shown' = {}
      /\ recovery' = [k \in Code |-> "absent"] /\ tangled' = ~tab[t].alone
      /\ known' = FALSE /\ proven' = FALSE /\ UNCHANGED <<challenged, opened>>
  BY DEF Drop, Untangles
<1>4. FactorTypeOK'
  BY <1>1, <1>2, <1>3, TabGoesTypes DEF FactorInv, FactorTypeOK, TabRows
<1>5. TabsUndisturbed'
  BY <1>1, <1>2, TabGoesUndisturbed
<1>6. FreshIsUnopened' /\ ShownIsOn' /\ CodesWorkOnce' /\ FactorIsWhole'
  BY <1>3 DEF FactorInv, FactorHolds, FreshIsUnopened, ShownIsOn, CodesWorkOnce,
              FactorIsWhole
<1>7. QED
  BY <1>2, <1>4, <1>5, <1>6, TabGoesTypes DEF FactorInv, FactorHolds

LEMMA ConsumeKeepsInv ==
    ASSUME FactorInv, NEW t \in Tab, Consume(t)
    PROVE  FactorInv'
<1>1. tab[t].at = "consume" /\ tab[t].code \in Code
  BY DEF FactorInv, CodesAreKnown, Consume
<1>2. TabGoes(t) /\ tab'[t].at = "idle"
  BY TabDoneGoes DEF Consume
<1>3. PICK k \in Code : k = tab[t].code
  BY <1>1
<1>4. UNCHANGED <<factor, challenged, known, proven, shown, tangled>>
  BY DEF Consume, told
<1>5. \/ /\ recovery[k] = "fresh" /\ recovery' = [recovery EXCEPT ![k] = "used"]
         /\ opened' = [opened EXCEPT ![k] = @ + 1]
      \/ UNCHANGED <<recovery, opened>>
  BY <1>3 DEF Consume, LetThrough
<1>6. /\ recovery' \in [Code -> {"absent", "fresh", "used"}] /\ opened' \in [Code -> Nat]
      /\ \A c \in Code : (recovery'[c] = "absent") <=> (recovery[c] = "absent")
      /\ \A c \in Code : opened'[c] <= 1
      /\ \A c \in Code : recovery'[c] = "fresh" => opened'[c] = 0
  BY <1>5 DEF FactorInv, FactorTypeOK, FactorHolds, CodesWorkOnce, FreshIsUnopened
<1>7. FactorTypeOK'
  BY <1>2, <1>4, <1>6, TabGoesTypes DEF FactorInv, FactorTypeOK, TabRows
<1>8. TabsUndisturbed'
  BY <1>2, <1>4, TabGoesUndisturbed
<1>9. FreshIsUnopened' /\ ShownIsOn' /\ CodesWorkOnce'
  BY <1>4, <1>6 DEF FactorInv, FactorHolds, FreshIsUnopened, ShownIsOn, CodesWorkOnce
<1>10. FactorIsWhole'
  BY <1>4, <1>6 DEF FactorInv, FactorTypeOK, FactorHolds, FactorIsWhole
<1>11. QED
  BY <1>2, <1>7, <1>8, <1>9, <1>10, TabGoesTypes DEF FactorInv, FactorHolds

\* A step that leaves the stored factor and its history alone.
LEMMA QuietStepsKeepInv ==
    ASSUME FactorInv, NEW t \in Tab, TabGoes(t), ~Changing(t)',
           UNCHANGED <<stored, told, opened, tangled>>, challenged' \in BOOLEAN
    PROVE  FactorInv'
<1>1. UNCHANGED <<factor, recovery, known, proven, shown, opened, tangled>>
  BY DEF stored, told
<1>2. FactorTypeOK'
  BY <1>1, TabGoesTypes DEF FactorInv, FactorTypeOK, TabRows
<1>3. TabsUndisturbed'
  BY <1>1, TabGoesUndisturbed DEF Changing
<1>4. FreshIsUnopened' /\ ShownIsOn' /\ CodesWorkOnce' /\ FactorIsWhole'
  BY <1>1 DEF FactorInv, FactorHolds, FreshIsUnopened, ShownIsOn, CodesWorkOnce, FactorIsWhole
<1>5. QED
  BY <1>2, <1>3, <1>4, TabGoesTypes DEF FactorInv, FactorHolds

LEMMA AnswerKeepsInv ==
    ASSUME FactorInv, NEW t \in Tab, NEW k \in Code, AnswerWithCode(t, k)
    PROVE  FactorInv'
<1> DEFINE r == [Quiet EXCEPT !.at = "consume", !.code = k]
<1>1. r \in TabRows /\ r.at = "consume" /\ r.code = k
  BY DEF Quiet, TabRows, TabAt
<1>2. tab' = [tab EXCEPT ![t] = r] /\ tab'[t] = r
  BY TabTypes DEF FactorInv, AnswerWithCode
<1> HIDE DEF r
<1>3. TabGoes(t) /\ ~Changing(t)'
  BY <1>1, <1>2 DEF TabGoes, Changing
<1>4. challenged' \in BOOLEAN
  BY DEF FactorInv, FactorTypeOK, AnswerWithCode
<1>5. QED
  BY <1>3, <1>4, QuietStepsKeepInv DEF AnswerWithCode

LEMMA TabFailsKeepsInv ==
    ASSUME FactorInv, NEW t \in Tab, TabFails(t)
    PROVE  FactorInv'
<1>1. TabGoes(t) /\ ~Changing(t)'
  BY TabDoneGoes DEF TabFails
<1>2. challenged' \in BOOLEAN
  BY DEF FactorInv, FactorTypeOK, TabFails
<1>3. QED
  BY <1>1, <1>2, QuietStepsKeepInv DEF TabFails

LEMMA ChallengeKeepsInv ==
    ASSUME FactorInv, challenged' \in BOOLEAN,
           UNCHANGED <<factor, recovery, tab, known, proven, shown, opened, tangled>>
    PROVE  FactorInv'
<1>1. FactorTypeOK'
  BY DEF FactorInv, FactorTypeOK
<1>2. CodesAreKnown' /\ TabsUndisturbed'
  BY DEF FactorInv, CodesAreKnown, TabsUndisturbed, TabAlone, Changing
<1>3. FreshIsUnopened' /\ ShownIsOn' /\ CodesWorkOnce' /\ FactorIsWhole'
  BY DEF FactorInv, FactorHolds, FreshIsUnopened, ShownIsOn, CodesWorkOnce, FactorIsWhole
<1>4. QED
  BY <1>1, <1>2, <1>3 DEF FactorInv, FactorHolds

LEMMA StepFactorInv == FactorInv /\ [FactorNext]_factorVars => FactorInv'
<1> SUFFICES ASSUME FactorInv, [FactorNext]_factorVars
             PROVE  FactorInv'
  OBVIOUS
<1>1. ASSUME NEW t \in Tab, NEW s \in Secret, Setup(t, s) PROVE FactorInv'
  BY <1>1, SetupKeepsInv
<1>2. ASSUME NEW t \in Tab, StoreSecret(t) \/ WipeCodes(t) \/ Confirm(t) \/ Enable(t)
      PROVE  FactorInv'
  BY <1>2, StoreSecretKeepsInv, WipeCodesKeepsInv, ConfirmKeepsInv, EnableKeepsInv
<1>3. ASSUME NEW t \in Tab, DisableByTotp(t) \/ \E k \in Code : DisableByCode(t, k)
      PROVE  FactorInv'
  BY <1>3, DisableKeepsInv
<1>4. ASSUME NEW t \in Tab, MarkUsed(t) \/ Drop(t) \/ Consume(t) \/ TabFails(t)
      PROVE  FactorInv'
  BY <1>4, MarkUsedKeepsInv, DropKeepsInv, ConsumeKeepsInv, TabFailsKeepsInv
<1>5. ASSUME NEW t \in Tab, NEW k \in Code, AnswerWithCode(t, k) PROVE FactorInv'
  BY <1>5, AnswerKeepsInv
<1>6. CASE Challenge \/ ChallengeExpires
  BY <1>6, ChallengeKeepsInv DEF Challenge, ChallengeExpires, stored, told
<1>7. CASE UNCHANGED factorVars
  <2>1. challenged' \in BOOLEAN
    BY <1>7 DEF factorVars, FactorInv, FactorTypeOK
  <2>2. QED
    BY <1>7, <2>1, ChallengeKeepsInv DEF factorVars
<1>8. QED
  BY <1>1, <1>2, <1>3, <1>4, <1>5, <1>6, <1>7 DEF FactorNext

\* A recovery code lets one login in, whatever overlaps; and requests that
\* change the second factor one after another leave it whole, wherever each
\* of them broke off.
THEOREM FactorIsSound == FactorSpec => []FactorHolds
<1>1. FactorSpec => []FactorInv
  BY InitFactorInv, StepFactorInv, PTL DEF FactorSpec
<1>2. FactorInv => FactorHolds
  BY DEF FactorInv
<1>3. QED
  BY <1>1, <1>2, PTL

(***************************************************************************)
(* The Jira integration: the tokens of a user stay with the site they are  *)
(* for, whatever Atlassian answers.                                        *)
(***************************************************************************)

IntegrationRows == [site : JiraSite \cup {Absent}, access : Token,
                    refresh : Token \cup {Absent},
                    expiring : BOOLEAN, crossed : BOOLEAN]

CallRows == [at : JiraAt, site : JiraSite \cup {Absent}, client : OAuthClient \cup {Absent},
             token : Token \cup {Absent}, refresh : Token \cup {Absent},
             cloud : JiraSite \cup {Absent}, status : Status \cup {Absent},
             alone : BOOLEAN]

TokenInUse == {"exchange", "save", "cloud", "post"}

\* What a request carries, by where it is.
CallWellFormed(r) ==
    /\ r \in CallRows
    /\ r.at = "consent" => r.site \in JiraSite /\ r.client \in OAuthClient
    /\ r.at \in {"resources", "upsert"} => r.token \in Token /\ r.refresh \in {r.token, Absent}
    /\ r.at = "resources" => r.token.site = r.site
    /\ r.at = "upsert" => r.cloud \in {r.token.site, Absent}
    /\ r.at \in TokenInUse => r.token \in Token
    /\ r.at = "exchange" => r.refresh \in Token
    /\ r.at = "mark" => r.status \in Status

Untouched == integration # Absent /\ ~integration.crossed

\* A request that nobody has crossed has the tokens of the row.
CallFits(r) ==
    Untouched /\ r.at \in TokenInUse /\ r.alone =>
        /\ r.token.site = integration.access.site
        /\ r.at = "exchange" => r.refresh.site = integration.access.site
        /\ r.at = "post" => r.cloud = r.token.site

RowFits ==
    Untouched =>
        /\ integration.site \in {integration.access.site, Absent}
        /\ integration.refresh # Absent =>
              integration.refresh.site = integration.access.site

\* The strengthening of TokensFitTheSite that is inductive.
JiraInv ==
    /\ JiraTypeOK
    /\ RowFits
    /\ \A q \in Call : CallWellFormed(request[q]) /\ CallFits(request[q])

LEMMA JiraTypes ==
    JiraTypeOK <=> /\ oauth \in OAuthClient \cup {Absent}
                   /\ integration = Absent \/ integration \in IntegrationRows
                   /\ link \in Status \cup {"unsynced", Absent}
                   /\ request \in [Call -> CallRows]
BY DEF JiraTypeOK, IntegrationRows, CallRows

LEMMA ConfigIsAClient ==
    ASSUME JiraInv PROVE JiraConfig \in OAuthClient \cup {Absent}
BY JiraAssumption DEF JiraInv, JiraTypeOK, JiraConfig

LEMMA NoRequestIsOne ==
    NoRequest \in CallRows /\ CallWellFormed(NoRequest) /\ CallFits(NoRequest)
<1>1. NoRequest \in CallRows /\ NoRequest.at = "idle"
  BY DEF NoRequest, CallRows, JiraAt
<1>2. QED
  BY <1>1 DEF CallWellFormed, CallFits, TokenInUse

LEMMA InitJiraInv == JiraInit => JiraInv
<1> SUFFICES ASSUME JiraInit PROVE JiraInv
  OBVIOUS
<1>1. request \in [Call -> CallRows]
  BY NoRequestIsOne DEF JiraInit
<1>2. JiraTypeOK
  BY <1>1, JiraTypes DEF JiraInit
<1>3. \A q \in Call : CallWellFormed(request[q]) /\ CallFits(request[q])
  BY NoRequestIsOne DEF JiraInit
<1>4. RowFits
  BY DEF JiraInit, RowFits, Untouched
<1>5. QED
  BY <1>2, <1>3, <1>4 DEF JiraInv

(***************************************************************************)
(* A request goes on, and the row stays.                                   *)
(***************************************************************************)

LEMMA CallStepKeepsInv ==
    ASSUME JiraInv, NEW q \in Call, NEW j, CallWellFormed(j), CallFits(j), Step(q, j),
           UNCHANGED <<oauth, integration>>,
           link' \in Status \cup {"unsynced", Absent}
    PROVE  JiraInv'
<1>1. j \in CallRows /\ request \in [Call -> CallRows]
  BY JiraTypes DEF CallWellFormed, JiraInv
<1>2. /\ request' \in [Call -> CallRows]
      /\ \A p \in Call : request'[p] = IF p = q THEN j ELSE request[p]
  BY <1>1 DEF Step
<1>3. JiraTypeOK'
  BY <1>2, JiraTypes DEF JiraInv, JiraTypeOK, CallRows
<1>4. RowFits'
  BY DEF JiraInv, RowFits, Untouched
<1>5. ASSUME NEW p \in Call PROVE (CallWellFormed(request[p]) /\ CallFits(request[p]))'
  <2>1. CallWellFormed(request'[p]) /\ CallFits(request'[p])
    BY <1>2 DEF JiraInv
  <2>2. QED
    BY <2>1 DEF CallWellFormed, CallFits, Untouched
<1>6. QED
  BY <1>3, <1>4, <1>5 DEF JiraInv

LEMMA CallLeaveKeepsInv ==
    ASSUME JiraInv, NEW q \in Call, Leave(q), UNCHANGED <<oauth, integration>>,
           link' \in Status \cup {"unsynced", Absent}
    PROVE  JiraInv'
BY NoRequestIsOne, CallStepKeepsInv DEF Leave

LEMMA LinkStays ==
    ASSUME JiraInv, UNCHANGED link PROVE link' \in Status \cup {"unsynced", Absent}
BY DEF JiraInv, JiraTypeOK

LEMMA AuthUrlKeepsInv ==
    ASSUME JiraInv, NEW q \in Call, NEW s \in JiraSite, AuthUrl(q, s)
    PROVE  JiraInv'
<1> DEFINE j == [NoRequest EXCEPT !.at = "consent", !.site = s, !.client = JiraConfig]
<1>1. JiraConfig \in OAuthClient
  BY ConfigIsAClient DEF AuthUrl
<1>2. j \in CallRows /\ j.at = "consent" /\ j.site = s /\ j.client = JiraConfig
  BY <1>1 DEF NoRequest, CallRows, JiraAt
<1>3. Step(q, j) /\ UNCHANGED <<oauth, integration, link>>
  BY DEF AuthUrl
<1> HIDE DEF j
<1>4. CallWellFormed(j) /\ CallFits(j)
  BY <1>1, <1>2 DEF CallWellFormed, CallFits, TokenInUse
<1>5. QED
  BY <1>3, <1>4, LinkStays, CallStepKeepsInv

LEMMA ExchangeCodeKeepsInv ==
    ASSUME JiraInv, NEW q \in Call, ExchangeCode(q)
    PROVE  JiraInv'
<1>1. /\ request[q] \in CallRows /\ request[q].at = "consent"
      /\ request[q].site \in JiraSite /\ request[q].client \in OAuthClient
  BY DEF JiraInv, CallWellFormed, ExchangeCode, Waits
<1>2. UNCHANGED <<oauth, integration, link>>
  BY DEF ExchangeCode
<1>3. CASE Leave(q)
  BY <1>2, <1>3, LinkStays, CallLeaveKeepsInv
<1>4. CASE ~Leave(q)
  <2> DEFINE token == [site |-> request[q].site, client |-> JiraConfig]
  <2>1. JiraConfig = request[q].client
    BY <1>4 DEF ExchangeCode
  <2>2. token \in Token /\ token.site = request[q].site
    BY <1>1, <2>1 DEF Token
  <2>3. PICK refresh \in {token, Absent} :
          Step(q, [request[q] EXCEPT !.at = "resources", !.token = token, !.refresh = refresh])
    BY <1>4 DEF ExchangeCode
  <2> HIDE DEF token
  <2> DEFINE j == [request[q] EXCEPT !.at = "resources", !.token = token, !.refresh = refresh]
  <2>4. /\ j \in CallRows /\ j.at = "resources" /\ j.token = token /\ j.refresh = refresh
        /\ j.site = request[q].site
    BY <1>1, <2>2 DEF CallRows, JiraAt
  <2> HIDE DEF j
  <2>5. CallWellFormed(j) /\ CallFits(j)
    BY <2>2, <2>4 DEF CallWellFormed, CallFits, TokenInUse
  <2>6. Step(q, j)
    BY <2>3 DEF j
  <2>7. QED
    BY <1>2, <2>5, <2>6, LinkStays, CallStepKeepsInv
<1>5. QED
  BY <1>3, <1>4

LEMMA ReadResourcesKeepsInv ==
    ASSUME JiraInv, NEW q \in Call, ReadResources(q)
    PROVE  JiraInv'
<1>1. /\ request[q] \in CallRows /\ request[q].token \in Token
      /\ request[q].refresh \in {request[q].token, Absent}
      /\ request[q].token.site = request[q].site
  BY DEF JiraInv, CallWellFormed, ReadResources, Waits
<1>2. PICK cloud \in {request[q].site, Absent} :
        Step(q, [request[q] EXCEPT !.at = "upsert", !.cloud = cloud,
                                   !.site = Absent, !.client = Absent])
  BY DEF ReadResources
<1> DEFINE j == [request[q] EXCEPT !.at = "upsert", !.cloud = cloud,
                                   !.site = Absent, !.client = Absent]
<1>3. /\ j \in CallRows /\ j.at = "upsert" /\ j.cloud = cloud
      /\ j.token = request[q].token /\ j.refresh = request[q].refresh
  BY <1>1 DEF CallRows, JiraAt
<1>4. Step(q, j) /\ UNCHANGED <<oauth, integration, link>>
  BY <1>2 DEF ReadResources
<1> HIDE DEF j
<1>5. CallWellFormed(j) /\ CallFits(j)
  BY <1>1, <1>3 DEF CallWellFormed, CallFits, TokenInUse
<1>6. QED
  BY <1>4, <1>5, LinkStays, CallStepKeepsInv

LEMMA UseJiraKeepsInv ==
    ASSUME JiraInv, NEW q \in Call, UseJira(q)
    PROVE  JiraInv'
<1> DEFINE j == [NoRequest EXCEPT !.at = "read"]
<1>1. j \in CallRows /\ j.at = "read"
  BY DEF NoRequest, CallRows, JiraAt
<1>2. Step(q, j) /\ UNCHANGED <<oauth, integration, link>>
  BY DEF UseJira
<1> HIDE DEF j
<1>3. CallWellFormed(j) /\ CallFits(j)
  BY <1>1 DEF CallWellFormed, CallFits, TokenInUse
<1>4. QED
  BY <1>2, <1>3, LinkStays, CallStepKeepsInv

LEMMA SyncLinkKeepsInv ==
    ASSUME JiraInv, NEW q \in Call, NEW status \in Status, SyncLink(q, status)
    PROVE  JiraInv'
<1> DEFINE j == [NoRequest EXCEPT !.at = "read", !.status = status]
<1>1. j \in CallRows /\ j.at = "read"
  BY DEF NoRequest, CallRows, JiraAt
<1>2. Step(q, j) /\ UNCHANGED <<oauth, integration, link>>
  BY DEF SyncLink
<1> HIDE DEF j
<1>3. CallWellFormed(j) /\ CallFits(j)
  BY <1>1 DEF CallWellFormed, CallFits, TokenInUse
<1>4. QED
  BY <1>2, <1>3, LinkStays, CallStepKeepsInv

LEMMA GetValidTokenKeepsInv ==
    ASSUME JiraInv, NEW q \in Call, GetValidToken(q)
    PROVE  JiraInv'
<1>1. request[q] \in CallRows /\ UNCHANGED <<oauth, integration, link>>
  BY DEF JiraInv, CallWellFormed, GetValidToken
<1>2. CASE integration = Absent
  <2>1. Leave(q)
    BY <1>2 DEF GetValidToken, Leave
  <2>2. QED
    BY <1>1, <2>1, LinkStays, CallLeaveKeepsInv
<1>3. CASE integration # Absent /\ integration.refresh # Absent /\ integration.expiring
  <2> DEFINE j == [request[q] EXCEPT !.at = "exchange", !.token = integration.access,
                                     !.refresh = integration.refresh]
  <2>1. integration.access \in Token /\ integration.refresh \in Token
    BY <1>3, JiraTypes DEF JiraInv, IntegrationRows
  <2>2. /\ j \in CallRows /\ j.at = "exchange" /\ j.token = integration.access
        /\ j.refresh = integration.refresh
    BY <1>1, <2>1 DEF CallRows, JiraAt
  <2>3. Step(q, j)
    BY <1>3 DEF GetValidToken
  <2> HIDE DEF j
  <2>4. CallWellFormed(j)
    BY <2>1, <2>2 DEF CallWellFormed, TokenInUse
  <2>5. CallFits(j)
    BY <1>3, <2>2 DEF JiraInv, RowFits, CallFits
  <2>6. QED
    BY <1>1, <2>3, <2>4, <2>5, LinkStays, CallStepKeepsInv
<1>4. CASE integration # Absent /\ ~(integration.refresh # Absent /\ integration.expiring)
  <2> DEFINE j == [request[q] EXCEPT !.at = "cloud", !.token = integration.access]
  <2>1. integration.access \in Token
    BY <1>4, JiraTypes DEF JiraInv, IntegrationRows
  <2>2. j \in CallRows /\ j.at = "cloud" /\ j.token = integration.access
    BY <1>1, <2>1 DEF CallRows, JiraAt
  <2>3. Step(q, j)
    BY <1>4 DEF GetValidToken
  <2> HIDE DEF j
  <2>4. CallWellFormed(j) /\ CallFits(j)
    BY <2>1, <2>2 DEF CallWellFormed, CallFits, TokenInUse
  <2>5. QED
    BY <1>1, <2>3, <2>4, LinkStays, CallStepKeepsInv
<1>5. QED
  BY <1>2, <1>3, <1>4

LEMMA RefreshTokenKeepsInv ==
    ASSUME JiraInv, NEW q \in Call, RefreshToken(q)
    PROVE  JiraInv'
<1>1. /\ request[q] \in CallRows /\ request[q].at = "exchange"
      /\ request[q].token \in Token /\ request[q].refresh \in Token
      /\ UNCHANGED <<oauth, integration, link>>
  BY DEF JiraInv, CallWellFormed, TokenInUse, RefreshToken, Waits
<1>2. CASE Leave(q)
  BY <1>1, <1>2, LinkStays, CallLeaveKeepsInv
<1>3. CASE Step(q, [request[q] EXCEPT !.at = "save", !.token = request[q].refresh,
                                      !.refresh = Absent])
  <2> DEFINE j == [request[q] EXCEPT !.at = "save", !.token = request[q].refresh,
                                     !.refresh = Absent]
  <2>1. /\ j \in CallRows /\ j.at = "save" /\ j.token = request[q].refresh
        /\ j.alone = request[q].alone
    BY <1>1 DEF CallRows, JiraAt
  <2>2. Step(q, j)
    BY <1>3
  <2> HIDE DEF j
  <2>3. CallWellFormed(j)
    BY <1>1, <2>1 DEF CallWellFormed, TokenInUse
  <2>4. CallFits(j)
    BY <1>1, <2>1 DEF JiraInv, CallFits, TokenInUse
  <2>5. QED
    BY <1>1, <2>2, <2>3, <2>4, LinkStays, CallStepKeepsInv
<1>4. CASE Step(q, [request[q] EXCEPT !.at = "cloud", !.refresh = Absent])
  <2> DEFINE j == [request[q] EXCEPT !.at = "cloud", !.refresh = Absent]
  <2>1. /\ j \in CallRows /\ j.at = "cloud" /\ j.token = request[q].token
        /\ j.alone = request[q].alone
    BY <1>1 DEF CallRows, JiraAt
  <2>2. Step(q, j)
    BY <1>4
  <2> HIDE DEF j
  <2>3. CallWellFormed(j)
    BY <1>1, <2>1 DEF CallWellFormed, TokenInUse
  <2>4. CallFits(j)
    BY <1>1, <2>1 DEF JiraInv, CallFits, TokenInUse
  <2>5. QED
    BY <1>1, <2>2, <2>3, <2>4, LinkStays, CallStepKeepsInv
<1>5. QED
  BY <1>2, <1>3, <1>4 DEF RefreshToken

LEMMA ReadCloudIdKeepsInv ==
    ASSUME JiraInv, NEW q \in Call, ReadCloudId(q)
    PROVE  JiraInv'
<1>1. /\ request[q] \in CallRows /\ request[q].at = "cloud" /\ request[q].token \in Token
      /\ UNCHANGED <<oauth, integration, link>>
  BY DEF JiraInv, CallWellFormed, TokenInUse, ReadCloudId, Waits
<1> DEFINE cloud == IF integration = Absent THEN Absent ELSE integration.site
<1>2. CASE cloud # Absent
  <2> DEFINE j == [request[q] EXCEPT !.at = "post", !.cloud = cloud]
  <2>1. cloud = integration.site /\ integration # Absent /\ cloud \in JiraSite
    BY <1>2, JiraTypes DEF JiraInv, IntegrationRows
  <2>2. Step(q, j)
    BY <1>2 DEF ReadCloudId
  <2> HIDE DEF cloud
  <2>3. /\ j \in CallRows /\ j.at = "post" /\ j.token = request[q].token
        /\ j.cloud = cloud /\ j.alone = request[q].alone
    BY <1>1, <2>1 DEF CallRows, JiraAt
  <2> HIDE DEF j
  <2>4. CallWellFormed(j)
    BY <1>1, <2>1, <2>3 DEF CallWellFormed, TokenInUse
  <2>5. CallFits(j)
    BY <1>1, <1>2, <2>1, <2>3 DEF JiraInv, RowFits, CallFits, TokenInUse
  <2>6. QED
    BY <1>1, <2>2, <2>4, <2>5, LinkStays, CallStepKeepsInv
<1>3. CASE cloud = Absent /\ request[q].status # Absent
  <2>1. Step(q, Marking(q))
    BY <1>3 DEF ReadCloudId
  <2>2. Marking(q) \in CallRows /\ Marking(q).at = "mark" /\ Marking(q).status \in Status
    BY <1>1, <1>3 DEF Marking, NoRequest, CallRows, JiraAt
  <2>3. CallWellFormed(Marking(q)) /\ CallFits(Marking(q))
    BY <2>2 DEF CallWellFormed, CallFits, TokenInUse
  <2>4. QED
    BY <1>1, <2>1, <2>3, LinkStays, CallStepKeepsInv
<1>4. CASE cloud = Absent /\ request[q].status = Absent
  <2>1. Leave(q)
    BY <1>4 DEF ReadCloudId, Leave
  <2>2. QED
    BY <1>1, <2>1, LinkStays, CallLeaveKeepsInv
<1>5. QED
  BY <1>2, <1>3, <1>4

LEMMA PostCommentKeepsInv ==
    ASSUME JiraInv, NEW q \in Call, PostComment(q)
    PROVE  JiraInv'
<1>1. request[q] \in CallRows /\ UNCHANGED <<oauth, integration, link>>
  BY DEF JiraInv, CallWellFormed, PostComment
<1>2. CASE Leave(q)
  BY <1>1, <1>2, LinkStays, CallLeaveKeepsInv
<1>3. CASE request[q].status # Absent /\ Step(q, Marking(q))
  <2>1. Marking(q) \in CallRows /\ Marking(q).at = "mark" /\ Marking(q).status \in Status
    BY <1>1, <1>3 DEF Marking, NoRequest, CallRows, JiraAt
  <2>2. CallWellFormed(Marking(q)) /\ CallFits(Marking(q))
    BY <2>1 DEF CallWellFormed, CallFits, TokenInUse
  <2>3. QED
    BY <1>1, <1>3, <2>2, LinkStays, CallStepKeepsInv
<1>4. QED
  BY <1>2, <1>3 DEF PostComment

LEMMA MarkLinkKeepsInv ==
    ASSUME JiraInv, NEW q \in Call, MarkLink(q)
    PROVE  JiraInv'
<1>1. request[q].status \in Status
  BY DEF JiraInv, CallWellFormed, MarkLink, Waits
<1>2. link' \in Status \cup {"unsynced", Absent}
  BY <1>1 DEF MarkLink
<1>3. QED
  BY <1>2, CallLeaveKeepsInv DEF MarkLink

(***************************************************************************)
(* The row changes.                                                        *)
(***************************************************************************)

\* The request of q, if it is one, ends; the others are told.
LEMMA DisturbedFit ==
    ASSUME JiraInv, NEW q, Disturb(q)
    PROVE  /\ request' \in [Call -> CallRows]
           /\ \A p \in Call : CallWellFormed(request'[p])
           /\ \A p \in Call : request'[p].at \in TokenInUse => ~request'[p].alone
<1>1. ASSUME NEW p \in Call
      PROVE  /\ CallWellFormed(request'[p])
             /\ request'[p].at \in TokenInUse => ~request'[p].alone
  <2>1. request[p] \in CallRows /\ CallWellFormed(request[p])
    BY DEF JiraInv, CallWellFormed
  <2>2. CASE p = q
    <3>1. request'[p] = NoRequest
      BY <2>2 DEF Disturb
    <3>2. QED
      BY <3>1, NoRequestIsOne DEF NoRequest, TokenInUse
  <2>3. CASE p # q /\ request[p].at \in TokenInUse
    <3>1. request'[p] = [request[p] EXCEPT !.alone = FALSE]
      BY <2>3 DEF Disturb, TokenInUse
    <3>2. QED
      BY <2>1, <3>1 DEF CallWellFormed, CallRows
  <2>4. CASE p # q /\ request[p].at \notin TokenInUse
    <3>1. request'[p] = request[p]
      BY <2>4 DEF Disturb, TokenInUse
    <3>2. QED
      BY <2>1, <2>4, <3>1
  <2>5. QED
    BY <2>2, <2>3, <2>4
<1>2. request' \in [Call -> CallRows]
  BY <1>1 DEF Disturb, CallWellFormed
<1>3. QED
  BY <1>1, <1>2

LEMMA RowKeepsInv ==
    ASSUME JiraInv, request' \in [Call -> CallRows],
           \A q \in Call : CallWellFormed(request'[q]) /\ CallFits(request[q])',
           integration' = Absent \/ integration' \in IntegrationRows,
           RowFits', UNCHANGED <<oauth, link>>
    PROVE  JiraInv'
<1>1. JiraTypeOK'
  BY DEF JiraInv, JiraTypeOK, IntegrationRows, CallRows
<1>2. (\A q \in Call : CallWellFormed(request[q]))'
  BY DEF CallWellFormed
<1>3. QED
  BY <1>1, <1>2 DEF JiraInv

LEMMA UpsertKeepsInv ==
    ASSUME JiraInv, NEW q \in Call, Upsert(q)
    PROVE  JiraInv'
<1>1. /\ request[q] \in CallRows /\ request[q].token \in Token
      /\ request[q].refresh \in {request[q].token, Absent}
      /\ request[q].cloud \in {request[q].token.site, Absent}
  BY DEF JiraInv, CallWellFormed, Upsert, Waits
<1>2. integration' = [site |-> request[q].cloud, access |-> request[q].token,
                      refresh |-> request[q].refresh, expiring |-> FALSE, crossed |-> FALSE]
  BY DEF Upsert, Connected
<1>3. integration' \in IntegrationRows
  BY <1>1, <1>2 DEF IntegrationRows, CallRows
<1>4. RowFits'
  BY <1>1, <1>2 DEF RowFits
<1>5. \A p \in Call : CallWellFormed(request'[p]) /\ CallFits(request[p])'
  BY DisturbedFit DEF Upsert, CallFits
<1>6. QED
  BY <1>3, <1>4, <1>5, DisturbedFit, RowKeepsInv DEF Upsert

LEMMA DisconnectKeepsInv ==
    ASSUME JiraInv, Disconnect
    PROVE  JiraInv'
<1>1. \A p \in Call : CallWellFormed(request'[p]) /\ CallFits(request[p])'
  BY DisturbedFit DEF Disconnect, CallFits
<1>2. RowFits'
  BY DEF Disconnect, RowFits, Untouched
<1>3. QED
  BY <1>1, <1>2, DisturbedFit, RowKeepsInv DEF Disconnect

LEMMA TokenAgesKeepsInv ==
    ASSUME JiraInv, TokenAges
    PROVE  JiraInv'
<1>1. integration \in IntegrationRows
  BY JiraTypes DEF JiraInv, TokenAges
<1>2. /\ integration' \in IntegrationRows
      /\ integration'.site = integration.site /\ integration'.access = integration.access
      /\ integration'.refresh = integration.refresh
      /\ integration'.crossed = integration.crossed
  BY <1>1 DEF TokenAges, IntegrationRows
<1>3. integration # Absent /\ request' = request
  BY DEF TokenAges
<1>4. RowFits'
  BY <1>2, <1>3 DEF JiraInv, RowFits, Untouched
<1>5. \A p \in Call : CallWellFormed(request'[p]) /\ CallFits(request[p])'
  BY <1>2, <1>3 DEF JiraInv, CallFits, Untouched
<1>6. request' \in [Call -> CallRows]
  BY <1>3, JiraTypes DEF JiraInv
<1>7. QED
  BY <1>2, <1>4, <1>5, <1>6, RowKeepsInv DEF TokenAges

LEMMA SaveTokenKeepsInv ==
    ASSUME JiraInv, NEW q \in Call, SaveToken(q)
    PROVE  JiraInv'
<1>1. /\ request[q] \in CallRows /\ request[q].at = "save" /\ request[q].token \in Token
  BY DEF JiraInv, CallWellFormed, TokenInUse, SaveToken, Waits
<1> DEFINE j == [request[q] EXCEPT !.at = "cloud"]
<1>2. /\ j \in CallRows /\ j.at = "cloud" /\ j.token = request[q].token
      /\ j.alone = request[q].alone
  BY <1>1 DEF CallRows, JiraAt
<1>3. Step(q, j)
  BY DEF SaveToken
<1> HIDE DEF j
<1>4. CallWellFormed(j)
  BY <1>1, <1>2 DEF CallWellFormed, TokenInUse
<1>5. CASE integration = Absent
  <2>1. integration' = integration
    BY <1>5 DEF SaveToken
  <2>2. CallFits(j)
    BY <1>5 DEF CallFits, Untouched
  <2>3. QED
    BY <1>3, <1>4, <2>1, <2>2, LinkStays, CallStepKeepsInv DEF SaveToken
<1>6. CASE integration # Absent
  <2>1. integration \in IntegrationRows
    BY <1>6, JiraTypes DEF JiraInv
  <2>2. integration' = [integration EXCEPT
                          !.access = request[q].token, !.expiring = FALSE,
                          !.crossed = @ \/ ~request[q].alone]
    BY <1>6 DEF SaveToken
  <2>3. /\ integration' \in IntegrationRows
        /\ integration'.site = integration.site
        /\ integration'.refresh = integration.refresh
        /\ integration'.access = request[q].token
        /\ integration'.crossed = (integration.crossed \/ ~request[q].alone)
    BY <1>1, <2>1, <2>2 DEF IntegrationRows, CallRows
  <2>4. Untouched' => /\ Untouched /\ request[q].alone
                      /\ integration'.access.site = integration.access.site
    BY <1>1, <1>6, <2>3 DEF JiraInv, Untouched, CallFits, TokenInUse
  <2>5. RowFits'
    BY <2>3, <2>4 DEF JiraInv, RowFits
  <2>6. \A p \in Call : request'[p] = IF p = q THEN j ELSE request[p]
    BY <1>3, JiraTypes DEF JiraInv, Step
  <2>7. request' \in [Call -> CallRows]
    BY <1>2, <1>3, JiraTypes DEF JiraInv, Step
  <2>8. ASSUME NEW p \in Call PROVE CallWellFormed(request'[p]) /\ CallFits(request[p])'
    <3>1. CASE p = q
      <4>1. request'[p] = j
        BY <2>6, <3>1
      <4>2. QED
        BY <1>2, <1>4, <2>3, <4>1 DEF CallFits
    <3>2. CASE p # q
      <4>1. request'[p] = request[p]
        BY <2>6, <3>2
      <4>2. QED
        BY <2>4, <4>1 DEF JiraInv, CallFits
    <3>3. QED
      BY <3>1, <3>2
  <2>9. QED
    BY <2>3, <2>5, <2>7, <2>8, RowKeepsInv DEF SaveToken
<1>7. QED
  BY <1>5, <1>6

(***************************************************************************)
(* The other tables.                                                       *)
(***************************************************************************)

LEMMA TablesKeepInv ==
    ASSUME JiraInv, UNCHANGED <<integration, request>>,
           oauth' \in OAuthClient \cup {Absent},
           link' \in Status \cup {"unsynced", Absent}
    PROVE  JiraInv'
<1>1. JiraTypeOK'
  BY DEF JiraInv, JiraTypeOK
<1>2. RowFits' /\ \A q \in Call : (CallWellFormed(request[q]) /\ CallFits(request[q]))'
  BY DEF JiraInv, RowFits, Untouched, CallWellFormed, CallFits
<1>3. QED
  BY <1>1, <1>2 DEF JiraInv

LEMMA StepJiraInv == JiraInv /\ [JiraNext]_jiraVars => JiraInv'
<1> SUFFICES ASSUME JiraInv, [JiraNext]_jiraVars
             PROVE  JiraInv'
  OBVIOUS
<1>1. oauth \in OAuthClient \cup {Absent} /\ link \in Status \cup {"unsynced", Absent}
  BY DEF JiraInv, JiraTypeOK
<1>2. CASE \/ \E a \in OAuthClient : PutOAuthConfig(a)
           \/ DeleteOAuthConfig \/ CreateLink \/ DeleteLink
  BY <1>1, <1>2, TablesKeepInv
  DEF PutOAuthConfig, DeleteOAuthConfig, CreateLink, DeleteLink
<1>3. ASSUME NEW q \in Call,
             \/ \E s \in JiraSite : AuthUrl(q, s)
             \/ ExchangeCode(q) \/ ReadResources(q) \/ Upsert(q)
      PROVE  JiraInv'
  BY <1>3, AuthUrlKeepsInv, ExchangeCodeKeepsInv, ReadResourcesKeepsInv, UpsertKeepsInv
<1>4. ASSUME NEW q \in Call,
             \/ UseJira(q) \/ \E status \in Status : SyncLink(q, status)
             \/ GetValidToken(q) \/ RefreshToken(q) \/ SaveToken(q)
             \/ ReadCloudId(q) \/ PostComment(q) \/ MarkLink(q)
      PROVE  JiraInv'
  BY <1>4, UseJiraKeepsInv, SyncLinkKeepsInv, GetValidTokenKeepsInv, RefreshTokenKeepsInv,
     SaveTokenKeepsInv,
     ReadCloudIdKeepsInv, PostCommentKeepsInv, MarkLinkKeepsInv
<1>5. CASE Disconnect \/ TokenAges
  BY <1>5, DisconnectKeepsInv, TokenAgesKeepsInv
<1>6. CASE UNCHANGED jiraVars
  BY <1>1, <1>6, TablesKeepInv DEF jiraVars
<1>7. QED
  BY <1>2, <1>3, <1>4, <1>5, <1>6 DEF JiraNext

LEMMA JiraInvSuffices == JiraInv => TokensFitTheSite
BY DEF JiraInv, RowFits, Untouched, CallFits, TokenInUse, Waits, TokensFitTheSite

\* A refresh, with the second read after it, never brings a site together
\* with a token of another, unless the user reconnects in between.
THEOREM TokensStayWithTheirSite == JiraSpec => []TokensFitTheSite
<1>1. JiraSpec => []JiraInv
  BY InitJiraInv, StepJiraInv, PTL DEF JiraSpec
<1>2. QED
  BY <1>1, JiraInvSuffices, PTL

(***************************************************************************)
(* The environments: a run resolves its variables with one of them.        *)
(***************************************************************************)

\* A request that nobody has met since it cleared its user's environments.
ClearedFor(p, u) == page[p].at = "set" /\ page[p].alone /\ page[p].by = u

\* There is one such request of a user at most, and until it sets one nothing
\* of the user is active.
ClearedStays ==
    \A p \in Page, u \in Member :
        ClearedFor(p, u) =>
            /\ \A q \in Page : ClearedFor(q, u) => q = p
            /\ u \notin muddled => ActiveOf(u) = {}

OneIsActive == \A u \in Member \ muddled : \A e, f \in ActiveOf(u) : e = f

SecretsAreStored ==
    \A e \in Env \ sentBack : Exists(e) => environment[e].value = "plain"

CreatedPlain ==
    \A p \in Page : page[p].at = "set" =>
        /\ page[p].by \in Member /\ page[p].env \in Env /\ page[p].kind \in Kind
        /\ page[p].kind = "create" => page[p].value = "plain"

\* The strengthening of RunsKnowTheirEnvironment that is inductive.
EnvironmentsInv ==
    /\ EnvironmentsTypeOK
    /\ ClearedStays /\ OneIsActive /\ SecretsAreStored /\ CreatedPlain

LEMMA InitEnvironmentsInv == EnvironmentsInit => EnvironmentsInv
<1> SUFFICES ASSUME EnvironmentsInit PROVE EnvironmentsInv
  OBVIOUS
<1>1. NoPage \in PageRow /\ NoPage.at = "idle"
  BY DEF NoPage, PageRow, Stored
<1>2. EnvironmentsTypeOK
  BY <1>1 DEF EnvironmentsInit, EnvironmentsTypeOK
<1>3. \A e \in Env : ~Exists(e)
  BY DEF EnvironmentsInit, Exists
<1>4. \A p \in Page : page[p].at = "idle"
  BY <1>1 DEF EnvironmentsInit
<1>5. ClearedStays /\ OneIsActive /\ SecretsAreStored /\ CreatedPlain
  BY <1>3, <1>4 DEF ClearedStays, ClearedFor, OneIsActive, ActiveOf, OwnedBy,
                    SecretsAreStored, CreatedPlain
<1>6. QED
  BY <1>2, <1>5 DEF EnvironmentsInv

\* What SentBack remembers keeps the other rows honest.
LEMMA SentBackIsHonest ==
    ASSUME NEW e \in Env, NEW value \in Stored, EnvironmentsInv
    PROVE  /\ SentBack(e, value) \subseteq Env
           /\ e \notin SentBack(e, value) => value = "plain"
           /\ \A f \in Env \ {e} : f \in SentBack(e, value) <=> f \in sentBack
BY DEF SentBack, Stored, EnvironmentsInv, EnvironmentsTypeOK

\* One row changes and is active no more than before: a PATCH, a creation, a
\* copy or a deletion.
LEMMA QuietRowKeepsInv ==
    ASSUME EnvironmentsInv, NEW e \in Env, NEW record \in EnvironmentRow \cup {Nil},
           environment' = [environment EXCEPT ![e] = record],
           UNCHANGED <<page, muddled>>, sentBack' \subseteq Env,
           \A f \in Env \ {e} : f \notin sentBack' => f \notin sentBack,
           record # Nil /\ e \notin sentBack' => record.value = "plain",
           record # Nil /\ record.active
             => Exists(e) /\ environment[e].active /\ environment[e].owner = record.owner
    PROVE  EnvironmentsInv'
<1>1. environment \in [Env -> EnvironmentRow \cup {Nil}]
  BY DEF EnvironmentsInv, EnvironmentsTypeOK
<1>2. \A f \in Env \ {e} : environment'[f] = environment[f]
  BY <1>1
<1>3. environment'[e] = record
  BY <1>1
<1>4. \A u \in Member : ActiveOf(u)' \subseteq ActiveOf(u)
  BY <1>2, <1>3 DEF ActiveOf, OwnedBy, Exists
<1>5. EnvironmentsTypeOK'
  BY <1>1 DEF EnvironmentsInv, EnvironmentsTypeOK
<1>6. ClearedStays'
  BY <1>4 DEF EnvironmentsInv, ClearedStays, ClearedFor
<1>7. OneIsActive'
  BY <1>4 DEF EnvironmentsInv, OneIsActive
<1>8. SecretsAreStored'
  BY <1>2, <1>3 DEF EnvironmentsInv, SecretsAreStored, Exists
<1>9. CreatedPlain'
  BY DEF EnvironmentsInv, CreatedPlain
<1>10. QED
  BY <1>5, <1>6, <1>7, <1>8, <1>9 DEF EnvironmentsInv

LEMMA PatchKeepsInv ==
    ASSUME EnvironmentsInv, NEW e \in Env, NEW value \in Stored,
           NEW active \in BOOLEAN, NEW secret \in BOOLEAN,
           PatchEnvironment(e, value, active, secret)
    PROVE  EnvironmentsInv'
<1>1. environment \in [Env -> EnvironmentRow \cup {Nil}] /\ environment[e] # Nil
  BY DEF EnvironmentsInv, EnvironmentsTypeOK, PatchEnvironment, Exists
<1>2. PICK record : record = [owner |-> environment[e].owner, active |-> active,
                        secret |-> secret, value |-> value]
  OBVIOUS
<1>3. environment[e] \in EnvironmentRow
  BY <1>1
<1>4. record \in EnvironmentRow
  BY <1>2, <1>3 DEF EnvironmentRow
<1>5. environment' = [environment EXCEPT ![e] = record]
  <2>1. environment' = [environment EXCEPT ![e] = environment'[e]]
    BY <1>1 DEF PatchEnvironment
  <2>2. environment'[e] = record
    BY <1>1, <1>2, <1>3 DEF PatchEnvironment, EnvironmentRow
  <2>3. QED
    BY <2>1, <2>2
<1>6. active => environment[e].active
  BY DEF PatchEnvironment
<1>7. UNCHANGED <<page, muddled>> /\ sentBack' = SentBack(e, value)
  BY DEF PatchEnvironment
<1>8. Exists(e)
  BY DEF PatchEnvironment
<1>9. QED
  BY <1>2, <1>4, <1>5, <1>6, <1>7, <1>8, SentBackIsHonest, QuietRowKeepsInv

LEMMA CreateKeepsInv ==
    ASSUME EnvironmentsInv, NEW u \in Member, NEW e \in Env, NEW secret \in BOOLEAN,
           CreateEnvironment(u, e, secret)
    PROVE  EnvironmentsInv'
<1>1. PICK record : record = [owner |-> u, active |-> FALSE, secret |-> secret,
                        value |-> "plain"]
  OBVIOUS
<1>2. record \in EnvironmentRow
  BY <1>1 DEF EnvironmentRow, Stored
<1>3. environment' = [environment EXCEPT ![e] = record]
  BY <1>1 DEF CreateEnvironment
<1>4. UNCHANGED <<page, muddled>> /\ sentBack' = sentBack /\ sentBack \subseteq Env
  BY DEF CreateEnvironment, EnvironmentsInv, EnvironmentsTypeOK
<1>5. QED
  BY <1>1, <1>2, <1>3, <1>4, QuietRowKeepsInv

LEMMA DuplicateKeepsInv ==
    ASSUME EnvironmentsInv, NEW u \in Member, NEW e \in Env, NEW f \in Env,
           DuplicateEnvironment(u, e, f)
    PROVE  EnvironmentsInv'
<1>1. environment[f] \in EnvironmentRow
  BY DEF EnvironmentsInv, EnvironmentsTypeOK, DuplicateEnvironment, Exists
<1>2. PICK record : record = [environment[f] EXCEPT !.owner = u, !.active = FALSE]
  OBVIOUS
<1>3. record \in EnvironmentRow /\ ~record.active /\ record.value = environment[f].value
  BY <1>1, <1>2 DEF EnvironmentRow
<1>4. environment' = [environment EXCEPT ![e] = record]
  BY <1>2 DEF DuplicateEnvironment
<1>5. /\ UNCHANGED <<page, muddled>> /\ sentBack \subseteq Env
      /\ sentBack' = IF f \in sentBack THEN sentBack \cup {e} ELSE sentBack
  BY DEF DuplicateEnvironment, EnvironmentsInv, EnvironmentsTypeOK
<1>6. f \notin sentBack => environment[f].value = "plain"
  BY DEF EnvironmentsInv, SecretsAreStored, DuplicateEnvironment
<1>7. QED
  BY <1>3, <1>4, <1>5, <1>6, QuietRowKeepsInv

LEMMA DeleteKeepsInv ==
    ASSUME EnvironmentsInv, NEW e \in Env, DeleteEnvironment(e)
    PROVE  EnvironmentsInv'
<1>1. /\ environment' = [environment EXCEPT ![e] = Nil] /\ UNCHANGED <<page, muddled>>
      /\ sentBack' = sentBack \ {e} /\ sentBack \subseteq Env
  BY DEF DeleteEnvironment, EnvironmentsInv, EnvironmentsTypeOK
<1>2. QED
  BY <1>1, QuietRowKeepsInv

\* The first statement of an activation clears the user's rows; of those it
\* meets, and of itself if it meets any, nothing is counted on.
LEMMA ClearActiveKeepsInv ==
    ASSUME EnvironmentsInv, NEW p \in Page, NEW u \in Member, NEW e \in Env,
           NEW kind \in Kind, NEW value \in Stored, ClearActive(p, u, e, kind, value)
    PROVE  EnvironmentsInv'
<1>1. /\ environment \in [Env -> EnvironmentRow \cup {Nil}] /\ page \in [Page -> PageRow]
      /\ muddled \subseteq Member
  BY DEF EnvironmentsInv, EnvironmentsTypeOK
<1>2. PICK j : j = [at |-> "set", by |-> u, env |-> e, kind |-> kind, value |-> value,
                    alone |-> ~\E r \in Page : Setting(r, u)]
  OBVIOUS
<1>3. j \in PageRow
  BY <1>2 DEF PageRow
<1>4. \A q \in Page :
         page'[q] = IF q = p THEN j
                    ELSE IF Setting(q, u) THEN [page[q] EXCEPT !.alone = FALSE]
                    ELSE page[q]
  BY <1>2 DEF ClearActive
<1>5. ASSUME NEW q \in Page, q # p
      PROVE  /\ page'[q] \in PageRow
             /\ page'[q].at = page[q].at /\ page'[q].by = page[q].by
             /\ page'[q].env = page[q].env /\ page'[q].kind = page[q].kind
             /\ page'[q].value = page[q].value
             /\ page'[q].alone = (page[q].alone /\ ~Setting(q, u))
  <2>1. page[q] \in PageRow
    BY <1>1
  <2>2. QED
    BY <1>4, <1>5, <2>1 DEF PageRow
<1>6. page' \in [Page -> PageRow]
  <2>1. page' = [q \in Page |-> page'[q]]
    BY DEF ClearActive
  <2>2. QED
    BY <1>3, <1>4, <1>5, <2>1
<1>7. ASSUME NEW f \in Env
      PROVE  /\ environment'[f] \in EnvironmentRow \cup {Nil}
             /\ Exists(f)' <=> Exists(f)
             /\ Exists(f) =>
                  /\ environment'[f].owner = environment[f].owner
                  /\ environment'[f].value = environment[f].value
                  /\ environment'[f].active
                       = (environment[f].active /\ environment[f].owner # u)
  <2>1. environment'[f] = IF f \in OwnedBy(u)
                          THEN [environment[f] EXCEPT !.active = FALSE]
                          ELSE environment[f]
    BY DEF ClearActive, Cleared
  <2>2. CASE ~Exists(f)
    BY <2>1, <2>2 DEF Exists, OwnedBy
  <2>3. CASE Exists(f)
    <3>1. environment[f] \in EnvironmentRow
      BY <1>1, <2>3 DEF Exists
    <3>2. /\ environment'[f] \in EnvironmentRow
          /\ environment'[f].owner = environment[f].owner
          /\ environment'[f].value = environment[f].value
          /\ environment'[f].active
               = (environment[f].active /\ environment[f].owner # u)
      BY <2>1, <2>3, <3>1 DEF EnvironmentRow, OwnedBy
    <3>3. QED
      BY <2>3, <3>2, EnvironmentsAssumption DEF Exists
  <2>4. QED
    BY <2>2, <2>3
<1>8. environment' \in [Env -> EnvironmentRow \cup {Nil}]
  <2>1. environment' = [f \in Env |-> environment'[f]]
    BY DEF ClearActive, Cleared
  <2>2. QED
    BY <1>7, <2>1
<1>9. ActiveOf(u)' = {} /\ \A v \in Member : ActiveOf(v)' \subseteq ActiveOf(v)
  BY <1>7 DEF ActiveOf, OwnedBy
<1>10. /\ muddled' = muddled \ {u} /\ sentBack' = sentBack /\ page[p].at = "idle"
       /\ kind = "create" => value = "plain"
  BY DEF ClearActive
<1>11. EnvironmentsTypeOK'
  BY <1>1, <1>6, <1>8, <1>10 DEF EnvironmentsInv, EnvironmentsTypeOK
<1>12. \A q \in Page \ {p}, v \in Member :
          ClearedFor(q, v)' => ClearedFor(q, v) /\ v # u
  <2> SUFFICES ASSUME NEW q \in Page \ {p}, NEW v \in Member, ClearedFor(q, v)'
               PROVE  ClearedFor(q, v) /\ v # u
    OBVIOUS
  <2>1. page'[q].at = "set" /\ page'[q].alone /\ page'[q].by = v
    BY DEF ClearedFor
  <2>2. page[q].at = "set" /\ page[q].alone /\ page[q].by = v /\ ~Setting(q, u)
    BY <1>5, <2>1
  <2>3. QED
    BY <2>2 DEF ClearedFor, Setting
<1>13. /\ page'[p].at = "set" /\ page'[p].by = u /\ page'[p].env = e
       /\ page'[p].kind = kind /\ page'[p].value = value
       /\ \A v \in Member : ClearedFor(p, v)' => v = u
  <2>1. page'[p] = j
    BY <1>4
  <2>2. j.at = "set" /\ j.by = u /\ j.env = e /\ j.kind = kind /\ j.value = value
    BY <1>2
  <2>3. QED
    BY <2>1, <2>2 DEF ClearedFor
<1>14. ClearedStays'
  <2> SUFFICES ASSUME NEW q \in Page, NEW v \in Member, ClearedFor(q, v)'
               PROVE  /\ \A r \in Page : ClearedFor(r, v)' => r = q
                      /\ v \notin muddled' => ActiveOf(v)' = {}
    BY DEF ClearedStays
  <2>1. CASE q = p
    BY <1>9, <1>12, <1>13, <2>1
  <2>2. CASE q # p
    <3>1. ClearedFor(q, v) /\ v # u
      BY <1>12, <2>2
    <3>2. /\ \A r \in Page : ClearedFor(r, v) => r = q
          /\ v \notin muddled => ActiveOf(v) = {}
      BY <3>1 DEF EnvironmentsInv, ClearedStays
    <3>3. QED
      BY <1>9, <1>10, <1>12, <1>13, <3>1, <3>2
  <2>3. QED
    BY <2>1, <2>2
<1>15. OneIsActive'
  BY <1>9, <1>10 DEF EnvironmentsInv, OneIsActive
<1>16. SecretsAreStored'
  <2> SUFFICES ASSUME NEW f \in Env, f \notin sentBack, Exists(f)'
               PROVE  environment'[f].value = "plain"
    BY <1>10 DEF SecretsAreStored
  <2>1. Exists(f) /\ environment'[f].value = environment[f].value
    BY <1>7
  <2>2. QED
    BY <2>1 DEF EnvironmentsInv, SecretsAreStored
<1>17. CreatedPlain'
  <2> SUFFICES ASSUME NEW q \in Page, page'[q].at = "set"
               PROVE  /\ page'[q].by \in Member /\ page'[q].env \in Env
                      /\ page'[q].kind \in Kind
                      /\ page'[q].kind = "create" => page'[q].value = "plain"
    BY DEF CreatedPlain
  <2>1. CASE q = p
    BY <1>10, <1>13, <2>1
  <2>2. CASE q # p
    BY <1>5, <2>2 DEF EnvironmentsInv, CreatedPlain
  <2>3. QED
    BY <2>1, <2>2
<1>18. QED
  BY <1>11, <1>14, <1>15, <1>16, <1>17 DEF EnvironmentsInv

\* The second statement finds the user's rows as the first left them, or the
\* user is muddled.
LEMMA SetActiveKeepsInv ==
    ASSUME EnvironmentsInv, NEW p \in Page, SetActive(p)
    PROVE  EnvironmentsInv'
<1>1. /\ environment \in [Env -> EnvironmentRow \cup {Nil}] /\ page \in [Page -> PageRow]
      /\ muddled \subseteq Member /\ sentBack \subseteq Env
  BY DEF EnvironmentsInv, EnvironmentsTypeOK
<1>2. PICK j : j = page[p]
  OBVIOUS
<1>3. /\ j \in PageRow /\ j.at = "set" /\ j.by \in Member /\ j.env \in Env /\ j.kind \in Kind
      /\ j.kind = "create" => j.value = "plain"
  BY <1>1, <1>2 DEF SetActive, EnvironmentsInv, CreatedPlain
<1>4. page' = [page EXCEPT ![p] = NoPage]
  BY DEF SetActive
<1>5. NoPage \in PageRow /\ NoPage.at = "idle"
  BY DEF NoPage, PageRow, Stored
<1>6. CreatedPlain'
  BY <1>1, <1>4, <1>5 DEF EnvironmentsInv, CreatedPlain
<1>7. \A q \in Page, v \in Member : ClearedFor(q, v)' => ClearedFor(q, v) /\ q # p
  BY <1>1, <1>4, <1>5 DEF ClearedFor
<1>8. CASE UNCHANGED <<environment, muddled, sentBack>>
  <2>1. \A v \in Member : ActiveOf(v)' = ActiveOf(v)
    BY <1>8 DEF ActiveOf, OwnedBy, Exists
  <2>2. EnvironmentsTypeOK'
    BY <1>1, <1>4, <1>5, <1>8 DEF EnvironmentsTypeOK
  <2>3. ClearedStays' /\ OneIsActive'
    BY <1>7, <1>8, <2>1 DEF EnvironmentsInv, ClearedStays, OneIsActive
  <2>4. SecretsAreStored'
    BY <1>8 DEF EnvironmentsInv, SecretsAreStored, Exists
  <2>5. QED
    BY <1>6, <2>2, <2>3, <2>4 DEF EnvironmentsInv
<1>9. CASE ~UNCHANGED <<environment, muddled, sentBack>>
  <2>1. j.kind = "create" \/ Exists(j.env)
    BY <1>2, <1>9 DEF SetActive
  <2>2. PICK owner : owner = IF j.kind = "create" THEN j.by ELSE environment[j.env].owner
    OBVIOUS
  <2>3. PICK r : /\ environment' = [environment EXCEPT ![j.env] = r]
                 /\ r \in CASE j.kind = "create" ->
                               {[owner |-> j.by, active |-> TRUE, secret |-> s,
                                 value |-> j.value] : s \in BOOLEAN}
                            [] j.kind = "patch" ->
                               {[environment[j.env] EXCEPT !.active = TRUE,
                                                           !.value = j.value]}
                            [] OTHER -> {[environment[j.env] EXCEPT !.active = TRUE]}
    BY <1>2, <2>1 DEF SetActive
  <2>4. /\ muddled' = IF j.alone /\ owner = j.by THEN muddled ELSE muddled \cup {owner}
        /\ sentBack' = IF j.kind = "activate" THEN sentBack ELSE SentBack(j.env, j.value)
    BY <1>2, <2>1, <2>2 DEF SetActive
  <2>5. /\ r \in EnvironmentRow /\ r.owner = owner /\ r.active
        /\ r.value = IF j.kind = "activate" THEN environment[j.env].value ELSE j.value
    <3>1. CASE j.kind = "create"
      <4>1. PICK s \in BOOLEAN : r = [owner |-> j.by, active |-> TRUE, secret |-> s,
                                      value |-> j.value]
        BY <2>3, <3>1
      <4>2. j.value \in Stored
        BY <1>3 DEF PageRow
      <4>3. QED
        BY <1>3, <2>2, <3>1, <4>1, <4>2 DEF EnvironmentRow
    <3>2. CASE j.kind # "create"
      <4>1. environment[j.env] \in EnvironmentRow
        BY <1>1, <1>3, <2>1, <3>2 DEF Exists
      <4>2. CASE j.kind = "patch"
        <5>1. r = [environment[j.env] EXCEPT !.active = TRUE, !.value = j.value]
          BY <2>3, <4>2
        <5>2. QED
          BY <1>3, <2>2, <4>1, <4>2, <5>1 DEF EnvironmentRow, PageRow
      <4>3. CASE j.kind = "activate"
        <5>1. r = [environment[j.env] EXCEPT !.active = TRUE]
          BY <2>3, <4>3
        <5>2. QED
          BY <2>2, <4>1, <4>3, <5>1 DEF EnvironmentRow
      <4>4. QED
        BY <1>3, <3>2, <4>2, <4>3 DEF Kind
    <3>3. QED
      BY <3>1, <3>2
  <2>6. owner \in Member /\ r # Nil
    BY <2>5, EnvironmentsAssumption DEF EnvironmentRow
  <2>7. \A f \in Env : environment'[f] = IF f = j.env THEN r ELSE environment[f]
    BY <1>1, <2>3
  <2>8. \A v \in Member : ActiveOf(v)' \subseteq ActiveOf(v) \cup {j.env}
    BY <2>7 DEF ActiveOf, OwnedBy, Exists
  <2>9. \A v \in Member \ {owner} : ActiveOf(v)' \subseteq ActiveOf(v)
    BY <2>5, <2>7 DEF ActiveOf, OwnedBy, Exists
  <2>10. muddled \subseteq muddled' /\ muddled' \subseteq Member
    BY <1>1, <2>4, <2>6
  <2>11. sentBack' \subseteq Env
    BY <1>1, <1>3, <2>4, SentBackIsHonest DEF PageRow
  <2>12. EnvironmentsTypeOK'
    BY <1>1, <1>3, <1>4, <1>5, <2>3, <2>5, <2>10, <2>11 DEF EnvironmentsTypeOK
  <2>13. owner \notin muddled' => ClearedFor(p, owner) /\ ActiveOf(owner) = {}
    <3> SUFFICES ASSUME owner \notin muddled'
                 PROVE  ClearedFor(p, owner) /\ ActiveOf(owner) = {}
      OBVIOUS
    <3>1. j.alone /\ owner = j.by /\ owner \notin muddled
      BY <2>4
    <3>2. ClearedFor(p, owner)
      BY <1>2, <1>3, <3>1 DEF ClearedFor
    <3>3. QED
      BY <2>6, <3>1, <3>2 DEF EnvironmentsInv, ClearedStays
  <2>14. ClearedStays'
    <3> SUFFICES ASSUME NEW q \in Page, NEW v \in Member, ClearedFor(q, v)'
                 PROVE  /\ \A s \in Page : ClearedFor(s, v)' => s = q
                        /\ v \notin muddled' => ActiveOf(v)' = {}
      BY DEF ClearedStays
    <3>1. ClearedFor(q, v) /\ q # p
      BY <1>7
    <3>2. /\ \A s \in Page : ClearedFor(s, v) => s = q
          /\ v \notin muddled => ActiveOf(v) = {}
      BY <3>1 DEF EnvironmentsInv, ClearedStays
    <3>3. v \notin muddled' => v # owner
      BY <2>13, <3>1, <3>2
    <3>4. QED
      BY <1>7, <2>9, <2>10, <3>2, <3>3
  <2>15. OneIsActive'
    <3> SUFFICES ASSUME NEW v \in Member \ muddled', NEW e \in ActiveOf(v)',
                        NEW f \in ActiveOf(v)'
                 PROVE  e = f
      BY DEF OneIsActive
    <3>1. CASE v = owner
      BY <2>8, <2>13, <3>1
    <3>2. CASE v # owner
      BY <2>9, <2>10, <3>2 DEF EnvironmentsInv, OneIsActive
    <3>3. QED
      BY <3>1, <3>2
  <2>16. SecretsAreStored'
    <3> SUFFICES ASSUME NEW e \in Env, e \notin sentBack', environment'[e] # Nil
                 PROVE  environment'[e].value = "plain"
      BY DEF SecretsAreStored, Exists
    <3>1. CASE e # j.env
      <4>1. e \notin sentBack
        BY <1>3, <2>4, <3>1, SentBackIsHonest DEF PageRow
      <4>2. QED
        BY <2>7, <3>1, <4>1 DEF EnvironmentsInv, SecretsAreStored, Exists
    <3>2. CASE e = j.env /\ j.kind = "activate"
      BY <2>1, <2>4, <2>5, <2>7, <3>2 DEF EnvironmentsInv, SecretsAreStored
    <3>3. CASE e = j.env /\ j.kind # "activate"
      <4>1. j.value = "plain"
        BY <1>3, <2>4, <3>3, SentBackIsHonest DEF PageRow
      <4>2. QED
        BY <2>5, <2>7, <3>3, <4>1
    <3>4. QED
      BY <3>1, <3>2, <3>3
  <2>17. QED
    BY <1>6, <2>12, <2>14, <2>15, <2>16 DEF EnvironmentsInv
<1>10. QED
  BY <1>8, <1>9

LEMMA StepEnvironmentsInv ==
    EnvironmentsInv /\ [EnvironmentsNext]_environmentVars => EnvironmentsInv'
<1> SUFFICES ASSUME EnvironmentsInv, [EnvironmentsNext]_environmentVars
             PROVE  EnvironmentsInv'
  OBVIOUS
<1>1. CASE UNCHANGED environmentVars
  BY <1>1 DEF environmentVars, EnvironmentsInv, EnvironmentsTypeOK, ClearedStays,
              ClearedFor, OneIsActive, ActiveOf, OwnedBy, Exists, SecretsAreStored,
              CreatedPlain
<1>2. ASSUME NEW p \in Page, NEW u \in Member, NEW e \in Env, NEW kind \in Kind,
             NEW value \in Stored, ClearActive(p, u, e, kind, value)
      PROVE  EnvironmentsInv'
  BY <1>2, ClearActiveKeepsInv
<1>3. ASSUME NEW e \in Env,
             \/ \E value \in Stored, active, secret \in BOOLEAN :
                   PatchEnvironment(e, value, active, secret)
             \/ \E u \in Member, secret \in BOOLEAN : CreateEnvironment(u, e, secret)
             \/ \E u \in Member, f \in Env : DuplicateEnvironment(u, e, f)
             \/ DeleteEnvironment(e)
      PROVE  EnvironmentsInv'
  BY <1>3, PatchKeepsInv, CreateKeepsInv, DuplicateKeepsInv, DeleteKeepsInv
<1>4. QED
  BY <1>1, <1>2, <1>3, SetActiveKeepsInv DEF EnvironmentsNext

\* A run of a user resolves its variables with one environment, and with the
\* stored values of its secrets, for any number of users, environments and
\* requests, unless the user is muddled or a mask was sent back.
THEOREM EnvironmentsAreKnown == EnvironmentsSpec => []RunsKnowTheirEnvironment
<1>1. EnvironmentsSpec => []EnvironmentsInv
  BY InitEnvironmentsInv, StepEnvironmentsInv, PTL DEF EnvironmentsSpec
<1>2. EnvironmentsInv => RunsKnowTheirEnvironment
  <2> SUFFICES ASSUME EnvironmentsInv, NEW u \in Member
               PROVE  /\ u \notin muddled => Cardinality(GetActiveEnvironment(u)) = 1
                      /\ \A e \in GetActiveEnvironment(u) \ sentBack :
                            RawVariable(e) \in {"plain", Nil}
    BY DEF RunsKnowTheirEnvironment
  <2>1. ASSUME u \notin muddled PROVE Cardinality(GetActiveEnvironment(u)) = 1
    <3>1. PICK e : GetActiveEnvironment(u) = {e}
      <4>1. CASE ActiveOf(u) = {}
        BY <4>1 DEF GetActiveEnvironment
      <4>2. CASE ActiveOf(u) # {}
        <5>1. PICK e : e \in ActiveOf(u)
          BY <4>2
        <5>2. ActiveOf(u) = {e}
          BY <2>1, <5>1 DEF EnvironmentsInv, OneIsActive
        <5>3. QED
          BY <4>2, <5>2 DEF GetActiveEnvironment
      <4>3. QED
        BY <4>1, <4>2
    <3>2. QED
      BY <3>1, FS_Singleton
  <2>2. ASSUME NEW e \in GetActiveEnvironment(u) \ sentBack
        PROVE  RawVariable(e) \in {"plain", Nil}
    <3>1. e = Nil \/ e \in ActiveOf(u)
      BY DEF GetActiveEnvironment
    <3>2. QED
      BY <3>1 DEF RawVariable, EnvironmentsInv, SecretsAreStored, ActiveOf, OwnedBy
  <2>3. QED
    BY <2>1, <2>2
<1>3. QED
  BY <1>1, <1>2, PTL

(***************************************************************************)
(* The global variables: browsers show what the database holds.            *)
(***************************************************************************)

\* Some request has changed a key and not told of it yet.
Untold(k) == \E e \in Editor : edit[e] # Unset /\ edit[e].key = k

\* An event that no later one has overtaken tells what the database holds.
EventsTell ==
    \A e \in Editor :
        edit[e] # Unset => edit[e].late \/ edit[e].row = Masked(variable[edit[e].key])

\* A list under way is as the database, but for the keys of events that the
\* browser has had meanwhile, or has still to get.
ListsFollowRows ==
    \A s \in Streaming, k \in Key :
        stream[s].list # Unset
            => \/ stream[s].list[k] = Masked(variable[k])
               \/ k \in stream[s].missed \/ Untold(k)

\* The strengthening of StreamsFollowRows that is inductive.
GlobalsInv == GlobalsTypeOK /\ EventsTell /\ ListsFollowRows /\ StreamsFollowRows

LEMMA MaskedIsARow ==
    ASSUME NEW record \in VariableRow \cup {Unset}
    PROVE  Masked(record) \in VariableRow \cup {Unset}
BY DEF Masked, VariableRow

LEMMA InitGlobalsInv == GlobalsInit => GlobalsInv
BY DEF GlobalsInit, GlobalsInv, GlobalsTypeOK, EventsTell, ListsFollowRows,
       StreamsFollowRows, Streaming

\* A statement leaves the browsers as they are, and what it changed untold.
LEMMA WrittenKeepsInv ==
    ASSUME GlobalsInv, NEW e \in Editor, NEW k \in Key, NEW record \in VariableRow \cup {Unset},
           edit[e] = Unset, Written(e, k, record)
    PROVE  GlobalsInv'
<1>1. /\ variable \in [Key -> VariableRow \cup {Unset}]
      /\ edit \in [Editor -> Event \cup {Unset}]
      /\ stream \in [Stream -> StreamRow \cup {Unset}] /\ doubted \subseteq Stream \X Key
  BY DEF GlobalsInv, GlobalsTypeOK
<1>2. /\ variable' = [variable EXCEPT ![k] = record]
      /\ UNCHANGED <<stream, doubted>> /\ Streaming' = Streaming
  BY DEF Written, Streaming
<1>3. PICK sent : sent = [key |-> k, row |-> Masked(record), late |-> FALSE]
  OBVIOUS
<1>4. sent \in Event /\ sent # Unset
  <2>1. Masked(record) \in VariableRow \cup {Unset}
    BY MaskedIsARow
  <2>2. sent \in Event
    BY <1>3, <2>1 DEF Event
  <2>3. QED
    BY <2>2, GlobalsAssumption
<1>5. \A d \in Editor :
         edit'[d] = IF d = e THEN sent
                    ELSE IF edit[d] # Unset /\ edit[d].key = k
                    THEN [edit[d] EXCEPT !.late = TRUE] ELSE edit[d]
  BY <1>3 DEF Written
<1>6. ASSUME NEW d \in Editor, d # e, edit[d] # Unset
      PROVE  /\ edit'[d] \in Event /\ edit'[d] # Unset
             /\ edit'[d].key = edit[d].key /\ edit'[d].row = edit[d].row
             /\ edit'[d].late = (edit[d].late \/ edit[d].key = k)
  <2>1. edit[d] \in Event
    BY <1>1, <1>6
  <2>2. /\ edit'[d].key = edit[d].key /\ edit'[d].row = edit[d].row
        /\ edit'[d].late = (edit[d].late \/ edit[d].key = k) /\ edit'[d] \in Event
    BY <1>5, <1>6, <2>1 DEF Event
  <2>3. QED
    BY <2>2, GlobalsAssumption
<1>7. \A d \in Editor : d # e /\ edit[d] = Unset => edit'[d] = Unset
  BY <1>5
<1>8. edit'[e] = sent
  BY <1>5
<1>9. edit' \in [Editor -> Event \cup {Unset}]
  <2>1. edit' = [d \in Editor |-> edit'[d]]
    BY DEF Written
  <2>2. \A d \in Editor : edit'[d] \in Event \cup {Unset}
    BY <1>4, <1>6, <1>7, <1>8
  <2>3. QED
    BY <2>1, <2>2
<1>10. \A l \in Key : Untold(l) => Untold(l)'
  BY <1>6 DEF Untold
<1>11. Untold(k)'
  BY <1>3, <1>4, <1>8 DEF Untold
<1>12. \A l \in Key : variable'[l] = variable[l] \/ Untold(l)'
  BY <1>1, <1>2, <1>11
<1>13. GlobalsTypeOK'
  BY <1>1, <1>2, <1>9 DEF GlobalsTypeOK
<1>14. EventsTell'
  <2> SUFFICES ASSUME NEW d \in Editor, edit'[d] # Unset, ~edit'[d].late
               PROVE  edit'[d].row = Masked(variable'[edit'[d].key])
    BY DEF EventsTell, Masked
  <2>1. CASE d = e
    BY <1>1, <1>2, <1>3, <1>8, <2>1
  <2>2. CASE d # e
    <3>1. edit[d] # Unset /\ edit[d].key # k /\ ~edit[d].late /\ edit[d].key \in Key
      BY <1>1, <1>6, <1>7, <2>2 DEF Event
    <3>2. edit[d].row = Masked(variable[edit[d].key])
      BY <3>1 DEF GlobalsInv, EventsTell
    <3>3. QED
      BY <1>1, <1>2, <1>6, <2>2, <3>1, <3>2
  <2>3. QED
    BY <2>1, <2>2
<1>15. ListsFollowRows'
  BY <1>2, <1>10, <1>12 DEF GlobalsInv, ListsFollowRows, Masked
<1>16. StreamsFollowRows'
  <2> SUFFICES ASSUME NEW s \in Streaming, NEW l \in Key, stream[s].listed,
                      <<s, l>> \notin doubted, ~Untold(l)'
               PROVE  stream[s].shows[l] = Masked(variable[l])'
    BY <1>2 DEF StreamsFollowRows, Untold
  <2>1. ~Untold(l) /\ variable'[l] = variable[l]
    BY <1>10, <1>12
  <2>2. stream[s].shows[l] = Masked(variable[l])
    BY <2>1 DEF GlobalsInv, StreamsFollowRows, Untold
  <2>3. QED
    BY <2>1, <2>2 DEF Masked
<1>17. QED
  BY <1>13, <1>14, <1>15, <1>16 DEF GlobalsInv

\* What the browsers are told is true, or they are doubted; whatever else was
\* untold still is.
LEMMA BroadcastKeepsInv ==
    ASSUME GlobalsInv, NEW e \in Editor, Broadcast(e)
    PROVE  GlobalsInv'
<1>1. /\ variable \in [Key -> VariableRow \cup {Unset}]
      /\ edit \in [Editor -> Event \cup {Unset}]
      /\ stream \in [Stream -> StreamRow \cup {Unset}] /\ doubted \subseteq Stream \X Key
  BY DEF GlobalsInv, GlobalsTypeOK
<1>2. edit[e] \in Event
  BY <1>1 DEF Broadcast
<1>3. PICK k, record : k = edit[e].key /\ record = edit[e].row
  OBVIOUS
<1>4. k \in Key /\ record \in VariableRow \cup {Unset} /\ edit[e].late \in BOOLEAN
  BY <1>2, <1>3 DEF Event
<1>5. /\ edit' = [edit EXCEPT ![e] = Unset] /\ UNCHANGED variable
      /\ doubted' = IF edit[e].late THEN doubted \cup (Streaming \X {k})
                    ELSE doubted \ (Streaming \X {k})
  BY <1>3 DEF Broadcast
<1>6. \A s \in Stream :
        stream'[s] = IF s \notin Streaming THEN Unset
                     ELSE [stream[s] EXCEPT !.shows[k] = record,
                             !.missed = IF stream[s].list = Unset THEN @ ELSE @ \cup {k}]
  BY <1>3 DEF Broadcast
<1>7. ASSUME NEW s \in Streaming
      PROVE  /\ stream[s] \in StreamRow /\ stream'[s] \in StreamRow /\ s \in Stream
             /\ stream'[s].shows = [stream[s].shows EXCEPT ![k] = record]
             /\ stream'[s].listed = stream[s].listed /\ stream'[s].list = stream[s].list
             /\ stream'[s].missed = IF stream[s].list = Unset THEN stream[s].missed
                                    ELSE stream[s].missed \cup {k}
  <2>1. stream[s] \in StreamRow /\ s \in Stream
    BY <1>1 DEF Streaming
  <2>2. stream'[s] = [shows |-> [stream[s].shows EXCEPT ![k] = record],
                      listed |-> stream[s].listed, list |-> stream[s].list,
                      missed |-> IF stream[s].list = Unset THEN stream[s].missed
                                 ELSE stream[s].missed \cup {k}]
    BY <1>6, <2>1 DEF StreamRow
  <2>3. [stream[s].shows EXCEPT ![k] = record] \in Listing
    BY <1>4, <2>1 DEF StreamRow, Listing
  <2>4. QED
    BY <1>4, <2>1, <2>2, <2>3 DEF StreamRow
<1>8. Streaming' = Streaming
  <2>1. \A s \in Streaming : stream'[s] # Unset
    BY <1>7, GlobalsAssumption
  <2>2. \A s \in Stream : stream'[s] # Unset => s \in Streaming
    BY <1>6
  <2>3. QED
    BY <2>1, <2>2 DEF Streaming
<1>9. stream' \in [Stream -> StreamRow \cup {Unset}]
  <2>1. \A s \in Stream : stream'[s] \in StreamRow \cup {Unset}
    BY <1>6, <1>7
  <2>2. stream' = [s \in Stream |-> stream'[s]]
    BY DEF Broadcast
  <2>3. QED
    BY <2>1, <2>2
<1>10. \A l \in Key : Untold(l) => Untold(l)' \/ l = k
  BY <1>1, <1>3, <1>5 DEF Untold
<1>11. \A s \in Streaming, l \in Key :
          l # k => /\ stream'[s].shows[l] = stream[s].shows[l]
                   /\ <<s, l>> \in doubted => <<s, l>> \in doubted'
  BY <1>5, <1>7 DEF StreamRow, Listing
<1>12. \A s \in Streaming : stream'[s].shows[k] = record
  BY <1>4, <1>7 DEF StreamRow, Listing
<1>13. GlobalsTypeOK'
  <2>1. doubted' \subseteq Stream \X Key
    BY <1>1, <1>4, <1>5 DEF Streaming
  <2>2. QED
    BY <1>1, <1>5, <1>9, <2>1 DEF GlobalsTypeOK
<1>14. EventsTell'
  BY <1>1, <1>5 DEF GlobalsInv, EventsTell, Masked
<1>15. ListsFollowRows'
  <2> SUFFICES ASSUME NEW s \in Streaming, NEW l \in Key, stream'[s].list # Unset
               PROVE  \/ stream'[s].list[l] = Masked(variable[l])
                      \/ l \in stream'[s].missed \/ Untold(l)'
    BY <1>5, <1>8 DEF ListsFollowRows, Masked
  <2>1. CASE l = k
    BY <1>7, <2>1
  <2>2. CASE l # k
    BY <1>7, <1>10, <2>2 DEF GlobalsInv, ListsFollowRows
  <2>3. QED
    BY <2>1, <2>2
<1>16. StreamsFollowRows'
  <2> SUFFICES ASSUME NEW s \in Streaming, NEW l \in Key, stream'[s].listed,
                      <<s, l>> \notin doubted', ~Untold(l)'
               PROVE  stream'[s].shows[l] = Masked(variable[l])
    BY <1>5, <1>8 DEF StreamsFollowRows, Masked, Untold
  <2>1. CASE l = k
    <3>1. ~edit[e].late
      BY <1>5, <2>1
    <3>2. record = Masked(variable[k])
      BY <1>2, <1>3, <3>1, GlobalsAssumption DEF GlobalsInv, EventsTell
    <3>3. QED
      BY <1>12, <2>1, <3>2
  <2>2. CASE l # k
    BY <1>7, <1>10, <1>11, <2>2 DEF GlobalsInv, StreamsFollowRows, Untold
  <2>3. QED
    BY <2>1, <2>2
<1>17. QED
  BY <1>13, <1>14, <1>15, <1>16 DEF GlobalsInv

\* A browser opens its stream, asks for the list, takes it over or leaves: no
\* row and no event is touched.
LEMMA BrowsingKeepsInv ==
    ASSUME GlobalsInv, NEW s \in Stream,
           OpenStream(s) \/ ListGlobals(s) \/ ShowList(s) \/ CloseStream(s)
    PROVE  GlobalsInv'
<1>1. /\ variable \in [Key -> VariableRow \cup {Unset}]
      /\ edit \in [Editor -> Event \cup {Unset}]
      /\ stream \in [Stream -> StreamRow \cup {Unset}] /\ doubted \subseteq Stream \X Key
  BY DEF GlobalsInv, GlobalsTypeOK
<1>2. UNCHANGED <<variable, edit>>
  BY DEF OpenStream, ListGlobals, ShowList, CloseStream
<1>3. EventsTell'
  BY <1>2 DEF GlobalsInv, EventsTell, Masked
<1>4. \A r \in Stream \ {s} :
         stream'[r] = stream[r] /\ \A k \in Key : <<r, k>> \in doubted' <=> <<r, k>> \in doubted
  BY <1>1 DEF OpenStream, ListGlobals, ShowList, CloseStream
<1>5. ASSUME stream'[s] \in StreamRow \cup {Unset}, doubted' \subseteq Stream \X Key
      PROVE  GlobalsTypeOK'
  BY <1>1, <1>2, <1>5
  DEF GlobalsTypeOK, OpenStream, ListGlobals, ShowList, CloseStream
<1>6. ASSUME s \in Streaming'
             => \A k \in Key :
                  /\ stream'[s].list # Unset
                       => \/ stream'[s].list[k] = Masked(variable[k])
                          \/ k \in stream'[s].missed \/ Untold(k)
                  /\ \/ stream'[s].shows[k] = Masked(variable[k])
                     \/ ~stream'[s].listed \/ <<s, k>> \in doubted' \/ Untold(k)
      PROVE  ListsFollowRows' /\ StreamsFollowRows'
  <2> SUFFICES ASSUME NEW r \in Streaming', NEW k \in Key
               PROVE  /\ stream'[r].list # Unset
                           => \/ stream'[r].list[k] = Masked(variable[k])
                              \/ k \in stream'[r].missed \/ Untold(k)
                      /\ \/ stream'[r].shows[k] = Masked(variable[k])
                         \/ ~stream'[r].listed \/ <<r, k>> \in doubted' \/ Untold(k)
    BY <1>2 DEF ListsFollowRows, StreamsFollowRows, Masked, Untold
  <2>1. CASE r = s
    BY <1>6, <2>1
  <2>2. CASE r # s
    <3>1. r \in Streaming /\ r \in Stream \ {s}
      BY <1>4, <2>2 DEF Streaming
    <3>2. QED
      BY <1>4, <3>1 DEF GlobalsInv, ListsFollowRows, StreamsFollowRows, Untold
  <2>3. QED
    BY <2>1, <2>2
<1>7. CASE OpenStream(s)
  <2>1. PICK record : record = [shows |-> [k \in Key |-> Unset], listed |-> FALSE,
                          list |-> Unset, missed |-> {}]
    OBVIOUS
  <2>2. stream'[s] = record /\ doubted' = doubted
    BY <1>1, <1>7, <2>1 DEF OpenStream
  <2>3. [k \in Key |-> Unset] \in Listing
    BY DEF Listing
  <2>4. record \in StreamRow
    BY <2>1, <2>3 DEF StreamRow
  <2>5. GlobalsTypeOK'
    BY <1>1, <1>5, <2>2, <2>4
  <2>6. ~stream'[s].listed /\ stream'[s].list = Unset
    BY <2>1, <2>2
  <2>7. QED
    BY <1>3, <1>6, <2>5, <2>6 DEF GlobalsInv
<1>8. CASE ListGlobals(s)
  <2>1. PICK list : list = [k \in Key |-> Masked(variable[k])]
    OBVIOUS
  <2>2. list \in Listing
    BY <1>1, <2>1, MaskedIsARow DEF Listing
  <2>3. stream[s] \in StreamRow /\ s \in Streaming
    BY <1>1, <1>8 DEF ListGlobals, Streaming
  <2>4. stream'[s] = [stream[s] EXCEPT !.list = list] /\ doubted' = doubted
    BY <1>1, <1>8, <2>1 DEF ListGlobals
  <2>5. /\ stream'[s].shows = stream[s].shows /\ stream'[s].listed = stream[s].listed
        /\ stream'[s].list = list /\ stream'[s] \in StreamRow
    BY <2>2, <2>3, <2>4 DEF StreamRow
  <2>6. GlobalsTypeOK'
    BY <1>1, <1>5, <2>4, <2>5
  <2>7. QED
    BY <1>3, <1>6, <2>1, <2>3, <2>4, <2>5, <2>6
    DEF GlobalsInv, StreamsFollowRows, Untold
<1>9. CASE ShowList(s)
  <2>1. stream[s] \in StreamRow /\ s \in Streaming /\ stream[s].list # Unset
    BY <1>1, <1>9 DEF ShowList, Streaming
  <2>2. stream[s].list \in Listing /\ stream[s].missed \subseteq Key
    BY <2>1 DEF StreamRow
  <2>3. PICK record : record = [shows |-> stream[s].list, listed |-> TRUE,
                          list |-> Unset, missed |-> {}]
    OBVIOUS
  <2>4. /\ stream'[s] = record
        /\ doubted' = (doubted \ ({s} \X Key)) \cup ({s} \X stream[s].missed)
    BY <1>1, <1>9, <2>3 DEF ShowList
  <2>5. record \in StreamRow
    BY <2>2, <2>3 DEF StreamRow
  <2>6. \A k \in Key : k \in stream[s].missed => <<s, k>> \in doubted'
    BY <2>4
  <2>7. GlobalsTypeOK'
    BY <1>1, <1>5, <2>2, <2>4, <2>5
  <2>8. stream'[s].list = Unset /\ stream'[s].shows = stream[s].list
    BY <2>3, <2>4
  <2>9. QED
    BY <1>3, <1>6, <2>1, <2>6, <2>7, <2>8 DEF GlobalsInv, ListsFollowRows
<1>10. CASE CloseStream(s)
  <2>1. stream'[s] = Unset /\ doubted' \subseteq doubted
    BY <1>1, <1>10 DEF CloseStream
  <2>2. GlobalsTypeOK'
    BY <1>1, <1>5, <2>1
  <2>3. s \notin Streaming'
    BY <2>1 DEF Streaming
  <2>4. QED
    BY <1>3, <1>6, <2>2, <2>3 DEF GlobalsInv
<1>11. QED
  BY <1>7, <1>8, <1>9, <1>10

LEMMA RestartKeepsInv ==
    ASSUME GlobalsInv, RestartServer
    PROVE  GlobalsInv'
BY DEF GlobalsInv, GlobalsTypeOK, EventsTell, ListsFollowRows, StreamsFollowRows,
       Streaming, RestartServer

LEMMA StepGlobalsInv == GlobalsInv /\ [GlobalsNext]_globalsVars => GlobalsInv'
<1> SUFFICES ASSUME GlobalsInv, [GlobalsNext]_globalsVars
             PROVE  GlobalsInv'
  OBVIOUS
<1>1. ASSUME NEW e \in Editor, NEW k \in Key, NEW value \in Value, NEW secret \in BOOLEAN,
             UpsertGlobal(e, k, value, secret) \/ UpdateGlobal(e, k, value, secret)
      PROVE  GlobalsInv'
  <2>1. [value |-> value, secret |-> secret] \in VariableRow
    BY DEF VariableRow
  <2>2. QED
    BY <1>1, <2>1, WrittenKeepsInv DEF UpsertGlobal, UpdateGlobal
<1>2. ASSUME NEW e \in Editor, NEW k \in Key, DeleteGlobal(e, k) PROVE GlobalsInv'
  BY <1>2, WrittenKeepsInv DEF DeleteGlobal
<1>3. ASSUME NEW s \in Stream,
             OpenStream(s) \/ ListGlobals(s) \/ ShowList(s) \/ CloseStream(s)
      PROVE  GlobalsInv'
  BY <1>3, BrowsingKeepsInv
<1>4. CASE UNCHANGED globalsVars
  BY <1>4 DEF globalsVars, GlobalsInv, GlobalsTypeOK, EventsTell, ListsFollowRows,
              StreamsFollowRows, Streaming, Masked, Untold
<1>5. QED
  BY <1>1, <1>2, <1>3, <1>4, BroadcastKeepsInv, RestartKeepsInv DEF GlobalsNext

\* A browser shows what the database holds, with secrets masked, unless a
\* request about the key is in flight or the last it was told came out of
\* order: for any number of variables, requests and browsers.
THEOREM BrowsersFollowRows == GlobalsSpec => []StreamsFollowRows
<1>1. GlobalsSpec => []GlobalsInv
  BY InitGlobalsInv, StepGlobalsInv, PTL DEF GlobalsSpec
<1>2. GlobalsInv => StreamsFollowRows
  BY DEF GlobalsInv
<1>3. QED
  BY <1>1, <1>2, PTL

(***************************************************************************)
(* The dashboard.                                                          *)
(***************************************************************************)

Asked(kind) == {Queries[kind][n] : n \in DOMAIN Queries[kind]}
ToCome(v) == {view[v].left[n] : n \in DOMAIN view[v].left}
Kinds == {"combined", "api", "automation", "activity", "alerts"}

IsView(w) ==
    /\ DOMAIN w = {"kind", "left", "answer", "calm"}
    /\ w.kind \in Kinds \cup {Nothing} /\ w.left \in Seq(Query) /\ w.calm \in BOOLEAN
    /\ DOMAIN w.answer = Query
    /\ w.kind = Nothing => w.left = <<>>

\* What the pass rate is taken from.
IsTally(s) ==
    /\ DOMAIN s = {"total", "passed", "failed", "running"}
    /\ s.total \in Nat /\ s.passed \in Nat /\ s.failed \in Nat /\ s.running \in Nat
    /\ s.passed <= s.total

\* A query that is answered: as the rows are, if nothing stirred them since.
IsAnswered(v, q) ==
    /\ view[v].calm => view[v].answer[q] = Answer(q)
    /\ q \in {"executions", "results"} => IsTally(view[v].answer[q])

ViewStands(v) ==
    /\ IsView(view[v])
    /\ view[v].kind # Nothing =>
          \A q \in Asked(view[v].kind) : q \in ToCome(v) \/ IsAnswered(v, q)

RowsAreTyped ==
    /\ execution \in Seq([test : AutomatedTest, status : {"passed", "failed"}])
    /\ result \in [Case -> {"passed", "failed", "blocked", "retest", "none"}]
    /\ aged \in [week : Nat, month : Nat, results : SUBSET Case] /\ aged.month <= aged.week

\* The strengthening of DashboardAddsUp.
DashboardInv ==
    /\ RowsAreTyped /\ DOMAIN view = Viewer
    /\ \A v \in Viewer : ViewStands(v)

LEMMA KindsAreQueried == DOMAIN Queries = Kinds /\ Nothing \notin Kinds
BY DashboardAssumption DEF Queries, Kinds

LEMMA QueriesAreAsked ==
    /\ \A kind \in Kinds : Queries[kind] \in Seq(Query) /\ Asked(kind) \subseteq Query
    /\ Asked("combined") = {"executions", "results", "byType", "manualByType", "trend",
                            "recent", "recentFailures"}
    /\ Asked("api") = {"api", "apiTrend", "apiRecent", "failures"}
    /\ Asked("automation") = {"ui", "uiTrend", "uiRecent", "flaky"}
<1>1. Asked("combined") = {"executions", "results", "byType", "manualByType", "trend",
                           "recent", "recentFailures"}
  BY DEF Asked, Queries, CombinedQueries
<1>2. Asked("api") = {"api", "apiTrend", "apiRecent", "failures"}
  BY DEF Asked, Queries, ApiQueries
<1>3. Asked("automation") = {"ui", "uiTrend", "uiRecent", "flaky"}
  BY DEF Asked, Queries, AutomationQueries
<1>4. ASSUME NEW kind \in Kinds
      PROVE  Queries[kind] \in Seq(Query) /\ Asked(kind) \subseteq Query
  <2>1. Asked(kind) \subseteq Query
    BY KindsAreQueried DEF Asked, Query
  <2>2. PICK n \in Nat : DOMAIN Queries[kind] = 1..n /\ Len(Queries[kind]) = n
    <3>1. CASE kind = "combined"
      <4>1. DOMAIN Queries[kind] = 1..7 /\ Len(Queries[kind]) = 7
        BY <3>1 DEF Queries, CombinedQueries
      <4>2. QED
        BY <4>1
    <3>2. CASE kind = "api"
      <4>1. DOMAIN Queries[kind] = 1..4 /\ Len(Queries[kind]) = 4
        BY <3>2 DEF Queries, ApiQueries
      <4>2. QED
        BY <4>1
    <3>3. CASE kind = "automation"
      <4>1. DOMAIN Queries[kind] = 1..4 /\ Len(Queries[kind]) = 4
        BY <3>3 DEF Queries, AutomationQueries
      <4>2. QED
        BY <4>1
    <3>4. CASE kind \in {"activity", "alerts"}
      <4>1. DOMAIN Queries[kind] = 1..1 /\ Len(Queries[kind]) = 1
        BY <3>4 DEF Queries, ActivityQueries, AlertQueries
      <4>2. QED
        BY <4>1
    <3>5. QED
      BY <3>1, <3>2, <3>3, <3>4 DEF Kinds
  <2>3. Queries[kind] = [i \in 1..n |-> Queries[kind][i]]
    BY <2>2 DEF Queries, CombinedQueries, ApiQueries, AutomationQueries,
                ActivityQueries, AlertQueries, Kinds
  <2>4. \A i \in 1..n : Queries[kind][i] \in Query
    BY <2>1, <2>2 DEF Asked
  <2>5. QED
    BY <2>1, <2>3, <2>4
<1>5. QED
  BY <1>1, <1>2, <1>3, <1>4

LEMMA NoViewStands ==
    /\ IsView(NoView) /\ NoView.kind = Nothing /\ NoView.left = <<>> /\ NoView.calm
BY DEF IsView, NoView

LEMMA DashboardStart == DashboardInit => DashboardInv
<1> SUFFICES ASSUME DashboardInit PROVE DashboardInv
  OBVIOUS
<1>1. RowsAreTyped /\ DOMAIN view = Viewer
  BY DEF DashboardInit, RowsAreTyped
<1>2. \A v \in Viewer : view[v] = NoView
  BY DEF DashboardInit
<1>3. \A v \in Viewer : ViewStands(v)
  BY <1>2, NoViewStands DEF ViewStands
<1>4. QED
  BY <1>1, <1>3 DEF DashboardInv

LEMMA DoubtedStands ==
    ASSUME NEW w, IsView(w)
    PROVE  /\ IsView(Doubted(w)) /\ Doubted(w).kind = w.kind
           /\ Doubted(w).left = w.left /\ ~Doubted(w).calm
           /\ \A q \in {"executions", "results"} \cap Query :
                 Doubted(w).answer[q] = w.answer[q]
<1>1. PICK a : a = [q \in Query |-> IF q \in {"executions", "results"}
                                    THEN w.answer[q] ELSE Nothing]
  OBVIOUS
<1>2. DOMAIN a = Query /\ \A q \in {"executions", "results"} \cap Query : a[q] = w.answer[q]
  BY <1>1
<1>3. Doubted(w) = [w EXCEPT !.calm = FALSE, !.answer = a]
  BY <1>1 DEF Doubted, IsView
<1>4. QED
  BY <1>2, <1>3 DEF IsView

\* The rows change: what is still looked at does not depend on them.
LEMMA StirredStands ==
    ASSUME DashboardInv, view' = Stirred, RowsAreTyped'
    PROVE  DashboardInv'
<1>1. ASSUME NEW v \in Viewer
      PROVE  ViewStands(v)'
  <2>1. ViewStands(v) /\ IsView(view[v])
    BY DEF DashboardInv, ViewStands
  <2>2. view'[v] = IF view[v].left = <<>> THEN NoView ELSE Doubted(view[v])
    BY DEF Stirred
  <2>3. CASE view[v].left = <<>>
    BY <2>2, <2>3, NoViewStands DEF ViewStands
  <2>4. CASE view[v].left # <<>>
    <3>1. PICK w : w = Doubted(view[v])
      OBVIOUS
    <3>2. /\ IsView(w) /\ w.kind = view[v].kind /\ w.left = view[v].left /\ ~w.calm
          /\ \A q \in {"executions", "results"} \cap Query : w.answer[q] = view[v].answer[q]
      BY <2>1, <3>1, DoubtedStands
    <3>3. view'[v] = w
      BY <2>2, <2>4, <3>1
    <3>4. ToCome(v)' = ToCome(v)
      BY <3>2, <3>3 DEF ToCome
    <3>5. ASSUME view[v].kind # Nothing, NEW q \in Asked(view[v].kind)
          PROVE  q \in ToCome(v)' \/ IsAnswered(v, q)'
      <4>1. view[v].kind \in Kinds /\ q \in Query
        BY <2>1, <3>5, QueriesAreAsked DEF IsView
      <4>2. q \in ToCome(v) \/ IsAnswered(v, q)
        BY <2>1, <3>5 DEF ViewStands
      <4>3. QED
        BY <3>2, <3>3, <3>4, <4>1, <4>2 DEF IsAnswered
    <3>6. QED
      BY <3>2, <3>3, <3>5 DEF ViewStands
  <2>5. QED
    BY <2>3, <2>4
<1>2. DOMAIN view' = Viewer
  BY DEF Stirred
<1>3. QED
  BY <1>1, <1>2 DEF DashboardInv

(***************************************************************************)
(* What the queries answer.                                                *)
(***************************************************************************)

LEMMA RowsAreFinite ==
    ASSUME RowsAreTyped, NEW rows \in SUBSET DOMAIN execution
    PROVE  IsFiniteSet(rows) /\ Cardinality(rows) \in Nat /\ rows \subseteq Nat
<1>1. DOMAIN execution = 1..Len(execution) /\ Len(execution) \in Nat
  BY DEF RowsAreTyped
<1>2. IsFiniteSet(1..Len(execution))
  BY <1>1, FS_Interval
<1>3. IsFiniteSet(rows)
  BY <1>1, <1>2, FS_Subset
<1>4. QED
  BY <1>1, <1>3, FS_CardinalityType

LEMMA CasesAreFinite ==
    ASSUME NEW C \in SUBSET Case
    PROVE  IsFiniteSet(C) /\ Cardinality(C) \in Nat
BY DashboardAssumption, FS_Subset, FS_CardinalityType

LEMMA TallyIsTally ==
    ASSUME RowsAreTyped, NEW rows \in SUBSET DOMAIN execution
    PROVE  IsTally(Tally(rows))
<1>1. PICK passed, failed, running \in SUBSET rows :
         /\ passed = WithStatus(rows, "passed") /\ failed = WithStatus(rows, "failed")
         /\ running = WithStatus(rows, "running")
  BY DEF WithStatus
<1>2. /\ Cardinality(rows) \in Nat /\ Cardinality(passed) \in Nat
      /\ Cardinality(failed) \in Nat /\ Cardinality(running) \in Nat
      /\ IsFiniteSet(rows)
  BY RowsAreFinite
<1>3. Cardinality(passed) <= Cardinality(rows)
  BY <1>2, FS_Subset
<1>4. QED
  BY <1>1, <1>2, <1>3 DEF Tally, IsTally

LEMMA ManualIsTally ==
    ASSUME NEW C \in SUBSET Case
    PROVE  IsTally(ManualTally(C))
<1>1. PICK all, passed, failed, running \in SUBSET Case :
         /\ all = {c \in C : result[c] # "none"}
         /\ passed = {c \in C : result[c] \in {"passed"}}
         /\ failed = {c \in C : result[c] \in {"failed"}}
         /\ running = {c \in C : result[c] \in {"blocked", "retest"}}
  OBVIOUS
<1>2. /\ Cardinality(all) \in Nat /\ Cardinality(passed) \in Nat
      /\ Cardinality(failed) \in Nat /\ Cardinality(running) \in Nat
      /\ IsFiniteSet(all)
  BY CasesAreFinite
<1>3. passed \subseteq all
  BY <1>1
<1>4. Cardinality(passed) <= Cardinality(all)
  BY <1>2, <1>3, FS_Subset
<1>5. QED
  BY <1>1, <1>2, <1>4 DEF ManualTally, Results, IsTally

LEMMA ApiAndUi ==
    ASSUME RowsAreTyped
    PROVE  /\ Api \subseteq DOMAIN execution /\ Ui \subseteq DOMAIN execution
           /\ Api \cap Ui = {}
BY DEF Api, Ui, Typed

LEMMA ZeroIsTally == IsTally(Zero)
BY DEF Zero, IsTally

LEMMA AnswersAreTallies ==
    ASSUME RowsAreTyped, NEW q \in {"executions", "results"}
    PROVE  IsTally(Answer(q)) /\ IsTally(Fallback(q))
<1>1. /\ Answer("executions") = Tally(Api \cup Ui) /\ Answer("results") = ManualTally(Case)
      /\ Fallback("executions") = Zero /\ Fallback("results") = Zero
  BY DEF Answer, Fallback
<1>2. IsTally(Tally(Api \cup Ui))
  BY ApiAndUi, TallyIsTally
<1>3. QED
  BY <1>1, <1>2, ManualIsTally, ZeroIsTally

(***************************************************************************)
(* The requests.                                                           *)
(***************************************************************************)

\* What is answered depends on the rows alone.
LEMMA AnswersStay ==
    ASSUME UNCHANGED dashboardRows, NEW q
    PROVE  Answer(q)' = Answer(q)
BY DEF Answer, Tally, Counts, Results, ManualTally, Joined, Newest, TestsAmong, Flaky,
       LastThree, Streaks, Api, Ui, Typed, WithStatus, OfWeek, OfMonth, dashboardRows

LEMMA OthersStand ==
    ASSUME DashboardInv, UNCHANGED dashboardRows, NEW u \in Viewer,
           view'[u] = view[u]
    PROVE  ViewStands(u)'
<1>1. \A q : IsAnswered(u, q) => IsAnswered(u, q)'
  BY AnswersStay DEF IsAnswered
<1>2. ToCome(u)' = ToCome(u)
  BY DEF ToCome
<1>3. QED
  BY <1>1, <1>2 DEF DashboardInv, ViewStands

LEMMA OpenDashboardKeeps ==
    ASSUME DashboardInv, NEW v \in Viewer, NEW kind \in DOMAIN Queries,
           OpenDashboard(v, kind)
    PROVE  DashboardInv'
<1>1. kind \in Kinds
  BY KindsAreQueried
<1>2. PICK w : w = [NoView EXCEPT !.kind = kind, !.left = Queries[kind]]
  OBVIOUS
<1>3. IsView(w) /\ w.kind = kind /\ w.left = Queries[kind]
  BY <1>1, <1>2, NoViewStands, QueriesAreAsked, KindsAreQueried DEF IsView
<1>4. view' = [view EXCEPT ![v] = w] /\ UNCHANGED dashboardRows
  BY <1>2 DEF OpenDashboard
<1>5. DOMAIN view' = Viewer /\ view'[v] = w /\ \A u \in Viewer \ {v} : view'[u] = view[u]
  BY <1>4 DEF DashboardInv
<1>6. ViewStands(v)'
  <2>1. ToCome(v)' = Asked(kind)
    BY <1>3, <1>5 DEF ToCome, Asked
  <2>2. QED
    BY <1>3, <1>5, <2>1 DEF ViewStands
<1>7. ASSUME NEW u \in Viewer \ {v}
      PROVE  ViewStands(u)'
  BY <1>4, <1>5, OthersStand
<1>8. QED
  BY <1>4, <1>5, <1>6, <1>7 DEF DashboardInv, RowsAreTyped, dashboardRows

\* A view that was told x.
Told(v, q, x) == [view[v] EXCEPT !.left = Tail(@), !.answer[q] = x]

LEMMA TellingKeeps ==
    ASSUME DashboardInv, NEW v \in Viewer, view[v].left # <<>>,
           UNCHANGED dashboardRows, NEW q, q = Head(view[v].left),
           NEW a \in {Answer(q), Fallback(q)}, NEW z, z = Told(v, q, a),
           NEW w, view' = [view EXCEPT ![v] = w],
           (w = z /\ a = Answer(q)) \/ w = Doubted(z)
    PROVE  DashboardInv'
<1>1. /\ ViewStands(v) /\ IsView(view[v]) /\ RowsAreTyped /\ DOMAIN view = Viewer
      /\ view[v].left # <<>> /\ UNCHANGED dashboardRows
  BY DEF DashboardInv, ViewStands
<1>2. /\ q \in Query /\ Tail(view[v].left) \in Seq(Query)
      /\ \A k \in ToCome(v) : \/ k = q
                              \/ k \in {Tail(view[v].left)[n] :
                                          n \in DOMAIN Tail(view[v].left)}
  <2>1. view[v].left \in Seq(Query) /\ view[v].left # <<>>
    BY <1>1 DEF IsView
  <2>2. PICK left : left = view[v].left
    OBVIOUS
  <2>3. left \in Seq(Query) /\ left # <<>> /\ Head(left) = left[1] /\ left[1] \in Query
    BY <2>1, <2>2
  <2>4. /\ Tail(left) \in Seq(Query) /\ Len(Tail(left)) = Len(left) - 1
        /\ Len(left) \in Nat /\ Len(left) # 0
        /\ \A n \in 1..(Len(left) - 1) : Tail(left)[n] = left[n + 1]
    BY <2>3
  <2>5. ASSUME NEW n \in DOMAIN left, n # 1
        PROVE  left[n] \in {Tail(left)[m] : m \in DOMAIN Tail(left)}
    <3>1. n - 1 \in 1..(Len(left) - 1) /\ (n - 1) + 1 = n
      BY <2>3, <2>4, <2>5
    <3>2. n - 1 \in DOMAIN Tail(left) /\ Tail(left)[n - 1] = left[n]
      BY <2>4, <3>1
    <3>3. QED
      BY <3>2
  <2>6. QED
    BY <2>2, <2>3, <2>4, <2>5 DEF ToCome
<1>3. /\ IsView(z) /\ z.kind = view[v].kind /\ z.left = Tail(view[v].left)
      /\ z.calm = view[v].calm /\ z.answer[q] = a
      /\ \A k \in Query \ {q} : z.answer[k] = view[v].answer[k]
      /\ view[v].kind # Nothing
  <2>1. PICK b : b = [view[v].answer EXCEPT ![q] = a]
    OBVIOUS
  <2>2. /\ DOMAIN b = Query /\ b[q] = a
        /\ \A k \in Query \ {q} : b[k] = view[v].answer[k]
    BY <1>1, <1>2, <2>1 DEF IsView
  <2>3. z = [view[v] EXCEPT !.left = Tail(view[v].left), !.answer = b]
    BY <1>1, <2>1 DEF IsView, Told
  <2>4. QED
    BY <1>1, <1>2, <2>2, <2>3 DEF IsView
<1>4. /\ IsView(w) /\ w.kind = view[v].kind /\ w.left = Tail(view[v].left)
      /\ w.calm => w = z /\ a = Answer(q)
      /\ \A k \in {"executions", "results"} \cap Query : w.answer[k] = z.answer[k]
  <2>1. IsView(w) /\ w.kind = z.kind /\ w.left = z.left
    BY <1>3, DoubtedStands
  <2>2. w.calm => w = z /\ a = Answer(q)
    BY <1>3, DoubtedStands
  <2>3. \A k \in {"executions", "results"} \cap Query : w.answer[k] = z.answer[k]
    BY <1>3, DoubtedStands
  <2>4. QED
    BY <1>3, <2>1, <2>2, <2>3
<1>5. /\ DOMAIN view' = Viewer /\ view'[v] = w
      /\ \A u \in Viewer \ {v} : view'[u] = view[u]
  BY <1>1
<1>6. ViewStands(v)'
  <2>1. ASSUME NEW k \in Asked(view[v].kind), k \notin ToCome(v)'
        PROVE  IsAnswered(v, k)'
    <3>1. k \in Query /\ (k = q \/ IsAnswered(v, k))
      <4>1. view[v].kind \in Kinds
        BY <1>1, <1>3 DEF IsView
      <4>2. ToCome(v)' = {Tail(view[v].left)[n] : n \in DOMAIN Tail(view[v].left)}
        <5>1. PICK rest : rest = Tail(view[v].left)
          OBVIOUS
        <5>2. view'[v].left = rest
          BY <1>4, <1>5, <5>1
        <5>3. ToCome(v)' = {rest[n] : n \in DOMAIN rest}
          BY <5>2 DEF ToCome
        <5>4. QED
          BY <5>1, <5>3
      <4>3. k = q \/ k \notin ToCome(v)
        BY <1>2, <2>1, <4>2
      <4>4. QED
        BY <1>1, <1>3, <2>1, <4>1, <4>3, QueriesAreAsked DEF ViewStands
    <3>2. w.calm => w.answer[k] = Answer(k)
      BY <1>3, <1>4, <3>1 DEF IsAnswered
    <3>3. k \in {"executions", "results"} => IsTally(w.answer[k])
      <4>1. ASSUME q \in {"executions", "results"}
            PROVE  IsTally(a)
        <5>1. IsTally(Answer(q)) /\ IsTally(Fallback(q))
          BY <1>1, <4>1, AnswersAreTallies
        <5>2. a = Answer(q) \/ a = Fallback(q)
          OBVIOUS
        <5>3. QED
          BY <5>1, <5>2
      <4>2. QED
        BY <1>3, <1>4, <3>1, <4>1 DEF IsAnswered
    <3>4. Answer(k)' = Answer(k)
      BY <1>1, AnswersStay
    <3>5. QED
      BY <1>5, <3>2, <3>3, <3>4 DEF IsAnswered
  <2>2. QED
    BY <1>4, <1>5, <2>1 DEF ViewStands
<1>7. ASSUME NEW u \in Viewer \ {v}
       PROVE  ViewStands(u)'
  BY <1>1, <1>5, OthersStand
<1>8. QED
  BY <1>1, <1>5, <1>6, <1>7 DEF DashboardInv, RowsAreTyped, dashboardRows

LEMMA SafeQueryKeeps ==
    ASSUME DashboardInv, NEW v \in Viewer, SafeQuery(v)
    PROVE  DashboardInv'
<1>1. view[v].left # <<>> /\ UNCHANGED dashboardRows /\ DOMAIN view = Viewer
  BY DEF DashboardInv, SafeQuery
<1>2. PICK q : q = Head(view[v].left)
  OBVIOUS
<1>3. PICK yes : yes = Told(v, q, Answer(q))
  OBVIOUS
<1>4. PICK no : no = Told(v, q, Fallback(q))
  OBVIOUS
<1>5. \/ view' = [view EXCEPT ![v] = yes]
      \/ view' = [view EXCEPT ![v] = Doubted(yes)]
      \/ view' = [view EXCEPT ![v] = Doubted(no)]
  <2>1. \/ view' = [view EXCEPT ![v] = IF view[v].calm THEN yes ELSE Doubted(yes)]
        \/ view' = [view EXCEPT ![v] = Doubted(no)]
    BY <1>1, <1>2, <1>3, <1>4 DEF SafeQuery, Told
  <2>2. QED
    BY <2>1
<1>6. CASE view' = [view EXCEPT ![v] = yes]
  BY <1>1, <1>2, <1>3, <1>6, TellingKeeps
<1>7. CASE view' = [view EXCEPT ![v] = Doubted(yes)]
  BY <1>1, <1>2, <1>3, <1>7, TellingKeeps
<1>8. CASE view' = [view EXCEPT ![v] = Doubted(no)]
  BY <1>1, <1>2, <1>4, <1>8, TellingKeeps
<1>9. QED
  BY <1>5, <1>6, <1>7, <1>8

LEMMA DashboardStep == DashboardInv /\ [DashboardNext]_dashboardVars => DashboardInv'
<1> SUFFICES ASSUME DashboardInv, [DashboardNext]_dashboardVars PROVE DashboardInv'
  OBVIOUS
<1>1. CASE UNCHANGED dashboardVars
  <2>1. UNCHANGED dashboardRows /\ view' = view
    BY <1>1 DEF dashboardVars, dashboardRows
  <2>2. \A v \in Viewer : ViewStands(v)'
    BY <2>1, OthersStand
  <2>3. QED
    BY <2>1, <2>2 DEF DashboardInv, RowsAreTyped, dashboardRows
<1>2. ASSUME NEW t \in AutomatedTest, NEW status \in {"passed", "failed"},
             InsertExecution(t, status)
      PROVE  DashboardInv'
  <2>1. execution' = Append(execution, [test |-> t, status |-> status])
        /\ result' = result /\ aged' = aged /\ view' = Stirred
    BY <1>2 DEF InsertExecution
  <2>2. [test |-> t, status |-> status] \in [test : AutomatedTest, status : {"passed", "failed"}]
    OBVIOUS
  <2>3. RowsAreTyped'
    BY <2>1, <2>2 DEF DashboardInv, RowsAreTyped
  <2>4. QED
    BY <2>1, <2>3, StirredStands
<1>3. ASSUME NEW c \in Case,
             NEW status \in {"passed", "failed", "blocked", "retest", "none"},
             RecordResult(c, status)
      PROVE  DashboardInv'
  <2>1. result' = [result EXCEPT ![c] = status] /\ execution' = execution /\ view' = Stirred
        /\ aged' \in {aged, [aged EXCEPT !.results = @ \ {c}]}
    BY <1>3 DEF RecordResult
  <2>2. RowsAreTyped'
    BY <2>1 DEF DashboardInv, RowsAreTyped
  <2>3. QED
    BY <2>1, <2>2, StirredStands
<1>a. ASSUME LeaveWeek \/ LeaveMonth
      PROVE  DashboardInv'
  <2>1. /\ execution' = execution /\ result' = result /\ view' = Stirred
        /\ \/ aged' = [aged EXCEPT !.week = @ + 1]
           \/ aged.month < aged.week /\ aged' = [aged EXCEPT !.month = @ + 1]
           \/ \E c \in Case : aged' = [aged EXCEPT !.results = @ \cup {c}]
    BY <1>a DEF LeaveWeek, LeaveMonth
  <2>2. aged \in [week : Nat, month : Nat, results : SUBSET Case] /\ aged.month <= aged.week
    BY DEF DashboardInv, RowsAreTyped
  <2>3. aged' \in [week : Nat, month : Nat, results : SUBSET Case]
    BY <2>1, <2>2
  <2>4. aged'.month <= aged'.week
    BY <2>1, <2>2
  <2>5. RowsAreTyped'
    BY <2>1, <2>3, <2>4 DEF DashboardInv, RowsAreTyped
  <2>6. QED
    BY <2>1, <2>5, StirredStands
<1>4. ASSUME NEW v \in Viewer
      PROVE  /\ \A kind \in DOMAIN Queries : OpenDashboard(v, kind) => DashboardInv'
             /\ SafeQuery(v) => DashboardInv'
  BY OpenDashboardKeeps, SafeQueryKeeps
<1>5. QED
  BY <1>1, <1>2, <1>3, <1>a, <1>4 DEF DashboardNext

(***************************************************************************)
(* What is shown adds up.                                                  *)
(***************************************************************************)

LEMMA RateIsPercentage ==
    ASSUME NEW s, IsTally(s)
    PROVE  PassRate(s) \in 0..100
<1>1. CASE s.total = 0
  BY <1>1 DEF PassRate
<1>2. CASE s.total > 0
  <2>1. PICK total, passed \in Nat : total = s.total /\ passed = s.passed
    BY DEF IsTally
  <2>2. total > 0 /\ passed <= total
    BY <1>2, <2>1 DEF IsTally
  <2>3. PICK rate : rate = (200 * passed + total) \div (2 * total)
    OBVIOUS
  <2>4. /\ rate \in Int /\ (2 * total) * rate <= 200 * passed + total
        /\ 200 * passed + total < (2 * total) * rate + 2 * total
    <3>1. PICK a, b \in Int : a = 200 * passed + total /\ b = 2 * total /\ b > 0
      BY <2>2
    <3>2. a \div b \in Int /\ b * (a \div b) <= a /\ a < b * (a \div b) + b
      BY <3>1
    <3>3. QED
      BY <2>3, <3>1, <3>2
  <2>5. rate <= 100
    <3>1. SUFFICES ASSUME rate >= 101 PROVE FALSE
      BY <2>4
    <3>2. (2 * total) * rate >= (2 * total) * 101
      BY <2>2, <2>4, <3>1
    <3>3. QED
      BY <2>2, <2>4, <3>2
  <2>6. rate >= 0
    <3>1. SUFFICES ASSUME rate <= -1 PROVE FALSE
      BY <2>4
    <3>2. (2 * total) * rate <= (2 * total) * (-1)
      BY <2>2, <2>4, <3>1
    <3>3. QED
      BY <2>2, <2>4, <3>2
  <2>7. PassRate(s) = rate
    BY <1>2, <2>1, <2>3 DEF PassRate
  <2>8. QED
    BY <2>4, <2>5, <2>6, <2>7
<1>3. QED
  BY <1>1, <1>2 DEF IsTally

LEMMA JoinedIsTally ==
    ASSUME NEW s, NEW t, IsTally(s), IsTally(t)
    PROVE  IsTally(Joined(s, t))
<1>1. PICK j : j = Joined(s, t)
  OBVIOUS
<1>2. /\ DOMAIN j = {"total", "passed", "failed", "running"}
      /\ j.total = s.total + t.total /\ j.passed = s.passed + t.passed
      /\ j.failed = s.failed + t.failed /\ j.running = s.running + t.running
  BY <1>1 DEF Joined, IsTally
<1>3. QED
  BY <1>1, <1>2 DEF IsTally

\* Rows of two kinds are counted apart.
LEMMA TalliesAdd ==
    ASSUME RowsAreTyped, NEW S \in SUBSET DOMAIN execution,
           NEW T \in SUBSET DOMAIN execution, S \cap T = {}
    PROVE  /\ Tally(S \cup T).total = Tally(S).total + Tally(T).total
           /\ Tally(S \cup T).passed = Tally(S).passed + Tally(T).passed
           /\ Tally(S \cup T).failed = Tally(S).failed + Tally(T).failed
<1>1. ASSUME NEW A \in SUBSET DOMAIN execution, NEW B \in SUBSET DOMAIN execution,
             A \cap B = {}
      PROVE  Cardinality(A \cup B) = Cardinality(A) + Cardinality(B)
  <2>1. /\ IsFiniteSet(A) /\ IsFiniteSet(B)
        /\ Cardinality(A) \in Nat /\ Cardinality(B) \in Nat
    BY RowsAreFinite
  <2>2. Cardinality(A \cup B) = Cardinality(A) + Cardinality(B) - Cardinality(A \cap B)
    BY <2>1, FS_Union
  <2>3. Cardinality(A \cap B) = 0
    BY <1>1, FS_EmptySet
  <2>4. QED
    BY <2>1, <2>2, <2>3
<1>2. ASSUME NEW status
      PROVE  Cardinality(WithStatus(S \cup T, status))
                 = Cardinality(WithStatus(S, status)) + Cardinality(WithStatus(T, status))
  <2>1. PICK A \in SUBSET S, B \in SUBSET T :
           A = WithStatus(S, status) /\ B = WithStatus(T, status)
    BY DEF WithStatus
  <2>2. WithStatus(S \cup T, status) = A \cup B
    BY <2>1 DEF WithStatus
  <2>3. Cardinality(A \cup B) = Cardinality(A) + Cardinality(B)
    BY <1>1
  <2>4. QED
    BY <2>1, <2>2, <2>3
<1>3. Cardinality(S \cup T) = Cardinality(S) + Cardinality(T)
  BY <1>1
<1>4. QED
  BY <1>2, <1>3 DEF Tally

\* With a row the list of the newest has all that are newer.
LEMMA NewestAreNewer ==
    ASSUME RowsAreTyped, NEW rows \in SUBSET DOMAIN execution, NEW n \in Nat,
           NEW i \in Newest(rows, n), NEW k \in rows, k > i
    PROVE  k \in Newest(rows, n)
<1>1. PICK A \in SUBSET rows, B \in SUBSET rows :
         A = {j \in rows : j > i} /\ B = {j \in rows : j > k}
  OBVIOUS
<1>2. IsFiniteSet(A) /\ Cardinality(A) \in Nat /\ Cardinality(B) \in Nat /\ rows \subseteq Nat
      /\ i \in rows
  BY RowsAreFinite DEF Newest
<1>3. B \subseteq A
  BY <1>1, <1>2
<1>4. Cardinality(B) <= Cardinality(A)
  BY <1>2, <1>3, FS_Subset
<1>5. Cardinality(A) < n
  BY <1>1 DEF Newest
<1>6. Cardinality(B) < n
  BY <1>2, <1>4, <1>5
<1>7. QED
  BY <1>1, <1>6 DEF Newest

\* The failures among the recent runs, and the recent failures.
LEMMA FailuresAreNested ==
    ASSUME RowsAreTyped, NEW rows \in SUBSET DOMAIN execution, NEW n \in Nat, NEW m \in Nat
    PROVE  \/ WithStatus(Newest(rows, n), "failed") \subseteq Newest(WithStatus(rows, "failed"), m)
           \/ Newest(WithStatus(rows, "failed"), m) \subseteq WithStatus(Newest(rows, n), "failed")
<1>1. PICK failed \in SUBSET DOMAIN execution : failed = WithStatus(rows, "failed")
  BY DEF WithStatus
<1>2. failed \subseteq rows /\ rows \subseteq Nat
  BY <1>1, RowsAreFinite DEF WithStatus
<1>3. WithStatus(Newest(rows, n), "failed") = {i \in failed : i \in Newest(rows, n)}
  BY <1>1 DEF WithStatus, Newest
<1>4. SUFFICES ASSUME NEW i \in failed, i \in Newest(rows, n), i \notin Newest(failed, m)
               PROVE  Newest(failed, m) \subseteq {k \in failed : k \in Newest(rows, n)}
  BY <1>1, <1>3
<1>5. ASSUME NEW k \in Newest(failed, m)
      PROVE  k \in failed /\ k \in Newest(rows, n)
  <2>1. k \in failed
    BY DEF Newest
  <2>2. ~(k < i)
    BY <1>2, <1>4, <2>1, NewestAreNewer
  <2>3. k # i
    BY <1>4
  <2>4. k > i
    BY <1>2, <2>1, <2>2, <2>3
  <2>5. k \in rows
    BY <1>2, <2>1
  <2>6. QED
    BY <1>4, <2>1, <2>4, <2>5, NewestAreNewer
<1>6. QED
  BY <1>5

LEMMA TestsAreBounded ==
    ASSUME RowsAreTyped, NEW rows \in SUBSET DOMAIN execution
    PROVE  /\ IsFiniteSet(TestsAmong(rows))
           /\ Cardinality(TestsAmong(rows)) <= Cardinality(rows)
           /\ Cardinality(TestsAmong(rows)) \in Nat
           /\ TestsAmong(rows) = {} <=> Cardinality(rows) = 0
<1>1. PICK f : f = [i \in rows |-> execution[i].test]
  OBVIOUS
<1>2. f \in Surjection(rows, TestsAmong(rows))
  BY <1>1 DEF Surjection, TestsAmong
<1>3. IsFiniteSet(rows)
  BY RowsAreFinite
<1>4. IsFiniteSet(TestsAmong(rows)) /\ Cardinality(TestsAmong(rows)) <= Cardinality(rows)
  BY <1>2, <1>3, FS_Surjection
<1>5. TestsAmong(rows) = {} <=> rows = {}
  BY DEF TestsAmong
<1>6. QED
  BY <1>3, <1>4, <1>5, FS_EmptySet, FS_CardinalityType

\* What a window looks back on.
LEMMA WindowsAreNested ==
    ASSUME RowsAreTyped, NEW rows \in SUBSET DOMAIN execution
    PROVE  /\ OfWeek(rows) \subseteq OfMonth(rows) /\ OfMonth(rows) \subseteq rows
           /\ aged.month = 0 => OfMonth(rows) = rows
           /\ aged.week = 0 => OfWeek(rows) = rows
<1>1. /\ aged.week \in Nat /\ aged.month \in Nat /\ aged.month <= aged.week
      /\ \A i \in rows : i \in Nat /\ i > 0
  BY DEF RowsAreTyped
<1>2. QED
  BY <1>1 DEF OfWeek, OfMonth

\* Fewer rows are counted as fewer.
LEMMA TalliesGrow ==
    ASSUME RowsAreTyped, NEW R \in SUBSET DOMAIN execution, NEW S \in SUBSET R
    PROVE  /\ Tally(S).total <= Tally(R).total /\ Tally(S).passed <= Tally(R).passed
           /\ Tally(S).failed <= Tally(R).failed
<1>1. ASSUME NEW status
      PROVE  Cardinality(WithStatus(S, status)) <= Cardinality(WithStatus(R, status))
  <2>1. PICK B \in SUBSET DOMAIN execution : B = WithStatus(R, status)
    BY DEF WithStatus
  <2>2. WithStatus(S, status) \subseteq B
    BY <2>1 DEF WithStatus
  <2>3. IsFiniteSet(B)
    BY RowsAreFinite
  <2>4. QED
    BY <2>1, <2>2, <2>3, FS_Subset
<1>2. Cardinality(S) <= Cardinality(R)
  BY RowsAreFinite, FS_Subset
<1>3. QED
  BY <1>1, <1>2 DEF Tally

LEMMA ManualTalliesGrow ==
    ASSUME NEW C \in SUBSET Case
    PROVE  /\ ManualTally(C).total <= ManualTally(Case).total
           /\ ManualTally(C).passed <= ManualTally(Case).passed
           /\ ManualTally(C).failed <= ManualTally(Case).failed
<1>1. ASSUME NEW statuses
      PROVE  Results(C, statuses) <= Results(Case, statuses)
  <2>1. PICK B \in SUBSET Case : B = {c \in Case : result[c] \in statuses}
    OBVIOUS
  <2>2. PICK A : A = {c \in C : result[c] \in statuses}
    OBVIOUS
  <2>3. A \subseteq B
    BY <2>1, <2>2
  <2>4. Cardinality(A) <= Cardinality(B)
    BY <2>3, CasesAreFinite, FS_Subset
  <2>5. QED
    BY <2>1, <2>2, <2>4 DEF Results
<1>2. Cardinality({c \in C : result[c] # "none"})
          <= Cardinality({c \in Case : result[c] # "none"})
  <2>1. PICK B \in SUBSET Case : B = {c \in Case : result[c] # "none"}
    OBVIOUS
  <2>2. PICK A : A = {c \in C : result[c] # "none"}
    OBVIOUS
  <2>3. A \subseteq B
    BY <2>1, <2>2
  <2>4. QED
    BY <2>1, <2>2, <2>3, CasesAreFinite, FS_Subset
<1>3. QED
  BY <1>1, <1>2 DEF ManualTally

\* The days of the executions, and their summary.
LEMMA DaysAreOfRows ==
    ASSUME RowsAreTyped, NEW rows \in SUBSET DOMAIN execution
    PROVE  DaysOf(Counts(Tally(OfMonth(rows))), Counts(Tally(rows)), aged.month = 0)
<1>1. PICK s, t : s = Tally(OfMonth(rows)) /\ t = Tally(rows)
  OBVIOUS
<1>2. s.total <= t.total /\ s.passed <= t.passed /\ s.failed <= t.failed
  BY <1>1, WindowsAreNested, TalliesGrow
<1>3. aged.month = 0 => s = t
  BY <1>1, WindowsAreNested
<1>4. DaysOf(Counts(s), Counts(t), aged.month = 0)
  <2>1. \A f \in DOMAIN Counts(t) : Counts(s)[f] <= Counts(t)[f]
    BY <1>2 DEF Counts
  <2>2. QED
    BY <1>3, <2>1 DEF DaysOf
<1>5. QED
  BY <1>1, <1>4

\* The days of both sources, and their summary.
LEMMA DaysAreOfBoth ==
    ASSUME RowsAreTyped, NEW rows \in SUBSET DOMAIN execution
    PROVE  DaysOf(Counts(Joined(Tally(OfMonth(rows)), ManualTally(Case \ aged.results))),
                  Counts(Joined(Tally(rows), ManualTally(Case))),
                  aged.month = 0 /\ aged.results = {})
<1>1. PICK s, t, m, n : /\ s = Tally(OfMonth(rows)) /\ t = Tally(rows)
                        /\ m = ManualTally(Case \ aged.results) /\ n = ManualTally(Case)
  OBVIOUS
<1>2. IsTally(s) /\ IsTally(t)
  <2>1. OfMonth(rows) \in SUBSET DOMAIN execution
    BY WindowsAreNested
  <2>2. QED
    BY <1>1, <2>1, TallyIsTally
<1>3. IsTally(m) /\ IsTally(n)
  BY <1>1, ManualIsTally
<1>4. s.total <= t.total /\ s.passed <= t.passed /\ s.failed <= t.failed
  BY <1>1, WindowsAreNested, TalliesGrow
<1>5. m.total <= n.total /\ m.passed <= n.passed /\ m.failed <= n.failed
  BY <1>1, ManualTalliesGrow
<1>6. aged.month = 0 /\ aged.results = {} => s = t /\ m = n
  <2>1. aged.results = {} => Case \ aged.results = Case
    OBVIOUS
  <2>2. QED
    BY <1>1, <2>1, WindowsAreNested
<1>7. DaysOf(Counts(Joined(s, m)), Counts(Joined(t, n)), aged.month = 0 /\ aged.results = {})
  <2>1. Counts(Joined(s, m)) = [total |-> s.total + m.total, passed |-> s.passed + m.passed,
                                failed |-> s.failed + m.failed]
    BY <1>2, <1>3 DEF Counts, Joined, IsTally
  <2>2. Counts(Joined(t, n)) = [total |-> t.total + n.total, passed |-> t.passed + n.passed,
                                failed |-> t.failed + n.failed]
    BY <1>2, <1>3 DEF Counts, Joined, IsTally
  <2>3. /\ s.total + m.total <= t.total + n.total /\ s.passed + m.passed <= t.passed + n.passed
        /\ s.failed + m.failed <= t.failed + n.failed
    BY <1>2, <1>3, <1>4, <1>5 DEF IsTally
  <2>4. \A f \in DOMAIN Counts(Joined(t, n)) : Counts(Joined(s, m))[f] <= Counts(Joined(t, n))[f]
    BY <2>1, <2>2, <2>3
  <2>5. QED
    BY <1>6, <2>4 DEF DaysOf
<1>8. QED
  BY <1>1, <1>7

LEMMA DashboardAgrees == DashboardInv => DashboardAddsUp
<1> SUFFICES ASSUME DashboardInv, NEW v \in Viewer, NEW a, a = view[v].answer,
                    view[v].left = <<>>
             PROVE  /\ view[v].kind = "combined" =>
                          /\ PassRate(Summary(a)) \in 0..100
                          /\ view[v].calm =>
                                /\ Counts(Summary(a)) = Joined(Joined(a.byType.api, a.byType.ui),
                                                               a.manualByType)
                                /\ DaysOf(a.trend, Counts(Summary(a)),
                                          aged.month = 0 /\ aged.results = {})
                                /\ \/ WithStatus(a.recent, "failed") \subseteq a.recentFailures
                                   \/ a.recentFailures \subseteq WithStatus(a.recent, "failed")
                    /\ view[v].kind = "automation" /\ view[v].calm =>
                          /\ DaysOf(a.uiTrend, Counts(a.ui), aged.month = 0)
                          /\ a.flaky # {} => /\ a.uiTrend.passed > 0
                                             /\ a.uiTrend.failed >= Cardinality(a.flaky)
                    /\ view[v].kind = "api" /\ view[v].calm =>
                          /\ DaysOf(a.apiTrend, Counts(a.api), aged.month = 0)
                          /\ a.apiTrend.failed >= Cardinality(a.failures)
                          /\ aged.week = 0 => (a.failures = {}) = (a.api.failed = 0)
  BY DEF DashboardAddsUp, Complete
<1>1. RowsAreTyped /\ ViewStands(v) /\ ToCome(v) = {}
  BY DEF DashboardInv, ToCome
<1>2. \A kind \in Kinds : view[v].kind = kind => \A q \in Asked(kind) : IsAnswered(v, q)
  BY <1>1, KindsAreQueried DEF ViewStands
<1>3. Api \subseteq DOMAIN execution /\ Ui \subseteq DOMAIN execution /\ Api \cap Ui = {}
  BY <1>1, ApiAndUi
<1>4. CASE view[v].kind = "combined"
  <2>1. \A q \in Asked("combined") : IsAnswered(v, q)
    BY <1>2, <1>4 DEF Kinds
  <2>2. IsTally(a.executions) /\ IsTally(a.results)
    BY <2>1, QueriesAreAsked DEF IsAnswered
  <2>3. PassRate(Summary(a)) \in 0..100
    BY <2>2, JoinedIsTally, RateIsPercentage DEF Summary
  <2>4. ASSUME view[v].calm
        PROVE  /\ Counts(Summary(a)) = Joined(Joined(a.byType.api, a.byType.ui), a.manualByType)
               /\ DaysOf(a.trend, Counts(Summary(a)), aged.month = 0 /\ aged.results = {})
               /\ \/ WithStatus(a.recent, "failed") \subseteq a.recentFailures
                  \/ a.recentFailures \subseteq WithStatus(a.recent, "failed")
    <3>1. \A q \in Asked("combined") : a[q] = Answer(q)
      BY <2>1, <2>4 DEF IsAnswered
    <3>2. /\ a.executions = Answer("executions") /\ a.results = Answer("results")
          /\ a.byType = Answer("byType") /\ a.manualByType = Answer("manualByType")
          /\ a.trend = Answer("trend") /\ a.recent = Answer("recent")
          /\ a.recentFailures = Answer("recentFailures")
      BY <3>1, QueriesAreAsked
    <3>3. /\ Answer("executions") = Tally(Api \cup Ui) /\ Answer("results") = ManualTally(Case)
          /\ Answer("byType") = [api |-> Counts(Tally(Api)), ui |-> Counts(Tally(Ui))]
          /\ Answer("manualByType") = Counts(ManualTally(Case))
          /\ Answer("trend") = Counts(Joined(Tally(OfMonth(Api \cup Ui)),
                                            ManualTally(Case \ aged.results)))
          /\ Answer("recent") = Newest(Api \cup Ui, RunsListed)
          /\ Answer("recentFailures") =
                Newest(WithStatus(Api \cup Ui, "failed"), FailuresListed)
      BY DEF Answer
    <3>4. DaysOf(a.trend, Counts(Summary(a)), aged.month = 0 /\ aged.results = {})
      <4>1. Api \cup Ui \in SUBSET DOMAIN execution
        BY <1>3
      <4>2. Summary(a) = Joined(Tally(Api \cup Ui), ManualTally(Case))
        BY <3>2, <3>3 DEF Summary
      <4>3. QED
        BY <1>1, <3>2, <3>3, <4>1, <4>2, DaysAreOfBoth
    <3>5. \/ WithStatus(a.recent, "failed") \subseteq a.recentFailures
          \/ a.recentFailures \subseteq WithStatus(a.recent, "failed")
      <4>1. Api \cup Ui \in SUBSET DOMAIN execution /\ RunsListed \in Nat /\ FailuresListed \in Nat
        BY <1>3, DashboardAssumption
      <4>2. QED
        BY <1>1, <3>2, <3>3, <4>1, FailuresAreNested
    <3>6. Counts(Summary(a)) = Joined(Joined(a.byType.api, a.byType.ui), a.manualByType)
      <4>1. PICK all, api, ui, manual :
               /\ all = Tally(Api \cup Ui) /\ api = Tally(Api) /\ ui = Tally(Ui)
               /\ manual = ManualTally(Case)
        OBVIOUS
      <4>2. IsTally(all) /\ IsTally(api) /\ IsTally(ui) /\ IsTally(manual)
        BY <1>1, <1>3, <4>1, TallyIsTally, ManualIsTally
      <4>3. /\ all.total = api.total + ui.total /\ all.passed = api.passed + ui.passed
            /\ all.failed = api.failed + ui.failed
        BY <1>1, <1>3, <4>1, TalliesAdd
      <4>4. /\ a.executions = all /\ a.results = manual /\ a.manualByType = Counts(manual)
            /\ a.byType.api = Counts(api) /\ a.byType.ui = Counts(ui)
        BY <3>2, <3>3, <4>1
      <4>5. Counts(Joined(all, manual)) = [total |-> all.total + manual.total,
                                           passed |-> all.passed + manual.passed,
                                           failed |-> all.failed + manual.failed]
        BY <4>2 DEF Counts, Joined, IsTally
      <4>6. PICK both : both = Joined(Counts(api), Counts(ui))
        OBVIOUS
      <4>7. /\ DOMAIN both = {"total", "passed", "failed"}
            /\ both.total = all.total /\ both.passed = all.passed /\ both.failed = all.failed
        BY <4>3, <4>6 DEF Joined, Counts
      <4>8. Joined(both, Counts(manual)) = [total |-> all.total + manual.total,
                                            passed |-> all.passed + manual.passed,
                                            failed |-> all.failed + manual.failed]
        BY <4>7 DEF Joined, Counts
      <4>9. QED
        BY <4>4, <4>5, <4>6, <4>8 DEF Summary
    <3>7. QED
      BY <3>4, <3>5, <3>6
  <2>5. QED
    BY <1>4, <2>3, <2>4
<1>5. CASE view[v].kind = "automation"
  <2>1. \A q \in Asked("automation") : IsAnswered(v, q)
    BY <1>2, <1>5 DEF Kinds
  <2>2. ASSUME view[v].calm
        PROVE  /\ DaysOf(a.uiTrend, Counts(a.ui), aged.month = 0)
               /\ a.flaky # {} => /\ a.uiTrend.passed > 0
                                  /\ a.uiTrend.failed >= Cardinality(a.flaky)
    <3>1. a.ui = Answer("ui") /\ a.uiTrend = Answer("uiTrend") /\ a.flaky = Answer("flaky")
      BY <2>1, <2>2, QueriesAreAsked DEF IsAnswered
    <3>2. /\ a.ui = Tally(Ui) /\ a.uiTrend = Counts(Tally(OfMonth(Ui)))
          /\ a.flaky = Flaky(OfWeek(Ui))
      BY <3>1 DEF Answer
    <3>3. PICK passed, failed \in SUBSET DOMAIN execution :
             /\ passed = WithStatus(OfWeek(Ui), "passed")
             /\ failed = WithStatus(OfWeek(Ui), "failed")
      BY <1>1, <1>3, WindowsAreNested DEF WithStatus
    <3>4. /\ Cardinality(passed) <= a.uiTrend.passed /\ Cardinality(failed) <= a.uiTrend.failed
          /\ a.uiTrend.passed \in Nat /\ a.uiTrend.failed \in Nat
      <4>1. OfMonth(Ui) \in SUBSET DOMAIN execution /\ OfWeek(Ui) \in SUBSET OfMonth(Ui)
        BY <1>1, <1>3, WindowsAreNested
      <4>2. PICK s, t : s = Tally(OfWeek(Ui)) /\ t = Tally(OfMonth(Ui))
        OBVIOUS
      <4>3. s.passed <= t.passed /\ s.failed <= t.failed /\ IsTally(t)
        BY <1>1, <4>1, <4>2, TalliesGrow, TallyIsTally
      <4>4. /\ s.passed = Cardinality(passed) /\ s.failed = Cardinality(failed)
            /\ a.uiTrend.passed = t.passed /\ a.uiTrend.failed = t.failed
        BY <3>2, <3>3, <4>2 DEF Tally, Counts
      <4>5. QED
        BY <4>3, <4>4 DEF IsTally
    <3>5. a.flaky = TestsAmong(passed) \cap TestsAmong(failed)
      BY <3>2, <3>3 DEF Flaky
    <3>6. /\ IsFiniteSet(TestsAmong(failed))
          /\ Cardinality(TestsAmong(failed)) <= Cardinality(failed)
          /\ Cardinality(TestsAmong(failed)) \in Nat
          /\ TestsAmong(passed) = {} <=> Cardinality(passed) = 0
          /\ Cardinality(passed) \in Nat /\ Cardinality(failed) \in Nat
      BY <1>1, TestsAreBounded, RowsAreFinite
    <3>7. /\ Cardinality(a.flaky) <= Cardinality(TestsAmong(failed))
          /\ Cardinality(a.flaky) \in Nat
      <4>1. a.flaky \subseteq TestsAmong(failed)
        BY <3>5
      <4>2. IsFiniteSet(a.flaky)
        BY <3>6, <4>1, FS_Subset
      <4>3. QED
        BY <3>6, <4>1, <4>2, FS_Subset, FS_CardinalityType
    <3>8. a.flaky # {} => TestsAmong(passed) # {}
      BY <3>5
    <3>9. DaysOf(a.uiTrend, Counts(a.ui), aged.month = 0)
      BY <1>1, <1>3, <3>2, DaysAreOfRows
    <3>10. QED
      BY <3>4, <3>6, <3>7, <3>8, <3>9
  <2>3. QED
    BY <1>5, <2>2
<1>6. CASE view[v].kind = "api"
  <2>1. \A q \in Asked("api") : IsAnswered(v, q)
    BY <1>2, <1>6 DEF Kinds
  <2>2. ASSUME view[v].calm
        PROVE  /\ DaysOf(a.apiTrend, Counts(a.api), aged.month = 0)
               /\ a.apiTrend.failed >= Cardinality(a.failures)
               /\ aged.week = 0 => (a.failures = {}) = (a.api.failed = 0)
    <3>1. a.api = Answer("api") /\ a.apiTrend = Answer("apiTrend")
          /\ a.failures = Answer("failures")
      BY <2>1, <2>2, QueriesAreAsked DEF IsAnswered
    <3>2. PICK failed \in SUBSET DOMAIN execution : failed = WithStatus(OfWeek(Api), "failed")
      BY <1>1, <1>3, WindowsAreNested DEF WithStatus
    <3>3. /\ a.api = Tally(Api) /\ a.apiTrend = Counts(Tally(OfMonth(Api)))
          /\ a.failures = TestsAmong(failed)
      BY <3>1, <3>2 DEF Answer
    <3>4. /\ Cardinality(failed) <= a.apiTrend.failed /\ a.apiTrend.failed \in Nat
          /\ aged.week = 0 => Cardinality(failed) = a.api.failed
      <4>1. OfMonth(Api) \in SUBSET DOMAIN execution /\ OfWeek(Api) \in SUBSET OfMonth(Api)
        BY <1>1, <1>3, WindowsAreNested
      <4>2. PICK s, t : s = Tally(OfWeek(Api)) /\ t = Tally(OfMonth(Api))
        OBVIOUS
      <4>3. s.failed <= t.failed /\ IsTally(t)
        BY <1>1, <4>1, <4>2, TalliesGrow, TallyIsTally
      <4>4. s.failed = Cardinality(failed) /\ a.apiTrend.failed = t.failed
        BY <3>2, <3>3, <4>2 DEF Tally, Counts
      <4>5. aged.week = 0 => s = a.api
        BY <1>1, <1>3, <3>3, <4>2, WindowsAreNested
      <4>6. QED
        BY <4>3, <4>4, <4>5 DEF IsTally
    <3>5. /\ TestsAmong(failed) = {} <=> Cardinality(failed) = 0
          /\ Cardinality(TestsAmong(failed)) <= Cardinality(failed)
          /\ Cardinality(TestsAmong(failed)) \in Nat /\ Cardinality(failed) \in Nat
      BY <1>1, TestsAreBounded, RowsAreFinite
    <3>6. DaysOf(a.apiTrend, Counts(a.api), aged.month = 0)
      BY <1>1, <1>3, <3>3, DaysAreOfRows
    <3>7. QED
      BY <3>3, <3>4, <3>5, <3>6
  <2>3. QED
    BY <1>6, <2>2
<1>7. QED
  BY <1>4, <1>5, <1>6

\* However many rows, results and dashboards there are, and however old the
\* rows: a dashboard whose queries all worked while no row changed or left a
\* window adds up, its trends of thirty days and lists of seven to no more than
\* the summaries of all rows and to the same while no row is older, and its
\* pass rate is a percentage whatever happened in between (dashboardService's
\* safeQuery and INTERVAL).
THEOREM DashboardIsConsistent ==
    DashboardInit /\ [][DashboardNext]_dashboardVars => []DashboardAddsUp
<1>1. DashboardInit => DashboardInv
  BY DashboardStart
<1>2. DashboardInv /\ [DashboardNext]_dashboardVars => DashboardInv'
  BY DashboardStep
<1>3. DashboardInv => DashboardAddsUp
  BY DashboardAgrees
<1>4. QED
  BY <1>1, <1>2, <1>3, PTL

(***************************************************************************)
(* The texts: what is listed of one that can be compared is, up to the     *)
(* words of its variables, what it means.  A collection is walked through  *)
(* from its last node to its first, and what is built of sequences is      *)
(* followed by the least place at which it would not hold.                 *)
(***************************************************************************)

\* What a content lists.
Listed(d, from) == Range(Operations[d][from])

\* A set of numbers has a least one.
LEMMA SomeIsLeast ==
    ASSUME NEW T \in SUBSET Nat, T # {}
    PROVE  \E m \in T : \A n \in T : m <= n
<1>1. IsWellFoundedOn({r \in Nat \X Nat : r[1] < r[2]}, Nat)
  BY NatLessThanWellFounded DEF OpToRel
<1>2. PICK R : R = {r \in Nat \X Nat : r[1] < r[2]}
  OBVIOUS
<1>3. IsWellFoundedOn(R, Nat)
  BY <1>1, <1>2
<1>4. PICK m \in T : \A n \in T : ~(<<n, m>> \in R)
  BY <1>3, WFMin
<1>5. \A n \in T : ~(n < m)
  BY <1>2, <1>4
<1>6. QED
  BY <1>5

\* SetToSeq is a sequence of the set.
LEMMA SequencesOfSets ==
    ASSUME NEW S, IsFiniteSet(S)
    PROVE  SetToSeq(S) \in [1..Cardinality(S) -> S] /\ IsInjective(SetToSeq(S))
<1>1. ExistsBijection(1..Cardinality(S), S)
  BY FS_CardinalityType
<1>2. PICK f \in Bijection(1..Cardinality(S), S) : TRUE
  BY <1>1 DEF ExistsBijection
<1>3. f \in [1..Cardinality(S) -> S] /\ IsInjective(f)
  BY <1>2 DEF Bijection, Injection, IsInjective
<1>4. QED
  BY <1>3 DEF SetToSeq

\* ... and lists all of it.
LEMMA SequencesListAll ==
    ASSUME NEW S, IsFiniteSet(S)
    PROVE  /\ \E n \in Nat : DOMAIN SetToSeq(S) = 1..n
           /\ Range(SetToSeq(S)) = S
<1>1. PICK n \in Nat : n = Cardinality(S)
  BY FS_CardinalityType
<1>2. PICK s : s = SetToSeq(S)
  OBVIOUS
<1>3. s \in [1..n -> S] /\ IsInjective(s)
  BY <1>1, <1>2, SequencesOfSets
<1>4. PICK R : R = Range(s)
  OBVIOUS
<1>5. R \in SUBSET S
  BY <1>3, <1>4 DEF Range
<1>6. s \in Bijection(1..n, R)
  BY <1>3, <1>4 DEF Bijection, Injection, Surjection, IsInjective, Range
<1>7. ExistsBijection(1..n, R)
  BY <1>6 DEF ExistsBijection
<1>8. Cardinality(R) = n
  BY <1>7, FS_CountingElements
<1>9. R = S
  BY <1>1, <1>5, <1>8, FS_Subset
<1>10. QED
  BY <1>2, <1>3, <1>4, <1>9

\* FlattenSeq's recursion, as far as a place.
IsFlatten(f, s, k) ==
    f = [i \in 1..k |-> IF i = 1 THEN s[i] ELSE f[i - 1] \o s[i]]

\* What the sequences have up to one.
UpTo(s, n) == UNION {Range(s[i]) : i \in 1..n}

LEMMA OneMore ==
    ASSUME NEW s, NEW n \in Nat \ {0}
    PROVE  UpTo(s, n) = UpTo(s, n - 1) \cup Range(s[n])
<1>1. \A i : i \in 1..n <=> i \in 1..(n - 1) \/ i = n
  OBVIOUS
<1>2. QED
  BY <1>1, Zenon DEF UpTo

LEMMA FlattensReach ==
    ASSUME NEW s, NEW k \in Nat
    PROVE  \E f : IsFlatten(f, s, k)
<1> SUFFICES ASSUME ~\E f : IsFlatten(f, s, k) PROVE FALSE
  OBVIOUS
<1>1. PICK T \in SUBSET Nat : T = {n \in Nat : ~\E f : IsFlatten(f, s, n)}
  OBVIOUS
<1>2. PICK m \in T : \A n \in T : m <= n
  <2>1. T # {}
    BY <1>1
  <2>2. QED
    BY <2>1, SomeIsLeast
<1>3. m # 0
  <2>1. \E f : f = [i \in 1..0 |-> s[i]]
    OBVIOUS
  <2>2. PICK f : f = [i \in 1..0 |-> s[i]]
    BY <2>1
  <2>3. f = [i \in 1..0 |-> IF i = 1 THEN s[i] ELSE f[i - 1] \o s[i]]
    BY <2>2
  <2>4. QED
    BY <1>1, <2>3 DEF IsFlatten
<1>4. m - 1 \in Nat /\ m - 1 \notin T
  BY <1>1, <1>2, <1>3
<1>5. PICK f : IsFlatten(f, s, m - 1)
  BY <1>1, <1>4
<1>6. PICK g : g = [i \in 1..m |-> IF i = 1 THEN s[i] ELSE f[i - 1] \o s[i]]
  OBVIOUS
<1>7. \A i \in 1..(m - 1) : g[i] = f[i]
  <2>1. \A i \in 1..(m - 1) : f[i] = IF i = 1 THEN s[i] ELSE f[i - 1] \o s[i]
    BY <1>4, <1>5 DEF IsFlatten
  <2>2. 1..(m - 1) \subseteq 1..m
    BY <1>4
  <2>3. QED
    BY <1>6, <2>1, <2>2
<1>8. \A i \in 1..m : i # 1 => g[i - 1] = f[i - 1]
  <2>1. \A i \in 1..m : i # 1 => i - 1 \in 1..(m - 1)
    BY <1>4
  <2>2. QED
    BY <1>7, <2>1
<1>9. IsFlatten(g, s, m)
  BY <1>6, <1>8 DEF IsFlatten
<1>10. QED
  BY <1>1, <1>2, <1>9

\* The sequences one after the other have what each has.
LEMMA FlattenHasAll ==
    ASSUME NEW T, NEW k \in Nat, NEW s \in [1..k -> Seq(T)]
    PROVE  /\ FlattenSeq(s) \in Seq(T)
           /\ Range(FlattenSeq(s)) = UpTo(s, k)
<1>1. Len(s) = k
  OBVIOUS
<1>2. CASE k = 0
  <2>1. FlattenSeq(s) = s
    BY <1>1, <1>2 DEF FlattenSeq
  <2>2. s \in Seq(T) /\ Range(s) = {}
    BY <1>2 DEF Range
  <2>3. UpTo(s, k) = {}
    BY <1>2 DEF UpTo
  <2>4. QED
    BY <2>1, <2>2, <2>3
<1>3. CASE k # 0
  <2>1. PICK f : f = CHOOSE g : g = [i \in 1..Len(s) |-> IF i = 1 THEN s[i] ELSE g[i - 1] \o s[i]]
    OBVIOUS
  <2>2. FlattenSeq(s) = f[k]
    BY <1>1, <1>3, <2>1 DEF FlattenSeq
  <2>3. IsFlatten(f, s, k)
    BY <1>1, <2>1, FlattensReach DEF IsFlatten
  <2>4. \A i \in 1..k : f[i] = IF i = 1 THEN s[i] ELSE f[i - 1] \o s[i]
    BY <2>3 DEF IsFlatten
  <2>5. PICK U \in SUBSET Nat :
           U = {n \in 1..k : ~(f[n] \in Seq(T) /\ Range(f[n]) = UpTo(s, n))}
    <3>1. {n \in 1..k : ~(f[n] \in Seq(T) /\ Range(f[n]) = UpTo(s, n))} \in SUBSET Nat
      OBVIOUS
    <3>2. QED
      BY <3>1
  <2>6. ASSUME U # {} PROVE FALSE
    <3>1. PICK n \in U : \A i \in U : n <= i
      BY <2>6, SomeIsLeast
    <3>2. n \in 1..k /\ s[n] \in Seq(T)
      BY <2>5, <3>1
    <3>3. CASE n = 1
      <4>1. f[n] = s[n]
        BY <2>4, <3>2, <3>3
      <4>2. UpTo(s, n) = Range(s[n])
        BY <3>3 DEF UpTo
      <4>3. QED
        BY <2>5, <3>1, <3>2, <4>1, <4>2
    <3>4. CASE n # 1
      <4>1. n - 1 \in 1..k /\ n - 1 \notin U
        <5>1. n \in Nat /\ n > 1 /\ n <= k
          BY <3>2, <3>4
        <5>2. n - 1 \in 1..k /\ ~(n <= n - 1)
          BY <5>1
        <5>3. QED
          BY <3>1, <5>2
      <4>2. f[n] = f[n - 1] \o s[n]
        BY <2>4, <3>2, <3>4
      <4>3. f[n - 1] \in Seq(T) /\ Range(f[n - 1]) = UpTo(s, n - 1)
        BY <2>5, <4>1
      <4>4. f[n] \in Seq(T)
        BY <3>2, <4>2, <4>3
      <4>5. Range(f[n]) = Range(f[n - 1]) \cup Range(s[n])
        <5>1. PICK a \in Seq(T), b \in Seq(T) : a = f[n - 1] /\ b = s[n]
          BY <3>2, <4>3
        <5>2. \A x : x \in Range(a \o b) <=> x \in Range(a) \cup Range(b)
          <6>1. ASSUME NEW i \in DOMAIN (a \o b)
                PROVE  (a \o b)[i] \in Range(a) \cup Range(b)
            <7>1. i \in 1..(Len(a) + Len(b))
              BY <6>1
            <7>2. CASE i <= Len(a)
              BY <7>1, <7>2 DEF Range
            <7>3. CASE i > Len(a)
              <8>1. i - Len(a) \in DOMAIN b /\ (a \o b)[i] = b[i - Len(a)]
                BY <7>1, <7>3
              <8>2. QED
                BY <8>1 DEF Range
            <7>4. QED
              BY <7>1, <7>2, <7>3
          <6>2. ASSUME NEW i \in DOMAIN a PROVE a[i] \in Range(a \o b)
            <7>1. i \in DOMAIN (a \o b) /\ (a \o b)[i] = a[i]
              OBVIOUS
            <7>2. QED
              BY <7>1 DEF Range
          <6>3. ASSUME NEW i \in DOMAIN b PROVE b[i] \in Range(a \o b)
            <7>1. Len(a) + i \in DOMAIN (a \o b) /\ (a \o b)[Len(a) + i] = b[i]
              OBVIOUS
            <7>2. QED
              BY <7>1 DEF Range
          <6>4. QED
            BY <6>1, <6>2, <6>3 DEF Range
        <5>3. QED
          BY <4>2, <5>1, <5>2
      <4>6. UpTo(s, n) = UpTo(s, n - 1) \cup Range(s[n])
        <5>1. n \in Nat \ {0}
          BY <3>2
        <5>2. QED
          BY <5>1, OneMore
      <4>7. QED
        BY <2>5, <3>1, <4>3, <4>4, <4>5, <4>6
    <3>5. QED
      BY <3>3, <3>4
  <2>7. k \in 1..k /\ k \notin U
    BY <1>3, <2>6
  <2>8. QED
    BY <2>2, <2>5, <2>7
<1>4. QED
  BY <1>2, <1>3

\* What a node leads to, where this has been found of the nodes under it.
GoesOn(nodes, w, n) ==
    IF nodes[n].is = "request" THEN <<nodes[n]>>
    ELSE FlattenSeq([i \in DOMAIN nodes[n].item |-> w[nodes[n].item[i]]])
IsWalk(w, nodes, m) == w = [n \in m..Len(nodes) |-> GoesOn(nodes, w, n)]

\* A node is a folder or a request.
Folder(nodes, n) == nodes[n].is # "request"
Requests(nodes) == {nodes[n] : n \in {k \in DOMAIN nodes : ~Folder(nodes, k)}}

\* The folders hold what comes later.
IsTree(nodes) ==
    /\ nodes \in Seq(Range(nodes)) /\ 1 \in DOMAIN nodes
    /\ \A n \in DOMAIN nodes : Folder(nodes, n) =>
          nodes[n].item \in Seq((n + 1)..Len(nodes))

\* What a node leads to is found once it is of those after it.
LEMMA WalksGoOn ==
    ASSUME NEW nodes, IsTree(nodes), NEW n \in DOMAIN nodes, NEW m \in Nat, m <= n + 1,
           NEW w, NEW v, \A i \in m..Len(nodes) : w[i] = v[i]
    PROVE  GoesOn(nodes, w, n) = GoesOn(nodes, v, n)
<1>1. CASE ~Folder(nodes, n)
  BY <1>1 DEF GoesOn, Folder
<1>2. CASE Folder(nodes, n)
  <2>1. PICK N \in Nat : N = Len(nodes) /\ DOMAIN nodes = 1..N
    BY DEF IsTree
  <2>2. PICK item : item = nodes[n].item
    OBVIOUS
  <2>3. item \in Seq((n + 1)..N)
    BY <1>2, <2>1, <2>2 DEF IsTree
  <2>4. \A i \in DOMAIN item : item[i] \in m..N
    BY <2>1, <2>3
  <2>5. \A i \in DOMAIN item : w[item[i]] = v[item[i]]
    BY <2>1, <2>4
  <2>6. [i \in DOMAIN item |-> w[item[i]]] = [i \in DOMAIN item |-> v[item[i]]]
    BY <2>5
  <2>7. QED
    BY <1>2, <2>2, <2>6 DEF GoesOn, Folder
<1>3. QED
  BY <1>1, <1>2

LEMMA WalksReach ==
    ASSUME NEW nodes, IsTree(nodes), NEW N \in Nat, N = Len(nodes), NEW k \in 0..N
    PROVE  \E w : IsWalk(w, nodes, N + 1 - k)
<1> SUFFICES ASSUME ~\E w : IsWalk(w, nodes, N + 1 - k) PROVE FALSE
  OBVIOUS
<1>1. PICK T \in SUBSET Nat : T = {n \in 0..N : ~\E w : IsWalk(w, nodes, N + 1 - n)}
  <2>1. {n \in 0..N : ~\E w : IsWalk(w, nodes, N + 1 - n)} \in SUBSET Nat
    OBVIOUS
  <2>2. QED
    BY <2>1
<1>2. PICK b \in T : \A n \in T : b <= n
  <2>1. T # {}
    BY <1>1
  <2>2. QED
    BY <2>1, SomeIsLeast
<1>3. b # 0
  <2>1. ASSUME b = 0 PROVE FALSE
    <3>1. N + 1 - b = N + 1 /\ (N + 1)..N = {}
      BY <2>1
    <3>2. PICK w : w = [n \in {} |-> 0]
      OBVIOUS
    <3>3. w = [n \in {} |-> GoesOn(nodes, w, n)]
      BY <3>2
    <3>4. IsWalk(w, nodes, N + 1)
      BY <3>1, <3>3 DEF IsWalk
    <3>5. QED
      BY <1>1, <1>2, <3>1, <3>4
  <2>2. QED
    BY <2>1
<1>4. b \in 0..N /\ b - 1 \in 0..N /\ b - 1 \notin T
  BY <1>1, <1>2, <1>3
<1>5. PICK m \in Nat : m = N + 1 - b /\ m >= 1 /\ N + 1 - (b - 1) = m + 1
  BY <1>3, <1>4
<1>6. PICK w : IsWalk(w, nodes, m + 1)
  BY <1>1, <1>4, <1>5
<1>7. PICK g : g = [n \in m..N |-> GoesOn(nodes, w, n)]
  OBVIOUS
<1>8. \A n \in (m + 1)..N : g[n] = w[n]
  <2>1. \A n \in (m + 1)..N : w[n] = GoesOn(nodes, w, n)
    BY <1>6 DEF IsWalk
  <2>2. \A n \in (m + 1)..N : n \in m..N
    BY <1>5
  <2>3. QED
    BY <1>7, <2>1, <2>2
<1>9. ASSUME NEW n \in m..N PROVE GoesOn(nodes, w, n) = GoesOn(nodes, g, n)
  <2>1. n \in DOMAIN nodes /\ m + 1 \in Nat /\ m + 1 <= n + 1
    BY <1>5 DEF IsTree
  <2>2. \A i \in (m + 1)..Len(nodes) : w[i] = g[i]
    BY <1>8
  <2>3. QED
    BY <2>1, <2>2, WalksGoOn
<1>10. g = [n \in m..N |-> GoesOn(nodes, g, n)]
  BY <1>7, <1>9
<1>11. IsWalk(g, nodes, m)
  BY <1>10 DEF IsWalk
<1>12. QED
  BY <1>1, <1>2, <1>5, <1>11

\* A node leads to requests, a folder to all that its items lead to.
LEMMA WalksFindRequests ==
    ASSUME NEW nodes, IsTree(nodes), NEW w, IsWalk(w, nodes, 1), NEW n \in DOMAIN nodes
    PROVE  /\ w[n] \in Seq(Requests(nodes))
           /\ ~Folder(nodes, n) => nodes[n] \in Range(w[n])
           /\ Folder(nodes, n) => \A i \in DOMAIN nodes[n].item :
                                     Range(w[nodes[n].item[i]]) \subseteq Range(w[n])
<1>1. PICK N \in Nat : N = Len(nodes) /\ DOMAIN nodes = 1..N
  BY DEF IsTree
<1>2. PICK R : R = Requests(nodes)
  OBVIOUS
<1>3. \A k \in 1..N : w[k] = GoesOn(nodes, w, k)
  BY <1>1 DEF IsWalk
<1>4. ASSUME NEW k \in 1..N, ~Folder(nodes, k)
      PROVE  w[k] \in Seq(R) /\ nodes[k] \in Range(w[k])
  <2>1. w[k] = <<nodes[k]>>
    BY <1>3, <1>4 DEF GoesOn, Folder
  <2>2. nodes[k] \in R
    BY <1>1, <1>2, <1>4 DEF Requests
  <2>3. QED
    BY <2>1, <2>2 DEF Range
<1>5. ASSUME NEW k \in 1..N, Folder(nodes, k), \A i \in (k + 1)..N : w[i] \in Seq(R)
      PROVE  /\ w[k] \in Seq(R)
             /\ \A i \in DOMAIN nodes[k].item : Range(w[nodes[k].item[i]]) \subseteq Range(w[k])
  <2>1. PICK item : item = nodes[k].item
    OBVIOUS
  <2>2. item \in Seq((k + 1)..N)
    BY <1>1, <1>5, <2>1 DEF IsTree
  <2>3. PICK l \in Nat : l = Len(item) /\ DOMAIN item = 1..l
    BY <2>2
  <2>4. PICK s : s = [i \in 1..l |-> w[item[i]]]
    OBVIOUS
  <2>5. \A i \in 1..l : w[item[i]] \in Seq(R)
    BY <1>5, <2>2, <2>3
  <2>6. s \in [1..l -> Seq(R)]
    BY <2>4, <2>5
  <2>7. w[k] = FlattenSeq(s)
    BY <1>3, <1>5, <2>1, <2>3, <2>4 DEF GoesOn, Folder
  <2>8. FlattenSeq(s) \in Seq(R) /\ Range(FlattenSeq(s)) = UpTo(s, l)
    BY <2>6, FlattenHasAll
  <2>9. \A i \in 1..l : Range(s[i]) \subseteq UpTo(s, l)
    BY DEF UpTo
  <2>10. QED
    BY <2>1, <2>3, <2>4, <2>7, <2>8, <2>9
<1>6. PICK T \in SUBSET Nat : T = {k \in 0..(N - 1) : w[N - k] \notin Seq(R)}
  <2>1. {k \in 0..(N - 1) : w[N - k] \notin Seq(R)} \in SUBSET Nat
    OBVIOUS
  <2>2. QED
    BY <2>1
<1>7. ASSUME T # {} PROVE FALSE
  <2>1. PICK b \in T : \A i \in T : b <= i
    BY <1>7, SomeIsLeast
  <2>2. PICK k \in 1..N : k = N - b /\ b = N - k /\ w[k] \notin Seq(R)
    BY <1>6, <2>1
  <2>3. ASSUME NEW i \in (k + 1)..N PROVE w[i] \in Seq(R)
    <3>1. N - i \in 0..(N - 1) /\ N - (N - i) = i /\ ~(b <= N - i)
      BY <2>2, <2>3
    <3>2. N - i \notin T
      BY <2>1, <3>1
    <3>3. QED
      BY <1>6, <3>1, <3>2
  <2>4. QED
    BY <1>4, <1>5, <2>2, <2>3
<1>8. \A k \in 1..N : w[k] \in Seq(R)
  <2>1. ASSUME NEW k \in 1..N PROVE w[k] \in Seq(R)
    <3>1. N - k \in 0..(N - 1) /\ N - (N - k) = k
      BY <2>1
    <3>2. QED
      BY <1>6, <1>7, <3>1
  <2>2. QED
    BY <2>1
<1>9. CASE Folder(nodes, n)
  <2>1. \A i \in (n + 1)..N : w[i] \in Seq(R)
    BY <1>1, <1>8
  <2>2. QED
    BY <1>1, <1>2, <1>5, <1>9, <2>1
<1>10. QED
  BY <1>1, <1>2, <1>4, <1>9

\* What is walked through is the requests, in some order.
LEMMA WalkFindsAll ==
    ASSUME NEW doc, IsCollection(doc)
    PROVE  /\ WalkItems(doc) \in Seq(Requests(doc.nodes))
           /\ Range(WalkItems(doc)) = Requests(doc.nodes)
<1>1. PICK nodes : nodes = doc.nodes
  OBVIOUS
<1>2. IsTree(nodes) /\ doc.root = 1
  BY <1>1 DEF IsCollection, IsTree, Folder
<1>3. PICK N \in Nat : N = Len(nodes) /\ DOMAIN nodes = 1..N
  BY <1>2 DEF IsTree
<1>4. 1 \in 1..N
  BY <1>2, <1>3 DEF IsTree
<1>5. \E w : IsWalk(w, nodes, 1)
  <2>1. N \in 0..N /\ N + 1 - N = 1
    OBVIOUS
  <2>2. \E w : IsWalk(w, nodes, N + 1 - N)
    BY <1>2, <1>3, <2>1, WalksReach
  <2>3. QED
    BY <2>1, <2>2
<1>6. PICK w : w = CHOOSE v : v = [n \in 1..N |-> GoesOn(nodes, v, n)]
  OBVIOUS
<1>7. IsWalk(w, nodes, 1)
  BY <1>3, <1>5, <1>6 DEF IsWalk
<1>8. WalkItems(doc) = w[1]
  BY <1>1, <1>2, <1>3, <1>6 DEF WalkItems, GoesOn
<1>9. PICK T \in SUBSET Nat : T = {n \in 1..N : ~(Range(w[n]) \subseteq Range(w[1]))}
  <2>1. {n \in 1..N : ~(Range(w[n]) \subseteq Range(w[1]))} \in SUBSET Nat
    OBVIOUS
  <2>2. QED
    BY <2>1
<1>10. ASSUME T # {} PROVE FALSE
  <2>1. PICK n \in T : \A i \in T : n <= i
    BY <1>10, SomeIsLeast
  <2>2. n \in 1..N /\ n # 1
    BY <1>9, <2>1
  <2>3. PICK m \in 1..N : Folder(nodes, m) /\ n \in Range(nodes[m].item)
    BY <1>1, <1>2, <1>3, <2>2 DEF IsCollection, Folder
  <2>4. PICK item : item = nodes[m].item
    OBVIOUS
  <2>5. item \in Seq((m + 1)..N)
    BY <1>2, <1>3, <2>3, <2>4 DEF IsTree
  <2>6. PICK i \in DOMAIN item : item[i] = n
    BY <2>3, <2>4 DEF Range
  <2>7. n \in (m + 1)..N
    BY <2>5, <2>6
  <2>8. m \notin T
    BY <2>1, <2>2, <2>3, <2>7
  <2>9. Range(w[m]) \subseteq Range(w[1])
    BY <1>9, <2>8
  <2>10. Range(w[n]) \subseteq Range(w[m])
    BY <1>2, <1>3, <1>7, <2>3, <2>4, <2>6, WalksFindRequests
  <2>11. QED
    BY <1>9, <2>1, <2>9, <2>10
<1>11. \A n \in 1..N : ~Folder(nodes, n) => nodes[n] \in Range(w[1])
  <2>1. ASSUME NEW n \in 1..N, ~Folder(nodes, n) PROVE nodes[n] \in Range(w[1])
    <3>1. nodes[n] \in Range(w[n])
      BY <1>2, <1>3, <1>7, <2>1, WalksFindRequests
    <3>2. Range(w[n]) \subseteq Range(w[1])
      BY <1>9, <1>10
    <3>3. QED
      BY <3>1, <3>2
  <2>2. QED
    BY <2>1
<1>12. w[1] \in Seq(Requests(nodes))
  BY <1>2, <1>3, <1>4, <1>7, WalksFindRequests
<1>13. Range(w[1]) \subseteq Requests(nodes)
  BY <1>12 DEF Range
<1>14. Requests(nodes) \subseteq Range(w[1])
  BY <1>3, <1>11 DEF Requests
<1>15. QED
  BY <1>1, <1>8, <1>12, <1>13, <1>14

\* The fingerprint of a call, from its words.
Words(path) == [i \in DOMAIN path |-> IF Var(path[i]) \/ path[i].is = "env" THEN "anything"
                                      ELSE path[i].name]
Canonical(words) ==
    [i \in DOMAIN words |-> IF words[i] = "anything" THEN [is |-> "var", name |-> ""]
                            ELSE [is |-> "text", name |-> words[i]]]
PrintOf(m) == [method |-> m.method, path |-> Canonical(m.path),
             server |-> [origin |-> m.origin, base |-> <<>>]]

IsCall(m) == \E method, origin, path : m = Calling(method, origin, path)

\* The canonical path is that of the words.
LEMMA WordsAreCanonical ==
    ASSUME NEW path, IsPath(path), PlainPath(path)
    PROVE  CanonicalizePath(path) = Canonical(Words(path))
<1>1. PICK w : w = Words(path)
  OBVIOUS
<1>2. DOMAIN w = DOMAIN path
  BY <1>1 DEF Words
<1>3. ASSUME NEW i \in DOMAIN path
      PROVE  CanonicalizePath(path)[i]
               = IF w[i] = "anything" THEN [is |-> "var", name |-> ""]
                 ELSE [is |-> "text", name |-> w[i]]
  <2>1. PICK s : s = path[i]
    OBVIOUS
  <2>2. s \in Segment
    BY <1>3, <2>1 DEF IsPath
  <2>3. s.is \notin {"env", "query"}
    BY <1>3, <2>1 DEF PlainPath
  <2>4. /\ w[i] = IF Var(s) THEN "anything" ELSE s.name
        /\ CanonicalizePath(path)[i] = IF Var(s) THEN [is |-> "var", name |-> ""] ELSE s
    BY <1>1, <1>3, <2>1, <2>3 DEF Words, CanonicalizePath
  <2>5. CASE Var(s)
    BY <2>4, <2>5
  <2>6. CASE ~Var(s)
    <3>1. s.is = "text"
      BY <2>2, <2>3, <2>6 DEF Segment, Var
    <3>2. s.name # "anything"
      BY <1>3, <2>1, <3>1 DEF IsPath
    <3>3. s = [is |-> "text", name |-> s.name]
      BY <2>2, <3>1 DEF Segment
    <3>4. QED
      BY <2>4, <2>6, <3>2, <3>3
  <2>7. QED
    BY <2>5, <2>6
<1>4. CanonicalizePath(path) = Canonical(w)
  BY <1>2, <1>3 DEF CanonicalizePath, Canonical
<1>5. QED
  BY <1>1, <1>4

\* Calls that differ have fingerprints that differ.
LEMMA PrintsDiffer ==
    ASSUME NEW m, NEW n, IsCall(m), IsCall(n), PrintOf(m) = PrintOf(n)
    PROVE  m = n
<1>1. PICK a, b, p : m = Calling(a, b, p)
  BY DEF IsCall
<1>2. PICK c, d, q : n = Calling(c, d, q)
  BY DEF IsCall
<1>3. PICK v, w : v = Words(p) /\ w = Words(q)
  OBVIOUS
<1>4. m = [method |-> a, origin |-> b, path |-> v]
  BY <1>1, <1>3 DEF Calling, Words
<1>5. n = [method |-> c, origin |-> d, path |-> w]
  BY <1>2, <1>3 DEF Calling, Words
<1>6. PICK x, y : x = Canonical(v) /\ y = Canonical(w)
  OBVIOUS
<1>7. PrintOf(m) = [method |-> a, path |-> x, server |-> [origin |-> b, base |-> <<>>]]
  BY <1>4, <1>6 DEF PrintOf
<1>8. PrintOf(n) = [method |-> c, path |-> y, server |-> [origin |-> d, base |-> <<>>]]
  BY <1>5, <1>6 DEF PrintOf
<1>9. a = c /\ x = y /\ [origin |-> b, base |-> <<>>] = [origin |-> d, base |-> <<>>]
  <2>1. PICK r, s : r = [origin |-> b, base |-> <<>>] /\ s = [origin |-> d, base |-> <<>>]
    OBVIOUS
  <2>2. PICK g, h : g = PrintOf(m) /\ h = PrintOf(n)
    OBVIOUS
  <2>3. g = [method |-> a, path |-> x, server |-> r]
    BY <1>7, <2>1, <2>2
  <2>4. h = [method |-> c, path |-> y, server |-> s]
    BY <1>8, <2>1, <2>2
  <2>5. g.method = a /\ g.path = x /\ g.server = r
    BY <2>3
  <2>6. h.method = c /\ h.path = y /\ h.server = s
    BY <2>4
  <2>7. QED
    BY <2>1, <2>2, <2>5, <2>6
<1>10. b = d
  BY <1>9
<1>11. DOMAIN v = DOMAIN w
  BY <1>6, <1>9 DEF Canonical
<1>12. ASSUME NEW i \in DOMAIN v PROVE v[i] = w[i]
  <2>1. x[i] = IF v[i] = "anything" THEN [is |-> "var", name |-> ""]
               ELSE [is |-> "text", name |-> v[i]]
    BY <1>6, <1>12 DEF Canonical
  <2>2. y[i] = IF w[i] = "anything" THEN [is |-> "var", name |-> ""]
               ELSE [is |-> "text", name |-> w[i]]
    BY <1>6, <1>11, <1>12 DEF Canonical
  <2>3. PICK s, t : s = [is |-> "text", name |-> v[i]] /\ t = [is |-> "text", name |-> w[i]]
    OBVIOUS
  <2>4. PICK z : z = [is |-> "var", name |-> ""]
    OBVIOUS
  <2>5. z.is = "var" /\ s.is = "text" /\ t.is = "text" /\ s.name = v[i] /\ t.name = w[i]
    BY <2>3, <2>4
  <2>6. s # z /\ t # z /\ (s = t => v[i] = w[i])
    BY <2>5
  <2>7. x[i] = y[i]
    BY <1>9
  <2>8. CASE v[i] = "anything"
    <3>1. x[i] = z
      BY <2>1, <2>4, <2>8
    <3>2. w[i] = "anything"
      BY <2>2, <2>3, <2>6, <2>7, <3>1
    <3>3. QED
      BY <2>8, <3>2
  <2>9. CASE v[i] # "anything"
    <3>1. x[i] = s
      BY <2>1, <2>3, <2>9
    <3>2. y[i] = t
      BY <2>2, <2>3, <2>4, <2>6, <2>7, <3>1
    <3>3. QED
      BY <2>6, <2>7, <3>1, <3>2
  <2>10. QED
    BY <2>8, <2>9
<1>13. v = [i \in DOMAIN v |-> v[i]] /\ w = [i \in DOMAIN w |-> w[i]]
  BY <1>3 DEF Words
<1>14. v = w
  BY <1>11, <1>12, <1>13
<1>15. QED
  BY <1>4, <1>5, <1>9, <1>10, <1>14

AreCalls(M) == \A m \in M : IsCall(m)
ArePrints(A, M) == A = {PrintOf(m) : m \in M}

\* Of calls and of their fingerprints as many are new.
LEMMA PrintsAreAsMany ==
    ASSUME NEW M, NEW N, AreCalls(M), AreCalls(N), NEW A, NEW B,
           ArePrints(A, M), ArePrints(B, N), IsFiniteSet(A)
    PROVE  Cardinality(A \ B) = Cardinality(M \ N)
<1>1. PICK D, C : D = A \ B /\ C = M \ N
  OBVIOUS
<1> USE DEF AreCalls, ArePrints
<1>2. PICK f : f = [a \in D |-> CHOOSE m \in M : PrintOf(m) = a]
  OBVIOUS
<1>3. ASSUME NEW a \in D PROVE f[a] \in C /\ PrintOf(f[a]) = a
  <2>1. \E m \in M : PrintOf(m) = a
    BY <1>1
  <2>2. f[a] \in M /\ PrintOf(f[a]) = a
    BY <1>2, <2>1
  <2>3. f[a] \notin N
    BY <1>1, <2>2
  <2>4. QED
    BY <1>1, <2>2, <2>3
<1>4. ASSUME NEW m \in C PROVE \E a \in D : f[a] = m
  <2>1. PrintOf(m) \in A
    BY <1>1
  <2>2. PrintOf(m) \notin B
    <3>1. ASSUME NEW n \in N, PrintOf(n) = PrintOf(m) PROVE FALSE
      <4>1. n = m
        BY <1>1, <3>1, PrintsDiffer
      <4>2. QED
        BY <1>1, <4>1
    <3>2. QED
      BY <3>1
  <2>3. PICK a \in D : a = PrintOf(m)
    BY <1>1, <2>1, <2>2
  <2>4. f[a] \in C /\ PrintOf(f[a]) = PrintOf(m)
    BY <1>3, <2>3
  <2>5. f[a] = m
    BY <1>1, <2>4, PrintsDiffer
  <2>6. QED
    BY <2>5
<1>5. \A a, b \in D : f[a] = f[b] => a = b
  <2>1. ASSUME NEW a \in D, NEW b \in D, f[a] = f[b] PROVE a = b
    <3>1. PrintOf(f[a]) = a /\ PrintOf(f[b]) = b
      BY <1>3
    <3>2. QED
      BY <2>1, <3>1
  <2>2. QED
    BY <2>1
<1>6. f \in [D -> C]
  BY <1>2, <1>3
<1>7. f \in Bijection(D, C)
  BY <1>4, <1>5, <1>6 DEF Bijection, Injection, Surjection, IsInjective
<1>8. ExistsBijection(D, C)
  BY <1>7 DEF ExistsBijection
<1>9. IsFiniteSet(D)
  BY <1>1, FS_Subset
<1>10. Cardinality(C) = Cardinality(D)
  BY <1>8, <1>9, FS_Bijection
<1>11. QED
  BY <1>1, <1>10

LEMMA CallsArePrinted ==
    ASSUME NEW method, NEW origin, NEW path, IsPath(path), PlainPath(path)
    PROVE  [method |-> method, path |-> CanonicalizePath(path),
            server |-> [origin |-> origin, base |-> <<>>]]
              = PrintOf(Calling(method, origin, path))
<1>1. PICK w : w = Words(path)
  OBVIOUS
<1>2. PICK m : m = Calling(method, origin, path)
  OBVIOUS
<1>3. m.method = method /\ m.origin = origin /\ m.path = w
  BY <1>1, <1>2 DEF Calling, Words
<1>4. CanonicalizePath(path) = Canonical(w)
  BY <1>1, WordsAreCanonical
<1>5. QED
  BY <1>2, <1>3, <1>4 DEF PrintOf

\* The operations of an OpenAPI text are those of its paths.
LEMMA OperationsAreOfPaths ==
    ASSUME NEW d \in Doc, Probed(Text[d])
    PROVE  LET operations == Parse(Text[d]).operations
           IN  /\ \E n \in Nat : DOMAIN operations = 1..n
               /\ Range(operations) = UNION {{BuildSample(op, item) : op \in item.ops} :
                                               item \in Text[d].paths}
<1>1. PICK paths : paths = Text[d].paths
  OBVIOUS
<1>2. PICK f : f = [item \in paths |-> {BuildSample(op, item) : op \in item.ops}]
  OBVIOUS
<1>3. PICK T : T = {f[item] : item \in paths}
  OBVIOUS
<1>4. IsFiniteSet(paths) /\ \A item \in paths : IsFiniteSet(item.ops)
  BY <1>1, ApiSourcesAssumption DEF IsObject, IsDescription
<1>5. IsFiniteSet(T)
  <2>1. f \in Surjection(paths, T)
    BY <1>2, <1>3 DEF Surjection
  <2>2. QED
    BY <1>4, <2>1, FS_Surjection
<1>6. ASSUME NEW item \in paths
      PROVE  IsFiniteSet(f[item])
  <2>1. PICK O, U : O = item.ops /\ U = f[item]
    OBVIOUS
  <2>2. PICK g : g = [op \in O |-> BuildSample(op, item)]
    OBVIOUS
  <2>3. U = {BuildSample(op, item) : op \in O}
    BY <1>2, <2>1
  <2>4. g \in Surjection(O, U)
    BY <2>2, <2>3 DEF Surjection
  <2>5. IsFiniteSet(O)
    BY <1>4, <2>1
  <2>6. IsFiniteSet(U)
    BY <2>4, <2>5, FS_Surjection
  <2>7. QED
    BY <2>1, <2>6
<1>7. IsFiniteSet(UNION T)
  <2>1. \A U \in T : IsFiniteSet(U)
    BY <1>3, <1>6
  <2>2. QED
    BY <1>5, <2>1, FS_UNION
<1>8. PICK S : S = UNION T
  OBVIOUS
<1>9. S = UNION {{BuildSample(op, item) : op \in item.ops} : item \in paths}
  BY <1>2, <1>3, <1>8
<1>10. Parse(Text[d]) = OpenApi(Text[d])
  BY DEF Parse, Probed
<1>11. Parse(Text[d]).operations = SetToSeq(S)
  BY <1>1, <1>9, <1>10 DEF OpenApi
<1>12. IsFiniteSet(S)
  BY <1>7, <1>8
<1>13. QED
  BY <1>1, <1>9, <1>11, <1>12, SequencesListAll

\* What is listed of a text on a server of its own.
LEMMA ListedOnServer ==
    ASSUME NEW d \in Doc, NEW from \in {Nowhere, Home}, NEW server,
           Parse(Text[d]).server = server, server # Nowhere
    PROVE  Listed(d, from)
             = {EndpointFingerprint(op, server) : op \in Range(Parse(Text[d]).operations)}
<1>1. PICK operations : operations = Parse(Text[d]).operations
  OBVIOUS
<1>2. Operations[d][from]
        = [i \in DOMAIN operations |-> EndpointFingerprint(operations[i], server)]
  BY <1>1 DEF Operations, Fingerprints
<1>3. PICK s : s = Operations[d][from]
  OBVIOUS
<1>4. DOMAIN s = DOMAIN operations
      /\ \A i \in DOMAIN s : s[i] = EndpointFingerprint(operations[i], server)
  BY <1>2, <1>3
<1>5. Range(s) = {EndpointFingerprint(op, server) : op \in Range(operations)}
  BY <1>4 DEF Range
<1>6. QED
  BY <1>1, <1>3, <1>5 DEF Listed

LEMMA DescriptionsCompare ==
    ASSUME NEW d \in Doc, NEW from \in {Nowhere, Home}, OneServer(Text[d]),
           PlainPaths(Text[d]), Probed(Text[d])
    PROVE  /\ \A m \in Meant[d] : IsCall(m)
           /\ Listed(d, from) = {PrintOf(m) : m \in Meant[d]}
<1>1. PICK text : text = Text[d]
  OBVIOUS
<1>2. IsDescription(text) /\ Detect(text) \in {"openapi3", "openapi2"}
  BY <1>1, ApiSourcesAssumption DEF IsObject, Probed
<1>3. PICK servers \in Seq(Server) : servers = Servers(text)
  BY <1>2 DEF IsDescription
<1>4. Len(servers) > 0 /\ servers[1].base = <<>>
  BY <1>1, <1>2, <1>3 DEF OneServer
<1>5. servers # <<>> /\ servers[1] \in Server
  BY <1>3, <1>4
<1>6. PICK server \in Server : server = servers[1]
  BY <1>5
<1>7. PICK origin : origin = server.origin
  OBVIOUS
<1>8. server = [origin |-> origin, base |-> <<>>] /\ server # Nowhere
  BY <1>4, <1>6, <1>7, ApiSourcesAssumption DEF Server
<1>9. Parse(text).server = server
  BY <1>2, <1>3, <1>5, <1>6 DEF Parse, OpenApi
<1>10. Meant[d] = UNION {{Calling(op.method, origin, item.path) : op \in item.ops} :
                           item \in text.paths}
  <2>1. Meant[d] = UNION {{Calling(op.method, server.origin, server.base \o item.path) :
                             op \in item.ops} : item \in text.paths}
    BY <1>1, <1>2, <1>3, <1>6 DEF Meant, Meaning
  <2>2. \A item \in text.paths : server.base \o item.path = item.path
    <3>1. ASSUME NEW item \in text.paths PROVE server.base \o item.path = item.path
      <4>1. PICK p \in Seq(Segment) : p = item.path
        BY <1>2 DEF IsDescription, IsPath
      <4>2. <<>> \o p = p
        OBVIOUS
      <4>3. QED
        BY <1>4, <1>6, <4>1, <4>2
    <3>2. QED
      BY <3>1
  <2>3. PICK f, g :
           /\ f = [item \in text.paths |->
                     {Calling(op.method, server.origin, server.base \o item.path) : op \in item.ops}]
           /\ g = [item \in text.paths |->
                     {Calling(op.method, origin, item.path) : op \in item.ops}]
    OBVIOUS
  <2>4. ASSUME NEW item \in text.paths PROVE f[item] = g[item]
    <3>1. server.base \o item.path = item.path
      BY <2>2
    <3>2. {Calling(op.method, server.origin, server.base \o item.path) : op \in item.ops}
            = {Calling(op.method, origin, item.path) : op \in item.ops}
      BY <1>7, <3>1
    <3>3. QED
      BY <2>3, <3>2
  <2>5. Meant[d] = UNION {f[item] : item \in text.paths}
    <3>1. PICK T : T = {f[item] : item \in text.paths}
      OBVIOUS
    <3>2. T = {{Calling(op.method, server.origin, server.base \o item.path) : op \in item.ops} :
                 item \in text.paths}
      BY <2>3, <3>1
    <3>3. Meant[d] = UNION T
      BY <2>1, <3>2
    <3>4. QED
      BY <3>1, <3>3
  <2>6. {f[item] : item \in text.paths} = {g[item] : item \in text.paths}
    BY <2>4
  <2>7. Meant[d] = UNION {g[item] : item \in text.paths}
    BY <2>5, <2>6
  <2>8. PICK T : T = {g[item] : item \in text.paths}
    OBVIOUS
  <2>9. T = {{Calling(op.method, origin, item.path) : op \in item.ops} : item \in text.paths}
    BY <2>3, <2>8
  <2>10. QED
    BY <2>7, <2>8, <2>9
<1>11. Listed(d, from)
         = {EndpointFingerprint(op, server) : op \in Range(Parse(text).operations)}
  BY <1>1, <1>8, <1>9, ListedOnServer
<1>12. Range(Parse(text).operations)
         = UNION {{BuildSample(op, item) : op \in item.ops} : item \in text.paths}
  BY <1>1, OperationsAreOfPaths
<1>13. ASSUME NEW item \in text.paths, NEW op \in item.ops
       PROVE  EndpointFingerprint(BuildSample(op, item), server)
                = PrintOf(Calling(op.method, origin, item.path))
  <2>1. IsPath(item.path) /\ PlainPath(item.path)
    BY <1>1, <1>2 DEF IsDescription, PlainPaths
  <2>2. PICK b : b = BuildSample(op, item)
    OBVIOUS
  <2>3. b.method = op.method /\ b.path = item.path
    BY <2>2 DEF BuildSample, Operation
  <2>4. EndpointFingerprint(b, server)
          = [method |-> op.method, path |-> CanonicalizePath(item.path),
             server |-> [origin |-> origin, base |-> <<>>]]
    BY <1>8, <2>3 DEF EndpointFingerprint
  <2>5. QED
    BY <2>1, <2>2, <2>4, CallsArePrinted
<1>14. \A m \in Meant[d] : IsCall(m)
  BY <1>10 DEF IsCall
<1>15. Listed(d, from) \subseteq {PrintOf(m) : m \in Meant[d]}
  <2>1. ASSUME NEW x \in Listed(d, from) PROVE \E m \in Meant[d] : x = PrintOf(m)
    <3>1. PICK item \in text.paths : \E op \in item.ops :
             x = EndpointFingerprint(BuildSample(op, item), server)
      BY <1>11, <1>12, <2>1
    <3>2. PICK op \in item.ops : x = EndpointFingerprint(BuildSample(op, item), server)
      BY <3>1
    <3>3. Calling(op.method, origin, item.path) \in Meant[d]
      BY <1>10
    <3>4. QED
      BY <1>13, <3>2, <3>3
  <2>2. QED
    BY <2>1
<1>16. ASSUME NEW m \in Meant[d] PROVE PrintOf(m) \in Listed(d, from)
  <2>1. PICK item \in text.paths : \E op \in item.ops :
             m = Calling(op.method, origin, item.path)
    BY <1>10
  <2>2. PICK op \in item.ops : m = Calling(op.method, origin, item.path)
    BY <2>1
  <2>3. BuildSample(op, item) \in Range(Parse(text).operations)
    BY <1>12
  <2>4. EndpointFingerprint(BuildSample(op, item), server) \in Listed(d, from)
    BY <1>11, <2>3
  <2>5. QED
    BY <1>13, <2>2, <2>4
<1>17. QED
  BY <1>14, <1>15, <1>16

\* A collection lists each request under the address it has.
LEMMA CollectionsList ==
    ASSUME NEW text, NEW requests, requests = WalkItems(text),
           NEW n \in Nat, DOMAIN requests = 1..n,
           \A r \in Range(requests) :
              r.url.origin # Nowhere /\ IsPath(r.url.path) /\ PlainPath(r.url.path),
           NEW origin, \A r \in Range(requests) : r.url.origin = origin, n # 0,
           origin # "env"
    PROVE  LET server == [origin |-> origin, base |-> <<>>]
           IN  /\ Postman(text).server = server
               /\ {EndpointFingerprint(op, server) : op \in Range(Postman(text).operations)}
                     = {PrintOf(Calling(r.method, r.url.origin, r.url.path)) :
                          r \in Range(requests)}
<1>1. PICK operations : operations = Postman(text).operations
  OBVIOUS
<1>2. operations = [i \in 1..n |->
                      Operation(requests[i].method, PostmanPath(requests[i].url),
                                UrlFromPostman(requests[i].url))]
  BY <1>1 DEF Postman
<1>3. PICK server : server = [origin |-> origin, base |-> <<>>]
  OBVIOUS
<1>4. \A i \in 1..n : requests[i].url.origin # Nowhere /\ requests[i].url.origin = origin
  BY DEF Range
<1>5. Postman(text).server = server
  <2>1. PICK located \in SUBSET Nat :
           located = {i \in DOMAIN requests : requests[i].url.origin # Nowhere}
    <3>1. {i \in DOMAIN requests : requests[i].url.origin # Nowhere} \in SUBSET Nat
      OBVIOUS
    <3>2. QED
      BY <3>1
  <2>2. located # {}
    BY <1>4, <2>1
  <2>3. PICK k \in located : \A i \in located : k <= i
    BY <2>2, SomeIsLeast
  <2>4. Min(located) \in located
    BY <2>3 DEF Min
  <2>5. requests[Min(located)].url.origin = origin
    BY <1>4, <2>1, <2>4
  <2>6. QED
    BY <1>3, <2>1, <2>2, <2>5 DEF Postman, FakeOrigin
<1>6. ASSUME NEW i \in 1..n
      PROVE  EndpointFingerprint(operations[i], server)
               = PrintOf(Calling(requests[i].method, requests[i].url.origin,
                                 requests[i].url.path))
  <2>1. PICK url, path : url = requests[i].url /\ path = url.path
    OBVIOUS
  <2>2. url.origin = origin /\ origin # Nowhere /\ IsPath(path) /\ PlainPath(path)
    BY <1>4, <2>1 DEF Range
  <2>3. PICK braced : braced = UrlFromPostman(url)
    OBVIOUS
  <2>4. DOMAIN braced = DOMAIN path
        /\ \A k \in DOMAIN path : braced[k] = IF url.parts /\ path[k].is = "colon"
                                             THEN [path[k] EXCEPT !.is = "brace"] ELSE path[k]
    BY <2>1, <2>3 DEF UrlFromPostman
  <2>5. ASSUME NEW k \in DOMAIN path
        PROVE  /\ braced[k].is # "env"
               /\ CanonicalizePath(braced)[k] = CanonicalizePath(path)[k]
    <3>1. PICK s : s = path[k]
      OBVIOUS
    <3>2. s \in Segment /\ s.is # "env"
      BY <2>2, <2>5, <3>1 DEF IsPath, PlainPath
    <3>3. PICK t : t = [s EXCEPT !.is = "brace"]
      OBVIOUS
    <3>4. t.is = "brace"
      BY <3>2, <3>3 DEF Segment
    <3>5. braced[k] = IF url.parts /\ s.is = "colon" THEN t ELSE s
      BY <2>4, <2>5, <3>1, <3>3
    <3>6. CanonicalizePath(path)[k] = IF Var(s) THEN [is |-> "var", name |-> ""] ELSE s
      BY <2>5, <3>1, <3>2 DEF CanonicalizePath
    <3>7. CASE url.parts /\ s.is = "colon"
      <4>1. CanonicalizePath(braced)[k] = [is |-> "var", name |-> ""]
        BY <2>4, <2>5, <3>4, <3>5, <3>7 DEF CanonicalizePath, Var
      <4>2. QED
        BY <3>4, <3>5, <3>6, <3>7, <4>1 DEF Var
    <3>8. CASE ~(url.parts /\ s.is = "colon")
      <4>1. CanonicalizePath(braced)[k] = IF Var(s) THEN [is |-> "var", name |-> ""] ELSE s
        BY <2>4, <2>5, <3>2, <3>5, <3>8 DEF CanonicalizePath
      <4>2. QED
        BY <3>2, <3>5, <3>6, <3>8, <4>1
    <3>9. QED
      BY <3>7, <3>8
  <2>6. CanonicalizePath(braced) = CanonicalizePath(path)
    BY <2>4, <2>5 DEF CanonicalizePath
  <2>7. CanonicalizePath(PostmanPath(url)) = CanonicalizePath(braced)
    <3>1. PICK fake : fake = Fake(braced)
      OBVIOUS
    <3>2. DOMAIN fake = DOMAIN braced /\ \A k \in DOMAIN braced : fake[k] = braced[k]
      BY <2>4, <2>5, <3>1 DEF Fake
    <3>3. CanonicalizePath(fake) = CanonicalizePath(braced)
      <4>1. ASSUME NEW k \in DOMAIN braced
            PROVE  CanonicalizePath(fake)[k] = CanonicalizePath(braced)[k]
        <5>1. PICK s, t : s = fake[k] /\ t = braced[k] /\ s = t
          BY <3>2
        <5>2. CanonicalizePath(fake)[k] = CASE Var(s) -> [is |-> "var", name |-> ""]
                                            [] s.is = "env" -> [is |-> "var", name |-> "}"]
                                            [] OTHER -> s
          BY <3>2, <5>1 DEF CanonicalizePath
        <5>3. CanonicalizePath(braced)[k] = CASE Var(t) -> [is |-> "var", name |-> ""]
                                              [] t.is = "env" -> [is |-> "var", name |-> "}"]
                                              [] OTHER -> t
          BY <5>1 DEF CanonicalizePath
        <5>4. QED
          BY <5>1, <5>2, <5>3
      <4>2. QED
        BY <3>2, <4>1 DEF CanonicalizePath
    <3>4. QED
      BY <2>2, <2>3, <3>1, <3>3 DEF PostmanPath
  <2>8. PICK op : op = operations[i]
    OBVIOUS
  <2>9. op.method = requests[i].method /\ op.path = PostmanPath(url)
    BY <1>2, <2>1, <2>8 DEF Operation
  <2>10. EndpointFingerprint(op, server)
           = [method |-> requests[i].method, path |-> CanonicalizePath(path),
              server |-> [origin |-> origin, base |-> <<>>]]
    BY <1>3, <2>6, <2>7, <2>9 DEF EndpointFingerprint
  <2>11. QED
    BY <2>1, <2>2, <2>8, <2>10, CallsArePrinted
<1>7. PICK f, g : /\ f = [i \in 1..n |-> EndpointFingerprint(operations[i], server)]
                  /\ g = [i \in 1..n |-> PrintOf(Calling(requests[i].method,
                                            requests[i].url.origin, requests[i].url.path))]
  OBVIOUS
<1>8. f = g
  BY <1>6, <1>7
<1>9. {EndpointFingerprint(op, server) : op \in Range(operations)} = {f[i] : i \in 1..n}
  <2>1. DOMAIN operations = 1..n
    BY <1>2
  <2>2. QED
    BY <1>7, <2>1 DEF Range
<1>10. {PrintOf(Calling(r.method, r.url.origin, r.url.path)) : r \in Range(requests)}
          = {g[i] : i \in 1..n}
  BY <1>7 DEF Range
<1>11. QED
  BY <1>1, <1>3, <1>5, <1>8, <1>9, <1>10

\* A set of two has one besides either.
LEMMA OneBesides ==
    ASSUME NEW S, IsFiniteSet(S), NEW x \in S, Cardinality(S) = 2
    PROVE  \E y : \A z \in S : z = x \/ z = y
<1>1. PICK U : U = S \ {x}
  OBVIOUS
<1>2. IsFiniteSet(U) /\ Cardinality(U) = Cardinality(S) - 1
  BY <1>1, FS_RemoveElement
<1>3. Cardinality(U) = 1
  BY <1>2
<1>4. PICK y : U = {y}
  BY <1>3, <1>2, FS_Singleton
<1>5. QED
  BY <1>1, <1>4

LEMMA CollectionsCompare ==
    ASSUME NEW d \in Doc, NEW from \in {Nowhere, Home}, OneServer(Text[d]),
           PlainPaths(Text[d]), Detect(Text[d]) = "postman21"
    PROVE  /\ \A m \in Meant[d] : IsCall(m)
           /\ Listed(d, from) = {PrintOf(m) : m \in Meant[d]}
<1>1. PICK text, nodes : text = Text[d] /\ nodes = text.nodes
  OBVIOUS
<1>2. IsCollection(text)
  BY <1>1, ApiSourcesAssumption DEF IsObject
<1>3. PICK requests : requests = WalkItems(text)
  OBVIOUS
<1>4. PICK R : R = Requests(nodes)
  OBVIOUS
<1>5. requests \in Seq(R) /\ Range(requests) = R
  BY <1>1, <1>2, <1>3, <1>4, WalkFindsAll
<1>6. PICK n \in Nat : n = Len(requests) /\ DOMAIN requests = 1..n
  BY <1>5
<1>7. Meant[d] = {Calling(r.method, r.url.origin, r.url.path) : r \in R}
  <2>1. PICK K : K = {k \in DOMAIN nodes : nodes[k].is = "request"}
    OBVIOUS
  <2>2. Meant[d] = {Calling(nodes[k].method, nodes[k].url.origin, nodes[k].url.path) : k \in K}
    BY <1>1, <2>1 DEF Meant, Meaning
  <2>3. R = {nodes[k] : k \in K}
    BY <1>4, <2>1 DEF Requests, Folder
  <2>4. QED
    BY <2>2, <2>3
<1>8. \A r \in R : Calling(r.method, r.url.origin, r.url.path).origin = r.url.origin
  BY DEF Calling
<1>9. \A m \in Meant[d] : IsCall(m)
  BY <1>7 DEF IsCall
<1>10. PICK S : S = {m.origin : m \in Meant[d]} \cup {Nowhere}
  OBVIOUS
<1>11. Cardinality(S) = 2 /\ \A m \in Meant[d] : m.origin \notin {Nowhere, "env"}
  BY <1>1, <1>10 DEF OneServer, Meant
<1>12. IsFiniteSet(S)
  <2>1. PICK O : O = {m.origin : m \in Meant[d]}
    OBVIOUS
  <2>2. PICK f : f = [i \in 1..n |-> requests[i].url.origin]
    OBVIOUS
  <2>3. O = {r.url.origin : r \in R}
    BY <1>7, <1>8, <2>1
  <2>4. f \in Surjection(1..n, O)
    BY <1>5, <1>6, <2>2, <2>3 DEF Surjection, Range
  <2>5. IsFiniteSet(1..n)
    BY FS_Interval
  <2>6. IsFiniteSet(O)
    BY <2>4, <2>5, FS_Surjection
  <2>7. IsFiniteSet(O \cup {Nowhere})
    BY <2>6, FS_AddElement
  <2>8. QED
    BY <1>10, <2>1, <2>7
<1>13. PICK origin : \A z \in S : z = Nowhere \/ z = origin
  <2>1. Nowhere \in S /\ Cardinality(S) = 2
    BY <1>10, <1>11
  <2>2. PICK x : x = Nowhere
    OBVIOUS
  <2>3. x \in S
    BY <2>1, <2>2
  <2>4. \E y : \A z \in S : z = x \/ z = y
    BY <1>12, <2>1, <2>3, OneBesides
  <2>5. QED
    BY <2>2, <2>4
<1>14. \A r \in R : r.url.origin \notin {Nowhere, "env"} /\ r.url.origin = origin
  <2>1. ASSUME NEW r \in R
        PROVE  r.url.origin \notin {Nowhere, "env"} /\ r.url.origin = origin
    <3>1. PICK m \in Meant[d] : m.origin = r.url.origin
      BY <1>7, <1>8, <2>1
    <3>2. m.origin \notin {Nowhere, "env"} /\ m.origin \in S
      BY <1>10, <1>11, <3>1
    <3>3. QED
      BY <1>13, <3>1, <3>2
  <2>2. QED
    BY <2>1
<1>15. \A r \in R : IsPath(r.url.path) /\ PlainPath(r.url.path)
  BY <1>1, <1>2, <1>4 DEF IsCollection, Requests, Folder, PlainPaths
<1>16. n # 0
  <2>1. ASSUME n = 0 PROVE FALSE
    <3>1. R = {}
      BY <1>5, <1>6, <2>1 DEF Range
    <3>2. Meant[d] = {}
      BY <1>7, <3>1
    <3>3. S = {Nowhere}
      BY <1>10, <3>2
    <3>4. Cardinality(S) = 1
      BY <3>3, FS_Singleton
    <3>5. QED
      BY <1>11, <3>4
  <2>2. QED
    BY <2>1
<1>17. PICK server : server = [origin |-> origin, base |-> <<>>]
  OBVIOUS
<1>18. /\ Postman(text).server = server
       /\ {EndpointFingerprint(op, server) : op \in Range(Postman(text).operations)}
             = {PrintOf(Calling(r.method, r.url.origin, r.url.path)) : r \in R}
  <2>1. /\ \A r \in Range(requests) :
              r.url.origin # Nowhere /\ IsPath(r.url.path) /\ PlainPath(r.url.path)
        /\ \A r \in Range(requests) : r.url.origin = origin
        /\ origin # "env"
    <3>1. PICK r \in R : TRUE
      BY <1>5, <1>6, <1>16 DEF Range
    <3>2. QED
      BY <1>5, <1>14, <1>15, <3>1
  <2>2. LET own == [origin |-> origin, base |-> <<>>]
        IN  /\ Postman(text).server = own
            /\ {EndpointFingerprint(op, own) : op \in Range(Postman(text).operations)}
                  = {PrintOf(Calling(r.method, r.url.origin, r.url.path)) :
                       r \in Range(requests)}
    BY <1>3, <1>6, <1>16, <2>1, CollectionsList
  <2>3. QED
    BY <1>5, <1>17, <2>2
<1>19. origin \in STRING
  <2>1. PICK r \in R : TRUE
    BY <1>5, <1>6, <1>16 DEF Range
  <2>2. r.url.origin \in STRING \cup {Nowhere}
    BY <1>1, <1>2, <1>4 DEF IsCollection, Requests, Folder
  <2>3. QED
    BY <1>14, <2>2
<1>20. server # Nowhere
  <2>1. <<>> \in Seq(Segment)
    OBVIOUS
  <2>2. server \in Server
    BY <1>17, <1>19, <2>1 DEF Server
  <2>3. QED
    BY <2>2, ApiSourcesAssumption
<1>21. Parse(text) = Postman(text)
  BY <1>1 DEF Parse
<1>22. Listed(d, from)
         = {EndpointFingerprint(op, server) : op \in Range(Postman(text).operations)}
  BY <1>1, <1>18, <1>20, <1>21, ListedOnServer
<1>23. {PrintOf(Calling(r.method, r.url.origin, r.url.path)) : r \in R}
         = {PrintOf(m) : m \in Meant[d]}
  BY <1>7
<1>24. QED
  BY <1>9, <1>18, <1>22, <1>23

LEMMA OperationsAreSequences ==
    ASSUME NEW d \in Doc
    PROVE  \E n \in Nat : DOMAIN Parse(Text[d]).operations = 1..n
<1>1. PICK text : text = Text[d]
  OBVIOUS
<1>2. CASE Probed(text)
  BY <1>1, <1>2, OperationsAreOfPaths
<1>3. CASE Detect(text) = "postman21"
  <2>1. IsCollection(text)
    BY <1>1, <1>3, ApiSourcesAssumption DEF IsObject
  <2>2. PICK requests : requests = WalkItems(text)
    OBVIOUS
  <2>3. \E n \in Nat : DOMAIN requests = 1..n
    <3>1. requests \in Seq(Requests(text.nodes))
      BY <2>1, <2>2, WalkFindsAll
    <3>2. QED
      BY <3>1
  <2>4. DOMAIN Postman(text).operations = DOMAIN requests
    BY <2>2 DEF Postman
  <2>5. Parse(text) = Postman(text)
    BY <1>3 DEF Parse
  <2>6. QED
    BY <1>1, <2>3, <2>4, <2>5
<1>4. CASE ~Probed(text) /\ Detect(text) # "postman21"
  <2>1. \A x : DOMAIN <<x>> = 1..1 /\ DOMAIN <<>> = 1..0
    OBVIOUS
  <2>2. DOMAIN Curl(text).operations = 1..1 /\ DOMAIN SiteItself(text).operations = 1..1
    BY <2>1 DEF Curl, SiteItself
  <2>3. \/ Parse(text) = Curl(text) \/ Parse(text) = SiteItself(text)
        \/ Parse(text) = [server |-> Nowhere, operations |-> <<>>]
    BY <1>4 DEF Parse, Probed
  <2>4. [server |-> Nowhere, operations |-> <<>>].operations = <<>>
    OBVIOUS
  <2>5. QED
    BY <1>1, <2>1, <2>2, <2>3, <2>4
<1>5. QED
  BY <1>2, <1>3, <1>4

\* What a content lists does not depend on where it came from, but for names.
LEMMA ListingsAreAsLong ==
    ASSUME NEW d \in Doc, NEW from \in {Nowhere, Home}
    PROVE  /\ Len(Operations[d][from]) \in Nat
           /\ Len(Operations[d][from]) = Len(Operations[d][Home])
<1>1. PICK s, t : s = Operations[d][from] /\ t = Operations[d][Home]
  OBVIOUS
<1>2. PICK n \in Nat : DOMAIN Parse(Text[d]).operations = 1..n
  BY OperationsAreSequences
<1>3. \E f, g : s = [i \in 1..n |-> f[i]] /\ t = [i \in 1..n |-> g[i]]
  <2>1. PICK operations, server, own :
           /\ operations = Parse(Text[d]).operations
           /\ server = IF Parse(Text[d]).server = Nowhere THEN from ELSE Parse(Text[d]).server
           /\ own = IF Parse(Text[d]).server = Nowhere THEN Home ELSE Parse(Text[d]).server
    OBVIOUS
  <2>2. PICK f, g :
           /\ f = [i \in 1..n |-> EndpointFingerprint(operations[i], server)]
           /\ g = [i \in 1..n |-> EndpointFingerprint(operations[i], own)]
    OBVIOUS
  <2>3. s = f
    BY <1>1, <1>2, <2>1, <2>2 DEF Operations, Fingerprints
  <2>4. t = g
    BY <1>1, <1>2, <2>1, <2>2 DEF Operations, Fingerprints
  <2>5. f = [i \in 1..n |-> f[i]] /\ g = [i \in 1..n |-> g[i]]
    BY <2>2
  <2>6. QED
    BY <2>3, <2>4, <2>5
<1>4. Len(s) = n /\ Len(t) = n
  BY <1>3
<1>5. QED
  BY <1>1, <1>4

LEMMA ListingsAreFinite ==
    ASSUME NEW d \in Doc, NEW from \in {Nowhere, Home}
    PROVE  IsFiniteSet(Listed(d, from))
<1>1. PICK s : s = Operations[d][from]
  OBVIOUS
<1>2. PICK n \in Nat : DOMAIN s = 1..n
  <2>1. DOMAIN s = DOMAIN Parse(Text[d]).operations
    BY <1>1 DEF Operations, Fingerprints
  <2>2. QED
    BY <2>1, OperationsAreSequences
<1>3. PICK f : f = [i \in 1..n |-> s[i]]
  OBVIOUS
<1>4. PICK T : T = Listed(d, from)
  OBVIOUS
<1>5. f \in Surjection(1..n, T)
  BY <1>1, <1>2, <1>3, <1>4 DEF Surjection, Listed, Range
<1>6. IsFiniteSet(1..n)
  BY FS_Interval
<1>7. IsFiniteSet(T)
  BY <1>5, <1>6, FS_Surjection
<1>8. QED
  BY <1>4, <1>7

\* Of any two texts of OpenAPI or Postman whose calls all go to the root of one
\* server, at paths without a query and without {{variables}}, as many
\* fingerprints are new in one as calls, whatever words they have for the
\* variables (fingerprint.js:3-8, which promises it of all texts).
THEOREM FormatsMeanTheSame == FormatsAgree
<1> SUFFICES ASSUME NEW old \in Comparable, NEW new \in Comparable,
                    NEW from \in {Nowhere, Home}
             PROVE  LET was == Range(Operations[old][from])
                        now == Range(Operations[new][Home])
                    IN  /\ Cardinality(now \ was) = Cardinality(Meant[new] \ Meant[old])
                        /\ Cardinality(was \ now) = Cardinality(Meant[old] \ Meant[new])
  BY DEF FormatsAgree
<1>1. ASSUME NEW d \in Comparable, NEW by \in {Nowhere, Home}
      PROVE  /\ d \in Doc /\ \A m \in Meant[d] : IsCall(m)
             /\ Listed(d, by) = {PrintOf(m) : m \in Meant[d]} /\ IsFiniteSet(Listed(d, by))
  <2>1. d \in Doc /\ OneServer(Text[d]) /\ PlainPaths(Text[d])
    BY DEF Comparable
  <2>2. Probed(Text[d]) \/ Detect(Text[d]) = "postman21"
    BY <2>1 DEF OneServer, Probed
  <2>3. QED
    BY <2>1, <2>2, DescriptionsCompare, CollectionsCompare, ListingsAreFinite
<1>2. PICK M, N, was, now : /\ M = Meant[new] /\ N = Meant[old]
                            /\ was = Listed(old, from) /\ now = Listed(new, Home)
  OBVIOUS
<1>3. AreCalls(M) /\ AreCalls(N)
  BY <1>1, <1>2 DEF AreCalls
<1>4. ArePrints(now, M) /\ ArePrints(was, N)
  BY <1>1, <1>2 DEF ArePrints
<1>5. IsFiniteSet(now) /\ IsFiniteSet(was)
  BY <1>1, <1>2
<1>6. Cardinality(now \ was) = Cardinality(M \ N)
  BY <1>3, <1>4, <1>5, PrintsAreAsMany
<1>7. Cardinality(was \ now) = Cardinality(N \ M)
  BY <1>3, <1>4, <1>5, PrintsAreAsMany
<1>8. QED
  BY <1>2, <1>6, <1>7 DEF Listed

(***************************************************************************)
(* The API source.                                                         *)
(***************************************************************************)

\* What an import found of a content.
Drift(d) == [added |-> Cardinality(Listed(d, Home) \ endpoint),
             removed |-> Cardinality(endpoint \ Listed(d, Home))]

Importing(j) == j.kind \in {"ingest", "paste"}
\* Past the comparison with the versions.
Compared(j) == j.at \in {"compare", "version", "update"}

IsCaller(j) ==
    /\ DOMAIN j = {"at", "kind", "url", "hops", "doc", "spec", "id", "drift",
                   "chosen", "written", "alone"}
    /\ j.alone \in BOOLEAN
    /\ j.at = "idle" => j.kind = Missing
    /\ j.at = "fetch" => Importing(j) \/ j.kind = "refresh"
    /\ j.at = "parse" => /\ Importing(j) \/ j.kind = "refresh"
                         /\ j.doc \in Doc /\ j.spec \in Doc \cup {Missing}
    /\ Compared(j) => /\ j.kind = "refresh" /\ j.doc \in Doc
                      /\ j.spec \in Doc \cup {Missing}
    /\ j.at \in {"open", "insert"} => j.kind = "commit" /\ j.chosen # {}
    /\ j.at # "insert" => j.written = {}

\* The request of c, as j: what it has found is still so, and no other does
\* what it does.
CallerStands(c, j) ==
    /\ IsCaller(j)
    /\ Importing(j) => source = Missing /\ \A d \in Caller \ {c} : ~Importing(client[d])
    /\ j.kind = "refresh" => source # Missing
    /\ j.at \in {"version", "update"} => j.spec \in Doc /\ j.drift = Drift(j.spec)
    /\ j.at = "update" =>
          /\ j.id \in Nat /\ 1 < j.id /\ j.id < nextId /\ j.id \notin DOMAIN version
          /\ \A d \in Caller \ {c} : client[d].at = "update" => client[d].id # j.id
    /\ j.kind = "refresh" /\ j.alone =>
          /\ \A d \in Caller \ {c} : ~Refreshing(d)
          /\ Compared(j) => \A i \in DOMAIN version : version[i].doc # j.doc
    /\ j.written # {} => collection

\* A version, as the import of the source and the documents would have it.
VersionStands(i) ==
    /\ DOMAIN version[i] = {"doc", "spec", "count", "added", "removed"}
    /\ version[i].spec \in Doc
    /\ i # 1 => /\ version[i].added = Drift(version[i].spec).added
                /\ version[i].removed = Drift(version[i].spec).removed

CatalogStands ==
    /\ nextId \in Nat /\ nextId >= 1
    /\ DOMAIN version \subseteq 1..(nextId - 1)
    /\ \A i \in DOMAIN version : VersionStands(i)
    /\ source = Missing => DOMAIN version = {} /\ nextId = 1
    /\ source # Missing =>
          /\ source \in SourceRow
          /\ 1 \in DOMAIN version
          /\ source.current \in DOMAIN version
          /\ source.count = Len(Operations[version[source.current].spec][Home])
          /\ \E from \in {Nowhere, Home} : endpoint = Listed(version[1].spec, from)

ContentsApart ==
    \A i, k \in DOMAIN version :
       version[i].doc = version[k].doc => i = k \/ {i, k} \cap overlapped # {}

\* The strengthening of HistoryIsHonest and ImportIsWhole.
SourcesInv ==
    /\ DOMAIN client = Caller /\ DOMAIN test = Caller /\ collection \in BOOLEAN
    /\ CatalogStands /\ ContentsApart
    /\ \A c \in Caller : CallerStands(c, client[c])

LEMMA RestStands == ASSUME NEW c PROVE CallerStands(c, Rest)
BY ApiSourcesAssumption
   DEF CallerStands, IsCaller, Rest, Importing, Compared, RequestKind

LEMMA SourcesStart == SourceInit => SourcesInv
<1> SUFFICES ASSUME SourceInit PROVE SourcesInv
  OBVIOUS
<1>1. CatalogStands /\ ContentsApart
  BY DEF SourceInit, CatalogStands, ContentsApart
<1>2. \A c \in Caller : client[c] = Rest
  BY DEF SourceInit
<1>3. \A c \in Caller : CallerStands(c, client[c])
  BY <1>2, RestStands
<1>4. QED
  BY <1>1, <1>3 DEF SourceInit, SourcesInv

\* A request moves, and leaves the catalog and the tests alone.
LEMMA CallerMoves ==
    ASSUME NEW c \in Caller, NEW j, SourcesInv, UNCHANGED <<catalog, collection>>,
           DOMAIN test' = Caller,
           Goto(c, j), CallerStands(c, j), j.kind = "refresh" => Refreshing(c)
    PROVE  SourcesInv'
<1>1. /\ DOMAIN client' = Caller /\ client'[c] = j
      /\ \A d \in Caller \ {c} : client'[d] = client[d]
  BY DEF SourcesInv, Goto
<1>2. CatalogStands' /\ ContentsApart'
  BY DEF SourcesInv, CatalogStands, ContentsApart, VersionStands, Drift, catalog
<1>3. CallerStands(c, j)'
  BY <1>1 DEF CallerStands, Drift, catalog, Refreshing
<1>4. ASSUME NEW d \in Caller \ {c}
      PROVE  CallerStands(d, client[d])'
  <2>1. CallerStands(d, client[d])
    BY DEF SourcesInv
  <2>2. QED
    BY <1>1, <2>1 DEF CallerStands, Drift, catalog, Refreshing
<1>5. QED
  BY <1>1, <1>2, <1>3, <1>4 DEF SourcesInv, catalog

LEMMA SpecsAreDocuments == ASSUME NEW d \in Doc PROVE SpecOf(d) \in Doc \cup {Missing}
BY DEF SpecOf

LEMMA RespondSound ==
    ASSUME NEW c \in Caller, NEW doc \in Served, SourcesInv, Respond(c, doc)
    PROVE  SourcesInv'
<1>1. PICK j : j = [client[c] EXCEPT !.at = "parse", !.url = Missing, !.hops = 0,
                                     !.doc = doc, !.spec = SpecOf(doc)]
  OBVIOUS
<1>2. CallerStands(c, client[c]) /\ client[c].at = "fetch" /\ doc \in Doc
  BY ApiSourcesAssumption DEF SourcesInv, Respond, Awaits
<1>3. CallerStands(c, j) /\ j.kind = client[c].kind
  BY <1>1, <1>2, SpecsAreDocuments DEF CallerStands, IsCaller, Importing, Compared
<1>4. QED
  BY <1>1, <1>3, CallerMoves DEF Respond, Refreshing, tests, SourcesInv

LEMMA GiveUpSound ==
    ASSUME NEW c \in Caller, SourcesInv, Goto(c, Rest), UNCHANGED <<catalog, tests>>
    PROVE  SourcesInv'
<1>1. Rest.kind # "refresh"
  BY ApiSourcesAssumption DEF Rest, RequestKind
<1>2. QED
  BY <1>1, RestStands, CallerMoves DEF tests, SourcesInv

LEMMA RedirectSound ==
    ASSUME NEW c \in Caller, NEW url \in Url, SourcesInv, Redirect(c, url)
    PROVE  SourcesInv'
<1>1. CASE client[c].hops = MaxRedirects
  BY <1>1, GiveUpSound DEF Redirect
<1>2. CASE client[c].hops # MaxRedirects
  <2>1. PICK j : j = [client[c] EXCEPT !.url = url, !.hops = @ + 1]
    OBVIOUS
  <2>2. CallerStands(c, client[c]) /\ client[c].at = "fetch"
    BY DEF SourcesInv, Redirect, Awaits
  <2>3. CallerStands(c, j) /\ j.kind = client[c].kind
    BY <2>1, <2>2 DEF CallerStands, IsCaller, Importing, Compared
  <2>4. QED
    BY <1>2, <2>1, <2>3, CallerMoves DEF Redirect, Refreshing, tests, SourcesInv
<1>3. QED
  BY <1>1, <1>2

LEMMA IngestSourceSound ==
    ASSUME NEW c \in Caller, SourcesInv, IngestSource(c)
    PROVE  SourcesInv'
<1>1. PICK j : j = [Rest EXCEPT !.at = "fetch", !.kind = "ingest", !.url = Home]
  OBVIOUS
<1>2. CallerStands(c, j) /\ j.kind # "refresh"
  BY <1>1 DEF CallerStands, IsCaller, Importing, Compared, Rest, IngestSource
<1>3. QED
  BY <1>1, <1>2, CallerMoves DEF IngestSource, tests, SourcesInv

LEMMA PasteSourceSound ==
    ASSUME NEW c \in Caller, NEW doc \in Doc, SourcesInv, PasteSource(c, doc)
    PROVE  SourcesInv'
<1>1. PICK j : j = [Rest EXCEPT !.at = "parse", !.kind = "paste",
                                !.doc = doc, !.spec = SpecOf(doc)]
  OBVIOUS
<1>2. CallerStands(c, j) /\ j.kind # "refresh"
  BY <1>1, SpecsAreDocuments
     DEF CallerStands, IsCaller, Importing, Compared, Rest, PasteSource
<1>3. QED
  BY <1>1, <1>2, CallerMoves DEF PasteSource, tests, SourcesInv

LEMMA ProbeSound ==
    ASSUME NEW c \in Caller, NEW spec \in Doc, SourcesInv, Probe(c, spec)
    PROVE  SourcesInv'
<1>1. PICK j : j = [client[c] EXCEPT !.spec = spec]
  OBVIOUS
<1>2. CallerStands(c, client[c]) /\ client[c].at \in {"compare", "parse"}
  BY DEF SourcesInv, Probe, Awaits
<1>3. CallerStands(c, j) /\ j.kind = client[c].kind
  BY <1>1, <1>2 DEF CallerStands, IsCaller, Importing, Compared
<1>4. QED
  BY <1>1, <1>3, CallerMoves DEF Probe, Refreshing, tests, SourcesInv

LEMMA CompareSound ==
    ASSUME NEW c \in Caller, SourcesInv, Compare(c)
    PROVE  SourcesInv'
<1>1. CASE \E i \in DOMAIN version : version[i].doc = client[c].doc
  BY <1>1, GiveUpSound DEF Compare
<1>2. CASE ~\E i \in DOMAIN version : version[i].doc = client[c].doc
  <2>1. PICK j : j = [client[c] EXCEPT !.at = "compare"]
    OBVIOUS
  <2>2. CallerStands(c, client[c]) /\ client[c].at = "parse" /\ Refreshing(c)
    BY DEF SourcesInv, Compare, Awaits
  <2>3. CallerStands(c, j)
    BY <1>2, <2>1, <2>2 DEF CallerStands, IsCaller, Importing, Compared, Refreshing
  <2>4. QED
    BY <1>2, <2>1, <2>2, <2>3, CallerMoves
       DEF Compare, Then, tests, SourcesInv
<1>3. QED
  BY <1>1, <1>2

LEMMA CountDriftSound ==
    ASSUME NEW c \in Caller, SourcesInv, CountDrift(c)
    PROVE  SourcesInv'
<1>1. CallerStands(c, client[c]) /\ client[c].at = "compare" /\ client[c].spec # Missing
  BY DEF SourcesInv, CountDrift, Awaits
<1>2. CASE ~Readable(Text[client[c].spec])
  BY <1>2, GiveUpSound DEF CountDrift
<1>3. CASE Readable(Text[client[c].spec])
  <2>1. PICK j : j = [client[c] EXCEPT !.at = "version", !.drift = Drift(client[c].spec)]
    OBVIOUS
  <2>2. Goto(c, j)
    BY <1>3, <2>1 DEF CountDrift, Drift, Listed
  <2>3. CallerStands(c, j) /\ j.kind = client[c].kind
    BY <1>1, <2>1 DEF CallerStands, IsCaller, Importing, Compared
  <2>4. QED
    BY <2>2, <2>3, CallerMoves DEF CountDrift, Refreshing, tests, SourcesInv
<1>4. QED
  BY <1>2, <1>3

LEMMA CommitToCollectionSound ==
    ASSUME NEW c \in Caller, NEW chosen \in SUBSET endpoint, SourcesInv,
           CommitToCollection(c, chosen)
    PROVE  SourcesInv'
<1>1. PICK j : j = [Rest EXCEPT !.at = "open", !.kind = "commit", !.chosen = chosen]
  OBVIOUS
<1>2. CallerStands(c, j) /\ j.kind # "refresh"
  BY <1>1 DEF CallerStands, IsCaller, Importing, Compared, Rest, CommitToCollection
<1>3. QED
  BY <1>1, <1>2, CallerMoves DEF CommitToCollection, tests, SourcesInv

LEMMA CheckCollectionSound ==
    ASSUME NEW c \in Caller, SourcesInv, CheckCollection(c)
    PROVE  SourcesInv'
<1>1. CASE ~collection
  BY <1>1, GiveUpSound DEF CheckCollection
<1>2. CASE collection
  <2>1. PICK j : j = [client[c] EXCEPT !.at = "insert"]
    OBVIOUS
  <2>2. CallerStands(c, client[c]) /\ client[c].at = "open"
    BY DEF SourcesInv, CheckCollection, Awaits
  <2>3. CallerStands(c, j) /\ j.kind = client[c].kind
    BY <2>1, <2>2 DEF CallerStands, IsCaller, Importing, Compared
  <2>4. QED
    BY <1>2, <2>1, <2>3, CallerMoves DEF CheckCollection, Then, Refreshing, tests, SourcesInv
<1>3. QED
  BY <1>1, <1>2

LEMMA InsertTestSound ==
    ASSUME NEW c \in Caller, SourcesInv, InsertTest(c)
    PROVE  SourcesInv'
<1>1. CASE ~collection
  BY <1>1, GiveUpSound DEF InsertTest
<1>2. CASE collection
  <2>1. PICK e : Goto(c, [client[c] EXCEPT !.written = @ \cup {e}])
    BY <1>2 DEF InsertTest
  <2>2. PICK j : j = [client[c] EXCEPT !.written = @ \cup {e}]
    OBVIOUS
  <2>3. CallerStands(c, client[c]) /\ client[c].at = "insert"
    BY DEF SourcesInv, InsertTest, Awaits
  <2>4. CallerStands(c, j) /\ j.kind = client[c].kind
    BY <1>2, <2>2, <2>3 DEF CallerStands, IsCaller, Importing, Compared
  <2>5. QED
    BY <2>1, <2>2, <2>4, CallerMoves DEF InsertTest, Refreshing, tests, SourcesInv
<1>3. QED
  BY <1>1, <1>2

LEMMA CommitTestsSound ==
    ASSUME NEW c \in Caller, SourcesInv, CommitTests(c)
    PROVE  SourcesInv'
<1>1. Rest.kind # "refresh" /\ DOMAIN test' = Caller
  BY ApiSourcesAssumption DEF Rest, RequestKind, CommitTests, SourcesInv
<1>2. QED
  BY <1>1, RestStands, CallerMoves DEF CommitTests

LEMMA ImportSound ==
    ASSUME NEW c \in Caller, SourcesInv, Import(c)
    PROVE  SourcesInv'
<1>1. PICK j, from : /\ j = client[c]
                      /\ from = IF j.kind = "ingest" THEN Home ELSE Nowhere
  OBVIOUS
<1>2. PICK ops : ops = Operations[j.spec][from]
  OBVIOUS
<1>3. CASE ~Readable(Text[j.spec])
  BY <1>1, <1>3, GiveUpSound DEF Import
<1>4. CASE Readable(Text[j.spec]) /\ from \in {Nowhere, Home}
  <2>1. /\ j.at = "parse" /\ j.kind # "refresh" /\ j.spec # Missing
        /\ version' = [i \in {nextId} |->
                         [doc |-> j.doc, spec |-> j.spec, count |-> Len(ops),
                          added |-> Len(ops), removed |-> 0]]
        /\ source' = [current |-> nextId, count |-> Len(ops), deleted |-> FALSE,
                      located |-> j.kind = "ingest" \/ SpecOf(j.doc) = Missing]
        /\ endpoint' = Range(ops) /\ nextId' = nextId + 1
        /\ Goto(c, Rest) /\ UNCHANGED <<overlapped, test, collection>>
    BY <1>1, <1>2, <1>4 DEF Import, Awaits, Refreshing, tests
  <2>2. CallerStands(c, j) /\ Importing(j) /\ j.spec \in Doc
    BY <1>1, <2>1 DEF SourcesInv, CallerStands, IsCaller
  <2>3. source = Missing /\ nextId = 1 /\ DOMAIN version = {}
    BY <2>2 DEF CallerStands, SourcesInv, CatalogStands
  <2>4. Len(ops) \in Nat /\ Len(Operations[j.spec][Home]) = Len(ops)
    BY <1>2, <1>4, <2>2, ListingsAreAsLong
  <2>5. CatalogStands'
    <3>1. source' \in SourceRow /\ source'.current = 1 /\ source'.count = Len(ops)
      BY <2>1, <2>3, <2>4 DEF SourceRow
    <3>2. DOMAIN version' = {1} /\ version'[1].spec = j.spec
      BY <2>1, <2>3
    <3>3. \A i \in DOMAIN version' : VersionStands(i)'
      BY <2>1, <2>2, <2>3, <3>2 DEF VersionStands
    <3>4. endpoint' = Listed(version'[1].spec, from)
      BY <1>2, <2>1, <3>2 DEF Listed
    <3>5. source' # Missing
      BY <3>1, ApiSourcesAssumption
    <3>6. nextId' = 2 /\ DOMAIN version' \subseteq 1..(nextId' - 1)
      BY <2>1, <2>3, <3>2
    <3>7. \E way \in {Nowhere, Home} : endpoint' = Listed(version'[1].spec, way)
      BY <1>4, <3>4
    <3>8. QED
      BY <2>4, <3>1, <3>2, <3>3, <3>5, <3>6, <3>7 DEF CatalogStands
  <2>6. ContentsApart'
    BY <2>1 DEF ContentsApart
  <2>7. DOMAIN client' = Caller /\ client'[c] = Rest
        /\ \A d \in Caller \ {c} : client'[d] = client[d]
    BY <2>1 DEF SourcesInv, Goto
  <2>8. ASSUME NEW d \in Caller
        PROVE  CallerStands(d, client[d])'
    <3>1. CASE d = c
      <4>1. CallerStands(c, Rest)'
        BY RestStands, PTL
      <4>2. QED
        BY <2>7, <3>1, <4>1 DEF CallerStands
    <3>2. CASE d # c
      <4>1. CallerStands(d, client[d]) /\ client'[d] = client[d]
        BY <2>7, <3>2 DEF SourcesInv
      <4>2. ~Importing(client[d]) /\ ~Refreshing(d)
        BY <1>1, <2>2, <2>3, <3>2, <4>1 DEF CallerStands, Refreshing
      <4>3. client[d].at \notin {"version", "update"}
        BY <4>1, <4>2 DEF CallerStands, IsCaller, Compared, Refreshing
      <4>4. QED
        BY <2>1, <4>1, <4>2, <4>3 DEF CallerStands, Refreshing
    <3>3. QED
      BY <3>1, <3>2
  <2>9. QED
    BY <2>1, <2>5, <2>6, <2>7, <2>8 DEF SourcesInv
<1>5. QED
  BY <1>1, <1>3, <1>4

LEMMA RefreshSourceSound ==
    ASSUME NEW c \in Caller, SourcesInv, RefreshSource(c)
    PROVE  SourcesInv'
<1>1. PICK j : j = [Rest EXCEPT !.at = "fetch", !.kind = "refresh", !.url = Home,
                                !.alone = ~\E e \in Caller : Refreshing(e)]
  OBVIOUS
<1>2. /\ client[c].at = "idle" /\ source # Missing
      /\ UNCHANGED <<source, version, endpoint, nextId, overlapped, test, collection>>
      /\ client'[c] = j /\ DOMAIN client' = Caller
      /\ \A d \in Caller \ {c} : client'[d] = IF Refreshing(d)
                                              THEN [client[d] EXCEPT !.alone = FALSE]
                                              ELSE client[d]
  BY <1>1 DEF RefreshSource, Awaits, catalog, tests
<1>3. CatalogStands' /\ ContentsApart'
  BY <1>2 DEF SourcesInv, CatalogStands, ContentsApart, VersionStands, Drift
<1>4. \A d \in Caller : CallerStands(d, client[d]) /\ IsCaller(client[d])
  BY DEF SourcesInv, CallerStands
<1>5. IsCaller(j) /\ j.at = "fetch" /\ j.kind = "refresh"
      /\ (j.alone => \A e \in Caller : ~Refreshing(e))
  BY <1>1 DEF IsCaller, Rest, Importing, Compared
<1>6. ASSUME NEW d \in Caller \ {c}
      PROVE  /\ IsCaller(client'[d]) /\ client'[d].kind = client[d].kind
             /\ client'[d].at = client[d].at /\ client'[d].spec = client[d].spec
             /\ client'[d].drift = client[d].drift /\ client'[d].id = client[d].id
             /\ client'[d].written = client[d].written
             /\ Refreshing(d) => ~client'[d].alone
  <2>1. PICK w : w = [client[d] EXCEPT !.alone = FALSE]
    OBVIOUS
  <2>2. IsCaller(client[d])
    BY <1>4
  <2>3. /\ IsCaller(w) /\ w.kind = client[d].kind /\ w.at = client[d].at
        /\ w.spec = client[d].spec /\ w.drift = client[d].drift /\ w.id = client[d].id
        /\ w.written = client[d].written /\ ~w.alone
    BY <2>1, <2>2 DEF IsCaller, Importing, Compared
  <2>4. client'[d] = IF Refreshing(d) THEN w ELSE client[d]
    BY <1>2, <2>1
  <2>5. QED
    BY <2>2, <2>3, <2>4
<1>7. ASSUME NEW d \in Caller \ {c}
      PROVE  CallerStands(d, client[d])'
  BY <1>2, <1>4, <1>5, <1>6 DEF CallerStands, Importing, Drift, Refreshing
<1>8. CallerStands(c, client[c])'
  BY <1>2, <1>5, <1>6 DEF CallerStands, Importing, Compared, IsCaller, Refreshing
<1>9. QED
  BY <1>2, <1>3, <1>7, <1>8 DEF SourcesInv

LEMMA InsertVersionSound ==
    ASSUME NEW c \in Caller, SourcesInv, InsertVersion(c)
    PROVE  SourcesInv'
<1>1. PICK j : j = [client[c] EXCEPT !.at = "update", !.id = nextId]
  OBVIOUS
<1>2. /\ client[c].at = "version" /\ nextId' = nextId + 1
      /\ UNCHANGED <<source, version, endpoint, overlapped, test, collection>>
      /\ client'[c] = j /\ DOMAIN client' = Caller
      /\ \A d \in Caller \ {c} : client'[d] = client[d]
  BY <1>1 DEF InsertVersion, Awaits, Goto, SourcesInv, tests
<1>3. CallerStands(c, client[c]) /\ source # Missing /\ nextId > 1 /\ nextId \in Nat
  BY <1>2 DEF SourcesInv, CallerStands, IsCaller, Compared, CatalogStands
<1>4. CatalogStands' /\ ContentsApart'
  <2>1. CatalogStands /\ ContentsApart
    BY DEF SourcesInv
  <2>2. ContentsApart' /\ \A i \in DOMAIN version' : VersionStands(i)'
    BY <1>2, <2>1 DEF CatalogStands, ContentsApart, VersionStands, Drift
  <2>3. nextId' \in Nat /\ nextId' >= 1 /\ DOMAIN version' \subseteq 1..(nextId' - 1)
    BY <1>2, <1>3, <2>1 DEF CatalogStands
  <2>4. QED
    BY <1>2, <1>3, <2>1, <2>2, <2>3 DEF CatalogStands
<1>5. nextId \notin DOMAIN version
  BY <1>3 DEF SourcesInv, CatalogStands
<1>6. /\ IsCaller(j) /\ j.kind = "refresh" /\ j.at = "update" /\ j.id = nextId
      /\ j.spec = client[c].spec /\ j.drift = client[c].drift /\ j.doc = client[c].doc
      /\ j.written = {} /\ j.alone = client[c].alone
  BY <1>1, <1>2, <1>3 DEF CallerStands, IsCaller, Importing, Compared
<1>7. ASSUME NEW d \in Caller \ {c}
      PROVE  CallerStands(d, client[d])' /\ (client[d].at = "update" => client[d].id # nextId)
  <2>1. CallerStands(d, client[d])
    BY DEF SourcesInv
  <2>2. client[d].at = "update" => client[d].id \in Nat /\ client[d].id < nextId
    BY <2>1 DEF CallerStands
  <2>3. client[d].kind = "refresh" => ~client[d].alone
    BY <1>2, <1>3, <2>1 DEF CallerStands, IsCaller, Compared, Refreshing
  <2>4. client[d].at = "update" => client[d].kind = "refresh"
    BY <2>1 DEF CallerStands, IsCaller, Compared
  <2>5. CallerStands(d, client[d])'
    <3>1. client'[d] = client[d] /\ client'[c].id = nextId
      BY <1>2, <1>6
    <3>2. client[d].at = "update" => client[d].id # nextId /\ client[d].id < nextId'
      BY <1>2, <1>3, <2>2
    <3>3. ~Importing(client[d])
      BY <1>3, <2>1 DEF CallerStands
    <3>4. QED
      BY <1>2, <2>1, <2>3, <3>1, <3>2, <3>3 DEF CallerStands, Drift
  <2>6. QED
    BY <1>3, <2>2, <2>5
<1>8. CallerStands(c, client[c])'
  <2>1. /\ CallerStands(c, client[c]) /\ client'[c] = j /\ ~Importing(j)
        /\ client[c].kind = "refresh" /\ Compared(client[c])
    BY <1>2, <1>3, <1>6 DEF CallerStands, IsCaller, Importing, Compared
  <2>2. j.spec \in Doc /\ j.drift = Drift(j.spec)'
    BY <1>2, <1>3, <1>6 DEF CallerStands, Drift
  <2>3. /\ j.id \in Nat /\ 1 < j.id /\ j.id < nextId' /\ j.id \notin DOMAIN version'
        /\ \A d \in Caller \ {c} : client'[d].at = "update" => client'[d].id # j.id
    BY <1>2, <1>3, <1>5, <1>6, <1>7
  <2>4. j.alone => /\ \A d \in Caller \ {c} : client'[d].kind # "refresh"
                   /\ \A i \in DOMAIN version' : version'[i].doc # j.doc
    BY <1>2, <1>6, <2>1 DEF CallerStands, Refreshing
  <2>5. QED
    BY <1>2, <1>3, <1>6, <2>1, <2>2, <2>3, <2>4 DEF CallerStands, Refreshing
<1>9. QED
  BY <1>2, <1>4, <1>7, <1>8 DEF SourcesInv

LEMMA CommitVersionSound ==
    ASSUME NEW c \in Caller, SourcesInv, CommitVersion(c)
    PROVE  SourcesInv'
<1>1. PICK j, count, record :
         /\ j = client[c] /\ count = Len(Operations[j.spec][Home])
         /\ record = [doc |-> j.doc, spec |-> j.spec, count |-> count,
                   added |-> j.drift.added, removed |-> j.drift.removed]
  OBVIOUS
<1>2. /\ j.at = "update"
      /\ version' = [i \in DOMAIN version \cup {j.id} |->
                       IF i = j.id THEN record ELSE version[i]]
      /\ source' = [source EXCEPT !.current = j.id, !.count = count]
      /\ overlapped' = IF j.alone THEN overlapped ELSE overlapped \cup {j.id}
      /\ Goto(c, Rest) /\ UNCHANGED <<endpoint, nextId, test, collection>>
  BY <1>1 DEF CommitVersion, Awaits, tests
<1>3. /\ CallerStands(c, j) /\ j.kind = "refresh" /\ j.spec \in Doc /\ j.doc \in Doc
      /\ j.drift = Drift(j.spec) /\ j.id \in Nat /\ 1 < j.id /\ j.id < nextId
      /\ j.id \notin DOMAIN version /\ source # Missing /\ j.alone \in BOOLEAN
  BY <1>1, <1>2 DEF SourcesInv, CallerStands, IsCaller, Compared
<1>4. /\ DOMAIN version' = DOMAIN version \cup {j.id} /\ version'[j.id] = record
      /\ \A i \in DOMAIN version : version'[i] = version[i]
  BY <1>2, <1>3
<1>5. CatalogStands'
  <2>1. count \in Nat
    BY <1>1, <1>3, ListingsAreAsLong
  <2>2. source \in SourceRow /\ 1 \in DOMAIN version /\ nextId \in Nat
    BY <1>3 DEF SourcesInv, CatalogStands
  <2>3. source' \in SourceRow /\ source'.current = j.id /\ source'.count = count
    BY <1>2, <1>3, <2>1, <2>2 DEF SourceRow
  <2>4. ASSUME NEW i \in DOMAIN version'
        PROVE  VersionStands(i)'
    <3>1. CASE i = j.id
      BY <1>1, <1>2, <1>3, <1>4, <3>1 DEF VersionStands, Drift
    <3>2. CASE i # j.id
      <4>1. i \in DOMAIN version /\ VersionStands(i)
        BY <1>4, <3>2 DEF SourcesInv, CatalogStands
      <4>2. QED
        BY <1>2, <1>4, <4>1 DEF VersionStands, Drift
    <3>3. QED
      BY <3>1, <3>2
  <2>5. source' # Missing
    BY <2>3, ApiSourcesAssumption
  <2>6. \E way \in {Nowhere, Home} : endpoint' = Listed(version'[1].spec, way)
    BY <1>2, <1>3, <1>4, <2>2 DEF SourcesInv, CatalogStands
  <2>7. DOMAIN version' \subseteq 1..(nextId' - 1)
    BY <1>2, <1>3, <1>4, <2>2 DEF SourcesInv, CatalogStands
  <2>8. source'.count = Len(Operations[version'[source'.current].spec][Home])
    BY <1>1, <1>4, <2>3
  <2>9. nextId' \in Nat /\ nextId' >= 1 /\ 1 \in DOMAIN version' /\ j.id \in DOMAIN version'
    BY <1>2, <1>3, <1>4, <2>2
  <2>10. QED
    BY <2>3, <2>4, <2>5, <2>6, <2>7, <2>8, <2>9 DEF CatalogStands
<1>6. ContentsApart'
  <2>1. j.alone => \A i \in DOMAIN version : version[i].doc # j.doc
    BY <1>2, <1>3 DEF CallerStands, Compared
  <2>2. ASSUME NEW i \in DOMAIN version', NEW k \in DOMAIN version',
               version'[i].doc = version'[k].doc, i # k
        PROVE  {i, k} \cap overlapped' # {}
    <3>1. CASE i # j.id /\ k # j.id
      <4>1. i \in DOMAIN version /\ k \in DOMAIN version /\ version[i].doc = version[k].doc
        BY <1>4, <2>2, <3>1
      <4>2. {i, k} \cap overlapped # {}
        BY <2>2, <4>1 DEF SourcesInv, ContentsApart
      <4>3. QED
        BY <1>2, <4>2
    <3>2. CASE i = j.id \/ k = j.id
      <4>1. ~j.alone
        BY <1>1, <1>4, <2>1, <2>2, <3>2
      <4>2. QED
        BY <1>2, <3>2, <4>1
    <3>3. QED
      BY <3>1, <3>2
  <2>3. QED
    BY <2>2 DEF ContentsApart
<1>7. DOMAIN client' = Caller /\ client'[c] = Rest
      /\ \A d \in Caller \ {c} : client'[d] = client[d]
  BY <1>2 DEF SourcesInv, Goto
<1>8. ASSUME NEW d \in Caller
      PROVE  CallerStands(d, client[d])'
  <2>1. CASE d = c
    <3>1. CallerStands(c, Rest)'
      BY RestStands, PTL
    <3>2. QED
      BY <1>7, <2>1, <3>1 DEF CallerStands
  <2>2. CASE d # c
    <3>1. CallerStands(d, client[d]) /\ client'[d] = client[d]
      BY <1>7, <2>2 DEF SourcesInv
    <3>2. client[d].kind = "refresh" => ~client[d].alone
      BY <1>1, <1>3, <2>2, <3>1 DEF CallerStands, IsCaller, Refreshing
    <3>3. ~Importing(client[d])
      BY <1>3, <3>1 DEF CallerStands
    <3>4. client[d].at = "update" => client[d].id # j.id
      BY <1>1, <1>2, <1>3, <2>2, <3>1 DEF CallerStands
    <3>5. Rest.at = "idle" /\ source' # Missing
      BY <1>5, <1>4, <1>3 DEF Rest, CatalogStands
    <3>6. QED
      BY <1>2, <1>4, <1>7, <3>1, <3>2, <3>3, <3>4, <3>5 DEF CallerStands, Drift, Importing
  <2>3. QED
    BY <2>1, <2>2
<1>9. QED
  BY <1>2, <1>5, <1>6, <1>7, <1>8 DEF SourcesInv

LEMMA DeleteSourceSound == SourcesInv /\ DeleteSource => SourcesInv'
<1> SUFFICES ASSUME SourcesInv, DeleteSource PROVE SourcesInv'
  OBVIOUS
<1>1. source \in SourceRow /\ source # Missing
  BY DEF DeleteSource, SourcesInv, CatalogStands
<1>2. /\ source' \in SourceRow /\ source'.current = source.current
      /\ source'.count = source.count
  BY <1>1 DEF DeleteSource, SourceRow
<1>3. source' # Missing
  BY <1>2, ApiSourcesAssumption
<1>4. CatalogStands' /\ ContentsApart'
  BY <1>1, <1>2, <1>3
     DEF DeleteSource, SourcesInv, CatalogStands, ContentsApart, VersionStands, Drift
<1>5. ASSUME NEW c \in Caller
      PROVE  CallerStands(c, client[c])'
  <2>1. CallerStands(c, client[c])
    BY DEF SourcesInv
  <2>2. QED
    BY <1>1, <1>3, <2>1 DEF DeleteSource, CallerStands, Drift, Importing, Refreshing, tests
<1>6. QED
  BY <1>4, <1>5 DEF DeleteSource, SourcesInv, tests

LEMMA DeleteCollectionSound == SourcesInv /\ DeleteCollection => SourcesInv'
<1> SUFFICES ASSUME SourcesInv, DeleteCollection PROVE SourcesInv'
  OBVIOUS
<1>1. CatalogStands' /\ ContentsApart'
  BY DEF DeleteCollection, SourcesInv, CatalogStands, ContentsApart, VersionStands,
         Drift, catalog
<1>2. ASSUME NEW c \in Caller
      PROVE  CallerStands(c, client[c])'
  <2>1. CallerStands(c, client[c]) /\ client[c].written = {}
    BY DEF SourcesInv, DeleteCollection
  <2>2. QED
    BY <2>1 DEF DeleteCollection, CallerStands, Drift, Importing, Refreshing, catalog
<1>3. QED
  BY <1>1, <1>2 DEF DeleteCollection, SourcesInv

LEMMA SourcesStep == SourcesInv /\ [SourceNext]_sourceVars => SourcesInv'
<1> SUFFICES ASSUME SourcesInv, [SourceNext]_sourceVars PROVE SourcesInv'
  OBVIOUS
<1>1. CASE UNCHANGED sourceVars
  <2>1. CatalogStands' /\ ContentsApart'
    BY <1>1 DEF sourceVars, SourcesInv, CatalogStands, ContentsApart, VersionStands, Drift
  <2>2. \A c \in Caller : CallerStands(c, client[c])'
    BY <1>1 DEF sourceVars, SourcesInv, CallerStands, Drift, Refreshing
  <2>3. QED
    BY <1>1, <2>1, <2>2 DEF sourceVars, SourcesInv
<1>2. ASSUME NEW c \in Caller, NEW doc \in Served, Respond(c, doc)
      PROVE  SourcesInv'
  BY <1>2, RespondSound
<1>3. ASSUME NEW c \in Caller, NEW doc \in Doc, PasteSource(c, doc) \/ Probe(c, doc)
      PROVE  SourcesInv'
  BY <1>3, PasteSourceSound, ProbeSound
<1>4. ASSUME NEW c \in Caller, NEW url \in Url, Redirect(c, url)
      PROVE  SourcesInv'
  BY <1>4, RedirectSound
<1>5. ASSUME NEW c \in Caller, GiveUp(c) \/ Fail(c)
      PROVE  SourcesInv'
  BY <1>5, GiveUpSound DEF GiveUp, Fail
<1>6. ASSUME NEW c \in Caller, IngestSource(c) \/ Import(c)
      PROVE  SourcesInv'
  BY <1>6, IngestSourceSound, ImportSound
<1>7. ASSUME NEW c \in Caller, RefreshSource(c) \/ Compare(c) \/ CountDrift(c)
      PROVE  SourcesInv'
  BY <1>7, RefreshSourceSound, CompareSound, CountDriftSound
<1>8. ASSUME NEW c \in Caller, InsertVersion(c) \/ CommitVersion(c)
      PROVE  SourcesInv'
  BY <1>8, InsertVersionSound, CommitVersionSound
<1>9. ASSUME NEW c \in Caller, NEW chosen \in SUBSET endpoint, CommitToCollection(c, chosen)
      PROVE  SourcesInv'
  BY <1>9, CommitToCollectionSound
<1>10. ASSUME NEW c \in Caller, CheckCollection(c) \/ InsertTest(c) \/ CommitTests(c)
       PROVE  SourcesInv'
  BY <1>10, CheckCollectionSound, InsertTestSound, CommitTestsSound
<1>11. CASE DeleteSource \/ DeleteCollection
  BY <1>11, DeleteSourceSound, DeleteCollectionSound
<1>12. QED
  BY <1>1, <1>2, <1>3, <1>4, <1>5, <1>6, <1>7, <1>8, <1>9, <1>10, <1>11 DEF SourceNext

\* What came and what went make the difference.
LEMMA DriftAddsUp ==
    ASSUME NEW A, NEW B, IsFiniteSet(A), IsFiniteSet(B)
    PROVE  Cardinality(A) + Cardinality(B \ A) - Cardinality(A \ B) = Cardinality(B)
<1>1. PICK C : C = A \cap B
  OBVIOUS
<1>2. Cardinality(B \ A) = Cardinality(B) - Cardinality(B \cap A)
  BY FS_Difference
<1>3. Cardinality(A \ B) = Cardinality(A) - Cardinality(A \cap B)
  BY FS_Difference
<1>4. A \cap B = C /\ B \cap A = C
  BY <1>1
<1>5. IsFiniteSet(C)
  BY <1>1, FS_Subset
<1>6. Cardinality(A) \in Nat /\ Cardinality(B) \in Nat /\ Cardinality(C) \in Nat
  BY <1>5, FS_CardinalityType
<1>7. PICK a \in Nat, b \in Nat, c \in Nat :
         a = Cardinality(A) /\ b = Cardinality(B) /\ c = Cardinality(C)
  BY <1>6
<1>8. Cardinality(B \ A) = b - c /\ Cardinality(A \ B) = a - c
  BY <1>2, <1>3, <1>4, <1>7
<1>9. a + (b - c) - (a - c) = b
  OBVIOUS
<1>10. QED
  BY <1>7, <1>8, <1>9

LEMMA HistoryFollows == SourcesInv => HistoryIsHonest
<1> SUFFICES ASSUME SourcesInv PROVE HistoryIsHonest
  OBVIOUS
<1>1. ContentsApart /\ CatalogStands
  BY DEF SourcesInv
<1>2. ASSUME source # Missing
      PROVE  LET import == CHOOSE i \in DOMAIN version : \A k \in DOMAIN version : i <= k
             IN  /\ source.count = Len(Operations[version[source.current].spec][Home])
                 /\ \A i \in DOMAIN version \ {import} :
                       LET old == version[import].spec
                           new == version[i].spec
                       IN  /\ Cardinality(endpoint) + version[i].added - version[i].removed
                                 = Cardinality(Range(Operations[version[i].spec][Home]))
                           /\ {old, new} \subseteq Comparable =>
                                 /\ version[i].added = Cardinality(Meant[new] \ Meant[old])
                                 /\ version[i].removed = Cardinality(Meant[old] \ Meant[new])
  <2>1. PICK import : import = CHOOSE i \in DOMAIN version : \A k \in DOMAIN version : i <= k
    OBVIOUS
  <2>2. /\ nextId \in Nat /\ 1 \in DOMAIN version /\ DOMAIN version \subseteq 1..(nextId - 1)
        /\ source.count = Len(Operations[version[source.current].spec][Home])
    BY <1>1, <1>2 DEF CatalogStands
  <2>3. \A k \in DOMAIN version : 1 <= k /\ k \in Nat
    BY <2>2
  <2>4. import \in DOMAIN version /\ import <= 1
    BY <2>1, <2>2, <2>3
  <2>5. import = 1
    BY <2>3, <2>4
  <2>6. PICK from \in {Nowhere, Home} : endpoint = Listed(version[1].spec, from)
    BY <1>1, <1>2 DEF CatalogStands
  <2>7. ASSUME NEW i \in DOMAIN version \ {1}
        PROVE  /\ Cardinality(endpoint) + version[i].added - version[i].removed
                     = Cardinality(Range(Operations[version[i].spec][Home]))
               /\ {version[1].spec, version[i].spec} \subseteq Comparable =>
                     /\ version[i].added =
                           Cardinality(Meant[version[i].spec] \ Meant[version[1].spec])
                     /\ version[i].removed =
                           Cardinality(Meant[version[1].spec] \ Meant[version[i].spec])
    <3>0. PICK old, new : old = version[1].spec /\ new = version[i].spec
      OBVIOUS
    <3>1. old \in Doc /\ new \in Doc
      BY <1>1, <2>2, <3>0 DEF CatalogStands, VersionStands
    <3>2. PICK A, B : A = Listed(old, from) /\ B = Listed(new, Home)
      OBVIOUS
    <3>3. IsFiniteSet(A) /\ IsFiniteSet(B)
      BY <3>1, <3>2, ListingsAreFinite
    <3>4. endpoint = A /\ Range(Operations[new][Home]) = B
      BY <2>6, <3>0, <3>2 DEF Listed
    <3>5. version[i].added = Cardinality(B \ A) /\ version[i].removed = Cardinality(A \ B)
      BY <1>1, <3>0, <3>2, <3>4 DEF CatalogStands, VersionStands, Drift
    <3>6. Cardinality(A) + Cardinality(B \ A) - Cardinality(A \ B) = Cardinality(B)
      BY <3>3, DriftAddsUp
    <3>7. ASSUME {old, new} \subseteq Comparable
          PROVE  /\ Cardinality(B \ A) = Cardinality(Meant[new] \ Meant[old])
                 /\ Cardinality(A \ B) = Cardinality(Meant[old] \ Meant[new])
      <4>1. old \in Comparable /\ new \in Comparable
        BY <3>7
      <4>2. LET was == Range(Operations[old][from])
                now == Range(Operations[new][Home])
            IN  /\ Cardinality(now \ was) = Cardinality(Meant[new] \ Meant[old])
                /\ Cardinality(was \ now) = Cardinality(Meant[old] \ Meant[new])
        BY <4>1, FormatsMeanTheSame DEF FormatsAgree
      <4>3. QED
        BY <3>2, <4>2 DEF Listed
    <3>8. QED
      BY <3>0, <3>4, <3>5, <3>6, <3>7
  <2>8. \A i \in DOMAIN version \ {1} :
           /\ Cardinality(endpoint) + version[i].added - version[i].removed
                 = Cardinality(Range(Operations[version[i].spec][Home]))
           /\ {version[1].spec, version[i].spec} \subseteq Comparable =>
                 /\ version[i].added =
                       Cardinality(Meant[version[i].spec] \ Meant[version[1].spec])
                 /\ version[i].removed =
                       Cardinality(Meant[version[1].spec] \ Meant[version[i].spec])
    BY <2>7
  <2>9. (CHOOSE i \in DOMAIN version : \A k \in DOMAIN version : i <= k) = 1
    BY <2>1, <2>5
  <2>10. QED
    BY ONLY <2>2, <2>8, <2>9
<1>3. QED
  BY <1>1, <1>2 DEF HistoryIsHonest, ContentsApart

\* Whatever overlaps and fails, a content is stored once unless refreshes
\* overlapped, the source counts the endpoints of its current version, and the
\* drift of every version adds up with the import (apiSourceService.js:411).
\* That the drift counts the calls that came and went is claimed of texts of
\* Comparable only: one server, and no {{variable}} or query in a path.
THEOREM HistoryStaysHonest ==
    SourceInit /\ [][SourceNext]_sourceVars => []HistoryIsHonest
<1>1. SourcesInv => HistoryIsHonest
  BY HistoryFollows
<1>2. QED
  BY <1>1, SourcesStart, SourcesStep, PTL

\* What a text declares, the sample of its operations binds (ir.js:70).
LEMMA DeclaredAreBound == \A d \in Doc : d \notin Unbindable
<1> SUFFICES ASSUME NEW d \in Doc, Declared(Text[d]), NEW i \in Unbound(Text[d])
             PROVE  FALSE
  BY DEF Unbindable
<1>1. Probed(Text[d]) /\ i \in DOMAIN Parse(Text[d]).operations
  BY DEF Declared, Unbound
<1>2. PICK item \in Text[d].paths : \E op \in item.ops :
              Parse(Text[d]).operations[i] = BuildSample(op, item)
  <2>1. Parse(Text[d]).operations[i] \in Range(Parse(Text[d]).operations)
    BY <1>1 DEF Range
  <2>2. Parse(Text[d]).operations[i] \in UNION {{BuildSample(op, item) : op \in item.ops} :
                                                  item \in Text[d].paths}
    BY <1>1, <2>1, OperationsAreOfPaths
  <2>3. QED
    BY <2>2
<1>3. PICK op \in item.ops : Parse(Text[d]).operations[i] = BuildSample(op, item)
  BY <1>2
<1>4. PICK sample : sample = BuildSampleUrl(item.path, PathParams(op, item))
  OBVIOUS
<1>5. Parse(Text[d]).operations[i].sample = sample
  BY <1>3, <1>4 DEF BuildSample, Operation
<1>6. PICK k \in DOMAIN sample : sample[k].is = "brace"
  BY <1>5 DEF Unbound
<1>7. PICK segment : segment = item.path[k]
  OBVIOUS
<1>8. k \in DOMAIN item.path
  BY <1>4, <1>6 DEF BuildSampleUrl
<1>9. DOMAIN segment = {"is", "name"}
  <2>1. segment \in Segment
    BY <1>1, <1>7, <1>8, ApiSourcesAssumption DEF IsObject, IsDescription, IsPath
  <2>2. QED
    BY <2>1 DEF Segment
<1>10. sample[k] = IF segment.is = "brace" /\ segment.name \in PathParams(op, item)
                   THEN [segment EXCEPT !.is = "env"] ELSE segment
  BY <1>4, <1>7, <1>8 DEF BuildSampleUrl
<1>11. [segment EXCEPT !.is = "env"].is = "env"
  BY <1>9
<1>12. segment.is = "brace" /\ segment.name \notin PathParams(op, item)
  BY <1>6, <1>10, <1>11
<1>13. PICK p : p = [name |-> segment.name, in |-> "path"]
  OBVIOUS
<1>14. p \in item.params \cup op.params
  BY <1>7, <1>8, <1>12, <1>13 DEF Declared
<1>15. p.in = "path" /\ p.name = segment.name
  BY <1>13
<1>16. segment.name \in PathParams(op, item)
  BY <1>14, <1>15 DEF PathParams
<1>17. QED
  BY <1>12, <1>16

\* A commit shows all of what was chosen: there is something, and from the
\* first INSERT on the collection stays.
LEMMA CommitsAreWhole ==
    SourcesInv /\ [SourceNext]_sourceVars =>
       [\A c \in Caller : test'[c] # test[c] =>
           test'[c] = IF collection' THEN client[c].chosen ELSE {}]_sourceVars
<1> SUFFICES ASSUME SourcesInv, SourceNext, NEW c \in Caller, test'[c] # test[c]
             PROVE  test'[c] = IF collection' THEN client[c].chosen ELSE {}
  OBVIOUS
<1>1. CASE \E d \in Caller : CommitTests(d)
  <2>1. PICK d \in Caller : CommitTests(d)
    BY <1>1
  <2>2. CallerStands(d, client[d])
    BY DEF SourcesInv
  <2>3. collection /\ UNCHANGED collection
    BY <2>1, <2>2 DEF CommitTests, Awaits, CallerStands, IsCaller
  <2>4. c = d /\ test'[c] = client[c].chosen
    BY <2>1 DEF CommitTests, SourcesInv
  <2>5. QED
    BY <2>3, <2>4
<1>2. CASE DeleteCollection
  BY <1>2 DEF DeleteCollection
<1>3. CASE ~DeleteCollection /\ ~\E d \in Caller : CommitTests(d)
  <2>1. UNCHANGED test
    BY <1>3 DEF SourceNext, Respond, PasteSource, Probe, Redirect, GiveUp, IngestSource,
                Import, RefreshSource, Compare, CountDrift, InsertVersion, CommitVersion,
                CommitToCollection, CheckCollection, InsertTest, Fail, DeleteSource, tests
  <2>2. QED
    BY <2>1
<1>4. QED
  BY <1>1, <1>2, <1>3

\* What one request commits appears in the collection as a whole or not at
\* all, whatever fails and whoever deletes the collection meanwhile, and every
\* path variable a text declares is bound (apiSourceService.js:354, ir.js:67).
THEOREM ImportsAreWhole == SourceInit /\ [][SourceNext]_sourceVars => ImportIsWhole
<1>1. SourcesInv => \A i \in DOMAIN version : version[i].spec \notin Unbindable
  BY DeclaredAreBound DEF SourcesInv, CatalogStands, VersionStands
<1>2. QED
  BY <1>1, SourcesStart, SourcesStep, CommitsAreWhole, PTL DEF ImportIsWhole

(***************************************************************************)
(* The chain session.                                                      *)
(***************************************************************************)

\* The requests along k hops.
IsTrail(h, k, first) ==
    h = [n \in 1..k |-> IF n = 1 THEN first ELSE Redirected(h[n - 1])]

LEMMA TrailsExist ==
    ASSUME NEW first, NEW k \in Nat \ {0}
    PROVE  \E h : IsTrail(h, k, first)
<1> SUFFICES ASSUME ~\E h : IsTrail(h, k, first) PROVE FALSE
  OBVIOUS
<1>1. PICK T \in SUBSET Nat : T = {n \in Nat \ {0} : ~\E h : IsTrail(h, n, first)}
  OBVIOUS
<1>2. PICK m \in T : \A n \in T : m <= n
  <2>1. T # {}
    BY <1>1
  <2>2. QED
    BY <2>1, SomeIsLeast
<1>3. m # 1
  <2>1. IsTrail([n \in 1..1 |-> first], 1, first)
    BY DEF IsTrail
  <2>2. QED
    BY <1>1, <2>1
<1>4. m - 1 \in Nat \ {0} /\ m - 1 \notin T
  BY <1>1, <1>2, <1>3
<1>5. PICK h : IsTrail(h, m - 1, first)
  BY <1>1, <1>4
<1>6. PICK g : g = [n \in 1..m |-> IF n = 1 THEN first ELSE Redirected(h[n - 1])]
  OBVIOUS
<1>7. \A n \in 1..(m - 1) : g[n] = h[n]
  <2>1. \A n \in 1..(m - 1) : h[n] = IF n = 1 THEN first ELSE Redirected(h[n - 1])
    BY <1>4, <1>5 DEF IsTrail
  <2>2. 1..(m - 1) \subseteq 1..m
    BY <1>4
  <2>3. QED
    BY <1>6, <2>1, <2>2
<1>8. \A n \in 1..m : n # 1 => g[n - 1] = h[n - 1]
  <2>1. \A n \in 1..m : n # 1 => n - 1 \in 1..(m - 1)
    BY <1>4
  <2>2. QED
    BY <1>7, <2>1
<1>9. IsTrail(g, m, first)
  BY <1>6, <1>8 DEF IsTrail
<1>10. QED
  BY <1>1, <1>2, <1>9

LEMMA TrailIs ==
    ASSUME NEW first
    PROVE  IsTrail(Trail(first), MaxHops, first)
<1>1. PICK h : IsTrail(h, MaxHops, first)
  BY TrailsExist, ApiRunnerAssumption
<1>2. QED
  BY <1>1 DEF Trail, IsTrail

LEMMA RedirectsAreRequests ==
    ASSUME NEW r \in Request PROVE Redirected(r) \in Request
<1>1. PICK a \in Response : a = Answers[r]
  BY ApiRunnerAssumption
<1>2. CASE a.to = NULL \/ a.status \notin 300..399
  BY <1>1, <1>2 DEF Redirected
<1>3. CASE ~(a.to = NULL \/ a.status \notin 300..399)
  <2>1. PICK method : method = IF a.status \in 301..303 THEN "GET" ELSE r.method
    OBVIOUS
  <2>2. a.to \in Urls /\ method \in Method
    BY <1>3, <2>1 DEF Response, Request, Method
  <2>3. PICK q : q = [r EXCEPT !.url = a.to, !.method = method]
    OBVIOUS
  <2>4. Redirected(r) = q
    BY <1>1, <1>3, <2>1, <2>3 DEF Redirected
  <2>5. q \in Request
    BY <2>2, <2>3 DEF Request
  <2>6. QED
    BY <2>4, <2>5
<1>4. QED
  BY <1>2, <1>3

\* A redirect leads to a request again.
LEMMA TrailsAreRequests ==
    ASSUME NEW first \in Request
    PROVE  \A n \in 1..MaxHops : Trail(first)[n] \in Request
<1>1. PICK h : h = Trail(first)
  OBVIOUS
<1>2. MaxHops \in Nat /\ \A n \in 1..MaxHops :
         h[n] = IF n = 1 THEN first ELSE Redirected(h[n - 1])
  BY <1>1, TrailIs, ApiRunnerAssumption DEF IsTrail
<1>3. PICK T \in SUBSET Nat : T = {n \in Nat : n \in 1..MaxHops /\ h[n] \notin Request}
  OBVIOUS
<1>4. ASSUME T # {} PROVE FALSE
  <2>1. PICK m \in T : \A n \in T : m <= n
    BY <1>4, SomeIsLeast
  <2>2. m \in 1..MaxHops /\ m # 1 /\ h[m] = Redirected(h[m - 1])
    BY <1>2, <1>3, <2>1
  <2>3. m - 1 \in 1..MaxHops /\ m - 1 \notin T
    BY <1>2, <2>1, <2>2
  <2>4. h[m - 1] \in Request
    BY <1>3, <2>3
  <2>5. QED
    BY <1>3, <2>1, <2>2, <2>4, RedirectsAreRequests
<1>5. QED
  BY <1>1, <1>3, <1>4

\* What a test hands on has names, and covers what the site hands out.
LEMMA TestsHandOn ==
    ASSUME NEW t \in Tests, NEW s \in Session, NEW outage \in Outage
    PROVE  /\ ExecuteTest(t, s, outage).jar \in SUBSET Names
           /\ ExecuteTest(t, s, outage).vars \in SUBSET Names
           /\ outage = "none" /\ t.type = "api" /\ Sendable(t) =>
                 Within(HandedOut(t, s), ExecuteTest(t, s, outage))
<1>1. CASE t.type = "ui"
  BY <1>1 DEF ExecuteTest, RunUiTest
<1>2. CASE t.type # "ui"
  <2>1. t \in Test
    BY ChainSessionsAssumption
  <2>2. PICK first : first = FirstRequest(t, s, outage)
    OBVIOUS
  <2>3. SessionCookie(t, outage) \subseteq Names
    <3>1. CASE t.login = NULL \/ outage = "login"
      BY <3>1 DEF SessionCookie
    <3>2. CASE t.login # NULL /\ outage # "login"
      <4>1. t.login \in Urls
        BY <2>1, <3>2 DEF Test
      <4>2. PICK r : r = [url |-> t.login, method |-> "POST", cookies |-> {}, vars |-> {}]
        OBVIOUS
      <4>3. r \in Request
        BY <4>1, <4>2 DEF Request, Method
      <4>4. Answers[r].sets \subseteq Names
        BY <4>3, ApiRunnerAssumption DEF Response
      <4>5. QED
        BY <3>2, <4>2, <4>4 DEF SessionCookie
    <3>3. QED
      BY <3>1, <3>2
  <2>4. first \in Request
    <3>1. t.url \in Urls /\ t.method \in Method /\ t.refs \subseteq Names
          /\ t.cookie \subseteq Names
      BY <2>1 DEF Test
    <3>2. s.jar \subseteq Names
      BY DEF Session
    <3>3. t.cookie \cup SessionCookie(t, outage) \cup s.jar \in SUBSET Names
      BY <2>3, <3>1, <3>2
    <3>4. t.refs \cap s.vars \in SUBSET Names
      BY <3>1
    <3>5. QED
      BY <2>2, <3>1, <3>3, <3>4 DEF FirstRequest, Request
  <2>5. \A n \in 1..MaxHops : Answers[Trail(first)[n]] \in Response
    BY <2>4, TrailsAreRequests, ApiRunnerAssumption
  <2>6. Final(first) \in Response
    BY <2>5, ApiRunnerAssumption DEF Final
  <2>7. Collected(first) \in SUBSET Names
    BY <2>5 DEF Collected, Response
  <2>8. PICK r \in Response : r = Final(first)
    BY <2>6
  <2>9. r.bag \in SUBSET Names /\ r.fields \in SUBSET Names
    BY DEF Response
  <2>10. BodyCookies(t, r) \in SUBSET Names
    BY <2>9 DEF BodyCookies
  <2>11. Extracted(t, r) \in SUBSET Names
    <3>1. t.extractors \in SUBSET Extractor
      BY <2>1 DEF Test
    <3>2. \A e \in t.extractors : e.name \in Names
      BY <3>1 DEF Extractor
    <3>3. QED
      BY <2>9, <3>2 DEF Extracted
  <2>12. ExecuteTest(t, s, outage) =
           IF outage = "request" \/ ~Sendable(t)
           THEN [verdict |-> Verdict(t.assertions = {}), jar |-> {}, vars |-> {}]
           ELSE [verdict |-> Verdict(\A a \in t.assertions : Holds(a, r)),
                 jar |-> Collected(first) \cup BodyCookies(t, r),
                 vars |-> Extracted(t, r)]
    BY <1>2, <2>2, <2>8 DEF ExecuteTest, RunApiTest
  <2>13. outage = "none" /\ Sendable(t) => Within(HandedOut(t, s), ExecuteTest(t, s, outage))
    <3>1. SUFFICES ASSUME outage = "none", Sendable(t)
                   PROVE  Within(HandedOut(t, s), ExecuteTest(t, s, outage))
      OBVIOUS
    <3>2. HandedOut(t, s).jar = Collected(first) /\ HandedOut(t, s).vars = r.fields
      BY <2>2, <2>8, <3>1 DEF HandedOut, Collected
    <3>3. ExecuteTest(t, s, outage).jar = Collected(first) \cup BodyCookies(t, r)
          /\ ExecuteTest(t, s, outage).vars = Extracted(t, r)
      BY <2>12, <3>1
    <3>4. r.fields \subseteq Extracted(t, r)
      BY DEF Extracted
    <3>5. QED
      BY <3>2, <3>3, <3>4 DEF Within
  <2>14. ExecuteTest(t, s, outage).jar \in SUBSET Names
         /\ ExecuteTest(t, s, outage).vars \in SUBSET Names
    BY <2>7, <2>10, <2>11, <2>12
  <2>15. QED
    BY <2>13, <2>14
<1>3. QED
  BY <1>1, <1>2

LEMMA HandedOutAreSessions ==
    ASSUME NEW t \in Tests, NEW s \in Session, NEW outage \in Outage,
           outage = "none", t.type = "api", Sendable(t)
    PROVE  HandedOut(t, s) \in Session
<1>1. Within(HandedOut(t, s), ExecuteTest(t, s, outage))
  BY TestsHandOn
<1>2. HandedOut(t, s).jar \in SUBSET Names /\ HandedOut(t, s).vars \in SUBSET Names
  BY <1>1, TestsHandOn DEF Within
<1>3. DOMAIN HandedOut(t, s) = {"jar", "vars"}
      /\ HandedOut(t, s) = [jar |-> HandedOut(t, s).jar, vars |-> HandedOut(t, s).vars]
  BY DEF HandedOut
<1>4. QED
  BY <1>2, <1>3 DEF Session

RequestRow == [at : At, test : Tests \cup {NULL}, object : Object \cup {NULL},
               copy : Row, sent : Session, due : Session, gave : Session,
               crossed : BOOLEAN, late : BOOLEAN]

\* What a request has read, or has to write.
Given(r) == IF r.copy = NULL THEN Empty ELSE r.copy

\* A request, wherever it stands.
IsClick(r) ==
    /\ r \in RequestRow
    /\ r.at = "http" => r.object \in Object /\ ~r.late /\ Within(r.due, r.sent)
    /\ r.at # "http" => r.object = NULL
    /\ r.at \in {"load", "install"} => ~r.crossed
    /\ r.at \in {"load", "install", "http"} => r.test \in Tests
    /\ r.at \in {"idle", "peek", "load"} => r.copy = NULL
    /\ r.at = "idle" => r.gave = Empty
    /\ r.at = "save" => r.copy \in Session

\* A request that a reset has crossed does not share the Map's object.
IsApart(r) == r.at = "http" /\ r.crossed => r.object # cached

\* If nothing is lost: what the steps are owed is in the Map's object and in
\* the row, and a step that is not answered yet works on the Map's object.
OwedIsKept ==
    /\ cached # NULL => Within(owed, heap[cached])
    /\ owed = Empty \/ (row # NULL /\ Within(owed, row))
    /\ cached = NULL /\ Resetting => owed = Empty

CarriesOn(r) ==
    /\ r.at = "http" /\ ~r.crossed => cached # NULL /\ r.object = cached
    /\ r.at = "save" /\ ~r.crossed => /\ cached # NULL /\ Within(r.gave, heap[cached])
                                      /\ Within(r.gave, r.copy)
    /\ r.at \in {"peek", "reinstall"} => r.crossed \/ r.gave = Empty
    /\ r.at \in {"install", "reinstall"} /\ cached = NULL => Within(owed, Given(r))

\* If nothing is revived: nothing is older than the last reset, but for what
\* is known to be late.
NothingIsOlder ==
    /\ cached # NULL => Within(heap[cached], since)
    /\ row # NULL => Resetting \/ Within(row, since)

StartsCold(r) ==
    /\ r.at \in {"install", "save", "reinstall"} /\ ~r.late => Within(Given(r), since)
    /\ r.at = "http" /\ ~r.crossed => Within(r.sent, since)

ChainTyped ==
    /\ cached \in Object \cup {NULL}
    /\ heap \in [Object -> Session]
    /\ row \in Row
    /\ owed \in Session /\ since \in Session
    /\ lapses \subseteq Lapse

\* The strengthening of SessionsHold.
ChainInv ==
    /\ ChainTyped
    /\ DOMAIN req = Client
    /\ \A c \in Client : IsClick(req[c]) /\ IsApart(req[c])
    /\ "lost" \notin lapses => OwedIsKept /\ \A c \in Client : CarriesOn(req[c])
    /\ "revived" \notin lapses => NothingIsOlder /\ \A c \in Client : StartsCold(req[c])

LEMMA SessionFacts ==
    /\ Empty \in Session
    /\ \A a, b \in Session : Plus(a, b) \in Session
    /\ \A a \in Session : Plus(a, Empty) = a
    /\ NULL \notin Session /\ NULL \notin Object
<1>1. Empty \in Session /\ NULL \notin Session /\ NULL \notin Object
  BY ChainSessionsAssumption DEF Session, Empty
<1>2. ASSUME NEW a \in Session, NEW b \in Session
      PROVE  Plus(a, b) \in Session
  BY DEF Session, Plus
<1>3. ASSUME NEW a \in Session
      PROVE  Plus(a, Empty) = a
  BY DEF Session, Plus, Empty
<1>4. QED
  BY <1>1, <1>2, <1>3

LEMMA WithinFacts ==
    /\ \A a : Within(a, a) /\ Within(Empty, a)
    /\ \A a, b, c : Within(a, b) /\ Within(b, c) => Within(a, c)
    /\ \A a, b : Within(a, Plus(a, b)) /\ Within(b, Plus(a, b))
    /\ \A a, b, c : Within(a, c) /\ Within(b, c) => Within(Plus(a, b), c)
<1>1. ASSUME NEW a PROVE Within(a, a) /\ Within(Empty, a)
  BY DEF Within, Empty
<1>2. ASSUME NEW a, NEW b, NEW c, Within(a, b), Within(b, c)
      PROVE  Within(a, c)
  BY <1>2 DEF Within
<1>3. ASSUME NEW a, NEW b
      PROVE  Within(a, Plus(a, b)) /\ Within(b, Plus(a, b))
  BY DEF Within, Plus
<1>4. ASSUME NEW a, NEW b, NEW c, Within(a, c), Within(b, c)
      PROVE  Within(Plus(a, b), c)
  BY <1>4 DEF Within, Plus
<1>5. QED
  BY <1>1, <1>2, <1>3, <1>4

LEMMA IdleStands ==
    IsClick(Idle) /\ IsApart(Idle) /\ CarriesOn(Idle) /\ StartsCold(Idle) /\ Idle.at = "idle"
<1>1. Idle \in RequestRow
  BY SessionFacts DEF Idle, RequestRow, At, Row
<1>2. QED
  BY <1>1 DEF Idle, IsClick, IsApart, CarriesOn, StartsCold

LEMMA ChainStart == Init => ChainInv
<1> SUFFICES ASSUME Init PROVE ChainInv
  OBVIOUS
<1>1. ChainTyped /\ DOMAIN req = Client /\ \A c \in Client : req[c] = Idle
  BY SessionFacts DEF Init, ChainTyped, Row, Lapse
<1>2. OwedIsKept /\ NothingIsOlder
  BY DEF Init, OwedIsKept, NothingIsOlder
<1>3. QED
  BY <1>1, <1>2, IdleStands DEF ChainInv

\* The Map has an object to spare for a request that holds none.
LEMMA SpareIsFree ==
    ASSUME ChainInv, NEW c \in Client, req[c].object = NULL
    PROVE  Spare \in Object /\ Spare # cached /\ \A d \in Client : req[d].object # Spare
<1>1. PICK C \in SUBSET Client : C = Client \ {c}
  OBVIOUS
<1>2. PICK f : f = [d \in C |-> req[d].object]
  OBVIOUS
<1>3. PICK U : U = {f[d] : d \in C}
  OBVIOUS
<1>4. IsFiniteSet(C) /\ Cardinality(C) = Cardinality(Client) - 1
  BY <1>1, ChainSessionsAssumption, FS_RemoveElement
<1>5. IsFiniteSet(U) /\ Cardinality(U) <= Cardinality(C)
  <2>1. f \in Surjection(C, U)
    BY <1>2, <1>3 DEF Surjection
  <2>2. QED
    BY <1>4, <2>1, FS_Surjection
<1>6. PICK V : V = U \cup {cached}
  OBVIOUS
<1>7. IsFiniteSet(V) /\ Cardinality(V) <= Cardinality(Client)
  <2>1. /\ IsFiniteSet(U \cup {cached})
        /\ Cardinality(U \cup {cached}) =
             IF cached \in U THEN Cardinality(U) ELSE Cardinality(U) + 1
    BY <1>5, FS_AddElement
  <2>2. PICK n \in Nat, m \in Nat, k \in Nat :
           n = Cardinality(Client) /\ m = Cardinality(C) /\ k = Cardinality(U)
    BY <1>4, <1>5, ChainSessionsAssumption, FS_CardinalityType
  <2>3. QED
    BY <1>4, <1>5, <1>6, <2>1, <2>2
<1>8. \E o \in Object : o \notin V
  <2>1. SUFFICES ASSUME \A o \in Object : o \in V PROVE FALSE
    OBVIOUS
  <2>2. Object \in SUBSET V
    BY <2>1
  <2>3. Cardinality(Object) <= Cardinality(V)
    BY <1>7, <2>2, FS_Subset
  <2>4. PICK n \in Nat, m \in Nat, k \in Nat :
           n = Cardinality(Client) /\ m = Cardinality(Object) /\ k = Cardinality(V)
    BY <1>7, ChainSessionsAssumption, FS_CardinalityType
  <2>5. QED
    BY <1>7, <2>3, <2>4, ChainSessionsAssumption
<1>9. PICK o \in Object : o \notin V
  BY <1>8
<1>10. o # cached /\ \A d \in Client : req[d].object # o
  BY <1>1, <1>2, <1>3, <1>6, <1>9, SessionFacts
<1>11. QED
  BY <1>10 DEF Spare

\* A request moves, and the Map and the row stay as they are.
LEMMA ClickMoves ==
    ASSUME ChainInv, NEW c \in Client, NEW j,
           req' = [req EXCEPT ![c] = j], UNCHANGED <<cached, row>>,
           heap' \in [Object -> Session], cached # NULL => heap'[cached] = heap[cached],
           lapses \subseteq lapses', lapses' \subseteq Lapse,
           owed' \in Session, since' \in Session,
           "lost" \notin lapses' => owed' = owed,
           "revived" \notin lapses' => since' = since,
           j.at = "delete" <=> req[c].at = "delete",
           IsClick(j), IsApart(j),
           "lost" \notin lapses' => CarriesOn(j),
           "revived" \notin lapses' => StartsCold(j)
    PROVE  ChainInv'
<1>1. /\ DOMAIN req' = Client /\ req'[c] = j
      /\ \A d \in Client \ {c} : req'[d] = req[d]
  BY DEF ChainInv
<1>2. ChainTyped'
  BY DEF ChainInv, ChainTyped
<1>3. \A d \in Client : IsClick(req'[d]) /\ IsApart(req'[d])
  BY <1>1 DEF ChainInv
<1>4. \A d \in Client : IsClick(req[d])' /\ IsApart(req[d])'
  BY <1>3 DEF IsClick, IsApart
<1>5. Resetting' <=> Resetting
  BY <1>1 DEF Resetting
<1>6. ASSUME "lost" \notin lapses'
      PROVE  OwedIsKept' /\ \A d \in Client : CarriesOn(req[d])'
  <2>1. OwedIsKept /\ owed' = owed /\ \A d \in Client : CarriesOn(req'[d])
    BY <1>1, <1>6 DEF ChainInv
  <2>2. OwedIsKept'
    BY <1>5, <2>1 DEF OwedIsKept
  <2>3. \A d \in Client : CarriesOn(req[d])'
    BY <2>1 DEF CarriesOn
  <2>4. QED
    BY <2>2, <2>3
<1>7. ASSUME "revived" \notin lapses'
      PROVE  NothingIsOlder' /\ \A d \in Client : StartsCold(req[d])'
  <2>1. NothingIsOlder /\ since' = since /\ \A d \in Client : StartsCold(req'[d])
    BY <1>1, <1>7 DEF ChainInv
  <2>2. NothingIsOlder'
    BY <1>5, <2>1 DEF NothingIsOlder
  <2>3. \A d \in Client : StartsCold(req[d])'
    BY <2>1 DEF StartsCold
  <2>4. QED
    BY <2>2, <2>3
<1>8. QED
  BY <1>1, <1>2, <1>4, <1>6, <1>7 DEF ChainInv

\* What the history may say after a step.
LEMMA HistoryIsTyped ==
    ASSUME NEW ls \in SUBSET Lapse, NEW o \in Session, NEW s \in Session, History(ls, o, s)
    PROVE  /\ lapses' = ls /\ owed' \in Session /\ since' \in Session
           /\ "lost" \notin lapses' => owed' = o
           /\ "revived" \notin lapses' => since' = s
BY SessionFacts DEF History

LEMMA ReleasedStands ==
    ASSUME NEW h \in [Object -> Session], NEW c
    PROVE  /\ Released(h, c) \in [Object -> Session]
           /\ cached \in Object => Released(h, c)[cached] = h[cached]
<1>1. CASE req[c].object = cached \/ Elsewhere(req[c].object, c)
  BY <1>1 DEF Released
<1>2. CASE ~(req[c].object = cached \/ Elsewhere(req[c].object, c))
  <2>1. Released(h, c) = [h EXCEPT ![req[c].object] = Empty]
    BY <1>2 DEF Released
  <2>2. QED
    BY <1>2, <2>1, SessionFacts
<1>3. QED
  BY <1>1, <1>2

\* A step as it goes out.
LEMMA SendingIs ==
    ASSUME ChainTyped, NEW r \in RequestRow, NEW s \in Session, NEW ls
    PROVE  LET j == Sending(r, s, ls)
           IN /\ j \in RequestRow /\ j.at = "http" /\ j.sent = s /\ j.copy = NULL
              /\ j.due = IF "lost" \in ls THEN Empty ELSE owed
              /\ j.object = r.object /\ j.test = r.test /\ j.crossed = r.crossed
              /\ j.late = r.late /\ j.gave = r.gave
<1>1. PICK due \in Session : due = IF "lost" \in ls THEN Empty ELSE owed
  BY SessionFacts DEF ChainTyped
<1>2. PICK j : j = [r EXCEPT !.at = "http", !.sent = s, !.copy = NULL, !.due = due]
  OBVIOUS
<1>3. Sending(r, s, ls) = j
  BY <1>1, <1>2 DEF Sending
<1>4. /\ j.at = "http" /\ j.sent = s /\ j.copy = NULL /\ j.due = due
      /\ j.object = r.object /\ j.test = r.test /\ j.crossed = r.crossed
      /\ j.late = r.late /\ j.gave = r.gave
  BY <1>2 DEF RequestRow
<1>5. j \in RequestRow
  BY <1>2 DEF RequestRow, At, Row
<1>6. QED
  BY <1>1, <1>3, <1>4, <1>5

LEMMA OpenSound ==
    ASSUME ChainInv, NEW c \in Client, NEW t \in Tests, Open(c, t)
    PROVE  ChainInv'
<1>1. req[c].at = "idle" /\ ChainTyped /\ UNCHANGED <<cached, heap, row, owed, since, lapses>>
  BY DEF Open, history, ChainInv
<1>2. CASE cached = NULL
  <2>1. PICK j : j = [Idle EXCEPT !.at = "load", !.test = t]
    OBVIOUS
  <2>2. j = [at |-> "load", test |-> t, object |-> NULL, copy |-> NULL,
             sent |-> Empty, due |-> Empty, gave |-> Empty, crossed |-> FALSE,
             late |-> FALSE]
    BY <2>1 DEF Idle
  <2>3. j \in RequestRow
    BY <2>2, SessionFacts DEF RequestRow, At, Row
  <2>4. IsClick(j) /\ IsApart(j) /\ CarriesOn(j) /\ StartsCold(j)
    BY <2>2, <2>3 DEF IsClick, IsApart, CarriesOn, StartsCold
  <2>5. QED
    BY <1>1, <1>2, <2>1, <2>2, <2>4, ClickMoves DEF Open, ChainTyped
<1>3. CASE cached # NULL
  <2>1. PICK due : due = IF "lost" \in lapses THEN Empty ELSE owed
    OBVIOUS
  <2>2. PICK a : a = [Idle EXCEPT !.test = t, !.object = cached]
    OBVIOUS
  <2>3. PICK j : j = Sending(a, heap[cached], lapses)
    OBVIOUS
  <2>4. cached \in Object /\ heap[cached] \in Session /\ due \in Session
    BY <1>1, <1>3, <2>1, SessionFacts DEF ChainTyped
  <2>5. a \in RequestRow /\ a.object = cached /\ a.test = t /\ ~a.crossed /\ ~a.late
    <3>1. Idle \in RequestRow /\ ~Idle.crossed /\ ~Idle.late
      BY IdleStands DEF IsClick, Idle
    <3>2. QED
      BY <2>2, <2>4, <3>1 DEF RequestRow
  <2>6. Within(due, heap[cached])
    BY <1>3, <2>1, WithinFacts DEF ChainInv, OwedIsKept
  <2>7. /\ j \in RequestRow /\ j.at = "http" /\ j.sent = heap[cached] /\ j.due = due
        /\ j.object = cached /\ j.test = t /\ ~j.crossed /\ ~j.late
    BY <1>1, <2>1, <2>3, <2>4, <2>5, SendingIs DEF ChainTyped
  <2>8. IsClick(j) /\ IsApart(j) /\ CarriesOn(j)
    BY <1>3, <2>4, <2>6, <2>7 DEF IsClick, IsApart, CarriesOn
  <2>9. "revived" \notin lapses => StartsCold(j)
    BY <1>3, <2>7 DEF ChainInv, NothingIsOlder, StartsCold
  <2>10. req' = [req EXCEPT ![c] = j]
    BY <1>3, <2>2, <2>3 DEF Open
  <2>11. QED
    BY <1>1, <2>7, <2>8, <2>9, <2>10, ClickMoves DEF ChainTyped
<1>4. QED
  BY <1>2, <1>3

LEMMA ReadRowSound ==
    ASSUME ChainInv, NEW c \in Client, NEW from, NEW to, ReadRow(c, from, to),
           \/ from = "load" /\ to = "install"
           \/ from = "peek" /\ to = "reinstall"
    PROVE  ChainInv'
<1>1. /\ req[c].at = from /\ ChainTyped /\ IsClick(req[c])
      /\ UNCHANGED <<cached, heap, row>>
  BY DEF ReadRow, ChainInv
<1>2. ASSUME NEW copy \in {NULL, row}, NEW late \in BOOLEAN
      PROVE  LET j == [req[c] EXCEPT !.at = to, !.copy = copy, !.late = late]
             IN /\ IsClick(j) /\ IsApart(j) /\ j.at = to /\ j.copy = copy /\ j.late = late
                /\ j.gave = req[c].gave /\ j.crossed = req[c].crossed
  <2>1. PICK j : j = [req[c] EXCEPT !.at = to, !.copy = copy, !.late = late]
    OBVIOUS
  <2>2. to \in At /\ copy \in Row
    BY <1>1 DEF At, ChainTyped, Row
  <2>3. j \in RequestRow
    BY <1>1, <2>1, <2>2 DEF IsClick, RequestRow
  <2>4. /\ j.at = to /\ j.copy = copy /\ j.late = late /\ j.object = req[c].object
        /\ j.gave = req[c].gave /\ j.crossed = req[c].crossed /\ j.test = req[c].test
    BY <1>1, <2>1 DEF IsClick, RequestRow
  <2>5. IsClick(j) /\ IsApart(j)
    BY <1>1, <2>3, <2>4 DEF IsClick, IsApart
  <2>6. QED
    BY <2>1, <2>4, <2>5
<1>3. CASE UNCHANGED history /\
           req' = [req EXCEPT ![c] = [@ EXCEPT !.at = to, !.copy = row,
                                               !.late = Resetting /\ row # NULL]]
  <2>1. PICK late \in BOOLEAN : late = (Resetting /\ row # NULL)
    OBVIOUS
  <2>2. PICK j : j = [req[c] EXCEPT !.at = to, !.copy = row, !.late = late]
    OBVIOUS
  <2>3. /\ IsClick(j) /\ IsApart(j) /\ j.at = to /\ j.copy = row /\ j.late = late
        /\ j.gave = req[c].gave /\ j.crossed = req[c].crossed
    BY <1>2, <2>2
  <2>4. "lost" \notin lapses => CarriesOn(j)
    <3>1. SUFFICES ASSUME "lost" \notin lapses PROVE CarriesOn(j)
      OBVIOUS
    <3>2. OwedIsKept /\ CarriesOn(req[c])
      BY <3>1 DEF ChainInv
    <3>3. Within(owed, Given(j))
      BY <2>3, <3>2, WithinFacts DEF OwedIsKept, Given
    <3>4. j.at = "reinstall" => j.crossed \/ j.gave = Empty
      BY <1>1, <2>3, <3>2 DEF CarriesOn
    <3>5. QED
      BY <2>3, <3>3, <3>4 DEF CarriesOn
  <2>5. "revived" \notin lapses => StartsCold(j)
    BY <2>1, <2>3, WithinFacts DEF ChainInv, NothingIsOlder, StartsCold, Given
  <2>6. req' = [req EXCEPT ![c] = j]
    BY <1>3, <2>1, <2>2
  <2>7. QED
    BY <1>1, <1>3, <2>3, <2>4, <2>5, <2>6, ClickMoves DEF history, ChainTyped
<1>4. CASE History(lapses \cup {"lost"}, owed, since) /\
           req' = [req EXCEPT ![c] = [@ EXCEPT !.at = to, !.copy = NULL]]
  <2>1. PICK j : j = [req[c] EXCEPT !.at = to, !.copy = NULL, !.late = req[c].late]
    OBVIOUS
  <2>2. req[c].late \in BOOLEAN
    BY <1>1 DEF IsClick, RequestRow
  <2>3. IsClick(j) /\ IsApart(j) /\ j.at = to /\ j.copy = NULL
    BY <1>2, <2>1, <2>2
  <2>4. StartsCold(j)
    BY <2>3, WithinFacts DEF StartsCold, Given
  <2>5. req' = [req EXCEPT ![c] = j]
    <3>1. [req[c] EXCEPT !.at = to, !.copy = NULL] = j
      BY <1>1, <2>1 DEF IsClick, RequestRow
    <3>2. QED
      BY <1>4, <3>1
  <2>6. lapses \cup {"lost"} \in SUBSET Lapse
    BY <1>1 DEF ChainTyped, Lapse
  <2>7. /\ lapses' = lapses \cup {"lost"} /\ owed' \in Session /\ since' \in Session
        /\ "revived" \notin lapses' => since' = since
    BY <1>1, <1>4, <2>6, HistoryIsTyped DEF ChainTyped
  <2>8. QED
    BY <1>1, <2>3, <2>4, <2>5, <2>6, <2>7, ClickMoves DEF ChainTyped
<1>5. QED
  BY <1>3, <1>4 DEF ReadRow

LEMMA StoreFailsSound ==
    ASSUME ChainInv, NEW c \in Client, StoreFails(c)
    PROVE  ChainInv'
<1>1. /\ req[c].at = "http" /\ ChainTyped
      /\ UNCHANGED <<cached, row, owed, since, lapses>>
  BY DEF StoreFails, ChainInv, history
<1>2. heap' \in [Object -> Session] /\ (cached # NULL => heap'[cached] = heap[cached])
  BY <1>1, ReleasedStands DEF StoreFails, ChainTyped
<1>3. QED
  BY <1>1, <1>2, IdleStands, ClickMoves DEF StoreFails, ChainTyped

LEMMA BadgeSound ==
    ASSUME ChainInv, NEW c \in Client, Badge(c)
    PROVE  ChainInv'
<1>1. req[c].at = "idle" /\ ChainTyped /\ UNCHANGED <<cached, heap, row, owed, since, lapses>>
  BY DEF Badge, ChainInv, history
<1>2. PICK j : j = [req[c] EXCEPT !.at = "peek"]
  OBVIOUS
<1>3. IsClick(req[c]) /\ req' = [req EXCEPT ![c] = j]
  BY <1>2 DEF ChainInv, Badge
<1>4. j \in RequestRow
  BY <1>2, <1>3 DEF IsClick, RequestRow, At
<1>5. /\ j.at = "peek" /\ j.object = NULL /\ j.copy = NULL /\ j.gave = Empty
  BY <1>1, <1>2, <1>3 DEF IsClick, RequestRow
<1>6. IsClick(j) /\ IsApart(j) /\ CarriesOn(j) /\ StartsCold(j)
  BY <1>4, <1>5 DEF IsClick, IsApart, CarriesOn, StartsCold
<1>7. QED
  BY <1>1, <1>3, <1>5, <1>6, ClickMoves DEF ChainTyped

LEMMA EvictedStands ==
    ASSUME ChainTyped PROVE Evicted(heap) \in [Object -> Session]
<1>1. heap \in [Object -> Session] /\ Empty \in Session
  BY SessionFacts DEF ChainTyped
<1>2. CASE cached = NULL \/ \E d \in Client : req[d].object = cached
  BY <1>1, <1>2 DEF Evicted
<1>3. CASE ~(cached = NULL \/ \E d \in Client : req[d].object = cached)
  <2>1. Evicted(heap) = [heap EXCEPT ![cached] = Empty]
    BY <1>3 DEF Evicted
  <2>2. QED
    BY <1>1, <2>1
<1>4. QED
  BY <1>2, <1>3

\* A request that has read the row puts an object into the Map.
LEMMA MapMoves ==
    ASSUME ChainInv, NEW c \in Client, NEW j, NEW s \in Session,
           req[c].at \in {"install", "reinstall"}, s = Given(req[c]),
           req' = [req EXCEPT ![c] = j], cached' = Spare,
           heap' = [Evicted(heap) EXCEPT ![Spare] = s], row' = row,
           lapses' = Lapses(c), owed' \in Session, since' \in Session,
           "lost" \notin lapses' => owed' = owed,
           "revived" \notin lapses' => since' = since,
           IsClick(j), j.at \in {"http", "idle"},
           j.at = "http" => ~j.crossed /\ j.object = Spare /\ j.sent = s
    PROVE  ChainInv'
<1>1. /\ DOMAIN req' = Client /\ req'[c] = j /\ req[c].object = NULL /\ ChainTyped
      /\ \A d \in Client \ {c} : req'[d] = req[d]
  BY DEF ChainInv, IsClick
<1>2. /\ Spare \in Object /\ Spare # cached /\ Spare # NULL
      /\ \A d \in Client : req[d].object # Spare
  BY <1>1, SpareIsFree, SessionFacts
<1>3. heap' \in [Object -> Session] /\ heap'[cached'] = s
  BY <1>1, <1>2, EvictedStands
<1>4. /\ lapses' \subseteq Lapse /\ lapses \subseteq lapses'
      /\ "lost" \notin lapses' => cached = NULL
      /\ "revived" \notin lapses' => ~req[c].late
  BY <1>1 DEF Lapses, Lapse, ChainTyped
<1>5. ChainTyped'
  BY <1>1, <1>2, <1>3, <1>4 DEF ChainTyped
<1>6. \A d \in Client : IsClick(req[d])' /\ IsApart(req[d])'
  <2>1. ASSUME NEW d \in Client PROVE IsClick(req'[d])
    BY <1>1 DEF ChainInv
  <2>2. ASSUME NEW d \in Client PROVE req'[d].at = "http" /\ req'[d].crossed => req'[d].object # Spare
    BY <1>1, <1>2
  <2>3. QED
    BY <2>1, <2>2 DEF IsClick, IsApart
<1>7. Resetting' <=> Resetting
  BY <1>1 DEF Resetting
<1>8. ASSUME "lost" \notin lapses'
      PROVE  OwedIsKept' /\ \A d \in Client : CarriesOn(req[d])'
  <2>1. /\ OwedIsKept /\ owed' = owed /\ cached = NULL
        /\ \A d \in Client : CarriesOn(req[d])
    BY <1>4, <1>8 DEF ChainInv
  <2>2. Within(owed, s)
    BY <2>1 DEF CarriesOn
  <2>3. OwedIsKept'
    BY <1>2, <1>3, <2>1, <2>2 DEF OwedIsKept
  <2>4. ASSUME NEW d \in Client
        PROVE  CarriesOn(req[d])'
    <3>1. CASE d = c
      BY <1>1, <1>2, <3>1 DEF CarriesOn
    <3>2. CASE d # c
      <4>1. req'[d] = req[d] /\ CarriesOn(req[d])
        BY <1>1, <2>1, <3>2
      <4>2. /\ ~(req[d].at \in {"http", "save"} /\ ~req[d].crossed)
            /\ req[d].at \in {"peek", "reinstall"} => req[d].crossed \/ req[d].gave = Empty
        BY <2>1, <4>1 DEF CarriesOn
      <4>3. QED
        BY <1>2, <4>1, <4>2 DEF CarriesOn
    <3>3. QED
      BY <3>1, <3>2
  <2>5. QED
    BY <2>3, <2>4
<1>9. ASSUME "revived" \notin lapses'
      PROVE  NothingIsOlder' /\ \A d \in Client : StartsCold(req[d])'
  <2>1. /\ NothingIsOlder /\ since' = since /\ ~req[c].late
        /\ \A d \in Client : StartsCold(req[d])
    BY <1>4, <1>9 DEF ChainInv
  <2>2. Within(s, since)
    BY <2>1 DEF StartsCold
  <2>3. NothingIsOlder'
    BY <1>3, <1>7, <2>1, <2>2 DEF NothingIsOlder
  <2>4. ASSUME NEW d \in Client
        PROVE  StartsCold(req[d])'
    <3>1. CASE d = c
      BY <1>1, <2>1, <2>2, <3>1 DEF StartsCold
    <3>2. CASE d # c
      BY <1>1, <2>1, <3>2 DEF StartsCold
    <3>3. QED
      BY <3>1, <3>2
  <2>5. QED
    BY <2>3, <2>4
<1>10. QED
  BY <1>1, <1>5, <1>6, <1>8, <1>9 DEF ChainInv

LEMMA LapsesAreTyped ==
    ASSUME ChainTyped, NEW c PROVE Lapses(c) \in SUBSET Lapse
BY DEF Lapses, Lapse, ChainTyped

LEMMA InstallSound ==
    ASSUME ChainInv, NEW c \in Client, Install(c)
    PROVE  ChainInv'
<1>1. PICK s : s = Given(req[c])
  OBVIOUS
<1>2. /\ req[c].at = "install" /\ ChainTyped /\ IsClick(req[c])
      /\ cached' = Spare /\ heap' = [Evicted(heap) EXCEPT ![Spare] = s]
      /\ History(Lapses(c), owed, since) /\ row' = row
      /\ req' = [req EXCEPT ![c] = Sending([req[c] EXCEPT !.object = Spare, !.late = FALSE],
                                           s, Lapses(c))]
  BY <1>1 DEF Install, ChainInv, Given
<1>3. s \in Session
  BY <1>1, <1>2, SessionFacts DEF Given, IsClick, RequestRow, Row
<1>4. /\ lapses' = Lapses(c) /\ owed' \in Session /\ since' \in Session
      /\ "lost" \notin lapses' => owed' = owed
      /\ "revived" \notin lapses' => since' = since
  BY <1>2, LapsesAreTyped, HistoryIsTyped DEF ChainTyped
<1>5. PICK a : a = [req[c] EXCEPT !.object = Spare, !.late = FALSE]
  OBVIOUS
<1>6. PICK j : j = Sending(a, s, Lapses(c))
  OBVIOUS
<1>7. Spare \in Object
  BY <1>2, SpareIsFree DEF IsClick
<1>8. a \in RequestRow /\ a.object = Spare /\ a.test = req[c].test
      /\ a.crossed = req[c].crossed /\ ~a.late
  BY <1>2, <1>5, <1>7 DEF IsClick, RequestRow
<1>9. /\ j \in RequestRow /\ j.at = "http" /\ j.sent = s
      /\ j.due = IF "lost" \in Lapses(c) THEN Empty ELSE owed
      /\ j.object = Spare /\ j.test = req[c].test /\ j.crossed = req[c].crossed /\ ~j.late
  BY <1>2, <1>3, <1>6, <1>8, SendingIs
<1>10. Within(j.due, s)
  <2>1. CASE "lost" \in Lapses(c)
    BY <1>9, <2>1, WithinFacts
  <2>2. CASE "lost" \notin Lapses(c)
    <3>1. "lost" \notin lapses /\ cached = NULL
      BY <2>2 DEF Lapses
    <3>2. CarriesOn(req[c])
      BY <3>1 DEF ChainInv
    <3>3. QED
      BY <1>1, <1>2, <1>9, <2>2, <3>1, <3>2 DEF CarriesOn
  <2>3. QED
    BY <2>1, <2>2
<1>11. IsClick(j) /\ ~j.crossed
  BY <1>2, <1>7, <1>9, <1>10 DEF IsClick
<1>12. req' = [req EXCEPT ![c] = j]
  BY <1>2, <1>5, <1>6
<1>13. QED
  BY <1>1, <1>2, <1>3, <1>4, <1>9, <1>11, <1>12, MapMoves

\* Whoever answers without a session to write owes nothing.
LEMMA AnsweredStands ==
    ASSUME ChainInv, NEW c \in Client, NEW ls \in SUBSET Lapse, lapses \subseteq ls,
           req[c].at \in {"peek", "reinstall"}, Answered(c, ls)
    PROVE  /\ req' = [req EXCEPT ![c] = Idle]
           /\ lapses' = ls /\ owed' \in Session /\ since' \in Session
           /\ "lost" \notin lapses' => owed' = owed
           /\ "revived" \notin lapses' => since' = since
<1>1. PICK o : o = IF req[c].crossed THEN owed ELSE Plus(owed, req[c].gave)
  OBVIOUS
<1>2. ChainTyped /\ IsClick(req[c])
  BY DEF ChainInv
<1>3. o \in Session
  BY <1>1, <1>2, SessionFacts DEF ChainTyped, IsClick, RequestRow
<1>4. History(ls, o, since) /\ req' = [req EXCEPT ![c] = Idle]
  BY <1>1 DEF Answered
<1>5. /\ lapses' = ls /\ owed' \in Session /\ since' \in Session
      /\ "lost" \notin lapses' => owed' = o
      /\ "revived" \notin lapses' => since' = since
  BY <1>2, <1>3, <1>4, HistoryIsTyped DEF ChainTyped
<1>6. "lost" \notin ls => o = owed
  <2>1. SUFFICES ASSUME "lost" \notin ls PROVE o = owed
    OBVIOUS
  <2>2. CarriesOn(req[c])
    BY <2>1 DEF ChainInv
  <2>3. req[c].crossed \/ req[c].gave = Empty
    BY <2>2 DEF CarriesOn
  <2>4. QED
    BY <1>1, <1>2, <2>3, SessionFacts DEF ChainTyped
<1>7. QED
  BY <1>4, <1>5, <1>6

LEMMA ReinstallSound ==
    ASSUME ChainInv, NEW c \in Client, Reinstall(c)
    PROVE  ChainInv'
<1>1. req[c].at = "reinstall" /\ ChainTyped /\ IsClick(req[c]) /\ row' = row
  BY DEF Reinstall, ChainInv
<1>2. CASE req[c].copy = NULL
  <2>1. UNCHANGED <<cached, heap>> /\ Answered(c, lapses)
    BY <1>2 DEF Reinstall
  <2>2. lapses \in SUBSET Lapse
    BY <1>1 DEF ChainTyped
  <2>3. /\ req' = [req EXCEPT ![c] = Idle]
        /\ lapses' = lapses /\ owed' \in Session /\ since' \in Session
        /\ "lost" \notin lapses' => owed' = owed
        /\ "revived" \notin lapses' => since' = since
    BY <1>1, <2>1, <2>2, AnsweredStands
  <2>4. QED
    BY <1>1, <2>1, <2>2, <2>3, IdleStands, ClickMoves DEF ChainTyped
<1>3. CASE req[c].copy # NULL
  <2>1. PICK s : s = Given(req[c])
    OBVIOUS
  <2>2. s \in Session /\ s = req[c].copy
    BY <1>1, <1>3, <2>1 DEF Given, IsClick, RequestRow, Row
  <2>3. /\ cached' = Spare /\ heap' = [Evicted(heap) EXCEPT ![Spare] = s]
        /\ Answered(c, Lapses(c))
    BY <1>3, <2>2 DEF Reinstall
  <2>4. Lapses(c) \in SUBSET Lapse /\ lapses \subseteq Lapses(c)
    BY <1>1, LapsesAreTyped DEF Lapses
  <2>5. /\ req' = [req EXCEPT ![c] = Idle]
        /\ lapses' = Lapses(c) /\ owed' \in Session /\ since' \in Session
        /\ "lost" \notin lapses' => owed' = owed
        /\ "revived" \notin lapses' => since' = since
    BY <1>1, <2>3, <2>4, AnsweredStands
  <2>6. QED
    BY <1>1, <2>1, <2>2, <2>3, <2>5, IdleStands, MapMoves
<1>4. QED
  BY <1>2, <1>3

LEMMA IngestSound ==
    ASSUME ChainInv, NEW c \in Client, NEW outage \in Outage, Ingest(c, outage)
    PROVE  ChainInv'
<1>1. PICK r, res, hand, out, g :
         /\ r = req[c] /\ res = ExecuteTest(r.test, r.sent, outage)
         /\ hand = [jar |-> res.jar, vars |-> res.vars]
         /\ out = IF outage = "none" /\ r.test.type = "api" /\ Sendable(r.test)
                  THEN HandedOut(r.test, r.sent) ELSE Empty
         /\ g = [heap EXCEPT ![r.object] = Plus(@, hand)]
  OBVIOUS
<1>2. /\ r.at = "http" /\ ChainTyped /\ IsClick(r) /\ IsApart(r)
      /\ heap' = Released(g, c) /\ cached' = cached /\ row' = row
      /\ History(lapses, owed, IF r.crossed THEN since ELSE Plus(since, hand))
  BY <1>1 DEF Ingest, ChainInv
<1>3. /\ r \in RequestRow /\ r.object \in Object /\ r.test \in Tests /\ r.sent \in Session
      /\ r.crossed \in BOOLEAN /\ ~r.late
  BY <1>2 DEF IsClick, RequestRow
<1>4. hand \in Session
  BY <1>1, <1>3, TestsHandOn DEF Session
<1>5. out \in Session /\ Within(out, hand)
  <2>1. CASE outage = "none" /\ r.test.type = "api" /\ Sendable(r.test)
    <3>1. out \in Session
      BY <1>1, <1>3, <2>1, HandedOutAreSessions
    <3>2. Within(out, res)
      BY <1>1, <1>3, <2>1, TestsHandOn
    <3>3. hand.jar = res.jar /\ hand.vars = res.vars
      BY <1>1
    <3>4. QED
      BY <3>1, <3>2, <3>3 DEF Within
  <2>2. CASE ~(outage = "none" /\ r.test.type = "api" /\ Sendable(r.test))
    BY <1>1, <2>2, SessionFacts, WithinFacts
  <2>3. QED
    BY <2>1, <2>2
<1>6. g \in [Object -> Session]
      /\ \A o \in Object : g[o] = IF o = r.object THEN Plus(heap[o], hand) ELSE heap[o]
  <2>1. heap \in [Object -> Session]
    BY <1>2 DEF ChainTyped
  <2>2. Plus(heap[r.object], hand) \in Session
    BY <1>3, <1>4, <2>1, SessionFacts
  <2>3. QED
    BY <1>1, <1>3, <2>1, <2>2
<1>7. /\ heap' \in [Object -> Session]
      /\ cached # NULL => /\ cached \in Object
                          /\ heap'[cached] = IF r.object = cached
                                             THEN Plus(heap[cached], hand) ELSE heap[cached]
  BY <1>2, <1>6, ReleasedStands DEF ChainTyped
<1>8. PICK p : p = IF cached = NULL THEN NULL ELSE heap'[cached]
  OBVIOUS
<1>9. /\ p \in Row /\ (p = NULL <=> cached = NULL)
  BY <1>7, <1>8, SessionFacts DEF Row
<1>10. PICK at : at = IF p = NULL THEN "peek" ELSE "save"
  OBVIOUS
<1>11. PICK j : j = [r EXCEPT !.at = at, !.copy = p, !.test = NULL, !.object = NULL,
                              !.sent = Empty, !.due = Empty, !.gave = out]
  OBVIOUS
<1>12. req' = [req EXCEPT ![c] = j]
  BY <1>1, <1>2, <1>8, <1>10, <1>11 DEF Ingest, Persisted
<1>13. /\ j.at = at /\ j.copy = p /\ j.object = NULL /\ j.gave = out
       /\ j.crossed = r.crossed /\ ~j.late
  BY <1>3, <1>11 DEF RequestRow
<1>14. j \in RequestRow
  BY <1>3, <1>5, <1>9, <1>10, <1>11, SessionFacts DEF RequestRow, At
<1>15. IsClick(j) /\ (j.at = "save" <=> cached # NULL) /\ j.at \in {"save", "peek"}
  BY <1>9, <1>10, <1>13, <1>14 DEF IsClick, Row
<1>16. PICK s \in Session : s = IF r.crossed THEN since ELSE Plus(since, hand)
  BY <1>2, <1>4, SessionFacts DEF ChainTyped
<1>17. /\ lapses' = lapses /\ owed' \in Session /\ since' \in Session
       /\ "lost" \notin lapses' => owed' = owed
       /\ "revived" \notin lapses' => since' = s
  BY <1>2, <1>16, HistoryIsTyped DEF ChainTyped
<1>18. /\ DOMAIN req' = Client /\ req'[c] = j
       /\ \A d \in Client \ {c} : req'[d] = req[d]
  BY <1>12 DEF ChainInv
<1>19. ChainTyped'
  BY <1>2, <1>7, <1>17 DEF ChainTyped
<1>20. \A d \in Client : IsClick(req[d])' /\ IsApart(req[d])'
  <2>1. \A d \in Client : IsClick(req'[d])
    BY <1>15, <1>18 DEF ChainInv
  <2>2. ASSUME NEW d \in Client
        PROVE  req'[d].at = "http" /\ req'[d].crossed => req'[d].object # cached
    <3>1. CASE d = c
      BY <1>15, <1>18, <3>1
    <3>2. CASE d # c
      BY <1>18, <3>2 DEF ChainInv, IsApart
    <3>3. QED
      BY <3>1, <3>2
  <2>3. QED
    BY <1>2, <2>1, <2>2 DEF IsClick, IsApart
<1>21. Resetting' <=> Resetting
  BY <1>1, <1>2, <1>15, <1>18 DEF Resetting
<1>22. cached # NULL => Within(heap[cached], heap'[cached])
  BY <1>7, WithinFacts
<1>23. ASSUME "lost" \notin lapses'
       PROVE  OwedIsKept' /\ \A d \in Client : CarriesOn(req[d])'
  <2>1. OwedIsKept /\ owed' = owed /\ \A d \in Client : CarriesOn(req[d])
    BY <1>17, <1>23 DEF ChainInv
  <2>2. OwedIsKept'
    <3>1. cached # NULL => Within(owed, heap'[cached])
      BY <1>22, <2>1, WithinFacts DEF OwedIsKept
    <3>2. QED
      BY <1>2, <1>21, <2>1, <3>1 DEF OwedIsKept
  <2>3. ASSUME NEW d \in Client
        PROVE  CarriesOn(req[d])'
    <3>1. CASE d = c
      <4>1. ~r.crossed => cached # NULL /\ r.object = cached
        BY <1>1, <1>2, <2>1 DEF CarriesOn
      <4>2. ~r.crossed => Within(out, heap'[cached]) /\ p = heap'[cached]
        BY <1>5, <1>7, <1>8, <4>1, WithinFacts
      <4>3. QED
        BY <1>2, <1>13, <1>15, <1>18, <3>1, <4>1, <4>2 DEF CarriesOn
    <3>2. CASE d # c
      <4>1. CarriesOn(req[d]) /\ req'[d] = req[d]
        BY <1>18, <2>1, <3>2
      <4>2. req[d].at = "save" /\ ~req[d].crossed =>
               cached # NULL /\ Within(req[d].gave, heap'[cached])
        BY <1>22, <4>1, WithinFacts DEF CarriesOn
      <4>3. QED
        BY <1>2, <2>1, <4>1, <4>2 DEF CarriesOn
    <3>3. QED
      BY <3>1, <3>2
  <2>4. QED
    BY <2>2, <2>3
<1>24. ASSUME "revived" \notin lapses'
       PROVE  NothingIsOlder' /\ \A d \in Client : StartsCold(req[d])'
  <2>1. NothingIsOlder /\ since' = s /\ \A d \in Client : StartsCold(req[d])
    BY <1>17, <1>24 DEF ChainInv
  <2>2. Within(since, s)
    BY <1>16, WithinFacts
  <2>3. cached # NULL => Within(heap'[cached], s)
    <3>1. CASE r.crossed
      BY <1>2, <1>7, <1>16, <2>1, <3>1 DEF NothingIsOlder, IsApart
    <3>2. CASE ~r.crossed
      <4>1. Within(hand, s)
        BY <1>16, <3>2, WithinFacts
      <4>2. cached # NULL => Within(heap[cached], s)
        BY <2>1, <2>2, WithinFacts DEF NothingIsOlder
      <4>3. QED
        BY <1>7, <4>1, <4>2, WithinFacts
    <3>3. QED
      BY <3>1, <3>2
  <2>4. NothingIsOlder'
    <3>1. row # NULL => Resetting \/ Within(row, s)
      BY <2>1, <2>2, WithinFacts DEF NothingIsOlder
    <3>2. QED
      BY <1>2, <1>21, <2>1, <2>3, <3>1 DEF NothingIsOlder
  <2>5. ASSUME NEW d \in Client
        PROVE  StartsCold(req[d])'
    <3>1. CASE d = c
      <4>1. Within(Given(j), s)
        BY <1>8, <1>9, <1>13, <2>3, WithinFacts DEF Given
      <4>2. QED
        BY <1>15, <1>18, <2>1, <3>1, <4>1 DEF StartsCold
    <3>2. CASE d # c
      <4>1. StartsCold(req[d]) /\ req'[d] = req[d]
        BY <1>18, <2>1, <3>2
      <4>2. QED
        BY <2>1, <2>2, <4>1, WithinFacts DEF StartsCold
    <3>3. QED
      BY <3>1, <3>2
  <2>6. QED
    BY <2>4, <2>5
<1>25. QED
  BY <1>18, <1>19, <1>20, <1>23, <1>24 DEF ChainInv

\* A request moves, and the row with it.
LEMMA RowMoves ==
    ASSUME ChainInv, NEW c \in Client, NEW j,
           req' = [req EXCEPT ![c] = j], UNCHANGED <<cached, heap>>, row' \in Row,
           lapses \subseteq lapses', lapses' \subseteq Lapse,
           owed' \in Session, since' \in Session,
           IsClick(j), j.at \in {"idle", "peek"},
           j.at = "peek" => j.crossed \/ "lost" \in lapses',
           "lost" \notin lapses' => OwedIsKept' /\ (cached = NULL => owed' = owed),
           "revived" \notin lapses' => since' = since /\ NothingIsOlder'
    PROVE  ChainInv'
<1>1. /\ DOMAIN req' = Client /\ req'[c] = j
      /\ \A d \in Client \ {c} : req'[d] = req[d]
  BY DEF ChainInv
<1>2. ChainTyped'
  BY DEF ChainInv, ChainTyped
<1>3. \A d \in Client : IsClick(req'[d]) /\ IsApart(req'[d])
  BY <1>1 DEF ChainInv, IsApart
<1>4. \A d \in Client : IsClick(req[d])' /\ IsApart(req[d])'
  BY <1>3 DEF IsClick, IsApart
<1>5. ASSUME "lost" \notin lapses', NEW d \in Client
      PROVE  CarriesOn(req[d])'
  <2>1. CASE d = c
    BY <1>1, <1>5, <2>1 DEF CarriesOn
  <2>2. CASE d # c
    <3>1. CarriesOn(req[d]) /\ req'[d] = req[d]
      BY <1>1, <1>5, <2>2 DEF ChainInv
    <3>2. QED
      BY <1>5, <3>1 DEF CarriesOn
  <2>3. QED
    BY <2>1, <2>2
<1>6. ASSUME "revived" \notin lapses', NEW d \in Client
      PROVE  StartsCold(req[d])'
  <2>1. CASE d = c
    BY <1>1, <2>1 DEF StartsCold
  <2>2. CASE d # c
    <3>1. StartsCold(req[d]) /\ req'[d] = req[d]
      BY <1>1, <1>6, <2>2 DEF ChainInv
    <3>2. QED
      BY <1>6, <3>1 DEF StartsCold
  <2>3. QED
    BY <2>1, <2>2
<1>7. QED
  BY <1>1, <1>2, <1>4, <1>5, <1>6 DEF ChainInv

\* A write covers what was owed, unless it lands behind a later one.
LEMMA SaveSound ==
    ASSUME ChainInv, NEW c \in Client, Save(c)
    PROVE  ChainInv'
<1>1. PICK r : r = req[c]
  OBVIOUS
<1>2. /\ r.at = "save" /\ ChainTyped /\ IsClick(r) /\ UNCHANGED <<cached, heap>>
  BY <1>1 DEF Save, ChainInv
<1>3. /\ r \in RequestRow /\ r.copy \in Session /\ r.gave \in Session
      /\ r.crossed \in BOOLEAN /\ r.object = NULL
  BY <1>2 DEF IsClick, RequestRow
<1>4. PICK behind \in BOOLEAN : behind = (row # NULL /\ ~Within(row, r.copy))
  OBVIOUS
<1>5. PICK ls :
        /\ \/ /\ row' = r.copy
              /\ ls = lapses \cup (IF behind THEN {"lost"} ELSE {})
                             \cup (IF r.late THEN {"revived"} ELSE {})
           \/ row' = row /\ ls = lapses \cup {"lost"}
        /\ IF cached # NULL THEN Answered(c, ls)
           ELSE /\ req' = [req EXCEPT ![c] = [@ EXCEPT !.at = "peek", !.copy = NULL,
                                                       !.late = FALSE]]
                /\ History(ls, owed, since)
  <2>1. CASE row' = r.copy
    BY <1>1, <1>4, <2>1 DEF Save
  <2>2. CASE row' # r.copy
    BY <1>1, <2>2 DEF Save
  <2>3. QED
    BY <2>1, <2>2
<1>6. /\ ls \in SUBSET Lapse /\ lapses \subseteq ls /\ row' \in Row
      /\ "lost" \notin ls => row' = r.copy /\ ~behind
      /\ "revived" \notin ls => row' = row \/ (row' = r.copy /\ ~r.late)
  BY <1>2, <1>3, <1>5 DEF Lapse, ChainTyped, Row
<1>7. PICK o \in Session :
        o = IF cached = NULL \/ r.crossed THEN owed ELSE Plus(owed, r.gave)
  BY <1>2, <1>3, SessionFacts DEF ChainTyped
<1>8. PICK j : j = IF cached # NULL THEN Idle
                   ELSE [r EXCEPT !.at = "peek", !.copy = NULL, !.late = FALSE]
  OBVIOUS
<1>9. req' = [req EXCEPT ![c] = j] /\ History(ls, o, since)
  BY <1>1, <1>5, <1>7, <1>8 DEF Answered
<1>10. /\ lapses' = ls /\ owed' \in Session /\ since' \in Session
       /\ "lost" \notin lapses' => owed' = o
       /\ "revived" \notin lapses' => since' = since
  BY <1>2, <1>6, <1>9, HistoryIsTyped DEF ChainTyped
<1>11. IsClick(j) /\ j.at \in {"idle", "peek"} /\ (j.at = "peek" => j.crossed \/ "lost" \in lapses)
  <2>1. CASE cached # NULL
    BY <1>8, <2>1, IdleStands
  <2>2. CASE cached = NULL
    <3>1. j = [r EXCEPT !.at = "peek", !.copy = NULL, !.late = FALSE]
      BY <1>8, <2>2
    <3>2. j \in RequestRow
      BY <1>3, <3>1 DEF RequestRow, At, Row
    <3>3. j.at = "peek" /\ j.copy = NULL /\ ~j.late /\ j.object = NULL /\ j.crossed = r.crossed
      BY <1>3, <3>1 DEF RequestRow
    <3>4. "lost" \notin lapses => r.crossed
      BY <1>1, <1>2, <2>2 DEF ChainInv, CarriesOn
    <3>5. QED
      BY <3>2, <3>3, <3>4 DEF IsClick
  <2>3. QED
    BY <2>1, <2>2
<1>12. Resetting' <=> Resetting
  <2>1. DOMAIN req = Client
    BY DEF ChainInv
  <2>2. QED
    BY <1>1, <1>2, <1>9, <1>11, <2>1 DEF Resetting
<1>13. ASSUME "lost" \notin lapses'
       PROVE  OwedIsKept' /\ (cached = NULL => owed' = owed)
  <2>1. OwedIsKept /\ CarriesOn(r) /\ owed' = o /\ row' = r.copy /\ ~behind
    BY <1>1, <1>6, <1>10, <1>13 DEF ChainInv
  <2>2. cached # NULL => Within(owed', heap[cached])
    <3>1. CASE cached = NULL \/ r.crossed
      BY <1>7, <2>1, <3>1 DEF OwedIsKept
    <3>2. CASE ~(cached = NULL \/ r.crossed)
      BY <1>2, <1>7, <2>1, <3>2, WithinFacts DEF OwedIsKept, CarriesOn
    <3>3. QED
      BY <3>1, <3>2
  <2>3. owed = Empty \/ Within(owed, r.copy)
    BY <1>4, <2>1, WithinFacts DEF OwedIsKept
  <2>4. owed' = Empty \/ Within(owed', r.copy)
    <3>1. CASE cached = NULL \/ r.crossed
      BY <1>7, <2>1, <2>3, <3>1
    <3>2. CASE ~(cached = NULL \/ r.crossed)
      <4>1. Within(r.gave, r.copy)
        BY <1>2, <2>1, <3>2 DEF CarriesOn
      <4>2. Within(owed, r.copy)
        BY <2>3, WithinFacts
      <4>3. QED
        BY <1>7, <2>1, <3>2, <4>1, <4>2, WithinFacts
    <3>3. QED
      BY <3>1, <3>2
  <2>5. r.copy # NULL
    BY <1>3, SessionFacts
  <2>6. QED
    BY <1>2, <1>7, <1>12, <2>1, <2>2, <2>4, <2>5 DEF OwedIsKept
<1>14. ASSUME "revived" \notin lapses'
       PROVE  since' = since /\ NothingIsOlder'
  <2>1. NothingIsOlder /\ StartsCold(r) /\ since' = since
        /\ (row' = row \/ (row' = r.copy /\ ~r.late))
    BY <1>1, <1>6, <1>10, <1>14 DEF ChainInv
  <2>2. row' # NULL => Resetting \/ Within(row', since)
    <3>1. CASE row' = row
      BY <2>1, <3>1 DEF NothingIsOlder
    <3>2. CASE row' = r.copy /\ ~r.late
      BY <1>2, <1>3, <2>1, <3>2, SessionFacts DEF StartsCold, Given
    <3>3. QED
      BY <2>1, <3>1, <3>2
  <2>3. QED
    BY <1>2, <1>12, <2>1, <2>2 DEF NothingIsOlder
<1>15. j.at = "peek" => j.crossed \/ "lost" \in lapses'
  BY <1>6, <1>10, <1>11
<1>16. QED
  BY <1>2, <1>6, <1>9, <1>10, <1>11, <1>13, <1>14, <1>15, RowMoves

\* The DELETE takes the row away, and a reset that could not is known.
LEMMA DeleteRowSound ==
    ASSUME ChainInv, NEW c \in Client, DeleteRow(c)
    PROVE  ChainInv'
<1>1. /\ req[c].at = "delete" /\ ChainTyped /\ UNCHANGED <<cached, heap>>
      /\ req' = [req EXCEPT ![c] = Idle] /\ DOMAIN req = Client
  BY DEF DeleteRow, ChainInv
<1>2. Resetting /\ (Resetting' => Resetting)
  BY <1>1 DEF Resetting
<1>3. CASE /\ row' = NULL
           /\ History(lapses \cup (IF cached # NULL THEN {"lost"} ELSE {}), owed, since)
  <2>1. PICK ls \in SUBSET Lapse : ls = lapses \cup (IF cached # NULL THEN {"lost"} ELSE {})
    BY <1>1 DEF ChainTyped, Lapse
  <2>2. /\ lapses' = ls /\ owed' \in Session /\ since' \in Session
        /\ "lost" \notin lapses' => owed' = owed
        /\ "revived" \notin lapses' => since' = since
    BY <1>1, <1>3, <2>1, HistoryIsTyped DEF ChainTyped
  <2>3. ASSUME "lost" \notin lapses'
        PROVE  OwedIsKept' /\ (cached = NULL => owed' = owed)
    <3>1. cached = NULL /\ owed' = owed /\ OwedIsKept
      BY <2>1, <2>2, <2>3 DEF ChainInv
    <3>2. owed = Empty
      BY <1>2, <3>1 DEF OwedIsKept
    <3>3. QED
      BY <1>1, <3>1, <3>2 DEF OwedIsKept
  <2>4. ASSUME "revived" \notin lapses'
        PROVE  since' = since /\ NothingIsOlder'
    <3>1. NothingIsOlder /\ since' = since
      BY <2>1, <2>2, <2>4 DEF ChainInv
    <3>2. QED
      BY <1>1, <1>3, <3>1 DEF NothingIsOlder
  <2>5. row' \in Row /\ lapses \subseteq lapses' /\ lapses' \subseteq Lapse
    BY <1>3, <2>1, <2>2 DEF Row
  <2>6. QED
    BY <1>1, <2>2, <2>3, <2>4, <2>5, IdleStands, RowMoves
<1>4. CASE row' = row /\ History(lapses \cup {"revived"}, owed, since)
  <2>1. PICK ls \in SUBSET Lapse : ls = lapses \cup {"revived"}
    BY <1>1 DEF ChainTyped, Lapse
  <2>2. /\ lapses' = ls /\ owed' \in Session /\ since' \in Session
        /\ "lost" \notin lapses' => owed' = owed
    BY <1>1, <1>4, <2>1, HistoryIsTyped DEF ChainTyped
  <2>3. ASSUME "lost" \notin lapses'
        PROVE  OwedIsKept' /\ (cached = NULL => owed' = owed)
    <3>1. owed' = owed /\ OwedIsKept
      BY <2>1, <2>2, <2>3 DEF ChainInv
    <3>2. QED
      BY <1>1, <1>2, <1>4, <3>1 DEF OwedIsKept
  <2>4. row' \in Row /\ lapses \subseteq lapses' /\ lapses' \subseteq Lapse
        /\ "revived" \in lapses'
    BY <1>1, <1>4, <2>1, <2>2 DEF ChainTyped
  <2>5. QED
    BY <1>1, <2>2, <2>3, <2>4, IdleStands, RowMoves
<1>5. QED
  BY <1>3, <1>4 DEF DeleteRow

\* Whoever has a session when a reset begins is crossed by it.
LEMMA CrossedStands ==
    ASSUME NEW r, IsClick(r)
    PROVE  LET j == Crossed(r)
           IN /\ IsClick(j) /\ j.at = r.at
              /\ j.at \in {"http", "save", "peek", "reinstall"} => j.crossed
              /\ j.at \in {"install", "save", "reinstall"} /\ ~j.late => Given(j) = Empty
<1>1. PICK crossed \in BOOLEAN : crossed = (r.at \in {"http", "save", "peek", "reinstall"})
  <2>1. (r.at \in {"http", "save", "peek", "reinstall"}) \in BOOLEAN
    OBVIOUS
  <2>2. QED
    BY <2>1, Zenon
<1>2. PICK late \in BOOLEAN :
         late = (r.at \in {"save", "install", "reinstall"} /\ r.copy # NULL)
  <2>1. (r.at \in {"save", "install", "reinstall"} /\ r.copy # NULL) \in BOOLEAN
    OBVIOUS
  <2>2. QED
    BY <2>1, Zenon
<1>3. PICK j : j = [r EXCEPT !.crossed = crossed, !.late = late]
  OBVIOUS
<1>4. r.at = "http" => ~late
  BY <1>2
<1>5. r.at \in {"load", "install"} => ~crossed
  BY <1>1
<1>6. r.at \in {"http", "save", "peek", "reinstall"} => crossed
  BY <1>1
<1>7. r.at \in {"save", "install", "reinstall"} /\ ~late => r.copy = NULL
  BY <1>2
<1>8. Crossed(r) = j
  BY <1>3, <1>1, <1>2 DEF Crossed
<1>9. j \in RequestRow
  BY <1>3 DEF IsClick, RequestRow
<1>10. /\ j.at = r.at /\ j.test = r.test /\ j.object = r.object /\ j.copy = r.copy
      /\ j.sent = r.sent /\ j.due = r.due /\ j.gave = r.gave
      /\ j.crossed = crossed /\ j.late = late
  BY <1>3 DEF IsClick, RequestRow
<1>11. IsClick(j)
  BY <1>9, <1>10, <1>4, <1>5 DEF IsClick
<1>12. j.at \in {"install", "save", "reinstall"} /\ ~j.late => Given(j) = Empty
  BY <1>10, <1>7 DEF Given
<1>13. QED
  BY <1>8, <1>10, <1>11, <1>12, <1>6

LEMMA BeginResetSound ==
    ASSUME ChainInv, NEW c \in Client, BeginReset(c)
    PROVE  ChainInv'
<1>1. /\ ChainTyped /\ cached' = NULL /\ row' = row /\ owed' = Empty /\ since' = Empty
      /\ lapses' = {} /\ heap' = Evicted(heap)
      /\ req' = [d \in Client |-> IF d = c THEN [Idle EXCEPT !.at = "delete"]
                                  ELSE Crossed(req[d])]
  BY DEF BeginReset, ChainInv
<1>2. PICK a : a = [Idle EXCEPT !.at = "delete"]
  OBVIOUS
<1>3. a = [at |-> "delete", test |-> NULL, object |-> NULL, copy |-> NULL,
           sent |-> Empty, due |-> Empty, gave |-> Empty, crossed |-> FALSE,
           late |-> FALSE]
  BY <1>2 DEF Idle
<1>4. a \in RequestRow
  BY <1>3, SessionFacts DEF RequestRow, At, Row
<1>5. IsClick(a) /\ a.at = "delete"
  BY <1>3, <1>4 DEF IsClick
<1>6. ChainTyped'
  BY <1>1, EvictedStands, SessionFacts DEF ChainTyped
<1>7. ASSUME NEW d \in Client
      PROVE  /\ IsClick(req'[d])
             /\ req'[d].at \in {"http", "save", "peek", "reinstall"} => req'[d].crossed
             /\ req'[d].at \in {"install", "save", "reinstall"} /\ ~req'[d].late
                  => Given(req'[d]) = Empty
  <2>1. CASE d = c
    BY <1>1, <1>2, <1>5, <2>1
  <2>2. CASE d # c
    <3>1. req'[d] = Crossed(req[d]) /\ IsClick(req[d])
      BY <1>1, <2>2 DEF ChainInv
    <3>2. QED
      BY <3>1, CrossedStands
  <2>3. QED
    BY <2>1, <2>2
<1>8. \A d \in Client : IsClick(req[d])' /\ IsApart(req[d])'
  BY <1>1, <1>7, SessionFacts DEF IsClick, IsApart
<1>9. Resetting'
  BY <1>1, <1>2, <1>5 DEF Resetting
<1>10. OwedIsKept' /\ NothingIsOlder'
  BY <1>1, <1>9 DEF OwedIsKept, NothingIsOlder
<1>11. ASSUME NEW d \in Client
       PROVE  CarriesOn(req[d])' /\ StartsCold(req[d])'
  <2>1. CarriesOn(req[d])'
    BY <1>1, <1>7, WithinFacts DEF CarriesOn
  <2>2. StartsCold(req[d])'
    BY <1>1, <1>7, WithinFacts DEF StartsCold
  <2>3. QED
    BY <2>1, <2>2
<1>12. DOMAIN req' = Client
  BY <1>1
<1>13. QED
  BY <1>6, <1>8, <1>10, <1>11, <1>12 DEF ChainInv

LEMMA RestartSound ==
    ASSUME ChainInv, Restart
    PROVE  ChainInv'
<1>1. /\ ChainTyped /\ cached' = NULL /\ heap' = [o \in Object |-> Empty]
      /\ req' = [c \in Client |-> Idle] /\ row' = row
      /\ History(lapses \cup (IF Resetting THEN {"revived"} ELSE {}), owed, since)
  BY DEF Restart, ChainInv
<1>2. PICK ls \in SUBSET Lapse : ls = lapses \cup (IF Resetting THEN {"revived"} ELSE {})
  BY <1>1 DEF ChainTyped, Lapse
<1>3. /\ lapses' = ls /\ owed' \in Session /\ since' \in Session
      /\ "lost" \notin lapses' => owed' = owed
      /\ "revived" \notin lapses' => since' = since
  BY <1>1, <1>2, HistoryIsTyped DEF ChainTyped
<1>4. ChainTyped'
  BY <1>1, <1>3, SessionFacts DEF ChainTyped
<1>5. DOMAIN req' = Client /\ (\A d \in Client : req'[d] = Idle)
  BY <1>1
<1>6. ~Resetting'
  BY <1>5, IdleStands DEF Resetting
<1>7. \A d \in Client : IsClick(req[d])' /\ IsApart(req[d])'
  BY <1>5, IdleStands DEF IsClick, IsApart
<1>8. \A d \in Client : CarriesOn(req[d])' /\ StartsCold(req[d])'
  BY <1>5, IdleStands DEF CarriesOn, StartsCold
<1>9. "lost" \notin lapses' => OwedIsKept'
  BY <1>1, <1>2, <1>3, <1>6 DEF ChainInv, OwedIsKept
<1>10. "revived" \notin lapses' => NothingIsOlder'
  BY <1>1, <1>2, <1>3, <1>6 DEF ChainInv, NothingIsOlder
<1>11. QED
  BY <1>4, <1>5, <1>7, <1>8, <1>9, <1>10 DEF ChainInv

LEMMA ExpireSound ==
    ASSUME ChainInv, Expire
    PROVE  ChainInv'
<1>1. /\ ChainTyped /\ cached' = NULL /\ heap' = Evicted(heap) /\ row' = NULL
      /\ owed' = Empty /\ lapses' = {} /\ UNCHANGED <<req, since>>
      /\ \A c \in Client : req[c].at = "idle"
  BY DEF Expire, ChainInv
<1>2. ChainTyped'
  BY <1>1, EvictedStands, SessionFacts DEF ChainTyped, Row
<1>3. \A d \in Client : IsClick(req[d])' /\ IsApart(req[d])'
  BY <1>1 DEF ChainInv, IsClick, IsApart
<1>4. OwedIsKept' /\ NothingIsOlder'
  BY <1>1 DEF OwedIsKept, NothingIsOlder
<1>5. \A d \in Client : CarriesOn(req[d])' /\ StartsCold(req[d])'
  BY <1>1 DEF CarriesOn, StartsCold
<1>6. DOMAIN req' = Client
  BY <1>1 DEF ChainInv
<1>7. QED
  BY <1>2, <1>3, <1>4, <1>5, <1>6 DEF ChainInv

LEMMA ChainStays ==
    ASSUME ChainInv, UNCHANGED vars PROVE ChainInv'
<1>1. UNCHANGED <<cached, heap, row, req, owed, since, lapses>>
  BY DEF vars
<1>2. QED
  BY <1>1 DEF ChainInv, ChainTyped, IsClick, IsApart, OwedIsKept, CarriesOn,
              NothingIsOlder, StartsCold, Resetting

LEMMA ChainStep == ChainInv /\ [Next]_vars => ChainInv'
<1> SUFFICES ASSUME ChainInv, [Next]_vars PROVE ChainInv'
  OBVIOUS
<1>1. ASSUME NEW c \in Client, NEW t \in Tests, Open(c, t) PROVE ChainInv'
  BY <1>1, OpenSound
<1>2. ASSUME NEW c \in Client, ReadRow(c, "load", "install") PROVE ChainInv'
  BY <1>2, ReadRowSound
<1>3. ASSUME NEW c \in Client, Install(c) PROVE ChainInv'
  BY <1>3, InstallSound
<1>4. ASSUME NEW c \in Client, NEW outage \in Outage, Ingest(c, outage) PROVE ChainInv'
  BY <1>4, IngestSound
<1>5. ASSUME NEW c \in Client, StoreFails(c) PROVE ChainInv'
  BY <1>5, StoreFailsSound
<1>6. ASSUME NEW c \in Client, Save(c) PROVE ChainInv'
  BY <1>6, SaveSound
<1>7. ASSUME NEW c \in Client, ReadRow(c, "peek", "reinstall") PROVE ChainInv'
  BY <1>7, ReadRowSound
<1>8. ASSUME NEW c \in Client, Reinstall(c) PROVE ChainInv'
  BY <1>8, ReinstallSound
<1>9. ASSUME NEW c \in Client, Badge(c) PROVE ChainInv'
  BY <1>9, BadgeSound
<1>10. ASSUME NEW c \in Client, BeginReset(c) PROVE ChainInv'
  BY <1>10, BeginResetSound
<1>11. ASSUME NEW c \in Client, DeleteRow(c) PROVE ChainInv'
  BY <1>11, DeleteRowSound
<1>12. CASE Restart
  BY <1>12, RestartSound
<1>13. CASE Expire
  BY <1>13, ExpireSound
<1>14. CASE UNCHANGED vars
  BY <1>14, ChainStays
<1>15. QED
  BY <1>1, <1>2, <1>3, <1>4, <1>5, <1>6, <1>7, <1>8, <1>9, <1>10, <1>11,
     <1>12, <1>13, <1>14 DEF Next

\* The requests are a function of the clients, whatever each of them does.
RequestsAreMapped == req = [c \in Client |-> req[c]]

LEMMA RequestsStayMapped == RequestsAreMapped /\ [Next]_vars => RequestsAreMapped'
<1> SUFFICES ASSUME RequestsAreMapped, [Next]_vars PROVE RequestsAreMapped'
  OBVIOUS
<1>1. \/ req' = req
      \/ \E c \in Client : \E j : req' = [req EXCEPT ![c] = j]
      \/ \E f : req' = [d \in Client |-> f[d]]
  <2>1. ASSUME NEW c \in Client, NEW t \in Tests, Open(c, t)
        PROVE  \E j : req' = [req EXCEPT ![c] = j]
    BY <2>1 DEF Open
  <2>2. ASSUME NEW c \in Client, NEW from, NEW to, ReadRow(c, from, to)
        PROVE  \E j : req' = [req EXCEPT ![c] = j]
    BY <2>2 DEF ReadRow
  <2>3. ASSUME NEW c \in Client, Install(c)
        PROVE  \E j : req' = [req EXCEPT ![c] = j]
    BY <2>3 DEF Install
  <2>4. ASSUME NEW c \in Client, NEW outage, Ingest(c, outage)
        PROVE  \E j : req' = [req EXCEPT ![c] = j]
    BY <2>4 DEF Ingest
  <2>5. ASSUME NEW c \in Client, StoreFails(c)
        PROVE  \E j : req' = [req EXCEPT ![c] = j]
    BY <2>5 DEF StoreFails
  <2>6. ASSUME NEW c \in Client, Save(c)
        PROVE  \E j : req' = [req EXCEPT ![c] = j]
    BY <2>6 DEF Save, Answered
  <2>7. ASSUME NEW c \in Client, Reinstall(c)
        PROVE  \E j : req' = [req EXCEPT ![c] = j]
    BY <2>7 DEF Reinstall, Answered
  <2>8. ASSUME NEW c \in Client, Badge(c) \/ DeleteRow(c)
        PROVE  \E j : req' = [req EXCEPT ![c] = j]
    BY <2>8 DEF Badge, DeleteRow
  <2>9. ASSUME NEW c \in Client, BeginReset(c)
        PROVE  \E f : req' = [d \in Client |-> f[d]]
    <3>1. PICK f : f = [d \in Client |-> IF d = c THEN [Idle EXCEPT !.at = "delete"]
                                         ELSE Crossed(req[d])]
      OBVIOUS
    <3>2. QED
      BY <2>9, <3>1 DEF BeginReset
  <2>10. CASE Restart
    <3>1. PICK f : f = [d \in Client |-> Idle]
      OBVIOUS
    <3>2. QED
      BY <2>10, <3>1 DEF Restart
  <2>11. CASE Expire \/ UNCHANGED vars
    BY <2>11 DEF Expire, vars
  <2>12. QED
    BY <2>1, <2>2, <2>3, <2>4, <2>5, <2>6, <2>7, <2>8, <2>9, <2>10, <2>11 DEF Next
<1>2. CASE req' = req
  BY <1>2 DEF RequestsAreMapped
<1>3. ASSUME NEW c \in Client, NEW j, req' = [req EXCEPT ![c] = j]
      PROVE  RequestsAreMapped'
  BY <1>3 DEF RequestsAreMapped
<1>4. ASSUME NEW f, req' = [d \in Client |-> f[d]]
      PROVE  RequestsAreMapped'
  BY <1>4 DEF RequestsAreMapped
<1>5. QED
  BY <1>1, <1>2, <1>3, <1>4

LEMMA ChainInductive == Spec => [](ChainInv /\ RequestsAreMapped)
<1>1. Init => RequestsAreMapped
  BY DEF Init, RequestsAreMapped
<1>2. QED
  BY <1>1, ChainStart, ChainStep, RequestsStayMapped, PTL DEF Spec

\* The Map, its objects, the row and the requests in flight keep their types,
\* whatever site is tested and whatever query fails.
THEOREM ChainTypeCorrect == Spec => []TypeOK
<1>1. ChainInv /\ RequestsAreMapped => TypeOK
  <2>1. SUFFICES ASSUME ChainInv, RequestsAreMapped PROVE TypeOK
    OBVIOUS
  <2>2. \A c \in Client : req[c] \in RequestRow
    BY <2>1 DEF ChainInv, IsClick
  <2>3. ChainTyped
    BY <2>1 DEF ChainInv
  <2>4. req \in [Client -> RequestRow]
    BY <2>1, <2>2 DEF RequestsAreMapped
  <2>5. QED
    BY <2>3, <2>4 DEF TypeOK, ChainTyped, RequestRow
<1>2. QED
  BY <1>1, ChainInductive, PTL

\* What is sent covers what was handed on before it.
DuesAreSent ==
    \A c \in Client : req[c].at = "http" => Within(req[c].due, req[c].sent)

\* A step is sent all that the steps answered before it were handed, unless
\* the session was lost since: for every site, and over every restart.
THEOREM StepsAreHandedTheirDue == Spec => []DuesAreSent
<1>1. ChainInv => DuesAreSent
  BY DEF ChainInv, IsClick, DuesAreSent
<1>2. QED
  BY <1>1, ChainInductive, PTL

\* After a reset a step starts with nothing from before it, unless what was
\* in flight is known to have brought it back: for every site.
THEOREM ResetsStartCold == Spec => []ResetStartsCold
<1>1. ChainInv => ResetStartsCold
  <2>1. SUFFICES ASSUME ChainInv PROVE ResetStartsCold
    OBVIOUS
  <2>2. QED
    BY <2>1 DEF ChainInv, StartsCold, ResetStartsCold
<1>2. QED
  BY <1>1, ChainInductive, PTL

\* A step is sent what its session owes it, and nothing that was reset, for
\* any number of requests, tests and objects and any answers of a site that
\* does not fail a test for being handed more.
THEOREM SessionsStand ==
    ASSUME Generous
    PROVE  Spec => []SessionsHold
<1>1. DuesAreSent /\ ChainInv => StepsCarryOver
  <2>1. SUFFICES ASSUME DuesAreSent, ChainInv PROVE StepsCarryOver
    OBVIOUS
  <2>2. ASSUME NEW c \in Client, req[c].at = "http",
               ExecuteTest(req[c].test, req[c].due, "none").verdict = "passed"
        PROVE  ExecuteTest(req[c].test, req[c].sent, "none").verdict = "passed"
    <3>1. /\ req[c].test \in Tests /\ Within(req[c].due, req[c].sent)
          /\ req[c].due \in Session /\ req[c].sent \in Session
      BY <2>1, <2>2 DEF ChainInv, IsClick, RequestRow, DuesAreSent
    <3>2. QED
      BY <2>2, <3>1 DEF Generous
  <2>3. QED
    BY <2>2 DEF StepsCarryOver
<1>2. StepsCarryOver /\ ResetStartsCold => SessionsHold
  BY DEF SessionsHold
<1>3. QED
  BY <1>1, <1>2, ChainInductive, StepsAreHandedTheirDue,
     ResetsStartCold, PTL

(***************************************************************************)
(* The folders: what is left behind, and what goes with a folder.          *)
(*                                                                         *)
(* Subtree is the recursion of the query that deletes a folder, taken to   *)
(* where it adds nothing.  It always gets there, and what it holds then is *)
(* the least set with the roots that is closed under going down: both by   *)
(* the least number at which it would be otherwise.                        *)
(***************************************************************************)

\* The folders right under some.
Children(S) == {f \in FolderId : folder[f] # Vacant /\ folder[f].parent \in S}
GoesDown(S) == S \cup Children(S)

\* Subtree's recursion, as far as a level, and for good.
IsDescentTo(h, k, roots) ==
    h = [n \in 0..k |-> IF n = 0 THEN roots ELSE GoesDown(h[n - 1])]
IsDescent(w, roots) ==
    w = [n \in Nat |-> IF n = 0 THEN roots ELSE GoesDown(w[n - 1])]

LEMMA DescentLevels ==
    ASSUME NEW roots, NEW k \in Nat, NEW h, IsDescentTo(h, k, roots)
    PROVE  /\ h[0] = roots
           /\ \A n \in 1..k : n - 1 \in 0..k /\ h[n] = GoesDown(h[n - 1])
<1>1. \A n \in 0..k : h[n] = IF n = 0 THEN roots ELSE GoesDown(h[n - 1])
  BY DEF IsDescentTo
<1>2. \A n \in 1..k : n \in 0..k /\ n # 0 /\ n - 1 \in 0..k
  OBVIOUS
<1>3. QED
  BY <1>1, <1>2

LEMMA LevelsAreOne ==
    ASSUME NEW roots, NEW k \in Nat, NEW m \in Nat, NEW h, NEW g,
           IsDescentTo(h, k, roots), IsDescentTo(g, m, roots), k <= m
    PROVE  \A n \in 0..k : h[n] = g[n]
<1>1. PICK T \in SUBSET Nat : T = {n \in Nat : n \in 0..k /\ h[n] # g[n]}
  OBVIOUS
<1>2. ASSUME T # {} PROVE FALSE
  <2>1. PICK n \in T : \A i \in T : n <= i
    BY <1>2, SomeIsLeast
  <2>2. n # 0
    BY <1>1, <2>1, DescentLevels
  <2>3. n \in 1..k /\ n \in 1..m /\ n - 1 \in 0..k /\ n - 1 \notin T
    BY <1>1, <2>1, <2>2
  <2>4. h[n - 1] = g[n - 1]
    BY <1>1, <2>3
  <2>5. h[n] = GoesDown(h[n - 1]) /\ g[n] = GoesDown(g[n - 1])
    BY <2>3, DescentLevels
  <2>6. QED
    BY <1>1, <2>1, <2>4, <2>5
<1>3. QED
  BY <1>1, <1>2

LEMMA DescentsReach ==
    ASSUME NEW roots, NEW k \in Nat
    PROVE  \E h : IsDescentTo(h, k, roots)
<1> SUFFICES ASSUME ~\E h : IsDescentTo(h, k, roots) PROVE FALSE
  OBVIOUS
<1>1. PICK T \in SUBSET Nat : T = {n \in Nat : ~\E h : IsDescentTo(h, n, roots)}
  OBVIOUS
<1>2. PICK m \in T : \A n \in T : m <= n
  <2>1. T # {}
    BY <1>1
  <2>2. QED
    BY <2>1, SomeIsLeast
<1>3. m # 0
  <2>1. IsDescentTo([n \in 0..0 |-> roots], 0, roots)
    BY DEF IsDescentTo
  <2>2. QED
    BY <1>1, <2>1
<1>4. m - 1 \in Nat /\ m - 1 \notin T
  BY <1>1, <1>2, <1>3
<1>5. PICK h : IsDescentTo(h, m - 1, roots)
  BY <1>1, <1>4
<1>6. PICK g : g = [n \in 0..m |-> IF n = 0 THEN roots ELSE GoesDown(h[n - 1])]
  OBVIOUS
<1>7. \A n \in 0..(m - 1) : g[n] = h[n]
  <2>1. \A n \in 0..(m - 1) : h[n] = IF n = 0 THEN roots ELSE GoesDown(h[n - 1])
    BY <1>4, <1>5 DEF IsDescentTo
  <2>2. 0..(m - 1) \subseteq 0..m
    BY <1>4
  <2>3. QED
    BY <1>6, <2>1, <2>2
<1>8. \A n \in 0..m : n # 0 => g[n - 1] = h[n - 1]
  <2>1. \A n \in 0..m : n # 0 => n - 1 \in 0..(m - 1)
    BY <1>4
  <2>2. QED
    BY <1>7, <2>1
<1>9. IsDescentTo(g, m, roots)
  BY <1>6, <1>8 DEF IsDescentTo
<1>10. QED
  BY <1>1, <1>2, <1>9

LEMMA DescentExists ==
    ASSUME NEW roots PROVE \E w : IsDescent(w, roots)
<1>1. PICK H : H = [n \in Nat |-> CHOOSE h : IsDescentTo(h, n, roots)]
  OBVIOUS
<1>2. \A n \in Nat : IsDescentTo(H[n], n, roots)
  BY <1>1, DescentsReach
<1>3. PICK w : w = [n \in Nat |-> H[n][n]]
  OBVIOUS
<1>4. ASSUME NEW n \in Nat, n # 0
      PROVE  w[n] = GoesDown(w[n - 1])
  <2>1. PICK p \in Nat : p = n - 1 /\ n \in 1..n /\ p \in 0..p /\ p <= n
    BY <1>4
  <2>2. PICK h, g : h = H[n] /\ g = H[p]
    OBVIOUS
  <2>3. IsDescentTo(h, n, roots) /\ IsDescentTo(g, p, roots)
    BY <1>2, <2>2
  <2>4. h[n] = GoesDown(h[p])
    BY <2>1, <2>3, DescentLevels
  <2>5. g[p] = h[p]
    BY <2>1, <2>3, LevelsAreOne
  <2>6. w[n] = h[n] /\ w[p] = g[p]
    BY <1>3, <2>2
  <2>7. QED
    BY <2>1, <2>4, <2>5, <2>6
<1>5. w[0] = roots
  <2>1. H[0][0] = roots
    BY <1>2, DescentLevels
  <2>2. QED
    BY <1>3, <2>1
<1>6. w = [n \in Nat |-> IF n = 0 THEN roots ELSE GoesDown(w[n - 1])]
  BY <1>3, <1>4, <1>5
<1>7. QED
  BY <1>6 DEF IsDescent

\* The subtree is a level of the descent, and the levels grow.
LEMMA SubtreeIs ==
    ASSUME NEW roots
    PROVE  \E w : /\ IsDescent(w, roots) /\ Subtree(roots) = w[Cardinality(FolderId)]
<1>1. PICK v : v = CHOOSE w : w = [n \in Nat |-> IF n = 0 THEN roots ELSE GoesDown(w[n - 1])]
  OBVIOUS
<1>2. IsDescent(v, roots)
  BY <1>1, DescentExists DEF IsDescent
<1>3. Subtree(roots) = v[Cardinality(FolderId)]
  BY <1>1 DEF Subtree, GoesDown, Children
<1>4. QED
  BY <1>2, <1>3

LEMMA DescentGoesDown ==
    ASSUME NEW roots, NEW w, IsDescent(w, roots)
    PROVE  /\ w[0] = roots
           /\ \A n \in Nat : w[n + 1] = GoesDown(w[n])
<1>1. \A n \in Nat : w[n] = IF n = 0 THEN roots ELSE GoesDown(w[n - 1])
  BY DEF IsDescent
<1>2. ASSUME NEW n \in Nat PROVE w[n + 1] = GoesDown(w[n])
  <2>1. n + 1 \in Nat /\ n + 1 # 0 /\ (n + 1) - 1 = n
    OBVIOUS
  <2>2. QED
    BY <1>1, <2>1
<1>3. QED
  BY <1>1, <1>2

\* What holds the roots and goes down with them holds every level.
LEMMA LevelsStayIn ==
    ASSUME NEW roots, NEW w, IsDescent(w, roots), NEW C, roots \subseteq C,
           Children(C) \subseteq C
    PROVE  \A n \in Nat : w[n] \subseteq C
<1>1. PICK T \in SUBSET Nat : T = {n \in Nat : ~(w[n] \subseteq C)}
  OBVIOUS
<1>2. ASSUME T # {} PROVE FALSE
  <2>1. PICK n \in T : \A i \in T : n <= i
    BY <1>2, SomeIsLeast
  <2>2. n # 0
    BY <1>1, <2>1, DescentGoesDown
  <2>3. n - 1 \in Nat /\ n - 1 \notin T /\ (n - 1) + 1 = n
    BY <1>1, <2>1, <2>2
  <2>4. w[n - 1] \subseteq C
    BY <1>1, <2>3
  <2>5. w[n] = GoesDown(w[n - 1])
    BY <2>3, DescentGoesDown
  <2>6. GoesDown(w[n - 1]) \subseteq C
    BY <2>4 DEF GoesDown, Children
  <2>7. QED
    BY <1>1, <2>1, <2>5, <2>6
<1>3. QED
  BY <1>1, <1>2

\* Once a level has all that is under it, the later ones are the same.
LEMMA LevelsSettle ==
    ASSUME NEW roots, NEW w, IsDescent(w, roots), NEW k \in Nat,
           Children(w[k]) \subseteq w[k]
    PROVE  \A n \in Nat : k <= n => w[n] = w[k]
<1>1. PICK T \in SUBSET Nat : T = {n \in Nat : k <= n /\ w[n] # w[k]}
  OBVIOUS
<1>2. ASSUME T # {} PROVE FALSE
  <2>1. PICK n \in T : \A i \in T : n <= i
    BY <1>2, SomeIsLeast
  <2>2. n # k /\ n > k
    BY <1>1, <2>1
  <2>3. n - 1 \in Nat /\ k <= n - 1 /\ n - 1 \notin T /\ (n - 1) + 1 = n
    BY <1>1, <2>1, <2>2
  <2>4. w[n - 1] = w[k]
    BY <1>1, <2>3
  <2>5. w[n] = GoesDown(w[n - 1])
    BY <2>3, DescentGoesDown
  <2>6. GoesDown(w[k]) = w[k]
    BY DEF GoesDown
  <2>7. QED
    BY <1>1, <2>1, <2>4, <2>5, <2>6
<1>3. QED
  BY <1>1, <1>2

\* A level that does not settle is larger than its number says: there are as
\* many levels as folders, so the last has settled.
LEMMA SubtreeSettles ==
    ASSUME NEW roots \in SUBSET FolderId, NEW w, IsDescent(w, roots)
    PROVE  LET top == w[Cardinality(FolderId)] IN Children(top) \subseteq top
<1>1. PICK N \in Nat : N = Cardinality(FolderId)
  BY FoldersAssumption, FS_CardinalityType
<1> SUFFICES ASSUME ~(Children(w[N]) \subseteq w[N]) PROVE FALSE
  BY <1>1
<1>2. \A n \in Nat : w[n] \in SUBSET FolderId
  <2>1. Children(FolderId) \subseteq FolderId
    BY DEF Children
  <2>2. QED
    BY <2>1, LevelsStayIn
<1>3. \A n \in Nat : IsFiniteSet(w[n]) /\ Cardinality(w[n]) \in Nat
  <2>1. ASSUME NEW n \in Nat PROVE IsFiniteSet(w[n]) /\ Cardinality(w[n]) \in Nat
    <3>1. IsFiniteSet(w[n])
      BY <1>2, FoldersAssumption, FS_Subset
    <3>2. QED
      BY <3>1, FS_CardinalityType
  <2>2. QED
    BY <2>1
<1>4. \A n \in Nat : n <= N => ~(Children(w[n]) \subseteq w[n])
  <2>1. ASSUME NEW n \in Nat, n <= N, Children(w[n]) \subseteq w[n] PROVE FALSE
    <3>1. w[N] = w[n]
      BY <2>1, LevelsSettle
    <3>2. QED
      BY <2>1, <3>1
  <2>2. QED
    BY <2>1
<1>5. PICK T \in SUBSET Nat : T = {n \in Nat : n <= N + 1 /\ Cardinality(w[n]) < n}
  OBVIOUS
<1>6. T = {}
  <2>1. SUFFICES ASSUME T # {} PROVE FALSE
    OBVIOUS
  <2>2. PICK n \in T : \A i \in T : n <= i
    BY <2>1, SomeIsLeast
  <2>3. n # 0
    BY <1>3, <1>5, <2>2
  <2>4. PICK p \in Nat : p + 1 = n /\ p <= N /\ p \notin T
    BY <1>5, <2>2, <2>3
  <2>5. w[n] = GoesDown(w[p])
    BY <2>4, DescentGoesDown
  <2>6. PICK f : f \in Children(w[p]) /\ f \notin w[p]
    BY <1>4, <2>4
  <2>7. w[p] \cup {f} \in SUBSET w[n]
    BY <2>5, <2>6 DEF GoesDown
  <2>8. Cardinality(w[p] \cup {f}) = Cardinality(w[p]) + 1
    BY <1>3, <2>6, FS_AddElement
  <2>9. Cardinality(w[p] \cup {f}) <= Cardinality(w[n])
    BY <1>3, <2>7, FS_Subset
  <2>10. PICK a \in Nat, b \in Nat : a = Cardinality(w[p]) /\ b = Cardinality(w[n])
    BY <1>3
  <2>11. b >= a + 1
    BY <2>8, <2>9, <2>10
  <2>12. ~(a < p)
    BY <1>5, <2>4, <2>10
  <2>13. b < n
    BY <1>5, <2>2, <2>10
  <2>14. QED
    BY <2>4, <2>10, <2>11, <2>12, <2>13
<1>7. PICK a \in Nat : a = Cardinality(w[N + 1])
  BY <1>3
<1>8. ~(a < N + 1)
  BY <1>5, <1>6, <1>7
<1>9. a <= N
  <2>1. w[N + 1] \in SUBSET FolderId
    BY <1>2
  <2>2. Cardinality(w[N + 1]) <= Cardinality(FolderId)
    BY <2>1, FoldersAssumption, FS_Subset
  <2>3. QED
    BY <1>1, <1>7, <2>2
<1>10. QED
  BY <1>8, <1>9

\* The subtree of some folders is the least set that holds them and what is
\* under each of its own.
LEMMA SubtreeIsClosure ==
    ASSUME NEW roots \in SUBSET FolderId
    PROVE  /\ Subtree(roots) \in SUBSET FolderId
           /\ roots \subseteq Subtree(roots)
           /\ Children(Subtree(roots)) \subseteq Subtree(roots)
           /\ \A C : roots \subseteq C /\ Children(C) \subseteq C => Subtree(roots) \subseteq C
<1>1. PICK w : IsDescent(w, roots) /\ Subtree(roots) = w[Cardinality(FolderId)]
  BY SubtreeIs
<1>2. PICK N \in Nat : N = Cardinality(FolderId)
  BY FoldersAssumption, FS_CardinalityType
<1>3. \A C : roots \subseteq C /\ Children(C) \subseteq C => Subtree(roots) \subseteq C
  BY <1>1, <1>2, LevelsStayIn
<1>4. Children(Subtree(roots)) \subseteq Subtree(roots)
  BY <1>1, SubtreeSettles
<1>5. Subtree(roots) \in SUBSET FolderId
  <2>1. Children(FolderId) \subseteq FolderId
    BY DEF Children
  <2>2. QED
    BY <1>3, <2>1
<1>6. roots \subseteq Subtree(roots)
  <2>1. PICK T \in SUBSET Nat : T = {n \in Nat : ~(roots \subseteq w[n])}
    OBVIOUS
  <2>2. ASSUME T # {} PROVE FALSE
    <3>1. PICK n \in T : \A i \in T : n <= i
      BY <2>2, SomeIsLeast
    <3>2. n # 0
      BY <1>1, <2>1, <3>1, DescentGoesDown
    <3>3. n - 1 \in Nat /\ n - 1 \notin T /\ (n - 1) + 1 = n
      BY <2>1, <3>1, <3>2
    <3>4. roots \subseteq w[n - 1]
      BY <2>1, <3>3
    <3>5. w[n] = GoesDown(w[n - 1])
      BY <1>1, <3>3, DescentGoesDown
    <3>6. QED
      BY <2>1, <3>1, <3>4, <3>5 DEF GoesDown
  <2>3. QED
    BY <1>1, <1>2, <2>1, <2>2
<1>7. QED
  BY <1>3, <1>4, <1>5, <1>6


FoldersInv == FoldersTypeOK /\ NothingDangles

CleanupRow == [folder : FolderId, of : Holder]

LEMMA FoldersStart == FoldersInit => FoldersInv
BY DEF FoldersInit, FoldersInv, FoldersTypeOK, NothingDangles

LEMMA RowFacts ==
    /\ Vacant \notin FolderRow /\ Vacant \notin TestRow /\ Vacant \notin FolderId
    /\ \A r \in FolderRow, p \in {Vacant} \cup FolderId :
          /\ [r EXCEPT !.parent = p] \in FolderRow
          /\ [r EXCEPT !.parent = p].of = r.of /\ [r EXCEPT !.parent = p].parent = p
    /\ \A r \in TestRow, f \in {Vacant} \cup FolderId :
          /\ [r EXCEPT !.in = f] \in TestRow
          /\ [r EXCEPT !.in = f].of = r.of /\ [r EXCEPT !.in = f].in = f
    /\ \A h \in Holder, p \in {Vacant} \cup FolderId :
          [of |-> h, parent |-> p] \in FolderRow /\ [of |-> h, in |-> p] \in TestRow
<1>1. Vacant \notin FolderRow /\ Vacant \notin TestRow /\ Vacant \notin FolderId
  BY FoldersAssumption
<1>2. ASSUME NEW r \in FolderRow, NEW p \in {Vacant} \cup FolderId
      PROVE  /\ [r EXCEPT !.parent = p] \in FolderRow
             /\ [r EXCEPT !.parent = p].of = r.of /\ [r EXCEPT !.parent = p].parent = p
  BY DEF FolderRow
<1>3. ASSUME NEW r \in TestRow, NEW f \in {Vacant} \cup FolderId
      PROVE  /\ [r EXCEPT !.in = f] \in TestRow
             /\ [r EXCEPT !.in = f].of = r.of /\ [r EXCEPT !.in = f].in = f
  BY DEF TestRow
<1>4. ASSUME NEW h \in Holder, NEW p \in {Vacant} \cup FolderId
      PROVE  [of |-> h, parent |-> p] \in FolderRow /\ [of |-> h, in |-> p] \in TestRow
  BY DEF FolderRow, TestRow
<1>5. QED
  BY <1>1, <1>2, <1>3, <1>4

\* What holds while no folder goes and none changes hands.
LEMMA RoomStays ==
    ASSUME \A g \in FolderId : folder[g] # Vacant =>
              folder'[g] # Vacant /\ folder'[g].of = folder[g].of
    PROVE  \A h, f : f \in FoldersFor(h) => (f \in FoldersFor(h))'
BY DEF FoldersFor, SameTable

LEMMA NothingGoes ==
    ASSUME FoldersTypeOK,
           \A g \in FolderId : folder[g] # Vacant =>
              folder'[g] # Vacant /\ folder'[g].of = folder[g].of
    PROVE  StepLosesNothing
<1>1. Lost(folder, folder') = {}
  BY DEF Lost, FoldersTypeOK
<1>2. QED
  BY <1>1 DEF StepLosesNothing

\* A test is filed, or put elsewhere, or goes.
LEMMA TestsMove ==
    ASSUME FoldersInv, NEW ts \in SUBSET TestId, UNCHANGED <<holder, folder>>,
           cleanup' \in [Cleaner -> {Vacant} \cup CleanupRow],
           kept' \in [TestId -> {Vacant} \cup TestRow],
           \A t \in TestId \ ts : kept'[t] = kept[t],
           \A t \in ts : kept'[t] # Vacant =>
              kept'[t].of \in holder /\ kept'[t].in \in FoldersFor(kept'[t].of)
    PROVE  FoldersInv' /\ StepLosesNothing
<1>1. \A h, f : f \in FoldersFor(h) => (f \in FoldersFor(h))'
  BY RoomStays
<1>2. FoldersTypeOK'
  BY DEF FoldersInv, FoldersTypeOK, CleanupRow
<1>3. \A t \in TestId : kept'[t] # Vacant =>
        kept'[t].of \in holder /\ kept'[t].in \in FoldersFor(kept'[t].of)
  BY DEF FoldersInv, NothingDangles
<1>4. NothingDangles'
  BY <1>1, <1>3 DEF FoldersInv, NothingDangles, FoldersFor
<1>5. StepLosesNothing
  BY NothingGoes DEF FoldersInv
<1>6. QED
  BY <1>2, <1>4, <1>5 DEF FoldersInv

\* Folders go with all that is under them.
LEMMA FoldersGo ==
    ASSUME FoldersInv, NEW gone \in SUBSET FolderId, Children(gone) \subseteq gone,
           \A f \in gone : folder[f] # Vacant,
           holder' \subseteq holder,
           \A f \in FolderId : folder[f] # Vacant /\ folder[f].of \notin holder' => f \in gone,
           DropFolders(gone), cleanup' \in [Cleaner -> {Vacant} \cup CleanupRow]
    PROVE  /\ FoldersInv'
           /\ Lost(folder, folder') = gone
           /\ \A t \in Lost(kept, kept') : kept[t].of \notin holder'
<1>1. /\ folder \in [FolderId -> {Vacant} \cup FolderRow]
      /\ kept \in [TestId -> {Vacant} \cup TestRow]
      /\ holder \subseteq Holder /\ NothingDangles
  BY DEF FoldersInv, FoldersTypeOK
<1>2. /\ folder' \in [FolderId -> {Vacant} \cup FolderRow]
      /\ \A f \in FolderId : folder'[f] = IF f \in gone THEN Vacant ELSE folder[f]
  BY <1>1 DEF DropFolders
<1>3. /\ DOMAIN kept' = TestId
      /\ \A t \in TestId : kept'[t] =
           IF kept[t] = Vacant \/ kept[t].of \notin holder' THEN Vacant
           ELSE IF kept[t].in \in gone THEN [kept[t] EXCEPT !.in = Vacant]
           ELSE kept[t]
  BY DEF DropFolders
<1>4. \A t \in TestId :
         \/ kept'[t] = Vacant /\ (kept[t] = Vacant \/ kept[t].of \notin holder')
         \/ /\ kept[t] # Vacant /\ kept[t] \in TestRow /\ kept'[t] \in TestRow
            /\ kept'[t].of = kept[t].of /\ kept[t].of \in holder'
            /\ kept'[t].in = Vacant \/ (kept'[t].in = kept[t].in /\ kept[t].in \notin gone)
  <2>1. ASSUME NEW t \in TestId, kept[t] # Vacant, kept[t].of \in holder',
               kept[t].in \in gone
        PROVE  kept'[t] \in TestRow /\ kept'[t].of = kept[t].of /\ kept'[t].in = Vacant
    <3>1. kept[t] \in TestRow
      BY <1>1, <2>1
    <3>2. kept'[t] = [kept[t] EXCEPT !.in = Vacant]
      BY <1>3, <2>1
    <3>3. QED
      BY <3>1, <3>2, RowFacts
  <2>2. ASSUME NEW t \in TestId, kept[t] # Vacant, kept[t].of \in holder',
               kept[t].in \notin gone
        PROVE  kept'[t] = kept[t] /\ kept[t] \in TestRow
    BY <1>1, <1>3, <2>2
  <2>3. ASSUME NEW t \in TestId, kept[t] = Vacant \/ kept[t].of \notin holder'
        PROVE  kept'[t] = Vacant
    BY <1>3, <2>3
  <2>4. \A t \in TestId : kept[t] # Vacant => kept[t] \in TestRow
    BY <1>1
  <2>5. QED
    BY <2>1, <2>2, <2>3, <2>4
<1>5. kept' \in [TestId -> {Vacant} \cup TestRow]
  <2>1. \A t \in TestId : kept'[t] \in {Vacant} \cup TestRow
    BY <1>4
  <2>2. kept' = [t \in TestId |-> kept'[t]]
    BY DEF DropFolders
  <2>3. QED
    BY <2>1, <2>2
<1>6. FoldersTypeOK'
  BY <1>1, <1>2, <1>5 DEF FoldersTypeOK, CleanupRow
<1>7. \A h, f : f \in FoldersFor(h) /\ f \notin gone => (f \in FoldersFor(h))'
  BY <1>2 DEF FoldersFor, SameTable
<1>8. ASSUME NEW f \in FolderId, folder'[f] # Vacant
      PROVE  folder'[f].of \in holder' /\ (folder[f].parent \in FoldersFor(folder[f].of))'
  <2>1. f \notin gone /\ folder'[f] = folder[f] /\ folder[f] # Vacant
    BY <1>2, <1>8
  <2>2. folder[f].of \in holder' /\ folder[f].parent \in FoldersFor(folder[f].of)
    BY <1>1, <2>1 DEF NothingDangles
  <2>3. folder[f].parent \notin gone
    BY <2>1 DEF Children
  <2>4. QED
    BY <1>7, <2>1, <2>2, <2>3 DEF FoldersFor
<1>9. ASSUME NEW t \in TestId, kept'[t] # Vacant
      PROVE  kept'[t].of \in holder' /\ (kept[t].in \in FoldersFor(kept[t].of))'
  <2>1. /\ kept[t] # Vacant /\ kept'[t].of = kept[t].of /\ kept[t].of \in holder'
        /\ kept'[t].in = Vacant \/ (kept'[t].in = kept[t].in /\ kept[t].in \notin gone)
    BY <1>4, <1>9, RowFacts
  <2>2. kept[t].in \in FoldersFor(kept[t].of)
    BY <1>1, <2>1 DEF NothingDangles
  <2>3. QED
    BY <1>7, <2>1, <2>2 DEF FoldersFor
<1>10. NothingDangles'
  BY <1>8, <1>9 DEF NothingDangles
<1>11. Lost(folder, folder') = gone
  BY <1>1, <1>2, RowFacts DEF Lost
<1>12. \A t \in Lost(kept, kept') : kept[t].of \notin holder'
  BY <1>1, <1>4, RowFacts DEF Lost
<1>13. QED
  BY <1>6, <1>10, <1>11, <1>12 DEF FoldersInv

\* The folders that go are those under the ones that are named.
LEMMA NamedGoFirst ==
    ASSUME NEW roots \in SUBSET FolderId, NEW named \in SUBSET Subtree(roots),
           roots \subseteq named
    PROVE  Subtree(roots) = Subtree(named)
<1>1. /\ Subtree(roots) \in SUBSET FolderId
      /\ Children(Subtree(roots)) \subseteq Subtree(roots)
  BY SubtreeIsClosure
<1>2. named \in SUBSET FolderId
  BY <1>1
<1>3. /\ named \subseteq Subtree(named) /\ Children(Subtree(named)) \subseteq Subtree(named)
      /\ Subtree(named) \subseteq Subtree(roots)
  BY <1>1, <1>2, SubtreeIsClosure
<1>4. Subtree(roots) \subseteq Subtree(named)
  BY <1>3, SubtreeIsClosure
<1>5. QED
  BY <1>3, <1>4

LEMMA SubtreesAreFolders ==
    ASSUME FoldersTypeOK, NEW roots \in SUBSET FolderId, \A f \in roots : folder[f] # Vacant
    PROVE  \A f \in Subtree(roots) : folder[f] # Vacant
<1>1. PICK C \in SUBSET FolderId : C = {f \in FolderId : folder[f] # Vacant}
  OBVIOUS
<1>2. roots \subseteq C /\ Children(C) \subseteq C
  BY <1>1 DEF Children
<1>3. QED
  BY <1>1, <1>2, SubtreeIsClosure

LEMMA DeleteHolderSound ==
    ASSUME FoldersInv, NEW h \in Holder, DeleteHolder(h)
    PROVE  FoldersInv' /\ StepLosesNothing
<1>1. PICK roots \in SUBSET FolderId :
         roots = {f \in FolderId : folder[f] # Vacant /\ folder[f].of = h}
  OBVIOUS
<1>2. PICK gone : gone = Subtree(roots)
  OBVIOUS
<1>3. gone \in SUBSET FolderId /\ roots \subseteq gone /\ Children(gone) \subseteq gone
  BY <1>2, SubtreeIsClosure
<1>4. \A f \in gone : folder[f] # Vacant
  BY <1>1, <1>2, SubtreesAreFolders DEF FoldersInv
<1>5. holder' = holder \ {h} /\ DropFolders(gone) /\ cleanup' = cleanup
  BY <1>1, <1>2 DEF DeleteHolder
<1>6. \A f \in FolderId : folder[f] # Vacant /\ folder[f].of \notin holder' => f \in roots
  BY <1>1, <1>5 DEF FoldersInv, NothingDangles
<1>7. /\ FoldersInv' /\ Lost(folder, folder') = gone
      /\ \A t \in Lost(kept, kept') : kept[t].of \notin holder'
  BY <1>3, <1>4, <1>5, <1>6, FoldersGo DEF FoldersInv, FoldersTypeOK, CleanupRow
<1>8. PICK named \in SUBSET gone :
         named = {f \in gone :
                    \/ folder[f].of \notin holder'
                    \/ \E r \in Cleaner : cleanup[r] = [folder |-> f, of |-> folder[f].of]}
  OBVIOUS
<1>9. roots \subseteq named
  BY <1>1, <1>3, <1>5, <1>8
<1>10. gone = Subtree(named)
  BY <1>2, <1>8, <1>9, NamedGoFirst
<1>11. QED
  BY <1>7, <1>8, <1>10 DEF StepLosesNothing

LEMMA DeleteFolderSound ==
    ASSUME FoldersInv, NEW r \in Cleaner, DeleteFolder(r)
    PROVE  FoldersInv' /\ StepLosesNothing
<1>1. PICK f : f = cleanup[r].folder
  OBVIOUS
<1>2. /\ cleanup \in [Cleaner -> {Vacant} \cup CleanupRow]
      /\ cleanup' = [cleanup EXCEPT ![r] = Vacant] /\ holder' = holder
      /\ cleanup[r] # Vacant
  BY DEF DeleteFolder, FoldersInv, FoldersTypeOK, CleanupRow
<1>3. cleanup' \in [Cleaner -> {Vacant} \cup CleanupRow]
  BY <1>2
<1>4. cleanup[r] \in CleanupRow
  BY <1>2
<1>5. f \in FolderId /\ cleanup[r] = [folder |-> f, of |-> cleanup[r].of]
  BY <1>1, <1>4 DEF CleanupRow
<1>6. CASE ~(folder[f] # Vacant /\ folder[f].of = cleanup[r].of)
  <2>1. UNCHANGED <<holder, folder, kept>>
    BY <1>1, <1>6 DEF DeleteFolder
  <2>2. kept' \in [TestId -> {Vacant} \cup TestRow] /\ {} \in SUBSET TestId
    BY <2>1 DEF FoldersInv, FoldersTypeOK
  <2>3. \A t \in TestId \ {} : kept'[t] = kept[t]
    BY <2>1
  <2>4. QED
    BY <1>3, <2>1, <2>2, <2>3, TestsMove
<1>7. CASE folder[f] # Vacant /\ folder[f].of = cleanup[r].of
  <2>1. PICK gone : gone = Subtree({f})
    OBVIOUS
  <2>2. gone \in SUBSET FolderId /\ f \in gone /\ Children(gone) \subseteq gone
    BY <1>5, <2>1, SubtreeIsClosure
  <2>3. \A g \in gone : folder[g] # Vacant
    BY <1>5, <1>7, <2>1, SubtreesAreFolders DEF FoldersInv
  <2>4. DropFolders(gone)
    BY <1>1, <1>7, <2>1 DEF DeleteFolder
  <2>5. \A g \in FolderId : folder[g] # Vacant /\ folder[g].of \notin holder' => g \in gone
    BY <1>2 DEF FoldersInv, NothingDangles
  <2>6. /\ FoldersInv' /\ Lost(folder, folder') = gone
        /\ \A t \in Lost(kept, kept') : kept[t].of \notin holder'
    BY <1>2, <1>3, <2>2, <2>3, <2>4, <2>5, FoldersGo
  <2>7. PICK named \in SUBSET gone :
           named = {g \in gone :
                      \/ folder[g].of \notin holder'
                      \/ \E q \in Cleaner : cleanup[q] = [folder |-> g, of |-> folder[g].of]}
    OBVIOUS
  <2>8. f \in named
    BY <1>5, <1>7, <2>2, <2>7
  <2>9. gone = Subtree(named)
    BY <1>5, <2>1, <2>7, <2>8, NamedGoFirst
  <2>10. QED
    BY <2>6, <2>7, <2>9 DEF StepLosesNothing
<1>8. QED
  BY <1>6, <1>7

\* A row of a folder is written, and no folder goes or changes hands.
LEMMA FolderWritten ==
    ASSUME FoldersInv, NEW f \in FolderId, NEW new \in FolderRow,
           folder' = [folder EXCEPT ![f] = new], UNCHANGED <<kept, cleanup>>,
           holder \subseteq holder', holder' \subseteq Holder,
           folder[f] # Vacant => new.of = folder[f].of,
           new.of \in holder', new.parent \in FoldersFor(new.of)
    PROVE  FoldersInv' /\ StepLosesNothing
<1>1. /\ folder \in [FolderId -> {Vacant} \cup FolderRow] /\ NothingDangles
      /\ kept \in [TestId -> {Vacant} \cup TestRow]
      /\ cleanup \in [Cleaner -> {Vacant} \cup CleanupRow]
  BY DEF FoldersInv, FoldersTypeOK, CleanupRow
<1>2. /\ folder' \in [FolderId -> {Vacant} \cup FolderRow]
      /\ folder'[f] = new /\ \A g \in FolderId \ {f} : folder'[g] = folder[g]
  BY <1>1
<1>3. FoldersTypeOK'
  BY <1>1, <1>2 DEF FoldersTypeOK, CleanupRow
<1>4. \A g \in FolderId : folder[g] # Vacant =>
         folder'[g] # Vacant /\ folder'[g].of = folder[g].of
  BY <1>2, RowFacts
<1>5. \A h, p : p \in FoldersFor(h) => (p \in FoldersFor(h))'
  BY <1>4, RoomStays
<1>6. \A g \in FolderId : folder'[g] # Vacant =>
         folder'[g].of \in holder' /\ folder'[g].parent \in FoldersFor(folder'[g].of)
  BY <1>1, <1>2 DEF NothingDangles
<1>7. NothingDangles'
  BY <1>1, <1>5, <1>6 DEF NothingDangles, FoldersFor
<1>8. StepLosesNothing
  BY <1>4, NothingGoes DEF FoldersInv
<1>9. QED
  BY <1>3, <1>7, <1>8 DEF FoldersInv

LEMMA CreateHolderSound ==
    ASSUME FoldersInv, NEW h \in Holder, CreateHolder(h)
    PROVE  FoldersInv' /\ StepLosesNothing
<1>1. holder' = holder \cup {h} /\ UNCHANGED <<folder, kept, cleanup>>
  BY DEF CreateHolder
<1>2. FoldersInv'
  BY <1>1 DEF FoldersInv, FoldersTypeOK, NothingDangles, FoldersFor
<1>3. StepLosesNothing
  BY <1>1, NothingGoes DEF FoldersInv
<1>4. QED
  BY <1>2, <1>3

LEMMA CreateFolderSound ==
    ASSUME FoldersInv, NEW h \in Holder, NEW f \in FolderId,
           NEW parent \in FolderId \cup {Vacant}, CreateFolder(h, f, parent)
    PROVE  FoldersInv' /\ StepLosesNothing
<1>1. PICK new : new = [of |-> h, parent |-> parent]
  OBVIOUS
<1>2. new \in FolderRow /\ new.of = h /\ new.parent = parent
  BY <1>1, RowFacts
<1>3. /\ folder' = [folder EXCEPT ![f] = new] /\ UNCHANGED <<holder, kept, cleanup>>
      /\ h \in holder /\ folder[f] = Vacant /\ parent \in FoldersFor(h)
  BY <1>1 DEF CreateFolder
<1>4. QED
  BY <1>2, <1>3, FolderWritten DEF FoldersInv, FoldersTypeOK

LEMMA MoveFolderSound ==
    ASSUME FoldersInv, NEW f \in FolderId, NEW parent \in FolderId \cup {Vacant},
           MoveFolder(f, parent)
    PROVE  FoldersInv' /\ StepLosesNothing
<1>1. PICK new : new = [folder[f] EXCEPT !.parent = parent]
  OBVIOUS
<1>2. /\ folder[f] # Vacant /\ parent \in FoldersFor(folder[f].of)
      /\ folder' = [folder EXCEPT ![f] = new] /\ UNCHANGED <<holder, kept, cleanup>>
  BY <1>1 DEF MoveFolder
<1>3. folder[f] \in FolderRow
  BY <1>2 DEF FoldersInv, FoldersTypeOK
<1>4. new \in FolderRow /\ new.of = folder[f].of /\ new.parent = parent
  BY <1>1, <1>3, RowFacts
<1>5. folder[f].of \in holder
  BY <1>2 DEF FoldersInv, NothingDangles
<1>6. QED
  BY <1>2, <1>4, <1>5, FolderWritten DEF FoldersInv, FoldersTypeOK

LEMMA FilingSound ==
    ASSUME FoldersInv,
           \/ \E h \in Holder, t \in TestId, f \in FolderId \cup {Vacant} : AddTest(h, t, f)
           \/ \E t \in TestId, f \in FolderId \cup {Vacant} : PutTest(t, f)
           \/ \E t \in TestId : RemoveTest(t)
           \/ \E h \in Holder, ts \in SUBSET TestId : BatchCreate(h, ts)
           \/ \E r \in Cleaner, h \in Holder, f \in FolderId : EmptyFolder(r, h, f)
    PROVE  FoldersInv' /\ StepLosesNothing
<1>1. /\ kept \in [TestId -> {Vacant} \cup TestRow]
      /\ cleanup \in [Cleaner -> {Vacant} \cup CleanupRow]
      /\ holder \subseteq Holder /\ NothingDangles
  BY DEF FoldersInv, FoldersTypeOK, CleanupRow
<1>2. ASSUME NEW h \in Holder, NEW t \in TestId, NEW f \in FolderId \cup {Vacant},
             AddTest(h, t, f)
      PROVE  FoldersInv' /\ StepLosesNothing
  <2>1. PICK new : new = [of |-> h, in |-> f]
    OBVIOUS
  <2>2. new \in TestRow /\ new.of = h /\ new.in = f
    BY <2>1, RowFacts
  <2>3. /\ kept' = [kept EXCEPT ![t] = new] /\ UNCHANGED <<holder, folder, cleanup>>
        /\ h \in holder /\ f \in FoldersFor(h)
    BY <1>2, <2>1 DEF AddTest
  <2>4. /\ kept' \in [TestId -> {Vacant} \cup TestRow] /\ {t} \in SUBSET TestId
        /\ \A u \in TestId \ {t} : kept'[u] = kept[u]
        /\ \A u \in {t} : kept'[u] # Vacant =>
              kept'[u].of \in holder /\ kept'[u].in \in FoldersFor(kept'[u].of)
    BY <1>1, <2>2, <2>3
  <2>5. QED
    BY <1>1, <2>3, <2>4, TestsMove
<1>3. ASSUME NEW t \in TestId, NEW f \in FolderId \cup {Vacant}, PutTest(t, f)
      PROVE  FoldersInv' /\ StepLosesNothing
  <2>1. PICK new : new = [kept[t] EXCEPT !.in = f]
    OBVIOUS
  <2>2. /\ kept[t] # Vacant /\ f \in FoldersFor(kept[t].of)
        /\ kept' = [kept EXCEPT ![t] = new] /\ UNCHANGED <<holder, folder, cleanup>>
    BY <1>3, <2>1 DEF PutTest
  <2>3. kept[t] \in TestRow /\ kept[t].of \in holder
    BY <1>1, <2>2 DEF NothingDangles
  <2>4. new \in TestRow /\ new.of = kept[t].of /\ new.in = f
    BY <2>1, <2>3, RowFacts
  <2>5. /\ kept' \in [TestId -> {Vacant} \cup TestRow] /\ {t} \in SUBSET TestId
        /\ \A u \in TestId \ {t} : kept'[u] = kept[u]
        /\ \A u \in {t} : kept'[u] # Vacant =>
              kept'[u].of \in holder /\ kept'[u].in \in FoldersFor(kept'[u].of)
    BY <1>1, <2>2, <2>3, <2>4
  <2>6. QED
    BY <1>1, <2>2, <2>5, TestsMove
<1>4. ASSUME NEW t \in TestId, RemoveTest(t)
      PROVE  FoldersInv' /\ StepLosesNothing
  <2>1. kept' = [kept EXCEPT ![t] = Vacant] /\ UNCHANGED <<holder, folder, cleanup>>
    BY <1>4 DEF RemoveTest
  <2>2. /\ kept' \in [TestId -> {Vacant} \cup TestRow] /\ {t} \in SUBSET TestId
        /\ \A u \in TestId \ {t} : kept'[u] = kept[u]
        /\ \A u \in {t} : kept'[u] = Vacant
    BY <1>1, <2>1
  <2>3. QED
    BY <1>1, <2>1, <2>2, TestsMove
<1>5. ASSUME NEW h \in Holder, NEW ts \in SUBSET TestId, BatchCreate(h, ts)
      PROVE  FoldersInv' /\ StepLosesNothing
  <2>1. PICK new : new = [of |-> h, in |-> Vacant]
    OBVIOUS
  <2>2. new \in TestRow /\ new.of = h /\ new.in = Vacant
    BY <2>1, RowFacts
  <2>3. /\ kept' = [t \in TestId |-> IF t \in ts THEN new ELSE kept[t]]
        /\ UNCHANGED <<holder, folder, cleanup>> /\ h \in holder
    BY <1>5, <2>1 DEF BatchCreate
  <2>4. Vacant \in FoldersFor(h)
    BY DEF FoldersFor
  <2>5. /\ kept' \in [TestId -> {Vacant} \cup TestRow]
        /\ \A u \in TestId \ ts : kept'[u] = kept[u]
        /\ \A u \in ts : kept'[u] # Vacant =>
              kept'[u].of \in holder /\ kept'[u].in \in FoldersFor(kept'[u].of)
    BY <1>1, <2>2, <2>3, <2>4
  <2>6. QED
    BY <1>1, <2>3, <2>5, TestsMove
<1>6. ASSUME NEW r \in Cleaner, NEW h \in Holder, NEW f \in FolderId, EmptyFolder(r, h, f)
      PROVE  FoldersInv' /\ StepLosesNothing
  <2>1. PICK new : new = [folder |-> f, of |-> h]
    OBVIOUS
  <2>2. new \in CleanupRow
    BY <2>1 DEF CleanupRow
  <2>3. /\ kept' = [t \in TestId |->
                     IF kept[t] # Vacant /\ kept[t].in = f
                     THEN [kept[t] EXCEPT !.in = Vacant] ELSE kept[t]]
        /\ cleanup' = [cleanup EXCEPT ![r] = new] /\ UNCHANGED <<holder, folder>>
    BY <1>6, <2>1 DEF EmptyFolder
  <2>4. cleanup' \in [Cleaner -> {Vacant} \cup CleanupRow]
    BY <1>1, <2>2, <2>3
  <2>5. \A t \in TestId :
           \/ kept'[t] = kept[t]
           \/ /\ kept[t] # Vacant /\ kept'[t] \in TestRow
              /\ kept'[t].of = kept[t].of /\ kept'[t].in = Vacant
    BY <1>1, <2>3, RowFacts
  <2>6. kept' \in [TestId -> {Vacant} \cup TestRow]
    <3>1. \A t \in TestId : kept'[t] \in {Vacant} \cup TestRow
      BY <1>1, <2>5
    <3>2. kept' = [t \in TestId |-> kept'[t]]
      BY <2>3
    <3>3. QED
      BY <3>1, <3>2
  <2>7. \A t \in TestId : kept'[t] # Vacant =>
           kept'[t].of \in holder /\ kept'[t].in \in FoldersFor(kept'[t].of)
    BY <1>1, <2>5 DEF NothingDangles, FoldersFor
  <2>8. \A t \in TestId \ TestId : kept'[t] = kept[t]
    OBVIOUS
  <2>9. QED
    BY <2>3, <2>4, <2>6, <2>7, <2>8, TestsMove
<1>7. QED
  BY <1>2, <1>3, <1>4, <1>5, <1>6

LEMMA FoldersStep ==
    FoldersInv /\ [FoldersNext]_foldersVars =>
        FoldersInv' /\ [NothingDangles' /\ StepLosesNothing]_foldersVars
<1> SUFFICES ASSUME FoldersInv, [FoldersNext]_foldersVars
             PROVE  FoldersInv' /\ [NothingDangles' /\ StepLosesNothing]_foldersVars
  OBVIOUS
<1>1. CASE UNCHANGED foldersVars
  <2>1. UNCHANGED <<holder, folder, kept, cleanup>>
    BY <1>1 DEF foldersVars
  <2>2. FoldersInv'
    BY <2>1 DEF FoldersInv, FoldersTypeOK, NothingDangles, FoldersFor
  <2>3. QED
    BY <1>1, <2>2
<1>2. CASE FoldersNext
  <2>1. FoldersInv' /\ StepLosesNothing
    <3>1. ASSUME NEW h \in Holder, CreateHolder(h) PROVE FoldersInv' /\ StepLosesNothing
      BY <3>1, CreateHolderSound
    <3>2. ASSUME NEW h \in Holder, DeleteHolder(h) PROVE FoldersInv' /\ StepLosesNothing
      BY <3>2, DeleteHolderSound
    <3>3. ASSUME NEW h \in Holder, NEW f \in FolderId, NEW p \in FolderId \cup {Vacant},
                 CreateFolder(h, f, p)
          PROVE  FoldersInv' /\ StepLosesNothing
      BY <3>3, CreateFolderSound
    <3>4. ASSUME NEW f \in FolderId, NEW p \in FolderId \cup {Vacant}, MoveFolder(f, p)
          PROVE  FoldersInv' /\ StepLosesNothing
      BY <3>4, MoveFolderSound
    <3>5. ASSUME NEW r \in Cleaner, DeleteFolder(r) PROVE FoldersInv' /\ StepLosesNothing
      BY <3>5, DeleteFolderSound
    <3>6. QED
      BY <1>2, <3>1, <3>2, <3>3, <3>4, <3>5, FilingSound DEF FoldersNext
  <2>2. QED
    BY <2>1 DEF FoldersInv
<1>3. QED
  BY <1>1, <1>2

\* However filing, moving and deleting overlap, nothing is left in a folder
\* that is not there, no folder takes a test along, and what goes with a
\* folder is what is under it, for any number of folders, tests and requests
\* and folders that are moved under themselves.
THEOREM FoldersKeepTests ==
    FoldersInit /\ [][FoldersNext]_foldersVars => FoldersLoseNothing
BY FoldersStart, FoldersStep, PTL DEF FoldersLoseNothing
=============================================================================
