-------------------------- MODULE RunReportsProofs --------------------------
(***************************************************************************)
(* What holds of the run of a collection for every number of tests, every  *)
(* limit of the pool and every query that may fail: chained tests see what *)
(* came before them, and a report adds up.                                 *)
(***************************************************************************)
EXTENDS RunReports, FiniteSetTheorems, TLAPS

Active(i) == phase[i] \in {"run", "select", "append"}

\* At most one test of a chained run is under way, and it has what the tests
\* before it put out.
Chained ==
    mode # "parallel" =>
        /\ \A i \in In("run") : Before(i) \subseteq Finished /\ saw[i] = chainVars
        /\ \A i, j \in In("run") : i = j

\* A scheduled run has recorded the result of every test before the one that
\* is under way.
Serial ==
    mode = "scheduled" =>
        /\ \A i \in Tests : Active(i) => \A j \in Before(i) : phase[j] = "over"
        /\ \A i \in Tests : phase[i] # "bump"
        /\ \A i \in Tests : phase[i] = "append" => listed[i] = report.results

Passed ==
    report.status = "completed" =>
        /\ \A i \in Tests : verdict[i] = "passed"
        /\ Finished = Tests
        /\ mode = "scheduled" => In("over") = Tests

Named(S, v) == {i \in S : verdict[i] = v}

\* S are the tests whose results were appended, if only to be overwritten.
Appended(S) ==
    /\ report.results \subseteq S
    /\ \A i \in Tests : listed[i] \subseteq S
    /\ \A i \in S : phase[i] \in {"bump", "over", "lost"}
    /\ \A v \in Verdict : report.count[v] = Cardinality(Named(S, v))
    /\ mode = "scheduled" =>
          /\ S = In("over") /\ report.results = S
          /\ report.total = Cardinality(S)

\* The strengthening of ChainSeesPrevious and ReportsAddUp that is inductive.
ReportsInv ==
    /\ TypeOK
    /\ at = "idle" => report = NoReport /\ \A i \in Tests : phase[i] = "queued"
    /\ Chained /\ Serial /\ Passed
    /\ \E S \in SUBSET Tests : Appended(S)

LEMMA TestsAreFew ==
    ASSUME NEW S \in SUBSET Tests
    PROVE  /\ IsFiniteSet(S) /\ Cardinality(S) \in Nat
           /\ \A T \in SUBSET S : Cardinality(T) \in Nat /\ Cardinality(T) <= Cardinality(S)
           /\ \A i \in Tests : Cardinality(S \cup {i}) =
                                  IF i \in S THEN Cardinality(S) ELSE Cardinality(S) + 1
<1>1. IsFiniteSet(Tests)
  BY RunReportsAssumption, FS_Interval DEF Tests
<1>2. IsFiniteSet(S) /\ Cardinality(S) \in Nat
  BY <1>1, FS_Subset, FS_CardinalityType
<1>3. \A T \in SUBSET S : Cardinality(T) \in Nat /\ Cardinality(T) <= Cardinality(S)
  BY <1>2, FS_Subset, FS_CardinalityType
<1>4. \A i \in Tests : Cardinality(S \cup {i}) =
                          IF i \in S THEN Cardinality(S) ELSE Cardinality(S) + 1
  BY <1>2, FS_AddElement
<1>5. QED
  BY <1>2, <1>3, <1>4

LEMMA BeforeIsEarlier ==
    ASSUME NEW i \in Tests, NEW j \in Before(i)
    PROVE  j \in Tests /\ j # i
BY RunReportsAssumption DEF Tests, Before

LEMMA InitReportsInv == Init => ReportsInv
<1> SUFFICES ASSUME Init PROVE ReportsInv
  OBVIOUS
<1>1. TypeOK /\ report = NoReport
  BY DEF Init, TypeOK, NoReport, Report, Verdict, Phase
<1>2. Chained /\ Serial /\ Passed
  BY <1>1 DEF Init, Chained, Serial, Passed, Active, In, NoReport
<1>3. Appended({})
  <2>1. \A v : Named({}, v) = {}
    BY DEF Named
  <2>2. Cardinality({}) = 0
    BY FS_EmptySet
  <2>3. In("over") = {}
    BY DEF Init, In
  <2>4. QED
    BY <1>1, <2>1, <2>2, <2>3 DEF Init, Appended, NoReport
<1>4. QED
  BY <1>1, <1>2, <1>3 DEF Init, ReportsInv

(***************************************************************************)
(* What a step leaves of the appended tests.                               *)
(***************************************************************************)

LEMMA AppendedStays ==
    ASSUME ReportsInv, NEW S \in SUBSET Tests, Appended(S), UNCHANGED mode,
           report'.results = report.results, report'.count = report.count,
           report'.total = report.total,
           \A i \in Tests : listed'[i] \subseteq S,
           \A i \in S : verdict'[i] = verdict[i] /\ phase'[i] \in {"bump", "over", "lost"},
           mode = "scheduled" => In("over")' = In("over")
    PROVE  (\E T \in SUBSET Tests : Appended(T))'
<1>1. \A v : Named(S, v)' = Named(S, v)
  BY DEF Named
<1>2. Appended(S)'
  BY <1>1 DEF Appended
<1>3. QED
  BY <1>2 DEF Tests

\* One test goes from one phase to another.
Goes(i, ph) == phase' = [phase EXCEPT ![i] = ph]

LEMMA PhasesAfter ==
    ASSUME TypeOK, NEW i \in Tests, NEW ph \in Phase, Goes(i, ph)
    PROVE  /\ phase' \in [Tests -> Phase]
           /\ phase'[i] = ph /\ \A j \in Tests \ {i} : phase'[j] = phase[j]
BY DEF TypeOK, Goes

LEMMA StartRunKeepsInv ==
    ASSUME ReportsInv, StartRun
    PROVE  ReportsInv'
<1>1. /\ report = NoReport /\ report' = [NoReport EXCEPT !.status = "running"]
      /\ at' = "loop" /\ UNCHANGED <<mode, saw, chainVars, phase, verdict, listed, caught, faulted>>
  BY DEF ReportsInv, StartRun, engine
<1>2. report' \in Report
  BY <1>1 DEF ReportsInv, TypeOK, Report, NoReport
<1>3. /\ report'.results = report.results /\ report'.count = report.count
      /\ report'.total = report.total /\ report'.status = "running"
  BY <1>1 DEF NoReport
<1>4. TypeOK'
  BY <1>1, <1>2 DEF ReportsInv, TypeOK
<1>5. Chained' /\ Serial' /\ Passed'
  BY <1>1, <1>3 DEF ReportsInv, Chained, Serial, Passed, Active, In, Finished
<1>6. (\E T \in SUBSET Tests : Appended(T))'
  <2>1. PICK S \in SUBSET Tests : Appended(S)
    BY DEF ReportsInv
  <2>2. QED
    BY <1>1, <1>3, <2>1, AppendedStays DEF Appended, In
<1>7. QED
  BY <1>1, <1>4, <1>5, <1>6 DEF ReportsInv

LEMMA DispatchKeepsInv ==
    ASSUME ReportsInv, NEW i \in Tests, Dispatch(i)
    PROVE  ReportsInv'
<1>1. /\ at = "loop" /\ phase[i] = "queued" /\ \A j \in Before(i) : phase[j] # "queued"
      /\ Cardinality(In("run")) < EffectiveLimit
      /\ mode = "scheduled" => \A j \in Before(i) : phase[j] = "over"
      /\ Goes(i, "run") /\ saw' = [saw EXCEPT ![i] = chainVars] /\ caught' = FALSE
      /\ UNCHANGED <<mode, at, verdict, chainVars, listed, report, faulted>>
  BY DEF Dispatch, Goes
<1>2. /\ phase' \in [Tests -> Phase]
      /\ phase'[i] = "run" /\ \A j \in Tests \ {i} : phase'[j] = phase[j]
  BY <1>1, PhasesAfter DEF ReportsInv, Phase
<1>3. TypeOK'
  BY <1>1, <1>2 DEF ReportsInv, TypeOK
<1>4. Chained'
  <2> SUFFICES ASSUME mode # "parallel"
               PROVE  /\ \A j \in In("run")' : Before(j) \subseteq Finished' /\ saw'[j] = chainVars'
                      /\ \A j, k \in In("run")' : j = k
    BY <1>1 DEF Chained
  <2>1. In("run") = {}
    <3>1. In("run") \in SUBSET Tests /\ EffectiveLimit = 1
      BY DEF In, EffectiveLimit
    <3>2. IsFiniteSet(In("run")) /\ Cardinality(In("run")) \in Nat
      BY <3>1, TestsAreFew
    <3>3. QED
      BY <1>1, <3>1, <3>2, FS_EmptySet
  <2>2. In("run")' = {i}
    BY <1>2, <2>1 DEF In
  <2>3. Before(i) \subseteq Finished'
    <3> SUFFICES ASSUME NEW j \in Before(i) PROVE j \in Finished'
      OBVIOUS
    <3>1. j \in Tests /\ j # i
      BY BeforeIsEarlier
    <3>2. phase[j] # "queued" /\ phase[j] # "run"
      BY <1>1, <2>1, <3>1 DEF In
    <3>3. QED
      BY <1>2, <3>1, <3>2 DEF Finished
  <2>4. saw'[i] = chainVars'
    BY <1>1 DEF ReportsInv, TypeOK
  <2>5. QED
    BY <2>2, <2>3, <2>4
<1>5. Serial'
  <2> SUFFICES ASSUME mode = "scheduled"
               PROVE  /\ \A j \in Tests : Active(j)' => \A k \in Before(j) : phase'[k] = "over"
                      /\ \A j \in Tests : phase'[j] # "bump"
                      /\ \A j \in Tests : phase'[j] = "append" => listed'[j] = report'.results
    BY <1>1 DEF Serial
  <2>1. ASSUME NEW j \in Tests, Active(j)', NEW k \in Before(j) PROVE phase'[k] = "over"
    <3>1. k \in Tests /\ k # j
      BY BeforeIsEarlier
    <3>2. phase[k] = "over"
      <4>1. CASE j = i
        BY <1>1, <2>1, <4>1
      <4>2. CASE j # i
        BY <1>2, <2>1, <4>2 DEF ReportsInv, Serial, Active
      <4>3. QED
        BY <4>1, <4>2
    <3>3. k # i
      BY <1>1, <3>2
    <3>4. QED
      BY <1>2, <3>1, <3>2, <3>3
  <2>2. QED
    BY <1>1, <1>2, <2>1 DEF ReportsInv, Serial
<1>6. Passed'
  BY <1>1 DEF ReportsInv, Passed, Finished
<1>7. (\E T \in SUBSET Tests : Appended(T))'
  <2>1. PICK S \in SUBSET Tests : Appended(S)
    BY DEF ReportsInv
  <2>2. i \notin S
    BY <1>1, <2>1 DEF Appended
  <2>3. In("over")' = In("over")
    BY <1>1, <1>2 DEF In
  <2>4. QED
    BY <1>1, <1>2, <2>1, <2>2, <2>3, AppendedStays DEF Appended
<1>8. QED
  BY <1>1, <1>3, <1>4, <1>5, <1>6, <1>7 DEF ReportsInv

\* A step of a test that is under way and stays so, or ends.
LEMMA ChainedStays ==
    ASSUME ReportsInv, NEW i \in Tests, NEW ph \in Phase \ {"queued", "run"},
           phase[i] \notin {"queued", "run"}, Goes(i, ph),
           UNCHANGED <<mode, saw, chainVars>>
    PROVE  Chained'
<1>1. \A j \in Tests : phase'[j] = IF j = i THEN ph ELSE phase[j]
  BY PhasesAfter DEF ReportsInv
<1>2. In("run")' = In("run") /\ Finished' = Finished
  BY <1>1 DEF In, Finished
<1>3. QED
  BY <1>2 DEF ReportsInv, Chained

LEMMA SerialStays ==
    ASSUME ReportsInv, NEW i \in Tests, NEW ph \in Phase,
           Active(i) \/ ph \notin {"run", "select", "append"}, phase[i] # "over",
           mode = "scheduled" => ph # "bump",
           Goes(i, ph), UNCHANGED mode,
           mode = "scheduled" =>
              \A j \in Tests : phase'[j] = "append" => listed'[j] = report'.results
    PROVE  Serial'
<1> SUFFICES ASSUME mode = "scheduled"
             PROVE  /\ \A j \in Tests : Active(j)' => \A k \in Before(j) : phase'[k] = "over"
                    /\ \A j \in Tests : phase'[j] # "bump"
  BY DEF Serial
<1>1. \A j \in Tests : phase'[j] = IF j = i THEN ph ELSE phase[j]
  BY PhasesAfter DEF ReportsInv
<1>2. ASSUME NEW j \in Tests, Active(j)', NEW k \in Before(j) PROVE phase'[k] = "over"
  <2>1. k \in Tests /\ Active(j)
    BY <1>1, <1>2, BeforeIsEarlier DEF Active
  <2>2. phase[k] = "over"
    BY <2>1 DEF ReportsInv, Serial
  <2>3. QED
    BY <1>1, <2>1, <2>2
<1>3. QED
  BY <1>1, <1>2 DEF ReportsInv, Serial

\* Two tests of a scheduled run are not under way at once.
LEMMA OneIsActive ==
    ASSUME ReportsInv, mode = "scheduled", NEW i \in Tests, NEW j \in Tests,
           Active(i), Active(j)
    PROVE  i = j
<1> SUFFICES ASSUME i # j PROVE FALSE
  OBVIOUS
<1>1. i \in Before(j) \/ j \in Before(i)
  BY RunReportsAssumption DEF Tests, Before
<1>2. QED
  BY <1>1 DEF ReportsInv, Serial, Active

LEMMA FinishKeepsInv ==
    ASSUME ReportsInv, NEW i \in Tests, NEW v \in Verdict, NEW output \in BOOLEAN,
           NEW thrown \in BOOLEAN, Finish(i, v, output, thrown)
    PROVE  ReportsInv'
<1>1. /\ phase[i] = "run" /\ Goes(i, "select")
      /\ verdict' = [verdict EXCEPT ![i] = v] /\ saw' = [saw EXCEPT ![i] = {}]
      /\ chainVars' = IF output THEN chainVars \cup {i} ELSE chainVars
      /\ caught' = thrown /\ UNCHANGED <<mode, at, listed, report, faulted>>
  BY DEF Finish, Goes
<1>2. \A j \in Tests : phase'[j] = IF j = i THEN "select" ELSE phase[j]
  BY <1>1, PhasesAfter DEF ReportsInv, Phase
<1>3. TypeOK'
  BY <1>1, PhasesAfter DEF ReportsInv, TypeOK, Phase
<1>4. Chained'
  <2>1. mode # "parallel" => In("run")' = {}
    BY <1>1, <1>2 DEF ReportsInv, Chained, In
  <2>2. QED
    BY <1>1, <2>1 DEF Chained
<1>5. Serial'
  <2>1. \A j \in Tests : phase'[j] = "append" => phase[j] = "append"
    BY <1>2
  <2>2. QED
    BY <1>1, <2>1, SerialStays DEF ReportsInv, Serial, Active, Phase
<1>6. Passed'
  BY <1>1 DEF ReportsInv, Passed, Finished
<1>7. (\E T \in SUBSET Tests : Appended(T))'
  <2>1. PICK S \in SUBSET Tests : Appended(S)
    BY DEF ReportsInv
  <2>2. i \notin S
    BY <1>1, <2>1 DEF Appended
  <2>3. In("over")' = In("over")
    BY <1>1, <1>2 DEF In
  <2>4. \A j \in S : verdict'[j] = verdict[j] /\ phase'[j] \in {"bump", "over", "lost"}
    BY <1>1, <1>2, <2>1, <2>2 DEF Appended
  <2>5. QED
    BY <1>1, <2>1, <2>3, <2>4, AppendedStays DEF Appended
<1>8. QED
  BY <1>1, <1>3, <1>4, <1>5, <1>6, <1>7 DEF ReportsInv

LEMMA SelectKeepsInv ==
    ASSUME ReportsInv, NEW i \in Tests, SelectResults(i)
    PROVE  ReportsInv'
<1>1. /\ phase[i] = "select" /\ Goes(i, "append")
      /\ listed' = [listed EXCEPT ![i] = report.results]
      /\ UNCHANGED <<mode, saw, chainVars, at, verdict, caught, report, faulted>>
  BY DEF SelectResults, Goes, engine
<1>2. \A j \in Tests : phase'[j] = IF j = i THEN "append" ELSE phase[j]
  BY <1>1, PhasesAfter DEF ReportsInv, Phase
<1>3. \A j \in Tests : listed'[j] = IF j = i THEN report.results ELSE listed[j]
  BY <1>1 DEF ReportsInv, TypeOK
<1>4. TypeOK'
  BY <1>1, PhasesAfter DEF ReportsInv, TypeOK, Phase, Report
<1>5. Chained'
  BY <1>1, ChainedStays DEF Phase
<1>6. Serial'
  <2>1. mode = "scheduled" =>
           \A j \in Tests : phase'[j] = "append" => listed'[j] = report'.results
    BY <1>1, <1>2, <1>3 DEF ReportsInv, Serial
  <2>2. QED
    BY <1>1, <2>1, SerialStays DEF Active, Phase
<1>7. Passed'
  BY <1>1, <1>2 DEF ReportsInv, Passed, Finished, In
<1>8. (\E T \in SUBSET Tests : Appended(T))'
  <2>1. PICK S \in SUBSET Tests : Appended(S)
    BY DEF ReportsInv
  <2>2. i \notin S
    BY <1>1, <2>1 DEF Appended
  <2>3. In("over")' = In("over")
    BY <1>1, <1>2 DEF In
  <2>4. \A j \in S : verdict'[j] = verdict[j] /\ phase'[j] \in {"bump", "over", "lost"}
    BY <1>1, <1>2, <2>1, <2>2 DEF Appended
  <2>5. \A j \in Tests : listed'[j] \subseteq S
    BY <1>3, <2>1 DEF Appended
  <2>6. QED
    BY <1>1, <2>1, <2>3, <2>4, <2>5, AppendedStays
<1>9. QED
  BY <1>1, <1>4, <1>5, <1>6, <1>7, <1>8 DEF ReportsInv

LEMMA AddedIsAReport ==
    ASSUME TypeOK, NEW i \in Tests
    PROVE  /\ Added(i) \in Report
           /\ Added(i).results = listed[i] \cup {i} /\ Added(i).total = report.total + 1
           /\ Added(i).status = report.status
           /\ \A v \in Verdict : Added(i).count[v] =
                 IF v = verdict[i] THEN report.count[v] + 1 ELSE report.count[v]
<1> DEFINE count == [report.count EXCEPT ![verdict[i]] = @ + 1]
<1>1. /\ report \in Report /\ verdict[i] \in Verdict /\ listed[i] \cup {i} \in SUBSET Tests
      /\ report.count \in [Verdict -> Nat] /\ report.total \in Nat
  BY DEF TypeOK, Report
<1>2. /\ count \in [Verdict -> Nat]
      /\ \A v \in Verdict : count[v] =
            IF v = verdict[i] THEN report.count[v] + 1 ELSE report.count[v]
  BY <1>1
<1>3. [report EXCEPT !.results = listed[i] \cup {i}].count = report.count
  BY <1>1 DEF Report
<1>4. Added(i) = [[[report EXCEPT !.results = listed[i] \cup {i}]
                     EXCEPT !.count = count] EXCEPT !.total = report.total + 1]
  BY <1>1, <1>3 DEF Added, Report
<1> HIDE DEF count
<1>5. PICK status, results, old, total, progress :
         report = [status |-> status, results |-> results, count |-> old,
                   total |-> total, progress |-> progress]
  BY <1>1 DEF Report
<1>6. Added(i) = [status |-> status, results |-> listed[i] \cup {i}, count |-> count,
                  total |-> report.total + 1, progress |-> progress]
  BY <1>4, <1>5
<1>7. /\ Added(i) \in Report
      /\ Added(i).results = listed[i] \cup {i} /\ Added(i).total = report.total + 1
      /\ Added(i).status = report.status /\ Added(i).count = count
  BY <1>1, <1>2, <1>5, <1>6 DEF Report
<1>8. QED
  BY <1>2, <1>7

LEMMA AppendKeepsInv ==
    ASSUME ReportsInv, NEW i \in Tests, AppendResult(i)
    PROVE  ReportsInv'
<1>1. /\ phase[i] = "append" /\ Goes(i, AfterAppend) /\ report' = Added(i)
      /\ listed' = [listed EXCEPT ![i] = {}]
      /\ UNCHANGED <<mode, saw, chainVars, at, verdict, caught, faulted>>
  BY DEF AppendResult, Goes, engine
<1>2. /\ AfterAppend \in Phase \ {"queued", "run"} /\ AfterAppend \in {"bump", "over"}
      /\ mode = "scheduled" => AfterAppend = "over"
  BY DEF AfterAppend, Phase
<1>3. /\ phase' \in [Tests -> Phase]
      /\ \A j \in Tests : phase'[j] = IF j = i THEN AfterAppend ELSE phase[j]
  BY <1>1, <1>2, PhasesAfter DEF ReportsInv
<1>4. /\ report' \in Report
      /\ report'.results = listed[i] \cup {i} /\ report'.total = report.total + 1
      /\ report'.status = report.status
      /\ \A v \in Verdict : report'.count[v] =
            IF v = verdict[i] THEN report.count[v] + 1 ELSE report.count[v]
  BY <1>1, AddedIsAReport DEF ReportsInv
<1>5. TypeOK'
  BY <1>1, <1>3, <1>4 DEF ReportsInv, TypeOK
<1>6. Chained'
  BY <1>1, <1>2, ChainedStays
<1>7. Serial'
  <2>1. ASSUME mode = "scheduled", NEW j \in Tests PROVE phase'[j] # "append"
    BY <1>1, <1>2, <1>3, <2>1, OneIsActive DEF Active
  <2>2. QED
    BY <1>1, <1>2, <2>1, SerialStays DEF Active
<1>8. Passed'
  <2>1. ASSUME report.status = "completed" PROVE mode # "scheduled" /\ Finished' = Tests
    BY <1>1, <1>2, <1>3, <2>1 DEF ReportsInv, Passed, Finished, In
  <2>2. QED
    BY <1>1, <1>4, <2>1 DEF ReportsInv, Passed
<1>9. (\E T \in SUBSET Tests : Appended(T))'
  <2>1. PICK S \in SUBSET Tests : Appended(S)
    BY DEF ReportsInv
  <2> DEFINE T == S \cup {i}
  <2>2. T \in SUBSET Tests /\ i \notin S
    BY <1>1, <2>1 DEF Appended
  <2>3. report'.results \subseteq T /\ \A j \in Tests : listed'[j] \subseteq T
    BY <1>1, <1>4, <2>1 DEF Appended, ReportsInv, TypeOK
  <2>4. \A j \in T : phase'[j] \in {"bump", "over", "lost"}
    BY <1>2, <1>3, <2>1, <2>2 DEF Appended
  <2>5. ASSUME NEW v \in Verdict PROVE report'.count[v] = Cardinality(Named(T, v)')
    <3>1. Named(S, v) \in SUBSET Tests /\ i \notin Named(S, v)
      BY <2>2 DEF Named
    <3>2. Named(T, v)' = IF verdict[i] = v THEN Named(S, v) \cup {i} ELSE Named(S, v)
      BY <1>1 DEF Named
    <3>3. report.count[v] = Cardinality(Named(S, v))
      BY <2>1 DEF Appended
    <3>4. QED
      BY <1>4, <3>1, <3>2, <3>3, TestsAreFew
  <2>6. ASSUME mode = "scheduled"
        PROVE  T = In("over")' /\ report'.results = T /\ report'.total = Cardinality(T)
    <3>1. S = In("over") /\ report.results = S /\ report.total = Cardinality(S)
      BY <2>1, <2>6 DEF Appended
    <3>2. T = In("over")'
      BY <1>2, <1>3, <2>6, <3>1 DEF In
    <3>3. listed[i] = S
      BY <1>1, <2>6, <3>1 DEF ReportsInv, Serial
    <3>4. Cardinality(T) = Cardinality(S) + 1
      BY <2>2, TestsAreFew
    <3>5. QED
      BY <1>4, <3>1, <3>2, <3>3, <3>4
  <2>7. Appended(T)'
    BY <1>1, <2>3, <2>4, <2>5, <2>6 DEF Appended
  <2> HIDE DEF T
  <2>8. QED
    BY <2>2, <2>7 DEF Tests
<1>10. QED
  BY <1>1, <1>5, <1>6, <1>7, <1>8, <1>9 DEF ReportsInv

\* A test whose result is appended, or lost, goes on.
LEMMA CallbackGoesOn ==
    ASSUME ReportsInv, NEW i \in Tests, NEW ph \in {"bump", "over"},
           phase[i] \in {"select", "append", "bump"}, mode # "scheduled", Goes(i, ph),
           phase[i] = "bump" => ph = "over",
           UNCHANGED <<mode, saw, chainVars, at, verdict, caught>>,
           faulted' \in BOOLEAN, report' \in Report,
           report'.results = report.results, report'.count = report.count,
           report'.total = report.total, report'.status = report.status,
           listed' \in [Tests -> SUBSET Tests],
           \A j \in Tests : listed'[j] \subseteq listed[j]
    PROVE  ReportsInv'
<1>1. /\ phase' \in [Tests -> Phase]
      /\ \A j \in Tests : phase'[j] = IF j = i THEN ph ELSE phase[j]
  BY PhasesAfter DEF ReportsInv, Phase
<1>2. TypeOK'
  BY <1>1 DEF ReportsInv, TypeOK
<1>3. Chained'
  BY ChainedStays DEF Phase
<1>4. Serial'
  BY DEF Serial
<1>5. Passed'
  BY <1>1 DEF ReportsInv, Passed, Finished
<1>6. (\E T \in SUBSET Tests : Appended(T))'
  <2>1. PICK S \in SUBSET Tests : Appended(S)
    BY DEF ReportsInv
  <2>2. \A j \in S : verdict'[j] = verdict[j] /\ phase'[j] \in {"bump", "over", "lost"}
    BY <1>1, <2>1 DEF Appended
  <2>3. \A j \in Tests : listed'[j] \subseteq S
    BY <2>1 DEF Appended
  <2>4. QED
    BY <2>1, <2>2, <2>3, AppendedStays
<1>7. QED
  BY <1>2, <1>3, <1>4, <1>5, <1>6 DEF ReportsInv

LEMMA BumpKeepsInv ==
    ASSUME ReportsInv, NEW i \in Tests, BumpProgress(i)
    PROVE  ReportsInv'
<1>1. /\ phase[i] = "bump" /\ Goes(i, "over")
      /\ report' = [report EXCEPT !.progress = @ + 1]
      /\ UNCHANGED <<mode, saw, chainVars, at, verdict, listed, caught, faulted>>
  BY DEF BumpProgress, Goes, engine
<1>2. mode # "scheduled"
  BY <1>1 DEF ReportsInv, Serial
<1>3. QED
  BY <1>1, <1>2, CallbackGoesOn DEF ReportsInv, TypeOK, Report

LEMMA CallbackFailsKeepsInv ==
    ASSUME ReportsInv, NEW i \in Tests, CallbackFails(i)
    PROVE  ReportsInv'
<1> DEFINE ph == IF phase[i] = "bump" THEN "over" ELSE "bump"
<1>1. /\ mode # "scheduled" /\ phase[i] \in Unreliable /\ Goes(i, ph)
      /\ listed' = [listed EXCEPT ![i] = {}] /\ faulted' = TRUE
      /\ UNCHANGED <<mode, saw, chainVars, at, verdict, caught, report>>
  BY DEF CallbackFails, Goes, engine
<1>2. phase[i] \in {"select", "append", "bump"}
  BY <1>1, RunReportsAssumption DEF ReportsInv, TypeOK, Phase
<1>3. ph \in {"bump", "over"} /\ (phase[i] = "bump" => ph = "over")
  OBVIOUS
<1>4. /\ listed' \in [Tests -> SUBSET Tests]
      /\ \A j \in Tests : listed'[j] \subseteq listed[j]
  BY <1>1 DEF ReportsInv, TypeOK
<1> HIDE DEF ph
<1>5. QED
  BY <1>1, <1>2, <1>3, <1>4, CallbackGoesOn DEF ReportsInv, TypeOK

\* What was not appended yet is recorded once more, or never.
LEMMA SetBackKeepsInv ==
    ASSUME ReportsInv, NEW i \in Tests, NEW ph \in {"select", "lost"},
           phase[i] \in Unreliable, mode = "scheduled", Goes(i, ph),
           UNCHANGED <<mode, saw, chainVars, report>>,
           at' \in {at, "answered"}, caught' \in BOOLEAN, faulted' \in BOOLEAN,
           verdict' \in [Tests -> Verdict], \A j \in Tests \ {i} : verdict'[j] = verdict[j],
           listed' \in [Tests -> SUBSET Tests],
           \A j \in Tests \ {i} : listed'[j] = listed[j],
           listed'[i] \subseteq listed[i]
    PROVE  ReportsInv'
<1>1. phase[i] \in {"select", "append"} /\ ph \in Phase \ {"queued", "run"}
  BY RunReportsAssumption DEF ReportsInv, TypeOK, Phase, Serial
<1>2. /\ phase' \in [Tests -> Phase]
      /\ \A j \in Tests : phase'[j] = IF j = i THEN ph ELSE phase[j]
  BY <1>1, PhasesAfter DEF ReportsInv
<1>3. TypeOK'
  BY <1>2 DEF ReportsInv, TypeOK
<1>4. Chained'
  BY <1>1, ChainedStays
<1>5. Serial'
  <2>1. \A j \in Tests : phase'[j] = "append" => j # i /\ phase[j] = "append"
    BY <1>2
  <2>2. \A j \in Tests : phase'[j] = "append" => listed'[j] = report'.results
    BY <2>1 DEF ReportsInv, Serial
  <2>3. QED
    BY <1>1, <2>2, SerialStays DEF Active
<1>6. Passed'
  BY <1>1 DEF ReportsInv, Passed, In
<1>7. (\E T \in SUBSET Tests : Appended(T))'
  <2>1. PICK S \in SUBSET Tests : Appended(S)
    BY DEF ReportsInv
  <2>2. i \notin S /\ In("over")' = In("over")
    BY <1>1, <1>2, <2>1 DEF Appended, In
  <2>3. \A j \in S : verdict'[j] = verdict[j] /\ phase'[j] \in {"bump", "over", "lost"}
    BY <1>2, <2>1, <2>2 DEF Appended
  <2>4. \A j \in Tests : listed'[j] \subseteq S
    BY <2>1 DEF Appended
  <2>5. QED
    BY <2>1, <2>2, <2>3, <2>4, AppendedStays
<1>8. at' # "idle"
  BY <1>1 DEF ReportsInv
<1>9. QED
  BY <1>3, <1>4, <1>5, <1>6, <1>7, <1>8 DEF ReportsInv

LEMMA RecordAgainKeepsInv ==
    ASSUME ReportsInv, NEW i \in Tests, RecordAgain(i)
    PROVE  ReportsInv'
<1>1. /\ mode = "scheduled" /\ phase[i] \in Unreliable /\ Goes(i, "select")
      /\ verdict' = [verdict EXCEPT ![i] = "error"]
      /\ listed' = [listed EXCEPT ![i] = {}] /\ caught' = TRUE /\ faulted' = TRUE
      /\ UNCHANGED <<mode, saw, chainVars, at, report>>
  BY DEF RecordAgain, Goes, engine
<1>2. /\ verdict' \in [Tests -> Verdict]
      /\ \A j \in Tests \ {i} : verdict'[j] = verdict[j]
      /\ listed' \in [Tests -> SUBSET Tests]
      /\ \A j \in Tests \ {i} : listed'[j] = listed[j]
      /\ listed'[i] \subseteq listed[i]
  BY <1>1 DEF ReportsInv, TypeOK, Verdict
<1>3. QED
  BY <1>1, <1>2, SetBackKeepsInv

LEMMA GiveUpKeepsInv ==
    ASSUME ReportsInv, NEW i \in Tests, GiveUp(i)
    PROVE  ReportsInv'
<1>1. /\ mode = "scheduled" /\ phase[i] \in Unreliable /\ Goes(i, "lost")
      /\ at' = "answered" /\ faulted' = TRUE
      /\ UNCHANGED <<mode, saw, chainVars, verdict, listed, caught, report>>
  BY DEF GiveUp, Goes, engine
<1>2. QED
  BY <1>1, SetBackKeepsInv DEF ReportsInv, TypeOK

LEMMA CompleteKeepsInv ==
    ASSUME ReportsInv, Complete
    PROVE  ReportsInv'
<1>1. /\ AllRun /\ at' = "answered"
      /\ faulted' \in BOOLEAN
      /\ UNCHANGED <<mode, saw, chainVars, phase, verdict, listed, caught>>
      /\ report' \in {report, [report EXCEPT !.status = Outcome]}
  BY DEF Complete, CompleteRunReport, CompleteFails, engine, ReportsInv, TypeOK
<1>2. /\ report' \in Report
      /\ report'.results = report.results /\ report'.count = report.count
      /\ report'.total = report.total /\ report'.status \in {report.status, Outcome}
  BY <1>1 DEF ReportsInv, TypeOK, Report, Outcome
<1>3. TypeOK'
  BY <1>1, <1>2 DEF ReportsInv, TypeOK
<1>4. Chained' /\ Serial'
  BY <1>1, <1>2 DEF ReportsInv, Chained, Serial, Active, In, Finished
<1>5. Passed'
  <2> SUFFICES ASSUME report'.status = "completed"
               PROVE  /\ \A i \in Tests : verdict[i] = "passed"
                      /\ Finished = Tests
                      /\ mode = "scheduled" => In("over") = Tests
    BY <1>1 DEF Passed, Finished, In
  <2>1. CASE report.status = "completed"
    BY <2>1 DEF ReportsInv, Passed
  <2>2. CASE Outcome = "completed"
    BY <1>1, <2>2 DEF Outcome, AllRun, Finished, In
  <2>3. QED
    BY <1>2, <2>1, <2>2
<1>6. (\E T \in SUBSET Tests : Appended(T))'
  <2>1. PICK S \in SUBSET Tests : Appended(S)
    BY DEF ReportsInv
  <2>2. QED
    BY <1>1, <1>2, <2>1, AppendedStays DEF Appended, In
<1>7. QED
  BY <1>1, <1>3, <1>4, <1>5, <1>6 DEF ReportsInv

LEMMA DieKeepsInv ==
    ASSUME ReportsInv, Die
    PROVE  ReportsInv'
<1>1. /\ at' = "dead" /\ faulted' = TRUE
      /\ phase' = [i \in Tests |-> IF phase[i] = "over" THEN "over" ELSE "lost"]
      /\ UNCHANGED <<mode, saw, chainVars, verdict, listed, caught, report>>
  BY DEF Die, engine
<1>2. TypeOK'
  BY <1>1 DEF ReportsInv, TypeOK, Phase
<1>3. In("run")' = {} /\ In("over")' = In("over") /\ Finished' = Tests
  BY <1>1 DEF In, Finished
<1>4. Chained' /\ Serial'
  BY <1>1, <1>3 DEF Chained, Serial, Active
<1>5. Passed'
  BY <1>1, <1>3 DEF ReportsInv, Passed
<1>6. (\E T \in SUBSET Tests : Appended(T))'
  <2>1. PICK S \in SUBSET Tests : Appended(S)
    BY DEF ReportsInv
  <2>2. \A i \in S : verdict'[i] = verdict[i] /\ phase'[i] \in {"bump", "over", "lost"}
    BY <1>1
  <2>3. \A i \in Tests : listed'[i] \subseteq S
    BY <1>1, <2>1 DEF Appended
  <2>4. QED
    BY <1>1, <1>3, <2>1, <2>2, <2>3, AppendedStays
<1>7. QED
  BY <1>1, <1>2, <1>4, <1>5, <1>6 DEF ReportsInv

(***************************************************************************)
(* The theorems.                                                           *)
(***************************************************************************)

LEMMA StepReportsInv == ReportsInv /\ [Next]_vars => ReportsInv'
<1> SUFFICES ASSUME ReportsInv, [Next]_vars
             PROVE  ReportsInv'
  OBVIOUS
<1>1. CASE StartRun
  BY <1>1, StartRunKeepsInv
<1>2. CASE Complete
  BY <1>2, CompleteKeepsInv
<1>3. CASE Die
  BY <1>3, DieKeepsInv
<1>4. ASSUME NEW i \in Tests, Work(i) PROVE ReportsInv'
  <2>1. CASE Dispatch(i)
    BY <2>1, DispatchKeepsInv
  <2>2. CASE \E v \in Verdict, output, thrown \in BOOLEAN : Finish(i, v, output, thrown)
    BY <2>2, FinishKeepsInv
  <2>3. CASE SelectResults(i) \/ AppendResult(i) \/ BumpProgress(i)
    BY <2>3, SelectKeepsInv, AppendKeepsInv, BumpKeepsInv
  <2>4. CASE CallbackFails(i) \/ RecordAgain(i) \/ GiveUp(i)
    BY <2>4, CallbackFailsKeepsInv, RecordAgainKeepsInv, GiveUpKeepsInv
  <2>5. QED
    BY <1>4, <2>1, <2>2, <2>3, <2>4 DEF Work
<1>5. CASE UNCHANGED vars
  <2> USE <1>5 DEF vars
  <2>1. TypeOK'
    BY DEF ReportsInv, TypeOK
  <2>2. Chained' /\ Serial' /\ Passed'
    BY DEF ReportsInv, Chained, Serial, Passed, Active, In, Finished
  <2>3. (\E T \in SUBSET Tests : Appended(T))'
    <3>1. PICK S \in SUBSET Tests : Appended(S)
      BY DEF ReportsInv
    <3>2. QED
      BY <3>1, AppendedStays DEF Appended, In
  <2>4. QED
    BY <2>1, <2>2, <2>3 DEF ReportsInv
<1>6. QED
  BY <1>1, <1>2, <1>3, <1>4, <1>5 DEF Next

LEMMA ReportsInvAlways == Spec => []ReportsInv
BY InitReportsInv, StepReportsInv, PTL DEF Spec

\* Runs, reports and callbacks keep their types, whatever fails.
THEOREM RunReportsTypeCorrect == Spec => []TypeOK
<1>1. ReportsInv => TypeOK
  BY DEF ReportsInv
<1>2. QED
  BY <1>1, ReportsInvAlways, PTL

\* A test of a chained or scheduled run starts after the others have ended,
\* and with all that they put out.
THEOREM ChainsAreInOrder == Spec => []ChainSeesPrevious
<1>1. ReportsInv => ChainSeesPrevious
  BY DEF ReportsInv, Chained, ChainSeesPrevious
<1>2. QED
  BY <1>1, ReportsInvAlways, PTL

\* Whatever callbacks fail or write over each other, and wherever the process
\* ends, a completed report is one of tests that passed, the report of a
\* scheduled run lists what it counts, and none lists more than it counts.
THEOREM ReportsAreHonest == Spec => []ReportsAddUp
<1>1. ReportsInv => ReportsAddUp
  <2> SUFFICES ASSUME ReportsInv PROVE ReportsAddUp
    OBVIOUS
  <2>1. PICK S \in SUBSET Tests : Appended(S)
    BY DEF ReportsInv
  <2>2. ASSUME NEW v \in Verdict
        PROVE  LET n == Cardinality(Named(report.results, v))
               IN  IF mode = "scheduled" THEN n = report.count[v] ELSE n <= report.count[v]
    <3>1. report.results \subseteq S /\ report.count[v] = Cardinality(Named(S, v))
      BY <2>1 DEF Appended
    <3>2. Named(report.results, v) \in SUBSET Named(S, v) /\ Named(S, v) \in SUBSET Tests
      BY <3>1 DEF Named
    <3>3. Cardinality(Named(report.results, v)) <= Cardinality(Named(S, v))
      BY <3>2, TestsAreFew
    <3>4. mode = "scheduled" => report.results = S
      BY <2>1 DEF Appended
    <3>5. QED
      BY <3>1, <3>3, <3>4
  <2>3. report.status = "completed" => \A i \in Tests : verdict[i] = "passed"
    BY DEF ReportsInv, Passed
  <2>4. mode = "scheduled" => report.results = In("over")
                              /\ report.total = Cardinality(report.results)
    BY <2>1 DEF Appended
  <2>5. QED
    BY <2>2, <2>3, <2>4 DEF ReportsAddUp, Named
<1>2. QED
  BY <1>1, ReportsInvAlways, PTL
=============================================================================
