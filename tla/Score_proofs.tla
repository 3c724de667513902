---------------------------- MODULE Score_proofs ----------------------------
(***************************************************************************)
(* Proofs about the programme, for every set of cases, plans, verdicts and *)
(* gate settings and any number of stored runs.  That no drop goes         *)
(* unreported becomes inductive once the report carries, until it is       *)
(* stored, what its comparison saw: a case below its verdict in the last   *)
(* stored run is a regression (DropSeen).  A drop over many runs is then   *)
(* either reported before the new run or is a drop from the last one.      *)
(*                                                                         *)
(* What coverage says of a run follows from its entries being finitely     *)
(* many, and a bijection with its cases where each names one technique.    *)
(* What the scorecard says of a rule is bounded dimension by dimension.    *)
(***************************************************************************)
EXTENDS Scorecard, FiniteSetTheorems, TLAPS

rank(run, c) == outcome_rank(outcome(run, c))

\* What a stored run keeps.
StoredRuns == [plan: Plans, results: [CaseIds -> Verdicts], diff: [CaseIds -> Kinds]]

\* The comparison in the report is with the last stored run.
DropSeen ==
    \A c \in CaseIds :
        /\ report # NoReport /\ stored # <<>> /\ report.diff # NoDiff
        /\ c \in Scoreable(stored[Len(stored)]) /\ c \in Scoreable(report.run)
        /\ rank(report.run, c) < rank(stored[Len(stored)], c)
        => report.diff[c] = "REGRESSION"

\* Every report but the missing one is of a plan.
ReportPlanned == report # NoReport => report.run.plan \in Plans

ScoreInv ==
    /\ ScoreTypeOK
    /\ ReportPlanned
    /\ DropSeen
    /\ NoDropGoesUnreported

---------------------------------------------------------------------------
(* Operators *)

\* The runs considered are runs of plans, with typed verdicts.
LEMMA RunsTyped ==
    ASSUME NEW run \in Runs
    PROVE  /\ run.plan \in Plans /\ run.results \in [CaseIds -> Verdicts]
           /\ Planned(run) \subseteq CaseIds
<1>1. PICK plan \in Plans : \E r \in Results(plan) : run = [plan |-> plan, results |-> r]
  BY DEF Runs
<1> PICK r \in Results(plan) : run = [plan |-> plan, results |-> r]
  BY <1>1
<1>2. NoVerdict \in Verdicts
  BY DEF NoVerdict, Verdicts, Outcomes
<1>3. r \in [CaseIds -> Verdicts]
  BY <1>2, ScoreAssumption DEF Results
<1>4. plan \in Seq(CaseIds)
  BY ScoreAssumption
<1> QED
  BY <1>3, <1>4 DEF Planned, Range

LEMMA NoRunTyped ==
    NoRun.results \in [CaseIds -> Verdicts] /\ NoDiff \in [CaseIds -> Kinds]
BY DEF NoRun, NoVerdict, Verdicts, Outcomes, NoDiff, Kinds

\* Every comparison lists cases under known kinds.
LEMMA CompareTyped ==
    ASSUME NEW before, NEW after
    PROVE  Compare(before, after) \in Kinds
BY DEF Compare, Kinds

LEMMA DiffTyped ==
    ASSUME NEW run
    PROVE  Diff(run) \in [CaseIds -> Kinds]
<1>1. FirstDiff(run) \in [CaseIds -> Kinds]
  BY DEF FirstDiff, Kinds
<1>2. ASSUME NEW previous PROVE diff_runs(run, previous) \in [CaseIds -> Kinds]
  BY CompareTyped DEF diff_runs, Kinds
<1> QED
  BY <1>1, <1>2 DEF Diff

\* A verdict lower than the previous one is a regression, whatever it is.
LEMMA DropIsRegression ==
    ASSUME NEW run, NEW previous, NEW c \in CaseIds,
           c \in Scoreable(run), c \in Scoreable(previous),
           rank(run, c) < rank(previous, c)
    PROVE  diff_runs(run, previous)[c] = "REGRESSION"
<1>1. c \in Planned(run) /\ c \in Planned(previous)
  BY DEF Scoreable
<1>2. rank(run, c) \in 0..2 /\ rank(previous, c) \in 0..2
  BY DEF Scoreable, is_scoreable, States, rank, outcome_rank
<1>3. Compare(previous.results[c], run.results[c]) = "REGRESSION"
  BY <1>2 DEF Compare, rank, outcome
<1> QED
  BY <1>1, <1>3 DEF diff_runs

\* Each gate has a name and a Boolean result.
LEMMA GatesBoolean ==
    ASSUME NEW run, NEW diff
    PROVE  /\ NoErrors(run) \in BOOLEAN /\ ExpectationsMet(run) \in BOOLEAN
           /\ NoRegressions(diff) \in BOOLEAN /\ NoiseInBudget(run) \in BOOLEAN
           /\ LatencyInBudget(run) \in BOOLEAN /\ TargetsMet(run) \in BOOLEAN
           /\ DetectionRateMet(run) \in BOOLEAN /\ VisibilityRateMet(run) \in BOOLEAN
BY DEF NoErrors, ExpectationsMet, NoRegressions, NoiseInBudget, LatencyInBudget, TargetsMet,
   DetectionRateMet, VisibilityRateMet, RateMet

LEMMA GatesTyped ==
    ASSUME NEW run, NEW diff
    PROVE  evaluate_gates(run, diff) \subseteq GateNames \X BOOLEAN
<1>1. ASSUME NEW name \in GateNames, NEW applicable, NEW passed \in BOOLEAN
      PROVE  Gate(name, applicable, passed) \subseteq GateNames \X BOOLEAN
  BY DEF Gate
<1> DEFINE Typed(gate) == gate \subseteq GateNames \X BOOLEAN
<1>2. /\ Typed(Gate("no-errors", policy.fail_on_error, NoErrors(run)))
      /\ Typed(Gate("expectations-met", TRUE, ExpectationsMet(run)))
      /\ Typed(Gate("no-regressions", policy.fail_on_regression /\ diff # NoDiff, NoRegressions(diff)))
      /\ Typed(Gate("detection-rate", policy.min_detection_rate > 0, DetectionRateMet(run)))
      /\ Typed(Gate("visibility-rate", policy.min_visibility_rate > 0, VisibilityRateMet(run)))
      /\ Typed(Gate("noise-budget", policy.fail_on_noise, NoiseInBudget(run)))
      /\ Typed(Gate("latency-budget", policy.fail_on_latency_breach, LatencyInBudget(run)))
      /\ Typed(Gate("coverage-targets", policy.fail_on_coverage_target /\ Entries(run) # {}, TargetsMet(run)))
  BY <1>1, GatesBoolean DEF GateNames
<1> QED
  BY <1>2 DEF evaluate_gates

LEMMA ExitCodeTyped ==
    ASSUME NEW gates
    PROVE  ExitCode(gates) \in {0, 1}
BY DEF ExitCode

\* When every verdict is the documented one, no gap is undocumented.
LEMMA DocumentedMeansAccepted ==
    ASSUME NEW run, \A c \in Scoreable(run) : status(run, c) = "PASS"
    PROVE  /\ Unaccepted(run, "VISIBLE") = {} /\ Unaccepted(run, "BLIND") = {}
           /\ Drifting(run) = {}
<1>1. ASSUME NEW o \in {"VISIBLE", "BLIND"} PROVE Unaccepted(run, o) = {}
  <2>1. ASSUME NEW c \in With(run, o) PROVE is_accepted(run, c)
    <3>1. outcome(run, c) = o /\ c \in Scoreable(run)
      BY DEF With, Scoreable, is_scoreable, States
    <3> QED
      BY <3>1 DEF is_accepted
  <2> QED
    BY <2>1 DEF Unaccepted
<1>2. Drifting(run) = {}
  BY <1>1 DEF Drifting, TacticsNamed
<1> QED
  BY <1>1, <1>2

\* So those gates pass when they apply.
LEMMA DocumentedPasses ==
    ASSUME NEW run \in Runs, NEW diff, \A c \in Scoreable(run) : status(run, c) = "PASS",
           NEW name \in {"expectations-met", "detection-rate", "visibility-rate",
                         "coverage-targets"}
    PROVE  <<name, FALSE>> \notin evaluate_gates(run, diff)
<1>1. ExpectationsMet(run)
  <2> SUFFICES ASSUME NEW c \in Planned(run), status(run, c) = "FAIL" PROVE FALSE
    BY DEF ExpectationsMet
  <2>1. outcome(run, c) \in Outcomes
    BY RunsTyped DEF outcome, Verdicts
  <2>2. outcome(run, c) \in States
    BY <2>1 DEF status, Outcomes, States
  <2> QED
    BY <2>2 DEF Scoreable, is_scoreable
<1>2. DetectionRateMet(run) /\ VisibilityRateMet(run) /\ TargetsMet(run)
  BY DocumentedMeansAccepted DEF DetectionRateMet, VisibilityRateMet, TargetsMet, RateMet
<1>3. /\ <<name, FALSE>> \notin Gate("no-errors", policy.fail_on_error, NoErrors(run))
      /\ <<name, FALSE>> \notin Gate("no-regressions", policy.fail_on_regression /\ diff # NoDiff, NoRegressions(diff))
      /\ <<name, FALSE>> \notin Gate("noise-budget", policy.fail_on_noise, NoiseInBudget(run))
      /\ <<name, FALSE>> \notin Gate("latency-budget", policy.fail_on_latency_breach, LatencyInBudget(run))
  BY DEF Gate
<1>4. ASSUME NEW n, NEW applicable, NEW passed, passed = TRUE
      PROVE  <<name, FALSE>> \notin Gate(n, applicable, passed)
  BY <1>4 DEF Gate
<1>5. /\ <<name, FALSE>> \notin Gate("expectations-met", TRUE, ExpectationsMet(run))
      /\ <<name, FALSE>> \notin Gate("detection-rate", policy.min_detection_rate > 0, DetectionRateMet(run))
      /\ <<name, FALSE>> \notin Gate("visibility-rate", policy.min_visibility_rate > 0, VisibilityRateMet(run))
      /\ <<name, FALSE>> \notin Gate("coverage-targets", policy.fail_on_coverage_target /\ Entries(run) # {}, TargetsMet(run))
  BY <1>1, <1>2, <1>4, GatesBoolean
<1> QED
  BY <1>3, <1>5 DEF evaluate_gates

---------------------------------------------------------------------------
(* The invariant *)

LEMMA InitInv == ScoreInit => ScoreInv
BY NoRunTyped, ScoreAssumption DEF ScoreInit, ScoreInv, ScoreTypeOK, ReportPlanned, DropSeen,
   NoDropGoesUnreported, NoReport, NoRun, GateNames

\* Storing a run keeps what the history looks like under its index.
LEMMA SameRun ==
    ASSUME NEW a, NEW b, a.plan = b.plan, a.results = b.results
    PROVE  /\ Scoreable(a) = Scoreable(b)
           /\ \A c : rank(a, c) = rank(b, c)
BY DEF Scoreable, Planned, is_scoreable, outcome, rank

LEMMA ScoringStep ==
    ASSUME ScoreInv, NEW run \in Runs, NEW compare \in BOOLEAN, Score(run, compare)
    PROVE  ScoreInv'
<1> DEFINE diff == IF compare THEN Diff(run) ELSE NoDiff
<1>1. /\ report' = [run |-> run, diff |-> diff, gates |-> evaluate_gates(run, diff),
                    exit_code |-> ExitCode(evaluate_gates(run, diff))]
      /\ policy' = policy /\ stored' = stored
  BY DEF Score
<1>2. diff \in [CaseIds -> Kinds]
  BY DiffTyped, NoRunTyped
<1>3. run.plan \in Plans /\ run.results \in [CaseIds -> Verdicts]
  BY RunsTyped
<1>4. ScoreTypeOK'
  BY <1>1, <1>2, <1>3, GatesTyped, ExitCodeTyped DEF ScoreInv, ScoreTypeOK
<1>5. ReportPlanned'
  BY <1>1, <1>3 DEF ReportPlanned
<1>6. DropSeen'
  <2> SUFFICES ASSUME NEW c \in CaseIds, stored # <<>>, diff # NoDiff,
                      c \in Scoreable(stored[Len(stored)]), c \in Scoreable(run),
                      rank(run, c) < rank(stored[Len(stored)], c)
               PROVE  diff[c] = "REGRESSION"
    BY <1>1 DEF DropSeen, rank, outcome, Scoreable, is_scoreable, Planned
  <2>1. diff = diff_runs(run, stored[Len(stored)])
    BY DEF Diff
  <2> QED
    BY <2>1, DropIsRegression
<1>7. NoDropGoesUnreported'
  BY <1>1 DEF ScoreInv, NoDropGoesUnreported
<1> QED
  BY <1>4, <1>5, <1>6, <1>7 DEF ScoreInv

LEMMA StoringStep ==
    ASSUME ScoreInv, StoreResult
    PROVE  ScoreInv'
<1> DEFINE new == [plan |-> report.run.plan, results |-> report.run.results,
                   diff |-> report.diff]
           n == Len(stored)
<1>1. /\ report # NoReport /\ report' = NoReport
      /\ policy' = policy /\ stored' = Append(stored, new)
  BY DEF StoreResult
<1>2. new \in StoredRuns /\ stored \in Seq(StoredRuns)
  BY <1>1 DEF ScoreInv, ScoreTypeOK, ReportPlanned, StoredRuns
<1>3. /\ n \in Nat /\ Len(stored') = n + 1 /\ DOMAIN stored' = 1..(n + 1)
      /\ stored'[n + 1] = new
      /\ \A k \in 1..n : stored'[k] = stored[k]
  BY <1>1, <1>2
<1>4. ScoreTypeOK'
  BY <1>1, <1>2, NoRunTyped DEF ScoreInv, ScoreTypeOK, StoredRuns, NoReport, NoRun, GateNames
<1>5. ReportPlanned' /\ DropSeen'
  BY <1>1 DEF ReportPlanned, DropSeen
<1>6. NoDropGoesUnreported'
  <2> SUFFICES ASSUME NEW i \in 1..(n + 1), NEW j \in 1..(n + 1), NEW c \in CaseIds,
                      i < j,
                      \A k \in i..j : c \in Scoreable(stored'[k]),
                      \A k \in (i + 1)..j : stored'[k].diff # NoDiff,
                      rank(stored'[j], c) < rank(stored'[i], c)
               PROVE  \E k \in (i + 1)..j : stored'[k].diff[c] = "REGRESSION"
    BY <1>3 DEF NoDropGoesUnreported, rank
  <2>1. ASSUME NEW m \in 1..n, i < m, m <= j, rank(stored[m], c) < rank(stored[i], c)
        PROVE  \E k \in (i + 1)..m : stored'[k].diff[c] = "REGRESSION"
    <3>1. /\ \A k \in i..m : c \in Scoreable(stored[k])
          /\ \A k \in (i + 1)..m : stored[k].diff # NoDiff
      BY SMTT(20), <1>3, <2>1
    <3>2. \E k \in (i + 1)..m : stored[k].diff[c] = "REGRESSION"
      BY <1>3, <2>1, <3>1 DEF ScoreInv, NoDropGoesUnreported, rank
    <3> QED
      BY <1>3, <2>1, <3>2
  <2>2. CASE j <= n
    BY <1>3, <2>1, <2>2
  <2>3. CASE j = n + 1
    <3>1. i \in 1..n /\ n \in 1..n
      BY <1>3, <2>3
    <3>2. CASE rank(stored[n], c) < rank(stored[i], c)
      <4>1. i < n
        <5>1. rank(stored[n], c) \in Int
          BY DEF rank, outcome_rank
        <5> QED
          BY <1>3, <3>1, <3>2, <5>1
      <4> QED
        BY <1>3, <2>1, <2>3, <3>1, <3>2, <4>1
    <3>3. CASE ~(rank(stored[n], c) < rank(stored[i], c))
      <4>1. /\ c \in Scoreable(new) /\ c \in Scoreable(stored[n])
            /\ new.diff # NoDiff /\ rank(new, c) < rank(stored[i], c)
        BY <1>3, <2>3, <3>1
      <4>2. rank(new, c) \in Int /\ rank(stored[n], c) \in Int /\ rank(stored[i], c) \in Int
        BY DEF rank, outcome_rank
      <4>3. c \in Scoreable(report.run) /\ rank(report.run, c) < rank(stored[n], c)
        BY <3>3, <4>1, <4>2, SameRun
      <4>4. new.diff[c] = "REGRESSION"
        BY <1>1, <1>3, <3>1, <4>1, <4>3 DEF ScoreInv, DropSeen
      <4> QED
        BY <1>3, <2>3, <3>1, <4>4
    <3> QED
      BY <3>2, <3>3
  <2> QED
    BY <1>3, <2>2, <2>3
<1> QED
  BY <1>4, <1>5, <1>6 DEF ScoreInv

LEMMA OtherStep ==
    ASSUME ScoreInv, NothingSelected \/ Forget \/ UNCHANGED scoreVars
    PROVE  ScoreInv'
<1>1. CASE NothingSelected
  <2>1. /\ report' = [NoReport EXCEPT !.exit_code = 1] /\ <<>> \in Plans
        /\ policy' = policy /\ stored' = stored
    BY <1>1 DEF NothingSelected
  <2> QED
    BY <2>1, NoRunTyped DEF ScoreInv, ScoreTypeOK, ReportPlanned, DropSeen,
       NoDropGoesUnreported, NoReport, NoRun, GateNames
<1>2. CASE Forget
  <2>1. report' = NoReport /\ policy' = policy /\ stored' = stored
    BY <1>2 DEF Forget
  <2> QED
    BY <2>1, NoRunTyped DEF ScoreInv, ScoreTypeOK, ReportPlanned, DropSeen,
       NoDropGoesUnreported, NoReport, NoRun, GateNames
<1>3. CASE UNCHANGED scoreVars
  BY <1>3 DEF scoreVars, ScoreInv, ScoreTypeOK, ReportPlanned, DropSeen,
     NoDropGoesUnreported, rank, outcome, Scoreable, is_scoreable, Planned
<1> QED
  BY <1>1, <1>2, <1>3

\* The invariant holds throughout every history of runs.
THEOREM ScoreInvariant == ScoreSpec => []ScoreInv
<1>1. ScoreInv /\ [ScoreNext]_scoreVars => ScoreInv'
  BY ScoringStep, StoringStep, OtherStep DEF ScoreNext
<1> QED
  BY InitInv, <1>1, PTL DEF ScoreSpec

---------------------------------------------------------------------------
(* Theorems *)

\* Types of the programme's state, and gates with names and Boolean results.
THEOREM ScoreTypeCorrect == ScoreSpec => []ScoreTypeOK
<1>1. ScoreInv => ScoreTypeOK
  BY DEF ScoreInv
<1> QED
  BY <1>1, ScoreInvariant, PTL

\* A case that keeps giving verdicts and ends lower than it began was reported
\* as a regression on the way, however many runs were stored.
THEOREM DropsAreReported == ScoreSpec => []NoDropGoesUnreported
<1>1. ScoreInv => NoDropGoesUnreported
  BY DEF ScoreInv
<1> QED
  BY <1>1, ScoreInvariant, PTL

\* Documented gaps never fail a build, whatever the rates and the targets.
THEOREM DocumentedGapsNeverFail == ScoreSpec => []DocumentedGapsPass
<1>1. ScoreInit => DocumentedGapsPass
  BY DEF ScoreInit, DocumentedGapsPass, NoReport
<1>2. ASSUME DocumentedGapsPass, [ScoreNext]_scoreVars PROVE DocumentedGapsPass'
  <2>1. ASSUME NEW run \in Runs, NEW compare \in BOOLEAN, Score(run, compare)
        PROVE  DocumentedGapsPass'
    <3> DEFINE diff == IF compare THEN Diff(run) ELSE NoDiff
    <3>1. report'.run = run /\ report'.gates = evaluate_gates(run, diff)
      BY <2>1 DEF Score
    <3> QED
      BY <3>1, DocumentedPasses DEF DocumentedGapsPass, Scoreable, is_scoreable, Planned,
         status, outcome
  <2>2. CASE NothingSelected \/ StoreResult \/ Forget
    <3>1. report'.gates = {}
      BY <2>2 DEF NothingSelected, StoreResult, Forget, NoReport
    <3> QED
      BY <3>1 DEF DocumentedGapsPass
  <2>3. CASE UNCHANGED scoreVars
    BY <1>2, <2>3 DEF scoreVars, DocumentedGapsPass, Scoreable, is_scoreable, Planned,
       status, outcome
  <2> QED
    BY <1>2, <2>1, <2>2, <2>3 DEF ScoreNext
<1> QED
  BY <1>1, <1>2, PTL DEF ScoreSpec

---------------------------------------------------------------------------
(* Coverage counts cases *)

\* A run whose plan lists cases.
Run(run) == run.plan \in Seq(CaseIds)

LEMMA ReportIsRun == ASSUME ScoreTypeOK PROVE Run(report.run)
<1>1. report.run.plan \in Plans \/ report.run.plan = <<>>
  BY DEF ScoreTypeOK
<1>2. \A plan \in Plans : plan \in Seq(CaseIds)
  BY ScoreAssumption
<1>3. <<>> \in Seq(CaseIds)
  OBVIOUS
<1> QED
  BY <1>1, <1>2, <1>3 DEF Run

\* The references of a run are finitely many.
LEMMA EntriesOfRun ==
    ASSUME NEW run, Run(run)
    PROVE  /\ IsFiniteSet(Entries(run))
           /\ \A e \in Entries(run) :
                 /\ e[1] \in DOMAIN run.plan /\ e[2] \in DOMAIN Case[run.plan[e[1]]].attack
                 /\ e = <<e[1], e[2]>> /\ RefAt(run, e).technique \in Techniques \ Excluded
           /\ \A i \in DOMAIN run.plan : \A j \in DOMAIN Case[run.plan[i]].attack :
                 Case[run.plan[i]].attack[j].technique \notin Excluded => <<i, j>> \in Entries(run)
<1> DEFINE D == DOMAIN run.plan
           Of == [i \in D |-> {i} \X DOMAIN Case[run.plan[i]].attack]
           All == {Of[i] : i \in D}
<1>1. /\ Len(run.plan) \in Nat /\ D = 1..Len(run.plan) /\ \A i \in D : run.plan[i] \in CaseIds
  BY DEF Run
<1>2. \A c \in CaseIds : /\ Case[c].attack \in Seq(AttackRef)
                         /\ DOMAIN Case[c].attack = 1..Len(Case[c].attack)
                         /\ Len(Case[c].attack) \in Nat
  <2>1. \A c \in CaseIds : Case[c].attack \in Seq(AttackRef)
    BY ScoreAssumption DEF CaseInfo
  <2> QED
    BY <2>1
<1>3. IsFiniteSet(D)
  BY <1>1, FS_Interval
<1>4. \A T \in All : IsFiniteSet(T)
  <2>1. ASSUME NEW i \in D PROVE IsFiniteSet({i} \X DOMAIN Case[run.plan[i]].attack)
    <3>1. IsFiniteSet(DOMAIN Case[run.plan[i]].attack)
      <4>1. PICK n \in Nat : DOMAIN Case[run.plan[i]].attack = 1..n
        BY <1>1, <1>2
      <4>2. IsFiniteSet(1..n)
        BY FS_Interval
      <4> QED
        BY <4>1, <4>2
    <3>2. IsFiniteSet({i})
      BY FS_Singleton
    <3> QED
      BY <3>1, <3>2, FS_Product
  <2> QED
    BY <2>1
<1>5. IsFiniteSet(All)
  <2>1. Of \in Surjection(D, All)
    BY DEF Surjection
  <2> HIDE DEF Of, All
  <2> QED
    BY <1>3, <2>1, FS_Surjection
<1>6. UNION All = UNION {{i} \X DOMAIN Case[run.plan[i]].attack : i \in DOMAIN run.plan}
  OBVIOUS
<1>7. IsFiniteSet(UNION All)
  <2> HIDE DEF All
  <2> QED
    BY <1>4, <1>5, FS_UNION
<1>8. Entries(run) \in SUBSET UNION All
  BY <1>6 DEF Entries
<1>9. IsFiniteSet(Entries(run))
  <2> HIDE DEF All
  <2> QED
    BY <1>7, <1>8, FS_Subset
<1>10. ASSUME NEW e \in Entries(run)
       PROVE  /\ e[1] \in DOMAIN run.plan /\ e[2] \in DOMAIN Case[run.plan[e[1]]].attack
              /\ e = <<e[1], e[2]>> /\ RefAt(run, e).technique \in Techniques \ Excluded
  <2>1. /\ RefAt(run, e).technique \notin Excluded
        /\ \E i \in DOMAIN run.plan : e \in {i} \X DOMAIN Case[run.plan[i]].attack
    BY <1>10 DEF Entries
  <2>2. /\ e[1] \in DOMAIN run.plan /\ e[2] \in DOMAIN Case[run.plan[e[1]]].attack
        /\ e = <<e[1], e[2]>>
    BY <2>1
  <2>3. Case[run.plan[e[1]]].attack[e[2]] \in AttackRef
    BY <1>1, <1>2, <2>2
  <2> QED
    BY <2>1, <2>2, <2>3 DEF RefAt, AttackRef
<1>11. ASSUME NEW i \in DOMAIN run.plan, NEW j \in DOMAIN Case[run.plan[i]].attack,
              Case[run.plan[i]].attack[j].technique \notin Excluded
       PROVE  <<i, j>> \in Entries(run)
  BY SMTT(20), <1>11 DEF Entries, RefAt
<1> QED
  BY <1>9, <1>10, <1>11

LEMMA CountsExist ==
    ASSUME NEW run, Run(run), NEW entries \in SUBSET Entries(run), NEW outcomes
    PROVE  CountIn(run, entries, outcomes) > 0
              <=> \E e \in entries : outcome(run, run.plan[e[1]]) \in outcomes
<1> DEFINE counted == {e \in entries : outcome(run, run.plan[e[1]]) \in outcomes}
<1>1. IsFiniteSet(counted)
  <2>1. counted \in SUBSET Entries(run)
    OBVIOUS
  <2> HIDE DEF counted
  <2> QED
    BY <2>1, EntriesOfRun, FS_Subset
<1>2. Cardinality(counted) \in Nat /\ (Cardinality(counted) = 0 <=> counted = {})
  <2> HIDE DEF counted
  <2> QED
    BY <1>1, FS_CardinalityType, FS_EmptySet
<1>3. Cardinality(counted) > 0 <=> counted # {}
  BY <1>2
<1> QED
  BY <1>3 DEF CountIn

\* The work queues: no technique with an undetected case escapes both, and only
\* such techniques are in one.
THEOREM GapsAreQueued == ScoreSpec => []GapsReachAQueue
<1>1. ASSUME NEW run, Run(run), run = report.run PROVE GapsReachAQueue
  <2> DEFINE queued == gaps(run, "detection") \cup gaps(run, "visibility")
             open == {t \in Techniques \ Excluded : \E c \in Scoreable(run) :
                         /\ outcome(run, c) # "DETECTED"
                         /\ \E j \in DOMAIN Case[c].attack : Case[c].attack[j].technique = t}
  <2>1. ASSUME NEW t
        PROVE  t \in queued <=> \E e \in Entries(run) :
                   /\ RefAt(run, e).technique = t
                   /\ outcome(run, run.plan[e[1]]) \in {"VISIBLE", "BLIND"}
    <3>1. Bucket(run, t) \in SUBSET Entries(run)
      BY DEF Bucket
    <3>2. \A o : CountIn(run, Bucket(run, t), {o}) > 0
                    <=> \E e \in Bucket(run, t) : outcome(run, run.plan[e[1]]) = o
      BY <1>1, <3>1, CountsExist
    <3>3. /\ t \in gaps(run, "detection") <=> /\ t \in CoveredTechniques(run)
                                              /\ CountIn(run, Bucket(run, t), {"VISIBLE"}) > 0
          /\ t \in gaps(run, "visibility") <=> /\ t \in CoveredTechniques(run)
                                               /\ CountIn(run, Bucket(run, t), {"BLIND"}) > 0
      BY DEF gaps
    <3> QED
      BY <3>2, <3>3 DEF Bucket, CoveredTechniques
  <2>2. ASSUME NEW e \in Entries(run), outcome(run, run.plan[e[1]]) \in {"VISIBLE", "BLIND"}
        PROVE  RefAt(run, e).technique \in open
    <3>1. run.plan[e[1]] \in Scoreable(run)
      BY <1>1, <2>2, EntriesOfRun DEF Scoreable, is_scoreable, Planned, Range, States
    <3> QED
      BY <1>1, <2>2, <3>1, EntriesOfRun DEF RefAt
  <2>3. ASSUME NEW t \in open
        PROVE  \E e \in Entries(run) : /\ RefAt(run, e).technique = t
                                       /\ outcome(run, run.plan[e[1]]) \in {"VISIBLE", "BLIND"}
    <3>1. PICK c \in Scoreable(run) : /\ outcome(run, c) # "DETECTED"
                                      /\ \E j \in DOMAIN Case[c].attack :
                                            Case[c].attack[j].technique = t
      BY <2>3
    <3>2. PICK j \in DOMAIN Case[c].attack : Case[c].attack[j].technique = t
      BY <3>1
    <3>3. PICK i \in DOMAIN run.plan : run.plan[i] = c
      BY <3>1 DEF Scoreable, Planned, Range
    <3>4. outcome(run, c) \in {"VISIBLE", "BLIND"}
      BY <3>1 DEF Scoreable, is_scoreable, States
    <3>5. <<i, j>> \in Entries(run) /\ <<i, j>>[1] = i /\ <<i, j>>[2] = j
      BY <1>1, <2>3, <3>2, <3>3, EntriesOfRun
    <3> QED
      BY <3>2, <3>3, <3>4, <3>5 DEF RefAt
  <2>4. \A t : t \in queued <=> t \in open
    BY <2>1, <2>2, <2>3
  <2>5. queued = open
    <3> HIDE DEF queued, open
    <3> QED
      BY <2>4
  <2> QED
    BY <1>1, <2>5 DEF GapsReachAQueue
<1>2. ScoreInv => GapsReachAQueue
  BY <1>1, ReportIsRun DEF ScoreInv
<1> QED
  BY <1>2, ScoreInvariant, PTL

\* One reference for each result: references count results.
LEMMA CountIsOfResults ==
    ASSUME NEW run, Run(run), NEW outcomes,
           \A c \in Planned(run) :
              Len(Case[c].attack) = 1 /\ Case[c].attack[1].technique \notin Excluded
    PROVE  CountIn(run, Entries(run), outcomes) = ResultsWith(run, outcomes)
<1> DEFINE counted == {e \in Entries(run) : outcome(run, run.plan[e[1]]) \in outcomes}
           listed == {i \in DOMAIN run.plan : outcome(run, run.plan[i]) \in outcomes}
           f == [e \in counted |-> e[1]]
<1>1. \A i \in DOMAIN run.plan : /\ run.plan[i] \in Planned(run) /\ run.plan[i] \in CaseIds
                                 /\ DOMAIN Case[run.plan[i]].attack = {1}
  <2>1. ASSUME NEW i \in DOMAIN run.plan PROVE DOMAIN Case[run.plan[i]].attack = {1}
    <3>1. run.plan[i] \in Planned(run) /\ run.plan[i] \in CaseIds
      BY DEF Run, Planned, Range
    <3>2. Case[run.plan[i]].attack \in Seq(AttackRef) /\ Len(Case[run.plan[i]].attack) = 1
      BY <3>1, ScoreAssumption DEF CaseInfo
    <3> QED
      BY <3>2
  <2> QED
    BY <2>1 DEF Run, Planned, Range
<1>2. \A e \in counted : e = <<e[1], 1>> /\ f[e] = e[1] /\ f[e] \in listed
  BY <1>1, EntriesOfRun
<1>3. \A i \in listed : \E e \in counted : f[e] = i
  <2>1. ASSUME NEW i \in listed PROVE \E e \in counted : f[e] = i
    <3>1. <<i, 1>> \in Entries(run) /\ <<i, 1>>[1] = i
      BY <1>1, EntriesOfRun
    <3>2. <<i, 1>> \in counted
      BY <3>1
    <3> QED
      BY <3>1, <3>2
  <2> QED
    BY <2>1
<1>4. \A d, e \in counted : f[d] = f[e] => d = e
  BY <1>2
<1>5. f \in Bijection(counted, listed)
  <2>1. f \in [counted -> listed]
    BY <1>2
  <2> HIDE DEF f, counted, listed
  <2> QED
    BY <1>3, <1>4, <2>1 DEF Bijection, Injection, Surjection, IsInjective
<1>6. IsFiniteSet(counted)
  <2>1. counted \in SUBSET Entries(run)
    OBVIOUS
  <2> HIDE DEF counted
  <2> QED
    BY <2>1, EntriesOfRun, FS_Subset
<1>7. Cardinality(listed) = Cardinality(counted)
  <2> HIDE DEF f, counted, listed
  <2> QED
    BY <1>5, <1>6, FS_Bijection DEF ExistsBijection
<1> QED
  BY <1>7 DEF CountIn, ResultsWith

\* What is scoreable and not BLIND was visible.
LEMMA VisibleIsNotBlind ==
    ASSUME NEW run, Run(run)
    PROVE  ResultsWith(run, {"DETECTED", "VISIBLE"}) =
              ResultsWith(run, States) - ResultsWith(run, {"BLIND"})
<1> DEFINE scoreable == {i \in DOMAIN run.plan : outcome(run, run.plan[i]) \in States}
           blind == {i \in DOMAIN run.plan : outcome(run, run.plan[i]) \in {"BLIND"}}
           visible == {i \in DOMAIN run.plan :
                          outcome(run, run.plan[i]) \in {"DETECTED", "VISIBLE"}}
<1>1. /\ scoreable \subseteq DOMAIN run.plan /\ scoreable \cap blind = blind
      /\ scoreable \ blind = visible
  BY DEF States
<1>2. Len(run.plan) \in Nat /\ DOMAIN run.plan = 1..Len(run.plan)
  BY DEF Run
<1>3. IsFiniteSet(scoreable)
  <2>1. IsFiniteSet(DOMAIN run.plan)
    BY <1>2, FS_Interval
  <2> HIDE DEF scoreable
  <2> QED
    BY <1>1, <2>1, FS_Subset
<1>4. Cardinality(visible) = Cardinality(scoreable) - Cardinality(blind)
  <2> HIDE DEF scoreable, blind, visible
  <2> QED
    BY <1>1, <1>3, FS_Difference
<1> QED
  BY <1>4 DEF ResultsWith

\* The summary and the coverage report of a run with one technique for each case
\* agree on its rates.
THEOREM ReportsAgreeOnRates == ScoreSpec => []RatesAgree
<1>1. ASSUME NEW run, Run(run),
             \A c \in Planned(run) :
                Len(Case[c].attack) = 1 /\ Case[c].attack[1].technique \notin Excluded
      PROVE  /\ CoverageDetection(run, Entries(run)) = detection_rate(run)
             /\ CoverageVisibility(run, Entries(run)) = visibility_rate(run)
  <2>1. \A outcomes : CountIn(run, Entries(run), outcomes) = ResultsWith(run, outcomes)
    BY <1>1, CountIsOfResults
  <2> QED
    BY <1>1, <2>1, VisibleIsNotBlind
    DEF CoverageDetection, CoverageVisibility, detection_rate, visibility_rate
<1>2. ScoreInv => RatesAgree
  BY <1>1, ReportIsRun DEF ScoreInv, RatesAgree
<1> QED
  BY <1>2, ScoreInvariant, PTL

---------------------------------------------------------------------------
(* The scorecard *)

LEMMA Deducted ==
    ASSUME NEW wrong, NEW points \in Nat
    PROVE  If(wrong, points) \in 0..points
BY DEF If

LEMMA Clamped ==
    ASSUME NEW points \in Int, points <= 100
    PROVE  _clamp(points) \in 0..100
BY DEF _clamp

\* No dimension earns more than 100 points.
LEMMA DimensionsAreBounded ==
    ASSUME NEW rule \in DOMAIN Allowance
    PROVE  /\ _score_robustness(rule) \in Int /\ _score_robustness(rule) <= 100
           /\ _score_telemetry(rule) \in Int /\ _score_telemetry(rule) <= 100
           /\ _score_attack(rule) \in Int /\ _score_attack(rule) <= 100
           /\ _score_documentation(rule) \in Int /\ _score_documentation(rule) <= 100
           /\ _score_hygiene(rule) \in Int /\ _score_hygiene(rule) <= 100
<1>0. /\ RuleText[rule] \in Text /\ IsFiniteSet(RuleText[rule].telemetry)
      /\ RuleText[rule].exact_paths \in Nat
  BY ScorecardAssumption DEF Text
<1>1. _score_robustness(rule) \in Int /\ _score_robustness(rule) <= 100
  BY <1>0 DEF _score_robustness, If, _clamp
<1>2. _score_telemetry(rule) \in Int /\ _score_telemetry(rule) <= 100
  <2> DEFINE sources == RuleText[rule].telemetry
             known == sources \cap DOMAIN Owned
             unknown == sources \ known
             orphaned == {s \in known : ~Owned[s]}
  <2>1. unknown \in SUBSET sources /\ orphaned \in SUBSET sources
    OBVIOUS
  <2>2. Cardinality(unknown) \in Nat /\ Cardinality(orphaned) \in Nat
    <3> HIDE DEF sources, known, unknown, orphaned
    <3>1. IsFiniteSet(unknown) /\ IsFiniteSet(orphaned)
      BY <1>0, <2>1, FS_Subset DEF sources
    <3> QED
      BY <3>1, FS_CardinalityType
  <2>3. PICK u \in Nat, o \in Nat : u = Cardinality(unknown) /\ o = Cardinality(orphaned)
    BY <2>2
  <2>4. _score_telemetry(rule) = IF sources = {} THEN 0 ELSE _clamp(100 - 40 * u - 5 * o)
    BY <2>3 DEF _score_telemetry
  <2> HIDE DEF sources
  <2> QED
    BY <2>4 DEF _clamp
<1>3. _score_attack(rule) \in Int /\ _score_attack(rule) <= 100
  BY DEF _score_attack, If
<1>4. _score_documentation(rule) \in Int /\ _score_documentation(rule) <= 100
  BY DEF _score_documentation, If
<1>5. _score_hygiene(rule) \in Int /\ _score_hygiene(rule) <= 100
  BY DEF _score_hygiene, If
<1> QED
  BY <1>1, <1>2, <1>3, <1>4, <1>5

LEMMA ValidationIsCapped ==
    ASSUME NEW rule, NEW deduction \in 50..100,
           OutcomeDeduction[latest_outcomes(rule)] >= deduction,
           OutcomeDeduction[latest_outcomes(rule)] \in Nat
    PROVE  _score_validation(rule) \in Int /\ _score_validation(rule) <= 100 - deduction
<1>1. PICK points \in Nat : points = OutcomeDeduction[latest_outcomes(rule)]
  OBVIOUS
<1>2. PICK a \in 0..40 : a = If(RuleText[rule].tests \ KnownTests # {}, 40)
  BY DEF If
<1>3. PICK b \in 0..30 : b = If(~RuleText[rule].enabled, 30)
  BY DEF If
<1>4. _score_validation(rule) =
        IF RuleText[rule].tests = {} THEN 0
        ELSE IF RuleText[rule].expect # "DETECTED" /\ 100 - a - b - points > 50 THEN 50
        ELSE _clamp(100 - a - b - points)
  BY <1>1, <1>2, <1>3 DEF _score_validation
<1>5. 100 - a - b - points <= 100 - deduction /\ 100 - a - b - points \in Int
      /\ 100 - deduction <= 50 /\ 0 <= 100 - deduction
  BY <1>1
<1> QED
  BY <1>4, <1>5 DEF _clamp

LEMMA TotalIsCapped ==
    ASSUME NEW rule \in DOMAIN Allowance, NEW most \in Nat,
           _score_validation(rule) \in Int, _score_validation(rule) <= most
    PROVE  weighted(rule) \in Int /\ weighted(rule) <= 28 * most + 7200
<1>1. PICK v, r, t, a, d, h \in Int :
        /\ v = _score_validation(rule) /\ v <= most
        /\ r = _score_robustness(rule) /\ r <= 100 /\ t = _score_telemetry(rule) /\ t <= 100
        /\ a = _score_attack(rule) /\ a <= 100 /\ d = _score_documentation(rule) /\ d <= 100
        /\ h = _score_hygiene(rule) /\ h <= 100
  BY SMTT(20), DimensionsAreBounded
<1>2. weighted(rule) = 28 * v + 20 * r + 16 * t + 14 * a + 12 * d + 10 * h
  BY <1>1 DEF weighted, WEIGHTS
<1> QED
  BY <1>1, <1>2

\* A rule is as good as its worst test, whichever runs its tests were last in.
THEOREM WorstTestCapsTheGrade == ScoreSpec => []WorstTestDecides
<1>1. ASSUME NEW c \in CaseIds, NEW i \in LastRun(c),
             outcome(stored[i], c) = "BLIND" \/ outcome(stored[i], c) = "VISIBLE"
      PROVE  LET rule == Case[c].rule
             IN  /\ outcome(stored[i], c) = "BLIND" =>
                       _score_validation(rule) <= 30 /\ total(rule) <= 804
                 /\ outcome(stored[i], c) = "VISIBLE" =>
                       _score_validation(rule) <= 45 /\ total(rule) <= 846
  <2>1. PICK rule : rule = Case[c].rule
    OBVIOUS
  <2>2. rule \in DOMAIN Allowance
    BY <2>1, ScoreAssumption DEF CaseInfo
  <2>3. outcome(stored[i], c) \in latest_case_outcomes(rule)
    BY <2>1 DEF latest_case_outcomes
  <2>4. OutcomeDeduction["BLIND"] = 70 /\ OutcomeDeduction["VISIBLE"] = 55
    BY DEF OutcomeDeduction
  <2>5. ASSUME outcome(stored[i], c) = "BLIND"
        PROVE  _score_validation(rule) <= 30 /\ total(rule) <= 804
    <3>1. latest_outcomes(rule) = "BLIND"
      BY <2>3, <2>5 DEF latest_outcomes
    <3>2. _score_validation(rule) \in Int /\ _score_validation(rule) <= 30
      BY <2>4, <3>1, ValidationIsCapped
    <3>3. weighted(rule) \in Int /\ weighted(rule) <= 8040
      BY <2>2, <3>2, TotalIsCapped
    <3> QED
      BY <3>2, <3>3 DEF total
  <2>6. ASSUME outcome(stored[i], c) = "VISIBLE"
        PROVE  _score_validation(rule) <= 45 /\ total(rule) <= 846
    <3>1. latest_outcomes(rule) \in {"BLIND", "VISIBLE"}
      BY <2>3, <2>6 DEF latest_outcomes
    <3>2. _score_validation(rule) \in Int /\ _score_validation(rule) <= 45
      BY <2>4, <3>1, ValidationIsCapped
    <3>3. weighted(rule) \in Int /\ weighted(rule) <= 8460
      BY <2>2, <3>2, TotalIsCapped
    <3> QED
      BY <3>2, <3>3 DEF total
  <2> QED
    BY <2>1, <2>5, <2>6
<1>2. WorstTestDecides
  BY <1>1 DEF WorstTestDecides
<1> QED
  BY <1>2, PTL

=============================================================================
