-------------------------------- MODULE Score --------------------------------
(***************************************************************************)
(* Stage 7, run after run: what a validation programme concludes from the  *)
(* verdicts of its runs.  Each run is summarised, folded into ATT&CK       *)
(* coverage, compared with the previous stored run of its profile and held *)
(* to the gates that decide the exit code; then it is stored, or not.      *)
(* models.py (summarise), coverage.py, diff.py, baseline.py, gates.py.     *)
(*                                                                         *)
(* Rates are kept as fractions <<n, d>> and targets in percent, so nothing *)
(* is rounded.  Runs follow one another; Store has them overlap.           *)
(***************************************************************************)
EXTENDS Classify, Sequences, FiniteSets, Functions

CONSTANTS
    Case,         \* case (rule/test) -> what its rule declares: see CaseInfo
    Plans,        \* the sequences of cases a profile may select
    Observed,     \* the verdicts considered: see Observation
    Policies,     \* gate settings considered: see GateSettings
    TacticsOf,    \* AttackReference: technique -> its tactics
    Targets,      \* tactic -> [detected, visible: percent, critical: BOOLEAN]
    Excluded,     \* techniques out of scope of the coverage report
    Allowance,    \* rule -> accepted baseline hits
    NoTactic,     \* the missing tactic of an ATT&CK reference
    SlowFloor,    \* _SLOWDOWN_FLOOR_SECONDS
    MaxStored     \* bound: runs kept before the model stops

CaseIds == DOMAIN Case
Techniques == DOMAIN TacticsOf
Tactics == DOMAIN Targets
Severities == 1..4

AttackRef == [technique: Techniques, tactic: Tactics \cup {NoTactic}]
CaseInfo == [rule: DOMAIN Allowance, attack: Seq(AttackRef), severity: Severities,
             expected: States, max_latency: Nat]
Verdicts == [outcome: Outcomes, latency: Nat \cup {NoLatency}, baseline_hits: Nat]
GateSettings ==
    [min_detection_rate: 0..100, min_visibility_rate: 0..100,
     fail_on_regression: BOOLEAN, fail_on_noise: BOOLEAN,
     min_severity: Severities, fail_on_error: BOOLEAN,
     fail_on_latency_breach: BOOLEAN, fail_on_coverage_target: BOOLEAN]

ASSUME ScoreAssumption ==
    /\ Case \in [CaseIds -> CaseInfo]
    /\ Observed \subseteq Verdicts
    /\ Policies \subseteq GateSettings
    /\ \A plan \in Plans : plan \in Seq(CaseIds)
    /\ \A t \in Techniques : TacticsOf[t] \subseteq Tactics
    /\ MaxStored \in Nat

VARIABLES
    policy,   \* the gates of the profile
    stored,   \* the runs in the database, oldest first
    report    \* the run just finished with its scores, or NoReport

scoreVars == <<policy, stored, report>>

\* A run: the plan and the verdict of each of its cases.
Planned(run) == Range(run.plan)
outcome(run, c) == run.results[c].outcome
status(run, c) ==
    CASE outcome(run, c) = "SKIPPED" -> "SKIPPED"
      [] outcome(run, c) = "ERROR" -> "ERROR"
      [] OTHER -> Status(outcome(run, c), Case[c].expected)

With(run, o) == {c \in Planned(run) : outcome(run, c) = o}

---------------------------------------------------------------------------
(* The summary *)

is_scoreable(run, c) == outcome(run, c) \in States
Scoreable(run) == {c \in Planned(run) : is_scoreable(run, c)}

\* Results are a list: a case that is planned twice counts twice.
ResultsWith(run, outcomes) ==
    Cardinality({i \in DOMAIN run.plan : outcome(run, run.plan[i]) \in outcomes})

detection_rate(run) == <<ResultsWith(run, {"DETECTED"}), ResultsWith(run, States)>>
visibility_rate(run) ==
    <<ResultsWith(run, States) - ResultsWith(run, {"BLIND"}), ResultsWith(run, States)>>

\* A rate over nothing is zero.
Below(rate, target) ==
    IF rate[2] = 0 THEN target > 0 ELSE rate[1] * 100 < target * rate[2]

---------------------------------------------------------------------------
(* Coverage *)

\* One entry for each ATT&CK reference of each case, in the order of the run.
RefAt(run, e) == Case[run.plan[e[1]]].attack[e[2]]
Entries(run) ==
    {e \in UNION {{i} \X DOMAIN Case[run.plan[i]].attack : i \in DOMAIN run.plan} :
        RefAt(run, e).technique \notin Excluded}

Bucket(run, technique) == {e \in Entries(run) : RefAt(run, e).technique = technique}
CoveredTechniques(run) == {RefAt(run, e).technique : e \in Entries(run)}
CountIn(run, entries, outcomes) ==
    Cardinality({e \in entries : outcome(run, run.plan[e[1]]) \in outcomes})

\* A technique belongs to the tactics its first case names for it.
BucketTactics(run, technique) ==
    LET entries == Bucket(run, technique)
        first == CHOOSE e \in entries : \A f \in entries :
                     e[1] < f[1] \/ (e[1] = f[1] /\ e[2] <= f[2])
    IN  IF RefAt(run, first).tactic # NoTactic THEN {RefAt(run, first).tactic}
        ELSE TacticsOf[technique]

TacticEntries(run, tactic) ==
    UNION {Bucket(run, t) : t \in {u \in CoveredTechniques(run) :
                                      tactic \in BucketTactics(run, u)}}

\* Mutant: cases that errored are part of the denominator.
CoverageDetectionAll(run, entries) ==
    <<CountIn(run, entries, {"DETECTED"}), CountIn(run, entries, States \cup {"ERROR"})>>

CoverageDetection(run, entries) ==
    <<CountIn(run, entries, {"DETECTED"}), CountIn(run, entries, States)>>

CoverageVisibility(run, entries) ==
    <<CountIn(run, entries, {"DETECTED", "VISIBLE"}), CountIn(run, entries, States)>>

failing_tactics(run) ==
    {x \in Tactics :
        LET entries == TacticEntries(run, x)
        IN  /\ CountIn(run, entries, States) > 0
            /\ \/ Below(CoverageDetection(run, entries), Targets[x].detected)
               \/ Below(CoverageVisibility(run, entries), Targets[x].visible)}

\* Mutant: a technique's one-word status decides which queue it is in.
gapsByStatus(run, kind) ==
    LET all(t, o) == CountIn(run, Bucket(run, t), {o}) =
                     CountIn(run, Bucket(run, t), States)
    IN  {t \in CoveredTechniques(run) :
            /\ CountIn(run, Bucket(run, t), States) > 0
            /\ all(t, IF kind = "detection" THEN "VISIBLE" ELSE "BLIND")}

\* The work queues go by the cases, however well a technique does otherwise.
gaps(run, kind) ==
    {t \in CoveredTechniques(run) :
        CountIn(run, Bucket(run, t),
                {IF kind = "detection" THEN "VISIBLE" ELSE "BLIND"}) > 0}

---------------------------------------------------------------------------
(* Comparison with the previous run *)

Kinds == {"UNCHANGED", "IMPROVEMENT", "REGRESSION", "SLOWER", "NEW", "REMOVED", "none"}

TooSlow(before, after) ==
    /\ before > 0 /\ after > 0
    /\ after > 2 * before /\ after > SlowFloor

\* Mutant: only the loss of a detection is a regression.
CompareDetections(before, after) ==
    LET was == outcome_rank(before.outcome)
        is == outcome_rank(after.outcome)
    IN  IF was < 0 \/ is < 0 THEN "UNCHANGED"
        ELSE IF is < was /\ before.outcome = "DETECTED" THEN "REGRESSION"
        ELSE IF is > was THEN "IMPROVEMENT"
        ELSE IF before.outcome = "DETECTED" /\ TooSlow(before.latency, after.latency)
             THEN "SLOWER" ELSE "UNCHANGED"

\* Operational states are no evidence in either direction.
Compare(before, after) ==
    LET was == outcome_rank(before.outcome)
        is == outcome_rank(after.outcome)
    IN  IF was < 0 \/ is < 0 THEN "UNCHANGED"
        ELSE IF is < was THEN "REGRESSION"
        ELSE IF is > was THEN "IMPROVEMENT"
        ELSE IF before.outcome = "DETECTED" /\ TooSlow(before.latency, after.latency)
             THEN "SLOWER" ELSE "UNCHANGED"

diff_runs(run, previous) ==
    [c \in CaseIds |->
        IF c \in Planned(run) /\ c \in Planned(previous)
        THEN Compare(previous.results[c], run.results[c])
        ELSE IF c \in Planned(run) THEN "NEW"
        ELSE IF c \in Planned(previous) THEN "REMOVED" ELSE "none"]

\* A first run only lists its gaps.
FirstDiff(run) ==
    [c \in CaseIds |-> IF c \in With(run, "VISIBLE") \cup With(run, "BLIND")
                       THEN "NEW" ELSE IF c \in Planned(run) THEN "UNCHANGED" ELSE "none"]

Diff(run) == IF stored = <<>> THEN FirstDiff(run)
             ELSE diff_runs(run, stored[Len(stored)])

\* Only the first noisy case of a rule speaks for it.
assess_noise(run) ==
    {i \in DOMAIN run.plan :
        /\ run.results[run.plan[i]].baseline_hits > Allowance[Case[run.plan[i]].rule]
        /\ \A j \in 1..(i - 1) :
              Case[run.plan[j]].rule = Case[run.plan[i]].rule =>
                  run.results[run.plan[j]].baseline_hits = 0}

---------------------------------------------------------------------------
(* The gates *)

GateNames == {"no-errors", "expectations-met", "no-regressions", "detection-rate",
              "visibility-rate", "noise-budget", "latency-budget", "coverage-targets"}

is_accepted(run, c) == status(run, c) = "PASS" /\ outcome(run, c) # "DETECTED"
Unaccepted(run, o) == {c \in With(run, o) : ~is_accepted(run, c)}

TacticsNamed(cases) ==
    UNION {{Case[c].attack[j].tactic : j \in DOMAIN Case[c].attack} : c \in cases} \ {NoTactic}

\* Mutant: a documented gap drifts like any other.
DriftingAll(run) == TacticsNamed(With(run, "VISIBLE") \cup With(run, "BLIND"))

\* Tactics named by a gap that nobody has documented.
Drifting(run) == TacticsNamed(Unaccepted(run, "VISIBLE") \cup Unaccepted(run, "BLIND"))

Severe(c) == Case[c].severity >= policy.min_severity
breached_latency(run, c) ==
    run.results[c].latency # NoLatency /\ run.results[c].latency > Case[c].max_latency

NoErrors(run) == \A c \in Planned(run) : status(run, c) # "ERROR"
ExpectationsMet(run) == \A c \in Planned(run) : status(run, c) = "FAIL" => ~Severe(c)
NoRegressions(diff) == \A c \in CaseIds : diff[c] = "REGRESSION" => ~Severe(c)
NoiseInBudget(run) == \A i \in assess_noise(run) : ~Severe(run.plan[i])
LatencyInBudget(run) == \A c \in Planned(run) : breached_latency(run, c) => ~Severe(c)

\* A shortfall fails only when some of its cases are undocumented.
RateMet(rate, target, unaccepted) == ~Below(rate, target) \/ unaccepted = {}
DetectionRateMet(run) ==
    RateMet(detection_rate(run), policy.min_detection_rate, Unaccepted(run, "VISIBLE"))
VisibilityRateMet(run) ==
    RateMet(visibility_rate(run), policy.min_visibility_rate, Unaccepted(run, "BLIND"))
TargetsMet(run) ==
    \A x \in failing_tactics(run) : Targets[x].critical => x \notin Drifting(run)

\* The diff of a run that was not compared.
NoDiff == [c \in CaseIds |-> "none"]

\* The gates that applied, with their results.
Gate(name, applicable, passed) == IF applicable THEN {<<name, passed>>} ELSE {}
evaluate_gates(run, diff) ==
    Gate("no-errors", policy.fail_on_error, NoErrors(run))
    \cup Gate("expectations-met", TRUE, ExpectationsMet(run))
    \cup Gate("no-regressions", policy.fail_on_regression /\ diff # NoDiff,
              NoRegressions(diff))
    \cup Gate("detection-rate", policy.min_detection_rate > 0, DetectionRateMet(run))
    \cup Gate("visibility-rate", policy.min_visibility_rate > 0, VisibilityRateMet(run))
    \cup Gate("noise-budget", policy.fail_on_noise, NoiseInBudget(run))
    \cup Gate("latency-budget", policy.fail_on_latency_breach, LatencyInBudget(run))
    \cup Gate("coverage-targets", policy.fail_on_coverage_target /\ Entries(run) # {},
              TargetsMet(run))

FailedGates(gates) == {g \in gates : ~g[2]}

\* Mutant: the exit code counts the failed gates.
ExitCodeCount(gates) == Cardinality(FailedGates(gates))

ExitCode(gates) == IF FailedGates(gates) = {} THEN 0 ELSE 1

---------------------------------------------------------------------------
(* The programme *)

NoVerdict == [outcome |-> "SKIPPED", latency |-> NoLatency, baseline_hits |-> 0]
Results(plan) ==
    {[c \in CaseIds |-> IF c \in Range(plan) THEN v[c] ELSE NoVerdict] :
        v \in [Range(plan) -> Observed]}
Runs == UNION {{[plan |-> plan, results |-> r] : r \in Results(plan)} : plan \in Plans \ {<<>>}}

NoRun == [plan |-> <<>>, results |-> [c \in CaseIds |-> NoVerdict]]
NoReport == [run |-> NoRun, diff |-> NoDiff, gates |-> {}, exit_code |-> 0]

ScoreInit ==
    /\ policy \in Policies
    /\ stored = <<>> /\ report = NoReport

\* A profile that selects no cases is an error, and its empty run a run.
NothingSelected ==
    /\ report = NoReport /\ <<>> \in Plans
    /\ Len(stored) < MaxStored
    /\ report' = [NoReport EXCEPT !.exit_code = 1]
    /\ UNCHANGED <<policy, stored>>

\* One run is scored.  It is compared unless --no-compare was given or there is
\* no database yet.
Score(run, compare) ==
    /\ report = NoReport
    /\ Len(stored) < MaxStored
    /\ LET diff == IF compare THEN Diff(run) ELSE NoDiff
           gates == evaluate_gates(run, diff)
       IN  report' = [run |-> run, diff |-> diff, gates |-> gates,
                      exit_code |-> ExitCode(gates)]
    /\ UNCHANGED <<policy, stored>>

\* The run is stored, the empty one too, and its process exits.
StoreResult ==
    /\ report # NoReport
    /\ stored' = Append(stored, [plan |-> report.run.plan, results |-> report.run.results,
                                 diff |-> report.diff])
    /\ report' = NoReport
    /\ UNCHANGED policy

\* It is not: --no-store was given, storing failed or the process died.
Forget ==
    /\ report # NoReport
    /\ report' = NoReport
    /\ UNCHANGED <<policy, stored>>

ScoreNext ==
    \/ NothingSelected
    \/ \E run \in Runs, compare \in BOOLEAN : Score(run, compare)
    \/ StoreResult \/ Forget

ScoreSpec == ScoreInit /\ [][ScoreNext]_scoreVars

---------------------------------------------------------------------------
(* Correctness *)

\* Types of the programme's state.
ScoreTypeOK ==
    /\ policy \in Policies
    /\ stored \in Seq([plan: Plans, results: [CaseIds -> Verdicts], diff: [CaseIds -> Kinds]])
    /\ report.run.plan \in Plans \cup {<<>>}
    /\ report.run.results \in [CaseIds -> Verdicts]
    /\ report.diff \in [CaseIds -> Kinds]
    /\ report.gates \subseteq GateNames \X BOOLEAN
    /\ report.exit_code \in {0, 1}

\* However many runs lie between them: if a case gave a verdict in every run
\* from the i-th to the j-th, each compared with its predecessor, and ended
\* lower than it began, one of the runs after the i-th reported a regression.
NoDropGoesUnreported ==
    \A i, j \in DOMAIN stored, c \in CaseIds :
        /\ i < j
        /\ \A k \in i..j : c \in Scoreable(stored[k])
        /\ \A k \in (i + 1)..j : stored[k].diff # NoDiff
        /\ outcome_rank(outcome(stored[j], c)) < outcome_rank(outcome(stored[i], c))
        => \E k \in (i + 1)..j : stored[k].diff[c] = "REGRESSION"

\* No technique with an undetected case escapes both work queues, however its
\* other cases do, and only such techniques are in one.
GapsReachAQueue ==
    LET run == report.run
    IN  gaps(run, "detection") \cup gaps(run, "visibility") =
            {t \in Techniques \ Excluded : \E c \in Scoreable(run) :
                /\ outcome(run, c) # "DETECTED"
                /\ \E j \in DOMAIN Case[c].attack : Case[c].attack[j].technique = t}

\* The summary and the coverage report agree on the rates of a run whose cases
\* name one technique each, none of them out of scope.
RatesAgree ==
    LET run == report.run
    IN  (\A c \in Planned(run) :
            Len(Case[c].attack) = 1 /\ Case[c].attack[1].technique \notin Excluded)
        =>
        /\ CoverageDetection(run, Entries(run)) = detection_rate(run)
        /\ CoverageVisibility(run, Entries(run)) = visibility_rate(run)

\* Documented gaps never fail a build: a run in which every verdict is the
\* documented one passes every rate and coverage gate, however low its rates.
DocumentedGapsPass ==
    (\A c \in Scoreable(report.run) : status(report.run, c) = "PASS") =>
        \A name \in {"expectations-met", "detection-rate", "visibility-rate",
                     "coverage-targets"} : <<name, FALSE>> \notin report.gates

=============================================================================
