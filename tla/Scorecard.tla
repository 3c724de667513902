------------------------------ MODULE Scorecard ------------------------------
(***************************************************************************)
(* What `dvp rules score` says of a rule, given its text and the verdicts  *)
(* of the stored runs: six weighted dimensions of 0 to 100 points.         *)
(* scoring.py, model.py and Store.latest_outcomes; the history is Score's. *)
(*                                                                         *)
(* Totals are kept in tenths of a point, to which the code rounds them; a  *)
(* tie, which floating point rounds either way, is rounded up.  The        *)
(* command passes no latencies, no noisy rules and no required dialects,   *)
(* so the deductions for them never apply and are left out.                *)
(***************************************************************************)
EXTENDS Score

CONSTANTS
    RuleText,          \* rule -> what the scorer reads in its file: see Text
    KnownTests,        \* the tests of the catalog
    Owned,             \* telemetry source -> whether somebody owns it
    WithSubtechniques, \* the ATT&CK techniques that have sub-techniques
    BrittleFields      \* _BRITTLE_FIELDS

Text ==
    [tests: SUBSET CaseIds, enabled: BOOLEAN, expect: States,
     field_names: Seq(STRING), filtered: BOOLEAN, exact_paths: Nat,
     telemetry: SUBSET STRING, techniques: SUBSET STRING, tactics: BOOLEAN,
     description: {"none", "short", "full"}, references: BOOLEAN, author: BOOLEAN,
     falsepositives: BOOLEAN, fields: BOOLEAN, date: BOOLEAN, id: BOOLEAN,
     unused: BOOLEAN, unknown_keys: BOOLEAN,
     status: {"experimental", "test", "stable", "production", "deprecated", "unsupported"}]

ASSUME ScorecardAssumption ==
    /\ RuleText \in [DOMAIN Allowance -> Text]
    /\ \A r \in DOMAIN Allowance : IsFiniteSet(RuleText[r].telemetry)

\* The points lost when something is wrong.
If(wrong, points) == IF wrong THEN points ELSE 0
_clamp(points) == IF points < 0 THEN 0 ELSE points

---------------------------------------------------------------------------
(* What the history says of a rule *)

\* The view latest_case_outcomes: each case as the last run that planned it saw it.
LastRun(c) == {i \in DOMAIN stored : /\ c \in Planned(stored[i])
                                     /\ \A j \in DOMAIN stored :
                                           c \in Planned(stored[j]) => j <= i}
latest_case_outcomes(rule) ==
    UNION {{outcome(stored[i], c) : i \in LastRun(c)} :
              c \in {d \in CaseIds : Case[d].rule = rule}}

\* Mutant: one test that fired speaks for the rule.
latest_outcomes_best(rule) ==
    LET recent == latest_case_outcomes(rule)
    IN  IF "DETECTED" \in recent THEN "DETECTED"
        ELSE IF "VISIBLE" \in recent THEN "VISIBLE"
        ELSE IF "BLIND" \in recent THEN "BLIND" ELSE "none"

\* The worst of them; a case that errored or was skipped last has no say.
latest_outcomes(rule) ==
    LET recent == latest_case_outcomes(rule)
    IN  IF "BLIND" \in recent THEN "BLIND"
        ELSE IF "VISIBLE" \in recent THEN "VISIBLE"
        ELSE IF "DETECTED" \in recent THEN "DETECTED" ELSE "none"

---------------------------------------------------------------------------
(* The dimensions *)

OutcomeDeduction == [none |-> 25, DETECTED |-> 0, VISIBLE |-> 55, BLIND |-> 70]

_score_validation(rule) ==
    LET text == RuleText[rule]
        score == 100 - If(text.tests \ KnownTests # {}, 40) - If(~text.enabled, 30)
                     - OutcomeDeduction[latest_outcomes(rule)]
    IN  IF text.tests = {} THEN 0
        ELSE IF text.expect # "DETECTED" /\ score > 50 THEN 50 ELSE _clamp(score)

_score_robustness(rule) ==
    LET text == RuleText[rule]
        names == Range(text.field_names)
        single == Len(text.field_names) = 1
    IN  IF names = {} THEN 0
        ELSE _clamp(100 - If(single, 35) - If(single /\ names \subseteq BrittleFields, 15)
                    - If(~single /\ Cardinality(names) = 2, 10)
                    - If(names \subseteq BrittleFields, 20) - If(~text.filtered, 10)
                    - (IF text.exact_paths > 3 THEN 15 ELSE 5 * text.exact_paths)
                    - If(text.status = "production" /\ ~text.falsepositives, 5))

_score_telemetry(rule) ==
    LET sources == RuleText[rule].telemetry
        known == sources \cap DOMAIN Owned
    IN  IF sources = {} THEN 0
        ELSE _clamp(100 - 40 * Cardinality(sources \ known)
                        - 5 * Cardinality({s \in known : ~Owned[s]}))

_score_attack(rule) ==
    LET text == RuleText[rule]
    IN  IF text.techniques = {} THEN 0
        ELSE 100 - If(~text.tactics, 20) - If(~(text.techniques \subseteq Techniques), 25)
                 - If(text.techniques \cap WithSubtechniques # {}, 15)

_score_documentation(rule) ==
    LET text == RuleText[rule]
    IN  100 - If(text.description = "none", 35) - If(text.description = "short", 15)
            - If(~text.references, 20) - If(~text.author, 15) - If(~text.falsepositives, 15)
            - If(~text.fields, 10) - If(~text.date, 5)

_score_hygiene(rule) ==
    LET text == RuleText[rule]
    IN  100 - If(~text.id, 25) - If(text.unused, 25) - If(text.unknown_keys, 10)
            - If(text.status = "experimental", 10)
            - If(text.status \in {"deprecated", "unsupported"}, 30)

WEIGHTS == [validation |-> 28, robustness |-> 20, telemetry |-> 16, attack |-> 14,
            documentation |-> 12, hygiene |-> 10]

\* RuleScore.total, in tenths.
weighted(rule) ==
    WEIGHTS.validation * _score_validation(rule) + WEIGHTS.robustness * _score_robustness(rule)
    + WEIGHTS.telemetry * _score_telemetry(rule) + WEIGHTS.attack * _score_attack(rule)
    + WEIGHTS.documentation * _score_documentation(rule)
    + WEIGHTS.hygiene * _score_hygiene(rule)
total(rule) == (weighted(rule) + 5) \div 10

Grade_of(points) ==
    IF points >= 900 THEN "A" ELSE IF points >= 800 THEN "B"
    ELSE IF points >= 700 THEN "C" ELSE IF points >= 600 THEN "D" ELSE "F"

\* The exit code of `dvp rules score --min`.
below(rules, minimum) == {r \in rules : total(r) < minimum * 10}
rules_score(rules, minimum) == IF below(rules, minimum) = {} THEN 0 ELSE 1

---------------------------------------------------------------------------
(* Correctness *)

\* A rule is as good as its worst test, whichever runs its tests were in: while
\* the last verdict on one of them is a gap, no other test, no later run of
\* another test and no polish earn the rule the grade of a proven one.
WorstTestDecides ==
    \A c \in CaseIds : \A i \in LastRun(c) :
        LET rule == Case[c].rule
        IN  /\ outcome(stored[i], c) = "BLIND" =>
                  _score_validation(rule) <= 30 /\ total(rule) <= 804
            /\ outcome(stored[i], c) = "VISIBLE" =>
                  _score_validation(rule) <= 45 /\ total(rule) <= 846

=============================================================================
