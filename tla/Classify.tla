------------------------------ MODULE Classify ------------------------------
(***************************************************************************)
(* The three-state classifier (harness/analysis/classify.py): what one     *)
(* validation case means, given what emulation and the three queries       *)
(* returned.  Pure: an observation in, a verdict out.                      *)
(*                                                                         *)
(* A query result keeps what the classifier reads: whether the query was   *)
(* run and answered, how many events matched, whether the set was cut off, *)
(* and the earliest time stamp.                                            *)
(***************************************************************************)
EXTENDS Integers

Outcomes == {"DETECTED", "VISIBLE", "BLIND", "ERROR", "SKIPPED"}
States == {"DETECTED", "VISIBLE", "BLIND"}
Statuses == {"PASS", "FAIL", "UNEXPECTED_PASS", "SKIPPED", "ERROR"}
Confidences == {"HIGH", "MEDIUM", "LOW"}

NoLatency == -1

\* kind "none": never run, the None of an Observation; "failed": error is set.
QueryResult == [kind: {"none", "failed", "answer"}, count: Nat,
                truncated: BOOLEAN, first: Int]
NotRun == [kind |-> "none", count |-> 0, truncated |-> FALSE, first |-> 0]
Failed == [NotRun EXCEPT !.kind = "failed"]

CaseVerdict == [outcome: Outcomes, status: Statuses, confidence: Confidences,
             latency: Int, baseline_hits: Nat]

outcome_rank(outcome) ==
    CASE outcome = "BLIND" -> 0 [] outcome = "VISIBLE" -> 1
      [] outcome = "DETECTED" -> 2 [] OTHER -> -1

\* Mutant: a mismatch is reported by its outcome.
StatusRaw(outcome, expected) == IF outcome = expected THEN "PASS" ELSE outcome

\* Better than documented is not a pass: the documentation is now wrong.
Status(outcome, expected) ==
    LET actual == outcome_rank(outcome)
        wanted == outcome_rank(expected)
    IN  IF actual < 0 \/ wanted < 0 THEN "ERROR"
        ELSE IF actual > wanted THEN "UNEXPECTED_PASS"
        ELSE IF actual = wanted THEN "PASS" ELSE "FAIL"

Grade(confidence) ==
    CASE confidence = "HIGH" -> 2 [] confidence = "MEDIUM" -> 1 [] OTHER -> 0

\* _lower: doubt accumulates, it is never taken back.
Lower(current, floor) == IF Grade(current) <= Grade(floor) THEN current ELSE floor

\* The decision itself, once both queries are known to have been answered.
\* A probe that failed counts as no probe.
ThreeState(detection, telemetry) ==
    IF detection.count > 0 THEN "DETECTED"
    ELSE IF telemetry.kind # "answer" \/ telemetry.count > 0 THEN "VISIBLE"
    ELSE "BLIND"

Confidence(detection, telemetry, emulation) ==
    LET unprobed == \/ telemetry.kind = "failed"
                    \/ telemetry.kind = "none" /\ detection.count = 0
        start == IF unprobed THEN "LOW" ELSE "HIGH"
        cut == \/ detection.truncated
               \/ telemetry.kind = "answer" /\ telemetry.truncated
        afterCut == IF cut THEN Lower(start, "MEDIUM") ELSE start
    IN  IF ~emulation.executed /\ emulation.mode = "replay"
        THEN Lower(afterCut, "MEDIUM") ELSE afterCut

\* From the start of the behaviour to the first match; a match that predates
\* the behaviour is no latency.
Latency(detection, emulation) ==
    IF detection.count > 0 /\ detection.first >= emulation.start
    THEN detection.first - emulation.start ELSE NoLatency

Unscored(outcome, status, confidence) ==
    [outcome |-> outcome, status |-> status, confidence |-> confidence,
     latency |-> NoLatency, baseline_hits |-> 0]
Skipped == Unscored("SKIPPED", "SKIPPED", "HIGH")
Errored == Unscored("ERROR", "ERROR", "LOW")

Scored(expected, obs) ==
    LET outcome == ThreeState(obs.detection, obs.telemetry)
    IN  [outcome |-> outcome,
         status |-> Status(outcome, expected),
         confidence |-> Confidence(obs.detection, obs.telemetry, obs.emulation),
         latency |-> Latency(obs.detection, obs.emulation),
         baseline_hits |-> IF obs.baseline.kind = "answer"
                           THEN obs.baseline.count ELSE 0]

\* Mutant: the query results are read before asking whether emulation failed.
classifyErrorsLate(expected, obs) ==
    IF obs.skip \/ obs.emulation.mode \in {"none", "dry-run"} THEN Skipped
    ELSE IF obs.detection.kind # "answer" THEN Errored
    ELSE Scored(expected, obs)

\* The decision order: did the behaviour happen, did the query succeed, and
\* only then which of the three states.
classify(expected, obs) ==
    IF obs.skip \/ obs.emulation.mode \in {"none", "dry-run"} THEN Skipped
    ELSE IF obs.emulation.error \/ obs.detection.kind # "answer" THEN Errored
    ELSE Scored(expected, obs)

=============================================================================
