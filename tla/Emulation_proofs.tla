-------------------------- MODULE Emulation_proofs --------------------------
(***************************************************************************)
(* Proofs about the emulation phase, for every plan, catalog, policy and   *)
(* target.  The three safety properties need one inductive invariant:      *)
(*                                                                         *)
(*  - a test that was launched or has a result is mentioned in the plan at *)
(*    or before the runner's position, so a fresh position names a test    *)
(*    nothing has happened to yet;                                         *)
(*  - failures counts exactly the results with an error;                   *)
(*  - while a command is being handled, the verdict that let it start and  *)
(*    the room in the budget it was started under still stand.             *)
(*                                                                         *)
(* On top of it, the order in which commands, cleanups, pauses and answers *)
(* follow each other:                                                      *)
(*                                                                         *)
(*  - a behaviour whose cleanup is still to come is that of the test being *)
(*    cleaned up (Tidy);                                                   *)
(*  - exactly the tests behind the runner have an answer (Answered);       *)
(*  - once another test remains to be run, every executed window lies a    *)
(*    pause back, and stays a pause before the command under way (Apart).  *)
(***************************************************************************)
EXTENDS Emulation, FiniteSetTheorems, TLAPS

WithErrors == {t \in Tests : results[t].error}

\* Where the runner is with the test it is handling.
Handling ==
    stage \in {"main", "cleanup", "pace"} =>
        pos <= Len(cfg.plan) /\ Fresh(pos)

\* A launched test was mentioned at or before the runner's position.
LaunchedBehind ==
    \A t \in Tests : launches[t] > 0 =>
        \E j \in 1..Len(cfg.plan) :
            cfg.plan[j] = t /\ (j < pos \/ (j = pos /\ stage # "pick"))

\* So was a test that has a result.
AnsweredBehind ==
    \A t \in Tests : results[t].mode # "none" =>
        \E j \in 1..Len(cfg.plan) :
            cfg.plan[j] = t /\ (j < pos \/ (j = pos /\ stage \in {"pace", "killed"}))

ErrorsHaveMode == \A t \in Tests : results[t].error => results[t].mode # "none"

BudgetCounted ==
    /\ failures = Cardinality(WithErrors)
    /\ Mode = "local" => failures <= cfg.policy.max_failures
    /\ stage \in {"main", "cleanup"} =>
          /\ ExecutorMode = "local"
          /\ failures < cfg.policy.max_failures

EmuInv ==
    /\ EmuTypeOK
    /\ Handling
    /\ LaunchedBehind
    /\ AnsweredBehind
    /\ ErrorsHaveMode
    /\ BudgetCounted
    /\ CommandsArePermitted
    /\ RunsAtMostOnce

---------------------------------------------------------------------------
(* Operators *)

\* The decision is "allowed" exactly when no check failed, and otherwise it is
\* the name of a check.
LEMMA VerdictMeaning ==
    ASSUME NEW checks, \A i \in 1..10 : checks[i][1] \in CheckNames
    PROVE  /\ Verdict(checks) \in CheckNames \cup {"allowed"}
           /\ Verdict(checks) = "allowed" => \A i \in 1..10 : checks[i][2]
<1> DEFINE failed == {i \in 1..10 : ~checks[i][2]}
<1>1. CASE failed = {}
  BY <1>1 DEF Verdict
<1>2. CASE failed # {}
  <2>1. PICK m \in failed : \A j \in failed : m <= j
    BY <1>2
  <2> DEFINE first == CHOOSE i \in failed : \A j \in failed : i <= j
  <2>2. first \in failed
    BY <2>1
  <2>3. Verdict(checks) = checks[first][1]
    BY <1>2 DEF Verdict
  <2>4. Verdict(checks) \in CheckNames
    BY <2>2, <2>3
  <2> QED
    BY <2>4 DEF CheckNames
<1> QED
  BY <1>1, <1>2

\* The fields of an invocation have the types the assumption gives them.
LEMMA SetupFields ==
    ASSUME EmuTypeOK
    PROVE  /\ cfg \in Setup
           /\ cfg.plan \in Seq(Tests)
           /\ cfg.catalog \in [Tests -> EmulationTest]
           /\ cfg.policy \in SafetySettings
           /\ cfg.policy.max_failures \in Nat
           /\ cfg.target \in Target
           /\ cfg.inter_test_delay \in Nat
  BY EmulationAssumption DEF EmuTypeOK, Setup, SafetySettings

\* A verdict of "allowed" covers the whole of the recorded authorisation and
\* leaves room in the failure budget.
LEMMA AllowedMeansPermitted ==
    ASSUME EmuTypeOK, NEW t \in Tests
    PROVE  /\ evaluate(t) \in CheckNames \cup {"allowed"}
           /\ evaluate(t) = "allowed" =>
                 Permitted(t) /\ failures < cfg.policy.max_failures
<1> DEFINE checks == Checks(cfg.catalog[t], cfg.policy, cfg.target, failures)
<1>1. \A i \in 1..10 : checks[i][1] \in CheckNames
  BY DEF Checks, CheckNames
<1>2. evaluate(t) = Verdict(checks)
  BY DEF evaluate
<1> HIDE DEF checks
<1>3. evaluate(t) = "allowed" => \A i \in 1..10 : checks[i][2]
  BY <1>1, <1>2, VerdictMeaning
<1>4. evaluate(t) \in CheckNames \cup {"allowed"}
  BY <1>1, <1>2, VerdictMeaning
<1>5. ASSUME evaluate(t) = "allowed"
      PROVE  Permitted(t) /\ failures < cfg.policy.max_failures
  <2>1. /\ checks[1][2] /\ checks[2][2] /\ checks[3][2] /\ checks[4][2]
        /\ checks[5][2] /\ checks[6][2] /\ checks[7][2] /\ checks[8][2]
        /\ checks[9][2] /\ checks[10][2]
    BY <1>3, <1>5
  <2>2. /\ execution_enabled(cfg.policy)
        /\ HostAllowed(cfg.target.host, cfg.policy.host_allowlist)
        /\ cfg.policy.require_lab_tag => cfg.target.looks_like_lab
        /\ ~TechniqueMatches(cfg.catalog[t].technique,
                             cfg.policy.technique_denylist)
        /\ \/ cfg.policy.technique_allowlist = {}
           \/ TechniqueMatches(cfg.catalog[t].technique,
                               cfg.policy.technique_allowlist)
        /\ cfg.catalog[t].destructive => cfg.policy.allow_destructive
        /\ cfg.policy.require_cleanup => cfg.catalog[t].hasCleanup
        /\ cfg.catalog[t].executor # "manual"
        /\ SupportedOn(cfg.catalog[t], cfg.target.platform)
        /\ failures < cfg.policy.max_failures
    BY <2>1 DEF checks, Checks
  <2> QED
    BY <2>2 DEF Permitted, execution_enabled, HostAllowed, TechniqueMatches, SupportedOn
<1> QED
  BY <1>4, <1>5

---------------------------------------------------------------------------
(* The inductive invariant *)

LEMMA InitEstablishes == EmuInit => EmuInv
<1> SUFFICES ASSUME EmuInit PROVE EmuInv
  OBVIOUS
<1>1. EmuTypeOK
  BY DEF EmuInit, EmuTypeOK, NoResult, NoCommand, EmulationResult, ExitCodes,
         Stages
<1>2. Handling /\ LaunchedBehind /\ AnsweredBehind /\ ErrorsHaveMode
  BY DEF EmuInit, Handling, LaunchedBehind, AnsweredBehind, ErrorsHaveMode,
         NoResult
<1>3. BudgetCounted
  <2>1. WithErrors = {}
    BY DEF EmuInit, WithErrors, NoResult
  <2>2. Cardinality(WithErrors) = 0
    BY <2>1, FS_EmptySet
  <2> QED
    BY <1>1, <2>2, SetupFields DEF EmuInit, BudgetCounted
<1>4. CommandsArePermitted /\ RunsAtMostOnce
  BY DEF EmuInit, CommandsArePermitted, RunsAtMostOnce
<1> QED
  BY <1>1, <1>2, <1>3, <1>4 DEF EmuInv

\* At a fresh position, and while its command is handled, the test named there
\* has no result yet; and at a fresh position it was never launched.
LEMMA FreshIsUntouched ==
    ASSUME EmuInv, pos <= Len(cfg.plan), Fresh(pos)
    PROVE  /\ current \in Tests
           /\ stage \in {"pick", "main", "cleanup"} =>
                 results[current].mode = "none" /\ ~results[current].error
           /\ stage = "pick" => launches[current] = 0
<1>1. pos \in 1..Len(cfg.plan) /\ cfg.plan \in Seq(Tests)
  BY SetupFields DEF EmuInv, EmuTypeOK
<1>2. current \in Tests
  BY <1>1 DEF current
<1>3. \A j \in 1..Len(cfg.plan) : j < pos => cfg.plan[j] # current
  BY <1>1 DEF Fresh, current
<1>4. stage \in {"pick", "main", "cleanup"} => results[current].mode = "none"
  BY <1>1, <1>2, <1>3 DEF EmuInv, AnsweredBehind
<1>5. stage = "pick" => ~(launches[current] > 0)
  BY <1>1, <1>2, <1>3 DEF EmuInv, LaunchedBehind
<1>6. launches[current] \in Nat /\ results[current].error \in BOOLEAN
  BY <1>2 DEF EmuInv, EmuTypeOK, EmulationResult
<1> QED
  BY <1>2, <1>4, <1>5, <1>6 DEF EmuInv, ErrorsHaveMode

\* Moving on to the next position keeps every mention behind the runner.
LEMMA MovingOn ==
    ASSUME EmuInv, stage \in {"pick", "pace"}, stage' = "pick", pos' = pos + 1,
           UNCHANGED <<cfg, launches, results>>
    PROVE  Handling' /\ LaunchedBehind' /\ AnsweredBehind'
<1>1. pos \in Nat /\ LaunchedBehind /\ AnsweredBehind
  BY DEF EmuInv, EmuTypeOK
<1>2. Handling'
  BY DEF Handling
<1>3. LaunchedBehind'
  BY <1>1 DEF LaunchedBehind
<1>4. AnsweredBehind'
  BY <1>1 DEF AnsweredBehind
<1> QED
  BY <1>2, <1>3, <1>4

\* Concluding a test writes values of the right types.
LEMMA ConcludeTypes ==
    ASSUME EmuTypeOK, current \in Tests, NEW result \in EmulationResult,
           Conclude(result)
    PROVE  /\ results' \in [Tests -> EmulationResult]
           /\ failures' \in Nat
           /\ stage' \in Stages
<1>1. results \in [Tests -> EmulationResult] /\ failures \in Nat
  BY DEF EmuTypeOK
<1>2. results' = [results EXCEPT ![current] = result]
      /\ failures' = failures + (IF result.error THEN 1 ELSE 0)
      /\ stage' = "pace"
  BY DEF Conclude
<1> HIDE DEF EmulationResult
<1>3. results' \in [Tests -> EmulationResult]
  BY <1>1, <1>2
<1> QED
  BY <1>1, <1>2, <1>3 DEF Stages

\* Concluding a test keeps the count of errors exact.
LEMMA ConcludeCounts ==
    ASSUME EmuInv, EmuTypeOK', pos <= Len(cfg.plan), Fresh(pos),
           stage \in {"pick", "main", "cleanup"},
           NEW result \in EmulationResult, Conclude(result), cfg' = cfg
    PROVE  failures' = Cardinality(WithErrors')
<1>1. current \in Tests /\ ~results[current].error
  BY FreshIsUntouched
<1>2. IsFiniteSet(WithErrors)
  BY EmulationAssumption, FS_Subset DEF WithErrors
<1>3. current \notin WithErrors
  BY <1>1 DEF WithErrors
<1>4. failures = Cardinality(WithErrors) /\ failures \in Nat
  BY DEF EmuInv, BudgetCounted, EmuTypeOK
<1>5. results' = [results EXCEPT ![current] = result]
      /\ results \in [Tests -> EmulationResult]
  BY DEF Conclude, EmuInv, EmuTypeOK
<1>6. CASE result.error
  <2>1. WithErrors' = WithErrors \cup {current}
    BY <1>1, <1>5, <1>6 DEF WithErrors
  <2>2. Cardinality(WithErrors') = Cardinality(WithErrors) + 1
    BY <1>2, <1>3, <2>1, FS_AddElement
  <2> QED
    BY <1>4, <1>6, <2>2 DEF Conclude
<1>7. CASE ~result.error
  <2>1. WithErrors' = WithErrors
    BY <1>1, <1>5, <1>7 DEF WithErrors
  <2> QED
    BY <1>4, <1>7, <2>1 DEF Conclude
<1> QED
  BY <1>6, <1>7

\* The local executor's result ends the handling of its test.
LEMMA ConcludeLocal ==
    ASSUME EmuInv, EmuTypeOK', stage \in {"main", "cleanup"},
           pos <= Len(cfg.plan), Fresh(pos),
           NEW result \in EmulationResult, result.mode = "local",
           Conclude(result), cfg' = cfg, pos' = pos, launches' = launches
    PROVE  EmuInv'
<1>0. /\ EmuTypeOK /\ Handling /\ LaunchedBehind /\ AnsweredBehind
      /\ ErrorsHaveMode /\ BudgetCounted /\ CommandsArePermitted /\ RunsAtMostOnce
      /\ cfg.policy.max_failures \in Nat
  BY SetupFields DEF EmuInv
<1>1. current \in Tests /\ results[current].mode = "none"
  BY FreshIsUntouched
<1>2. failures' = Cardinality(WithErrors')
  BY ConcludeCounts
<1>3. stage' = "pace" /\ results' = [results EXCEPT ![current] = result]
  BY DEF Conclude
<1>4. Handling' /\ LaunchedBehind'
  BY <1>0, <1>3 DEF Handling, Fresh, LaunchedBehind
<1>5. AnsweredBehind' /\ ErrorsHaveMode'
  BY <1>0, <1>1, <1>3 DEF AnsweredBehind, ErrorsHaveMode, EmuTypeOK, current
<1>6. failures' <= cfg.policy.max_failures
  BY <1>0 DEF Conclude, BudgetCounted, EmuTypeOK
<1>7. BudgetCounted'
  BY <1>0, <1>2, <1>3, <1>6 DEF BudgetCounted, Mode
<1>8. CommandsArePermitted' /\ RunsAtMostOnce'
  BY <1>0 DEF CommandsArePermitted, Permitted, RunsAtMostOnce
<1> QED
  BY <1>4, <1>5, <1>7, <1>8 DEF EmuInv

LEMMA StepPreserves == EmuInv /\ [EmuNext]_emuVars => EmuInv'
<1> SUFFICES ASSUME EmuInv, [EmuNext]_emuVars PROVE EmuInv'
  OBVIOUS
<1>0. /\ EmuTypeOK /\ Handling /\ LaunchedBehind /\ AnsweredBehind
      /\ ErrorsHaveMode /\ BudgetCounted /\ CommandsArePermitted /\ RunsAtMostOnce
      /\ cfg.plan \in Seq(Tests) /\ cfg.policy.max_failures \in Nat
      /\ cfg.catalog \in [Tests -> EmulationTest]
  BY SetupFields DEF EmuInv
<1>1. CASE DropRepeat
  <2>1. EmuTypeOK'
    BY <1>0, <1>1 DEF DropRepeat, EmuTypeOK
  <2>2. Handling' /\ LaunchedBehind' /\ AnsweredBehind'
    BY <1>1, MovingOn DEF DropRepeat
  <2>3. ErrorsHaveMode' /\ BudgetCounted' /\ CommandsArePermitted' /\ RunsAtMostOnce'
    BY <1>0, <1>1 DEF DropRepeat, ErrorsHaveMode, BudgetCounted, WithErrors, Mode,
                      ExecutorMode, CommandsArePermitted, Permitted, RunsAtMostOnce
  <2> QED
    BY <2>1, <2>2, <2>3 DEF EmuInv
<1>2. CASE SkipUnknown
  <2>1. EmuTypeOK'
    <3>1. current \in Tests
      BY <1>0, <1>2, FreshIsUntouched DEF SkipUnknown, AtTest
    <3>2. skipped' \in [Tests -> CheckNames \cup {"unknown", "none"}]
      BY <1>0, <1>2, <3>1 DEF SkipUnknown, EmuTypeOK
    <3> QED
      BY <1>0, <1>2, <3>2 DEF SkipUnknown, EmuTypeOK
  <2>2. Handling' /\ LaunchedBehind' /\ AnsweredBehind'
    BY <1>2, MovingOn DEF SkipUnknown, AtTest
  <2>3. ErrorsHaveMode' /\ BudgetCounted' /\ CommandsArePermitted' /\ RunsAtMostOnce'
    BY <1>0, <1>2 DEF SkipUnknown, AtTest, ErrorsHaveMode, BudgetCounted, WithErrors,
                      Mode, ExecutorMode, CommandsArePermitted, Permitted,
                      RunsAtMostOnce
  <2> QED
    BY <2>1, <2>2, <2>3 DEF EmuInv
<1>3. CASE Refuse
  <2>1. current \in Tests
    BY <1>0, <1>3, FreshIsUntouched DEF Refuse, AtTest
  <2>2. evaluate(current) \in CheckNames
    BY <1>0, <1>3, <2>1, AllowedMeansPermitted DEF Refuse
  <2>3. EmuTypeOK'
    BY <1>0, <1>3, <2>1, <2>2 DEF Refuse, AtTest, EmuTypeOK
  <2>4. Handling' /\ LaunchedBehind' /\ AnsweredBehind'
    BY <1>3, MovingOn DEF Refuse, AtTest
  <2>5. ErrorsHaveMode' /\ BudgetCounted' /\ CommandsArePermitted' /\ RunsAtMostOnce'
    BY <1>0, <1>3 DEF Refuse, AtTest, ErrorsHaveMode, BudgetCounted, WithErrors,
                      Mode, ExecutorMode, CommandsArePermitted, Permitted,
                      RunsAtMostOnce
  <2> QED
    BY <2>3, <2>4, <2>5 DEF EmuInv
<1>4. CASE Reserve
  <2> DEFINE r == [mode |-> ExecutorMode, executed |-> FALSE,
                   start |-> now, finish |-> now + cfg.catalog[current].duration,
                   exit_code |-> "None", cleanup_performed |-> FALSE,
                   error |-> /\ ExecutorMode = "dry-run"
                             /\ evaluate(current) # "allowed"]
  <2>1. Conclude(r) /\ cfg' = cfg /\ stage = "pick"
        /\ pos <= Len(cfg.plan) /\ Fresh(pos) /\ pos' = pos
    BY <1>4 DEF Reserve, AtTest
  <2>2. current \in Tests /\ results[current].mode = "none"
    BY <1>0, <2>1, FreshIsUntouched
  <2>3. cfg.catalog[current].duration \in Nat
    BY <1>0, <2>2 DEF EmulationTest
  <2>4. r \in EmulationResult /\ r.mode # "none"
    BY SMTT(20), <1>0, <1>4, <2>3 DEF Reserve, EmulationResult, ExitCodes, EmuTypeOK
  <2>5. evaluate(current) \in CheckNames \cup {"allowed"}
    BY <1>0, <2>2, AllowedMeansPermitted
  <2> HIDE DEF r
  <2>6. EmuTypeOK'
    <3>1. decisions' \in [Tests -> CheckNames \cup {"allowed", "none"}]
      BY <1>0, <1>4, <2>2, <2>5 DEF Reserve, EmuTypeOK
    <3>2. /\ results' \in [Tests -> EmulationResult]
          /\ failures' \in Nat
          /\ stage' \in Stages
      BY <1>0, <2>1, <2>2, <2>4, ConcludeTypes
    <3> QED
      BY <1>0, <1>4, <3>1, <3>2 DEF Reserve, EmuTypeOK
  <2>7. Handling' /\ LaunchedBehind'
    BY <1>0, <1>4, <2>1 DEF Reserve, Conclude, Handling, LaunchedBehind, Fresh
  <2>8. AnsweredBehind'
    BY <1>0, <1>4, <2>1, <2>2
    DEF Reserve, Conclude, AnsweredBehind, EmuTypeOK, current
  <2>9. ErrorsHaveMode'
    BY <1>0, <1>4, <2>1, <2>2, <2>4 DEF Conclude, ErrorsHaveMode, EmuTypeOK
  <2>10. failures' = Cardinality(WithErrors')
    BY <2>1, <2>4, <2>6, ConcludeCounts
  <2>11. Mode = "local" => ~r.error
    BY DEF r, Mode, ExecutorMode
  <2>12. BudgetCounted'
    BY SMTT(20), <1>0, <2>1, <2>4, <2>10, <2>11
    DEF Conclude, BudgetCounted, Mode, EmuTypeOK, EmulationResult
  <2>13. CommandsArePermitted' /\ RunsAtMostOnce'
    BY <1>0, <1>4 DEF Reserve, CommandsArePermitted, Permitted, RunsAtMostOnce
  <2> QED
    BY <2>6, <2>7, <2>8, <2>9, <2>12, <2>13 DEF EmuInv
<1>5. CASE Launch
  <2>1. /\ stage = "pick" /\ pos <= Len(cfg.plan) /\ Fresh(pos) /\ cfg' = cfg
        /\ pos' = pos /\ ExecutorMode = "local" /\ stage' = "main"
        /\ evaluate(current) = "allowed"
    BY <1>5 DEF Launch, AtTest
  <2>2. current \in Tests /\ launches[current] = 0
    BY <1>0, <2>1, FreshIsUntouched
  <2>3. Permitted(current) /\ failures < cfg.policy.max_failures
    BY <1>0, <2>1, <2>2, AllowedMeansPermitted
  <2>4. cfg.backend = "live"
    BY <1>0, <2>1, SetupFields DEF ExecutorMode, Setup
  <2>5. EmuTypeOK'
    <3>1. decisions' \in [Tests -> CheckNames \cup {"allowed", "none"}]
      BY <1>0, <1>5, <2>2 DEF Launch, EmuTypeOK
    <3>2. launches' \in [Tests -> Nat]
      BY <1>0, <1>5, <2>2 DEF Launch, EmuTypeOK
    <3>3. command' \in [start: Nat, finish: Nat, exit_code: ExitCodes]
      BY <1>0, <1>5 DEF Launch, EmuTypeOK, NoCommand, ExitCodes
    <3> QED
      BY <1>0, <1>5, <3>1, <3>2, <3>3 DEF Launch, EmuTypeOK, Stages
  <2>6. Handling' /\ AnsweredBehind' /\ ErrorsHaveMode'
    BY <1>0, <1>5, <2>1 DEF Launch, Handling, Fresh, AnsweredBehind, ErrorsHaveMode
  <2>7. LaunchedBehind'
    BY <1>0, <1>5, <2>1, <2>2 DEF Launch, LaunchedBehind, EmuTypeOK, current
  <2>8. BudgetCounted'
    BY <1>0, <1>5, <2>1, <2>3
    DEF Launch, BudgetCounted, WithErrors, Mode, ExecutorMode
  <2>9. CommandsArePermitted' /\ RunsAtMostOnce'
    BY <1>0, <1>5, <2>2, <2>3, <2>4
    DEF Launch, CommandsArePermitted, Permitted, RunsAtMostOnce, EmuTypeOK
  <2> QED
    BY <2>5, <2>6, <2>7, <2>8, <2>9 DEF EmuInv
<1>6. CASE CommandReturns
  <2>1. PICK code \in ExitCodes, d \in 0..MaxDuration :
          LET done == [command EXCEPT !.finish = now + d, !.exit_code = code]
          IN  /\ now' = now + d
              /\ command' = done
              /\ behaved' = IF code = "unstarted" THEN behaved
                            ELSE behaved \cup {current}
              /\ IF NeedsCleanup(code)
                 THEN stage' = "cleanup" /\ UNCHANGED <<results, failures>>
                 ELSE Conclude(LocalResult(done, FALSE))
    BY <1>6 DEF CommandReturns
  <2> DEFINE done == [command EXCEPT !.finish = now + d, !.exit_code = code]
  <2>2. /\ stage = "main" /\ cfg' = cfg /\ pos' = pos /\ launches' = launches
        /\ UNCHANGED <<decisions, skipped, cleaned>>
        /\ pos <= Len(cfg.plan) /\ Fresh(pos)
    BY <1>0, <1>6 DEF CommandReturns, Handling
  <2>3. current \in Tests /\ results[current].mode = "none"
    BY <1>0, <2>2, FreshIsUntouched
  <2>4. now + d \in Nat
    BY EmulationAssumption DEF EmuInv, EmuTypeOK
  <2>5. done \in [start: Nat, finish: Nat, exit_code: ExitCodes]
    BY <1>0, <2>4 DEF EmuTypeOK
  <2> DEFINE r == LocalResult(done, FALSE)
  <2>6. r \in EmulationResult /\ r.mode = "local"
    BY <2>5 DEF LocalResult, EmulationResult
  <2> HIDE DEF r
  <2>7. CASE NeedsCleanup(code)
    <3>1. stage' = "cleanup" /\ UNCHANGED <<results, failures>>
      BY <2>1, <2>7
    <3>2. EmuTypeOK'
      BY <1>0, <2>1, <2>2, <2>3, <2>4, <2>5, <3>1 DEF EmuTypeOK, Stages
    <3>3. Handling' /\ LaunchedBehind' /\ AnsweredBehind'
      BY <1>0, <2>2, <3>1 DEF Handling, Fresh, LaunchedBehind, AnsweredBehind
    <3>4. ErrorsHaveMode' /\ BudgetCounted' /\ CommandsArePermitted' /\ RunsAtMostOnce'
      BY <1>0, <2>2, <3>1
      DEF ErrorsHaveMode, BudgetCounted, WithErrors, Mode, ExecutorMode,
          CommandsArePermitted, Permitted, RunsAtMostOnce
    <3> QED
      BY <3>2, <3>3, <3>4 DEF EmuInv
  <2>8. CASE ~NeedsCleanup(code)
    <3>1. Conclude(r)
      BY <2>1, <2>8 DEF r
    <3>2. EmuTypeOK'
      <4>1. /\ results' \in [Tests -> EmulationResult]
            /\ failures' \in Nat
            /\ stage' \in Stages
        BY <1>0, <2>3, <2>6, <3>1, ConcludeTypes
      <4>2. now' \in Nat /\ behaved' \in SUBSET Tests
            /\ command' \in [start: Nat, finish: Nat, exit_code: ExitCodes]
        BY <1>0, <2>1, <2>3, <2>4, <2>5 DEF EmuTypeOK
      <4> QED
        BY <1>0, <2>2, <4>1, <4>2 DEF EmuTypeOK
    <3> QED
      BY <1>0, <2>2, <2>3, <2>6, <3>1, <3>2, ConcludeLocal
  <2> QED
    BY <2>7, <2>8
<1>7. CASE CleanupReturns
  <2>1. PICK ok \in BOOLEAN, d \in 0..MaxDuration :
          /\ now' = now + d
          /\ Conclude(LocalResult(command, ok))
    BY <1>7 DEF CleanupReturns
  <2>2. /\ stage = "cleanup" /\ cfg' = cfg /\ pos' = pos /\ launches' = launches
        /\ cleaned' = cleaned \cup {current}
        /\ UNCHANGED <<decisions, skipped, command, behaved>>
        /\ pos <= Len(cfg.plan) /\ Fresh(pos)
    BY <1>0, <1>7 DEF CleanupReturns, Handling
  <2>3. current \in Tests /\ results[current].mode = "none"
    BY <1>0, <2>2, FreshIsUntouched
  <2>4. now + d \in Nat
    BY EmulationAssumption DEF EmuInv, EmuTypeOK
  <2> DEFINE r == LocalResult(command, ok)
  <2>5. r \in EmulationResult /\ r.mode = "local"
    BY <1>0 DEF LocalResult, EmulationResult, EmuTypeOK
  <2>6. Conclude(r)
    BY <2>1
  <2> HIDE DEF r
  <2>7. EmuTypeOK'
    <3>1. /\ results' \in [Tests -> EmulationResult]
          /\ failures' \in Nat
          /\ stage' \in Stages
      BY <1>0, <2>3, <2>5, <2>6, ConcludeTypes
    <3>2. now' \in Nat /\ cleaned' \in SUBSET Tests
      BY <1>0, <2>1, <2>2, <2>3, <2>4 DEF EmuTypeOK
    <3> QED
      BY <1>0, <2>2, <3>1, <3>2 DEF EmuTypeOK
  <2> QED
    BY <1>0, <2>2, <2>3, <2>5, <2>6, <2>7, ConcludeLocal
<1>8. CASE Pace
  <2>1. Pause(pos) \in Nat
    BY <1>0, SetupFields DEF Pause
  <2>2. EmuTypeOK'
    BY <1>0, <1>8, <2>1 DEF Pace, EmuTypeOK, Stages, NoCommand, ExitCodes
  <2>3. Handling' /\ LaunchedBehind' /\ AnsweredBehind'
    BY <1>8, MovingOn DEF Pace
  <2>4. ErrorsHaveMode' /\ BudgetCounted' /\ CommandsArePermitted' /\ RunsAtMostOnce'
    BY <1>0, <1>8 DEF Pace, ErrorsHaveMode, BudgetCounted, WithErrors, Mode,
                      ExecutorMode, CommandsArePermitted, Permitted, RunsAtMostOnce
  <2> QED
    BY <2>2, <2>3, <2>4 DEF EmuInv
<1>9. CASE Return \/ Interrupt
  <2>1. stage' \in {"over", "killed"}
        /\ UNCHANGED <<cfg, pos, failures, decisions, skipped, results, command,
                       now, launches, behaved, cleaned>>
    BY <1>9 DEF Return, Interrupt
  <2>2. stage' = "over" => stage = "pick" /\ pos > Len(cfg.plan)
    BY <1>9 DEF Return, Interrupt
  <2>3. EmuTypeOK' /\ Handling' /\ LaunchedBehind'
    BY <1>0, <2>1 DEF EmuTypeOK, Stages, Handling, LaunchedBehind
  <2>4. AnsweredBehind'
    BY <1>0, <2>1, <2>2 DEF AnsweredBehind, EmuTypeOK
  <2>5. ErrorsHaveMode' /\ BudgetCounted' /\ CommandsArePermitted' /\ RunsAtMostOnce'
    BY <1>0, <2>1 DEF ErrorsHaveMode, BudgetCounted, WithErrors, Mode,
                      ExecutorMode, CommandsArePermitted, Permitted, RunsAtMostOnce
  <2> QED
    BY <2>3, <2>4, <2>5 DEF EmuInv
<1>10. CASE UNCHANGED emuVars
  <2>1. EmuTypeOK' /\ Handling' /\ LaunchedBehind' /\ AnsweredBehind'
    BY <1>0, <1>10
    DEF emuVars, EmuTypeOK, Handling, Fresh, LaunchedBehind, AnsweredBehind, ExecutorMode, Mode
  <2>2. ErrorsHaveMode' /\ BudgetCounted' /\ CommandsArePermitted' /\ RunsAtMostOnce'
    BY <1>0, <1>10
    DEF emuVars, ErrorsHaveMode, BudgetCounted, WithErrors, Mode, ExecutorMode,
        CommandsArePermitted, Permitted, RunsAtMostOnce
  <2> QED
    BY <2>1, <2>2 DEF EmuInv
<1> QED
  BY <1>1, <1>2, <1>3, <1>4, <1>5, <1>6, <1>7, <1>8, <1>9, <1>10
  DEF EmuNext, Progress

THEOREM EmuInvariant == EmuSpec => []EmuInv
<1> QED
  BY InitEstablishes, StepPreserves, PTL DEF EmuSpec

---------------------------------------------------------------------------
(* What follows for every run *)

\* The state of the emulation phase always has its type.
THEOREM EmuTypeCorrect == EmuSpec => []EmuTypeOK
<1>1. EmuInv => EmuTypeOK
  BY DEF EmuInv
<1> QED
  BY <1>1, EmuInvariant, PTL

\* Default deny: whatever the plan and the settings, a command starts only
\* under a complete authorisation that covers its test, its technique and its
\* host (SafetyPolicy.evaluate, EmulationRunner.run, LocalExecutor.run).
THEOREM NothingRunsUnpermitted == EmuSpec => []CommandsArePermitted
<1>1. EmuInv => CommandsArePermitted
  BY DEF EmuInv
<1> QED
  BY <1>1, EmuInvariant, PTL

\* However many rules share a test, its command is started at most once.
THEOREM EachTestRunsOnce == EmuSpec => []RunsAtMostOnce
<1>1. EmuInv => RunsAtMostOnce
  BY DEF EmuInv
<1> QED
  BY <1>1, EmuInvariant, PTL

\* An executing run never collects more emulation errors than max_failures.
THEOREM ErrorsStayInBudget == EmuSpec => []FailureBudgetHolds
<1>1. EmuInv => FailureBudgetHolds
  BY DEF EmuInv, BudgetCounted, FailureBudgetHolds, WithErrors
<1> QED
  BY <1>1, EmuInvariant, PTL

---------------------------------------------------------------------------
(* The order of things *)

\* Cleanups that are due have been tried, but for the one under way.
Tidy ==
    stage # "killed" =>
        \A t \in behaved : cfg.catalog[t].hasCleanup =>
            t \in cleaned \/ (stage = "cleanup" /\ t = current)

Behind(t) == \E j \in 1..Len(cfg.plan) :
                cfg.plan[j] = t /\ (j < pos \/ (j = pos /\ stage = "pace"))

\* A result or a reason, never both, and neither before its turn; nobody
\* returns before the last turn.
Answered ==
    /\ stage = "over" => pos > Len(cfg.plan)
    /\ stage # "killed" =>
          \A t \in Tests :
              /\ Behind(t) => ((results[t].mode # "none") <=> (skipped[t] = "none"))
              /\ ~Behind(t) => skipped[t] = "none"

Executed == {t \in Tests : results[t].executed}

\* Whether a test remains at the runner's position or after it.
Remaining == \E q \in pos..Len(cfg.plan) : Fresh(q)

Apart ==
    /\ \A t \in Executed : results[t].finish <= now /\ Mode = "local"
    /\ stage = "pick" /\ Remaining =>
          \A t \in Executed : results[t].finish + cfg.inter_test_delay <= now
    /\ stage \in {"main", "cleanup"} =>
          /\ command.start <= now
          /\ \A t \in Executed : results[t].finish + cfg.inter_test_delay <= command.start
    /\ stage = "cleanup" => command.finish <= now
    /\ WindowsKeptApart

OrderInv == EmuInv /\ Tidy /\ Answered /\ Apart

---------------------------------------------------------------------------
(* Cleanups *)

LEMMA TidyStep == ASSUME EmuInv, Tidy, EmuNext PROVE Tidy'
<1>1. CASE CommandReturns
  <2>1. /\ cfg' = cfg /\ pos' = pos /\ cleaned' = cleaned /\ stage = "main"
        /\ behaved' \subseteq behaved \cup {current}
    BY <1>1 DEF CommandReturns
  <2>2. cfg.catalog[current].hasCleanup => stage' = "cleanup"
    BY <1>1 DEF CommandReturns, NeedsCleanup
  <2> QED
    BY <2>1, <2>2 DEF Tidy, current
<1>2. CASE CleanupReturns
  BY <1>2 DEF CleanupReturns, Tidy, current
<1>3. CASE ~CommandReturns /\ ~CleanupReturns
  <2>1. /\ UNCHANGED <<cfg, behaved, cleaned>>
        /\ stage' = "killed" \/ stage \notin {"cleanup", "killed"}
    BY <1>3 DEF EmuNext, Progress, DropRepeat, SkipUnknown, Refuse, Reserve, Launch, Pace, Return,
       Interrupt, AtTest
  <2> QED
    BY <2>1 DEF Tidy
<1> QED
  BY <1>1, <1>2, <1>3

---------------------------------------------------------------------------
(* Answers *)

\* The runner moves past a mention: its test joins those behind.
LEMMA BehindGrows ==
    ASSUME EmuTypeOK, stage \in {"pick", "pace"}, stage' = "pick", cfg' = cfg, pos' = pos + 1,
           pos <= Len(cfg.plan), NEW t \in Tests
    PROVE  Behind(t)' <=> (Behind(t) \/ t = current)
<1>1. pos \in Nat \ {0} /\ Len(cfg.plan) \in Nat
  BY SetupFields DEF EmuTypeOK
<1>2. ASSUME Behind(t) PROVE Behind(t)'
  BY <1>1, <1>2 DEF Behind
<1>3. ASSUME t = current PROVE Behind(t)'
  BY <1>1, <1>3 DEF Behind, current
<1>4. ASSUME Behind(t)' PROVE Behind(t) \/ t = current
  <2>1. PICK j \in 1..Len(cfg.plan) : cfg.plan[j] = t /\ j < pos + 1
    BY <1>4 DEF Behind
  <2> QED
    BY <1>1, <2>1 DEF Behind, current
<1> QED
  BY <1>2, <1>3, <1>4

\* A fresh mention is of a test that is not behind.
LEMMA FreshNotBehind ==
    ASSUME EmuTypeOK, pos <= Len(cfg.plan), Fresh(pos), stage # "pace" PROVE ~Behind(current)
<1>1. pos \in Nat \ {0} /\ Len(cfg.plan) \in Nat
  BY SetupFields DEF EmuTypeOK
<1> QED
  BY <1>1 DEF Behind, Fresh, current

\* Concluding a test answers it.
LEMMA ConcludeAnswers ==
    ASSUME EmuInv, Answered, stage \in {"pick", "main", "cleanup"}, pos <= Len(cfg.plan), Fresh(pos),
           NEW result \in EmulationResult, result.mode # "none", Conclude(result),
           UNCHANGED <<cfg, pos, skipped>>
    PROVE  Answered'
<1>1. /\ pos \in 1..Len(cfg.plan) /\ current \in Tests /\ ~Behind(current)
      /\ results \in [Tests -> EmulationResult]
  BY SetupFields, FreshIsUntouched, FreshNotBehind DEF EmuInv, EmuTypeOK
<1>2. stage' = "pace" /\ results' = [results EXCEPT ![current] = result]
  BY DEF Conclude
<1>3. ASSUME NEW t \in Tests
      PROVE  /\ Behind(t)' => ((results'[t].mode # "none") <=> (skipped'[t] = "none"))
             /\ ~Behind(t)' => skipped'[t] = "none"
  <2>1. CASE t = current
    <3>1. Behind(t)'
      BY <1>1, <1>2, <2>1 DEF Behind, current
    <3>2. skipped[t] = "none"
      BY <1>1, <2>1 DEF Answered
    <3>3. results'[t].mode # "none"
      BY <1>1, <1>2, <2>1
    <3> QED
      BY <3>1, <3>2, <3>3
  <2>2. CASE t # current
    <3>1. Behind(t)' <=> Behind(t)
      BY <1>1, <1>2, <2>2 DEF Behind, current
    <3>2. results'[t] = results[t] /\ skipped'[t] = skipped[t]
      BY <1>1, <1>2, <2>2
    <3> QED
      BY <3>1, <3>2 DEF Answered
  <2> QED
    BY <2>1, <2>2
<1> QED
  BY <1>2, <1>3 DEF Answered

LEMMA AnsweredStep == ASSUME EmuInv, Answered, EmuNext PROVE Answered'
<1>0. EmuTypeOK /\ cfg.plan \in Seq(Tests) /\ pos \in Nat \ {0} /\ Len(cfg.plan) \in Nat
  BY SetupFields DEF EmuInv, EmuTypeOK
<1>1. CASE DropRepeat
  <2>1. /\ stage = "pick" /\ stage' = "pick" /\ pos' = pos + 1 /\ pos <= Len(cfg.plan) /\ ~Fresh(pos)
        /\ UNCHANGED <<cfg, results, skipped>>
    BY <1>1 DEF DropRepeat
  <2>2. Behind(current)
    BY <1>0, <2>1 DEF Fresh, Behind, current
  <2>3. \A t \in Tests : Behind(t)' <=> Behind(t)
    BY <1>0, <2>1, <2>2, BehindGrows
  <2> QED
    BY <2>1, <2>3 DEF Answered
<1>2. CASE SkipUnknown \/ Refuse
  <2>1. /\ stage = "pick" /\ stage' = "pick" /\ pos' = pos + 1 /\ pos <= Len(cfg.plan) /\ Fresh(pos)
        /\ UNCHANGED <<cfg, results>>
    BY <1>2 DEF SkipUnknown, Refuse, AtTest
  <2>2. current \in Tests /\ results[current].mode = "none" /\ ~Behind(current)
    BY <1>0, <2>1, FreshIsUntouched, FreshNotBehind
  <2>3. PICK reason \in CheckNames \cup {"unknown", "allowed"} :
           reason # "allowed" /\ skipped' = [skipped EXCEPT ![current] = reason]
    BY <1>0, <1>2, <2>2, AllowedMeansPermitted DEF SkipUnknown, Refuse
  <2>4. reason # "none" /\ skipped \in [Tests -> CheckNames \cup {"unknown", "none"}]
    BY <1>0, <2>3 DEF CheckNames, EmuTypeOK
  <2>5. \A t \in Tests : Behind(t)' <=> (Behind(t) \/ t = current)
    BY <1>0, <2>1, BehindGrows
  <2> QED
    BY <2>1, <2>2, <2>3, <2>4, <2>5 DEF Answered
<1>3. CASE Reserve
  <2> DEFINE r == [mode |-> ExecutorMode, executed |-> FALSE,
                   start |-> now, finish |-> now + cfg.catalog[current].duration,
                   exit_code |-> "None", cleanup_performed |-> FALSE,
                   error |-> /\ ExecutorMode = "dry-run"
                             /\ evaluate(current) # "allowed"]
  <2>1. /\ Conclude(r) /\ stage = "pick" /\ pos <= Len(cfg.plan) /\ Fresh(pos)
        /\ UNCHANGED <<cfg, pos, skipped>> /\ ExecutorMode \in {"dry-run", "replay"}
    BY <1>3 DEF Reserve, AtTest
  <2>2. r \in EmulationResult /\ r.mode # "none"
    <3>1. cfg.catalog[current].duration \in Nat
      BY <1>0, <2>1, SetupFields, FreshIsUntouched DEF EmulationTest
    <3> QED
      BY <1>0, <1>3, <3>1 DEF Reserve, EmulationResult, ExitCodes, EmuTypeOK
  <2> HIDE DEF r
  <2> QED
    BY <2>1, <2>2, ConcludeAnswers
<1>4. CASE Launch
  <2>1. /\ stage = "pick" /\ stage' = "main" /\ UNCHANGED <<cfg, pos, results, skipped>>
    BY <1>4 DEF Launch, AtTest
  <2> QED
    BY <2>1 DEF Answered, Behind
<1>5. CASE CommandReturns \/ CleanupReturns
  <2>1. /\ stage \in {"main", "cleanup"} /\ pos <= Len(cfg.plan) /\ Fresh(pos)
        /\ UNCHANGED <<cfg, pos, skipped>>
    BY <1>5 DEF CommandReturns, CleanupReturns, EmuInv, Handling
  <2>2. (stage' = "cleanup" /\ UNCHANGED results)
        \/ \E r \in EmulationResult : r.mode = "local" /\ Conclude(r)
    <3>1. CASE CommandReturns
      <4>1. PICK code \in ExitCodes, d \in 0..MaxDuration :
              IF NeedsCleanup(code)
              THEN stage' = "cleanup" /\ UNCHANGED <<results, failures>>
              ELSE Conclude(LocalResult([command EXCEPT !.finish = now + d, !.exit_code = code], FALSE))
        BY <3>1 DEF CommandReturns
      <4> DEFINE r == LocalResult([command EXCEPT !.finish = now + d, !.exit_code = code], FALSE)
      <4>2. r \in EmulationResult /\ r.mode = "local"
        BY <1>0, EmulationAssumption DEF LocalResult, EmulationResult, EmuTypeOK
      <4> HIDE DEF r
      <4> QED
        BY <4>1, <4>2 DEF r
    <3>2. CASE CleanupReturns
      <4>1. PICK ok \in BOOLEAN : Conclude(LocalResult(command, ok))
        BY <3>2 DEF CleanupReturns
      <4>2. LocalResult(command, ok) \in EmulationResult /\ LocalResult(command, ok).mode = "local"
        BY <1>0 DEF LocalResult, EmulationResult, EmuTypeOK
      <4> QED
        BY <4>1, <4>2
    <3> QED
      BY <1>5, <3>1, <3>2
  <2>3. CASE stage' = "cleanup" /\ UNCHANGED results
    BY <2>1, <2>3 DEF Answered, Behind
  <2>4. CASE \E r \in EmulationResult : r.mode = "local" /\ Conclude(r)
    BY <2>1, <2>4, ConcludeAnswers
  <2> QED
    BY <2>2, <2>3, <2>4
<1>6. CASE Pace
  <2>1. /\ stage = "pace" /\ stage' = "pick" /\ pos' = pos + 1 /\ pos <= Len(cfg.plan)
        /\ UNCHANGED <<cfg, results, skipped>>
    BY <1>6 DEF Pace, EmuInv, Handling
  <2>2. Behind(current)
    BY <1>0, <2>1 DEF Behind, current
  <2>3. \A t \in Tests : Behind(t)' <=> Behind(t)
    BY <1>0, <2>1, <2>2, BehindGrows
  <2> QED
    BY <2>1, <2>3 DEF Answered
<1>7. CASE Return \/ Interrupt
  BY <1>7 DEF Return, Interrupt, Answered, Behind
<1> QED
  BY <1>1, <1>2, <1>3, <1>4, <1>5, <1>6, <1>7 DEF EmuNext, Progress

---------------------------------------------------------------------------
(* Windows *)

LEMMA PlainTypes ==
    ASSUME EmuInv
    PROVE  /\ now \in Nat /\ cfg.inter_test_delay \in Nat /\ pos \in Nat \ {0}
           /\ Len(cfg.plan) \in Nat
           /\ results \in [Tests -> EmulationResult]
           /\ \A t \in Tests : results[t].start \in Nat /\ results[t].finish \in Nat
                               /\ results[t].executed \in BOOLEAN
           /\ command.start \in Nat /\ command.finish \in Nat
  BY SetupFields DEF EmuInv, EmuTypeOK, EmulationResult

\* Concluding a test of which nothing ran disturbs no window.
LEMMA ReservedApart ==
    ASSUME EmuInv, Apart, pos <= Len(cfg.plan), Fresh(pos), stage = "pick",
           NEW result \in EmulationResult, ~result.executed, Conclude(result), UNCHANGED <<cfg, now>>
    PROVE  Apart'
<1>1. current \in Tests /\ results \in [Tests -> EmulationResult]
  BY FreshIsUntouched, PlainTypes
<1>2. stage' = "pace" /\ results' = [results EXCEPT ![current] = result]
  BY DEF Conclude
<1>3. Executed' \subseteq Executed /\ \A t \in Executed' : results'[t] = results[t]
  BY <1>1, <1>2 DEF Executed
<1>4. WindowsKeptApart'
  <2>1. ASSUME NEW t \in Tests, results'[t].executed PROVE results'[t] = results[t]
    BY <1>1, <1>2, <2>1
  <2> QED
    BY <2>1 DEF Apart, WindowsKeptApart
<1> QED
  BY <1>2, <1>3, <1>4 DEF Apart, Mode

\* The window of the command under way lies a pause after all others.
LEMMA LocalApart ==
    ASSUME EmuInv, Apart, pos <= Len(cfg.plan), Fresh(pos), stage \in {"main", "cleanup"},
           NEW result \in EmulationResult, Conclude(result), cfg' = cfg,
           result.start = command.start, result.finish <= now', now <= now', now' \in Nat
    PROVE  Apart'
<1>1. current \in Tests /\ results \in [Tests -> EmulationResult]
  BY FreshIsUntouched, PlainTypes
<1>2. stage' = "pace" /\ results' = [results EXCEPT ![current] = result]
  BY DEF Conclude
<1>3. Executed' \subseteq Executed \cup {current} /\ \A t \in Tests : t # current => results'[t] = results[t]
  BY <1>1, <1>2 DEF Executed
<1>4. result.finish \in Nat /\ results'[current] = result
  BY <1>1, <1>2 DEF EmulationResult
<1>5. Mode = "local"
  BY DEF EmuInv, BudgetCounted, ExecutorMode
<1>6. ASSUME NEW t \in Executed' PROVE results'[t].finish <= now' /\ Mode' = "local"
  <2>1. Mode' = "local"
    BY <1>5 DEF Mode
  <2>2. CASE t = current
    BY <1>4, <2>1, <2>2
  <2>3. CASE t # current
    <3>1. t \in Executed /\ t \in Tests /\ results'[t] = results[t] /\ results[t].finish <= now
      BY <1>3, <2>3 DEF Apart, Executed
    <3>2. results[t].finish \in Nat /\ now \in Nat
      BY <3>1, PlainTypes
    <3> QED
      BY <2>1, <3>1, <3>2
  <2> QED
    BY <2>2, <2>3
<1>7. ASSUME NEW t \in Tests, t # current, results'[t].executed
      PROVE  results'[t].finish + cfg.inter_test_delay <= result.start
  BY <1>3, <1>7 DEF Apart, Executed
<1>8. WindowsKeptApart'
  <2>1. ASSUME NEW s \in Tests, NEW t \in Tests, s # t, results'[s].executed, results'[t].executed
        PROVE  \/ results'[s].finish + cfg.inter_test_delay <= results'[t].start
               \/ results'[t].finish + cfg.inter_test_delay <= results'[s].start
    <3>1. CASE t = current
      BY <1>4, <1>7, <2>1, <3>1
    <3>2. CASE s = current
      BY <1>4, <1>7, <2>1, <3>2
    <3>3. CASE s # current /\ t # current
      BY <1>3, <2>1, <3>3 DEF Apart, WindowsKeptApart
    <3> QED
      BY <3>1, <3>2, <3>3
  <2> QED
    BY <2>1 DEF WindowsKeptApart
<1> QED
  BY <1>2, <1>6, <1>8 DEF Apart

\* Without a new result, what matters is the clock and who is next.
LEMMA ApartStays ==
    ASSUME EmuInv, Apart, UNCHANGED <<cfg, results>>, now' \in Nat, now <= now',
           stage' = "pick" /\ Remaining' =>
               \A t \in Executed : results[t].finish + cfg.inter_test_delay <= now',
           stage' \in {"main", "cleanup"} =>
               /\ command'.start <= now'
               /\ \A t \in Executed : results[t].finish + cfg.inter_test_delay <= command'.start,
           stage' = "cleanup" => command'.finish <= now'
    PROVE  Apart'
<1>1. Executed' = Executed /\ Mode' = Mode
  BY DEF Executed, Mode
<1>2. ASSUME NEW t \in Executed PROVE results[t].finish <= now'
  <2>1. results[t].finish \in Nat /\ now \in Nat /\ results[t].finish <= now
    BY PlainTypes DEF Apart, Executed
  <2> QED
    BY <2>1
<1>3. WindowsKeptApart'
  BY DEF Apart, WindowsKeptApart
<1> QED
  BY <1>1, <1>2, <1>3 DEF Apart

LEMMA ApartStep == ASSUME EmuInv, Apart, EmuNext PROVE Apart'
<1>0. /\ now \in Nat /\ pos \in Nat \ {0} /\ Len(cfg.plan) \in Nat /\ cfg.inter_test_delay \in Nat
      /\ EmuTypeOK
  BY PlainTypes DEF EmuInv
<1>1. CASE DropRepeat \/ SkipUnknown \/ Refuse
  <2>1. /\ stage = "pick" /\ stage' = "pick" /\ pos' = pos + 1 /\ UNCHANGED <<cfg, results, now>>
    BY <1>1 DEF DropRepeat, SkipUnknown, Refuse, AtTest
  <2>2. Remaining' => Remaining
    BY <1>0, <2>1 DEF Remaining, Fresh
  <2> QED
    BY <1>0, <2>1, <2>2, ApartStays DEF Apart
<1>2. CASE Reserve
  <2> DEFINE r == [mode |-> ExecutorMode, executed |-> FALSE,
                   start |-> now, finish |-> now + cfg.catalog[current].duration,
                   exit_code |-> "None", cleanup_performed |-> FALSE,
                   error |-> /\ ExecutorMode = "dry-run"
                             /\ evaluate(current) # "allowed"]
  <2>1. /\ Conclude(r) /\ stage = "pick" /\ pos <= Len(cfg.plan) /\ Fresh(pos) /\ UNCHANGED <<cfg, now>>
    BY <1>2 DEF Reserve, AtTest
  <2>2. r \in EmulationResult /\ ~r.executed
    <3>1. cfg.catalog[current].duration \in Nat
      BY <1>0, <2>1, SetupFields, FreshIsUntouched DEF EmulationTest
    <3> QED
      BY <1>0, <1>2, <3>1 DEF Reserve, EmulationResult, ExitCodes, EmuTypeOK
  <2> HIDE DEF r
  <2> QED
    BY <2>1, <2>2, ReservedApart
<1>3. CASE Launch
  <2>1. /\ stage = "pick" /\ stage' = "main" /\ pos <= Len(cfg.plan) /\ Fresh(pos)
        /\ UNCHANGED <<cfg, results, now>> /\ command'.start = now
    BY <1>3 DEF Launch, AtTest, NoCommand
  <2>2. Remaining
    BY <1>0, <2>1 DEF Remaining
  <2>3. \A t \in Executed : results[t].finish + cfg.inter_test_delay <= now
    BY <2>1, <2>2 DEF Apart
  <2>4. now <= now' /\ now' \in Nat
    BY <1>0, <2>1
  <2> QED
    BY <1>0, <2>1, <2>3, <2>4, ApartStays
<1>4. CASE CommandReturns
  <2>1. PICK code \in ExitCodes, d \in 0..MaxDuration :
          LET done == [command EXCEPT !.finish = now + d, !.exit_code = code]
          IN  /\ now' = now + d
              /\ command' = done
              /\ IF NeedsCleanup(code)
                 THEN stage' = "cleanup" /\ UNCHANGED <<results, failures>>
                 ELSE Conclude(LocalResult(done, FALSE))
    BY <1>4 DEF CommandReturns
  <2>2. stage = "main" /\ cfg' = cfg /\ pos <= Len(cfg.plan) /\ Fresh(pos)
    BY <1>4 DEF CommandReturns, EmuInv, Handling
  <2>3. now' \in Nat /\ now <= now'
    BY <1>0, <2>1, EmulationAssumption
  <2> DEFINE done == [command EXCEPT !.finish = now + d, !.exit_code = code]
             r == LocalResult(done, FALSE)
  <2>4. done.start = command.start /\ done.finish = now' /\ done.exit_code \in ExitCodes
    BY <1>0, <2>1 DEF EmuTypeOK
  <2>5. r \in EmulationResult /\ r.start = command.start /\ r.finish = now'
    BY <2>3, <2>4, PlainTypes DEF LocalResult, EmulationResult
  <2>6. CASE NeedsCleanup(code)
    <3>1. stage' = "cleanup" /\ UNCHANGED results /\ command' = done
      BY <2>1, <2>6
    <3>2. /\ command'.start <= now' /\ command'.finish <= now'
          /\ \A t \in Executed : results[t].finish + cfg.inter_test_delay <= command'.start
      <4>1. command.start <= now /\ command.start \in Nat
        BY <2>2, PlainTypes DEF Apart
      <4> HIDE DEF done
      <4> QED
        BY <1>0, <2>2, <2>3, <2>4, <3>1, <4>1 DEF Apart
    <3> QED
      BY <2>2, <2>3, <3>1, <3>2, ApartStays
  <2>7. CASE ~NeedsCleanup(code)
    <3>1. Conclude(r)
      BY <2>1, <2>7
    <3> HIDE DEF r
    <3>2. r.finish <= now'
      <4>1. r.finish = now' /\ now' \in Nat
        BY <2>3, <2>5
      <4> QED
        BY <4>1
    <3> QED
      BY <2>2, <2>3, <2>5, <3>1, <3>2, LocalApart
  <2> QED
    BY <2>6, <2>7
<1>5. CASE CleanupReturns
  <2>1. PICK ok \in BOOLEAN, d \in 0..MaxDuration :
          now' = now + d /\ Conclude(LocalResult(command, ok))
    BY <1>5 DEF CleanupReturns
  <2>2. stage = "cleanup" /\ cfg' = cfg /\ pos <= Len(cfg.plan) /\ Fresh(pos)
    BY <1>5 DEF CleanupReturns, EmuInv, Handling
  <2>3. now' \in Nat /\ now <= now'
    BY <1>0, <2>1, EmulationAssumption
  <2> DEFINE r == LocalResult(command, ok)
  <2>4. r \in EmulationResult /\ r.start = command.start /\ r.finish = command.finish
    BY <1>0, PlainTypes DEF LocalResult, EmulationResult, EmuTypeOK
  <2>5. r.finish <= now'
    <3>1. command.finish <= now /\ command.finish \in Nat
      BY <2>2, PlainTypes DEF Apart
    <3>2. command.finish <= now'
      BY <1>0, <2>3, <3>1
    <3>3. r.finish = command.finish
      BY <2>4
    <3> HIDE DEF r
    <3> QED
      BY <3>2, <3>3
  <2>6. Conclude(r)
    BY <2>1
  <2> HIDE DEF r
  <2> QED
    BY <2>2, <2>3, <2>4, <2>5, <2>6, LocalApart
<1>6. CASE Pace
  <2>1. /\ stage = "pace" /\ stage' = "pick" /\ pos' = pos + 1 /\ UNCHANGED <<cfg, results>>
        /\ now' = now + Pause(pos)
    BY <1>6 DEF Pace
  <2>2. Pause(pos) \in Nat
    BY <1>0 DEF Pause
  <2>3. ASSUME Remaining', NEW t \in Executed
        PROVE  results[t].finish + cfg.inter_test_delay <= now'
    <3>1. MoreAfter(pos)
      BY <1>0, <2>1, <2>3 DEF Remaining, MoreAfter, Fresh
    <3>2. Mode = "local" /\ results[t].finish <= now /\ results[t].finish \in Nat
      BY <2>3, PlainTypes DEF Apart, Executed
    <3>3. Pause(pos) = cfg.inter_test_delay
      BY <3>1, <3>2 DEF Pause, Mode, execution_enabled
    <3> QED
      BY <1>0, <2>1, <3>2, <3>3
  <2>4. now' \in Nat /\ now <= now'
    BY <1>0, <2>1, <2>2
  <2> QED
    BY <2>1, <2>3, <2>4, ApartStays
<1>7. CASE Return \/ Interrupt
  <2>1. stage' \in {"over", "killed"} /\ UNCHANGED <<cfg, results, now>>
    BY <1>7 DEF Return, Interrupt
  <2> QED
    BY <1>0, <2>1, ApartStays
<1> QED
  BY <1>1, <1>2, <1>3, <1>4, <1>5, <1>6, <1>7 DEF EmuNext, Progress

---------------------------------------------------------------------------
(* Theorems *)

THEOREM OrderInvariant == EmuSpec => []OrderInv
<1>1. EmuInit => OrderInv
  <2>1. EmuInit => Tidy /\ Answered
    BY DEF EmuInit, Tidy, Answered, Behind
  <2>2. EmuInit => Apart
    BY DEF EmuInit, Apart, Executed, NoResult, WindowsKeptApart
  <2>3. EmuInit => EmuInv
    BY InitEstablishes
  <2> QED
    BY <2>1, <2>2, <2>3 DEF OrderInv
<1>2. OrderInv /\ [EmuNext]_emuVars => OrderInv'
  <2>1. CASE EmuNext
    BY <2>1, StepPreserves, TidyStep, AnsweredStep, ApartStep DEF OrderInv
  <2>2. CASE UNCHANGED emuVars
    <3>1. OrderInv => Tidy' /\ Answered' /\ Apart'
      BY <2>2 DEF emuVars, OrderInv, Tidy, Answered, Behind, current, Apart, Executed, Remaining, Fresh,
         Mode, WindowsKeptApart
    <3> QED
      BY <2>2, <3>1, StepPreserves DEF OrderInv
  <2> QED
    BY <2>1, <2>2
<1> QED
  BY <1>1, <1>2, PTL DEF EmuSpec

\* After a timeout or a failure as much as after success, no test follows and
\* no phase returns before the cleanups that are due have been tried.
THEOREM CleanupsComeFirst == EmuSpec => []CleanupBeforeNext
<1>1. OrderInv => CleanupBeforeNext
  BY DEF OrderInv, Tidy, CleanupBeforeNext
<1> QED
  BY <1>1, OrderInvariant, PTL

\* A phase that returns answers for every test of its plan, with a result or
\* with the reason there is none.
THEOREM EveryTestIsAnswered == EmuSpec => []EveryTestAnswered
<1>1. ASSUME OrderInv PROVE EveryTestAnswered
  <2>1. CASE stage = "over"
    <3>1. \A p \in 1..Len(cfg.plan) : cfg.plan[p] \in Tests
      BY <1>1, SetupFields DEF OrderInv, EmuInv
    <3>2. pos \in Nat /\ Len(cfg.plan) \in Nat /\ DOMAIN cfg.plan = 1..Len(cfg.plan)
      BY <1>1, SetupFields DEF OrderInv, EmuInv, EmuTypeOK
    <3>3. \A p \in 1..Len(cfg.plan) : p < pos
      BY <1>1, <2>1, <3>2 DEF OrderInv, Answered
    <3>4. \A p \in 1..Len(cfg.plan) : Behind(cfg.plan[p])
      BY <3>3 DEF Behind
    <3> QED
      BY <1>1, <2>1, <3>1, <3>2, <3>4 DEF OrderInv, Answered, EveryTestAnswered
  <2>2. CASE stage # "over"
    BY <2>2 DEF EveryTestAnswered
  <2> QED
    BY <2>1, <2>2
<1> QED
  BY <1>1, OrderInvariant, PTL

\* The windows of executed tests are a pause apart, whatever was refused,
\* unknown, timed out or repeated between them.
THEOREM WindowsStayApart == EmuSpec => []WindowsKeptApart
<1>1. OrderInv => WindowsKeptApart
  BY DEF OrderInv, Apart
<1> QED
  BY <1>1, OrderInvariant, PTL

=============================================================================
