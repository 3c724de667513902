----------------------------- MODULE Emulation -----------------------------
(***************************************************************************)
(* The emulation phase of a validation run: EmulationRunner.run walks the  *)
(* tests a plan asks for, SafetyPolicy.evaluate decides each one, and one  *)
(* of three executors handles it.  Only the local executor starts          *)
(* processes: the test's command under a hard timeout, then its cleanup.   *)
(*                                                                         *)
(* Everything happens in one thread.  What the environment chooses is what *)
(* a command does (exit status, time taken, whether it could be started),  *)
(* whether a cleanup succeeds, and whether somebody stops the harness.     *)
(*                                                                         *)
(* Patterns of an allow- or denylist are represented by the set of hosts   *)
(* or techniques they match; a blank authorization_reference is FALSE.     *)
(***************************************************************************)
EXTENDS Naturals, Sequences, FiniteSets

CONSTANTS
    Tests,        \* ids a plan may name, with or without a catalog entry
    Techniques,   \* ATT&CK technique ids
    ParentOf,     \* technique -> its parent technique (itself when it has none)
    Hosts,        \* host names
    Setups,       \* the invocations considered: see Setup
    MaxDuration   \* bound: longest time one command may take

Platforms == {"windows", "linux", "macos", "aws", "any"}
EXECUTORS == {"manual", "powershell", "cmd", "bash", "sh", "python"}

EmulationTest ==
    [technique: Techniques, platform: Platforms, executor: EXECUTORS,
     destructive: BOOLEAN, hasCleanup: BOOLEAN, duration: Nat]

SafetySettings ==
    [execution_requested: BOOLEAN, authorized: BOOLEAN,
     authorization_reference: BOOLEAN, host_allowlist: SUBSET Hosts,
     require_lab_tag: BOOLEAN, technique_denylist: SUBSET Techniques,
     technique_allowlist: SUBSET Techniques, allow_destructive: BOOLEAN,
     require_cleanup: BOOLEAN, max_failures: Nat]

Target == [host: Hosts, platform: Platforms, looks_like_lab: BOOLEAN]

\* One invocation: what the plan asks for, what the catalog knows, the policy,
\* the target, the backend of this run and the configured default backend.
Setup ==
    [plan: Seq(Tests), known: SUBSET Tests, catalog: [Tests -> EmulationTest],
     policy: SafetySettings, target: Target,
     backend: {"fixture", "live"}, default_backend: {"fixture", "live"},
     inter_test_delay: Nat]

ASSUME EmulationAssumption ==
    /\ Setups \subseteq Setup
    /\ ParentOf \in [Techniques -> Techniques]
    /\ MaxDuration \in Nat
    /\ IsFiniteSet(Tests)

VARIABLES
    cfg,        \* the invocation; never changes
    pos,        \* position of the runner in cfg.plan
    stage,      \* what the runner is doing with the test at pos
    failures,   \* SafetyPolicy.failures
    decisions,  \* test -> the check that blocked it, "allowed", or "none"
    skipped,    \* test -> why there is no result, or "none"
    results,    \* test -> EmulationResult
    command,    \* what is known of the main command being handled
    now,        \* the wall clock, moved by commands and pauses
    launches,   \* history: test -> times its command was handed to the OS
    behaved,    \* history: tests whose behaviour really took place
    cleaned     \* history: tests whose cleanup was attempted

emuVars == <<cfg, pos, stage, failures, decisions, skipped, results, command,
             now, launches, behaved, cleaned>>

Stages == {"pick", "main", "cleanup", "pace", "over", "killed"}

\* None: the timeout expired.  unstarted: the 127 and 126 that _invoke makes up
\* when the interpreter is missing or the process could not be started.
ExitCodes == {"zero", "nonzero", "unstarted", "None"}

EmulationResult ==
    [mode: {"none", "dry-run", "replay", "local"}, executed: BOOLEAN,
     start: Nat, finish: Nat, exit_code: ExitCodes, cleanup_performed: BOOLEAN,
     error: BOOLEAN]

NoResult == [mode |-> "none", executed |-> FALSE, start |-> 0, finish |-> 0,
             exit_code |-> "None", cleanup_performed |-> FALSE, error |-> FALSE]
NoCommand == [start |-> 0, finish |-> 0, exit_code |-> "None"]

---------------------------------------------------------------------------
(* The safety policy *)

execution_enabled(policy) ==
    /\ policy.execution_requested
    /\ policy.authorized
    /\ policy.authorization_reference

\* An empty list matches no host, so it denies everything.
HostAllowed(host, allowlist) == host \in allowlist

\* Mutant: a list names exactly the techniques written on it.
TechniqueMatchesExactly(technique, patterns) == technique \in patterns

\* A parent technique on a list also stands for its sub-techniques.
TechniqueMatches(technique, patterns) ==
    technique \in patterns \/ ParentOf[technique] \in patterns

PlatformExecutors(platform) ==
    CASE platform = "windows" -> {"powershell", "cmd", "python", "manual"}
      [] platform \in {"linux", "macos"} -> {"bash", "sh", "python", "manual"}
      [] platform = "aws" -> {"manual", "python", "bash", "sh"}
      [] OTHER -> EXECUTORS

SupportedOn(test, platform) ==
    /\ test.executor \in PlatformExecutors(test.platform)
    /\ test.platform \in {platform, "any"}

\* The checks of evaluate in the order they are reported, with their results.
Checks(test, policy, target, failed) ==
    << <<"execution_enabled", execution_enabled(policy)>>,
       <<"host_allowlist", HostAllowed(target.host, policy.host_allowlist)>>,
       <<"lab_tag", policy.require_lab_tag => target.looks_like_lab>>,
       <<"technique_denylist",
         ~TechniqueMatches(test.technique, policy.technique_denylist)>>,
       <<"technique_allowlist",
         \/ policy.technique_allowlist = {}
         \/ TechniqueMatches(test.technique, policy.technique_allowlist)>>,
       <<"destructive", test.destructive => policy.allow_destructive>>,
       <<"cleanup_defined", policy.require_cleanup => test.hasCleanup>>,
       <<"executor", test.executor # "manual">>,
       <<"platform", SupportedOn(test, target.platform)>>,
       <<"failure_budget", failed < policy.max_failures>> >>

CheckNames == {"execution_enabled", "host_allowlist", "lab_tag",
               "technique_denylist", "technique_allowlist", "destructive",
               "cleanup_defined", "executor", "platform", "failure_budget"}

\* Mutant: a refusal is just a refusal.
VerdictBlank(checks) ==
    IF \A i \in 1..10 : checks[i][2] THEN "allowed" ELSE "blocked"

\* The first check that fails names the decision.
Verdict(checks) ==
    LET failed == {i \in 1..10 : ~checks[i][2]}
    IN  IF failed = {} THEN "allowed"
        ELSE checks[CHOOSE i \in failed : \A j \in failed : i <= j][1]

evaluate(t) ==
    Verdict(Checks(cfg.catalog[t], cfg.policy, cfg.target, failures))

---------------------------------------------------------------------------
(* The runner *)

\* EmulationRunner._mode: what the phase calls itself.
Mode == IF execution_enabled(cfg.policy) THEN "local"
        ELSE IF cfg.default_backend = "fixture" THEN "replay"
        ELSE "dry-run"

\* The executor that handles tests: forced to replay on the fixture backend.
ExecutorMode == IF cfg.backend = "fixture" THEN "replay" ELSE Mode

\* Mutant: a plan in which several rules share a test keeps every mention.
EveryMention(p) == p = p

\* _dedupe: only the first mention of a test in the plan counts.
Fresh(p) == \A j \in 1..(p - 1) : cfg.plan[j] # cfg.plan[p]

\* Whether a test remains after position p.
MoreAfter(p) == \E q \in (p + 1)..Len(cfg.plan) : Fresh(q)

current == cfg.plan[pos]
AtTest == stage = "pick" /\ pos <= Len(cfg.plan) /\ Fresh(pos)

EmuInit ==
    /\ cfg \in Setups
    /\ pos = 1 /\ stage = "pick" /\ failures = 0 /\ now = 0
    /\ decisions = [t \in Tests |-> "none"]
    /\ skipped = [t \in Tests |-> "none"]
    /\ results = [t \in Tests |-> NoResult]
    /\ command = NoCommand
    /\ launches = [t \in Tests |-> 0]
    /\ behaved = {} /\ cleaned = {}

\* A mention of a test the runner has already seen.
DropRepeat ==
    /\ stage = "pick" /\ pos <= Len(cfg.plan) /\ ~Fresh(pos)
    /\ pos' = pos + 1
    /\ UNCHANGED <<cfg, stage, failures, decisions, skipped, results, command,
                   now, launches, behaved, cleaned>>

\* Mutant: the loop is written with an index, and `continue` forgets it.
SkipUnknownInPlace ==
    /\ AtTest /\ current \notin cfg.known
    /\ skipped' = [skipped EXCEPT ![current] = "unknown"]
    /\ UNCHANGED <<cfg, pos, stage, failures, decisions, results, command, now,
                   launches, behaved, cleaned>>

\* The catalog has no such test: it is skipped without a decision.
SkipUnknown ==
    /\ AtTest /\ current \notin cfg.known
    /\ skipped' = [skipped EXCEPT ![current] = "unknown"]
    /\ pos' = pos + 1
    /\ UNCHANGED <<cfg, stage, failures, decisions, results, command, now,
                   launches, behaved, cleaned>>

\* Mutant: the refusal is logged and not kept.
RefuseSilently ==
    /\ AtTest /\ current \in cfg.known
    /\ evaluate(current) # "allowed" /\ Mode = "local"
    /\ decisions' = [decisions EXCEPT ![current] = evaluate(current)]
    /\ pos' = pos + 1
    /\ UNCHANGED <<cfg, stage, failures, skipped, results, command, now,
                   launches, behaved, cleaned>>

\* A blocked test of an executing run has no executor and is skipped with
\* the reason; the loop goes on without pausing.
Refuse ==
    /\ AtTest /\ current \in cfg.known
    /\ evaluate(current) # "allowed" /\ Mode = "local"
    /\ decisions' = [decisions EXCEPT ![current] = evaluate(current)]
    /\ skipped' = [skipped EXCEPT ![current] = evaluate(current)]
    /\ pos' = pos + 1
    /\ UNCHANGED <<cfg, stage, failures, results, command, now, launches,
                   behaved, cleaned>>

\* Mutant: an errored test is not charged to the failure budget.
ConcludeUncharged(result) ==
    /\ results' = [results EXCEPT ![current] = result]
    /\ failures' = failures
    /\ stage' = "pace"

\* The end of one loop body: the result is kept and an error is charged to
\* the failure budget.
Conclude(result) ==
    /\ results' = [results EXCEPT ![current] = result]
    /\ failures' = failures + (IF result.error THEN 1 ELSE 0)
    /\ stage' = "pace"

\* DryRunExecutor and ReplayExecutor: a window is reserved, nothing runs.
\* A dry run of a blocked test carries the refusal as its error.
Reserve ==
    /\ AtTest /\ current \in cfg.known
    /\ evaluate(current) = "allowed" \/ Mode # "local"
    /\ ExecutorMode \in {"dry-run", "replay"}
    /\ decisions' = [decisions EXCEPT ![current] = evaluate(current)]
    /\ Conclude([mode |-> ExecutorMode, executed |-> FALSE,
                 start |-> now, finish |-> now + cfg.catalog[current].duration,
                 exit_code |-> "None", cleanup_performed |-> FALSE,
                 error |-> /\ ExecutorMode = "dry-run"
                           /\ evaluate(current) # "allowed"])
    /\ UNCHANGED <<cfg, pos, skipped, command, now, launches, behaved, cleaned>>

\* LocalExecutor.run up to the start of the process.
Launch ==
    /\ AtTest /\ current \in cfg.known
    /\ evaluate(current) = "allowed"
    /\ ExecutorMode = "local"
    /\ decisions' = [decisions EXCEPT ![current] = "allowed"]
    /\ command' = [NoCommand EXCEPT !.start = now]
    /\ launches' = [launches EXCEPT ![current] = @ + 1]
    /\ stage' = "main"
    /\ UNCHANGED <<cfg, pos, failures, skipped, results, now, behaved, cleaned>>

LocalResult(cmd, cleanedUp) ==
    [mode |-> "local", executed |-> TRUE, start |-> cmd.start,
     finish |-> cmd.finish, exit_code |-> cmd.exit_code,
     cleanup_performed |-> cleanedUp, error |-> cmd.exit_code = "None"]

\* Mutant: a command that timed out is abandoned without its cleanup.
NeedsCleanupUnlessTimedOut(code) ==
    cfg.catalog[current].hasCleanup /\ code # "None"

\* Whether LocalExecutor goes on to the cleanup block.
NeedsCleanup(code) == cfg.catalog[current].hasCleanup

\* _invoke returns.  If the process could not be started no behaviour took
\* place; in every other case it did, at least in part.
CommandReturns ==
    /\ stage = "main"
    /\ \E code \in ExitCodes, d \in 0..MaxDuration :
        LET done == [command EXCEPT !.finish = now + d, !.exit_code = code]
        IN  /\ now' = now + d
            /\ command' = done
            /\ behaved' = IF code = "unstarted" THEN behaved
                          ELSE behaved \cup {current}
            /\ IF NeedsCleanup(code)
               THEN stage' = "cleanup" /\ UNCHANGED <<results, failures>>
               ELSE Conclude(LocalResult(done, FALSE))
    /\ UNCHANGED <<cfg, pos, decisions, skipped, launches, cleaned>>

\* The cleanup block runs whatever the command did.
CleanupReturns ==
    /\ stage = "cleanup"
    /\ \E ok \in BOOLEAN, d \in 0..MaxDuration :
        /\ now' = now + d
        /\ Conclude(LocalResult(command, ok))
    /\ cleaned' = cleaned \cup {current}
    /\ UNCHANGED <<cfg, pos, decisions, skipped, command, launches, behaved>>

\* Mutant: the pause belongs to the plan's first test only.
PauseOnce(p) == IF cfg.policy.execution_requested /\ Mode = "local" /\ p = 1
                THEN cfg.inter_test_delay ELSE 0

\* Seconds the loop sleeps before the next test: only while executing, and
\* not after the last one.
Pause(p) == IF cfg.policy.execution_requested /\ Mode = "local" /\ MoreAfter(p)
            THEN cfg.inter_test_delay ELSE 0

Pace ==
    /\ stage = "pace"
    /\ now' = now + Pause(pos)
    /\ pos' = pos + 1
    /\ stage' = "pick"
    /\ command' = NoCommand
    /\ UNCHANGED <<cfg, failures, decisions, skipped, results, launches,
                   behaved, cleaned>>

\* The loop is exhausted and run returns its EmulationOutcome.
Return ==
    /\ stage = "pick" /\ pos > Len(cfg.plan)
    /\ stage' = "over"
    /\ UNCHANGED <<cfg, pos, failures, decisions, skipped, results, command,
                   now, launches, behaved, cleaned>>

\* Ctrl-C or a kill while the phase is under way; nothing has been stored.
Interrupt ==
    /\ stage \notin {"over", "killed"}
    /\ stage' = "killed"
    /\ UNCHANGED <<cfg, pos, failures, decisions, skipped, results, command,
                   now, launches, behaved, cleaned>>

Progress == \/ DropRepeat \/ SkipUnknown \/ Refuse \/ Reserve \/ Launch
            \/ CommandReturns \/ CleanupReturns \/ Pace \/ Return

EmuNext == Progress \/ Interrupt

EmuSpec == EmuInit /\ [][EmuNext]_emuVars

\* Every command has a hard timeout and every pause is finite, so the loop
\* is never stuck inside a step.
EmuFairSpec == EmuSpec /\ WF_emuVars(Progress)

---------------------------------------------------------------------------
(* Correctness *)

\* Types of the phase's state.
EmuTypeOK ==
    /\ cfg \in Setups
    /\ pos \in Nat \ {0}
    /\ stage \in Stages
    /\ failures \in Nat
    /\ decisions \in [Tests -> CheckNames \cup {"allowed", "none"}]
    /\ skipped \in [Tests -> CheckNames \cup {"unknown", "none"}]
    /\ results \in [Tests -> EmulationResult]
    /\ command \in [start: Nat, finish: Nat, exit_code: ExitCodes]
    /\ now \in Nat
    /\ launches \in [Tests -> Nat]
    /\ behaved \in SUBSET Tests
    /\ cleaned \in SUBSET Tests

\* What has to be true before anything runs on a machine, in the policy's own
\* words: a recorded authorisation, an allowlisted (lab) host, a technique the
\* operator did not exclude directly or through its parent, and did include if
\* anything was, nothing destructive or irreversible without opt-in, never an
\* operator's manual test, and only what was written for the target's platform.
Permitted(t) ==
    LET entry == cfg.catalog[t] IN
    /\ cfg.policy.execution_requested
    /\ cfg.policy.authorized /\ cfg.policy.authorization_reference
    /\ cfg.target.host \in cfg.policy.host_allowlist
    /\ cfg.policy.require_lab_tag => cfg.target.looks_like_lab
    /\ {entry.technique, ParentOf[entry.technique]}
           \cap cfg.policy.technique_denylist = {}
    /\ cfg.policy.technique_allowlist # {} =>
          {entry.technique, ParentOf[entry.technique]}
             \cap cfg.policy.technique_allowlist # {}
    /\ entry.destructive => cfg.policy.allow_destructive
    /\ cfg.policy.require_cleanup => entry.hasCleanup
    /\ entry.executor # "manual"
    /\ entry.platform \in {cfg.target.platform, "any"}

\* No process is started for a test unless every part of the recorded
\* authorisation covers it, and never against the fixture backend: safety.py
\* promises default deny, whatever mode the run chose for itself.
CommandsArePermitted ==
    \A t \in Tests : launches[t] > 0 => Permitted(t) /\ cfg.backend = "live"

\* Several rules usually share a test, and the runner still starts each test's
\* command at most once.
RunsAtMostOnce == \A t \in Tests : launches[t] <= 1

\* An executing run stops after max_failures emulation errors: however the
\* commands fail, no more results than the budget carry an error.
FailureBudgetHolds ==
    Mode = "local" =>
        Cardinality({t \in Tests : results[t].error}) <= cfg.policy.max_failures

\* The windows of two executed tests never come closer than the pause between
\* tests, even when the tests between them were refused or unknown, when a
\* command was cut off by its timeout, or when a cleanup took its time.
WindowsKeptApart ==
    \A s, t \in Tests :
        s # t /\ results[s].executed /\ results[t].executed =>
            \/ results[s].finish + cfg.inter_test_delay <= results[t].start
            \/ results[t].finish + cfg.inter_test_delay <= results[s].start

\* Before another test starts, or the phase returns, every behaviour that took
\* place had its cleanup attempted when it defines one: after a timeout and
\* after a failure as much as after success.
CleanupBeforeNext ==
    stage \in {"pick", "over"} =>
        \A t \in behaved : cfg.catalog[t].hasCleanup => t \in cleaned

\* A returned phase answers for every test the plan named, exactly once: with
\* a result or with the reason there is none.
EveryTestAnswered ==
    stage = "over" =>
        \A p \in DOMAIN cfg.plan :
            (results[cfg.plan[p]].mode # "none")
                <=> (skipped[cfg.plan[p]] = "none")

\* The phase comes to an end: it returns, or somebody stopped it.
PhaseEnds == <>(stage \in {"over", "killed"})

=============================================================================
