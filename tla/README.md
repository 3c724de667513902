# TLA+ verification of the detection validation pipeline (dvp)

dvp runs harmless emulations of attacker behaviour in a lab, asks a log platform
whether each detection rule fired, and says of every rule variant (a *case*)
whether it was DETECTED, VISIBLE (telemetry arrived, the rule missed), BLIND
(no telemetry), ERROR or SKIPPED. The verdicts are compared with the previous
run, gated into an exit code, and stored.

What makes it hard to test is that its answer is a statement about *absence*:
"nothing matched" must mean that nothing was there. So most of what is checked
here is about the ways in which absence can be manufactured (a query that
failed, telemetry that was late, a test that never ran, a row that was not yet
written, a recording that was cut off, a rule file that did not load) and about
what several processes do to one run database, corpus or schedule.

Contents: inventory · plan · the modules · the runs · the proofs · disagreements
found · what is not modelled.

## Inventory

| Component | State it keeps | Operations | Interacts with |
| --- | --- | --- | --- |
| Emulation phase `harness/emulation/{runner,safety,executors,catalog}.py` | failure count; results, decisions and skipped tests of the phase | `EmulationRunner.run`, `SafetyPolicy.evaluate`, `run` of the dry-run, replay and local executors | called by the pipeline; starts processes on the host |
| Pipeline `harness/pipeline.py` | one run's cases, windows, deadline, pending queries, observations | plan, baseline window, emulate, settle, collect (poll loop, probes, baseline), classify, score, record | runner, backend, classifier, store |
| Classifier `harness/analysis/classify.py` | none | `classify` | models |
| Platforms `harness/backends/*.py` | fixture: corpus and anchors; live: HTTP sessions | `search`, `set_anchors`, `ping` | pipeline, recorder |
| Scoring `harness/analysis/{coverage,diff,baseline,gates}.py` | none | `CoverageReport`, `diff_runs`, `noisy_rules`, `evaluate_gates` | pipeline, store (previous run), CLI |
| Store `harness/store.py`, `storage/migrations/*.sql` | the SQLite file | `migrate`, `save_run`, `previous_run`, `load_run`, `prune`, statistics | every command; several processes at once |
| Dashboard `dashboard/app` | none (a connection per request) | page views | store |
| Rule language `rulekit/{rule,condition,matcher,library,telemetry}.py` | loaded rules | parse, evaluate, match, required telemetry, load a library, select | compilers, fixture backend, planner, linters |
| Compilers `rulekit/compilers.py` | `_eval_mode`, between two rules | rule to SPL, Lucene, KQL, or a predicate | backends |
| Scorecard, linters `rulekit/scorecard`, `rulekit/linters` | none | `score`, `lint` | rules, last outcomes in the store |
| Recorder `harness/recorder.py` | the corpus it captures; two files of a directory | capture, attribute events to windows, write | pipeline with `--record`, fixture backend |
| Heartbeat `harness/analysis/heartbeat.py` | none | fold observations into source health | corpora, CLI |
| Profiles `harness/profiles.py` | loaded profiles | load, select, override settings | planner, schedule |
| Schedule `scheduler/jobs.yml`, `scripts/render_systemd.py` | a manifest and the committed drop-ins | render, check | profiles; starts runs |
| Configuration `harness/core/*.py` | settings | load, resolve time windows | everything |
| Reports, CLI `harness/reporting`, `harness/cli.py` | none | print, write, order the commands | everything |

There are no threads inside a run and no daemon. Concurrency comes from the
platform (telemetry arrives while queries are asked), from the clock, from
people (who edit rules, profiles, manifests and drop-ins between and during
commands) and from *processes* on one database or corpus: nightly, weekly and
monthly runs, pruning, migrations, manual commands, and a dashboard that serves
requests in threads.

Hard behaviours, and what correctness means for each component:

- **Emulation.** Refusals, unknown tests, timeouts, unstartable commands and a
  failure budget in any order. Only authorised tests run, once each, at a
  distance, with their cleanup; every planned test gets an answer; the phase ends.
- **Pipeline.** The poll loop races late telemetry; windows of neighbouring
  tests overlap; any query may fail. A failure is never a gap, telemetry in time
  counts, BLIND means that nothing had arrived, noise is not the emulation
  itself, an offline run shows what was recorded and nothing else, a run ends.
- **Scoring.** Runs are compared pairwise while verdicts come and go; the same
  rates are computed twice; documented gaps are excused in several places. No
  loss is silent, no gap falls out of the work queues, documented gaps pass, and
  a rule is graded by its worst test.
- **Store.** Autocommitted migrations, reads of several statements, lock
  timeouts, deaths in between. It holds whole runs for their retention period,
  loads are whole, version rows tell the truth, nobody waits for ever.
- **Rule language and compilers.** Equivalence of the condition evaluator, the
  matcher and the dialects, missing fields and negation included. One broken
  file costs its own cases.
- **Recorder.** Sources fail, are unmapped or cut off; windows overlap; runs
  share a name and die while they write. A replay invents nothing, omissions are
  said, and what was recorded stays.
- **Heartbeat.** Ages at the limits, clocks ahead, hosts never heard of: silence
  is named, and only silence.
- **Schedule.** Written file by file, interrupted, edited by hand: what runs is
  what the manifest says, or the check fails.

The hazards, with their lines and the properties that cover them, are in
`PROJECT.json`.

## Plan

All components that keep state or decide something about a run are written, the
most important first: `Emulation`, `Classify`, `Pipeline` (composing the two),
`Store` with its abstract specification `Archive`, `Score` and `Scorecard`,
`Condition` with `Rules`, `Recording` with `Heartbeat`, and `Planning` with
`Schedule`, composed in `Operations`; proofs about all of them. What is left, and
worth doing next:

1. **Composition of run and store.** `Pipeline` and `Store` meet in
   `_compare` and `_store_result`; an sqlite3 error there ends a run after its
   emulation (a hazard without a property).
2. **Breadth within the rule language.** Numbers, networks and value transforms
   in `Rules`; the linters as predicates over `Scorecard`'s texts.

Abstract specifications worth stating: `Archive` (stated, checked and proved to
be implemented); a verdict as a function of ground truth ("telemetry arrived in
time", "the rule matches it"), today stated property by property on `Pipeline`.

## The modules

### Emulation

`EmulationRunner.run` walks the plan; `pos` is its loop variable and `stage` the
place in the loop body. `DropRepeat` is `_dedupe`, `SkipUnknown` and `Refuse`
are the two `continue` paths, `Reserve` is a dry-run or replay result, `Launch`,
`CommandReturns` and `CleanupReturns` are `LocalExecutor.run`, `Pace` is the sleep between
tests, and `Interrupt` is Ctrl-C or a kill. `Checks` lists the ten checks of
`SafetyPolicy.evaluate` in their order, and `Verdict` the first that fails.
`launches`, `behaved` and `cleaned` are history: what was really started, what
really took place on the host, and which cleanups were tried. `Mode` and
`ExecutorMode` keep the difference in the code between the mode of the run and
the executor of a test. Patterns of allow- and denylists are the sets they match.

### Classify

`classify` and its helpers as operators over an observation: skip reasons,
emulation errors, query errors, detection, telemetry, confidence, latency,
status. Also used by `Score` and `Recording`.

### Pipeline

Extends the two and runs `Emulation`'s `Progress` as its third stage. `phase` is
the stage of `Pipeline.run`; `After` is their order. `pending` and `still_pending`
are the lists of the poll loop; one action per query (`AskDetection`,
`ProbeTelemetry`, `AskBaseline`), each of which may fail. What a live
platform returns is decided when the query is *sent* and the deadline is read when it has
*returned*; events become searchable `Lags` after they happen, or never within
the run. `Platform`, `Found`, `Pages` and `Answer` are what the backends do: the
fixture backend anchors recorded events to this run's tests and honours
attribution; the live ones do not. A search returns a page of what it finds, and
the earliest time stamp is that of the page. The fixture backend fills it in
the order of its lines and sorts it afterwards, so `corpus` is a sequence; a live
platform may return any matches up to the cap. A platform that reports no total
takes a full page for a cut-off one (`CountsAll`). `Window` and `BaselineWindowOf` are the two
time windows. `Abandon` is a kill: a run keeps nothing until it is stored.

Deliberate simplifications: a behaviour leaves one event, stamped when its
command ends; the baseline queries take no time (nothing reads the clock after
them); the choice of cases is a constant; an abandoned run drops its in-memory state at
once. `Abandon` leaves the emulation variables as they were.

### Comprehension

One operator, `Only`: the list comprehension with a condition, by which the run
selects pending cases and the recorder and the offline search select documents. A
recursive function, so that `Comprehension_proofs` can say what it returns.

### Recording and Heartbeat

A behaviour of `Recording` is a history of live runs that record under few
names. `todo` are the sources that `capture` has still to ask: `SkipUnmapped`,
`SourceFails` and `SourceAnswers` are its three ways, and `said` what ends in
`corpus.errors`. A page of a cut-off search is any subset of the right size,
in one of the orders that put newer events first (`NewestFirst`; equal times come
in any order). `WindowFor` is the attribution: the earliest of the overlapping
windows. `Captured` sorts (`Sorted`: a document's place is the number of
documents that precede it, so equal ones keep their order), `Refuse`, `WriteManifest` and `WriteEvents` are
`write_corpus` with its two files, and `Crash` may leave any prefix of the
lines, the last one torn. `ReplayOutcome` is what an offline run makes of the
files: loading all corpora in directory order, the search that stops collecting
at its cap, and the classifier's decision. `LiveOutcome` is what the recording
run itself saw, with the wider windows of the verdicts. Which sources the
platform and the fixture backend have a selector for may differ (`Mapped`,
`Offline`); a case none of whose sources has one is queried without a scope and
not probed (`InScope`, `Outcome`).

`Heartbeat` folds observations into one beat per host. Grace counts half
intervals, so that limits fall between two instants and a grace may be below one
interval; `reports` and `HeartbeatExit` are the command over several sources,
each with its own default moment and, if it declares one, its own cadence
(`IntervalOf`, `GraceOf`; an interval of 0 counts for none). `Listened` are the
sources with a selector for the fixture backend: the command passes over any
other, and reports nothing of it. `Sighted` leaves out lines that name no host.

Simplifications: the events of a corpus are recorded whole (redaction is left
out); the manifest is written in one step (a torn `manifest.yml` would be
refused by every later run, like a torn line); recordings follow one another,
so two that run at once under one name, of which both find it free before either
writes (`recorder.py:299` and `343`), are not covered; an undated event is
dropped, as the code does; the heartbeat is asked about corpora and not about a platform.

### Store and Archive

One process per command, each with a program counter and the local variables it
carries across statements (`me`). Every SQLite statement is an action: outside a
transaction it is atomic and committed; inside one it changes `draft` and
`Commit` publishes it. `lock` is SQLite's single write lock; `GiveUp` is the
busy timeout, `Crash` a death with the rollback SQLite performs on recovery.
`Look`, `Find`, `Load` are `_compare`, `previous_run` and `load_run`;
`OpenMigrations`, `SkipMigration`, `RefuseEdited`, `Execute`, `RecordVersion`
are `migrate`; `Begin`, `Insert`, `CommitSave` are `save_run`; `Measure`,
`Delete`, `CommitPurge`, `Vacuum` are `prune`. *Refused* is a `StorageError`, which the
CLI reports, *raised* any other exception, which ends the command.

`Archive` is the promise: runs enter whole, in one step, and leave whole once
they have outlived the retention period. `Store` implements it with
`contents <- rows`, `began <- started`.

Simplifications: a run is identified with the process that performs it; `cases`
stands for the tables that hang off a case; coverage snapshots and findings are
written in the same transaction and not told apart; `schema_migrations` is
created with the first read of it; a migration's content is "original" or
"edited". The checksum algorithm, PRAGMAs, views' contents, and power loss
beyond SQLite's guarantees are left out.

### Score and Scorecard

Stage 7 and the end of `dvp run`, one run after another. `Score(run, compare)`
summarises a run, compares it with the last stored one (or with none, as with
`--no-compare`), and evaluates the eight gates; `StoreResult` and `Forget` are
the two ends of `_store_result` (`--no-store`); `NothingSelected` is the early return for an
empty plan. Rates are compared as fractions, targets in percent. The tactic
"unmapped" is left out: it cannot be critical.

`Scorecard` is `dvp rules score` over that history: `latest_case_outcomes` is
the view, `latest_outcomes` the worst of a rule's cases, `_score_...` the six
dimensions, `total` their weighted sum in tenths of a point (a tie, which
floating point rounds either way, is rounded up). What the scorer reads in a
rule file is a record of facts about its text.

### Planning, Schedule and Operations

`Planning` is how a run decides what to validate: `RulesOf` (a broken file is
left out, of two with one name the first stays), `select` with its selectors,
`ProfileNamed` (of two, the *last* stays), `plan`, and `Begin`, the early
returns of `Pipeline.run`. The files of a directory are a sequence, in the order they are read.

`Schedule` is the manifest and `render_systemd.py`. `render` is the drop-ins the
manifest means (`BackendFor`: the job's backend, else the manifest's default, else
the fixture; a service's command line always names one), `JobRefused` the reasons for which there are none. A render is
not atomic: `StartWrite` reads, `RemoveStale` and `WriteItem` change one file
each, `Interrupt` ends it between two or tears one. `EditManifest`,
`EditProfiles` and `EditDropIn` are the people. A render of the default output and one of
another directory are told apart, because the code removes from the one and
writes to the other.

`Operations` composes them: a timer of a tree that the check has passed fires
and starts a run with the rule and profile files of that day. Rules break by
the choice of a library. That the host's units are those of the checked tree is
taken for granted: `cp -r`, by which they are installed, leaves drop-ins behind
that the tree no longer has, and is not modelled.

### Condition and Rules

`Condition` is `parse_condition`: `parse_or`, `parse_and`, `parse_not`,
`parse_atom`, `parse_quantifier` and `resolve_reference` as operators that take
an index into the tokens and return the operands they read with the next index,
or `ConditionError`. Where the code calls itself, the operator looks up what is
read from a later index (`rest`), so that the parser is one function on the
positions of a text (`ParsedFrom`) and can be proved about. `Operands` is the
loop of `parse_or` and `parse_and`. `Expression` is the grammar of the module's
docstring itself, as the set of meanings a stretch of tokens can have, with no
tree. A meaning is the set of sets of satisfied selections that make the
condition true. `Tree` are the trees up to the depth `MaxDepth`, which is any
number above twice the length of every condition: a lemma shows that the
parser builds none that is deeper. A selection may have any name, a keyword's, a
number's or a pattern's included: the code resolves each of them in its own way,
and so does the model.

`Rules` takes a file through `Load` (`Rule.from_dict`), `get_compiler`,
`Compile` (detection and probe) and `NextRule`, which hands the next case's file
to the *same* compiler; `eval_mode` is the one thing a compiler remembers.
`build_selection_predicate`, `_build_field_predicate` and `_value_matcher` are
the matcher, `Like` the translation of wildcards. A query stands for the set of
events it finds, in place of its text: `_render`, `_and`, `_or`, `_not` and the
four `...Comparison` operators build the set as the compilers build the text,
clause by clause, and `Finds` adds the scope. `Expressible` says which rules a
dialect has words for.

What a platform makes of a clause is not in this repository: `Scoped` and
`Satisfies` are external. They take absent fields to match nothing, Boolean
operators to be Boolean, and texts to compare regardless of case unless the
query asks otherwise, which is what `matcher.py` says of the platforms. Real
platforms are less uniform (`like`, `match` and KQL's `matches regex` heed case,
Lucene anchors regular expressions, SPL's `where` has a third truth value), and
nothing is claimed about that: regular expressions are made of `.` and `.*` and
cover whole texts. Left out: the lexer and quoting, escaped wildcards, numbers,
networks, value transforms, null among other values, wildcards in keywords, and
`scope_filter`.

## The runs

| Run | Question | Bounds, and why they suffice |
| --- | --- | --- |
| `emulation` | Which commands run, how often, when, with which cleanup; does the phase end? | Four tests (one unknown), ten policies that differ from an open one in one respect each, three sites, both platforms and defaults, plans of three and four positions with a repeat. Commands take 0 or 1 and may fail, time out or not start (`MaxDuration = 1`). Every check of the policy decides some test; the budget is 1 or 2, so it is spent and not spent. |
| `pipeline` | What may verdicts say, live and offline; does a run end? | Two tests, five cases (two variants of one rule, one without a probe, one that does not compile, one disabled), five invocations: executing, partly refused, not executing with either default backend, and offline with six corpora, two of which hold more matches than a page of two (`SearchLimit`): one in the order of time and one not. Telemetry arrives after 3 (past the settling time, inside the wait budget) or 99 (never). One query may fail (`MaxFailures`). Queries take 0 or 1 against a budget of 4, so there are several polls and the deadline is met before, at and after a query. `Horizon` is never reached. |
| `recording` | What do replays and heartbeats say of corpora that were recorded under failures? | Two adjacent tests that meet in one instant, and a baseline window; three sources, one without any selector, one with a cadence of its own; nine events inside, between, after and on the edge of the windows, undated, without a host or covered by two sources; four cases, one of which has no selector at all; six histories of one run and sixteen of two, under one name or two, with and without overwriting. One failing query and one death in a history (`MaxFaults`, `MaxCrashes`), at every point. A page of two and an offline cap of one, so both are reached. Heartbeats over every set of sources, with intervals, graces and moments on either side of every limit. |
| `store` | Is the database an archive of whole runs, and does everybody finish? | Two runs; run, prune and page view; run, migrate and prune, all interleavings with crashes and lock timeouts, over databases with 0, 1 or 3 migrations applied and checkouts with and without an edited one. Three processes are enough for a writer that meets a half-finished writer while a third reads or deletes. Two days and a retention of one put an old run on each side of the cutoff. |
| `programme` | What do successive runs report, what fails a build, and how are the rules graded? | Up to two of four cases per run with six verdicts each, one case planned twice, an empty plan, two stored runs and a third compared with them (`MaxStored`); strict gates. One rule has two tests that are not always planned together and is flawless but for their results; one technique is shared by two rules, one is out of scope, two cases are documented gaps. |
| `operations` | Does what a host runs follow the manifest and the rules, whatever is edited, interrupted or broken? | Two profiles, twelve manifests (unreadable, empty, executing, unauthorised, a profile twice, no profile, a backend of the job, of the manifest or of neither, every form of a schedule), three sets of profile files, three edits (`MaxEdits`) of anything between commands, an interrupt at every point of every render; libraries of up to three files, broken, duplicated, disabled and retired; four sets of profile documents. Three edits let a manifest change twice around a hand edit. |
| `rules` | Does the parser follow its grammar, does every query mean the rule, does every probe cover its query? | Every sequence of up to three of fifteen tokens and of four of ten, and 864 longer conditions with three operands, negations and parentheses; 75 ways to test a field and six other shapes of a selection, under three conditions and five lists of sources; eight rules that mix a regular expression with a selection that must then be rendered as a `where` clause; four dialects; a second rule, plain or with a regular expression, compiled by the same compiler; 42 events. Three operands tell conjunction, disjunction and negation apart at any nesting; three more selections are named `all`, `filter*` and `1`. Texts of up to three characters over two letters, one in both cases, and the wildcards of both languages meet every anchoring and mode. The longest condition has fifteen tokens, so `MaxDepth = 31`. |
| `never_started`, `half_migrated`, `replayed`, `recorded_twice`, `not_strict` | Does the code do what the quoted text says? | It does not: see below. |

What the passing runs establish, property by property:

- Emulation: `CommandsArePermitted` (default deny over all checks but the budget),
  `RunsAtMostOnce`, `FailureBudgetHolds`, `WindowsKeptApart`,
  `CleanupBeforeNext`, `EveryTestAnswered`, `PhaseEnds`.
- Pipeline: `FailuresAreNotGaps`: trouble ends as SKIPPED or ERROR.
  `TelemetryInTimeCounts`: nothing that arrives within settling plus waiting is
  missed. `BlindMeansNothingArrived`: the probe comes after the last detection
  query. `ReplayDetects`: what was recorded inside a rule's budget is detected
  offline, however many lines there are and in whatever order; the latency is
  no later than recorded too, unless the search was cut off over lines that are
  out of order (see below). `BaselineUntouched`, `ReplayAttributes`,
  `RunCompletes`.
- Recording: `ReplayInventsNothing` (a replay detects only what happened in that
  test's own window, through failures, caps, overlaps and torn files),
  `OmissionsAreSaid` (an event that is missing from a finished corpus has a
  source named in `corpus.errors`), `EvidenceStays` (no run changes a corpus it
  was not told to overwrite), `CapKeepsEarliest` (the cap of the offline search
  does not change a latency), `SilenceIsNamed` (the heartbeat's exit code and its
  silent hosts, at every limit, by the cadence of each source that is listened
  to).
- Store: `RunsAreStoredWhole` (refinement of `Archive`), `LoadsAreWhole` (although
  `load_run` opens no transaction: a concurrent prune is the only way to see
  less), `StoredRunsStay`, `RecordedTablesExist`, `EditedStopsMigrating`,
  `EveryProcessEnds`.
- Programme: `NoDropGoesUnreported`, `GapsReachAQueue`, `RatesAgree`,
  `DocumentedGapsPass`, `WorstTestDecides` (no second test, later run or polish
  makes up for a gap).
- Operations: `ScheduleIsTheManifest` (when the script exits 0 the tree is the
  manifest's, to the authorisation and the backend), `BrokenRuleCostsOnlyItself`.
- Rules: `ConditionFollowsGrammar` (acceptance and meaning), `QueryMeansTheRule`
  (a query finds, within its scope, exactly what the offline predicate matches,
  of every rule its dialect can express), `ProbeCoversDetection`.

Each has a mutant in `PROJECT.json`, a plausible bug in the code it
models, under which the run fails.

**Fairness.** `Emulation` and `Pipeline`: weak fairness of the run's own steps,
because commands have hard timeouts (`subprocess.run(timeout=...)` and a bounded
cleanup), sleeps are finite and HTTP clients have timeouts. Kills are never
fair. `Store`: weak fairness of each process's statements, because the
operating system schedules them and a transaction holds the lock for a bounded
number of statements. Neither lock timeouts, deaths nor the passing of days are
fair. The other modules state safety only and assume none. Deadlock checking is
off everywhere because runs, plans, histories and commands do end.

## The proofs

They hold for every value of the constants that meets the named assumption of
the module (`EmulationAssumption`, `PipelineAssumption`, `RecordingAssumption`,
`StoreAssumption`, `ScoreAssumption`, `ScorecardAssumption`,
`ScheduleAssumption`, `OperationsAssumption`, `ConditionAssumption`,
`RulesAssumption`): inputs have their types; what the code reads from a list or
a directory is a sequence, and no corpus name is listed twice; what it counts
(rules and their telemetry, the events of a live run) is finite; patterns match
selections of the rule and are not spelled like keywords, and no character but a
wildcard has a wildcard for its lower case. TLC evaluates all of them.

**Emulation** (`Emulation_proofs`) — `EmuTypeCorrect`,
`NothingRunsUnpermitted`, `EachTestRunsOnce`, `ErrorsStayInBudget`,
`CleanupsComeFirst`, `EveryTestIsAnswered`, `WindowsStayApart`. None of the
safety properties is inductive. `EmuInv` adds
that a test that was launched or answered is mentioned at or before the runner's
position (so a fresh position names an untouched test); that `failures` is the
number of results with an error (so a new one raises it by one); and that while a
command is being handled, the room it was started under is still there.
`AllowedMeansPermitted` connects the order of the ten checks to the
authorisation they stand for. `Tidy` keeps the one cleanup that may be due,
`Answered` that exactly the tests behind the runner have an answer, and `Apart`
that while another test remains every executed window already lies a pause back.

**Pipeline** (`Pipeline_proofs`) — `PipeTypesHold`,
`FailuresNeverGaps`, `BlindIsBlind`, `BaselineStaysUntouched`,
`ReplaysAreAttributed`, `ReplaysDetect`, `TelemetryCounts`.
Verdicts are functions of observations (`Judged`), so `RunInv` says what an observation keeps of the
platform (`Witnessed`): a positive answer has an event that explains its first
time stamp, an empty probe had nothing to find when the detection was last
asked for, baseline hits are bounded by the everyday events. The platform still
grows while a run emulates and the fixture backend is anchored after that, so
`InTurn` says that nothing is asked before, and `Later` that whatever a test
leaves behind comes after the baseline window. The phases after emulation move
nothing but the clock, so the invariants of the emulation phase carry over
(`ClockOnly`). An earliest event exists because a finite set of integers has a
least element (`LeastElement`, by well-foundedness). `ReplaysDetect` is the
converse of attribution: windows run forward (`Forward`), the backend has its
anchors before it is asked (`Anchoring`), so every answer counts each recorded
event of its case, and starts no later than it if it was not cut off or its
lines are in order (`Complete`): a page of lines in order that leaves an event
out holds an earlier one.

`TelemetryCounts` is about time. A live event carries the end of its behaviour
(`Stamped`), so settling and the wait budget are granted after every event
(`Budgeted`). The poll loop asks the cases one after the other, and the later ones pay
for the earlier: within a round no case has waited longer than the queries the
round has made (`Polling`), so whoever was answered with nothing is queued
again, or was asked within one round of the deadline (`Patient`). What he was not
told of was not yet searchable (`Unmatched`). An event that arrives within
settling plus waiting less one round was therefore searchable at the last question,
and its case is DETECTED. That a round asks each case once rests on what
`Only` returns.

**Comprehension** (`Comprehension_proofs`) — the lemmas on `Only`: it keeps
exactly the chosen elements, in their order (`OnlySelects`). The library's induction
rules cannot be instantiated, so the induction over positions is written out as a
least counterexample (`Climbs`, `LeastElement`).

**Recording** (`Recording_proofs`) — for any number of runs, failures and deaths.
`CorporaAreEvidence`, an action property, rests on the order of the two files: a
directory without a manifest is empty, and a run that writes events has written
that manifest. The others are consequences of one invariant, `RecInv`, which
says what a document is and follows it to the disk: every document of
a corpus is an event of its run, placed at its distance from the start of a window
that holds it (`Evident`); each source is still to be asked, named in the errors, or has brought
every placeable event it covers (`Caught`); documents are written in order
(`InOrder`); and what a directory holds is a beginning of what its run captured,
all of it if the run said so (`Holding`).
`ReplaysAreHonest` adds that the offline search only selects, and that a verdict's
window holds the recorder's; `OmissionsAreReported` reads `Caught` off a finished
corpus; `CapIsHarmless` needs the order: the first documents that the search
keeps are the earliest ones, whatever the cap, so its earliest match is the earliest
of all. `SortedIsInOrder` proves of `Sorted` that it is a permutation in order: ranks
differ (`StandingsDiffer`) and all are taken (`StandingsTaken`). `RecTypesHold` is the type
invariant, `HeartbeatsNameSilence` that the heartbeat is right about every finite
set of observations of any platform the histories hold, whatever interval, grace and
moment it is asked with and whatever cadence a source declares (`CadenceOfSource`);
it speaks of the sources that are listened to and of the hosts that the lines name
(`HostsAreSenders`).

**Store** (`Store_proofs`) — `StoreTypeCorrect`, `LoadsAlwaysWhole`,
`RunsStayStored`, `RecordedMigrationsRan`, `EditedMigrationsStop`, and
`DatabaseIsAnArchive`: for any
number of processes, every step of the database is a step of `Archive` or a
stutter. The invariant `IInv`: exactly the holder of the lock is inside a
transaction (`Transactions`); what its draft holds follows from its cursor
(`DraftOf`); a process that is not done has no rows (`Unsaved`), so a run that
somebody reads cannot grow under the reader, only vanish (`LoadOf`); a script has
created the tables before its cursor, and tables are never dropped (`ScriptOf`).
Once an edited script is recorded, nobody is past it, and whoever is migrating comes to
it before he reaches any that is pending (`Halted`).

**Score** (`Score_proofs`) — `ScoreTypeCorrect`, `DropsAreReported`,
`DocumentedGapsNeverFail`, `GapsAreQueued`, `ReportsAgreeOnRates`,
`WorstTestCapsTheGrade`.
A drop may stretch over any number of runs; the invariant keeps, until a report
is stored, what its comparison saw (`DropSeen`): a case below its verdict in the
last stored run is a regression. A drop from run i to the new run is then either
a drop from run i to the last one, reported by induction, or a drop from the last
one, seen. `DocumentedGapsNeverFail` needs no induction over the data: with
every verdict documented the sets of undocumented gaps are empty, whatever the
rates and targets. `ReportsAgreeOnRates` counts one thing in two ways: the
references of a coverage report correspond one to one to the results of the run, and
what is scoreable without being BLIND is what is DETECTED or VISIBLE. `GapsAreQueued` follows each entry back to its case and
technique; a technique with a gap has an entry that is not
DETECTED, which is in one queue or the other by its best verdict.
`WorstTestCapsTheGrade` bounds five dimensions by what they may award (`DimensionsAreBounded`)
and the sixth by the worst outcome (`ValidationIsCapped`).

**Operations** (`Operations_proofs`) — `TreeFollowsManifest`: while a render of
the default output is under way, whatever is not among its remaining items and
removals is as the manifest wants it (`RenderInv`); two timer jobs of a manifest
that is not refused have different profiles, so no drop-in is written twice.
`BrokenRulesStayAlone`: of a library with one file broken, the rules of all other
names survive (`RulesSurvive`), hence their planned cases (`PlanSurvives`); it
holds in every state, of every library.

**Rules** (`Rules_proofs`) — `ConditionsFollowGrammar`, `QueriesMeanTheRule`,
`ProbesCoverDetections`. The invariant, `RuleInv`, is short: the rule at hand is
what its own file loads as, whatever the compiler did before, and a query has
the body and the probe that the rule now compiles to, in the mode that the
compiler is in now (the one thing that outlives a rule). Nearly all of the work
is in what a step computes, and there the inductions over data are written out,
as inductions over numbers (`Climbs`).

- *Trees.* A tree of depth d + 1 is a reference, or an operator over trees of
  depth d (`TreeShape`). What is defined by walking a tree (does it hold, which
  selections does it name, what is rendered for it) therefore exists and obeys
  its equation on every tree (`WalkExists`, `HoldsByShape`, `NamesByShape`,
  `RenderedByShape`).
- *The parser agrees with the grammar* (`ParserFollowsGrammar`). Both are
  functions on positions that are determined from the right. From the last
  position down: what the parser reads is either an error or well-formed
  operands no deeper than two levels for every token it may take
  (`ParserReturns`); and at each of the three levels the grammar derives a
  meaning for the tokens up to j exactly if the parser, started there, stops
  behind j, and then it is the only one and that of the operands read
  (`EntryAgrees`, from `AtomAgrees`, `NegationAgrees` and `ChainAgrees`). The
  parser is greedy and the grammar is not: they agree up to a j at which the
  operands cannot go on (`stops` in `ChainAgrees`), and what the grammar derives
  up to any other is no whole operand.
- *A dialect means the matcher.* A pattern with SQL wildcards likes what the
  rule's pattern matches, if the value has none of its own (`SqlMeansTheSame`,
  through `SameLike`: two patterns that treat every character alike match the
  same texts). So a comparison that the dialect has words for says what
  `_value_matcher` does (`ValueMeans`), a test what `_build_field_predicate`
  does, absent fields and nulls included (`FieldMeans`), a selection
  (`SelectionMeans`), and by induction over the tree a condition (`RenderMeans`,
  `BodyMeans`).

**Only model-checked.** Liveness: `PhaseEnds`, `RunCompletes` and
`EveryProcessEnds` are outside the prover's fragment. Every other property of a
passing run is a theorem.

## Where the code and its documents disagree

With a run that shows it, and the quoted lines in `PROJECT.json`:

1. `never_started` — a command whose interpreter is missing returns exit code 127 with no
   error, so its case is scored BLIND or VISIBLE; a test of the classifier
   takes "interpreter not found" as the typical emulation error.
2. `half_migrated` — migrations are not "inside a single transaction each"; a run that
   arrives in the middle finds the database initialised and its tables missing.
3. `replayed` — a corpus is not "exactly the data the verdicts were drawn from":
   the recorder's windows end with the tests, those of the verdicts minutes
   later, so a detection that was late replays as a gap.
4. `recorded_twice` — the recorder asks source by source, so an event that two
   selectors cover does not land "in exactly one place".
5. `not_strict` — nobody passes `strict=True` to `load_library`; a run is planned,
   and may pass, without the rules whose files are broken.

Met while modelling, without a run of their own:

- An offline run does not always show "the same detection latencies"
  (`fixture.py:7-8`): the search cuts a corpus off in the order of its lines
  before it sorts by time (`fixture.py:237-240`). The recorder writes each corpus in order
  (`CapKeepsEarliest`); one written by hand, or two that hold events of one test
  and are read one after the other, may be cut before their earliest match. The
  clause of `ReplayDetects` about latencies excuses just these.
- `dvp heartbeat` does not exit 1 "if any host is silent" (`cli.py:737`): a
  source without a selector for the fixture backend is passed over although it
  was asked for (`cli.py:809-810`), and the command says "every expected host is
  reporting". `SilenceIsNamed` speaks of the sources in `Listened`.
- `--backend splunk` without `--execute` calls itself a replay, because the mode
  is taken from the *configured* default backend (`runner.py:139`); nothing ran,
  and live queries are scored instead of skipped.
- On a live platform a variant passes on the events of the neighbouring one:
  windows are minutes wide, tests five seconds apart.
- Two migrations at once, one of which dies, may leave a recorded version
  without its view.
- "Only cases at or above this severity can fail the build" (`config.py:148`):
  the rate gates heed no severity (`gates.py:139`).
- A compiler is to raise `CompileError` "rather than emitting a query that
  quietly means something else" (`compilers.py:13-14`), but Splunk and Elastic
  render `|cased` as if it were not there, KQL does so for values with
  wildcards, `%` and `_` in a value are wildcards of Splunk's `like()`, and a
  keyword beside a regular expression becomes a string in a `where` clause.
  `Expressible` lists these cases, and `QueryMeansTheRule` speaks of all others.
- `render_systemd.py --output` removes every `.conf` of the given directory and writes to
  the default one; a manifest whose last timer job is gone leaves its timers
  (`write` says that a deleted job "must take its timer with it"). The property
  `ScheduleIsTheManifest` therefore speaks of the default output and of
  manifests with something to render.
- The check of a manifest compares profiles with *file* names, a run looks up the
  name *inside* the file; a passing check may name a profile no run finds.
- The scorecard's "proof outweighs polish": a rule that was never shown to fire
  loses 25 points of one dimension, a documented gap 55 or 70. A last outcome of
  ERROR or SKIPPED hides the BLIND before it. Noise and latency are never passed
  to the scorer by the command line.
- A rule that lists a test twice plans two cases with one id; both count in the
  rates, one of them is stored (`INSERT OR REPLACE`, `store.py:376`).

## Not modelled

Reports, the dashboard's rendering, query syntax, HTTP paging and
retries, configuration, YAML loading, logging and paths: formatting and I/O whose effect on the
modelled state is an input (a query answers or fails; a setting has a value).
The linters are independent predicates on rule text without state.
The catalog's loading, dry-run migration, trends and statistics of the store
read and print. Of the rule language, what the section on `Rules` names.
