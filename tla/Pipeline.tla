------------------------------ MODULE Pipeline ------------------------------
(***************************************************************************)
(* One validation run, Pipeline._execute and Pipeline._collect, around the *)
(* emulation phase of module Emulation: take the baseline window, emulate, *)
(* wait for ingestion, ask the backend for every case's detections until   *)
(* they show or the wait budget is spent, probe each log source, ask the   *)
(* same logic over the quiet baseline window, classify.                    *)
(*                                                                         *)
(* The platform is the environment.  What a behaviour leaves behind        *)
(* becomes searchable some time later, or never; a query takes time and    *)
(* may fail.  A live platform cannot tell whose event it returns; the      *)
(* fixture backend rebases a recorded corpus onto this run's windows and   *)
(* answers for one test at a time.  A search returns a page at most: the   *)
(* fixture backend what it meets first in its files, a live platform what  *)
(* it likes.                                                               *)
(***************************************************************************)
EXTENDS Emulation, Integers, Functions, Comprehension, Classify

CONSTANTS
    Cases,        \* the planned cases, in plan order: a sequence of Case
    Corpora,      \* what the fixture backend may find on disk: sequences of
                  \* Recorded, in the order the files are read
    Backgrounds,  \* everyday activity a live platform may hold already
    NoTest,       \* marks an event or a query that belongs to no test
    Lags,         \* delays from an event to its being searchable
    IngestLag, MaxWait, PollInterval, MaxQueryTime,
    PreWindow, PostWindow, Slack, BaselineWindow,
    SearchLimit,  \* events a search returns at most
    CountsAll,    \* whether the live platform reports a total beyond the limit
    MaxFailures,  \* bound: queries that fail in one run
    Horizon       \* bound: no step passes this time

\* A rule under one emulation test.  covers: the origins (tests, or NoTest for
\* everyday activity) whose events are in the rule's log sources; matches: those
\* its detection logic also matches; probe: whether it declares log sources.
Case == [rule: STRING, test: Tests, enabled: BOOLEAN, compiles: BOOLEAN,
         probe: BOOLEAN, covers: SUBSET (Tests \cup {NoTest}),
         matches: SUBSET (Tests \cup {NoTest}),
         expected: States, max_latency: Nat]

\* origin NoTest is the corpus's baseline part.
Recorded == [origin: Tests \cup {NoTest}, offset: Int]

\* An event, when it becomes searchable, and its line in what the fixture
\* backend has read (0 on a live platform).
PlatformEvent == [origin: Tests \cup {NoTest}, time: Int, arrives: Nat, line: Nat]

ASSUME PipelineAssumption ==
    /\ Cases \in Seq(Case)
    /\ \A i \in DOMAIN Cases : Cases[i].matches \subseteq Cases[i].covers
    /\ NoTest \notin Tests
    /\ {IngestLag, MaxWait, MaxQueryTime, PreWindow, PostWindow, Slack,
        BaselineWindow, MaxFailures, Horizon} \subseteq Nat
    /\ {PollInterval, SearchLimit} \subseteq Nat \ {0}
    /\ Lags \subseteq Nat
    /\ \A held \in Corpora : held \in Seq(Recorded)
    /\ \A held \in Backgrounds : held \subseteq PlatformEvent /\ IsFiniteSet(held)
                                /\ \A e \in held : e.origin = NoTest
    /\ CountsAll \in BOOLEAN

VARIABLES
    phase,        \* the stage of the run
    corpus,       \* what the fixture backend has on disk
    events,       \* what a live platform has received or will receive
    baselineEnd,  \* when the baseline window was closed
    anchored,     \* whether set_anchors has been called
    deadline,     \* when to stop asking again
    pending,      \* cases the current loop still has to ask about
    still_pending,\* cases to ask about in the next round
    observations, \* case -> its three query results
    faults,       \* queries that failed so far
    verdicts,     \* case -> its verdict, after classification
    asked         \* history: case -> when its detection was last asked for

pipeVars == <<phase, corpus, events, baselineEnd, anchored, deadline, pending,
              still_pending, observations, faults, verdicts, asked>>
vars == <<emuVars, pipeVars>>
emuButNow == <<cfg, pos, stage, failures, decisions, skipped, results, command,
               launches, behaved, cleaned>>

Phases == {"baseline", "emulate", "settle", "prepare", "detect", "probe",
           "noise", "classify", "over", "killed"}
CaseIds == DOMAIN Cases
Never == -1
NothingObserved ==
    [i \in CaseIds |->
        [detection |-> NotRun, telemetry |-> NotRun, baseline |-> NotRun]]
NoVerdict == [Skipped EXCEPT !.outcome = "none"]

Backend == cfg.backend
live == Mode = "local" /\ Backend # "fixture"

---------------------------------------------------------------------------
(* Stage 1: the plan *)

\* _build_case: disabled, or its test is missing from a catalog that is not empty.
SkipReason(case, known) ==
    ~case.enabled \/ (known # {} /\ case.test \notin known)

PlannedTests(known) ==
    LET runs == Only(Cases, {case \in Range(Cases) : ~SkipReason(case, known)})
    IN  [i \in DOMAIN runs |-> runs[i].test]

---------------------------------------------------------------------------
(* What a search returns *)

\* A recorded event on this run's timeline; its test must have run.
Anchored(rec) ==
    IF rec.origin = NoTest THEN anchored ELSE anchored /\ results[rec.origin].mode # "none"
Materialised(n) ==
    LET rec == corpus[n]
    IN  [origin |-> rec.origin, arrives |-> 0, line |-> n,
         time |-> rec.offset + IF rec.origin = NoTest
                               THEN baselineEnd - BaselineWindow
                               ELSE results[rec.origin].start]

Platform == IF Backend = "fixture"
            THEN {Materialised(n) : n \in {m \in DOMAIN corpus : Anchored(corpus[m])}}
            ELSE events

\* Mutant: the fixture backend is not told whose events to return.
FoundUnattributed(origins, window, attribution) ==
    {e \in Platform :
        /\ e.origin \in origins
        /\ e.arrives <= now
        /\ window.from <= e.time /\ e.time <= window.to}

\* Windows are closed intervals; only the fixture backend heeds attribution.
Found(origins, window, attribution) ==
    {e \in Platform :
        /\ e.origin \in origins
        /\ e.arrives <= now
        /\ window.from <= e.time /\ e.time <= window.to
        /\ Backend = "fixture" => e.origin = attribution}

Limited(limit) == IF limit < SearchLimit THEN limit ELSE SearchLimit

\* What a search brings back of what it finds.  The fixture backend stops
\* collecting at the cap, in the order of its files, before it sorts by time; a
\* live platform returns any matches up to the cap.
Pages(found, limit) ==
    LET cap == Limited(limit)
        size == IF Cardinality(found) < cap THEN Cardinality(found) ELSE cap
        Before(e) == {f \in found : f.line < e.line}
    IN  IF Backend = "fixture" THEN {{e \in found : Cardinality(Before(e)) < cap}}
        ELSE {page \in SUBSET found : Cardinality(page) = size}

\* A platform that counts all matches knows when it left some out, and so does
\* the fixture backend; one that does not takes a full page for a cut-off one.
\* The earliest time stamp is that of the page.
Answer(found, page, limit) ==
    LET n == Cardinality(found)
        cap == Limited(limit)
        counted == CountsAll \/ Backend = "fixture"
    IN  [kind |-> "answer",
         count |-> IF counted \/ n < cap THEN n ELSE cap,
         truncated |-> IF counted THEN n > cap ELSE n >= cap,
         first |-> IF page = {} THEN 0
                   ELSE CHOOSE m \in {e.time : e \in page} :
                            \A e \in page : m <= e.time]

\* Mutant: the window ends post_window after the behaviour whatever latency
\* the rule allows.
WindowFixedEnd(i) ==
    LET result == results[Cases[i].test]
    IN  [from |-> result.start - PreWindow, to |-> result.finish + PostWindow]

\* The window reaches beyond the rule's own latency budget.
Window(i) ==
    LET result == results[Cases[i].test]
        budget == Cases[i].max_latency
        after == (IF PostWindow < budget THEN budget ELSE PostWindow) + Slack
    IN  [from |-> result.start - PreWindow, to |-> result.finish + after]

\* Mutant: the quiet window is the last hour when its query is asked.
BaselineWindowLast == [from |-> now - BaselineWindow, to |-> now]

BaselineWindowOf == [from |-> baselineEnd - BaselineWindow, to |-> baselineEnd]

\* _search turns whatever goes wrong into a failed result.
Answers(found, limit) ==
    {Answer(found, page, limit) : page \in Pages(found, limit)}
        \cup (IF faults < MaxFailures THEN {Failed} ELSE {})

---------------------------------------------------------------------------
(* The run *)

HasSkipReason(i) ==
    \/ SkipReason(Cases[i], cfg.known)
    \/ results[Cases[i].test].mode = "none"
    \/ ~Cases[i].compiles

\* The cases with queries to ask, and those of them with a probe.
Ready == Only([i \in CaseIds |-> i], {i \in CaseIds : ~HasSkipReason(i)})
Probed == Only(Ready, {i \in CaseIds : Cases[i].probe})

\* Mutant: log sources are probed while the poll loop has yet to run.
AfterProbingFirst(p) ==
    CASE p = "baseline" -> "emulate" [] p = "emulate" -> "settle"
      [] p = "settle" -> "prepare" [] p = "prepare" -> "probe"
      [] p = "probe" -> "detect" [] p = "detect" -> "noise"
      [] p = "noise" -> "classify" [] OTHER -> "over"

\* The order of the stages.
After(p) ==
    CASE p = "baseline" -> "emulate" [] p = "emulate" -> "settle"
      [] p = "settle" -> "prepare" [] p = "prepare" -> "detect"
      [] p = "detect" -> "probe" [] p = "probe" -> "noise"
      [] p = "noise" -> "classify" [] OTHER -> "over"

\* Enter the stage after p with the cases it has to ask about.
Enter(p) ==
    /\ phase' = After(p)
    /\ pending' = CASE After(p) \in {"detect", "noise"} -> Ready
                    [] After(p) = "probe" -> Probed
                    [] OTHER -> <<>>
    /\ still_pending' = <<>>

\* Everyday activity may be on the platform before anything is emulated.
PipeInit ==
    /\ EmuInit
    /\ cfg.plan = PlannedTests(cfg.known)
    /\ phase = "baseline"
    /\ corpus \in (IF Backend = "fixture" THEN Corpora ELSE {<<>>})
    /\ events \in (IF Backend = "fixture" THEN {{}} ELSE Backgrounds)
    /\ baselineEnd = 0 /\ anchored = FALSE /\ deadline = 0
    /\ pending = <<>> /\ still_pending = <<>>
    /\ observations = NothingObserved
    /\ faults = 0
    /\ verdicts = [i \in CaseIds |-> NoVerdict]
    /\ asked = [i \in CaseIds |-> Never]

\* The baseline window is closed; the clock moves on while the runner is built.
TakeBaseline ==
    /\ phase = "baseline"
    /\ baselineEnd' = now
    /\ now' = now + 1
    /\ Enter("baseline")
    /\ UNCHANGED <<emuButNow, corpus, events, anchored, deadline, observations,
                   faults, verdicts, asked>>

\* One step of the emulation phase.  A behaviour that took place leaves an
\* event that a live platform makes searchable after some delay.
Emulate ==
    /\ phase = "emulate"
    /\ Progress
    /\ IF behaved' # behaved /\ Backend # "fixture"
       THEN \E lag \in Lags, t \in behaved' \ behaved :
               events' = events \cup
                   {[origin |-> t, time |-> now', arrives |-> now' + lag, line |-> 0]}
       ELSE UNCHANGED events
    /\ UNCHANGED <<phase, corpus, baselineEnd, anchored, deadline, pending,
                   still_pending, observations, faults, verdicts, asked>>

\* The phase has returned: the fixture backend learns the anchors.
Emulated ==
    /\ phase = "emulate" /\ stage = "over"
    /\ anchored' = (Backend = "fixture")
    /\ Enter("emulate")
    /\ UNCHANGED <<emuVars, corpus, events, baselineEnd, deadline, observations,
                   faults, verdicts, asked>>

\* Only a run that executed against a live platform has ingestion to wait for.
SettleTime == IF live THEN IngestLag ELSE 0

Settle ==
    /\ phase = "settle"
    /\ now' = now + SettleTime
    /\ Enter("settle")
    /\ UNCHANGED <<emuButNow, corpus, events, baselineEnd, anchored, deadline,
                   observations, faults, verdicts, asked>>

\* Queries and windows are built and the wait budget starts to run.
Prepare ==
    /\ phase = "prepare"
    /\ deadline' = now + (IF live THEN MaxWait ELSE 0)
    /\ Enter("prepare")
    /\ UNCHANGED <<emuVars, corpus, events, baselineEnd, anchored, observations,
                   faults, verdicts, asked>>

\* A case is asked about again when its query was answered with nothing and
\* there is time left.
Requeue(answer) == answer.kind = "answer" /\ answer.count = 0 /\ now' < deadline

\* The detection query of the next case.  What it returns is what was searchable
\* when it was sent; the deadline is looked at when it has returned.
AskDetection ==
    /\ phase = "detect" /\ pending # <<>>
    /\ \E d \in 0..MaxQueryTime : now' = now + d
    /\ now' <= Horizon
    /\ LET i == Head(pending) IN
       \E answer \in Answers(Found(Cases[i].matches, Window(i), Cases[i].test), SearchLimit) :
          /\ observations' = [observations EXCEPT ![i].detection = answer]
          /\ faults' = faults + (IF answer = Failed THEN 1 ELSE 0)
          /\ asked' = [asked EXCEPT ![i] = now]
          /\ still_pending' = IF Requeue(answer) THEN Append(still_pending, i)
                              ELSE still_pending
    /\ pending' = Tail(pending)
    /\ UNCHANGED <<emuButNow, phase, corpus, events, baselineEnd, anchored,
                   deadline, verdicts>>

\* Mutant: polling stops as soon as any case has had its answer.
ExhaustedByOne == Len(still_pending) < Len(Ready) \/ now >= deadline

\* The poll loop is left when nobody is waiting or the budget is spent.
Exhausted == still_pending = <<>> \/ now >= deadline

DetectionDone ==
    /\ phase = "detect" /\ pending = <<>> /\ Exhausted
    /\ Enter("detect")
    /\ UNCHANGED <<emuVars, corpus, events, baselineEnd, anchored, deadline,
                   observations, faults, verdicts, asked>>

\* Mutant: the deadline is computed inside the loop.
PollAgainRearmed ==
    /\ phase = "detect" /\ pending = <<>> /\ ~Exhausted
    /\ now' = now + PollInterval
    /\ now' <= Horizon
    /\ deadline' = now' + MaxWait
    /\ pending' = still_pending /\ still_pending' = <<>>
    /\ UNCHANGED <<emuButNow, phase, corpus, events, baselineEnd, anchored,
                   observations, faults, verdicts, asked>>

PollAgain ==
    /\ phase = "detect" /\ pending = <<>> /\ ~Exhausted
    /\ now' = now + PollInterval
    /\ now' <= Horizon
    /\ pending' = still_pending /\ still_pending' = <<>>
    /\ UNCHANGED <<emuButNow, phase, corpus, events, baselineEnd, anchored,
                   deadline, observations, faults, verdicts, asked>>

\* The telemetry probe of the next case, whatever its detection query said.
ProbeTelemetry ==
    /\ phase = "probe" /\ pending # <<>>
    /\ \E d \in 0..MaxQueryTime : now' = now + d
    /\ LET i == Head(pending) IN
       \E answer \in Answers(Found(Cases[i].covers, Window(i), Cases[i].test), 1) :
          /\ observations' = [observations EXCEPT ![i].telemetry = answer]
          /\ faults' = faults + (IF answer = Failed THEN 1 ELSE 0)
    /\ pending' = Tail(pending)
    /\ UNCHANGED <<emuButNow, phase, corpus, events, baselineEnd, anchored,
                   deadline, still_pending, verdicts, asked>>

\* The detection logic of the next case over the quiet window.  Nothing after
\* this stage reads the clock, so it is left alone.
AskBaseline ==
    /\ phase = "noise" /\ pending # <<>>
    /\ LET i == Head(pending) IN
       \E answer \in Answers(Found(Cases[i].matches, BaselineWindowOf, NoTest), 25) :
          /\ observations' = [observations EXCEPT ![i].baseline = answer]
          /\ faults' = faults + (IF answer = Failed THEN 1 ELSE 0)
    /\ pending' = Tail(pending)
    /\ UNCHANGED <<emuVars, phase, corpus, events, baselineEnd, anchored,
                   deadline, still_pending, verdicts, asked>>

QueriesDone ==
    /\ phase \in {"probe", "noise"} /\ pending = <<>>
    /\ Enter(phase)
    /\ UNCHANGED <<emuVars, corpus, events, baselineEnd, anchored, deadline,
                   observations, faults, verdicts, asked>>

Observation(i) ==
    [skip |-> HasSkipReason(i), emulation |-> results[Cases[i].test],
     detection |-> observations[i].detection,
     telemetry |-> observations[i].telemetry,
     baseline |-> observations[i].baseline]

ClassifyCases ==
    /\ phase = "classify"
    /\ verdicts' = [i \in CaseIds |-> classify(Cases[i].expected, Observation(i))]
    /\ Enter("classify")
    /\ UNCHANGED <<emuVars, corpus, events, baselineEnd, anchored, deadline,
                   observations, faults, asked>>

\* Ctrl-C or a kill: what the process knew of its queries is gone, and nothing
\* of it has been stored.
Abandon ==
    /\ phase \notin {"over", "killed"}
    /\ phase' = "killed"
    /\ pending' = <<>> /\ still_pending' = <<>> /\ deadline' = 0
    /\ observations' = NothingObserved
    /\ asked' = [i \in CaseIds |-> Never]
    /\ UNCHANGED <<emuVars, corpus, events, baselineEnd, anchored, faults, verdicts>>

Advance == \/ TakeBaseline \/ Emulate \/ Emulated \/ Settle \/ Prepare
           \/ AskDetection \/ DetectionDone \/ PollAgain \/ ProbeTelemetry
           \/ AskBaseline \/ QueriesDone \/ ClassifyCases

Next == Advance \/ Abandon

Spec == PipeInit /\ [][Next]_vars

\* Queries have a client timeout and sleeps end, so the run keeps moving.
FairSpec == Spec /\ WF_vars(Advance)

---------------------------------------------------------------------------
(* Correctness *)

\* Types of the run's state.
PipeTypeOK ==
    /\ EmuTypeOK
    /\ phase \in Phases
    /\ corpus \in Seq(Recorded)
    /\ events \in SUBSET PlatformEvent
    /\ baselineEnd \in Nat /\ anchored \in BOOLEAN /\ deadline \in Nat
    /\ pending \in Seq(CaseIds) /\ still_pending \in Seq(CaseIds)
    /\ observations \in [CaseIds -> [detection: QueryResult,
                           telemetry: QueryResult, baseline: QueryResult]]
    /\ faults \in 0..MaxFailures
    /\ verdicts \in [CaseIds -> CaseVerdict \cup {NoVerdict}]
    /\ asked \in [CaseIds -> Nat \cup {Never}]

ScoredCases == {i \in CaseIds : phase = "over" /\ verdicts[i].outcome \in States}

\* A scored case had everything it needed: a test nobody refused, that did not
\* time out and was no dry run, and an answered detection query.  Everything
\* else is SKIPPED or ERROR, so infrastructure trouble never becomes a gap.
FailuresAreNotGaps ==
    \A i \in ScoredCases :
        /\ skipped[Cases[i].test] = "none"
        /\ results[Cases[i].test].mode \in {"local", "replay"}
        /\ ~results[Cases[i].test].error
        /\ observations[i].detection.kind = "answer"

\* Telemetry that becomes searchable within the settling time plus the wait
\* budget (less the time one round of queries takes) counts: it is detected if
\* the rule matches it and cannot leave its case BLIND.  Nobody gives up early.
TelemetryInTimeCounts ==
    \A i \in ScoredCases, e \in events :
        live /\ e.origin = Cases[i].test
        /\ e.arrives - e.time <= IngestLag + MaxWait - Len(Ready) * MaxQueryTime =>
            /\ e.origin \in Cases[i].matches => verdicts[i].outcome = "DETECTED"
            /\ e.origin \in Cases[i].covers => verdicts[i].outcome # "BLIND"

\* A case is BLIND only if its log sources were seen to be empty after its
\* detection query had its last chance: nothing they cover was searchable then.
BlindMeansNothingArrived ==
    \A i \in ScoredCases :
        verdicts[i].outcome = "BLIND" =>
            ~\E e \in Platform :
                /\ e.origin \in Cases[i].covers
                /\ Backend = "fixture" => e.origin = Cases[i].test
                /\ e.arrives <= asked[i]
                /\ Window(i).from <= e.time /\ e.time <= Window(i).to

\* The behaviour under test is never counted as background noise: a case has
\* baseline hits only when everyday activity matches its rule.
BaselineUntouched ==
    \A i \in ScoredCases :
        verdicts[i].baseline_hits <=
            Cardinality({e \in Platform : e.origin = NoTest /\ NoTest \in Cases[i].matches})

\* An event recorded for case i within its rule's latency budget.
InBudget(i, n) ==
    /\ corpus[n].origin = Cases[i].test /\ corpus[n].origin \in Cases[i].matches
    /\ corpus[n].offset \in 0..Cases[i].max_latency

\* The events of a test are read in the order they happened, as within one
\* corpus the recorder wrote.
ReadInOrder(test) ==
    \A m, n \in DOMAIN corpus :
        m < n /\ corpus[m].origin = test /\ corpus[n].origin = test =>
            corpus[m].offset <= corpus[n].offset

\* An offline run shows what was recorded: an event recorded inside a rule's
\* latency budget makes its case DETECTED, wherever it stands in the files and
\* however many there are.  Its latency is no later than recorded if the search
\* was not cut off, or if it was and met the events in order.
ReplayDetects ==
    \A i \in ScoredCases : \A n \in DOMAIN corpus : InBudget(i, n) =>
        /\ verdicts[i].outcome = "DETECTED"
        /\ ~observations[i].detection.truncated \/ ReadInOrder(Cases[i].test) =>
              verdicts[i].latency <= corpus[n].offset

\* And it shows nothing else: an offline detection, and its latency, come from
\* an event recorded for that very test although windows overlap.
ReplayAttributes ==
    \A i \in ScoredCases :
        Backend = "fixture" /\ verdicts[i].outcome = "DETECTED" =>
            \E n \in DOMAIN corpus :
                /\ corpus[n].origin = Cases[i].test /\ corpus[n].origin \in Cases[i].matches
                /\ verdicts[i].latency \in {corpus[n].offset, NoLatency}

\* The run comes to an end, however many cases never fire.
RunCompletes == <>(phase \in {"over", "killed"})

---------------------------------------------------------------------------
(* Claims that the code does not keep *)

\* classify.py says a gap is never manufactured out of a test that never ran:
\* the behaviour behind a BLIND or VISIBLE case took place.  It did not when the
\* command could not be started, nor when a run that executes nothing asks a
\* live platform and calls itself a replay after the default backend.
ScoredBehaviourTookPlace ==
    \A i \in ScoredCases :
        Backend = "live" /\ verdicts[i].outcome \in {"BLIND", "VISIBLE"} =>
            Cases[i].test \in behaved

=============================================================================
