------------------------------ MODULE Recording ------------------------------
(***************************************************************************)
(* `dvp run --record`: after a live run has collected its verdicts, the    *)
(* recorder asks every telemetry source what it saw, gives each event to   *)
(* the emulation window that holds it, and writes a corpus.  Offline runs  *)
(* replay the corpora through the fixture backend, and `dvp heartbeat`     *)
(* reads from them which hosts still send.                                 *)
(*                                                                         *)
(* A behaviour of this module is a history of live runs that record under  *)
(* one of few names, with failing and cut-off queries and with deaths.     *)
(* The platform is the environment: it holds a set of events, and a query  *)
(* for a source returns those its selector covers.  Replays and heartbeats *)
(* change nothing; they are operators over what is on disk.                *)
(***************************************************************************)
EXTENDS SequencesExt, Comprehension, Classify, Heartbeat

CONSTANTS
    TestNames,    \* the tests in the order of their names, NoTest among them
    NoTest,       \* the baseline's place among them
    CorpusNames,  \* the names used with --record, in directory order
    Sources,      \* the telemetry sources of the rules, in the order asked
    Mapped,       \* the sources with a selector for the live platform
    Offline,      \* and those with one for the fixture backend
    Heartbeats,   \* source -> its heartbeat block, [interval, grace]
    Cases,        \* the validated cases: a set of Case
    Declared,     \* test -> its declared duration, the length of a replay
    Histories,    \* sequences of LiveRun considered
    CountsAll,    \* whether the platform reports a total beyond the cap
    Limit,        \* DEFAULT_LIMIT, or what the platform allows if less
    ReplayLimit,  \* events an offline search returns at most
    PreWindow, PostWindow, Slack,
    Intervals, Graces, Moments,   \* what heartbeats are asked with: settings and times
    Inventories,  \* the sets of hosts they expect
    MaxFaults,    \* bound: queries that fail in one history
    MaxCrashes    \* bound: deaths in one history

Names == {CorpusNames[i] : i \in DOMAIN CorpusNames}
Tests == {TestNames[i] : i \in DOMAIN TestNames} \ {NoTest}
SourceIds == {Sources[i] : i \in DOMAIN Sources}
Nobody == 0
Unasked == 0
Undeclared == -1
NoHost == ""

Span == [from: Nat, to: Nat]

\* A rule under a test: the sources it depends on and its latency budget.
Case == [rule: STRING, test: Tests, telemetry: SUBSET SourceIds, max_latency: Nat]

\* An event of the platform: the sources whose selectors cover it, the rules
\* whose logic matches it, and whether it carries a time stamp of its own.
PlatformEvent == [id: Nat, time: Nat, dated: BOOLEAN, host: STRING,
                  scopes: SUBSET SourceIds, matches: SUBSET STRING]

\* spans: when each test ran (NoTest: the baseline window); at: when the
\* recorder starts.
LiveRun == [name: Names, overwrite: BOOLEAN, at: Nat, events: SUBSET PlatformEvent,
            spans: [Tests \cup {NoTest} -> Span]]

ASSUME RecordingAssumption ==
    /\ TestNames \in Seq(Tests \cup {NoTest}) /\ NoTest \in Range(TestNames)
    /\ CorpusNames \in Seq(Names) /\ IsInjective(CorpusNames)
    /\ Sources \in Seq(SourceIds)
    /\ \A c \in Cases : c \in Case
    /\ Declared \in [Tests -> Nat]
    /\ \A h \in Histories : /\ h \in Seq(LiveRun) /\ h # <<>>
                             /\ \A r \in DOMAIN h : IsFiniteSet(h[r].events)
    /\ Mapped \cup Offline \subseteq SourceIds
    /\ LET Setting == Nat \cup {Undeclared}
       IN  Heartbeats \in [SourceIds -> [interval: Setting, grace: Setting]]
    /\ CountsAll \in BOOLEAN
    /\ {PreWindow, PostWindow, Slack, MaxFaults, MaxCrashes} \subseteq Nat
    /\ Intervals \cup Moments \subseteq Nat \ {0} /\ Graces \subseteq Nat
    /\ {Limit, ReplayLimit} \subseteq Nat \ {0}

VARIABLES
    history,   \* the live runs, in order
    run,       \* the position of the one that records
    stage,     \* where its recorder is
    todo,      \* sources still to be asked
    docs,      \* corpus.events: the documents captured so far
    said,      \* history: run -> the sources corpus.errors names
    ended,     \* history: run -> how its recording ended
    disk,      \* name -> what fixtures/runs/<name> holds
    faults, crashes

recVars == <<history, run, stage, todo, docs, said, ended, disk, faults, crashes>>

Stages == {"capture", "write", "events", "over"}
Endings == {"none", "recorded", "refused", "crashed"}

\* manifest, of: the run each file stems from; torn: the last line is half one.
NoCorpus == [manifest |-> Nobody, of |-> Nobody, lines |-> <<>>, torn |-> FALSE]

Current == history[run]
Within(time, span) == span.from <= time /\ time <= span.to

---------------------------------------------------------------------------
(* Capturing *)

\* Mutant: only the end of a window is compared.
WindowsOfEnding(live, time) == {t \in DOMAIN live.spans : time <= live.spans[t].to}

WindowsOf(live, time) == {t \in DOMAIN live.spans : Within(time, live.spans[t])}

\* Where windows overlap, the earliest start wins.
WindowFor(live, time) ==
    CHOOSE t \in WindowsOf(live, time) :
        \A u \in WindowsOf(live, time) : live.spans[t].from <= live.spans[u].from

\* An event that can be placed: dated, and inside some window.
Placeable(live, e) == e.dated /\ WindowsOf(live, e.time) # {}

Document(live, e) ==
    LET test == WindowFor(live, e.time)
    IN  [test |-> test, offset |-> e.time - live.spans[test].from, event |-> e]

\* The one search of a source covers all windows.
SpanOf(live) ==
    [from |-> Min({live.spans[t].from : t \in DOMAIN live.spans}),
     to |-> Max({live.spans[t].to : t \in DOMAIN live.spans})]

Covered(live, source) ==
    {e \in live.events : source \in e.scopes /\ Within(e.time, SpanOf(live))}

\* A page is all there is, or as many as the cap allows.
Pages(found) == IF Cardinality(found) <= Limit THEN {found} ELSE kSubset(Limit, found)

\* Events come newest first, those of one moment in any order.
NewestFirst(found) ==
    {order \in SetToSeqs(found) :
        \A i, j \in DOMAIN order : i < j => order[i].time >= order[j].time}

\* Mutant: a full page is not suspicious.
TruncatedNever(found) == CountsAll /\ Cardinality(found) > Limit

\* A platform without a total takes a full page for a cut-off one.
Truncated(found) ==
    IF CountsAll THEN Cardinality(found) > Limit ELSE Cardinality(found) >= Limit

RecInit ==
    /\ history \in Histories
    /\ run = 1 /\ stage = "capture" /\ todo = Sources /\ docs = <<>>
    /\ said = [r \in DOMAIN history |-> {}]
    /\ ended = [r \in DOMAIN history |-> "none"]
    /\ disk = [n \in Names |-> NoCorpus]
    /\ faults = 0 /\ crashes = 0

Asked == Head(todo)
Say(source) == said' = [said EXCEPT ![run] = @ \cup {source}]
bounds == <<faults, crashes>>

\* Mutant: an unmapped source is left out without a word.
SkipUnmappedSilently ==
    /\ stage = "capture" /\ todo # <<>> /\ Asked \notin Mapped
    /\ todo' = Tail(todo)
    /\ UNCHANGED <<history, run, stage, docs, said, ended, disk, bounds>>

\* A source without a selector for this platform is reported.
SkipUnmapped ==
    /\ stage = "capture" /\ todo # <<>> /\ Asked \notin Mapped
    /\ Say(Asked)
    /\ todo' = Tail(todo)
    /\ UNCHANGED <<history, run, stage, docs, ended, disk, bounds>>

\* A failed search is reported and the next source is asked.
SourceFails ==
    /\ stage = "capture" /\ todo # <<>> /\ Asked \in Mapped /\ faults < MaxFaults
    /\ Say(Asked)
    /\ todo' = Tail(todo) /\ faults' = faults + 1
    /\ UNCHANGED <<history, run, stage, docs, ended, disk, crashes>>

SourceAnswers ==
    /\ stage = "capture" /\ todo # <<>> /\ Asked \in Mapped
    /\ LET found == Covered(Current, Asked)
       IN  /\ \E page \in Pages(found) :
              \E placed \in NewestFirst({e \in page : Placeable(Current, e)}) :
                 docs' = docs \o [i \in DOMAIN placed |-> Document(Current, placed[i])]
           /\ IF Truncated(found) THEN Say(Asked) ELSE UNCHANGED said
    /\ todo' = Tail(todo)
    /\ UNCHANGED <<history, run, stage, ended, disk, bounds>>

\* Mutant: the documents are written in the order they came in.
SortedNot(documents) == documents

Rank(test) == CHOOSE i \in DOMAIN TestNames : TestNames[i] = test

\* By test, then by offset; the sort is stable.
Precedes(documents, i, j) ==
    LET a == documents[i]
        b == documents[j]
    IN  \/ Rank(a.test) < Rank(b.test)
        \/ /\ a.test = b.test
           /\ a.offset < b.offset \/ (a.offset = b.offset /\ i < j)

\* The documents before the i-th of them are as many as precede it.
Sorted(documents) ==
    LET Ahead(i) == {j \in DOMAIN documents : Precedes(documents, j, i)}
    IN  [n \in DOMAIN documents |->
            documents[CHOOSE i \in DOMAIN documents : Cardinality(Ahead(i)) = n - 1]]

Captured ==
    /\ stage = "capture" /\ todo = <<>>
    /\ stage' = "write" /\ docs' = Sorted(docs)
    /\ UNCHANGED <<history, run, todo, said, ended, disk, bounds>>

---------------------------------------------------------------------------
(* Writing *)

\* The next run of the history starts to record.
Finish(how) ==
    /\ ended' = [ended EXCEPT ![run] = how]
    /\ IF run < Len(history)
       THEN run' = run + 1 /\ stage' = "capture" /\ todo' = Sources
       ELSE stage' = "over" /\ UNCHANGED <<run, todo>>
    /\ docs' = <<>>

\* Mutant: a directory is taken when it holds a complete corpus.
OccupiedByRecording(name) ==
    disk[name].manifest # Nobody /\ ended[disk[name].manifest] = "recorded"

\* The directory is there and not empty.
Occupied(name) == disk[name].manifest # Nobody

\* Somebody else's corpus, or nothing to write: the run ends with a UsageError
\* and takes its verdicts with it.
Refuse ==
    /\ stage = "write"
    /\ (Occupied(Current.name) /\ ~Current.overwrite) \/ docs = <<>>
    /\ Finish("refused")
    /\ UNCHANGED <<history, said, disk, bounds>>

WriteManifest ==
    /\ stage = "write" /\ docs # <<>>
    /\ Occupied(Current.name) => Current.overwrite
    /\ disk' = [disk EXCEPT ![Current.name].manifest = run]
    /\ stage' = "events"
    /\ UNCHANGED <<history, run, todo, docs, said, ended, bounds>>

Lines(documents, torn) ==
    [manifest |-> run, of |-> run, lines |-> documents, torn |-> torn]

WriteEvents ==
    /\ stage = "events"
    /\ disk' = [disk EXCEPT ![Current.name] = Lines(docs, FALSE)]
    /\ Finish("recorded")
    /\ UNCHANGED <<history, said, bounds>>

\* The process dies: events.jsonl is untouched as yet, or holds a part.
Crash ==
    /\ stage # "over" /\ crashes < MaxCrashes
    /\ crashes' = crashes + 1
    /\ \/ UNCHANGED disk
       \/ /\ stage = "events"
          /\ \E k \in 0..(Len(docs) - 1), torn \in BOOLEAN :
                disk' = [disk EXCEPT ![Current.name] = Lines(SubSeq(docs, 1, k), torn)]
    /\ Finish("crashed")
    /\ UNCHANGED <<history, said, faults>>

RecNext == \/ SkipUnmapped \/ SourceFails \/ SourceAnswers \/ Captured
           \/ Refuse \/ WriteManifest \/ WriteEvents \/ Crash

RecSpec == RecInit /\ [][RecNext]_recVars

---------------------------------------------------------------------------
(* The verdict of the live run *)

\* The window of a case is wider than that of its test.
Widened(span, case) ==
    [from |-> span.from - PreWindow,
     to |-> span.to + Slack + IF PostWindow < case.max_latency
                              THEN case.max_latency ELSE PostWindow]

Answered(count) == [NotRun EXCEPT !.kind = "answer", !.count = count]

\* The sources of a case that have a selector scope its queries and make its
\* probe; without any, there is no scope and no probe.
InScope(e, sources) == sources = {} \/ e.scopes \cap sources # {}
Outcome(detected, covered, sources) ==
    ThreeState(Answered(detected), IF sources = {} THEN NotRun ELSE Answered(covered))

LiveOutcome(live, case) ==
    LET sources == case.telemetry \cap Mapped
        seen == {e \in live.events : /\ InScope(e, sources)
                                     /\ Within(e.time, Widened(live.spans[case.test], case))}
    IN  Outcome(Cardinality({e \in seen : case.rule \in e.matches}), Cardinality(seen), sources)

---------------------------------------------------------------------------
(* An offline run that replays the corpora called names *)

\* A torn line is invalid JSON: loading raises, and every case errs.
Readable(names) == \A n \in names : ~disk[n].torn

\* The lines of all corpora, in the order they are loaded.
Loaded(names) ==
    LET order == Only(CorpusNames, names)
    IN  FlattenSeq([i \in DOMAIN order |-> disk[order[i]].lines])

\* Lines of the case's own test that fall into its window, in corpus order; the
\* test takes place at 0 and lasts as long as it declares.
Replayed(names, case) ==
    LET window == Widened([from |-> 0, to |-> Declared[case.test]], case)
        Mine(d) == /\ d.test = case.test /\ Within(d.offset, window)
                   /\ InScope(d.event, case.telemetry \cap Offline)
    IN  Only(Loaded(names), {d \in Range(Loaded(names)) : Mine(d)})

\* The search stops collecting at the cap, before it sorts by time.
Capped(found) == SubSeq(found, 1, IF Len(found) < ReplayLimit THEN Len(found) ELSE ReplayLimit)

Detections(names, case) ==
    LET mine == Replayed(names, case)
    IN  Only(mine, {d \in Range(mine) : case.rule \in d.event.matches})

ReplayOutcome(names, case) ==
    IF ~Readable(names) THEN "ERROR"
    ELSE Outcome(Len(Detections(names, case)), Len(Replayed(names, case)),
                 case.telemetry \cap Offline)

Earliest(found) == Min({found[i].offset : i \in DOMAIN found})

---------------------------------------------------------------------------
(* The heartbeat of the corpora *)

\* The manifest's recorded_at is taken for the time of offset 0.
Observed(n, i) ==
    LET d == disk[n].lines[i]
    IN  Observation(d.event.host, history[disk[n].manifest].at + d.offset, <<n, i>>)

\* The lines of a source that name a host.
Sighted(n, source) ==
    {i \in DOMAIN disk[n].lines : /\ source \in disk[n].lines[i].event.scopes
                                  /\ disk[n].lines[i].event.host # NoHost}

observe_corpora(source) ==
    UNION {{Observed(n, i) : i \in Sighted(n, source)} : n \in Names}

\* `--as-of` is a moment, or left to the newest observation of the source.
AsOf(source, asked) ==
    IF asked # Unasked THEN asked ELSE DefaultAsOf(observe_corpora(source), Current.at)

\* A source may declare its own cadence; an interval of 0 counts for none.
IntervalOf(source, interval) ==
    IF Heartbeats[source].interval > 0 THEN Heartbeats[source].interval ELSE interval
GraceOf(source, grace) ==
    IF Heartbeats[source].grace # Undeclared THEN Heartbeats[source].grace ELSE grace

\* A source that was asked for, or any if none was; without a selector for the
\* fixture backend it is passed over.
Listened(wanted) == (IF wanted = {} THEN SourceIds ELSE wanted) \cap Offline

\* Mutant: only the command line says how often a source must be heard.
reportsUndeclared(wanted, asked, interval, grace, inventory) ==
    [source \in Listened(wanted) |->
        build_heartbeat(observe_corpora(source), AsOf(source, asked), interval, grace,
                        inventory)]

\* One report for each source listened to.
reports(wanted, asked, interval, grace, inventory) ==
    [source \in Listened(wanted) |->
        build_heartbeat(observe_corpora(source), AsOf(source, asked),
                        IntervalOf(source, interval), GraceOf(source, grace), inventory)]

\* Any silent pair of host and source fails the command.
HeartbeatExit(found) ==
    IF \A source \in DOMAIN found : healthy(found[source]) THEN "ok" ELSE "gate_failed"

---------------------------------------------------------------------------
(* Correctness *)

\* Types of the recorder's state and of the corpora on disk.
RecTypeOK ==
    LET Documents == Seq([test: Tests \cup {NoTest}, offset: Nat, event: PlatformEvent])
    IN  /\ history \in Histories /\ run \in DOMAIN history
        /\ stage \in Stages
        /\ todo \in Seq(SourceIds) /\ docs \in Documents
        /\ said \in [DOMAIN history -> SUBSET SourceIds]
        /\ ended \in [DOMAIN history -> Endings]
        /\ disk \in [Names -> [manifest: Nat, of: Nat, lines: Documents, torn: BOOLEAN]]
        /\ faults \in 0..MaxFaults /\ crashes \in 0..MaxCrashes

\* A replay never shows more than happened, whatever failed, was cut off,
\* overlapped or was interrupted while it was recorded: a case it reports as
\* DETECTED had a matching event in its own test's window, and in no earlier
\* one, of a run whose recording is replayed.
ReplayInventsNothing ==
    \A names \in SUBSET Names, case \in Cases :
        ReplayOutcome(names, case) = "DETECTED" =>
            \E n \in {m \in names : disk[m].of # Nobody} :
                LET live == history[disk[n].of]
                    span == live.spans[case.test]
                IN  \E e \in live.events :
                        /\ e.dated /\ case.rule \in e.matches /\ Within(e.time, span)
                        /\ \A t \in WindowsOf(live, e.time) :
                              span.from <= live.spans[t].from

\* A recording leaves nothing out in silence: an event of some window that a
\* source covers is in the finished corpus, or corpus.errors names a source
\* that should have brought it.
OmissionsAreSaid ==
    \A n \in Names :
        LET r == disk[n].of IN
        r # Nobody /\ ended[r] = "recorded" =>
            \A e \in history[r].events :
                Placeable(history[r], e) /\ e.scopes \cap SourceIds # {} =>
                    \/ \E i \in DOMAIN disk[n].lines : disk[n].lines[i].event = e
                    \/ e.scopes \cap said[r] # {}

\* A corpus is evidence: no run changes what is there, finished or half
\* written, unless it was told to overwrite.
EvidenceStays ==
    [][\A n \in Names :
          disk[n] # NoCorpus /\ disk'[n] # disk[n] =>
              \/ Current.overwrite /\ Current.name = n
              \/ disk[n].manifest = run]_recVars

\* An offline search that is cut off at its limit still returns the earliest
\* match of a recording, so its latency is right: the search keeps what it
\* meets first and the recorder has written it in order.
CapKeepsEarliest ==
    \A n \in Names, case \in Cases :
        LET found == Detections({n}, case) IN
        found # <<>> => Earliest(Capped(found)) = Earliest(found)

\* Whatever moment a heartbeat is asked about, or about none, it fails exactly
\* when some source it listens to had nothing for that source's grace period
\* (and a full interval at least) from a host that ever named itself in its
\* events or that the inventory expects; such hosts, never heard of or long
\* gone, are named, and no other.
SilenceIsNamed ==
    \A interval \in Intervals, grace \in Graces, asked \in Moments \cup {Unasked},
       inventory \in Inventories, wanted \in SUBSET SourceIds :
        LET found == reports(wanted, asked, interval, grace, inventory)
            SenderOf(source) ==
                UNION {{disk[n].lines[i].event.host : i \in Sighted(n, source)} : n \in Names}
            Halves(source) ==
                Max({2 * IntervalOf(source, interval),
                     IntervalOf(source, interval) * GraceOf(source, grace)})
            HeardSince(source, host) ==
                \E o \in observe_corpora(source) :
                    o.host = host /\ 2 * (AsOf(source, asked) - o.at) <= Halves(source)
            Gone(source) == {host \in inventory \cup SenderOf(source) :
                                ~HeardSince(source, host)}
        IN  Readable(Names) =>
                /\ \A source \in Listened(wanted) : In(found[source], "silent") = Gone(source)
                /\ HeartbeatExit(found) = "ok" <=>
                      \A source \in Listened(wanted) : Gone(source) = {}

---------------------------------------------------------------------------
(* Claims that the code does not keep *)

\* The recorder says that a corpus is exactly the data the verdicts were drawn
\* from: when nothing went wrong, its replay detects what the run detected.
ReplayAgrees ==
    \A n \in Names, case \in Cases :
        LET r == disk[n].of IN
        r # Nobody /\ ended[r] = "recorded" /\ said[r] = {}
        /\ LiveOutcome(history[r], case) = "DETECTED"
            => ReplayOutcome({n}, case) = "DETECTED"

\* The recorder says that an event lands in exactly one place.
EachEventOnce ==
    \A n \in Names : \A i, j \in DOMAIN disk[n].lines :
        disk[n].lines[i].event = disk[n].lines[j].event => i = j

=============================================================================
