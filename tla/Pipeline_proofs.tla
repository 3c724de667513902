--------------------------- MODULE Pipeline_proofs ---------------------------
(***************************************************************************)
(* A validation run says of a case that its telemetry is missing, that its *)
(* rule is noisy or that it fired, only when that is so; and what was      *)
(* there in time is found: for every plan, catalog, policy, platform,      *)
(* recording and pattern of failing queries.                               *)
(*                                                                         *)
(* Verdicts are functions of what was observed, so the first invariant     *)
(* says what an observation keeps of the platform it was made on           *)
(* (Witnessed), when observations are made (InTurn), and that events of a  *)
(* test come after the baseline window (Later).  The emulation phase       *)
(* brings its own invariants along: nothing after it moves anything but    *)
(* the clock.                                                              *)
(*                                                                         *)
(* On top of it: windows run forward (Forward), so the widened window of a *)
(* case holds everything up to the latency budget; nothing is asked before *)
(* the backend has its anchors (Anchoring); an answer counts every         *)
(* recorded event of the case and starts no later than it (Complete); a    *)
(* live event carries the end of its behaviour (Stamped) and was granted   *)
(* the whole budget (Budgeted); a case answered with nothing is still in   *)
(* the queue or was asked at the end (Polling, Patient), and nothing that  *)
(* matches was there when it was (Unmatched).                              *)
(***************************************************************************)
EXTENDS Pipeline, Emulation_proofs, Comprehension_proofs

---------------------------------------------------------------------------
(* Answers *)

LEMMA CapIsPositive == \A limit \in Nat \ {0} : Limited(limit) \in Nat \ {0}
BY PipelineAssumption DEF Limited

\* A page holds some of what was found, if anything was; and the fixture
\* backend's holds what comes first in the files, or everything if that fits.
LEMMA PageMeans ==
    ASSUME NEW found, IsFiniteSet(found), \A e \in found : e.line \in Nat,
           NEW limit \in Nat \ {0}, NEW page \in Pages(found, limit)
    PROVE  /\ page \subseteq found /\ (found # {} => page # {})
           /\ Backend = "fixture" =>
                 /\ Cardinality(found) <= Limited(limit) => page = found
                 /\ found # {} => \E e \in page : \A f \in found : e.line <= f.line
<1> DEFINE cap == Limited(limit)
           Before(e) == {f \in found : f.line < e.line}
<1>1. cap \in Nat \ {0} /\ Cardinality(found) \in Nat
  BY CapIsPositive, FS_CardinalityType
<1>2. CASE Backend = "fixture"
  <2>1. page = {e \in found : Cardinality(Before(e)) < cap}
    BY <1>2 DEF Pages
  <2>2. ASSUME found # {}
        PROVE  \E e \in page : \A f \in found : e.line <= f.line
    <3> DEFINE lines == {e.line : e \in found}
    <3>1. lines \subseteq Int /\ lines # {} /\ \E b \in Int : \A x \in lines : b <= x
      BY <2>2
    <3>2. \E x \in lines : \A y \in lines : x <= y
      <4> HIDE DEF lines
      <4>1. PICK b \in Int : \A x \in lines : b <= x
        BY <3>1
      <4> QED
        BY <3>1, <4>1, LeastElement
    <3>3. PICK e \in found : \A f \in found : e.line <= f.line
      BY <3>2
    <3>4. Before(e) = {}
      BY <3>3
    <3>5. Cardinality(Before(e)) = 0
      BY <3>4, FS_EmptySet
    <3>6. e \in page
      BY <1>1, <2>1, <3>3, <3>5
    <3> QED
      BY <3>3, <3>6
  <2>3. ASSUME Cardinality(found) <= cap
        PROVE  page = found
    <3>1. ASSUME NEW e \in found PROVE Cardinality(Before(e)) < cap
      <4>1. Before(e) \subseteq found /\ Before(e) # found
        OBVIOUS
      <4> HIDE DEF Before
      <4>2. /\ IsFiniteSet(Before(e)) /\ Cardinality(Before(e)) <= Cardinality(found)
            /\ Cardinality(Before(e)) # Cardinality(found)
        BY <4>1, FS_Subset
      <4>3. Cardinality(Before(e)) \in Nat
        BY <4>2, FS_CardinalityType
      <4> QED
        BY <1>1, <2>3, <4>2, <4>3
    <3> HIDE DEF Before
    <3> QED
      BY <2>1, <3>1
  <2> HIDE DEF Before
  <2> QED
    BY <1>2, <2>1, <2>2, <2>3
<1>3. CASE Backend # "fixture"
  <2> DEFINE size == IF Cardinality(found) < cap THEN Cardinality(found) ELSE cap
  <2>1. page \subseteq found /\ Cardinality(page) = size
    BY <1>3 DEF Pages
  <2>2. found # {} => page # {}
    <3>1. found # {} => Cardinality(found) # 0
      BY FS_EmptySet
    <3>2. found # {} => size # 0
      BY <1>1, <3>1
    <3>3. Cardinality({}) = 0
      BY FS_EmptySet
    <3> QED
      BY <2>1, <3>2, <3>3
  <2> QED
    BY <1>3, <2>1, <2>2
<1> QED
  BY <1>2, <1>3

\* The earliest time stamp is one of the page, and none of it is earlier.
LEMMA AnswerMeans ==
    ASSUME NEW found, IsFiniteSet(found), NEW bound \in Int,
           \A e \in found : e.time \in Int /\ bound <= e.time,
           NEW page, page \subseteq found, found # {} => page # {},
           NEW limit \in Nat \ {0}
    PROVE  LET answer == Answer(found, page, limit)
           IN  /\ answer \in QueryResult /\ answer.kind = "answer"
               /\ answer.count <= Cardinality(found)
               /\ answer.count = 0 => found = {}
               /\ answer.count > 0 => \E e \in found : answer.first = e.time
               /\ \A e \in page : answer.first <= e.time
<1> DEFINE n == Cardinality(found)
           cap == Limited(limit)
           counted == CountsAll \/ Backend = "fixture"
           answer == Answer(found, page, limit)
           times == {e.time : e \in page}
<1>1. n \in Nat /\ (n = 0 <=> found = {})
  BY FS_CardinalityType, FS_EmptySet
<1>2. cap \in Nat \ {0}
  BY CapIsPositive
<1>3. /\ answer.kind = "answer"
      /\ answer.count = IF counted \/ n < cap THEN n ELSE cap
      /\ answer.truncated = IF counted THEN n > cap ELSE n >= cap
      /\ answer.first = IF page = {} THEN 0
                        ELSE CHOOSE m \in times : \A e \in page : m <= e.time
      /\ answer = [kind |-> answer.kind, count |-> answer.count,
                   truncated |-> answer.truncated, first |-> answer.first]
  BY DEF Answer
<1>4. page # {} => answer.first \in times /\ \A e \in page : answer.first <= e.time
  <2>1. times \subseteq Int /\ \A x \in times : bound <= x
    OBVIOUS
  <2>2. page # {} => times # {}
    OBVIOUS
  <2>3. page # {} => \E x \in times : \A y \in times : x <= y
    <3> HIDE DEF times
    <3> QED
      BY <2>1, <2>2, LeastElement
  <2>4. page # {} => \E m \in times : \A e \in page : m <= e.time
    BY <2>3
  <2> HIDE DEF times, answer
  <2> QED
    BY <1>3, <2>4
<1>5. answer.first \in Int
  <2>1. times \subseteq Int
    OBVIOUS
  <2>2. page = {} => answer.first = 0
    BY <1>3
  <2> HIDE DEF times, answer
  <2>3. CASE page = {}
    BY <2>2, <2>3
  <2>4. CASE page # {}
    BY <1>4, <2>1, <2>4
  <2> QED
    BY <2>3, <2>4
<1>6. /\ found # {} => \E e \in found : answer.first = e.time
      /\ \A e \in page : answer.first <= e.time
  BY <1>4
<1> HIDE DEF n, cap, counted, answer, times
<1>7. answer.count \in Nat /\ answer.truncated \in BOOLEAN /\ answer.count <= n
      /\ (answer.count = 0 => n = 0) /\ (answer.count > 0 => n # 0)
  <2>1. answer.truncated \in BOOLEAN
    <3>1. (n > cap) \in BOOLEAN /\ (n >= cap) \in BOOLEAN
      BY <1>1, <1>2
    <3>2. (IF counted THEN n > cap ELSE n >= cap) \in BOOLEAN
      BY <3>1
    <3> QED
      BY <1>3, <3>2, Zenon
  <2>2. CASE counted \/ n < cap
    <3>1. answer.count = n
      BY <1>3, <2>2
    <3> QED
      BY <1>1, <2>1, <3>1
  <2>3. CASE ~(counted \/ n < cap)
    <3>1. answer.count = cap
      BY <1>3, <2>3
    <3>2. cap <= n /\ n # 0
      BY <1>1, <1>2, <2>3
    <3> QED
      BY <1>2, <2>1, <3>1, <3>2
  <2> QED
    BY <2>2, <2>3
<1>8. answer \in QueryResult
  BY <1>3, <1>5, <1>7 DEF QueryResult
<1> QED
  BY <1>1, <1>3, <1>6, <1>7, <1>8 DEF n, answer

LEMMA FailedIsResult == Failed \in QueryResult /\ Failed.kind = "failed" /\ NotRun \in QueryResult
                        /\ NotRun.kind = "none"
<1>1. NotRun \in QueryResult /\ NotRun.kind = "none"
  BY DEF NotRun, QueryResult
<1>3. Failed \in QueryResult /\ Failed.kind = "failed"
  BY <1>1 DEF QueryResult, Failed
<1> QED
  BY <1>1, <1>3

---------------------------------------------------------------------------
(* The invariant *)

EmuPart == EmuInv /\ Answered /\ stage # "killed"

RunTypes ==
    /\ phase \in Phases
    /\ corpus \in Seq(Recorded)
    /\ events \subseteq PlatformEvent /\ IsFiniteSet(events)
    /\ baselineEnd \in Nat
    /\ observations \in [CaseIds -> [detection: QueryResult, telemetry: QueryResult,
                                     baseline: QueryResult]]
    /\ asked \in [CaseIds -> Nat \cup {Never}]

\* What a test leaves behind lies after the baseline window.
Later ==
    /\ phase = "baseline" => \A e \in events : e.origin = NoTest
    /\ phase = "emulate" => baselineEnd < now
    /\ \A e \in events : e.origin # NoTest => baselineEnd < e.time

\* Each kind of query is asked in its stage.
InTurn ==
    \A i \in CaseIds :
        /\ observations[i].detection.kind # "none" =>
              phase \in {"detect", "probe", "noise", "classify", "over"}
        /\ observations[i].telemetry.kind # "none" =>
              phase \in {"probe", "noise", "classify", "over"}
        /\ observations[i].baseline.kind # "none" => phase \in {"noise", "classify", "over"}
        /\ asked[i] <= now

\* What can answer for a case.
Attributed(i, e) == Backend = "fixture" => e.origin = Cases[i].test

Hit(i, detection) ==
    \E e \in Platform : /\ e.origin \in Cases[i].matches /\ Attributed(i, e)
                        /\ detection.first = e.time

Nothing(i) ==
    ~\E e \in Platform : /\ e.origin \in Cases[i].covers /\ Attributed(i, e)
                         /\ e.arrives <= asked[i]
                         /\ Window(i).from <= e.time /\ e.time <= Window(i).to

Background(i) == {e \in Platform : e.origin = NoTest /\ NoTest \in Cases[i].matches}

\* What the answers say of the platform.
Witnessed ==
    \A i \in CaseIds :
        /\ observations[i].detection.kind = "answer" /\ observations[i].detection.count > 0 =>
              Hit(i, observations[i].detection)
        /\ observations[i].telemetry.kind = "answer" /\ observations[i].telemetry.count = 0 =>
              Nothing(i)
        /\ observations[i].baseline.kind = "answer" =>
              observations[i].baseline.count <= Cardinality(Background(i))

Judged ==
    phase = "over" =>
        verdicts = [i \in CaseIds |-> classify(Cases[i].expected, Observation(i))]

RunInv == EmuPart /\ RunTypes /\ Later /\ InTurn /\ Witnessed /\ Judged

---------------------------------------------------------------------------
(* What does not change *)

\* Outside the emulation phase only the clock moves.
LEMMA ClockOnly ==
    ASSUME EmuPart, UNCHANGED emuButNow, now' \in Nat
    PROVE  EmuPart'
<1>1. EmuTypeOK'
  BY DEF EmuPart, EmuInv, EmuTypeOK, emuButNow
<1>2. /\ Handling' /\ LaunchedBehind' /\ AnsweredBehind' /\ ErrorsHaveMode' /\ BudgetCounted'
      /\ CommandsArePermitted' /\ RunsAtMostOnce'
  BY DEF EmuPart, EmuInv, emuButNow, Handling, Fresh, LaunchedBehind, AnsweredBehind,
      ErrorsHaveMode, BudgetCounted, WithErrors, Mode, ExecutorMode, CommandsArePermitted,
      Permitted, RunsAtMostOnce
<1>3. Answered' /\ stage' # "killed"
  BY DEF EmuPart, emuButNow, Answered, Behind
<1> QED
  BY <1>1, <1>2, <1>3 DEF EmuPart, EmuInv

World == <<cfg, results, corpus, events, anchored, baselineEnd>>

LEMMA PlatformStays ==
    ASSUME UNCHANGED World
    PROVE  /\ Platform' = Platform
           /\ \A i : Window(i)' = Window(i)
           /\ \A i : Background(i)' = Background(i)
           /\ Backend' = Backend
<1>1. Backend' = Backend
  BY DEF World, Backend
<1>2. /\ \A rec : Anchored(rec)' = Anchored(rec)
      /\ \A n : Materialised(n)' = Materialised(n)
  BY DEF World, Anchored, Materialised
<1>3. Platform' = Platform
  BY <1>1, <1>2 DEF World, Platform
<1>4. \A i : Window(i)' = Window(i)
  BY DEF World, Window
<1>5. \A i : Background(i)' = Background(i)
  BY <1>3 DEF Background
<1> QED
  BY <1>1, <1>3, <1>4, <1>5

\* While nothing is asked and the platform stands still, answers stay true.
LEMMA WitnessedStays ==
    ASSUME Witnessed, UNCHANGED World, UNCHANGED <<observations, asked>>
    PROVE  Witnessed'
<1>1. /\ Platform' = Platform /\ Backend' = Backend
      /\ \A i : Window(i)' = Window(i) /\ Background(i)' = Background(i)
  BY PlatformStays
<1> QED
  BY <1>1 DEF Witnessed, Hit, Nothing, Attributed

\* Before the first query there is nothing to be true of.
LEMMA WitnessedBefore ==
    ASSUME InTurn, phase \in {"baseline", "emulate", "settle", "prepare"},
           UNCHANGED <<observations, asked>>
    PROVE  Witnessed'
<1>1. \A i \in CaseIds : /\ observations[i].detection.kind = "none"
                         /\ observations[i].telemetry.kind = "none"
                         /\ observations[i].baseline.kind = "none"
  BY DEF InTurn
<1> QED
  BY <1>1 DEF Witnessed

LEMMA LineFields ==
    ASSUME RunTypes, NEW n \in DOMAIN corpus
    PROVE  n \in Nat /\ corpus[n].offset \in Int /\ corpus[n].origin \in Tests \cup {NoTest}
<1>1. corpus \in Seq(Recorded)
  BY DEF RunTypes
<1>2. n \in Nat /\ corpus[n] \in Recorded
  BY <1>1
<1> QED
  BY <1>2 DEF Recorded

LEMMA PlatformIsFinite ==
    ASSUME RunTypes, EmuPart
    PROVE  /\ IsFiniteSet(Platform)
           /\ \A e \in Platform : e.time \in Int /\ e.line \in Nat
<1>1. CASE Backend = "fixture"
  <2> DEFINE S == {m \in DOMAIN corpus : Anchored(corpus[m])}
             f == [n \in S |-> Materialised(n)]
  <2>1. Platform = {Materialised(n) : n \in S}
    BY <1>1 DEF Platform
  <2>2. IsFiniteSet(S) /\ S \subseteq Nat
    <3>1. Len(corpus) \in Nat /\ DOMAIN corpus = 1..Len(corpus)
      BY DEF RunTypes
    <3>2. IsFiniteSet(1..Len(corpus))
      BY <3>1, FS_Interval
    <3>3. S \subseteq 1..Len(corpus) /\ S \subseteq Nat
      BY <3>1
    <3> HIDE DEF S
    <3> QED
      BY <3>2, <3>3, FS_Subset
  <2>3. f \in Surjection(S, Platform)
    BY <2>1 DEF Surjection
  <2>4. IsFiniteSet(Platform)
    BY <2>2, <2>3, FS_Surjection
  <2>5. ASSUME NEW n \in S PROVE Materialised(n).time \in Int /\ Materialised(n).line \in Nat
    <3>1. corpus[n].offset \in Int /\ corpus[n].origin \in Tests \cup {NoTest}
      BY LineFields
    <3>2. baselineEnd - BaselineWindow \in Int
      BY PipelineAssumption DEF RunTypes
    <3>3. corpus[n].origin \in Tests => results[corpus[n].origin].start \in Int
      BY PlainTypes DEF EmuPart
    <3> QED
      BY <2>2, <3>1, <3>2, <3>3 DEF Materialised
  <2> QED
    BY <2>1, <2>4, <2>5
<1>2. CASE Backend # "fixture"
  <2>1. Platform = events
    BY <1>2 DEF Platform
  <2> QED
    BY <2>1 DEF RunTypes, PlatformEvent
<1> QED
  BY <1>1, <1>2

\* The answer to a query for events of some origins in a window.
LEMMA AnswerToSearch ==
    ASSUME RunTypes, EmuPart, NEW origins, NEW window, window.from \in Int,
           NEW attribution, NEW limit \in Nat \ {0},
           NEW answer \in Answers(Found(origins, window, attribution), limit)
    PROVE  LET found == Found(origins, window, attribution)
           IN  /\ answer \in QueryResult /\ answer.kind # "none"
               /\ IsFiniteSet(found)
               /\ answer.kind = "answer" =>
                     /\ answer.count <= Cardinality(found)
                     /\ answer.count = 0 => found = {}
                     /\ answer.count > 0 => \E e \in found : answer.first = e.time
<1> DEFINE found == Found(origins, window, attribution)
<1>1. found \subseteq Platform
  BY DEF Found
<1>2. IsFiniteSet(found)
  BY <1>1, PlatformIsFinite, FS_Subset
<1>3. \A e \in found : e.time \in Int /\ e.line \in Nat /\ window.from <= e.time
  BY <1>1, PlatformIsFinite DEF Found
<1>4. (\E page \in Pages(found, limit) : answer = Answer(found, page, limit)) \/ answer = Failed
  BY DEF Answers
<1> HIDE DEF found
<1>5. ASSUME NEW page \in Pages(found, limit), answer = Answer(found, page, limit)
      PROVE  /\ answer \in QueryResult /\ answer.kind # "none"
             /\ answer.count <= Cardinality(found)
             /\ answer.count = 0 => found = {}
             /\ answer.count > 0 => \E e \in found : answer.first = e.time
  <2>1. page \subseteq found /\ (found # {} => page # {})
    BY <1>2, <1>3, PageMeans
  <2> QED
    BY <1>2, <1>3, <1>5, <2>1, AnswerMeans
<1>6. CASE answer = Failed
  BY <1>2, <1>6, FailedIsResult DEF found
<1> QED
  BY <1>2, <1>4, <1>5, <1>6 DEF found

\* Case i of the plan, as far as windows and types go.
LEMMA CaseFields ==
    ASSUME NEW i \in CaseIds
    PROVE  Cases[i] \in Case /\ Cases[i].test \in Tests /\ Cases[i].matches \subseteq Cases[i].covers
<1>1. Cases[i] \in Case
  BY PipelineAssumption DEF CaseIds
<1> QED
  BY <1>1, PipelineAssumption DEF Case, CaseIds

LEMMA WindowFrom ==
    ASSUME EmuPart, NEW i \in CaseIds
    PROVE  Window(i).from \in Int
<1>1. results[Cases[i].test].start \in Nat
  BY CaseFields, PlainTypes DEF EmuPart
<1>2. PreWindow \in Nat
  BY PipelineAssumption
<1>3. Window(i).from = results[Cases[i].test].start - PreWindow
  BY DEF Window
<1> QED
  BY <1>1, <1>2, <1>3

---------------------------------------------------------------------------
(* Steps *)

LEMMA RunStarts == PipeInit => RunInv
<1> SUFFICES ASSUME PipeInit PROVE RunInv
  OBVIOUS
<1>1. EmuPart
  <2>1. EmuInv
    BY InitEstablishes DEF PipeInit
  <2>2. Answered /\ stage # "killed"
    BY DEF PipeInit, EmuInit, Answered, Behind
  <2> QED
    BY <2>1, <2>2 DEF EmuPart
<1>2. corpus \in Seq(Recorded)
  <2>1. <<>> \in Seq(Recorded)
    OBVIOUS
  <2> QED
    BY <2>1, PipelineAssumption DEF PipeInit
<1>3. /\ events \subseteq PlatformEvent /\ IsFiniteSet(events)
      /\ \A e \in events : e.origin = NoTest
  BY PipelineAssumption, FS_EmptySet DEF PipeInit
<1>4. /\ observations = NothingObserved /\ asked = [i \in CaseIds |-> Never]
      /\ phase = "baseline" /\ baselineEnd = 0 /\ now = 0
  BY DEF PipeInit, EmuInit
<1>5. RunTypes
  BY <1>2, <1>3, <1>4, FailedIsResult DEF RunTypes, Phases, NothingObserved
<1>6. \A i \in CaseIds : /\ observations[i].detection.kind = "none"
                         /\ observations[i].telemetry.kind = "none"
                         /\ observations[i].baseline.kind = "none"
                         /\ asked[i] = -1
  BY <1>4, FailedIsResult DEF NothingObserved, Never
<1>7. Later /\ InTurn /\ Witnessed /\ Judged
  BY <1>3, <1>4, <1>6 DEF Later, InTurn, Witnessed, Judged
<1> QED
  BY <1>1, <1>5, <1>7 DEF RunInv

\* The emulation phase only moves forward.
LEMMA ProgressForward ==
    ASSUME EmuPart, Progress
    PROVE  /\ EmuPart' /\ now <= now' /\ now \in Nat /\ now' \in Nat
           /\ behaved' \subseteq Tests
<1>1. EmuInv' /\ Answered'
  BY StepPreserves, AnsweredStep DEF EmuNext, EmuPart
<1>2. stage' # "killed"
  BY DEF EmuPart, Progress, DropRepeat, SkipUnknown, Refuse, Reserve, Launch, CommandReturns,
         CleanupReturns, Pace, Return, Conclude
<1>3. behaved' \subseteq Tests /\ now' \in Nat /\ now \in Nat
  BY <1>1 DEF EmuInv, EmuTypeOK, EmuPart
<1>4. now <= now'
  <2>1. CASE CommandReturns \/ CleanupReturns
    <3>1. PICK d \in 0..MaxDuration : now' = now + d
      BY <2>1 DEF CommandReturns, CleanupReturns
    <3> QED
      BY <1>3, <3>1, EmulationAssumption
  <2>2. CASE Pace
    <3>1. Pause(pos) \in Nat
      BY PlainTypes DEF EmuPart, Pause
    <3> QED
      BY <1>3, <2>2, <3>1 DEF Pace
  <2>3. CASE ~(CommandReturns \/ CleanupReturns \/ Pace)
    <3>1. now' = now
      BY <2>3 DEF Progress, DropRepeat, SkipUnknown, Refuse, Reserve, Launch, Return
    <3> QED
      BY <1>3, <3>1
  <2> QED
    BY <2>1, <2>2, <2>3
<1> QED
  BY <1>1, <1>2, <1>3, <1>4 DEF EmuPart

LEMMA EmulateStep == ASSUME RunInv, Emulate PROVE RunInv'
<1>1. /\ phase = "emulate" /\ Progress
      /\ UNCHANGED <<phase, corpus, baselineEnd, anchored, observations, verdicts, asked>>
  BY DEF Emulate
<1>2. EmuPart' /\ now <= now' /\ now \in Nat /\ now' \in Nat /\ behaved' \subseteq Tests
  BY <1>1, ProgressForward DEF RunInv
<1>3. baselineEnd \in Nat /\ baselineEnd < now
  BY <1>1 DEF RunInv, RunTypes, Later
<1>4. /\ events' \subseteq PlatformEvent /\ IsFiniteSet(events')
      /\ \A e \in events' : e.origin # NoTest => baselineEnd < e.time
  <2>1. /\ events \subseteq PlatformEvent /\ IsFiniteSet(events)
        /\ \A e \in events : e.origin # NoTest => baselineEnd < e.time
    BY DEF RunInv, RunTypes, Later
  <2>2. CASE events' = events
    BY <2>1, <2>2
  <2>3. CASE events' # events
    <3>1. PICK lag \in Lags, t \in behaved' \ behaved :
            events' = events \cup {[origin |-> t, time |-> now', arrives |-> now' + lag, line |-> 0]}
      BY <2>3 DEF Emulate
    <3>0. PICK n \in Nat : n = now'
      BY <1>2
    <3> DEFINE e == [origin |-> t, time |-> n, arrives |-> n + lag, line |-> 0]
    <3>2. e \in PlatformEvent /\ e.time = n
      <4>1. lag \in Nat /\ t \in Tests
        BY <1>2, PipelineAssumption
      <4>2. n + lag \in Nat /\ n \in Int
        BY <4>1
      <4> QED
        BY <4>1, <4>2 DEF PlatformEvent
    <3> HIDE DEF e
    <3>3. events' = events \cup {e}
      BY <3>0, <3>1 DEF e
    <3>4. IsFiniteSet(events')
      BY <2>1, <3>3, FS_AddElement
    <3>5. baselineEnd < e.time
      BY <1>2, <1>3, <3>0, <3>2
    <3> QED
      BY <2>1, <3>2, <3>3, <3>4, <3>5
  <2> QED
    BY <2>2, <2>3
<1>5. RunTypes'
  BY <1>1, <1>4 DEF RunInv, RunTypes
<1>6. Later'
  BY <1>1, <1>2, <1>3, <1>4 DEF Later
<1>7. InTurn'
  <2>1. \A i \in CaseIds : asked[i] <= now'
    BY <1>2 DEF RunInv, RunTypes, InTurn, Never
  <2> QED
    BY <1>1, <2>1 DEF RunInv, InTurn
<1>8. Witnessed'
  BY <1>1, WitnessedBefore DEF RunInv
<1> QED
  BY <1>1, <1>2, <1>5, <1>6, <1>7, <1>8 DEF RunInv, Judged

\* The stages in which nothing is asked: the run goes to the next stage, and
\* perhaps time passes.
LEMMA StageStep ==
    ASSUME RunInv, UNCHANGED <<emuButNow, events, corpus, observations, asked>>,
           now' \in Nat, now <= now',
           phase' \in Phases, phase' # "over",
           \/ phase \in {"baseline", "emulate", "settle", "prepare"}
           \/ UNCHANGED <<anchored, baselineEnd>>,
           baselineEnd' = baselineEnd \/ (phase = "baseline" /\ baselineEnd' = now /\ now < now'),
           phase' = "baseline" => phase = "baseline",
           phase' = "emulate" => phase = "baseline" /\ baselineEnd' < now',
           phase \in {"detect", "probe", "noise"} =>
              phase' \in {phase, "probe", "noise", "classify"},
           phase = "noise" => phase' \in {"noise", "classify"},
           phase = "probe" => phase' \in {"probe", "noise"},
           phase \notin {"classify", "over", "killed"}
    PROVE  RunInv'
<1>1. EmuPart' /\ now \in Nat
  BY ClockOnly, PlainTypes DEF RunInv, EmuPart
<1>2. baselineEnd' \in Nat
  BY <1>1 DEF RunInv, RunTypes
<1>3. RunTypes'
  BY <1>2 DEF RunInv, RunTypes
<1>4. Later'
  <2>1. CASE baselineEnd' = baselineEnd
    BY <2>1 DEF RunInv, Later
  <2>2. CASE phase = "baseline"
    BY <2>2 DEF RunInv, Later
  <2> QED
    BY <2>1, <2>2
<1>5. InTurn'
  <2>1. \A i \in CaseIds : asked[i] <= now'
    BY <1>1 DEF RunInv, RunTypes, InTurn, Never
  <2> QED
    BY <2>1 DEF RunInv, InTurn, RunTypes, Phases
<1>6. Witnessed'
  <2>1. CASE phase \in {"baseline", "emulate", "settle", "prepare"}
    BY <2>1, WitnessedBefore DEF RunInv
  <2>2. CASE UNCHANGED <<anchored, baselineEnd>>
    BY <2>2, WitnessedStays DEF RunInv, World, emuButNow
  <2> QED
    BY <2>1, <2>2
<1> QED
  BY <1>1, <1>3, <1>4, <1>5, <1>6 DEF RunInv, Judged

\* A query of one case: what it is asked for, and what its answer does.
LEMMA DetectionStep == ASSUME RunInv, AskDetection PROVE RunInv'
<1> DEFINE i == Head(pending)
<1>1. /\ phase = "detect" /\ phase' = phase /\ UNCHANGED emuButNow
      /\ UNCHANGED <<corpus, events, baselineEnd, anchored, verdicts>>
      /\ asked' = [asked EXCEPT ![i] = now]
  BY DEF AskDetection
<1>2. now \in Nat /\ now' \in Nat /\ now <= now'
  <2>1. now \in Nat
    BY PlainTypes DEF RunInv, EmuPart
  <2>2. PICK d \in 0..MaxQueryTime : now' = now + d
    BY DEF AskDetection
  <2> QED
    BY <2>1, <2>2, PipelineAssumption
<1>3. PICK answer \in Answers(Found(Cases[i].matches, Window(i), Cases[i].test), SearchLimit) :
        observations' = [observations EXCEPT ![i].detection = answer]
  BY DEF AskDetection
<1> HIDE DEF i
<1>4. EmuPart'
  BY <1>1, <1>2, ClockOnly DEF RunInv
<1>5. /\ Platform' = Platform /\ Backend' = Backend
      /\ \A j : Window(j)' = Window(j) /\ Background(j)' = Background(j)
  BY <1>1, PlatformStays DEF World, emuButNow
<1>6. i \in CaseIds =>
        /\ answer \in QueryResult
        /\ answer.kind = "answer" /\ answer.count > 0 => Hit(i, answer)
  <2> SUFFICES ASSUME i \in CaseIds
               PROVE  /\ answer \in QueryResult
                      /\ answer.kind = "answer" /\ answer.count > 0 => Hit(i, answer)
    OBVIOUS
  <2> DEFINE found == Found(Cases[i].matches, Window(i), Cases[i].test)
  <2>1. Window(i).from \in Int /\ SearchLimit \in Nat \ {0}
    BY WindowFrom, PipelineAssumption DEF RunInv
  <2>2. /\ answer \in QueryResult
        /\ answer.kind = "answer" /\ answer.count > 0 => \E e \in found : answer.first = e.time
    BY <1>3, <2>1, AnswerToSearch DEF RunInv
  <2>3. \A e \in found : e \in Platform /\ e.origin \in Cases[i].matches /\ Attributed(i, e)
    BY DEF Found, Attributed
  <2> HIDE DEF found
  <2> QED
    BY <2>2, <2>3 DEF Hit
<1>7. \A j \in CaseIds :
        /\ observations'[j].detection = IF j = i THEN answer ELSE observations[j].detection
        /\ observations'[j].telemetry = observations[j].telemetry
        /\ observations'[j].baseline = observations[j].baseline
        /\ asked'[j] = IF j = i THEN now ELSE asked[j]
  BY <1>1, <1>3 DEF RunInv, RunTypes
<1>8. RunTypes'
  <2>1. asked' \in [CaseIds -> Nat \cup {Never}]
    BY <1>1, <1>2 DEF RunInv, RunTypes
  <2>2. observations' \in [CaseIds -> [detection: QueryResult, telemetry: QueryResult,
                                       baseline: QueryResult]]
    BY <1>3, <1>6 DEF RunInv, RunTypes
  <2> QED
    BY <1>1, <2>1, <2>2 DEF RunInv, RunTypes
<1>9. Later'
  BY <1>1 DEF RunInv, Later
<1>10. InTurn'
  <2>1. \A j \in CaseIds : asked'[j] <= now'
    BY <1>2, <1>7 DEF RunInv, RunTypes, InTurn, Never
  <2> QED
    BY <1>1, <1>7, <2>1 DEF RunInv, InTurn
<1>11. Witnessed'
  <2> SUFFICES ASSUME NEW j \in CaseIds
               PROVE  /\ observations'[j].detection.kind = "answer"
                         /\ observations'[j].detection.count > 0 =>
                            Hit(j, observations[j].detection)'
                      /\ observations'[j].telemetry.kind # "answer"
                      /\ observations'[j].baseline.kind # "answer"
    BY DEF Witnessed
  <2>1. observations'[j].telemetry.kind = "none" /\ observations'[j].baseline.kind = "none"
    BY <1>1, <1>7 DEF RunInv, InTurn
  <2>2. \A d : Hit(j, d)' <=> Hit(j, d)
    BY <1>5 DEF Hit, Attributed
  <2>3. CASE j = i
    <3>1. observations'[j].detection = answer
      BY <1>7, <2>3
    <3>2. answer.kind = "answer" /\ answer.count > 0 => Hit(j, answer)
      BY <1>6, <2>3
    <3>3. Hit(j, observations[j].detection)' <=> Hit(j, answer)
      BY <1>5, <3>1 DEF Hit, Attributed
    <3> QED
      BY <2>1, <3>1, <3>2, <3>3
  <2>4. CASE j # i
    <3>1. observations'[j].detection = observations[j].detection
      BY <1>7, <2>4
    <3>2. Hit(j, observations[j].detection)' <=> Hit(j, observations[j].detection)
      BY <1>5, <3>1 DEF Hit, Attributed
    <3> QED
      BY <2>1, <3>1, <3>2 DEF RunInv, Witnessed
  <2> QED
    BY <2>3, <2>4
<1> QED
  BY <1>1, <1>4, <1>8, <1>9, <1>10, <1>11 DEF RunInv, Judged

LEMMA ProbeStep == ASSUME RunInv, ProbeTelemetry PROVE RunInv'
<1> DEFINE i == Head(pending)
<1>1. /\ phase = "probe" /\ phase' = phase /\ UNCHANGED emuButNow
      /\ UNCHANGED <<corpus, events, baselineEnd, anchored, verdicts, asked>>
  BY DEF ProbeTelemetry
<1>2. now \in Nat /\ now' \in Nat /\ now <= now'
  <2>1. now \in Nat
    BY PlainTypes DEF RunInv, EmuPart
  <2>2. PICK d \in 0..MaxQueryTime : now' = now + d
    BY DEF ProbeTelemetry
  <2> QED
    BY <2>1, <2>2, PipelineAssumption
<1>3. PICK answer \in Answers(Found(Cases[i].covers, Window(i), Cases[i].test), 1) :
        observations' = [observations EXCEPT ![i].telemetry = answer]
  BY DEF ProbeTelemetry
<1> HIDE DEF i
<1>4. EmuPart'
  BY <1>1, <1>2, ClockOnly DEF RunInv
<1>5. /\ Platform' = Platform /\ Backend' = Backend
      /\ \A j : Window(j)' = Window(j) /\ Background(j)' = Background(j)
  BY <1>1, PlatformStays DEF World, emuButNow
<1>6. i \in CaseIds =>
        /\ answer \in QueryResult
        /\ answer.kind = "answer" /\ answer.count = 0 => Nothing(i)
  <2> SUFFICES ASSUME i \in CaseIds
               PROVE  /\ answer \in QueryResult
                      /\ answer.kind = "answer" /\ answer.count = 0 => Nothing(i)
    OBVIOUS
  <2> DEFINE found == Found(Cases[i].covers, Window(i), Cases[i].test)
  <2>1. Window(i).from \in Int
    BY WindowFrom DEF RunInv
  <2>2. /\ answer \in QueryResult
        /\ answer.kind = "answer" /\ answer.count = 0 => found = {}
    BY <1>3, <2>1, AnswerToSearch DEF RunInv
  <2>3. ASSUME NEW e \in Platform, e.origin \in Cases[i].covers, Attributed(i, e),
               e.arrives <= asked[i], Window(i).from <= e.time, e.time <= Window(i).to
        PROVE  e \in found
    <3>1. e.arrives <= now
      <4>1. asked[i] <= now /\ asked[i] \in Int
        BY DEF RunInv, InTurn, RunTypes, Never
      <4>2. e.arrives \in Int
        <5>1. CASE Backend = "fixture"
          BY <5>1 DEF Platform, Materialised
        <5>2. CASE Backend # "fixture"
          BY <5>2 DEF Platform, RunInv, RunTypes, PlatformEvent
        <5> QED
          BY <5>1, <5>2
      <4> QED
        BY <1>2, <2>3, <4>1, <4>2
    <3> QED
      BY <2>3, <3>1 DEF Found, Attributed
  <2> HIDE DEF found
  <2> QED
    BY <2>2, <2>3 DEF Nothing
<1>7. \A j \in CaseIds :
        /\ observations'[j].telemetry = IF j = i THEN answer ELSE observations[j].telemetry
        /\ observations'[j].detection = observations[j].detection
        /\ observations'[j].baseline = observations[j].baseline
  BY <1>3 DEF RunInv, RunTypes
<1>8. RunTypes'
  <2>1. observations' \in [CaseIds -> [detection: QueryResult, telemetry: QueryResult,
                                       baseline: QueryResult]]
    BY <1>3, <1>6 DEF RunInv, RunTypes
  <2> QED
    BY <1>1, <2>1 DEF RunInv, RunTypes
<1>9. Later'
  BY <1>1 DEF RunInv, Later
<1>10. InTurn'
  <2>1. \A j \in CaseIds : asked'[j] <= now'
    BY <1>1, <1>2 DEF RunInv, RunTypes, InTurn, Never
  <2> QED
    BY <1>1, <1>7, <2>1 DEF RunInv, InTurn
<1>11. Witnessed'
  <2> SUFFICES ASSUME NEW j \in CaseIds
               PROVE  /\ observations'[j].detection.kind = "answer"
                         /\ observations'[j].detection.count > 0 =>
                            Hit(j, observations[j].detection)'
                      /\ observations'[j].telemetry.kind = "answer"
                         /\ observations'[j].telemetry.count = 0 => Nothing(j)'
                      /\ observations'[j].baseline.kind # "answer"
    BY DEF Witnessed
  <2>1. observations'[j].baseline.kind = "none"
    BY <1>1, <1>7 DEF RunInv, InTurn
  <2>2. observations'[j].detection = observations[j].detection
    BY <1>7
  <2>3. Hit(j, observations[j].detection)' <=> Hit(j, observations[j].detection)
    BY <1>5, <2>2 DEF Hit, Attributed
  <2>4. Nothing(j)' <=> Nothing(j)
    BY <1>1, <1>5 DEF Nothing, Attributed
  <2>5. observations'[j].telemetry.kind = "answer"
        /\ observations'[j].telemetry.count = 0 => Nothing(j)
    <3>1. CASE j = i
      BY <1>6, <1>7, <3>1
    <3>2. CASE j # i
      BY <1>7, <3>2 DEF RunInv, Witnessed
    <3> QED
      BY <3>1, <3>2
  <2> QED
    BY <2>1, <2>2, <2>3, <2>4, <2>5 DEF RunInv, Witnessed
<1> QED
  BY <1>1, <1>4, <1>8, <1>9, <1>10, <1>11 DEF RunInv, Judged

\* The logic of a rule over the quiet window finds no event of a test.
LEMMA BaselineStep == ASSUME RunInv, AskBaseline PROVE RunInv'
<1> DEFINE i == Head(pending)
<1>1. /\ phase = "noise" /\ phase' = phase /\ UNCHANGED emuVars
      /\ UNCHANGED <<corpus, events, baselineEnd, anchored, verdicts, asked>>
  BY DEF AskBaseline
<1>2. PICK answer \in Answers(Found(Cases[i].matches, BaselineWindowOf, NoTest), 25) :
        observations' = [observations EXCEPT ![i].baseline = answer]
  BY DEF AskBaseline
<1> HIDE DEF i
<1>3. EmuPart' /\ now \in Nat /\ now' = now /\ UNCHANGED emuButNow
  <2>1. now \in Nat /\ now' = now /\ UNCHANGED emuButNow
    BY <1>1, PlainTypes DEF RunInv, EmuPart, emuVars, emuButNow
  <2> QED
    BY <2>1, ClockOnly DEF RunInv
<1>4. /\ Platform' = Platform /\ Backend' = Backend
      /\ \A j : Window(j)' = Window(j) /\ Background(j)' = Background(j)
  BY <1>1, <1>3, PlatformStays DEF World, emuButNow
<1>5. i \in CaseIds =>
        /\ answer \in QueryResult
        /\ answer.kind = "answer" => answer.count <= Cardinality(Background(i))
  <2> SUFFICES ASSUME i \in CaseIds
               PROVE  /\ answer \in QueryResult
                      /\ answer.kind = "answer" => answer.count <= Cardinality(Background(i))
    OBVIOUS
  <2> DEFINE found == Found(Cases[i].matches, BaselineWindowOf, NoTest)
  <2>1. BaselineWindowOf.from \in Int /\ BaselineWindowOf.to = baselineEnd
    BY PipelineAssumption DEF BaselineWindowOf, RunInv, RunTypes
  <2>2. /\ answer \in QueryResult /\ IsFiniteSet(found)
        /\ answer.kind = "answer" => answer.count <= Cardinality(found)
    BY SMTT(20), <1>2, <2>1, AnswerToSearch DEF RunInv
  <2>3. found \subseteq Background(i)
    <3> SUFFICES ASSUME NEW e \in found PROVE e \in Background(i)
      OBVIOUS
    <3>1. e \in Platform /\ e.origin \in Cases[i].matches /\ e.time <= baselineEnd
      BY <2>1 DEF Found
    <3>2. CASE Backend = "fixture"
      BY <3>1, <3>2 DEF Found, Background
    <3>3. CASE Backend # "fixture"
      <4>1. e \in events
        BY <3>1, <3>3 DEF Platform
      <4>2. e.time \in Int /\ baselineEnd \in Int
        BY <4>1 DEF RunInv, RunTypes, PlatformEvent
      <4>3. e.origin = NoTest
        BY <3>1, <4>1, <4>2 DEF RunInv, Later
      <4> QED
        BY <3>1, <4>3 DEF Background
    <3> QED
      BY <3>2, <3>3
  <2>4. IsFiniteSet(Background(i))
    BY PlatformIsFinite, FS_Subset DEF RunInv, Background
  <2>5. Cardinality(found) <= Cardinality(Background(i))
    <3> HIDE DEF found
    <3> QED
      BY <2>3, <2>4, FS_Subset
  <2>6. answer.kind = "answer" => answer.count <= Cardinality(Background(i))
    <3>1. Cardinality(found) \in Nat /\ Cardinality(Background(i)) \in Nat /\ answer.count \in Nat
      BY <2>2, <2>4, FS_CardinalityType DEF QueryResult
    <3> HIDE DEF found
    <3> QED
      BY <2>2, <2>5, <3>1
  <2> QED
    BY <2>2, <2>6
<1>6. \A j \in CaseIds :
        /\ observations'[j].baseline = IF j = i THEN answer ELSE observations[j].baseline
        /\ observations'[j].detection = observations[j].detection
        /\ observations'[j].telemetry = observations[j].telemetry
  BY <1>2 DEF RunInv, RunTypes
<1>7. RunTypes'
  <2>1. observations' \in [CaseIds -> [detection: QueryResult, telemetry: QueryResult,
                                       baseline: QueryResult]]
    BY <1>2, <1>5 DEF RunInv, RunTypes
  <2> QED
    BY <1>1, <2>1 DEF RunInv, RunTypes
<1>8. Later'
  BY <1>1 DEF RunInv, Later
<1>9. InTurn'
  BY <1>1, <1>3, <1>6 DEF RunInv, InTurn
<1>10. Witnessed'
  <2> SUFFICES ASSUME NEW j \in CaseIds
               PROVE  /\ observations'[j].detection.kind = "answer"
                         /\ observations'[j].detection.count > 0 =>
                            Hit(j, observations[j].detection)'
                      /\ observations'[j].telemetry.kind = "answer"
                         /\ observations'[j].telemetry.count = 0 => Nothing(j)'
                      /\ observations'[j].baseline.kind = "answer" =>
                            observations'[j].baseline.count <= Cardinality(Background(j))'
    BY DEF Witnessed
  <2>1. observations'[j].detection = observations[j].detection
        /\ observations'[j].telemetry = observations[j].telemetry
    BY <1>6
  <2>2. Hit(j, observations[j].detection)' <=> Hit(j, observations[j].detection)
    BY <1>4, <2>1 DEF Hit, Attributed
  <2>3. Nothing(j)' <=> Nothing(j)
    BY <1>1, <1>4 DEF Nothing, Attributed
  <2>4. Cardinality(Background(j))' = Cardinality(Background(j))
    BY <1>4
  <2>5. observations'[j].baseline.kind = "answer" =>
          observations'[j].baseline.count <= Cardinality(Background(j))
    <3>1. CASE j = i
      BY <1>5, <1>6, <3>1
    <3>2. CASE j # i
      BY <1>6, <3>2 DEF RunInv, Witnessed
    <3> QED
      BY <3>1, <3>2
  <2> QED
    BY <2>1, <2>2, <2>3, <2>4, <2>5 DEF RunInv, Witnessed
<1> QED
  BY <1>1, <1>3, <1>7, <1>8, <1>9, <1>10 DEF RunInv, Judged

LEMMA ClassifyStep == ASSUME RunInv, ClassifyCases PROVE RunInv'
<1>1. /\ phase = "classify" /\ phase' = "over"
      /\ verdicts' = [i \in CaseIds |-> classify(Cases[i].expected, Observation(i))]
      /\ UNCHANGED <<emuVars, corpus, events, baselineEnd, anchored, observations, asked>>
  BY DEF ClassifyCases, Enter, After
<1>2. EmuPart'
  <2>1. UNCHANGED emuButNow /\ now' \in Nat
    BY <1>1, PlainTypes DEF RunInv, EmuPart, emuVars, emuButNow
  <2> QED
    BY <2>1, ClockOnly DEF RunInv
<1>3. RunTypes'
  BY <1>1 DEF RunInv, RunTypes, Phases
<1>4. Later' /\ InTurn'
  BY <1>1 DEF RunInv, Later, InTurn, emuVars
<1>5. Witnessed'
  <2>1. UNCHANGED World
    BY <1>1 DEF World, emuVars
  <2> QED
    BY <1>1, <2>1, WitnessedStays DEF RunInv
<1>6. Judged'
  <2>1. \A i : Observation(i)' = Observation(i)
    BY <1>1 DEF Observation, HasSkipReason, emuVars
  <2> QED
    BY <1>1, <2>1 DEF Judged
<1> QED
  BY <1>2, <1>3, <1>4, <1>5, <1>6 DEF RunInv

LEMMA AbandonStep == ASSUME RunInv, Abandon PROVE RunInv'
<1>1. /\ phase' = "killed" /\ observations' = NothingObserved
      /\ asked' = [i \in CaseIds |-> Never]
      /\ UNCHANGED <<emuVars, corpus, events, baselineEnd>>
  BY DEF Abandon
<1>2. now \in Nat /\ UNCHANGED emuButNow /\ now' = now
  BY <1>1, PlainTypes DEF RunInv, EmuPart, emuVars, emuButNow
<1>3. EmuPart'
  BY <1>2, ClockOnly DEF RunInv
<1>4. \A i \in CaseIds : /\ observations'[i].detection.kind = "none"
                         /\ observations'[i].telemetry.kind = "none"
                         /\ observations'[i].baseline.kind = "none"
                         /\ asked'[i] = -1
  BY <1>1, FailedIsResult DEF NothingObserved, Never
<1>5. RunTypes'
  <2>1. observations' \in [CaseIds -> [detection: QueryResult, telemetry: QueryResult,
                                       baseline: QueryResult]]
    BY <1>1, FailedIsResult DEF NothingObserved
  <2> QED
    BY <1>1, <2>1 DEF RunInv, RunTypes, Phases
<1>6. Later' /\ InTurn' /\ Witnessed' /\ Judged'
  BY <1>1, <1>2, <1>4 DEF RunInv, Later, InTurn, Witnessed, Judged
<1> QED
  BY <1>3, <1>5, <1>6 DEF RunInv

LEMMA StepKeeps == RunInv /\ [Next]_vars => RunInv'
<1> SUFFICES ASSUME RunInv, [Next]_vars PROVE RunInv'
  OBVIOUS
<1>0. now \in Nat /\ now + 1 \in Nat /\ now < now + 1 /\ now <= now
  BY PlainTypes DEF RunInv, EmuPart
<1>1. CASE TakeBaseline
  <2>1. /\ phase = "baseline" /\ phase' = "emulate" /\ baselineEnd' = now /\ now' = now + 1
        /\ UNCHANGED <<emuButNow, events, corpus, observations, asked>>
    BY <1>1 DEF TakeBaseline, Enter, After
  <2> QED
    BY <1>0, <2>1, StageStep DEF Phases
<1>2. CASE Emulate
  BY <1>2, EmulateStep
<1>3. CASE Emulated
  <2>1. /\ phase = "emulate" /\ phase' = "settle" /\ now' = now
        /\ UNCHANGED <<emuButNow, events, corpus, observations, asked, baselineEnd>>
    BY <1>3 DEF Emulated, Enter, After, emuVars, emuButNow
  <2> QED
    BY <1>0, <2>1, StageStep DEF Phases
<1>4. CASE Settle
  <2>1. SettleTime \in Nat
    BY PipelineAssumption DEF SettleTime
  <2>2. /\ phase = "settle" /\ phase' = "prepare" /\ now' = now + SettleTime
        /\ UNCHANGED <<emuButNow, events, corpus, observations, asked, baselineEnd>>
    BY <1>4 DEF Settle, Enter, After
  <2>3. now' \in Nat /\ now <= now'
    BY <1>0, <2>1, <2>2
  <2> QED
    BY <2>2, <2>3, StageStep DEF Phases
<1>5. CASE Prepare
  <2>1. /\ phase = "prepare" /\ phase' = "detect" /\ now' = now
        /\ UNCHANGED <<emuButNow, events, corpus, observations, asked, baselineEnd>>
    BY <1>5 DEF Prepare, Enter, After, emuVars, emuButNow
  <2> QED
    BY <1>0, <2>1, StageStep DEF Phases
<1>6. CASE AskDetection
  BY <1>6, DetectionStep
<1>7. CASE DetectionDone
  <2>1. /\ phase = "detect" /\ phase' = "probe" /\ now' = now
        /\ UNCHANGED <<emuButNow, events, corpus, observations, asked, baselineEnd, anchored>>
    BY <1>7 DEF DetectionDone, Enter, After, emuVars, emuButNow
  <2> QED
    BY <1>0, <2>1, StageStep DEF Phases
<1>8. CASE PollAgain
  <2>1. /\ phase = "detect" /\ phase' = "detect" /\ now' = now + PollInterval
        /\ UNCHANGED <<emuButNow, events, corpus, observations, asked, baselineEnd, anchored>>
    BY <1>8 DEF PollAgain
  <2>2. now \in Nat /\ PollInterval \in Nat
    BY <1>0, PipelineAssumption
  <2>3. now' \in Nat /\ now <= now'
    BY <2>1, <2>2
  <2> QED
    BY <2>1, <2>3, StageStep DEF Phases
<1>9. CASE ProbeTelemetry
  BY <1>9, ProbeStep
<1>10. CASE AskBaseline
  BY <1>10, BaselineStep
<1>11. CASE QueriesDone
  <2>1. /\ phase \in {"probe", "noise"} /\ phase' = After(phase) /\ now' = now
        /\ UNCHANGED <<emuButNow, events, corpus, observations, asked, baselineEnd, anchored>>
    BY <1>11 DEF QueriesDone, Enter, emuVars, emuButNow
  <2>2. CASE phase = "probe"
    <3>1. phase' = "noise"
      BY <2>1, <2>2 DEF After
    <3> QED
      BY <1>0, <2>1, <2>2, <3>1, StageStep DEF Phases
  <2>3. CASE phase = "noise"
    <3>1. phase' = "classify"
      BY <2>1, <2>3 DEF After
    <3> QED
      BY <1>0, <2>1, <2>3, <3>1, StageStep DEF Phases
  <2> QED
    BY <2>1, <2>2, <2>3
<1>12. CASE ClassifyCases
  BY <1>12, ClassifyStep
<1>13. CASE Abandon
  BY <1>13, AbandonStep
<1>14. CASE UNCHANGED vars
  <2>1. /\ UNCHANGED <<emuButNow, phase, corpus, events, baselineEnd, anchored, observations,
                       verdicts, asked>>
        /\ now' = now
    BY <1>14 DEF vars, emuVars, pipeVars, emuButNow
  <2>2. EmuPart'
    BY <1>0, <2>1, ClockOnly DEF RunInv
  <2>3. Witnessed'
    BY <2>1, WitnessedStays DEF RunInv, World, emuButNow
  <2>4. \A i : Observation(i)' = Observation(i)
    BY <2>1 DEF Observation, HasSkipReason, emuButNow
  <2>5. RunTypes' /\ Later' /\ InTurn' /\ Judged'
    BY <2>1, <2>4 DEF RunInv, RunTypes, Later, InTurn, Judged
  <2> QED
    BY <2>2, <2>3, <2>5 DEF RunInv
<1> QED
  BY <1>1, <1>2, <1>3, <1>4, <1>5, <1>6, <1>7, <1>8, <1>9, <1>10, <1>11, <1>12, <1>13, <1>14
     DEF Next, Advance

---------------------------------------------------------------------------
(* Theorems *)

\* Every state of every validation run satisfies the invariant.
THEOREM RunInvariant == Spec => []RunInv
<1>1. PipeInit => RunInv
  BY RunStarts
<1>2. RunInv /\ [Next]_vars => RunInv'
  BY StepKeeps
<1> QED
  BY <1>1, <1>2, PTL DEF Spec

\* What a scored case rests on: its emulation and its detection query.
LEMMA ScoredMeans ==
    ASSUME RunInv, NEW i \in ScoredCases
    PROVE  /\ i \in CaseIds
           /\ ~Observation(i).skip
           /\ results[Cases[i].test].mode \notin {"none", "dry-run"}
           /\ ~results[Cases[i].test].error
           /\ observations[i].detection.kind = "answer"
           /\ verdicts[i] = Scored(Cases[i].expected, Observation(i))
<1>1. /\ i \in CaseIds /\ verdicts[i] = classify(Cases[i].expected, Observation(i))
      /\ verdicts[i].outcome \in States
  BY DEF ScoredCases, RunInv, Judged
<1>2. /\ Observation(i).emulation = results[Cases[i].test]
      /\ Observation(i).detection = observations[i].detection
  BY DEF Observation
<1>3. Skipped.outcome = "SKIPPED" /\ Errored.outcome = "ERROR"
  BY DEF Skipped, Errored, Unscored
<1>4. verdicts[i] # Skipped /\ verdicts[i] # Errored
  BY <1>1, <1>3 DEF States
<1> QED
  BY <1>1, <1>2, <1>4 DEF classify

\* No failed query, refused test, time-out or dry run is ever scored: a
\* DETECTED, VISIBLE or BLIND case ran its test and got its answer.
THEOREM FailuresNeverGaps == Spec => []FailuresAreNotGaps
<1>1. RunInv => FailuresAreNotGaps
  <2> SUFFICES ASSUME RunInv, NEW i \in ScoredCases
               PROVE  /\ skipped[Cases[i].test] = "none"
                      /\ results[Cases[i].test].mode \in {"local", "replay"}
                      /\ ~results[Cases[i].test].error
                      /\ observations[i].detection.kind = "answer"
    BY DEF FailuresAreNotGaps
  <2>1. /\ i \in CaseIds /\ results[Cases[i].test].mode \notin {"none", "dry-run"}
        /\ ~results[Cases[i].test].error /\ observations[i].detection.kind = "answer"
    BY ScoredMeans
  <2>2. Cases[i].test \in Tests
    BY <2>1, CaseFields
  <2>3. results[Cases[i].test].mode \in {"none", "local", "replay", "dry-run"}
    BY <2>2, PlainTypes DEF RunInv, EmuPart, EmulationResult
  <2>4. skipped[Cases[i].test] = "none"
    BY <2>1, <2>2 DEF RunInv, EmuPart, Answered
  <2> QED
    BY <2>1, <2>3, <2>4
<1> QED
  BY <1>1, RunInvariant, PTL

\* A BLIND verdict means that nothing of the rule's log sources was searchable
\* in the case's window when its detection was last asked for.
THEOREM BlindIsBlind == Spec => []BlindMeansNothingArrived
<1>1. RunInv => BlindMeansNothingArrived
  <2> SUFFICES ASSUME RunInv, NEW i \in ScoredCases, verdicts[i].outcome = "BLIND"
               PROVE  Nothing(i)
    BY DEF BlindMeansNothingArrived, Nothing, Attributed
  <2>1. i \in CaseIds /\ verdicts[i] = Scored(Cases[i].expected, Observation(i))
    BY ScoredMeans
  <2>2. ThreeState(observations[i].detection, observations[i].telemetry) = "BLIND"
    BY <2>1 DEF Scored, Observation
  <2>3. observations[i].telemetry.kind = "answer" /\ ~(observations[i].telemetry.count > 0)
    BY <2>2 DEF ThreeState
  <2>4. observations[i].telemetry.count \in Nat
    BY <2>1 DEF RunInv, RunTypes, QueryResult
  <2>5. observations[i].telemetry.count = 0
    BY <2>3, <2>4
  <2> QED
    BY <2>1, <2>3, <2>5 DEF RunInv, Witnessed
<1> QED
  BY <1>1, RunInvariant, PTL

\* Events of the emulated behaviour never count as baseline noise, because the
\* quiet window is closed before anything is emulated.
THEOREM BaselineStaysUntouched == Spec => []BaselineUntouched
<1>1. RunInv => BaselineUntouched
  <2> SUFFICES ASSUME RunInv, NEW i \in ScoredCases
               PROVE  verdicts[i].baseline_hits <= Cardinality(Background(i))
    BY DEF BaselineUntouched, Background
  <2>1. i \in CaseIds /\ verdicts[i] = Scored(Cases[i].expected, Observation(i))
    BY ScoredMeans
  <2>2. verdicts[i].baseline_hits =
            IF observations[i].baseline.kind = "answer" THEN observations[i].baseline.count ELSE 0
    BY <2>1 DEF Scored, Observation
  <2>3. Cardinality(Background(i)) \in Nat
    <3>1. IsFiniteSet(Platform)
      BY PlatformIsFinite DEF RunInv
    <3>2. IsFiniteSet(Background(i))
      BY <3>1, FS_Subset DEF Background
    <3> QED
      BY <3>2, FS_CardinalityType
  <2>4. CASE observations[i].baseline.kind = "answer"
    BY <2>1, <2>2, <2>4 DEF RunInv, Witnessed
  <2>5. CASE observations[i].baseline.kind # "answer"
    BY <2>2, <2>3, <2>5
  <2> QED
    BY <2>4, <2>5
<1> QED
  BY <1>1, RunInvariant, PTL

\* An offline detection and its latency come from an event recorded for that
\* very test, however many windows overlap.
THEOREM ReplaysAreAttributed == Spec => []ReplayAttributes
<1>1. RunInv => ReplayAttributes
  <2> SUFFICES ASSUME RunInv, NEW i \in ScoredCases, Backend = "fixture",
                      verdicts[i].outcome = "DETECTED"
               PROVE  \E n \in DOMAIN corpus :
                         /\ corpus[n].origin = Cases[i].test
                         /\ corpus[n].origin \in Cases[i].matches
                         /\ verdicts[i].latency \in {corpus[n].offset, NoLatency}
    BY DEF ReplayAttributes
  <2> DEFINE detection == observations[i].detection
             start == results[Cases[i].test].start
  <2>1. /\ i \in CaseIds /\ verdicts[i] = Scored(Cases[i].expected, Observation(i))
        /\ detection.kind = "answer"
    BY ScoredMeans
  <2>2. /\ ThreeState(detection, observations[i].telemetry) = "DETECTED"
        /\ verdicts[i].latency = Latency(detection, results[Cases[i].test])
    BY <2>1 DEF Scored, Observation
  <2>3. detection.count > 0
    BY <2>2 DEF ThreeState
  <2>4. Hit(i, detection)
    BY <2>1, <2>3 DEF RunInv, Witnessed
  <2>5. PICK e \in Platform : /\ e.origin \in Cases[i].matches /\ e.origin = Cases[i].test
                              /\ detection.first = e.time
    BY <2>4 DEF Hit, Attributed
  <2>6. PICK n \in DOMAIN corpus : e = Materialised(n)
    BY <2>5 DEF Platform
  <2>7. Cases[i].test \in Tests /\ start \in Nat /\ Cases[i].test # NoTest
    BY <2>1, CaseFields, PlainTypes, PipelineAssumption DEF RunInv, EmuPart
  <2>8. corpus[n].origin = Cases[i].test /\ corpus[n].offset \in Int
    BY <2>5, <2>6, LineFields DEF Materialised, RunInv
  <2>9. detection.first = corpus[n].offset + start
    BY <2>5, <2>6, <2>7, <2>8 DEF Materialised
  <2>10. verdicts[i].latency \in {detection.first - start, NoLatency}
    BY <2>2 DEF Latency
  <2>11. detection.first - start = corpus[n].offset
    <3> HIDE DEF detection, start
    <3> QED
      BY <2>7, <2>8, <2>9
  <2> QED
    BY <2>5, <2>8, <2>10, <2>11
<1> QED
  BY <1>1, RunInvariant, PTL

---------------------------------------------------------------------------
(* Types: queues of cases, failed queries and verdicts *)

QueueTypes ==
    /\ anchored \in BOOLEAN /\ deadline \in Nat
    /\ pending \in Seq(CaseIds) /\ still_pending \in Seq(CaseIds)
    /\ faults \in 0..MaxFailures
    /\ verdicts \in [CaseIds -> CaseVerdict \cup {NoVerdict}]

LEMMA ReadyTypes ==
    /\ Ready \in Seq(CaseIds) /\ Len(Ready) \in Nat
    /\ Probed \in Seq(CaseIds)
<1> DEFINE all == [i \in CaseIds |-> i]
<1>1. CaseIds = 1..Len(Cases) /\ Len(Cases) \in Nat
  BY PipelineAssumption DEF CaseIds
<1>2. all \in Seq(CaseIds)
  BY <1>1
<1> HIDE DEF all
<1>3. Ready \in Seq(CaseIds)
  BY <1>2, OnlySelects DEF Ready, all
<1>4. Probed \in Seq(CaseIds)
  BY <1>3, OnlySelects DEF Probed
<1>5. Len(Ready) \in Nat
  BY <1>3
<1> QED
  BY <1>3, <1>4, <1>5

LEMMA EnterTypes ==
    ASSUME NEW p, Enter(p)
    PROVE  pending' \in Seq(CaseIds) /\ still_pending' \in Seq(CaseIds)
<1>1. <<>> \in Seq(CaseIds)
  OBVIOUS
<1>2. pending' \in {Ready, Probed, <<>>} /\ still_pending' = <<>>
  BY DEF Enter
<1> QED
  BY <1>1, <1>2, ReadyTypes

LEMMA ConfidenceType ==
    ASSUME NEW detection, NEW telemetry, NEW emulation
    PROVE  Confidence(detection, telemetry, emulation) \in Confidences
BY DEF Confidence, Lower, Confidences

LEMMA VerdictType ==
    ASSUME NEW expected, NEW obs, obs.detection \in QueryResult, obs.baseline \in QueryResult,
           obs.emulation.start \in Int
    PROVE  classify(expected, obs) \in CaseVerdict
<1>1. Skipped \in CaseVerdict /\ Errored \in CaseVerdict
  BY DEF Skipped, Errored, Unscored, CaseVerdict, Outcomes, Statuses, Confidences, NoLatency
<1>2. Scored(expected, obs) \in CaseVerdict
  <2>1. ThreeState(obs.detection, obs.telemetry) \in Outcomes
    BY DEF ThreeState, Outcomes
  <2>2. \A outcome : Status(outcome, expected) \in Statuses
    BY DEF Status, Statuses
  <2>3. Latency(obs.detection, obs.emulation) \in Int
    <3>1. obs.detection.first \in Int
      BY DEF QueryResult
    <3>2. obs.detection.first - obs.emulation.start \in Int
      BY <3>1
    <3> QED
      BY <3>2 DEF Latency, NoLatency
  <2>4. (IF obs.baseline.kind = "answer" THEN obs.baseline.count ELSE 0) \in Nat
    BY DEF QueryResult
  <2> QED
    BY <2>1, <2>2, <2>3, <2>4, ConfidenceType DEF Scored, CaseVerdict
<1> QED
  BY <1>1, <1>2 DEF classify

\* A query that fails is charged, and only while failures are left.
LEMMA FaultCharged ==
    ASSUME faults \in 0..MaxFailures, NEW found, NEW limit,
           NEW answer \in Answers(found, limit),
           faults' = faults + (IF answer = Failed THEN 1 ELSE 0)
    PROVE  faults' \in 0..MaxFailures
<1>1. MaxFailures \in Nat /\ faults \in Nat
  BY PipelineAssumption
<1>2. \A page : Answer(found, page, limit).kind = "answer"
  BY DEF Answer
<1>3. answer = Failed => faults < MaxFailures
  BY <1>2, FailedIsResult DEF Answers
<1>4. CASE answer = Failed
  BY <1>1, <1>3, <1>4
<1>5. CASE answer # Failed
  BY <1>1, <1>5
<1> QED
  BY <1>4, <1>5

LEMMA QueueStarts == PipeInit => QueueTypes
<1> SUFFICES ASSUME PipeInit PROVE QueueTypes
  OBVIOUS
<1>1. <<>> \in Seq(CaseIds) /\ MaxFailures \in Nat
  BY PipelineAssumption
<1>2. verdicts \in [CaseIds -> CaseVerdict \cup {NoVerdict}]
  BY DEF PipeInit
<1>3. /\ anchored = FALSE /\ deadline = 0 /\ faults = 0
      /\ pending = <<>> /\ still_pending = <<>>
  BY DEF PipeInit
<1>4. faults \in 0..MaxFailures
  BY <1>1, <1>3
<1>5. anchored \in BOOLEAN /\ deadline \in Nat
  BY <1>3
<1>6. pending \in Seq(CaseIds) /\ still_pending \in Seq(CaseIds)
  BY <1>1, <1>3
<1> QED
  BY <1>2, <1>4, <1>5, <1>6, Zenon DEF QueueTypes

LEMMA QueueStep == RunInv /\ QueueTypes /\ [Next]_vars => QueueTypes'
<1> SUFFICES ASSUME RunInv, QueueTypes, [Next]_vars PROVE QueueTypes'
  OBVIOUS
<1>0. now \in Nat
  BY PlainTypes DEF RunInv, EmuPart
<1>1. anchored' \in BOOLEAN
  <2>1. CASE Emulated
    <3>1. (Backend = "fixture") \in BOOLEAN
      OBVIOUS
    <3> QED
      BY <2>1, <3>1, Zenon DEF Emulated
  <2>2. CASE ~Emulated
    <3>1. anchored' = anchored
      BY <2>2 DEF Next, Advance, TakeBaseline, Emulate, Settle, Prepare, AskDetection,
         DetectionDone, PollAgain, ProbeTelemetry, AskBaseline, QueriesDone, ClassifyCases,
         Abandon, vars, pipeVars
    <3> QED
      BY <3>1 DEF QueueTypes
  <2> QED
    BY <2>1, <2>2
<1>2. deadline' \in Nat
  <2>1. CASE Prepare
    <3>1. deadline' = now + (IF live THEN MaxWait ELSE 0) /\ MaxWait \in Nat
      BY <2>1, PipelineAssumption DEF Prepare
    <3> QED
      BY <1>0, <3>1
  <2>2. CASE Abandon
    BY <2>2 DEF Abandon
  <2>3. CASE ~Prepare /\ ~Abandon
    <3>1. deadline' = deadline
      BY <2>3 DEF Next, Advance, TakeBaseline, Emulate, Emulated, Settle, AskDetection,
         DetectionDone, PollAgain, ProbeTelemetry, AskBaseline, QueriesDone, ClassifyCases,
         vars, pipeVars
    <3> QED
      BY <3>1 DEF QueueTypes
  <2> QED
    BY <2>1, <2>2, <2>3
<1>3. pending' \in Seq(CaseIds) /\ still_pending' \in Seq(CaseIds)
  <2>0. /\ pending \in Seq(CaseIds) /\ still_pending \in Seq(CaseIds)
        /\ <<>> \in Seq(CaseIds)
    BY DEF QueueTypes
  <2>1. CASE TakeBaseline \/ Emulated \/ Settle \/ Prepare \/ DetectionDone \/ QueriesDone
             \/ ClassifyCases
    <3>1. \E p : Enter(p)
      BY <2>1 DEF TakeBaseline, Emulated, Settle, Prepare, DetectionDone, QueriesDone,
         ClassifyCases
    <3> QED
      BY <3>1, EnterTypes
  <2>2. CASE AskDetection
    <3>1. /\ pending # <<>> /\ pending' = Tail(pending)
          /\ still_pending' = still_pending
             \/ still_pending' = Append(still_pending, Head(pending))
      BY <2>2 DEF AskDetection
    <3>2. Head(pending) \in CaseIds /\ Tail(pending) \in Seq(CaseIds)
      BY <2>0, <3>1
    <3>3. Append(still_pending, Head(pending)) \in Seq(CaseIds)
      BY <2>0, <3>2
    <3> QED
      BY <2>0, <3>1, <3>2, <3>3
  <2>3. CASE ProbeTelemetry \/ AskBaseline
    <3>1. pending # <<>> /\ pending' = Tail(pending) /\ still_pending' = still_pending
      BY <2>3 DEF ProbeTelemetry, AskBaseline
    <3> QED
      BY <2>0, <3>1
  <2>4. CASE PollAgain
    BY <2>0, <2>4 DEF PollAgain
  <2>5. CASE Abandon
    BY <2>0, <2>5 DEF Abandon
  <2>6. CASE Emulate \/ UNCHANGED vars
    BY <2>0, <2>6 DEF Emulate, vars, pipeVars
  <2> QED
    BY <2>1, <2>2, <2>3, <2>4, <2>5, <2>6 DEF Next, Advance
<1>4. faults' \in 0..MaxFailures
  <2>0. faults \in 0..MaxFailures
    BY DEF QueueTypes
  <2>1. CASE AskDetection
    <3>1. \E found, limit : \E answer \in Answers(found, limit) :
             faults' = faults + (IF answer = Failed THEN 1 ELSE 0)
      BY <2>1 DEF AskDetection
    <3> QED
      BY <2>0, <3>1, FaultCharged
  <2>2. CASE ProbeTelemetry
    <3>1. \E found, limit : \E answer \in Answers(found, limit) :
             faults' = faults + (IF answer = Failed THEN 1 ELSE 0)
      BY <2>2 DEF ProbeTelemetry
    <3> QED
      BY <2>0, <3>1, FaultCharged
  <2>3. CASE AskBaseline
    <3>1. \E found, limit : \E answer \in Answers(found, limit) :
             faults' = faults + (IF answer = Failed THEN 1 ELSE 0)
      BY <2>3 DEF AskBaseline
    <3> QED
      BY <2>0, <3>1, FaultCharged
  <2>4. CASE ~(AskDetection \/ ProbeTelemetry \/ AskBaseline)
    <3>1. faults' = faults
      BY <2>4 DEF Next, Advance, TakeBaseline, Emulate, Emulated, Settle, Prepare,
         DetectionDone, PollAgain, QueriesDone, ClassifyCases, Abandon, vars, pipeVars
    <3> QED
      BY <2>0, <3>1
  <2> QED
    BY <2>1, <2>2, <2>3, <2>4
<1>5. verdicts' \in [CaseIds -> CaseVerdict \cup {NoVerdict}]
  <2>1. CASE ClassifyCases
    <3>1. verdicts' = [i \in CaseIds |-> classify(Cases[i].expected, Observation(i))]
      BY <2>1 DEF ClassifyCases
    <3>2. ASSUME NEW i \in CaseIds PROVE classify(Cases[i].expected, Observation(i)) \in CaseVerdict
      <4>1. observations[i].detection \in QueryResult /\ observations[i].baseline \in QueryResult
        BY DEF RunInv, RunTypes
      <4>2. results[Cases[i].test].start \in Int
        BY CaseFields, PlainTypes DEF RunInv, EmuPart
      <4>3. /\ Observation(i).detection \in QueryResult /\ Observation(i).baseline \in QueryResult
            /\ Observation(i).emulation.start \in Int
        BY <4>1, <4>2 DEF Observation
      <4> QED
        BY <4>3, VerdictType
    <3> QED
      BY <3>1, <3>2
  <2>2. CASE ~ClassifyCases
    <3>1. verdicts' = verdicts
      BY <2>2 DEF Next, Advance, TakeBaseline, Emulate, Emulated, Settle, Prepare, AskDetection,
         DetectionDone, PollAgain, ProbeTelemetry, AskBaseline, QueriesDone, Abandon, vars,
         pipeVars
    <3> QED
      BY <3>1 DEF QueueTypes
  <2> QED
    BY <2>1, <2>2
<1> QED
  BY <1>1, <1>2, <1>3, <1>4, <1>5 DEF QueueTypes

\* Every variable of a run keeps its type; queries fail at most MaxFailures times.
THEOREM PipeTypesHold == Spec => []PipeTypeOK
<1>1. RunInv /\ QueueTypes => PipeTypeOK
  BY DEF RunInv, RunTypes, QueueTypes, PipeTypeOK, EmuPart, EmuInv
<1>2. PipeInit => RunInv /\ QueueTypes
  BY RunStarts, QueueStarts
<1>3. RunInv /\ QueueTypes /\ [Next]_vars => (RunInv /\ QueueTypes)'
  BY StepKeeps, QueueStep
<1> QED
  BY <1>1, <1>2, <1>3, PTL DEF Spec

---------------------------------------------------------------------------
(* What a recording shows *)


Forward ==
    /\ \A t \in Tests : results[t].start <= results[t].finish
    /\ stage = "main" => command.start <= now
    /\ stage = "cleanup" => command.start <= command.finish

Anchoring ==
    /\ Backend # "fixture" => corpus = <<>>
    /\ Backend = "fixture" /\ phase \notin {"baseline", "emulate", "killed"} => anchored = TRUE

\* A recorded event that should be found for case i.
Expected(i, n) == InBudget(i, n) /\ results[Cases[i].test].mode # "none"

Shows(i, detection, n) ==
    /\ detection.count > 0
    /\ ~detection.truncated \/ ReadInOrder(Cases[i].test) =>
          detection.first <= corpus[n].offset + results[Cases[i].test].start

Complete ==
    \A i \in CaseIds : observations[i].detection.kind = "answer" =>
        \A n \in DOMAIN corpus : Expected(i, n) => Shows(i, observations[i].detection, n)

ReplayInv == RunInv /\ Forward /\ Anchoring /\ Complete

---------------------------------------------------------------------------
(* Windows of the emulation phase *)

\* A result whose window runs forward is kept.
LEMMA ConcludeForward ==
    ASSUME EmuInv, Forward, NEW result, result.start <= result.finish, Conclude(result)
    PROVE  Forward'
<1>1. /\ stage' = "pace" /\ results' = [results EXCEPT ![current] = result]
      /\ results \in [Tests -> EmulationResult]
  BY PlainTypes DEF Conclude
<1>2. \A t \in Tests : results'[t].start <= results'[t].finish
  BY <1>1 DEF Forward
<1> QED
  BY <1>1, <1>2 DEF Forward

LEMMA ForwardStep == ASSUME EmuInv, Forward, Progress PROVE Forward'
<1>0. now \in Nat /\ command.start \in Nat /\ cfg \in Setups
  BY PlainTypes DEF EmuInv, EmuTypeOK
<1>1. CASE DropRepeat \/ SkipUnknown \/ Refuse \/ Return
  BY <1>1 DEF DropRepeat, SkipUnknown, Refuse, Return, AtTest, Forward
<1>2. CASE Reserve
  <2>1. cfg.catalog[current].duration \in Nat
    <3>1. current \in Tests
      BY <1>2, FreshIsUntouched DEF Reserve, AtTest
    <3> QED
      BY <3>1, SetupFields DEF EmuInv, EmulationTest
  <2>2. now <= now + cfg.catalog[current].duration
    BY <1>0, <2>1
  <2> QED
    BY <1>2, <2>2, ConcludeForward DEF Reserve
<1>3. CASE Launch
  <2>1. /\ stage' = "main" /\ results' = results /\ now' = now
        /\ command' = [NoCommand EXCEPT !.start = now]
    BY <1>3 DEF Launch
  <2>2. command'.start = now
    BY <2>1 DEF NoCommand
  <2> QED
    BY <1>0, <2>1, <2>2 DEF Forward
<1>4. CASE CommandReturns
  <2>1. PICK code \in ExitCodes, d \in 0..MaxDuration :
          LET done == [command EXCEPT !.finish = now + d, !.exit_code = code]
          IN  /\ command' = done
              /\ IF NeedsCleanup(code)
                 THEN stage' = "cleanup" /\ UNCHANGED <<results, failures>>
                 ELSE Conclude(LocalResult(done, FALSE))
    BY <1>4 DEF CommandReturns
  <2> DEFINE done == [command EXCEPT !.finish = now + d, !.exit_code = code]
  <2>2. done.start = command.start /\ done.finish = now + d
    <3>1. command \in [start: Nat, finish: Nat, exit_code: ExitCodes]
      BY DEF EmuInv, EmuTypeOK
    <3> QED
      BY <3>1
  <2>3. done.start <= done.finish
    <3>1. command.start <= now /\ d \in Nat
      BY <1>4, EmulationAssumption DEF CommandReturns, Forward
    <3>2. command.start <= now + d
      BY <1>0, <3>1
    <3> QED
      BY <2>2, <3>2
  <2>4. command' = done
    BY <2>1
  <2>5. CASE NeedsCleanup(code)
    <3>1. stage' = "cleanup" /\ results' = results
      BY <2>1, <2>5
    <3> HIDE DEF done
    <3> QED
      BY <2>3, <2>4, <3>1 DEF Forward
  <2>6. CASE ~NeedsCleanup(code)
    <3>1. Conclude(LocalResult(done, FALSE))
      BY <2>1, <2>6
    <3> HIDE DEF done
    <3>2. LocalResult(done, FALSE).start <= LocalResult(done, FALSE).finish
      BY <2>3 DEF LocalResult
    <3> QED
      BY <3>1, <3>2, ConcludeForward
  <2> QED
    BY <2>5, <2>6
<1>5. CASE CleanupReturns
  <2>1. PICK ok \in BOOLEAN : Conclude(LocalResult(command, ok))
    BY <1>5 DEF CleanupReturns
  <2>2. LocalResult(command, ok).start <= LocalResult(command, ok).finish
    BY <1>5 DEF LocalResult, CleanupReturns, Forward
  <2> QED
    BY <2>1, <2>2, ConcludeForward
<1>6. CASE Pace
  BY <1>6 DEF Pace, Forward
<1> QED
  BY <1>1, <1>2, <1>3, <1>4, <1>5, <1>6 DEF Progress

\* Afterwards only the clock moves, and it moves on.
LEMMA ForwardStays ==
    ASSUME EmuPart, Forward, UNCHANGED emuButNow, now' \in Nat, now <= now'
    PROVE  Forward'
<1>1. now \in Nat /\ command.start \in Nat
  BY PlainTypes DEF EmuPart
<1> QED
  BY <1>1 DEF Forward, emuButNow

---------------------------------------------------------------------------
(* Answers about a recording *)

\* An answer counts what was found, and starts no later than any of it that is
\* on its page.
LEMMA AnswerCovers ==
    ASSUME NEW found, IsFiniteSet(found), NEW bound \in Int,
           \A f \in found : f.time \in Int /\ f.line \in Nat /\ bound <= f.time,
           NEW limit \in Nat \ {0}, NEW page \in Pages(found, limit),
           Backend = "fixture", NEW e \in found
    PROVE  LET answer == Answer(found, page, limit)
           IN  /\ answer.count > 0
               /\ ~answer.truncated => answer.first <= e.time
               /\ (\A f, g \in found : f.line <= g.line => f.time <= g.time) =>
                     answer.first <= e.time
<1> DEFINE answer == Answer(found, page, limit)
<1>1. /\ page \subseteq found /\ page # {}
      /\ Cardinality(found) <= Limited(limit) => page = found
      /\ \E f \in page : \A g \in found : f.line <= g.line
  BY PageMeans
<1>2. /\ answer \in QueryResult /\ answer.count # 0
      /\ \A f \in page : answer.first <= f.time
  BY <1>1, AnswerMeans
<1>3. answer.count \in Nat /\ answer.first \in Int
  BY <1>2 DEF QueryResult
<1>4. answer.truncated = (Cardinality(found) > Limited(limit))
  BY DEF Answer
<1>5. Cardinality(found) \in Nat /\ Limited(limit) \in Nat
  BY CapIsPositive, FS_CardinalityType
<1> HIDE DEF answer
<1>6. ~answer.truncated => answer.first <= e.time
  <2>1. ~answer.truncated => e \in page
    <3>1. ~answer.truncated => ~(Cardinality(found) > Limited(limit))
      BY <1>4, Zenon
    <3> QED
      BY <1>1, <1>5, <3>1
  <2> QED
    BY <1>2, <2>1
<1>7. ASSUME \A f, g \in found : f.line <= g.line => f.time <= g.time
      PROVE  answer.first <= e.time
  <2>1. PICK f \in page : \A g \in found : f.line <= g.line
    BY <1>1
  <2>2. answer.first <= f.time /\ f.time <= e.time
    BY <1>1, <1>2, <1>7, <2>1
  <2>3. f.time \in Int /\ e.time \in Int
    BY <1>1
  <2> QED
    BY <1>3, <2>2, <2>3
<1> QED
  BY <1>2, <1>3, <1>6, <1>7 DEF answer

\* What the fixture backend finds for a case are lines of its test, rebased onto
\* the start of the test.
LEMMA FoundAreLines ==
    ASSUME RunInv, Backend = "fixture", NEW i \in CaseIds,
           NEW e \in Found(Cases[i].matches, Window(i), Cases[i].test)
    PROVE  /\ e.line \in DOMAIN corpus /\ corpus[e.line].origin = Cases[i].test
           /\ e.time = corpus[e.line].offset + results[Cases[i].test].start
<1>1. Cases[i].test # NoTest
  BY CaseFields, PipelineAssumption
<1>2. e \in Platform /\ e.origin = Cases[i].test
  BY DEF Found
<1>3. PICK n \in DOMAIN corpus : e = Materialised(n)
  BY <1>2 DEF Platform
<1>4. e.line = n /\ e.origin = corpus[n].origin
  BY <1>3 DEF Materialised
<1> QED
  BY <1>1, <1>2, <1>3, <1>4 DEF Materialised

\* Lines read in order stay in order on this run's timeline.
LEMMA FoundInOrder ==
    ASSUME RunInv, Backend = "fixture", NEW i \in CaseIds, ReadInOrder(Cases[i].test),
           NEW e \in Found(Cases[i].matches, Window(i), Cases[i].test),
           NEW f \in Found(Cases[i].matches, Window(i), Cases[i].test), e.line <= f.line
    PROVE  e.time <= f.time
<1> DEFINE test == Cases[i].test
           start == results[test].start
<1>1. /\ e.line \in DOMAIN corpus /\ corpus[e.line].origin = test
      /\ e.time = corpus[e.line].offset + start
      /\ f.line \in DOMAIN corpus /\ corpus[f.line].origin = test
      /\ f.time = corpus[f.line].offset + start
  BY FoundAreLines
<1>2. start \in Nat
  BY CaseFields, PlainTypes DEF RunInv, EmuPart
<1>3. /\ e.line \in Nat /\ corpus[e.line].offset \in Int
      /\ f.line \in Nat /\ corpus[f.line].offset \in Int
  BY <1>1, LineFields DEF RunInv
<1>4. corpus[e.line].offset <= corpus[f.line].offset
  <2>1. CASE e.line = f.line
    BY <1>3, <2>1
  <2>2. CASE e.line < f.line
    BY <1>1, <2>2 DEF ReadInOrder
  <2> QED
    BY <1>3, <2>1, <2>2
<1> HIDE DEF start
<1> QED
  BY <1>1, <1>2, <1>3, <1>4

\* A recorded event of the case is among what its detection query finds.
LEMMA ExpectedIsFound ==
    ASSUME ReplayInv, phase = "detect", NEW i \in CaseIds, NEW n \in DOMAIN corpus, Expected(i, n)
    PROVE  /\ Backend = "fixture"
           /\ Materialised(n) \in Found(Cases[i].matches, Window(i), Cases[i].test)
           /\ Materialised(n).time = corpus[n].offset + results[Cases[i].test].start
<1> DEFINE test == Cases[i].test
           start == results[test].start
           finish == results[test].finish
           budget == Cases[i].max_latency
           offset == corpus[n].offset
<1>1. /\ test \in Tests /\ test # NoTest /\ budget \in Nat
  BY CaseFields, PipelineAssumption DEF Case
<1>2. start \in Nat /\ finish \in Nat /\ start <= finish /\ now \in Nat
  BY <1>1, PlainTypes DEF ReplayInv, RunInv, EmuPart, Forward
<1>3. Backend = "fixture" /\ anchored = TRUE
  BY DEF ReplayInv, Anchoring
<1>4. corpus[n].origin = test /\ corpus[n].origin \in Cases[i].matches /\ offset \in 0..budget
      /\ results[test].mode # "none"
  BY DEF Expected, InBudget
<1>5. Materialised(n) \in Platform
  BY <1>1, <1>3, <1>4 DEF Platform, Anchored
<1>6. Materialised(n) = [origin |-> test, arrives |-> 0, line |-> n, time |-> offset + start]
  BY <1>1, <1>4 DEF Materialised
<1>7. Window(i).from = start - PreWindow
      /\ Window(i).to = finish + ((IF PostWindow < budget THEN budget ELSE PostWindow) + Slack)
  BY DEF Window
<1>8. PreWindow \in Nat /\ PostWindow \in Nat /\ Slack \in Nat /\ offset \in Nat /\ offset <= budget
  BY <1>1, <1>4, PipelineAssumption
<1>9. Window(i).from <= offset + start /\ offset + start <= Window(i).to
  <2> HIDE DEF test, start, finish, budget, offset
  <2>1. offset <= (IF PostWindow < budget THEN budget ELSE PostWindow)
    BY <1>1, <1>8
  <2> QED
    BY <1>1, <1>2, <1>7, <1>8, <2>1
<1> HIDE DEF test, start, finish, budget, offset
<1>10. Materialised(n) \in Found(Cases[i].matches, Window(i), test)
  BY <1>2, <1>4, <1>5, <1>6, <1>9 DEF Found
<1> QED
  BY <1>3, <1>6, <1>10 DEF test, start, offset

---------------------------------------------------------------------------
(* Steps, offline *)

LEMMA ReplayStarts == PipeInit => ReplayInv
<1> SUFFICES ASSUME PipeInit PROVE ReplayInv
  OBVIOUS
<1>1. RunInv
  BY RunStarts
<1>2. /\ phase = "baseline" /\ stage = "pick" /\ observations = NothingObserved
      /\ results = [t \in Tests |-> NoResult]
      /\ Backend # "fixture" => corpus = <<>>
  BY DEF PipeInit, EmuInit
<1>3. Forward
  BY <1>2 DEF Forward, NoResult
<1>4. Anchoring
  BY <1>2 DEF Anchoring
<1>5. Complete
  BY <1>2, FailedIsResult DEF Complete, NothingObserved
<1> QED
  BY <1>1, <1>3, <1>4, <1>5 DEF ReplayInv

\* A step of the run that neither emulates nor asks for a detection.
Aside == Next /\ ~Emulate /\ ~AskDetection /\ ~Abandon

LEMMA AsideKeeps ==
    ASSUME RunInv, Aside
    PROVE  /\ UNCHANGED <<emuButNow, corpus>> /\ now' \in Nat /\ now <= now'
           /\ \A i \in CaseIds : observations'[i].detection = observations[i].detection
<1>0. now \in Nat /\ now + 1 \in Nat /\ now <= now + 1 /\ now <= now
  BY PlainTypes DEF RunInv, EmuPart
<1>1. CASE TakeBaseline
  BY <1>0, <1>1 DEF TakeBaseline
<1>2. CASE Settle
  <2>1. SettleTime \in Nat
    BY PipelineAssumption DEF SettleTime
  <2>2. /\ now' = now + SettleTime
        /\ UNCHANGED <<emuButNow, corpus, observations>>
    BY <1>2 DEF Settle
  <2> QED
    BY <1>0, <2>1, <2>2
<1>3. CASE PollAgain
  <2>1. /\ now' = now + PollInterval
        /\ UNCHANGED <<emuButNow, corpus, observations>>
    BY <1>3 DEF PollAgain
  <2> QED
    BY <1>0, <2>1, PipelineAssumption
<1>4. CASE ProbeTelemetry
  <2>1. PICK d \in 0..MaxQueryTime : now' = now + d
    BY <1>4 DEF ProbeTelemetry
  <2>2. d \in Nat
    BY PipelineAssumption
  <2>3. PICK answer : observations' = [observations EXCEPT ![Head(pending)].telemetry = answer]
    BY <1>4 DEF ProbeTelemetry
  <2>4. \A i \in CaseIds : observations'[i].detection = observations[i].detection
    BY <2>3 DEF RunInv, RunTypes
  <2>5. UNCHANGED <<emuButNow, corpus>>
    BY <1>4 DEF ProbeTelemetry
  <2>6. now' \in Nat /\ now <= now'
    BY <1>0, <2>1, <2>2
  <2> QED
    BY <2>4, <2>5, <2>6
<1>5. CASE AskBaseline
  <2>1. PICK answer : observations' = [observations EXCEPT ![Head(pending)].baseline = answer]
    BY <1>5 DEF AskBaseline
  <2>2. \A i \in CaseIds : observations'[i].detection = observations[i].detection
    BY <2>1 DEF RunInv, RunTypes
  <2>3. UNCHANGED <<emuButNow, corpus>> /\ now' = now
    BY <1>5 DEF AskBaseline, emuVars, emuButNow
  <2> QED
    BY <1>0, <2>2, <2>3
<1>6. CASE Emulated \/ Prepare \/ DetectionDone \/ QueriesDone \/ ClassifyCases
  <2>1. UNCHANGED <<emuButNow, now, corpus, observations>>
    BY <1>6 DEF Emulated, Prepare, DetectionDone, QueriesDone, ClassifyCases, emuVars, emuButNow
  <2> QED
    BY <1>0, <2>1
<1> QED
  BY <1>1, <1>2, <1>3, <1>4, <1>5, <1>6 DEF Aside, Next, Advance

\* Anchors are set once, on the way out of the emulation phase.
LEMMA AnchoringStep == ASSUME RunInv, Anchoring, Next PROVE Anchoring'
<1>1. cfg' = cfg /\ corpus' = corpus
  <2>1. CASE Emulate
    BY <2>1 DEF Emulate, Progress, DropRepeat, SkipUnknown, Refuse, Reserve, Launch,
       CommandReturns, CleanupReturns, Pace, Return
  <2>2. CASE AskDetection
    BY <2>2 DEF AskDetection, emuButNow
  <2>3. CASE Abandon
    BY <2>3 DEF Abandon, emuVars
  <2>4. CASE Aside
    BY <2>4, AsideKeeps DEF emuButNow
  <2> QED
    BY <2>1, <2>2, <2>3, <2>4 DEF Aside
<1>2. Backend' = Backend
  BY <1>1 DEF Backend
<1>3. CASE TakeBaseline
  BY <1>1, <1>2, <1>3 DEF TakeBaseline, Enter, After, Anchoring
<1>4. CASE Emulated
  BY <1>1, <1>2, <1>4 DEF Emulated, Anchoring
<1>5. CASE Emulate
  BY <1>1, <1>2, <1>5 DEF Emulate, Anchoring
<1>6. CASE Abandon
  BY <1>1, <1>2, <1>6 DEF Abandon, Anchoring
<1>7. CASE ~TakeBaseline /\ ~Emulated /\ ~Emulate /\ ~Abandon
  <2>1. anchored' = anchored /\ phase \notin {"baseline", "emulate", "killed"}
    BY <1>7 DEF Next, Advance, Settle, Prepare, AskDetection, DetectionDone, PollAgain,
       ProbeTelemetry, AskBaseline, QueriesDone, ClassifyCases
  <2> QED
    BY <1>1, <1>2, <2>1 DEF Anchoring
<1> QED
  BY <1>3, <1>4, <1>5, <1>6, <1>7

LEMMA DetectionComplete == ASSUME ReplayInv, AskDetection PROVE Complete'
<1> DEFINE i == Head(pending)
<1>1. phase = "detect" /\ UNCHANGED <<emuButNow, corpus>>
  BY DEF AskDetection
<1>2. PICK answer \in Answers(Found(Cases[i].matches, Window(i), Cases[i].test), SearchLimit) :
        observations' = [observations EXCEPT ![i].detection = answer]
  BY DEF AskDetection
<1> HIDE DEF i
<1>3. results' = results
  BY <1>1 DEF emuButNow
<1>4. ASSUME NEW j \in CaseIds, observations'[j].detection.kind = "answer",
             NEW n \in DOMAIN corpus, Expected(j, n)
      PROVE  Shows(j, observations'[j].detection, n)
  <2>1. observations'[j].detection = IF j = i THEN answer ELSE observations[j].detection
    BY <1>2 DEF ReplayInv, RunInv, RunTypes
  <2>2. CASE j # i
    BY <1>4, <2>1, <2>2 DEF ReplayInv, Complete
  <2>3. CASE j = i
    <3> DEFINE found == Found(Cases[j].matches, Window(j), Cases[j].test)
               e == Materialised(n)
    <3>1. /\ e \in found /\ e.time = corpus[n].offset + results[Cases[j].test].start
          /\ Backend = "fixture"
      BY <1>1, <1>4, ExpectedIsFound
    <3>2. PICK page \in Pages(found, SearchLimit) : answer = Answer(found, page, SearchLimit)
      BY <1>2, <1>4, <2>1, <2>3, FailedIsResult DEF Answers
    <3>3. /\ IsFiniteSet(found) /\ Window(j).from \in Int /\ SearchLimit \in Nat \ {0}
          /\ \A f \in found : f.time \in Int /\ f.line \in Nat /\ Window(j).from <= f.time
      <4>1. found \subseteq Platform
        BY DEF Found
      <4>2. IsFiniteSet(Platform) /\ \A f \in Platform : f.time \in Int /\ f.line \in Nat
        BY PlatformIsFinite DEF ReplayInv, RunInv
      <4>3. IsFiniteSet(found)
        BY <4>1, <4>2, FS_Subset
      <4>4. \A f \in found : Window(j).from <= f.time
        BY DEF Found
      <4>5. Window(j).from \in Int /\ SearchLimit \in Nat \ {0}
        BY WindowFrom, PipelineAssumption DEF ReplayInv, RunInv
      <4> HIDE DEF found
      <4> QED
        BY <4>1, <4>2, <4>3, <4>4, <4>5
    <3>4. ReadInOrder(Cases[j].test) => \A f, g \in found : f.line <= g.line => f.time <= g.time
      BY <3>1, FoundInOrder DEF ReplayInv
    <3> HIDE DEF found, e
    <3>5. /\ answer.count > 0
          /\ ~answer.truncated => answer.first <= e.time
          /\ ReadInOrder(Cases[j].test) => answer.first <= e.time
      BY <3>1, <3>2, <3>3, <3>4, AnswerCovers
    <3> QED
      BY <2>1, <2>3, <3>1, <3>5 DEF Shows
  <2> QED
    BY <2>2, <2>3
<1> QED
  BY <1>1, <1>3, <1>4 DEF Complete, Expected, Shows, InBudget, ReadInOrder

LEMMA ReplayStep == ReplayInv /\ [Next]_vars => ReplayInv'
<1> SUFFICES ASSUME ReplayInv, [Next]_vars PROVE ReplayInv'
  OBVIOUS
<1>0. RunInv' /\ RunInv /\ EmuPart /\ Forward /\ now \in Nat /\ now <= now
  BY StepKeeps, PlainTypes DEF ReplayInv, RunInv, EmuPart
<1>1. CASE Emulate
  <2>1. Forward'
    BY <1>0, <1>1, ForwardStep DEF EmuPart, Emulate
  <2>2. \A i \in CaseIds : observations'[i].detection.kind = "none"
    BY <1>0, <1>1 DEF RunInv, InTurn, Emulate
  <2>3. Complete'
    BY <2>2 DEF Complete
  <2> QED
    BY <1>0, <1>1, <2>1, <2>3, AnchoringStep DEF ReplayInv, Next, Advance
<1>2. CASE AskDetection
  <2>1. now' \in Nat /\ now <= now'
    <3>1. PICK d \in 0..MaxQueryTime : now' = now + d
      BY <1>2 DEF AskDetection
    <3> QED
      BY <1>0, <3>1, PipelineAssumption
  <2>2. Forward'
    BY <1>0, <1>2, <2>1, ForwardStays DEF AskDetection
  <2> QED
    BY <1>0, <1>2, <2>2, DetectionComplete, AnchoringStep DEF ReplayInv, Next, Advance
<1>3. CASE Abandon
  <2>1. UNCHANGED emuButNow /\ now' = now /\ observations' = NothingObserved
    BY <1>3 DEF Abandon, emuVars, emuButNow
  <2>2. Forward'
    BY <1>0, <2>1, ForwardStays
  <2>3. Complete'
    BY <2>1, FailedIsResult DEF Complete, NothingObserved
  <2> QED
    BY <1>0, <1>3, <2>2, <2>3, AnchoringStep DEF ReplayInv, Next
<1>4. CASE Aside
  <2>1. /\ UNCHANGED <<emuButNow, corpus>> /\ now' \in Nat /\ now <= now'
        /\ \A i \in CaseIds : observations'[i].detection = observations[i].detection
    BY <1>0, <1>4, AsideKeeps
  <2>2. Forward'
    BY <1>0, <2>1, ForwardStays
  <2>3. Complete'
    BY <2>1 DEF ReplayInv, Complete, Expected, Shows, InBudget, ReadInOrder, emuButNow
  <2> QED
    BY <1>0, <1>4, <2>2, <2>3, AnchoringStep DEF ReplayInv, Aside
<1>5. CASE UNCHANGED vars
  <2>1. UNCHANGED <<emuButNow, now, phase, corpus, anchored, observations>>
    BY <1>5 DEF vars, emuVars, pipeVars, emuButNow
  <2>2. Forward'
    BY <1>0, <2>1, ForwardStays
  <2>3. Anchoring' /\ Complete'
    BY <2>1 DEF ReplayInv, Anchoring, Backend, Complete, Expected, Shows, InBudget, ReadInOrder,
       emuButNow
  <2> QED
    BY <1>0, <2>2, <2>3 DEF ReplayInv
<1> QED
  BY <1>1, <1>2, <1>3, <1>4, <1>5 DEF Aside

---------------------------------------------------------------------------
(* The theorem about recordings *)

\* An event that was recorded for a test within a rule's latency budget makes
\* its case DETECTED offline, however many events a search may return; with no
\* greater latency than recorded, if the search was not cut off or met the
\* events in order.
THEOREM ReplaysDetect == Spec => []ReplayDetects
<1>1. ReplayInv => ReplayDetects
  <2> DEFINE Whole(i) == ~observations[i].detection.truncated \/ ReadInOrder(Cases[i].test)
  <2> SUFFICES ASSUME ReplayInv, NEW i \in ScoredCases, NEW n \in DOMAIN corpus, InBudget(i, n)
               PROVE  /\ verdicts[i].outcome = "DETECTED"
                      /\ Whole(i) => verdicts[i].latency <= corpus[n].offset
    BY DEF ReplayDetects
  <2> DEFINE detection == observations[i].detection
             result == results[Cases[i].test]
             offset == corpus[n].offset
  <2>1. /\ i \in CaseIds /\ verdicts[i] = Scored(Cases[i].expected, Observation(i))
        /\ detection.kind = "answer" /\ result.mode # "none"
    BY ScoredMeans DEF ReplayInv
  <2>2. Shows(i, detection, n)
    BY <2>1 DEF ReplayInv, Complete, Expected
  <2>3. /\ verdicts[i].outcome = ThreeState(detection, observations[i].telemetry)
        /\ verdicts[i].latency = Latency(detection, result)
    BY <2>1 DEF Scored, Observation
  <2>4. verdicts[i].outcome = "DETECTED"
    BY <2>2, <2>3 DEF Shows, ThreeState
  <2>5. Cases[i].test \in Tests /\ result.start \in Nat /\ offset \in Nat
        /\ detection.first \in Int
    <3>1. /\ Cases[i].test \in Tests /\ Cases[i].max_latency \in Nat
          /\ offset \in 0..Cases[i].max_latency
      BY <2>1, CaseFields DEF Case, InBudget
    <3>2. result.start \in Nat
      BY <3>1, PlainTypes DEF ReplayInv, RunInv, EmuPart
    <3>3. detection.first \in Int
      BY <2>1 DEF ReplayInv, RunInv, RunTypes, QueryResult
    <3> QED
      BY <3>1, <3>2, <3>3
  <2>6. Whole(i) => detection.first <= offset + result.start
    BY <2>2 DEF Shows
  <2>7. verdicts[i].latency = detection.first - result.start \/ verdicts[i].latency = -1
    BY <2>3 DEF Latency, NoLatency
  <2> HIDE DEF detection, result, offset
  <2>8. Whole(i) => verdicts[i].latency <= offset
    BY <2>5, <2>6, <2>7
  <2> QED
    BY <2>4, <2>8 DEF offset
<1> QED
  BY <1>1, ReplayStarts, ReplayStep, PTL DEF Spec

---------------------------------------------------------------------------
(* A live platform *)

\* A live event carries the end of its behaviour.
Stamped ==
    \A e \in events : e.origin # NoTest =>
        /\ e.origin \in Tests /\ e.time \in Nat /\ e.time <= now
        /\ \/ results[e.origin].mode # "none" /\ e.time = results[e.origin].finish
           \/ stage = "cleanup" /\ e.origin = current /\ e.time = command.finish

Asking == {"detect", "probe", "noise", "classify", "over"}

\* Settling and the wait budget are granted to every event.
Budgeted ==
    live => \A e \in events : e.origin # NoTest =>
        /\ phase = "prepare" => e.time + IngestLag <= now
        /\ phase \in Asking => e.time + IngestLag + MaxWait <= deadline

\* The most time that k queries take.
Reach(k) == k * MaxQueryTime

\* A round asks each case that is ready at most once.
Polling ==
    phase = "detect" =>
        /\ Len(pending) + Len(still_pending) <= Len(Ready)
        /\ \A i \in Range(still_pending) : now <= asked[i] + Reach(Len(Ready) - Len(pending))

Missed(i) == observations[i].detection.kind = "answer" /\ observations[i].detection.count = 0

\* Nobody who was answered with nothing is given up before the budget is spent,
\* but for the time a round takes.
Patient ==
    \A i \in CaseIds : Missed(i) =>
        \/ phase = "detect" /\ i \in Range(pending) \cup Range(still_pending)
        \/ deadline <= asked[i] + Reach(Len(Ready))

\* What was not found was not searchable when it was asked for.
Unmatched(i) ==
    ~\E e \in Platform : /\ e.origin \in Cases[i].matches /\ Attributed(i, e)
                         /\ e.arrives <= asked[i]
                         /\ Window(i).from <= e.time /\ e.time <= Window(i).to

LiveInv == /\ RunInv /\ Forward /\ QueueTypes
           /\ Stamped /\ Budgeted /\ Polling /\ Patient
           /\ \A i \in CaseIds : Missed(i) => Unmatched(i)

---------------------------------------------------------------------------
(* Queries and their time *)

LEMMA ReachGrows ==
    /\ \A k \in Nat : Reach(k) \in Nat
    /\ \A k \in Nat : Reach(k + 1) = Reach(k) + MaxQueryTime
    /\ \A k, m \in Nat : k <= m => Reach(k) <= Reach(m)
    /\ \A k \in Nat \ {0} : MaxQueryTime <= Reach(k)
<1>1. MaxQueryTime \in Nat
  BY PipelineAssumption
<1>2. \A k \in Nat : k * MaxQueryTime \in Nat
  BY <1>1
<1>3. \A k \in Nat : (k + 1) * MaxQueryTime = k * MaxQueryTime + MaxQueryTime
  BY <1>1
<1>4. ASSUME NEW k \in Nat, NEW m \in Nat, k <= m PROVE k * MaxQueryTime <= m * MaxQueryTime
  <2>1. PICK d \in Nat : m = k + d
    <3>1. m - k \in Nat /\ m = k + (m - k)
      BY <1>4
    <3> QED
      BY <3>1
  <2>2. m * MaxQueryTime = k * MaxQueryTime + d * MaxQueryTime
    BY <1>1, <2>1
  <2> QED
    BY <1>2, <2>2
<1>5. ASSUME NEW k \in Nat \ {0} PROVE MaxQueryTime <= k * MaxQueryTime
  <2>1. 1 * MaxQueryTime <= k * MaxQueryTime
    BY <1>4
  <2> QED
    BY <1>1, <2>1
<1> QED
  BY <1>2, <1>3, <1>4, <1>5 DEF Reach

LEMMA ReadyStays ==
    ASSUME UNCHANGED <<cfg, results>>
    PROVE  Ready' = Ready
BY DEF Ready, HasSkipReason

\* The elements of a queue, as cases leave it and join it.
LEMMA QueueElements ==
    ASSUME NEW q \in Seq(CaseIds)
    PROVE  /\ q # <<>> => /\ Head(q) \in CaseIds /\ Len(Tail(q)) = Len(q) - 1 /\ Len(q) \in Nat \ {0}
                          /\ Range(q) \subseteq Range(Tail(q)) \cup {Head(q)}
           /\ \A i \in CaseIds : /\ Len(Append(q, i)) = Len(q) + 1
                                 /\ Range(Append(q, i)) = Range(q) \cup {i}
           /\ Range(q) \subseteq CaseIds /\ Len(q) \in Nat
<1>1. Len(q) \in Nat /\ DOMAIN q = 1..Len(q) /\ \A n \in 1..Len(q) : q[n] \in CaseIds
  OBVIOUS
<1>2. Range(q) \subseteq CaseIds
  BY <1>1 DEF Range
<1>3. ASSUME q # <<>>
      PROVE  /\ Head(q) \in CaseIds /\ Len(Tail(q)) = Len(q) - 1 /\ Len(q) \in Nat \ {0}
             /\ Range(q) \subseteq Range(Tail(q)) \cup {Head(q)}
  <2>1. /\ Head(q) = q[1] /\ Len(q) \in Nat \ {0} /\ Len(Tail(q)) = Len(q) - 1
        /\ DOMAIN Tail(q) = 1..(Len(q) - 1)
        /\ \A n \in 1..(Len(q) - 1) : Tail(q)[n] = q[n + 1]
    BY <1>3
  <2>2. ASSUME NEW n \in 1..Len(q) PROVE q[n] \in Range(Tail(q)) \cup {Head(q)}
    <3>1. CASE n = 1
      BY <2>1, <3>1
    <3>2. CASE n # 1
      <4>1. n - 1 \in 1..(Len(q) - 1) /\ (n - 1) + 1 = n
        BY <3>2
      <4>2. Tail(q)[n - 1] = q[n]
        BY <2>1, <4>1
      <4> QED
        BY <2>1, <4>1, <4>2 DEF Range
    <3> QED
      BY <3>1, <3>2
  <2>3. Head(q) \in CaseIds
    BY <1>1, <2>1
  <2> QED
    BY <1>1, <2>1, <2>2, <2>3 DEF Range
<1>4. ASSUME NEW i \in CaseIds
      PROVE  Len(Append(q, i)) = Len(q) + 1 /\ Range(Append(q, i)) = Range(q) \cup {i}
  <2>1. /\ Len(Append(q, i)) = Len(q) + 1 /\ DOMAIN Append(q, i) = 1..(Len(q) + 1)
        /\ Append(q, i)[Len(q) + 1] = i
        /\ \A n \in 1..Len(q) : Append(q, i)[n] = q[n]
    OBVIOUS
  <2>2. 1..(Len(q) + 1) = 1..Len(q) \cup {Len(q) + 1}
    BY <1>1
  <2> QED
    BY <1>1, <2>1, <2>2 DEF Range
<1> QED
  BY <1>1, <1>2, <1>3, <1>4

---------------------------------------------------------------------------
(* Events and results of the emulation phase *)

LEMMA StampedStays ==
    ASSUME EmuPart, Stamped, UNCHANGED <<emuButNow, events>>, now' \in Nat, now <= now'
    PROVE  Stamped'
<1>1. now \in Nat
  BY PlainTypes DEF EmuPart
<1>2. current' = current
  BY DEF emuButNow, current
<1>3. UNCHANGED <<results, stage, command>>
  BY DEF emuButNow
<1> QED
  BY <1>1, <1>2, <1>3 DEF Stamped

\* A result that is kept carries the end of the command.
LEMMA ConcludeStamps ==
    ASSUME EmuInv, Stamped, stage \in {"pick", "main", "cleanup"}, pos <= Len(cfg.plan), Fresh(pos),
           NEW result, result.mode # "none", Conclude(result),
           stage = "cleanup" => result.finish = command.finish,
           NEW n \in Nat, now' = n, now <= n
    PROVE  \A e \in events : e.origin # NoTest =>
               /\ e.origin \in Tests /\ e.time \in Nat /\ e.time <= now'
               /\ results'[e.origin].mode # "none" /\ e.time = results'[e.origin].finish
<1>1. /\ results' = [results EXCEPT ![current] = result]
      /\ results \in [Tests -> EmulationResult] /\ now \in Nat
  BY PlainTypes DEF Conclude
<1>2. current \in Tests /\ results[current].mode = "none"
  BY FreshIsUntouched
<1> SUFFICES ASSUME NEW e \in events, e.origin # NoTest
             PROVE  /\ e.origin \in Tests /\ e.time \in Nat /\ e.time <= n
                    /\ results'[e.origin].mode # "none" /\ e.time = results'[e.origin].finish
  OBVIOUS
<1>3. /\ e.origin \in Tests /\ e.time \in Nat /\ e.time <= now
      /\ \/ results[e.origin].mode # "none" /\ e.time = results[e.origin].finish
         \/ stage = "cleanup" /\ e.origin = current /\ e.time = command.finish
  BY DEF Stamped
<1>4. e.time <= n
  BY <1>1, <1>3
<1>5. CASE e.origin = current
  <2>1. results'[e.origin] = result
    BY <1>1, <1>2, <1>5
  <2> QED
    BY <1>2, <1>3, <1>4, <1>5, <2>1
<1>6. CASE e.origin # current
  <2>1. results'[e.origin] = results[e.origin]
    BY <1>1, <1>3, <1>6
  <2> QED
    BY <1>3, <1>4, <1>6, <2>1
<1> QED
  BY <1>5, <1>6

LEMMA EmulateStamps == ASSUME RunInv, Stamped, Emulate PROVE Stamped'
<1>0. /\ EmuInv /\ Progress /\ now \in Nat /\ now' \in Nat /\ now <= now'
      /\ behaved' \subseteq Tests
  BY ProgressForward DEF RunInv, EmuPart, Emulate
<1>1. CASE CommandReturns
  <2>1. /\ stage = "main" /\ pos <= Len(cfg.plan) /\ Fresh(pos)
        /\ UNCHANGED <<cfg, pos>>
    BY <1>0, <1>1 DEF CommandReturns, EmuInv, Handling
  <2>2. PICK code \in ExitCodes, d \in 0..MaxDuration :
          LET done == [command EXCEPT !.finish = now + d, !.exit_code = code]
          IN  /\ now' = now + d
              /\ command' = done
              /\ behaved' = IF code = "unstarted" THEN behaved ELSE behaved \cup {current}
              /\ IF NeedsCleanup(code)
                 THEN stage' = "cleanup" /\ UNCHANGED <<results, failures>>
                 ELSE Conclude(LocalResult(done, FALSE))
    BY <1>1 DEF CommandReturns
  <2> DEFINE done == [command EXCEPT !.finish = now + d, !.exit_code = code]
             result == LocalResult(done, FALSE)
  <2>3. PICK n \in Nat : n = now'
    BY <1>0
  <2>4. command \in [start: Nat, finish: Nat, exit_code: ExitCodes]
    BY <1>0 DEF EmuInv, EmuTypeOK
  <2>5. done.finish = n /\ result.mode = "local" /\ result.finish = n
    BY <2>2, <2>3, <2>4 DEF LocalResult
  <2>6. current' = current /\ current \in Tests
    BY <1>0, <2>1, FreshIsUntouched DEF current
  <2>7. \A e \in events : e.origin # NoTest =>
           /\ e.origin \in Tests /\ e.time \in Nat /\ e.time <= now'
           /\ results'[e.origin].mode # "none" /\ e.time = results'[e.origin].finish
    <3>1. CASE NeedsCleanup(code)
      <4>1. results' = results
        BY <2>2, <3>1
      <4> QED
        BY <1>0, <2>1, <4>1 DEF Stamped
    <3>2. CASE ~NeedsCleanup(code)
      <4>1. Conclude(result)
        BY <2>2, <3>2
      <4> HIDE DEF result
      <4> QED
        BY <1>0, <2>1, <2>3, <2>5, <4>1, ConcludeStamps
    <3> QED
      BY <3>1, <3>2
  <2>8. \/ stage' = "cleanup" /\ command'.finish = n
        \/ results'[current].mode # "none" /\ results'[current].finish = n
    <3>1. CASE NeedsCleanup(code)
      <4>1. stage' = "cleanup" /\ command' = done
        BY <2>2, <3>1
      <4> HIDE DEF done, result
      <4> QED
        BY <2>5, <4>1
    <3>2. CASE ~NeedsCleanup(code)
      <4>1. Conclude(result)
        BY <2>2, <3>2
      <4> HIDE DEF done, result
      <4>2. results'[current] = result
        BY <1>0, <2>6, <4>1, PlainTypes DEF Conclude
      <4> QED
        BY <2>5, <4>2
    <3> QED
      BY <3>1, <3>2
  <2>9. ASSUME NEW e \in events', e \notin events
        PROVE  e.origin = current /\ e.time = n
    <3>1. PICK lag \in Lags, t \in behaved' \ behaved :
            events' = events \cup {[origin |-> t, time |-> now', arrives |-> now' + lag, line |-> 0]}
      BY <2>9 DEF Emulate
    <3>2. t = current
      BY <2>2
    <3>3. e = [origin |-> t, time |-> n, arrives |-> n + lag, line |-> 0]
      BY <2>3, <2>9, <3>1
    <3> QED
      BY <3>2, <3>3
  <2> HIDE DEF done, result
  <2>10. ASSUME NEW e \in events', e.origin # NoTest
         PROVE  /\ e.origin \in Tests /\ e.time \in Nat /\ e.time <= now'
                /\ \/ results'[e.origin].mode # "none" /\ e.time = results'[e.origin].finish
                   \/ stage' = "cleanup" /\ e.origin = current' /\ e.time = command'.finish
    <3>1. CASE e \in events
      BY <2>7, <2>10, <3>1
    <3>2. CASE e \notin events
      <4>1. e.origin = current /\ e.time = n
        BY <2>9, <3>2
      <4>2. e.origin \in Tests /\ e.time \in Nat /\ e.time <= now'
        BY <2>3, <2>6, <4>1
      <4> QED
        BY <2>6, <2>8, <4>1, <4>2
    <3> QED
      BY <3>1, <3>2
  <2> QED
    BY <2>10 DEF Stamped
<1>2. CASE ~CommandReturns
  <2>0. /\ behaved' = behaved /\ events' = events
    <3>1. behaved' = behaved
      BY <1>0, <1>2 DEF Progress, DropRepeat, SkipUnknown, Refuse, Reserve, Launch, CleanupReturns,
         Pace, Return
    <3> QED
      BY <3>1 DEF Emulate
  <2>1. CASE CleanupReturns
    <3>1. /\ stage = "cleanup" /\ pos <= Len(cfg.plan) /\ Fresh(pos)
      BY <1>0, <2>1 DEF CleanupReturns, EmuInv, Handling
    <3>2. PICK ok \in BOOLEAN : Conclude(LocalResult(command, ok))
      BY <2>1 DEF CleanupReturns
    <3>3. /\ LocalResult(command, ok).mode = "local"
          /\ LocalResult(command, ok).finish = command.finish
      BY DEF LocalResult
    <3>4. PICK n \in Nat : n = now'
      BY <1>0
    <3>5. \A e \in events : e.origin # NoTest =>
             /\ e.origin \in Tests /\ e.time \in Nat /\ e.time <= now'
             /\ results'[e.origin].mode # "none" /\ e.time = results'[e.origin].finish
      BY <1>0, <3>1, <3>2, <3>3, <3>4, ConcludeStamps
    <3> QED
      BY <2>0, <3>5 DEF Stamped
  <2>2. CASE Reserve
    <3> DEFINE result == [mode |-> ExecutorMode, executed |-> FALSE,
                 start |-> now, finish |-> now + cfg.catalog[current].duration,
                 exit_code |-> "None", cleanup_performed |-> FALSE,
                 error |-> /\ ExecutorMode = "dry-run"
                           /\ evaluate(current) # "allowed"]
    <3>1. /\ stage = "pick" /\ pos <= Len(cfg.plan) /\ Fresh(pos) /\ Conclude(result)
          /\ result.mode # "none"
      BY <2>2 DEF Reserve, AtTest
    <3> HIDE DEF result
    <3>2. PICK n \in Nat : n = now'
      BY <1>0
    <3>3. \A e \in events : e.origin # NoTest =>
             /\ e.origin \in Tests /\ e.time \in Nat /\ e.time <= now'
             /\ results'[e.origin].mode # "none" /\ e.time = results'[e.origin].finish
      BY <1>0, <3>1, <3>2, ConcludeStamps
    <3> QED
      BY <2>0, <3>3 DEF Stamped
  <2>3. CASE ~CleanupReturns /\ ~Reserve
    <3>1. results' = results /\ stage # "cleanup"
      BY <1>0, <1>2, <2>3 DEF Progress, DropRepeat, SkipUnknown, Refuse, Launch, Pace, Return, AtTest
    <3> QED
      BY <1>0, <2>0, <3>1 DEF Stamped
  <2> QED
    BY <2>1, <2>2, <2>3
<1> QED
  BY <1>1, <1>2

---------------------------------------------------------------------------
(* The wait budget and the poll loop *)

LEMMA BackendStays == ASSUME cfg' = cfg PROVE live' = live /\ Backend' = Backend /\ SettleTime' = SettleTime
BY DEF live, Mode, Backend, SettleTime, execution_enabled

LEMMA BudgetedStep ==
    ASSUME RunInv, Stamped, Budgeted, QueueTypes, [Next]_vars
    PROVE  Budgeted'
<1>0. now \in Nat /\ deadline \in Nat /\ IngestLag \in Nat /\ MaxWait \in Nat
  BY PlainTypes, PipelineAssumption DEF RunInv, EmuPart, QueueTypes
<1>1. CASE Emulate
  BY <1>1 DEF Emulate, RunInv, Budgeted, Asking
<1>2. CASE Abandon
  BY <1>2 DEF Abandon, Budgeted, Asking
<1>3. CASE Settle
  <2>1. /\ cfg' = cfg /\ events' = events /\ now' = now + SettleTime /\ phase' = "prepare"
    BY <1>3 DEF Settle, Enter, After, emuButNow
  <2>2. ASSUME live', NEW e \in events', e.origin # NoTest PROVE e.time + IngestLag <= now'
    <3>1. now' = now + IngestLag
      BY <2>1, <2>2, BackendStays DEF SettleTime
    <3>2. e.time \in Nat /\ e.time <= now
      BY <2>1, <2>2 DEF Stamped
    <3> QED
      BY <1>0, <3>1, <3>2
  <2> QED
    BY <2>1, <2>2 DEF Budgeted, Asking
<1>4. CASE Prepare
  <2>1. /\ cfg' = cfg /\ events' = events /\ phase = "prepare" /\ phase' = "detect"
        /\ deadline' = now + (IF live THEN MaxWait ELSE 0)
    BY <1>4 DEF Prepare, Enter, After, emuVars
  <2>2. ASSUME live', NEW e \in events', e.origin # NoTest
        PROVE  e.time + IngestLag + MaxWait <= deadline'
    <3>1. live
      BY <2>1, <2>2, BackendStays
    <3>2. deadline' = now + MaxWait
      BY <2>1, <3>1
    <3>3. e.time \in Nat
      BY <2>1, <2>2 DEF Stamped
    <3>4. e.time + IngestLag <= now
      BY <2>1, <2>2, <3>1 DEF Budgeted
    <3> QED
      BY <1>0, <3>2, <3>3, <3>4
  <2> QED
    BY <2>1, <2>2 DEF Budgeted
<1>5. CASE TakeBaseline \/ Emulated
  <2>1. phase' \in {"emulate", "settle"}
    BY <1>5 DEF TakeBaseline, Emulated, Enter, After
  <2> QED
    BY <2>1 DEF Budgeted, Asking
<1>6. CASE \/ AskDetection \/ DetectionDone \/ PollAgain \/ ProbeTelemetry \/ AskBaseline
           \/ QueriesDone \/ ClassifyCases
  <2>1. UNCHANGED <<cfg, events, deadline>> /\ phase \in Asking /\ phase' # "prepare"
    BY <1>6 DEF AskDetection, DetectionDone, PollAgain, ProbeTelemetry, AskBaseline, QueriesDone,
       ClassifyCases, Enter, After, Asking, emuVars, emuButNow
  <2> QED
    BY <2>1, BackendStays DEF Budgeted
<1>7. CASE UNCHANGED vars
  <2>1. UNCHANGED <<cfg, events, deadline, phase, now>>
    BY <1>7 DEF vars, emuVars, pipeVars
  <2> QED
    BY <2>1, BackendStays DEF Budgeted
<1> QED
  BY <1>1, <1>2, <1>3, <1>4, <1>5, <1>6, <1>7 DEF Next, Advance

\* A detection query, seen from the queues.
LEMMA DetectionQuery ==
    ASSUME LiveInv, AskDetection
    PROVE  \E answer \in QueryResult, i \in CaseIds :
              /\ i = Head(pending) /\ pending # <<>> /\ phase = "detect" /\ phase' = "detect"
              /\ now' \in Nat /\ now <= now' /\ now' <= now + MaxQueryTime
              /\ pending' = Tail(pending)
              /\ still_pending' = IF Requeue(answer) THEN Append(still_pending, i)
                                  ELSE still_pending
              /\ \A j \in CaseIds : observations'[j].detection =
                    IF j = i THEN answer ELSE observations[j].detection
              /\ \A j \in CaseIds : asked'[j] = IF j = i THEN now ELSE asked[j]
              /\ answer.kind = "answer" /\ answer.count = 0 =>
                    Found(Cases[i].matches, Window(i), Cases[i].test) = {}
              /\ UNCHANGED <<emuButNow, corpus, events, baselineEnd, anchored, deadline>>
<1> DEFINE i == Head(pending)
<1>1. /\ phase = "detect" /\ phase' = "detect" /\ pending # <<>> /\ pending' = Tail(pending)
      /\ asked' = [asked EXCEPT ![i] = now]
      /\ UNCHANGED <<emuButNow, corpus, events, baselineEnd, anchored, deadline>>
  BY DEF AskDetection
<1>2. now' \in Nat /\ now <= now' /\ now' <= now + MaxQueryTime
  <2>1. now \in Nat
    BY PlainTypes DEF LiveInv, RunInv, EmuPart
  <2>2. PICK d \in 0..MaxQueryTime : now' = now + d
    BY DEF AskDetection
  <2>3. MaxQueryTime \in Nat
    BY PipelineAssumption
  <2>4. d \in Nat /\ d <= MaxQueryTime
    BY <2>3
  <2>5. now + d \in Nat /\ now <= now + d /\ now + d <= now + MaxQueryTime
    BY <2>1, <2>3, <2>4
  <2> QED
    BY <2>2, <2>5
<1>3. i \in CaseIds
  BY <1>1, QueueElements DEF LiveInv, QueueTypes
<1>4. PICK answer \in Answers(Found(Cases[i].matches, Window(i), Cases[i].test), SearchLimit) :
        /\ observations' = [observations EXCEPT ![i].detection = answer]
        /\ still_pending' = IF Requeue(answer) THEN Append(still_pending, i) ELSE still_pending
  BY DEF AskDetection
<1>5. /\ answer \in QueryResult
      /\ answer.kind = "answer" /\ answer.count = 0 =>
            Found(Cases[i].matches, Window(i), Cases[i].test) = {}
  <2>1. Window(i).from \in Int /\ SearchLimit \in Nat \ {0}
    BY <1>3, WindowFrom, PipelineAssumption DEF LiveInv, RunInv
  <2> HIDE DEF i
  <2> QED
    BY <1>4, <2>1, AnswerToSearch DEF LiveInv, RunInv
<1> HIDE DEF i
<1>6. \A j \in CaseIds :
        /\ observations'[j].detection = IF j = i THEN answer ELSE observations[j].detection
        /\ asked'[j] = IF j = i THEN now ELSE asked[j]
  BY <1>1, <1>4 DEF LiveInv, RunInv, RunTypes
<1> QED
  BY <1>1, <1>2, <1>3, <1>4, <1>5, <1>6 DEF i

\* What the arithmetic of queues and clocks needs to know.
LEMMA QueueNumbers ==
    ASSUME LiveInv
    PROVE  /\ now \in Nat /\ deadline \in Nat /\ MaxQueryTime \in Nat
           /\ Len(Ready) \in Nat /\ Len(pending) \in Nat /\ Len(still_pending) \in Nat
           /\ \A i \in CaseIds : asked[i] \in Int
           /\ Range(pending) \subseteq CaseIds /\ Range(still_pending) \subseteq CaseIds
<1>1. now \in Nat
  BY PlainTypes DEF LiveInv, RunInv, EmuPart
<1>2. deadline \in Nat /\ pending \in Seq(CaseIds) /\ still_pending \in Seq(CaseIds)
  BY DEF LiveInv, QueueTypes
<1>3. \A i \in CaseIds : asked[i] \in Int
  BY DEF LiveInv, RunInv, RunTypes, Never
<1>4. MaxQueryTime \in Nat
  BY PipelineAssumption
<1> QED
  BY <1>1, <1>2, <1>3, <1>4, ReadyTypes, QueueElements

LEMMA DetectionPolls == ASSUME LiveInv, AskDetection PROVE Polling' /\ Patient'
<1>1. PICK answer \in QueryResult, i \in CaseIds :
              /\ i = Head(pending) /\ pending # <<>> /\ phase = "detect" /\ phase' = "detect"
              /\ now' \in Nat /\ now <= now' /\ now' <= now + MaxQueryTime
              /\ pending' = Tail(pending)
              /\ still_pending' = IF Requeue(answer) THEN Append(still_pending, i)
                                  ELSE still_pending
              /\ \A j \in CaseIds : observations'[j].detection =
                    IF j = i THEN answer ELSE observations[j].detection
              /\ \A j \in CaseIds : asked'[j] = IF j = i THEN now ELSE asked[j]
              /\ UNCHANGED <<emuButNow, deadline>>
  BY DetectionQuery
<1>2. Ready' = Ready
  BY <1>1, ReadyStays DEF emuButNow
<1>3. PICK n \in Nat : n = now'
  BY <1>1
<1>4. PICK more \in Seq(CaseIds) : more = still_pending'
  <2>1. still_pending \in Seq(CaseIds) /\ Append(still_pending, i) \in Seq(CaseIds)
    BY DEF LiveInv, QueueTypes
  <2> QED
    BY <1>1, <2>1
<1> DEFINE R == Len(Ready)
           k == Len(pending)
           rest == Tail(pending)
<1>5. /\ now \in Nat /\ deadline \in Nat /\ MaxQueryTime \in Nat
      /\ R \in Nat /\ k \in Nat /\ Len(still_pending) \in Nat
      /\ \A j \in CaseIds : asked[j] \in Int
      /\ Range(pending) \subseteq CaseIds /\ Range(still_pending) \subseteq CaseIds
  BY QueueNumbers
<1>6. /\ Len(rest) = k - 1 /\ k \in Nat \ {0}
      /\ Range(pending) \subseteq Range(rest) \cup {i}
  BY <1>1, QueueElements DEF LiveInv, QueueTypes
<1>7. \/ more = still_pending
      \/ Len(more) = Len(still_pending) + 1 /\ Range(more) = Range(still_pending) \cup {i}
  BY <1>1, <1>4, QueueElements DEF LiveInv, QueueTypes
<1>8. /\ k + Len(still_pending) <= R
      /\ \A j \in Range(still_pending) : now <= asked[j] + Reach(R - k)
  BY <1>1 DEF LiveInv, Polling
<1>9. /\ R - k \in Nat /\ R - (k - 1) = (R - k) + 1 /\ R \in Nat \ {0}
  BY <1>5, <1>6, <1>8
<1>10. /\ Reach(R - k) \in Nat /\ Reach(R - (k - 1)) = Reach(R - k) + MaxQueryTime
       /\ Reach(R) \in Nat /\ MaxQueryTime <= Reach(R)
  BY <1>9, ReachGrows
<1>11. \A j \in CaseIds : asked'[j] = IF j = i THEN now ELSE asked[j]
  BY <1>1
<1> HIDE DEF R, k, rest
<1>12. Polling'
  <2>1. Len(rest) + Len(more) <= R
    BY <1>5, <1>6, <1>7, <1>8
  <2>2. ASSUME NEW j \in Range(more) PROVE n <= asked'[j] + Reach(R - Len(rest))
    <3>1. Reach(R - Len(rest)) = Reach(R - k) + MaxQueryTime
      BY <1>6, <1>10
    <3>2. CASE j = i
      <4>1. asked'[j] = now
        BY <1>11, <3>2
      <4> QED
        BY <1>1, <1>3, <1>5, <1>10, <3>1, <4>1
    <3>3. CASE j # i
      <4>1. j \in Range(still_pending) /\ j \in CaseIds
        BY <1>5, <1>7, <3>3
      <4>2. asked'[j] = asked[j] /\ asked[j] \in Int /\ now <= asked[j] + Reach(R - k)
        BY <1>5, <1>8, <1>11, <3>3, <4>1
      <4> QED
        BY SMTT(20), <1>1, <1>3, <1>5, <1>10, <3>1, <4>2
    <3> QED
      BY <3>2, <3>3
  <2> QED
    BY <1>1, <1>2, <1>3, <1>4, <2>1, <2>2 DEF Polling, R, rest, Reach
<1>13. Patient'
  <2> SUFFICES ASSUME NEW j \in CaseIds, Missed(j)'
               PROVE  \/ j \in Range(rest) \cup Range(more)
                      \/ deadline <= asked'[j] + Reach(R)
    BY <1>1, <1>2, <1>4 DEF Patient, R, rest, Reach
  <2>1. Range(still_pending) \subseteq Range(more)
    BY <1>7
  <2>2. CASE j # i
    <3>1. observations'[j].detection = observations[j].detection /\ asked'[j] = asked[j]
      BY <1>1, <2>2
    <3>2. Missed(j)
      BY <3>1 DEF Missed
    <3>3. \/ j \in Range(pending) \cup Range(still_pending)
          \/ deadline <= asked[j] + Reach(R)
      BY <3>2 DEF LiveInv, Patient, R
    <3> QED
      BY <1>6, <2>1, <2>2, <3>1, <3>3
  <2>3. CASE j = i
    <3>1. answer.kind = "answer" /\ answer.count = 0 /\ asked'[j] = now
      BY <1>1, <2>3 DEF Missed
    <3>2. CASE Requeue(answer)
      <4>1. more = Append(still_pending, i)
        BY <1>1, <1>4, <3>2
      <4>2. i \in Range(more)
        BY <4>1, QueueElements DEF LiveInv, QueueTypes
      <4> QED
        BY <2>3, <4>2
    <3>3. CASE ~Requeue(answer)
      <4>1. ~(n < deadline)
        BY <1>3, <3>1, <3>3 DEF Requeue
      <4>2. deadline <= n /\ n <= now + MaxQueryTime
        BY <1>1, <1>3, <1>5, <4>1
      <4>3. deadline <= now + Reach(R)
        BY <1>5, <1>10, <4>2
      <4> QED
        BY <3>1, <4>3
    <3> QED
      BY <3>2, <3>3
  <2> QED
    BY <2>2, <2>3
<1> QED
  BY <1>12, <1>13

\* Outside of detection queries: what the queues and the clock do.
LEMMA AsideTimes ==
    ASSUME LiveInv, Aside
    PROVE  /\ Ready' = Ready /\ asked' = asked /\ events' = events
           /\ phase \in Asking => deadline' = deadline /\ UNCHANGED World
           /\ \A i \in CaseIds : Missed(i)' <=> Missed(i)
           /\ \A i \in CaseIds : Missed(i) => phase \in Asking
<1>1. /\ UNCHANGED <<emuButNow, corpus>>
      /\ \A i \in CaseIds : observations'[i].detection = observations[i].detection
  BY AsideKeeps DEF LiveInv
<1>2. Ready' = Ready
  BY <1>1, ReadyStays DEF emuButNow
<1>3. asked' = asked /\ events' = events
  BY DEF Aside, Next, Advance, TakeBaseline, Emulated, Settle, Prepare, DetectionDone, PollAgain,
     ProbeTelemetry, AskBaseline, QueriesDone, ClassifyCases
<1>4. phase \in Asking => UNCHANGED <<deadline, anchored, baselineEnd>>
  BY DEF Asking, Aside, Next, Advance, TakeBaseline, Emulated, Settle, Prepare, DetectionDone,
     PollAgain, ProbeTelemetry, AskBaseline, QueriesDone, ClassifyCases
<1>5. phase \in Asking => UNCHANGED World
  BY <1>1, <1>3, <1>4 DEF World, emuButNow
<1>6. \A i \in CaseIds : Missed(i)' <=> Missed(i)
  BY <1>1 DEF Missed
<1>7. \A i \in CaseIds : Missed(i) => phase \in Asking
  BY DEF Missed, LiveInv, RunInv, InTurn, Asking
<1> QED
  BY <1>2, <1>3, <1>4, <1>5, <1>6, <1>7

LEMMA AsidePolls == ASSUME LiveInv, Aside PROVE Polling' /\ Patient'
<1>0. /\ Ready' = Ready /\ asked' = asked
      /\ phase \in Asking => deadline' = deadline
      /\ \A i \in CaseIds : Missed(i)' <=> Missed(i)
      /\ \A i \in CaseIds : Missed(i) => phase \in Asking
  BY AsideTimes
<1>1. /\ now \in Nat /\ deadline \in Nat /\ Len(Ready) \in Nat /\ Len(still_pending) \in Nat
      /\ \A i \in CaseIds : asked[i] \in Int
      /\ Range(still_pending) \subseteq CaseIds
  BY QueueNumbers
<1>2. Range(<<>>) = {} /\ Len(<<>>) = 0
  BY DEF Range
<1>3. CASE Prepare
  <2>1. /\ phase = "prepare" /\ phase' = "detect" /\ pending' = Ready /\ still_pending' = <<>>
    BY <1>3 DEF Prepare, Enter, After
  <2>2. Polling'
    BY <1>0, <1>1, <1>2, <2>1 DEF Polling
  <2>3. Patient'
    BY <1>0, <2>1 DEF Patient, Asking
  <2> QED
    BY <2>2, <2>3
<1>4. CASE PollAgain
  <2>1. /\ phase = "detect" /\ phase' = "detect" /\ pending = <<>>
        /\ pending' = still_pending /\ still_pending' = <<>>
    BY <1>4 DEF PollAgain
  <2>2. Polling'
    <3>1. Len(still_pending) <= Len(Ready)
      BY <1>1, <1>2, <2>1 DEF LiveInv, Polling
    <3>2. Len(pending') + Len(still_pending') <= Len(Ready)
      BY <1>1, <1>2, <2>1, <3>1
    <3>3. Range(still_pending') = {}
      BY <1>2, <2>1
    <3> QED
      BY <1>0, <3>2, <3>3 DEF Polling
  <2>3. Patient'
    <3> SUFFICES ASSUME NEW i \in CaseIds, Missed(i)
                 PROVE  \/ i \in Range(still_pending)
                        \/ deadline <= asked[i] + Reach(Len(Ready))
      BY <1>0, <2>1 DEF Patient, Asking, Reach
    <3> QED
      BY <1>2, <2>1 DEF LiveInv, Patient
  <2> QED
    BY <2>2, <2>3
<1>5. CASE DetectionDone
  <2>1. /\ phase = "detect" /\ phase' = "probe" /\ pending = <<>>
        /\ still_pending = <<>> \/ now >= deadline
    BY <1>5 DEF DetectionDone, Enter, After, Exhausted
  <2>2. Polling'
    BY <2>1 DEF Polling
  <2>3. Patient'
    <3> SUFFICES ASSUME NEW i \in CaseIds, Missed(i)
                 PROVE  deadline <= asked[i] + Reach(Len(Ready))
      BY <1>0, <2>1 DEF Patient, Asking, Reach
    <3>1. i \in Range(still_pending) \/ deadline <= asked[i] + Reach(Len(Ready))
      BY <1>2, <2>1 DEF LiveInv, Patient
    <3>2. ASSUME i \in Range(still_pending) PROVE deadline <= asked[i] + Reach(Len(Ready))
      <4>1. now <= asked[i] + Reach(Len(Ready) - Len(pending))
        BY <2>1, <3>2 DEF LiveInv, Polling
      <4>2. Len(Ready) - Len(pending) = Len(Ready)
        BY <1>1, <1>2, <2>1
      <4>3. now >= deadline
        BY <1>2, <2>1, <3>2
      <4>4. Reach(Len(Ready)) \in Nat
        BY <1>1, ReachGrows
      <4> QED
        BY <1>1, <4>1, <4>2, <4>3, <4>4
    <3> QED
      BY <3>1, <3>2
  <2> QED
    BY <2>2, <2>3
<1>6. CASE ~Prepare /\ ~PollAgain /\ ~DetectionDone
  <2>1. phase # "detect" /\ phase' # "detect"
    BY <1>6 DEF Aside, Next, Advance, TakeBaseline, Emulated, Settle, ProbeTelemetry, AskBaseline,
       QueriesDone, ClassifyCases, Enter, After
  <2>2. Polling'
    BY <2>1 DEF Polling
  <2>3. Patient'
    <3> SUFFICES ASSUME NEW i \in CaseIds, Missed(i)
                 PROVE  deadline <= asked[i] + Reach(Len(Ready))
      BY <1>0, <2>1 DEF Patient, Reach
    <3> QED
      BY <2>1 DEF LiveInv, Patient
  <2> QED
    BY <2>2, <2>3
<1> QED
  BY <1>3, <1>4, <1>5, <1>6

\* What was not found was not there, for the last answer as for the earlier ones.
LEMMA UnmatchedStays ==
    ASSUME UNCHANGED World, NEW i, asked'[i] = asked[i]
    PROVE  Unmatched(i)' <=> Unmatched(i)
<1>1. Platform' = Platform /\ Window(i)' = Window(i) /\ Backend' = Backend
  BY PlatformStays
<1> QED
  BY <1>1 DEF Unmatched, Attributed

LEMMA DetectionMatches ==
    ASSUME LiveInv, AskDetection, NEW j \in CaseIds, Missed(j)'
    PROVE  Unmatched(j)'
<1>1. PICK answer \in QueryResult, i \in CaseIds :
              /\ observations'[j].detection = IF j = i THEN answer ELSE observations[j].detection
              /\ asked'[j] = IF j = i THEN now ELSE asked[j]
              /\ answer.kind = "answer" /\ answer.count = 0 =>
                    Found(Cases[i].matches, Window(i), Cases[i].test) = {}
              /\ UNCHANGED <<emuButNow, corpus, events, baselineEnd, anchored>>
  BY DetectionQuery
<1>2. UNCHANGED World
  BY <1>1 DEF World, emuButNow
<1>3. CASE j # i
  <2>1. Missed(j)
    BY <1>1, <1>3 DEF Missed
  <2>2. Unmatched(j)
    BY <2>1 DEF LiveInv
  <2> QED
    BY <1>1, <1>2, <1>3, <2>2, UnmatchedStays
<1>4. CASE j = i
  <2>1. Found(Cases[j].matches, Window(j), Cases[j].test) = {} /\ asked'[j] = now
    BY <1>1, <1>4 DEF Missed
  <2>2. Platform' = Platform /\ Window(j)' = Window(j) /\ Backend' = Backend
    BY <1>2, PlatformStays
  <2>3. ~\E e \in Platform : /\ e.origin \in Cases[j].matches /\ Attributed(j, e)
                             /\ e.arrives <= now
                             /\ Window(j).from <= e.time /\ e.time <= Window(j).to
    BY <2>1 DEF Found, Attributed
  <2> QED
    BY <2>1, <2>2, <2>3 DEF Unmatched, Attributed
<1> QED
  BY <1>3, <1>4

---------------------------------------------------------------------------
(* The invariant of a live platform *)

LEMMA LiveStarts == PipeInit => LiveInv
<1> SUFFICES ASSUME PipeInit PROVE LiveInv
  OBVIOUS
<1>1. RunInv /\ QueueTypes /\ Forward
  BY RunStarts, QueueStarts, ReplayStarts DEF ReplayInv
<1>2. /\ phase = "baseline" /\ observations = NothingObserved
      /\ \A e \in events : e.origin = NoTest
  BY PipelineAssumption DEF PipeInit
<1>3. Stamped /\ Budgeted /\ Polling
  BY <1>2 DEF Stamped, Budgeted, Polling, Asking
<1>4. \A i \in CaseIds : ~Missed(i)
  BY <1>2, FailedIsResult DEF Missed, NothingObserved
<1> QED
  BY <1>1, <1>3, <1>4 DEF LiveInv, Patient

LEMMA LiveStep == ReplayInv /\ LiveInv /\ [Next]_vars => LiveInv'
<1> SUFFICES ASSUME ReplayInv, LiveInv, [Next]_vars PROVE LiveInv'
  OBVIOUS
<1>1. RunInv' /\ QueueTypes' /\ Forward' /\ Budgeted'
  BY StepKeeps, QueueStep, ReplayStep, BudgetedStep DEF LiveInv, ReplayInv
<1>2. CASE Emulate
  <2>1. Stamped'
    BY <1>2, EmulateStamps DEF LiveInv
  <2>2. phase' = "emulate" /\ \A i \in CaseIds : ~Missed(i)'
    <3>1. phase = "emulate" /\ phase' = phase /\ observations' = observations
      BY <1>2 DEF Emulate
    <3>2. \A i \in CaseIds : ~Missed(i)
      BY <3>1 DEF LiveInv, RunInv, InTurn, Missed
    <3> QED
      BY <3>1, <3>2 DEF Missed
  <2>3. Polling' /\ Patient'
    BY <2>2 DEF Polling, Patient
  <2> QED
    BY <1>1, <2>1, <2>2, <2>3 DEF LiveInv
<1>3. CASE AskDetection
  <2>1. now' \in Nat /\ now <= now' /\ UNCHANGED <<emuButNow, events>>
    BY <1>3, DetectionQuery
  <2>2. Stamped'
    BY <2>1, StampedStays DEF LiveInv, RunInv
  <2>3. Polling' /\ Patient'
    BY <1>3, DetectionPolls
  <2>4. \A i \in CaseIds : Missed(i)' => Unmatched(i)'
    BY <1>3, DetectionMatches
  <2> QED
    BY <1>1, <2>2, <2>3, <2>4 DEF LiveInv
<1>4. CASE Aside
  <2>1. /\ now' \in Nat /\ now <= now' /\ UNCHANGED <<emuButNow, events>>
    BY <1>4, AsideKeeps, AsideTimes DEF LiveInv
  <2>2. Stamped'
    BY <2>1, StampedStays DEF LiveInv, RunInv
  <2>3. Polling' /\ Patient'
    BY <1>4, AsidePolls
  <2>4. ASSUME NEW i \in CaseIds, Missed(i)' PROVE Unmatched(i)'
    <3>1. Missed(i) /\ UNCHANGED World /\ asked' = asked
      BY <1>4, <2>4, AsideTimes
    <3>2. Unmatched(i)
      BY <3>1 DEF LiveInv
    <3> QED
      BY <3>1, <3>2, UnmatchedStays
  <2> QED
    BY <1>1, <2>2, <2>3, <2>4 DEF LiveInv
<1>5. CASE Abandon
  <2>1. /\ phase' = "killed" /\ UNCHANGED <<emuButNow, events, now>>
        /\ observations' = NothingObserved
    BY <1>5 DEF Abandon, emuVars, emuButNow
  <2>2. now \in Nat
    BY QueueNumbers
  <2>3. Stamped'
    BY <2>1, <2>2, StampedStays DEF LiveInv, RunInv
  <2>4. \A i \in CaseIds : ~Missed(i)'
    BY <2>1, FailedIsResult DEF Missed, NothingObserved
  <2>5. Polling' /\ Patient'
    BY <2>1, <2>4 DEF Polling, Patient
  <2> QED
    BY <1>1, <2>3, <2>4, <2>5 DEF LiveInv
<1>6. CASE UNCHANGED vars
  <2>1. /\ UNCHANGED <<emuButNow, events, now, phase, pending, still_pending, deadline, asked,
                       observations>>
        /\ UNCHANGED World
    BY <1>6 DEF vars, emuVars, pipeVars, emuButNow, World
  <2>2. now \in Nat /\ Ready' = Ready
    BY <2>1, QueueNumbers, ReadyStays DEF emuButNow
  <2>3. Stamped'
    BY <2>1, <2>2, StampedStays DEF LiveInv, RunInv
  <2>4. \A i \in CaseIds : (Missed(i)' <=> Missed(i)) /\ (Unmatched(i)' <=> Unmatched(i))
    BY <2>1, UnmatchedStays DEF Missed
  <2>5. Polling' /\ Patient'
    BY <2>1, <2>2, <2>4 DEF LiveInv, Polling, Patient, Reach
  <2> QED
    BY <1>1, <2>3, <2>4, <2>5 DEF LiveInv
<1> QED
  BY <1>2, <1>3, <1>4, <1>5, <1>6 DEF Aside

\* A matching event that came in time was found; nobody who missed it was asked
\* early enough for that.
LEMMA InTimeIsMatched ==
    ASSUME LiveInv, live, phase \in Asking \ {"detect"},
           NEW i \in CaseIds, results[Cases[i].test].mode # "none", Missed(i),
           NEW e \in events, e.origin = Cases[i].test,
           e.arrives - e.time <= IngestLag + MaxWait - Len(Ready) * MaxQueryTime
    PROVE  /\ e \in Platform /\ Attributed(i, e) /\ e.arrives <= asked[i]
           /\ Window(i).from <= e.time /\ e.time <= Window(i).to
<1> DEFINE test == Cases[i].test
           result == results[test]
           budget == Cases[i].max_latency
<1>1. /\ test \in Tests /\ test # NoTest /\ budget \in Nat
  BY CaseFields, PipelineAssumption DEF Case
<1>2. Backend # "fixture" /\ e \in Platform /\ Attributed(i, e)
  BY DEF live, Platform, Attributed
<1>3. e.time \in Nat /\ e.time <= now /\ result.mode # "none" /\ e.time = result.finish
  <2>1. \/ result.mode # "none" /\ e.time = result.finish
        \/ stage = "cleanup" /\ test = current
    BY <1>1 DEF LiveInv, Stamped
  <2>2. ~(stage = "cleanup" /\ test = current)
    <3> SUFFICES ASSUME stage = "cleanup", test = current PROVE FALSE
      OBVIOUS
    <3>1. pos <= Len(cfg.plan) /\ Fresh(pos) /\ EmuInv
      BY DEF LiveInv, RunInv, EmuPart, EmuInv, Handling
    <3>2. results[current].mode = "none"
      BY <3>1, FreshIsUntouched
    <3> QED
      BY <3>2
  <2> QED
    BY <1>1, <2>1, <2>2 DEF LiveInv, Stamped
<1>4. result.start \in Nat /\ result.start <= result.finish
  BY <1>1, PlainTypes DEF LiveInv, RunInv, EmuPart, Forward
<1>5. Window(i).from <= e.time /\ e.time <= Window(i).to
  <2>1. /\ Window(i).from = result.start - PreWindow
        /\ Window(i).to = result.finish + ((IF PostWindow < budget THEN budget ELSE PostWindow)
                                           + Slack)
    BY DEF Window
  <2>2. PreWindow \in Nat /\ PostWindow \in Nat /\ Slack \in Nat
    BY PipelineAssumption
  <2> HIDE DEF result, budget, test
  <2> QED
    BY <1>1, <1>3, <1>4, <2>1, <2>2
<1>6. e.arrives <= asked[i]
  <2> DEFINE reach == Reach(Len(Ready))
  <2>1. e.time + IngestLag + MaxWait <= deadline
    BY <1>1 DEF LiveInv, Budgeted
  <2>2. deadline <= asked[i] + reach
    BY DEF LiveInv, Patient
  <2>3. /\ asked[i] \in Int /\ deadline \in Nat /\ reach \in Nat
    BY QueueNumbers, ReachGrows
  <2>4. IngestLag \in Nat /\ MaxWait \in Nat
    BY PipelineAssumption
  <2>5. e.arrives \in Nat
    BY DEF LiveInv, RunInv, RunTypes, PlatformEvent
  <2>6. e.arrives - e.time <= IngestLag + MaxWait - reach
    BY DEF Reach
  <2>7. e.time \in Int /\ e.arrives \in Int /\ reach \in Int /\ deadline \in Int
        /\ IngestLag \in Int /\ MaxWait \in Int
    BY <1>3, <2>3, <2>4, <2>5
  <2> HIDE DEF reach
  <2>8. \A a, t, l, m, r, d, q \in Int :
          a - t <= l + m - r /\ t + l + m <= d /\ d <= q + r => a <= q
    OBVIOUS
  <2> QED
    BY ONLY <2>1, <2>2, <2>3, <2>6, <2>7, <2>8
<1> QED
  BY <1>2, <1>5, <1>6

\* Telemetry that becomes searchable within the settling time plus the wait
\* budget, less one round of queries, counts: a rule that matches it is DETECTED,
\* and a rule that only covers it is not BLIND.
THEOREM TelemetryCounts == Spec => []TelemetryInTimeCounts
<1>1. LiveInv => TelemetryInTimeCounts
  <2> SUFFICES ASSUME LiveInv, NEW i \in ScoredCases, NEW e \in events,
                      live, e.origin = Cases[i].test,
                      e.arrives - e.time <= IngestLag + MaxWait - Len(Ready) * MaxQueryTime
               PROVE  /\ e.origin \in Cases[i].matches => verdicts[i].outcome = "DETECTED"
                      /\ e.origin \in Cases[i].covers => verdicts[i].outcome # "BLIND"
    BY DEF TelemetryInTimeCounts
  <2> DEFINE detection == observations[i].detection
             telemetry == observations[i].telemetry
  <2>1. /\ i \in CaseIds /\ verdicts[i] = Scored(Cases[i].expected, Observation(i))
        /\ detection.kind = "answer" /\ results[Cases[i].test].mode # "none"
    BY ScoredMeans DEF LiveInv
  <2>2. phase = "over"
    BY DEF ScoredCases
  <2>3. detection.count \in Nat /\ telemetry.count \in Nat
    BY <2>1 DEF LiveInv, RunInv, RunTypes, QueryResult
  <2>4. verdicts[i].outcome = ThreeState(detection, telemetry)
    BY <2>1 DEF Scored, Observation
  <2>5. ASSUME detection.count = 0
        PROVE  /\ e \in Platform /\ Attributed(i, e) /\ e.arrives <= asked[i]
               /\ Window(i).from <= e.time /\ e.time <= Window(i).to
               /\ Unmatched(i)
    <3>1. Missed(i)
      BY <2>1, <2>5 DEF Missed
    <3>2. phase \in Asking \ {"detect"}
      BY <2>2 DEF Asking
    <3>3. Unmatched(i)
      BY <2>1, <3>1 DEF LiveInv
    <3> QED
      BY <2>1, <3>1, <3>2, <3>3, InTimeIsMatched
  <2>6. ASSUME e.origin \in Cases[i].matches PROVE verdicts[i].outcome = "DETECTED"
    <3>1. detection.count # 0
      BY <2>5, <2>6 DEF Unmatched
    <3> QED
      BY <2>3, <2>4, <3>1 DEF ThreeState
  <2>7. ASSUME e.origin \in Cases[i].covers, verdicts[i].outcome = "BLIND" PROVE FALSE
    <3>1. detection.count = 0 /\ telemetry.kind = "answer" /\ telemetry.count = 0
      BY <2>3, <2>4, <2>7 DEF ThreeState
    <3>2. Nothing(i)
      BY <2>1, <3>1 DEF LiveInv, RunInv, Witnessed
    <3> QED
      BY <2>5, <2>7, <3>1, <3>2 DEF Nothing
  <2> QED
    BY <2>6, <2>7
<1>2. PipeInit => ReplayInv /\ LiveInv
  BY ReplayStarts, LiveStarts
<1>3. ReplayInv /\ LiveInv /\ [Next]_vars => (ReplayInv /\ LiveInv)'
  BY ReplayStep, LiveStep
<1> QED
  BY <1>1, <1>2, <1>3, PTL DEF Spec

=============================================================================
