--------------------------- MODULE Recording_proofs ---------------------------
(***************************************************************************)
(* Recordings are evidence: whatever runs record under a name, in whatever *)
(* order, whichever of them die, and whatever the platform answers.        *)
(*                                                                         *)
(* That a corpus is only touched by the run that made it, unless a run was *)
(* told to overwrite, rests on two facts: a name whose directory has no    *)
(* manifest holds nothing at all, because the manifest is written first;   *)
(* and a run that is writing events has written that name's manifest.      *)
(*                                                                         *)
(* What a corpus holds rests on RecInv.  Every document the recorder holds *)
(* is that of an event it could place (Evident); every source is still to  *)
(* be asked, is reported, or has brought what it covers (Caught); from the *)
(* sort on, the documents of a test are in the order of their offsets      *)
(* (InOrder); and a corpus on disk keeps these three of the run it stems   *)
(* from, which is over.  What replays, searches with a cap and heartbeats  *)
(* make of the corpora then follows from facts about the operators.        *)
(***************************************************************************)
EXTENDS Recording, Comprehension_proofs, FiniteSetTheorems, TLAPS

CorpusParts == {"manifest", "of", "lines", "torn"}

DiskShape ==
    /\ DOMAIN disk = Names
    /\ \A n \in Names : DOMAIN disk[n] = CorpusParts

\* The manifest comes first.
ManifestFirst == \A n \in Names : disk[n].manifest = Nobody => disk[n] = NoCorpus

\* And it is one's own before the events follow.
OwnManifest ==
    stage = "events" /\ Current.name \in Names => disk[Current.name].manifest = run

EvidenceInv == run \in Nat \ {0} /\ DiskShape /\ ManifestFirst /\ OwnManifest

\* What the steps of a run that only captures, or refuses, leave alone.
LEMMA QuietStep ==
    ASSUME EvidenceInv, UNCHANGED <<disk, history>>, run' \in {run, run + 1},
           stage' # "events" \/ (stage' = stage /\ run' = run)
    PROVE  EvidenceInv'
<1>1. run' \in Nat \ {0}
  BY DEF EvidenceInv
<1>2. DiskShape' /\ ManifestFirst'
  BY DEF EvidenceInv, DiskShape, ManifestFirst
<1>3. OwnManifest'
  BY DEF EvidenceInv, OwnManifest, Current
<1> QED
  BY <1>1, <1>2, <1>3 DEF EvidenceInv

\* A run that ends hands over to the next one, or ends the history.
LEMMA FinishMoves ==
    ASSUME NEW how, Finish(how), run \in Nat
    PROVE  run' \in {run, run + 1} /\ stage' # "events"
BY DEF Finish

\* What a run writes into its own directory carries its manifest.
LEMMA WritingStep ==
    ASSUME EvidenceInv, UNCHANGED history, NEW corpus,
           disk' = [disk EXCEPT ![Current.name] = corpus],
           DOMAIN corpus = CorpusParts, corpus.manifest = run,
           run' \in {run, run + 1}, stage' # "events" \/ run' = run
    PROVE  EvidenceInv'
<1>1. run \in Nat \ {0} /\ run' \in Nat \ {0}
  BY DEF EvidenceInv
<1>2. \A n \in Names : disk'[n] = IF n = Current.name THEN corpus ELSE disk[n]
  BY DEF EvidenceInv, DiskShape
<1>3. DOMAIN disk' = Names
  BY DEF EvidenceInv, DiskShape
<1>4. DiskShape'
  BY <1>2, <1>3 DEF EvidenceInv, DiskShape
<1>5. ManifestFirst'
  BY <1>1, <1>2 DEF EvidenceInv, ManifestFirst, Nobody
<1>6. OwnManifest'
  <2>1. CASE stage' # "events"
    BY <2>1 DEF OwnManifest
  <2>2. CASE run' = run
    <3>1. Current' = Current
      BY <2>2 DEF Current
    <3> QED
      BY <1>2, <2>2, <3>1 DEF OwnManifest
  <2> QED
    BY <2>1, <2>2
<1> QED
  BY <1>1, <1>4, <1>5, <1>6 DEF EvidenceInv

LEMMA LinesParts ==
    ASSUME NEW documents, NEW torn
    PROVE  DOMAIN Lines(documents, torn) = CorpusParts /\ Lines(documents, torn).manifest = run
BY DEF Lines, CorpusParts

\* The three ways the disk changes.
Overwrites == /\ stage = "write" /\ (Occupied(Current.name) => Current.overwrite)
              /\ disk' = [disk EXCEPT ![Current.name].manifest = run]
Completes == /\ stage = "events"
             /\ \E documents, torn :
                   disk' = [disk EXCEPT ![Current.name] = Lines(documents, torn)]

LEMMA DiskChanges ==
    ASSUME [RecNext]_recVars
    PROVE  disk' = disk \/ Overwrites \/ Completes
<1>1. CASE WriteManifest
  BY <1>1 DEF WriteManifest, Overwrites
<1>2. CASE WriteEvents
  BY <1>2 DEF WriteEvents, Completes
<1>3. CASE Crash
  BY <1>3 DEF Crash, Completes
<1>4. CASE ~(WriteManifest \/ WriteEvents \/ Crash)
  BY <1>4 DEF RecNext, recVars, SkipUnmapped, SourceFails, SourceAnswers, Captured, Refuse
<1> QED
  BY <1>1, <1>2, <1>3, <1>4

LEMMA EvidenceStep == EvidenceInv /\ [RecNext]_recVars => EvidenceInv'
<1> SUFFICES ASSUME EvidenceInv, [RecNext]_recVars PROVE EvidenceInv'
  OBVIOUS
<1>0. run \in Nat
  BY DEF EvidenceInv
<1>1. CASE SkipUnmapped \/ SourceFails \/ SourceAnswers \/ Captured \/ UNCHANGED recVars
  <2>1. /\ UNCHANGED <<disk, history>> /\ run' = run
        /\ stage' # "events" \/ stage' = stage
    BY <1>1 DEF SkipUnmapped, SourceFails, SourceAnswers, Captured, recVars
  <2> QED
    BY <2>1, QuietStep
<1>2. CASE Refuse
  <2>1. UNCHANGED <<disk, history>> /\ Finish("refused")
    BY <1>2 DEF Refuse
  <2> QED
    BY <1>0, <2>1, FinishMoves, QuietStep
<1>3. CASE WriteManifest
  <2>1. /\ disk' = [disk EXCEPT ![Current.name].manifest = run]
        /\ run' = run /\ UNCHANGED history
    BY <1>3 DEF WriteManifest
  <2>2. CASE Current.name \in Names
    <3> DEFINE corpus == [disk[Current.name] EXCEPT !.manifest = run]
    <3>1. DOMAIN corpus = CorpusParts /\ corpus.manifest = run
      BY <2>2 DEF EvidenceInv, DiskShape, CorpusParts
    <3>2. disk' = [disk EXCEPT ![Current.name] = corpus]
      BY <2>1
    <3> HIDE DEF corpus
    <3> QED
      BY <2>1, <3>1, <3>2, WritingStep
  <2>3. CASE Current.name \notin Names
    <3>1. /\ DOMAIN disk' = Names /\ Current' = Current
          /\ \A n \in Names : disk'[n] = disk[n]
      BY <2>1, <2>3 DEF EvidenceInv, DiskShape, Current
    <3> QED
      BY <2>1, <2>3, <3>1 DEF EvidenceInv, DiskShape, ManifestFirst, OwnManifest
  <2> QED
    BY <2>2, <2>3
<1>4. CASE WriteEvents
  <2>1. /\ disk' = [disk EXCEPT ![Current.name] = Lines(docs, FALSE)]
        /\ Finish("recorded") /\ UNCHANGED history
    BY <1>4 DEF WriteEvents
  <2> QED
    BY <1>0, <2>1, FinishMoves, LinesParts, WritingStep
<1>5. CASE Crash
  <2>1. Finish("crashed") /\ UNCHANGED history
    BY <1>5 DEF Crash
  <2>2. CASE disk' = disk
    BY <1>0, <2>1, <2>2, FinishMoves, QuietStep
  <2>3. CASE disk' # disk
    <3>1. PICK k \in 0..(Len(docs) - 1), torn \in BOOLEAN :
            disk' = [disk EXCEPT ![Current.name] = Lines(SubSeq(docs, 1, k), torn)]
      BY <1>5, <2>3 DEF Crash
    <3> QED
      BY <1>0, <2>1, <3>1, FinishMoves, LinesParts, WritingStep
  <2> QED
    BY <2>2, <2>3
<1> QED
  BY <1>1, <1>2, <1>3, <1>4, <1>5 DEF RecNext

LEMMA EvidenceStarts == RecInit => EvidenceInv
<1> SUFFICES ASSUME RecInit PROVE EvidenceInv
  OBVIOUS
<1>1. run = 1 /\ stage = "capture" /\ disk = [n \in Names |-> NoCorpus]
  BY DEF RecInit
<1>2. DOMAIN NoCorpus = CorpusParts
  BY DEF NoCorpus, CorpusParts
<1> QED
  BY <1>1, <1>2 DEF EvidenceInv, DiskShape, ManifestFirst, OwnManifest

\* A run that finds something under its name, finished or half written by a run
\* that died, changes none of it unless it was told to overwrite.
THEOREM CorporaAreEvidence == RecSpec => EvidenceStays
<1>1. EvidenceInv /\ [RecNext]_recVars =>
        [\A n \in Names :
            disk[n] # NoCorpus /\ disk'[n] # disk[n] =>
              \/ Current.overwrite /\ Current.name = n
              \/ disk[n].manifest = run]_recVars
  <2> SUFFICES ASSUME EvidenceInv, [RecNext]_recVars, NEW n \in Names,
                      disk[n] # NoCorpus, disk'[n] # disk[n]
               PROVE  \/ Current.overwrite /\ Current.name = n
                      \/ disk[n].manifest = run
    OBVIOUS
  <2>1. Overwrites \/ Completes
    BY DiskChanges
  <2>2. DOMAIN disk = Names
    BY DEF EvidenceInv, DiskShape
  <2>3. CASE Overwrites
    <3>1. n = Current.name
      BY <2>2, <2>3 DEF Overwrites
    <3>2. disk[n].manifest # Nobody
      BY DEF EvidenceInv, ManifestFirst
    <3> QED
      BY <2>3, <3>1, <3>2 DEF Overwrites, Occupied
  <2>4. CASE Completes
    <3>1. n = Current.name
      BY <2>2, <2>4 DEF Completes
    <3> QED
      BY <2>4, <3>1 DEF Completes, EvidenceInv, OwnManifest
  <2> QED
    BY <2>1, <2>3, <2>4
<1> QED
  BY <1>1, EvidenceStarts, EvidenceStep, PTL DEF RecSpec, EvidenceStays

Places == Tests \cup {NoTest}
DocumentType == [test: Places, offset: Nat, event: PlatformEvent]

---------------------------------------------------------------------------
(* Finite sets of numbers *)

LEMMA ImageIsFinite ==
    ASSUME NEW S, IsFiniteSet(S), NEW f, DOMAIN f = S
    PROVE  IsFiniteSet({f[x] : x \in S})
<1> DEFINE T == {f[x] : x \in S}
           g == [x \in S |-> f[x]]
<1>1. g \in Surjection(S, T)
  BY DEF Surjection
<1> HIDE DEF T, g
<1>2. IsFiniteSet(T)
  BY <1>1, FS_Surjection
<1> QED
  BY <1>2 DEF T

LEMMA ListMaximum ==
    ASSUME NEW n \in Nat \ {0}, NEW f \in [1..n -> Int]
    PROVE  \E i \in 1..n : \A j \in 1..n : f[j] <= f[i]
<1> DEFINE Top(m) == \E i \in 1..n : i <= m /\ \A j \in 1..n : j <= m => f[j] <= f[i]
           T == {m \in Nat : m + 1 <= n => Top(m + 1)}
<1>1. 0 \in T
  <2>1. Top(1)
    OBVIOUS
  <2> QED
    BY <2>1
<1>2. ASSUME NEW m \in Nat, m \in T PROVE m + 1 \in T
  <2> SUFFICES ASSUME (m + 1) + 1 <= n PROVE Top((m + 1) + 1)
    OBVIOUS
  <2>1. PICK i \in 1..n : i <= m + 1 /\ \A j \in 1..n : j <= m + 1 => f[j] <= f[i]
    BY <1>2
  <2> DEFINE k == (m + 1) + 1
  <2>2. k \in 1..n /\ k \in Nat /\ f[k] \in Int /\ f[i] \in Int
    OBVIOUS
  <2>3. \A j \in 1..n : j <= k => j <= m + 1 \/ j = k
    OBVIOUS
  <2>4. CASE f[k] <= f[i]
    BY <2>1, <2>2, <2>3, <2>4
  <2>5. CASE ~(f[k] <= f[i])
    <3>1. ASSUME NEW j \in 1..n, j <= k PROVE f[j] <= f[k]
      BY <2>1, <2>2, <2>3, <2>5, <3>1
    <3> QED
      BY <2>2, <3>1
  <2> QED
    BY <2>4, <2>5
<1>3. n - 1 \in T
  <2> HIDE DEF T
  <2>1. Nat \subseteq T
    BY <1>1, <1>2, Climbs
  <2> QED
    BY <2>1
<1> QED
  BY <1>3

LEMMA MaxIsLargest ==
    ASSUME NEW S, IsFiniteSet(S), S \subseteq Int, S # {}
    PROVE  Max(S) \in S /\ \A x \in S : x <= Max(S)
<1> DEFINE n == Cardinality(S)
<1>1. n \in Nat \ {0} /\ ExistsBijection(1..n, S)
  BY FS_CardinalityType, FS_EmptySet
<1>2. PICK f : f \in Bijection(1..n, S)
  BY <1>1 DEF ExistsBijection
<1> HIDE DEF n
<1>3. f \in [1..n -> Int] /\ \A x \in S : \E i \in 1..n : f[i] = x
  BY <1>2 DEF Bijection, Surjection, Injection
<1>4. PICK i \in 1..n : \A j \in 1..n : f[j] <= f[i]
  BY <1>1, <1>3, ListMaximum
<1>5. f[i] \in S /\ \A x \in S : x <= f[i]
  <2>1. f[i] \in S
    BY <1>2 DEF Bijection, Surjection, Injection
  <2> QED
    BY <1>3, <1>4, <2>1
<1>6. \E m \in S : \A x \in S : m >= x
  BY <1>5
<1>7. Max(S) \in S /\ \A x \in S : Max(S) >= x
  BY <1>6 DEF Max
<1> QED
  BY <1>7

LEMMA MinIsLeast ==
    ASSUME NEW S, S \subseteq Int, S # {}, NEW bound \in Int, \A x \in S : bound <= x
    PROVE  Min(S) \in S /\ \A x \in S : Min(S) <= x
<1>1. \E m \in S : \A x \in S : m <= x
  BY LeastElement
<1> QED
  BY <1>1 DEF Min

---------------------------------------------------------------------------
(* Windows and documents *)

LEMMA PlacesAreFinite == IsFiniteSet(Places) /\ Places # {}
<1> DEFINE D == DOMAIN TestNames
<1>1. TestNames \in Seq(Places) /\ NoTest \in Range(TestNames)
  BY RecordingAssumption DEF Places
<1>2. Len(TestNames) \in Nat /\ D = 1..Len(TestNames)
  BY <1>1
<1>3. IsFiniteSet(D)
  BY <1>2, FS_Interval
<1> HIDE DEF D
<1>4. IsFiniteSet({TestNames[i] : i \in D})
  BY <1>3, ImageIsFinite DEF D
<1>5. Places = {TestNames[i] : i \in D}
  BY <1>1 DEF Places, Tests, Range, D
<1> QED
  BY <1>4, <1>5, Zenon DEF Places

LEMMA RankOfPlace ==
    ASSUME NEW t \in Places
    PROVE  Rank(t) \in Nat /\ TestNames[Rank(t)] = t
<1>1. TestNames \in Seq(Places) /\ NoTest \in Range(TestNames)
  BY RecordingAssumption DEF Places
<1>2. \E i \in DOMAIN TestNames : TestNames[i] = t
  BY <1>1 DEF Places, Tests, Range
<1>3. Rank(t) \in DOMAIN TestNames /\ TestNames[Rank(t)] = t
  BY <1>2 DEF Rank
<1> QED
  BY <1>1, <1>3

LEMMA SpansOfRun ==
    ASSUME NEW live \in LiveRun
    PROVE  /\ DOMAIN live.spans = Places
           /\ \A t \in Places : live.spans[t].from \in Nat /\ live.spans[t].to \in Nat
           /\ \A e \in live.events : e \in PlatformEvent /\ e.time \in Nat
BY DEF LiveRun, Span, Places, PlatformEvent

LEMMA WindowExists ==
    ASSUME NEW live \in LiveRun, NEW time, WindowsOf(live, time) # {}
    PROVE  /\ WindowFor(live, time) \in WindowsOf(live, time)
           /\ WindowFor(live, time) \in Places
           /\ Within(time, live.spans[WindowFor(live, time)])
           /\ \A u \in WindowsOf(live, time) :
                 live.spans[WindowFor(live, time)].from <= live.spans[u].from
<1> DEFINE W == WindowsOf(live, time)
           starts == {live.spans[t].from : t \in W}
<1>1. W \subseteq Places /\ \A t \in W : Within(time, live.spans[t])
  BY SpansOfRun DEF WindowsOf
<1>2. starts \subseteq Nat /\ starts # {}
  BY <1>1, SpansOfRun
<1>3. \E m \in starts : \A x \in starts : m <= x
  <2>1. 0 \in Int /\ starts \subseteq Int /\ \A x \in starts : 0 <= x
    BY <1>2
  <2> HIDE DEF starts
  <2> QED
    BY <1>2, <2>1, LeastElement
<1>4. \E t \in W : \A u \in W : live.spans[t].from <= live.spans[u].from
  BY <1>3
<1>5. /\ WindowFor(live, time) \in W
      /\ \A u \in W : live.spans[WindowFor(live, time)].from <= live.spans[u].from
  <2> HIDE DEF W
  <2> QED
    BY <1>4 DEF WindowFor, W
<1> QED
  BY <1>1, <1>5

LEMMA DocumentFields ==
    ASSUME NEW live \in LiveRun, NEW e \in live.events, Placeable(live, e)
    PROVE  /\ Document(live, e) \in DocumentType
           /\ Document(live, e).event = e
           /\ Document(live, e).test = WindowFor(live, e.time)
<1>1. /\ WindowFor(live, e.time) \in Places
      /\ live.spans[WindowFor(live, e.time)].from <= e.time
  BY WindowExists DEF Placeable, Within
<1>2. live.spans[WindowFor(live, e.time)].from \in Nat /\ e.time \in Nat /\ e \in PlatformEvent
  BY <1>1, SpansOfRun
<1>3. e.time - live.spans[WindowFor(live, e.time)].from \in Nat
  BY <1>1, <1>2
<1> QED
  BY <1>1, <1>2, <1>3 DEF Document, DocumentType

\* The one search covers every window.
LEMMA SpanCovers ==
    ASSUME NEW live \in LiveRun, NEW time \in Nat, WindowsOf(live, time) # {}
    PROVE  Within(time, SpanOf(live))
<1> DEFINE starts == {live.spans[t].from : t \in DOMAIN live.spans}
           ends == {live.spans[t].to : t \in DOMAIN live.spans}
<1>1. PICK t \in Places : Within(time, live.spans[t])
  BY WindowExists
<1>2. /\ live.spans[t].from \in starts /\ live.spans[t].to \in ends
      /\ starts \subseteq Nat /\ ends \subseteq Nat
  BY SpansOfRun
<1>3. Min(starts) \in Nat /\ Min(starts) <= live.spans[t].from
  <2>0. starts # {}
    BY <1>2
  <2>1. 0 \in Int /\ starts \subseteq Int /\ \A x \in starts : 0 <= x
    BY <1>2
  <2> HIDE DEF starts
  <2> QED
    BY <1>2, <2>0, <2>1, MinIsLeast
<1>4. Max(ends) \in Nat /\ live.spans[t].to <= Max(ends)
  <2> DEFINE last == [u \in Places |-> live.spans[u].to]
  <2>1. ends = {last[u] : u \in Places} /\ DOMAIN last = Places
    BY SpansOfRun
  <2>2. IsFiniteSet(ends)
    <3> HIDE DEF ends, last
    <3> QED
      BY <2>1, PlacesAreFinite, ImageIsFinite
  <2>3. ends \subseteq Int
    BY <1>2
  <2> HIDE DEF ends
  <2> QED
    BY <1>2, <2>2, <2>3, MaxIsLargest
<1>5. SpanOf(live).from = Min(starts) /\ SpanOf(live).to = Max(ends)
  BY DEF SpanOf
<1>6. live.spans[t].from <= time /\ time <= live.spans[t].to
      /\ live.spans[t].from \in Nat /\ live.spans[t].to \in Nat
  BY <1>1, SpansOfRun DEF Within
<1> HIDE DEF starts, ends
<1> QED
  BY <1>3, <1>4, <1>5, <1>6 DEF Within

\* A list of all elements of a finite set.
LEMMA NewestFirstLists ==
    ASSUME NEW S, IsFiniteSet(S), NEW placed \in NewestFirst(S)
    PROVE  /\ placed \in Seq(S)
           /\ \A e \in S : \E i \in DOMAIN placed : placed[i] = e
<1> DEFINE D == 1..Cardinality(S)
<1>1. Cardinality(S) \in Nat
  BY FS_CardinalityType
<1>2. placed \in [D -> S] /\ \A i, j \in D : i # j => placed[i] # placed[j]
  BY DEF NewestFirst, SetToSeqs
<1>3. Cardinality(D) = Cardinality(S)
  BY <1>1, FS_Interval
<1>4. placed \in Injection(D, S)
  BY <1>2 DEF Injection, IsInjective
<1> HIDE DEF D
<1>5. placed \in Surjection(D, S)
  BY <1>3, <1>4, FS_Injection
<1>6. placed \in Seq(S)
  BY <1>1, <1>2 DEF D
<1> QED
  BY <1>2, <1>5, <1>6 DEF Surjection

---------------------------------------------------------------------------
(* The order of a corpus *)

\* The documents of a test come by their offsets.
InOrder(documents) ==
    \A i, j \in DOMAIN documents :
        i < j /\ documents[i].test = documents[j].test =>
            documents[i].offset <= documents[j].offset

\* To precede is a strict total order.
LEMMA PrecedesIsOrder ==
    ASSUME NEW documents \in Seq(DocumentType)
    PROVE  LET D == DOMAIN documents
           IN  /\ \A i \in D : ~Precedes(documents, i, i)
               /\ \A i, j, k \in D : Precedes(documents, i, j) /\ Precedes(documents, j, k) =>
                                         Precedes(documents, i, k)
               /\ \A i, j \in D : i # j => Precedes(documents, i, j) \/ Precedes(documents, j, i)
<1> DEFINE D == DOMAIN documents
<1>1. D \subseteq Nat
  OBVIOUS
<1>2. \A i \in D : /\ documents[i].test \in Places /\ documents[i].offset \in Int
                   /\ Rank(documents[i].test) \in Nat
  <2>1. \A i \in D : documents[i] \in DocumentType
    OBVIOUS
  <2> QED
    BY <2>1, RankOfPlace DEF DocumentType
<1>3. \A i, j \in D : Rank(documents[i].test) = Rank(documents[j].test) =>
                        documents[i].test = documents[j].test
  <2> SUFFICES ASSUME NEW i \in D, NEW j \in D, Rank(documents[i].test) = Rank(documents[j].test)
               PROVE  documents[i].test = documents[j].test
    OBVIOUS
  <2>1. /\ TestNames[Rank(documents[i].test)] = documents[i].test
        /\ TestNames[Rank(documents[j].test)] = documents[j].test
    BY <1>2, RankOfPlace
  <2> QED
    BY <2>1
<1> HIDE DEF D
<1>4. \A i \in D : ~Precedes(documents, i, i)
  <2> SUFFICES ASSUME NEW i \in D PROVE ~Precedes(documents, i, i)
    OBVIOUS
  <2>1. PICK o \in Int, k \in Nat : o = documents[i].offset /\ k = Rank(documents[i].test)
    BY <1>2
  <2>2. i \in Int /\ ~(i < i) /\ ~(o < o) /\ ~(k < k)
    BY <1>1, <2>1
  <2> QED
    BY <2>1, <2>2, Zenon DEF Precedes
<1>5. ASSUME NEW i \in D, NEW j \in D, Precedes(documents, i, j)
      PROVE  \/ Rank(documents[i].test) < Rank(documents[j].test)
             \/ /\ documents[i].test = documents[j].test
                /\ documents[i].offset <= documents[j].offset
  BY <1>2, <1>5 DEF Precedes
<1>6. ASSUME NEW i \in D, NEW j \in D, NEW k \in D,
             Precedes(documents, i, j), Precedes(documents, j, k)
      PROVE  Precedes(documents, i, k)
  <2>1. PICK a, b, c : /\ a = documents[i] /\ b = documents[j] /\ c = documents[k]
    OBVIOUS
  <2>2. /\ Rank(a.test) < Rank(b.test) \/ (a.test = b.test /\ a.offset <= b.offset)
        /\ Rank(b.test) < Rank(c.test) \/ (b.test = c.test /\ b.offset <= c.offset)
    BY <1>6, <1>5, <2>1
  <2>3. CASE Rank(a.test) < Rank(c.test)
    BY <2>1, <2>3 DEF Precedes
  <2>4. CASE ~(Rank(a.test) < Rank(c.test))
    <3>1. a.test = b.test /\ b.test = c.test
      BY <1>2, <2>1, <2>2, <2>4
    <3>2. /\ a.offset < b.offset \/ (a.offset = b.offset /\ i < j)
          /\ b.offset < c.offset \/ (b.offset = c.offset /\ j < k)
      BY <1>2, <1>6, <2>1, <3>1 DEF Precedes
    <3>3. a.offset < c.offset \/ (a.offset = c.offset /\ i < k)
      BY SMTT(20), <1>1, <1>2, <2>1, <3>2
    <3> QED
      BY <2>1, <3>1, <3>3 DEF Precedes
  <2> QED
    BY <2>3, <2>4
<1>7. ASSUME NEW i \in D, NEW j \in D, i # j
      PROVE  Precedes(documents, i, j) \/ Precedes(documents, j, i)
  BY <1>1, <1>2, <1>3, <1>7 DEF Precedes
<1> QED
  BY <1>4, <1>6, <1>7 DEF D

\* How many documents precede the i-th.
Standing(documents, i) == Cardinality({j \in DOMAIN documents : Precedes(documents, j, i)})

LEMMA StandingsDiffer ==
    ASSUME NEW documents \in Seq(DocumentType), NEW i \in DOMAIN documents,
           NEW j \in DOMAIN documents, Precedes(documents, i, j)
    PROVE  Standing(documents, i) < Standing(documents, j)
<1> DEFINE D == DOMAIN documents
           A == {k \in D : Precedes(documents, k, i)}
           B == {k \in D : Precedes(documents, k, j)}
<1>1. IsFiniteSet(D)
  <2>1. Len(documents) \in Nat /\ D = 1..Len(documents)
    OBVIOUS
  <2> QED
    BY <2>1, FS_Interval
<1>2. IsFiniteSet(B) /\ IsFiniteSet(A)
  BY <1>1, FS_Subset
<1>3. A \subseteq B /\ i \in B /\ i \notin A
  BY PrecedesIsOrder
<1>4. Cardinality(A) \in Nat /\ Cardinality(B) \in Nat
  BY <1>2, FS_CardinalityType
<1>5. Standing(documents, i) = Cardinality(A) /\ Standing(documents, j) = Cardinality(B)
  BY DEF Standing
<1> HIDE DEF A, B
<1>6. Cardinality(A) <= Cardinality(B) /\ Cardinality(A) # Cardinality(B)
  BY <1>2, <1>3, FS_Subset
<1> QED
  BY <1>4, <1>5, <1>6

\* Every place is taken, once.
LEMMA StandingsTaken ==
    ASSUME NEW documents \in Seq(DocumentType)
    PROVE  /\ \A i \in DOMAIN documents : Standing(documents, i) + 1 \in DOMAIN documents
           /\ \A n \in DOMAIN documents : \E i \in DOMAIN documents : Standing(documents, i) = n - 1
           /\ \A i, j \in DOMAIN documents : Standing(documents, i) = Standing(documents, j) => i = j
<1> DEFINE D == DOMAIN documents
           f == [i \in D |-> Standing(documents, i) + 1]
<1>1. Len(documents) \in Nat /\ D = 1..Len(documents)
  OBVIOUS
<1>2. IsFiniteSet(D) /\ Cardinality(D) = Len(documents)
  BY SMTT(20), <1>1, FS_Interval
<1>3. ASSUME NEW i \in D PROVE Standing(documents, i) \in Nat /\ Standing(documents, i) + 1 \in D
  <2> DEFINE A == {k \in D : Precedes(documents, k, i)}
  <2>1. A \subseteq D \ {i}
    BY PrecedesIsOrder
  <2>2. IsFiniteSet(D \ {i}) /\ Cardinality(D \ {i}) = Len(documents) - 1
    BY <1>2, FS_RemoveElement
  <2>3. Standing(documents, i) = Cardinality(A)
    BY DEF Standing
  <2> HIDE DEF A
  <2>4. IsFiniteSet(A) /\ Cardinality(A) <= Len(documents) - 1
    BY <2>1, <2>2, FS_Subset
  <2>5. Cardinality(A) \in Nat
    BY <2>4, FS_CardinalityType
  <2> QED
    BY <1>1, <2>3, <2>4, <2>5
<1>4. ASSUME NEW i \in D, NEW j \in D, Standing(documents, i) = Standing(documents, j) PROVE i = j
  <2> SUFFICES ASSUME i # j PROVE FALSE
    OBVIOUS
  <2>1. Precedes(documents, i, j) \/ Precedes(documents, j, i)
    BY PrecedesIsOrder
  <2>2. Standing(documents, i) < Standing(documents, j) \/ Standing(documents, j) < Standing(documents, i)
    BY <2>1, StandingsDiffer
  <2> QED
    BY <1>3, <1>4, <2>2
<1>5. f \in Injection(D, D)
  <2>1. f \in [D -> D]
    BY <1>3
  <2>2. \A i, j \in D : f[i] = f[j] => i = j
    <3> SUFFICES ASSUME NEW i \in D, NEW j \in D, f[i] = f[j] PROVE i = j
      OBVIOUS
    <3>1. Standing(documents, i) + 1 = Standing(documents, j) + 1
      OBVIOUS
    <3>2. Standing(documents, i) \in Nat /\ Standing(documents, j) \in Nat
      BY <1>3
    <3>3. Standing(documents, i) = Standing(documents, j)
      BY <3>1, <3>2
    <3> QED
      BY <1>4, <3>3
  <2> HIDE DEF f
  <2> QED
    BY <2>1, <2>2 DEF Injection, IsInjective
<1>6. f \in Surjection(D, D)
  <2> HIDE DEF f, D
  <2> QED
    BY <1>2, <1>5, FS_Injection
<1>7. ASSUME NEW n \in D PROVE \E i \in D : Standing(documents, i) = n - 1
  <2>1. PICK i \in D : f[i] = n
    BY <1>6 DEF Surjection
  <2>2. Standing(documents, i) + 1 = n /\ Standing(documents, i) \in Nat
    BY <1>3, <2>1
  <2>3. Standing(documents, i) = n - 1
    BY <2>2
  <2> QED
    BY <2>3
<1> QED
  BY <1>3, <1>4, <1>7

\* Sorting keeps the documents and puts them in order.
LEMMA SortedIsInOrder ==
    ASSUME NEW documents \in Seq(DocumentType)
    PROVE  /\ Sorted(documents) \in Seq(DocumentType)
           /\ DOMAIN Sorted(documents) = DOMAIN documents
           /\ \A n \in DOMAIN documents : \E i \in DOMAIN documents :
                 Sorted(documents)[n] = documents[i]
           /\ \A i \in DOMAIN documents : \E n \in DOMAIN documents :
                 Sorted(documents)[n] = documents[i]
           /\ InOrder(Sorted(documents))
<1> DEFINE D == DOMAIN documents
           At(n) == CHOOSE i \in D : Standing(documents, i) = n - 1
           sorted == Sorted(documents)
<1>1. Len(documents) \in Nat /\ D = 1..Len(documents) /\ \A i \in D : documents[i] \in DocumentType
  OBVIOUS
<1>2. sorted = [n \in D |-> documents[At(n)]]
  BY DEF Sorted, Standing
<1>3. \A n \in D : At(n) \in D /\ Standing(documents, At(n)) = n - 1
  BY StandingsTaken
<1>4. ASSUME NEW i \in D PROVE \E n \in D : At(n) = i
  <2> DEFINE n == Standing(documents, i) + 1
  <2>1. n \in D
    BY StandingsTaken
  <2>2. Standing(documents, At(n)) = n - 1 /\ At(n) \in D
    BY <1>3, <2>1
  <2>3. Standing(documents, i) = n - 1
    <3>1. Standing(documents, i) + 1 \in Int
      BY <1>1, <2>1
    <3>2. Standing(documents, i) \in Nat
      <4>1. IsFiniteSet(D)
        BY <1>1, FS_Interval
      <4>2. IsFiniteSet({j \in D : Precedes(documents, j, i)})
        BY <4>1, FS_Subset
      <4> QED
        BY <4>2, FS_CardinalityType DEF Standing
    <3> QED
      BY <3>2
  <2>4. At(n) = i
    <3> HIDE DEF At
    <3> QED
      BY <2>2, <2>3, StandingsTaken
  <2> QED
    BY <2>1, <2>4
<1> HIDE DEF At
<1>5. DOMAIN sorted = D /\ \A n \in D : sorted[n] = documents[At(n)]
  BY <1>2
<1>6. sorted \in Seq(DocumentType)
  BY <1>1, <1>2, <1>3
<1>7. InOrder(sorted)
  <2> SUFFICES ASSUME NEW m \in D, NEW n \in D, m < n, sorted[m].test = sorted[n].test
               PROVE  sorted[m].offset <= sorted[n].offset
    BY <1>5 DEF InOrder
  <2> DEFINE i == At(m)
             j == At(n)
  <2>1. /\ i \in D /\ j \in D /\ Standing(documents, i) = m - 1 /\ Standing(documents, j) = n - 1
        /\ sorted[m] = documents[i] /\ sorted[n] = documents[j]
        /\ m \in Nat /\ n \in Nat
    BY <1>1, <1>3, <1>5
  <2> HIDE DEF i, j, sorted
  <2>2. i # j /\ ~Precedes(documents, j, i)
    <3>1. ~(Standing(documents, j) < Standing(documents, i)) /\ Standing(documents, i) # Standing(documents, j)
      BY <2>1
    <3> QED
      BY <2>1, <3>1, StandingsDiffer
  <2>3. Precedes(documents, i, j)
    BY <2>1, <2>2, PrecedesIsOrder
  <2>4. documents[i].test = documents[j].test
    BY <2>1
  <2>5. /\ documents[i].offset \in Int /\ documents[j].offset \in Int
        /\ Rank(documents[i].test) \in Nat
    <3>1. documents[i] \in DocumentType /\ documents[j] \in DocumentType
      BY <1>1, <2>1
    <3>2. documents[i].offset \in Nat /\ documents[j].offset \in Nat
          /\ documents[i].test \in Places
      BY <3>1 DEF DocumentType
    <3> QED
      BY <3>2, RankOfPlace
  <2>6. documents[i].offset <= documents[j].offset
    <3>1. PICK o \in Int, q \in Int, k \in Nat :
             o = documents[i].offset /\ q = documents[j].offset /\ k = Rank(documents[i].test)
      BY <2>5
    <3>2. ~(k < k)
      OBVIOUS
    <3>3. o < q \/ o = q
      BY <2>3, <2>4, <3>1, <3>2, Zenon DEF Precedes
    <3> QED
      BY <3>1, <3>3
  <2> QED
    BY <2>1, <2>6
<1> QED
  BY <1>3, <1>4, <1>5, <1>6, <1>7

---------------------------------------------------------------------------
(* What is loaded *)

\* f is the recursive function of the definition of FlattenSeq, up to last.
Flat(seqs, f, last) ==
    f = [i \in 1..last |-> IF i = 1 THEN seqs[i] ELSE f[i - 1] \o seqs[i]]

LEMMA FlatExists ==
    ASSUME NEW seqs, NEW last \in Nat
    PROVE  \E f : Flat(seqs, f, last)
<1> DEFINE S == {m \in Nat : \E f : Flat(seqs, f, m)}
<1>1. 0 \in S
  <2>1. Flat(seqs, [i \in 1..0 |-> <<>>], 0)
    BY DEF Flat
  <2> QED
    BY <2>1
<1>2. ASSUME NEW m \in Nat, m \in S PROVE m + 1 \in S
  <2>1. PICK f : Flat(seqs, f, m)
    BY <1>2
  <2> DEFINE new == IF m + 1 = 1 THEN seqs[m + 1] ELSE f[m] \o seqs[m + 1]
             g == [i \in 1..(m + 1) |-> IF i = m + 1 THEN new ELSE f[i]]
  <2>2. ASSUME NEW i \in 1..(m + 1)
        PROVE  g[i] = IF i = 1 THEN seqs[i] ELSE g[i - 1] \o seqs[i]
    <3>1. CASE i = m + 1
      <4>1. g[i] = new
        BY <3>1
      <4>2. CASE i = 1
        BY <3>1, <4>1, <4>2
      <4>3. CASE i # 1
        <5>1. i - 1 \in 1..(m + 1) /\ i - 1 # m + 1 /\ i - 1 = m
          BY <3>1, <4>3
        <5>2. g[i - 1] = f[m]
          BY <5>1
        <5> QED
          BY <3>1, <4>1, <4>3, <5>2
      <4> QED
        BY <4>2, <4>3
    <3>2. CASE i # m + 1
      <4>1. i \in 1..m
        BY <3>2
      <4>2. f[i] = IF i = 1 THEN seqs[i] ELSE f[i - 1] \o seqs[i]
        BY <2>1, <4>1 DEF Flat
      <4>3. g[i] = f[i]
        BY <3>2
      <4>4. i # 1 => g[i - 1] = f[i - 1]
        <5>1. i # 1 => i - 1 \in 1..(m + 1) /\ i - 1 # m + 1
          BY <4>1
        <5> QED
          BY <5>1
      <4> QED
        BY <4>2, <4>3, <4>4
    <3> QED
      BY <3>1, <3>2
  <2>3. DOMAIN g = 1..(m + 1) /\ g = [i \in DOMAIN g |-> g[i]]
    OBVIOUS
  <2> HIDE DEF g
  <2>4. g = [i \in 1..(m + 1) |-> IF i = 1 THEN seqs[i] ELSE g[i - 1] \o seqs[i]]
    BY <2>2, <2>3
  <2>5. Flat(seqs, g, m + 1)
    BY <2>4 DEF Flat
  <2> QED
    BY <2>5
<1>3. last \in S
  <2> HIDE DEF S
  <2>1. Nat \subseteq S
    BY <1>1, <1>2, Climbs
  <2> QED
    BY <2>1
<1> QED
  BY <1>3

LEMMA FlattenIsFlat ==
    ASSUME NEW seqs, Len(seqs) \in Nat, Len(seqs) # 0
    PROVE  \E f : Flat(seqs, f, Len(seqs)) /\ FlattenSeq(seqs) = f[Len(seqs)]
<1> DEFINE f == CHOOSE g : Flat(seqs, g, Len(seqs))
<1>1. Flat(seqs, f, Len(seqs))
  BY FlatExists
<1>2. FlattenSeq(seqs) = f[Len(seqs)]
  BY Zenon DEF FlattenSeq, Flat
<1> QED
  BY <1>1, <1>2

LEMMA FlattenOfOne ==
    ASSUME NEW seqs, Len(seqs) = 1
    PROVE  FlattenSeq(seqs) = seqs[1]
<1>0. Len(seqs) \in Nat /\ Len(seqs) # 0
  OBVIOUS
<1>1. PICK f : Flat(seqs, f, Len(seqs)) /\ FlattenSeq(seqs) = f[Len(seqs)]
  BY <1>0, FlattenIsFlat
<1>2. 1 \in 1..Len(seqs)
  OBVIOUS
<1> QED
  BY <1>1, <1>2 DEF Flat

\* Concatenation invents nothing.
LEMMA FlattenElements ==
    ASSUME NEW S, NEW seqs \in Seq(Seq(S))
    PROVE  /\ FlattenSeq(seqs) \in Seq(S)
           /\ \A i \in DOMAIN FlattenSeq(seqs) :
                 \E k \in DOMAIN seqs : \E j \in DOMAIN seqs[k] :
                     FlattenSeq(seqs)[i] = seqs[k][j]
<1>0. Len(seqs) \in Nat /\ DOMAIN seqs = 1..Len(seqs) /\ \A k \in DOMAIN seqs : seqs[k] \in Seq(S)
  OBVIOUS
<1>1. CASE Len(seqs) = 0
  <2>1. seqs = <<>> /\ FlattenSeq(seqs) = seqs
    BY <1>1 DEF FlattenSeq
  <2>2. FlattenSeq(seqs) = <<>>
    BY <2>1
  <2>3. <<>> \in Seq(S) /\ DOMAIN <<>> = {}
    OBVIOUS
  <2> QED
    BY <2>2, <2>3, Zenon
<1>2. CASE Len(seqs) # 0
  <2> DEFINE Good(t) == /\ t \in Seq(S)
                        /\ \A i \in DOMAIN t :
                              \E k \in DOMAIN seqs : \E j \in DOMAIN seqs[k] : t[i] = seqs[k][j]
  <2>1. PICK f : Flat(seqs, f, Len(seqs)) /\ FlattenSeq(seqs) = f[Len(seqs)]
    BY <1>0, <1>2, FlattenIsFlat
  <2> DEFINE T == {n \in Nat : n + 1 <= Len(seqs) => Good(f[n + 1])}
  <2>2. 0 \in T
    <3>1. 1 \in DOMAIN seqs /\ f[1] = seqs[1]
      BY <1>0, <1>2, <2>1 DEF Flat
    <3> QED
      BY <1>0, <3>1
  <2>3. ASSUME NEW n \in Nat, n \in T PROVE n + 1 \in T
    <3> SUFFICES ASSUME (n + 1) + 1 <= Len(seqs) PROVE Good(f[(n + 1) + 1])
      OBVIOUS
    <3> DEFINE m == (n + 1) + 1
               t == f[n + 1]
               u == seqs[m]
    <3>1. m \in DOMAIN seqs /\ m # 1 /\ m - 1 = n + 1 /\ n + 1 <= Len(seqs)
      BY <1>0
    <3>2. f[m] = t \o u
      BY <1>0, <2>1, <3>1 DEF Flat
    <3>3. Good(t) /\ u \in Seq(S)
      BY <1>0, <2>3, <3>1
    <3>4. /\ Len(t) \in Nat /\ Len(u) \in Nat /\ t \in Seq(S) /\ u \in Seq(S)
      BY <3>3
    <3> HIDE DEF t, u, m
    <3>5. /\ t \o u \in Seq(S) /\ DOMAIN (t \o u) = 1..(Len(t) + Len(u))
          /\ \A i \in 1..(Len(t) + Len(u)) : (t \o u)[i] = IF i <= Len(t) THEN t[i] ELSE u[i - Len(t)]
      BY <3>4
    <3>6. ASSUME NEW i \in 1..(Len(t) + Len(u))
          PROVE  \E k \in DOMAIN seqs : \E j \in DOMAIN seqs[k] : (t \o u)[i] = seqs[k][j]
      <4>1. CASE i <= Len(t)
        <5>1. i \in DOMAIN t /\ (t \o u)[i] = t[i]
          BY <3>4, <3>5, <4>1
        <5> QED
          BY <3>3, <5>1
      <4>2. CASE ~(i <= Len(t))
        <5>1. i - Len(t) \in DOMAIN u /\ (t \o u)[i] = u[i - Len(t)]
          BY <3>4, <3>5, <4>2
        <5>2. i - Len(t) \in DOMAIN seqs[m] /\ (t \o u)[i] = seqs[m][i - Len(t)]
          BY <5>1 DEF u
        <5> QED
          BY <3>1, <5>2
      <4> QED
        BY <4>1, <4>2
    <3>7. \A i \in DOMAIN (t \o u) :
             \E k \in DOMAIN seqs : \E j \in DOMAIN seqs[k] : (t \o u)[i] = seqs[k][j]
      BY <3>5, <3>6
    <3>8. Good(t \o u)
      BY <3>5, <3>7, Zenon
    <3> HIDE DEF Good
    <3>9. Good(f[m])
      BY <3>2, <3>8
    <3> QED
      BY <3>9 DEF m
  <2>4. Len(seqs) - 1 \in T
    <3> HIDE DEF T
    <3>1. Nat \subseteq T /\ Len(seqs) - 1 \in Nat
      BY <1>0, <1>2, <2>2, <2>3, Climbs
    <3> QED
      BY <3>1
  <2>5. (Len(seqs) - 1) + 1 = Len(seqs)
    BY <1>0
  <2>6. Good(f[Len(seqs)])
    BY <1>0, <2>4, <2>5
  <2> QED
    BY <2>1, <2>6
<1> QED
  BY <1>1, <1>2

---------------------------------------------------------------------------
(* What a corpus holds *)

\* Documents of events of a live run, each in its place.
Evident(live, documents) ==
    /\ documents \in Seq(DocumentType)
    /\ \A i \in DOMAIN documents :
          \E e \in live.events : Placeable(live, e) /\ documents[i] = Document(live, e)

\* What a source should have brought is there.
Brought(live, source, documents) ==
    \A e \in Covered(live, source) :
        Placeable(live, e) => \E i \in DOMAIN documents : documents[i].event = e

LEMMA EvidentJoin ==
    ASSUME NEW live, NEW s, NEW t, Evident(live, s), Evident(live, t)
    PROVE  /\ Evident(live, s \o t)
           /\ \A source : Brought(live, source, s) \/ Brought(live, source, t) =>
                 Brought(live, source, s \o t)
<1>1. /\ s \in Seq(DocumentType) /\ t \in Seq(DocumentType)
      /\ Len(s) \in Nat /\ Len(t) \in Nat /\ DOMAIN s = 1..Len(s) /\ DOMAIN t = 1..Len(t)
  BY DEF Evident
<1>2. /\ s \o t \in Seq(DocumentType) /\ DOMAIN (s \o t) = 1..(Len(s) + Len(t))
      /\ \A i \in 1..(Len(s) + Len(t)) : (s \o t)[i] = IF i <= Len(s) THEN s[i] ELSE t[i - Len(s)]
  BY <1>1
<1>3. ASSUME NEW i \in 1..(Len(s) + Len(t))
      PROVE  \/ \E j \in DOMAIN s : (s \o t)[i] = s[j]
             \/ \E j \in DOMAIN t : (s \o t)[i] = t[j]
  <2>1. CASE i <= Len(s)
    <3>1. i \in DOMAIN s /\ (s \o t)[i] = s[i]
      BY <1>1, <1>2, <2>1
    <3> QED
      BY <3>1
  <2>2. CASE ~(i <= Len(s))
    <3>1. i - Len(s) \in DOMAIN t /\ (s \o t)[i] = t[i - Len(s)]
      BY <1>1, <1>2, <2>2
    <3> QED
      BY <3>1
  <2> QED
    BY <2>1, <2>2
<1>4. Evident(live, s \o t)
  BY <1>2, <1>3 DEF Evident
<1>5. \A j \in DOMAIN s : j \in DOMAIN (s \o t) /\ (s \o t)[j] = s[j]
  BY <1>1, <1>2
<1>6. \A j \in DOMAIN t : Len(s) + j \in DOMAIN (s \o t) /\ (s \o t)[Len(s) + j] = t[j]
  <2> SUFFICES ASSUME NEW j \in DOMAIN t
               PROVE  Len(s) + j \in DOMAIN (s \o t) /\ (s \o t)[Len(s) + j] = t[j]
    OBVIOUS
  <2>1. j \in Nat /\ 1 <= j /\ j <= Len(t)
    BY <1>1
  <2>2. Len(s) + j \in 1..(Len(s) + Len(t)) /\ ~(Len(s) + j <= Len(s)) /\ (Len(s) + j) - Len(s) = j
    BY <1>1, <2>1
  <2> QED
    BY <1>2, <2>2
<1>7. ASSUME NEW source, Brought(live, source, s) \/ Brought(live, source, t)
      PROVE  Brought(live, source, s \o t)
  <2> SUFFICES ASSUME NEW e \in Covered(live, source), Placeable(live, e)
               PROVE  \E i \in DOMAIN (s \o t) : (s \o t)[i].event = e
    BY DEF Brought
  <2>1. \/ \E i \in DOMAIN s : s[i].event = e
        \/ \E i \in DOMAIN t : t[i].event = e
    BY <1>7 DEF Brought
  <2> QED
    BY <1>5, <1>6, <2>1
<1> QED
  BY <1>4, <1>7

LEMMA EvidentPart ==
    ASSUME NEW live, NEW s, Evident(live, s), InOrder(s), NEW k \in 0..(Len(s) - 1)
    PROVE  Evident(live, SubSeq(s, 1, k)) /\ InOrder(SubSeq(s, 1, k))
<1>1. s \in Seq(DocumentType) /\ Len(s) \in Nat /\ DOMAIN s = 1..Len(s) /\ k \in Nat /\ k <= Len(s)
  BY DEF Evident
<1>2. /\ SubSeq(s, 1, k) \in Seq(DocumentType) /\ DOMAIN SubSeq(s, 1, k) = 1..k
      /\ \A i \in 1..k : SubSeq(s, 1, k)[i] = s[i]
  BY <1>1
<1>3. \A i \in 1..k : i \in DOMAIN s
  BY <1>1
<1>4. Evident(live, SubSeq(s, 1, k))
  BY <1>2, <1>3 DEF Evident
<1>5. InOrder(SubSeq(s, 1, k))
  BY <1>2, <1>3 DEF InOrder
<1> QED
  BY <1>4, <1>5

LEMMA EvidentSorted ==
    ASSUME NEW live, NEW s, Evident(live, s)
    PROVE  /\ Evident(live, Sorted(s)) /\ InOrder(Sorted(s))
           /\ \A source : Brought(live, source, s) => Brought(live, source, Sorted(s))
<1>1. s \in Seq(DocumentType)
  BY DEF Evident
<1>2. /\ Sorted(s) \in Seq(DocumentType) /\ DOMAIN Sorted(s) = DOMAIN s
      /\ \A n \in DOMAIN s : \E i \in DOMAIN s : Sorted(s)[n] = s[i]
      /\ \A i \in DOMAIN s : \E n \in DOMAIN s : Sorted(s)[n] = s[i]
      /\ InOrder(Sorted(s))
  BY <1>1, SortedIsInOrder
<1>3. Evident(live, Sorted(s))
  BY <1>2 DEF Evident
<1>4. ASSUME NEW source, Brought(live, source, s) PROVE Brought(live, source, Sorted(s))
  <2> SUFFICES ASSUME NEW e \in Covered(live, source), Placeable(live, e)
               PROVE  \E n \in DOMAIN s : Sorted(s)[n].event = e
    BY <1>2 DEF Brought
  <2>1. PICK i \in DOMAIN s : s[i].event = e
    BY <1>4 DEF Brought
  <2>2. PICK n \in DOMAIN s : Sorted(s)[n] = s[i]
    BY <1>2
  <2> QED
    BY <2>1, <2>2
<1> QED
  BY <1>2, <1>3, <1>4

\* What one answer brings: documents, and all of them unless it was cut off.
LEMMA AnswerBrings ==
    ASSUME NEW live \in LiveRun, IsFiniteSet(live.events), NEW source,
           NEW page \in Pages(Covered(live, source)),
           NEW placed \in NewestFirst({e \in page : Placeable(live, e)})
    PROVE  LET fresh == [i \in DOMAIN placed |-> Document(live, placed[i])]
           IN  /\ Evident(live, fresh)
               /\ ~Truncated(Covered(live, source)) => Brought(live, source, fresh)
<1> DEFINE found == Covered(live, source)
           chosen == {e \in page : Placeable(live, e)}
           fresh == [i \in DOMAIN placed |-> Document(live, placed[i])]
<1>1. found \subseteq live.events /\ IsFiniteSet(found)
  BY FS_Subset DEF Covered
<1>2. page \subseteq found /\ (Cardinality(found) <= Limit => page = found)
  BY DEF Pages, kSubset
<1>3. IsFiniteSet(chosen)
  <2>1. chosen \subseteq live.events
    BY <1>1, <1>2
  <2> HIDE DEF chosen
  <2> QED
    BY <2>1, FS_Subset
<1>4. placed \in Seq(chosen) /\ \A e \in chosen : \E i \in DOMAIN placed : placed[i] = e
  BY <1>3, NewestFirstLists
<1>5. \A i \in DOMAIN placed : /\ placed[i] \in live.events /\ Placeable(live, placed[i])
                              /\ fresh[i] = Document(live, placed[i])
                              /\ fresh[i] \in DocumentType /\ fresh[i].event = placed[i]
  <2> SUFFICES ASSUME NEW i \in DOMAIN placed
               PROVE  /\ placed[i] \in live.events /\ Placeable(live, placed[i])
                      /\ fresh[i] = Document(live, placed[i])
                      /\ fresh[i] \in DocumentType /\ fresh[i].event = placed[i]
    OBVIOUS
  <2>1. placed[i] \in chosen
    BY <1>4
  <2>2. placed[i] \in live.events /\ Placeable(live, placed[i])
    BY <1>1, <1>2, <2>1
  <2>3. Document(live, placed[i]) \in DocumentType /\ Document(live, placed[i]).event = placed[i]
    BY <2>2, DocumentFields
  <2> QED
    BY <2>2, <2>3
<1>6. Evident(live, fresh)
  <2>1. Len(placed) \in Nat /\ DOMAIN placed = 1..Len(placed) /\ DOMAIN fresh = DOMAIN placed
    BY <1>4
  <2>2. fresh \in Seq(DocumentType)
    BY <1>5, <2>1
  <2>3. \A i \in DOMAIN fresh :
           \E e \in live.events : Placeable(live, e) /\ fresh[i] = Document(live, e)
    BY <1>5, <2>1
  <2> HIDE DEF fresh
  <2> QED
    BY <2>2, <2>3 DEF Evident
<1>7. ASSUME ~Truncated(found) PROVE Brought(live, source, fresh)
  <2>1. Cardinality(found) <= Limit
    <3>1. Cardinality(found) \in Nat /\ Limit \in Nat /\ CountsAll \in BOOLEAN
      BY <1>1, FS_CardinalityType, RecordingAssumption
    <3>2. IF CountsAll THEN ~(Cardinality(found) > Limit) ELSE ~(Cardinality(found) >= Limit)
      BY <1>7, Zenon DEF Truncated
    <3> QED
      BY <3>1, <3>2
  <2>2. \A e \in found : Placeable(live, e) => \E i \in DOMAIN fresh : fresh[i].event = e
    BY <1>2, <1>4, <1>5, <2>1
  <2> HIDE DEF fresh
  <2> QED
    BY <2>2 DEF Brought
<1> QED
  BY <1>6, <1>7

---------------------------------------------------------------------------
(* The invariant *)

\* The recorder's own state.
RecorderTypes ==
    /\ history \in Histories /\ run \in DOMAIN history
    /\ stage \in Stages
    /\ todo \in Seq(SourceIds) /\ docs \in Seq(DocumentType)
    /\ said \in [DOMAIN history -> SUBSET SourceIds]
    /\ ended \in [DOMAIN history -> Endings]
    /\ faults \in 0..MaxFaults /\ crashes \in 0..MaxCrashes

\* A source is still to be asked, reported, or has brought what it covers.
Caught(source) == \/ stage = "capture" /\ source \in Range(todo)
                  \/ source \in said[run]
                  \/ Brought(Current, source, docs)

Capturing ==
    stage # "over" =>
        /\ Evident(Current, docs)
        /\ \A source \in SourceIds : Caught(source)
        /\ stage \in {"write", "events"} => InOrder(docs)

\* What corpora hold: disk is a function, and each run that wrote one is over.
Holding(held) ==
    /\ held.manifest \in 0..run /\ held.torn \in BOOLEAN
    /\ held.of = Nobody => held.lines = <<>>
    /\ held.of # Nobody =>
          /\ held.of \in 1..run /\ (held.of < run \/ stage = "over")
          /\ Evident(history[held.of], held.lines) /\ InOrder(held.lines)
          /\ ended[held.of] = "recorded" =>
                \A source \in SourceIds \ said[held.of] :
                    Brought(history[held.of], source, held.lines)

Shelf == \A n \in Names :
    /\ disk[n] = [manifest |-> disk[n].manifest, of |-> disk[n].of, lines |-> disk[n].lines,
                  torn |-> disk[n].torn]
    /\ Holding(disk[n])

RecInv == EvidenceInv /\ RecorderTypes /\ Capturing /\ Shelf

LEMMA HistoryFacts ==
    ASSUME RecorderTypes
    PROVE  /\ history \in Seq(LiveRun) /\ Len(history) \in Nat /\ DOMAIN history = 1..Len(history)
           /\ run \in Nat /\ run \in 1..Len(history)
           /\ Current \in LiveRun /\ IsFiniteSet(Current.events) /\ Current.name \in Names
           /\ \A r \in 1..run : history[r] \in LiveRun
<1>1. /\ history \in Seq(LiveRun)
      /\ \A r \in DOMAIN history : IsFiniteSet(history[r].events)
  BY RecordingAssumption DEF RecorderTypes
<1>2. Len(history) \in Nat /\ DOMAIN history = 1..Len(history)
      /\ \A r \in DOMAIN history : history[r] \in LiveRun
  BY <1>1
<1>3. run \in 1..Len(history)
  BY <1>2 DEF RecorderTypes
<1>4. Current \in LiveRun /\ IsFiniteSet(Current.events)
  BY <1>1, <1>2, <1>3 DEF Current
<1>5. Current.name \in Names
  BY <1>4 DEF LiveRun
<1>6. \A r \in 1..run : r \in DOMAIN history
  BY <1>2, <1>3
<1> QED
  BY <1>1, <1>2, <1>3, <1>4, <1>5, <1>6

LEMMA NothingIsEvident ==
    ASSUME NEW live
    PROVE  Evident(live, <<>>) /\ InOrder(<<>>) /\ <<>> \in Seq(DocumentType)
BY DEF Evident, InOrder

LEMMA TodoElements ==
    ASSUME NEW q \in Seq(SourceIds)
    PROVE  /\ q # <<>> => /\ Head(q) \in SourceIds /\ Tail(q) \in Seq(SourceIds)
                          /\ Range(q) \subseteq Range(Tail(q)) \cup {Head(q)}
           /\ q = <<>> => Range(q) = {}
<1>1. Len(q) \in Nat /\ DOMAIN q = 1..Len(q) /\ \A n \in 1..Len(q) : q[n] \in SourceIds
  OBVIOUS
<1>2. ASSUME q # <<>> PROVE /\ Head(q) \in SourceIds /\ Tail(q) \in Seq(SourceIds)
                            /\ Range(q) \subseteq Range(Tail(q)) \cup {Head(q)}
  <2>1. /\ Head(q) = q[1] /\ Len(q) \in Nat \ {0} /\ DOMAIN Tail(q) = 1..(Len(q) - 1)
        /\ \A n \in 1..(Len(q) - 1) : Tail(q)[n] = q[n + 1]
    BY <1>2
  <2>2. ASSUME NEW n \in 1..Len(q) PROVE q[n] \in Range(Tail(q)) \cup {Head(q)}
    <3>1. CASE n = 1
      BY <2>1, <3>1
    <3>2. CASE n # 1
      <4>1. n - 1 \in 1..(Len(q) - 1) /\ (n - 1) + 1 = n
        BY <3>2
      <4>2. Tail(q)[n - 1] = q[n]
        BY <2>1, <4>1
      <4> QED
        BY <2>1, <4>1, <4>2 DEF Range
    <3> QED
      BY <3>1, <3>2
  <2>3. Head(q) \in SourceIds /\ Tail(q) \in Seq(SourceIds)
    BY <1>2
  <2> QED
    BY <1>1, <2>2, <2>3 DEF Range
<1>3. q = <<>> => Range(q) = {}
  BY DEF Range
<1> QED
  BY <1>2, <1>3

LEMMA RecStarts == RecInit => RecInv
<1> SUFFICES ASSUME RecInit PROVE RecInv
  OBVIOUS
<1>1. /\ history \in Histories /\ run = 1 /\ stage = "capture" /\ todo = Sources /\ docs = <<>>
      /\ said = [r \in DOMAIN history |-> {}] /\ ended = [r \in DOMAIN history |-> "none"]
      /\ disk = [n \in Names |-> NoCorpus] /\ faults = 0 /\ crashes = 0
  BY DEF RecInit
<1>2. /\ Sources \in Seq(SourceIds) /\ history \in Seq(LiveRun) /\ history # <<>>
      /\ MaxFaults \in Nat /\ MaxCrashes \in Nat
  BY <1>1, RecordingAssumption
<1>3. 1 \in DOMAIN history /\ Range(Sources) = SourceIds
  BY <1>2 DEF Range, SourceIds
<1>4. RecorderTypes
  <2>1. faults \in 0..MaxFaults /\ crashes \in 0..MaxCrashes
    BY <1>1, <1>2
  <2>2. said \in [DOMAIN history -> SUBSET SourceIds] /\ ended \in [DOMAIN history -> Endings]
    BY <1>1 DEF Endings
  <2> QED
    BY <1>1, <1>2, <1>3, <2>1, <2>2, NothingIsEvident DEF RecorderTypes, Stages
<1>5. Capturing
  BY <1>1, <1>3, NothingIsEvident DEF Capturing, Caught
<1>6. Shelf
  <2>1. ASSUME NEW n \in Names PROVE disk[n] = NoCorpus
    BY <1>1
  <2>2. /\ NoCorpus = [manifest |-> NoCorpus.manifest, of |-> NoCorpus.of,
                       lines |-> NoCorpus.lines, torn |-> NoCorpus.torn]
        /\ NoCorpus.manifest = 0 /\ NoCorpus.of = Nobody /\ NoCorpus.lines = <<>>
        /\ NoCorpus.torn = FALSE
    BY DEF NoCorpus, Nobody
  <2>3. Holding(NoCorpus)
    <3>1. NoCorpus.manifest \in 0..run
      BY <1>1, <2>2
    <3>2. NoCorpus.torn \in BOOLEAN
      BY <2>2
    <3> QED
      BY <2>2, <3>1, <3>2 DEF Holding
  <2> QED
    BY <2>1, <2>2, <2>3 DEF Shelf
<1> QED
  BY <1>4, <1>5, <1>6, EvidenceStarts DEF RecInv

---------------------------------------------------------------------------
(* Capturing *)

\* A step of the capture: the run goes on, the corpora stand.
CaptureFrame ==
    /\ stage \in {"capture", "write"} /\ stage' \in {"capture", "write", "events"}
    /\ UNCHANGED <<history, run, ended>>

LEMMA ShelfWhileCapturing ==
    ASSUME RecInv, CaptureFrame, disk' = disk,
           \A r \in DOMAIN history : r # run => said'[r] = said[r]
    PROVE  Shelf'
<1> SUFFICES ASSUME NEW n \in Names PROVE Holding(disk[n])'
  BY DEF RecInv, Shelf
<1>1. Holding(disk[n])
  BY DEF RecInv, Shelf
<1>2. run \in Nat /\ DOMAIN history = 1..Len(history) /\ run \in 1..Len(history)
      /\ Len(history) \in Nat
  BY HistoryFacts DEF RecInv
<1>3. UNCHANGED <<history, run, ended, disk>> /\ stage # "over"
  BY DEF CaptureFrame
<1>4. ASSUME disk[n].of # Nobody PROVE disk[n].of \in DOMAIN history /\ disk[n].of # run
  BY <1>1, <1>2, <1>3, <1>4 DEF Holding
<1>5. disk[n].of # Nobody => said'[disk[n].of] = said[disk[n].of]
  BY <1>4
<1> QED
  BY <1>1, <1>2, <1>3, <1>4, <1>5 DEF Holding

\* One source has been dealt with.
SourceStep ==
    /\ stage = "capture" /\ todo # <<>> /\ UNCHANGED <<history, run, stage, ended, disk, crashes>>
    /\ todo' = Tail(todo) /\ faults' \in 0..MaxFaults
    /\ Say(Asked) \/ UNCHANGED said
    /\ \E fresh : /\ Evident(Current, fresh) /\ docs' = docs \o fresh
                  /\ Asked \in said'[run] \/ Brought(Current, Asked, fresh)

LEMMA SourceStepKeeps == ASSUME RecInv, SourceStep PROVE RecInv'
<1>0. /\ stage = "capture" /\ stage' = stage /\ UNCHANGED <<history, run, ended, disk, crashes>>
      /\ todo # <<>> /\ todo' = Tail(todo) /\ faults' \in 0..MaxFaults /\ Current' = Current
  BY DEF SourceStep, Current
<1>1. PICK fresh : /\ Evident(Current, fresh) /\ docs' = docs \o fresh
                   /\ Asked \in said'[run] \/ Brought(Current, Asked, fresh)
  BY DEF SourceStep
<1>2. Evident(Current, docs) /\ \A source \in SourceIds : Caught(source)
  BY <1>0 DEF RecInv, Capturing
<1>3. /\ Evident(Current, docs')
      /\ \A source : Brought(Current, source, docs) \/ Brought(Current, source, fresh) =>
            Brought(Current, source, docs')
  BY <1>1, <1>2, EvidentJoin
<1>4. /\ Asked \in SourceIds /\ todo' \in Seq(SourceIds)
      /\ Range(todo) \subseteq Range(todo') \cup {Asked}
  BY <1>0, TodoElements DEF RecInv, RecorderTypes, Asked
<1>5. run \in DOMAIN history /\ said \in [DOMAIN history -> SUBSET SourceIds]
  BY DEF RecInv, RecorderTypes
<1>6. /\ said' \in [DOMAIN history -> SUBSET SourceIds] /\ said[run] \subseteq said'[run]
      /\ \A r \in DOMAIN history : r # run => said'[r] = said[r]
  <2>1. CASE Say(Asked)
    BY <1>4, <1>5, <2>1 DEF Say
  <2>2. CASE UNCHANGED said
    BY <1>5, <2>2
  <2> QED
    BY <2>1, <2>2 DEF SourceStep
<1>7. RecorderTypes'
  BY <1>0, <1>3, <1>4, <1>6 DEF RecInv, RecorderTypes, Evident
<1>8. Capturing'
  <2>1. ASSUME NEW source \in SourceIds PROVE Caught(source)'
    <3>1. Caught(source)
      BY <1>2
    <3>2. CASE source \in Range(todo)
      BY <1>0, <1>1, <1>3, <1>4, <3>2 DEF Caught
    <3>3. CASE source \in said[run]
      BY <1>0, <1>6, <3>3 DEF Caught
    <3>4. CASE Brought(Current, source, docs)
      BY <1>0, <1>3, <3>4 DEF Caught
    <3> QED
      BY <3>1, <3>2, <3>3, <3>4 DEF Caught
  <2> QED
    BY <1>0, <1>3, <2>1 DEF Capturing
<1>9. Shelf'
  BY <1>0, <1>6, ShelfWhileCapturing DEF CaptureFrame
<1>10. EvidenceInv'
  BY <1>0, QuietStep DEF RecInv
<1> QED
  BY <1>7, <1>8, <1>9, <1>10 DEF RecInv

LEMMA SourcesAreDealtWith ==
    ASSUME RecInv, SkipUnmapped \/ SourceFails \/ SourceAnswers
    PROVE  SourceStep
<1>0. /\ stage = "capture" /\ todo # <<>> /\ UNCHANGED <<history, run, stage, ended, disk, crashes>>
      /\ todo' = Tail(todo)
  BY DEF SkipUnmapped, SourceFails, SourceAnswers, bounds
<1>1. /\ run \in DOMAIN history /\ said \in [DOMAIN history -> SUBSET SourceIds]
      /\ faults \in 0..MaxFaults /\ docs \in Seq(DocumentType) /\ MaxFaults \in Nat
  BY RecordingAssumption DEF RecInv, RecorderTypes
<1>2. Say(Asked) => Asked \in said'[run]
  BY <1>1 DEF Say
<1>3. CASE SkipUnmapped \/ SourceFails
  <2>1. Say(Asked) /\ docs' = docs
    BY <1>3 DEF SkipUnmapped, SourceFails
  <2>2. faults' \in 0..MaxFaults
    BY <1>1, <1>3 DEF SkipUnmapped, SourceFails, bounds
  <2>3. docs' = docs \o <<>>
    BY <1>1, <2>1
  <2>4. \E fresh : /\ Evident(Current, fresh) /\ docs' = docs \o fresh
                   /\ Asked \in said'[run] \/ Brought(Current, Asked, fresh)
    BY <1>2, <2>1, <2>3, NothingIsEvident
  <2> QED
    BY <1>0, <2>1, <2>2, <2>4 DEF SourceStep
<1>4. CASE SourceAnswers
  <2>1. faults' \in 0..MaxFaults
    BY <1>1, <1>4 DEF SourceAnswers, bounds
  <2> DEFINE found == Covered(Current, Asked)
  <2>2. PICK page \in Pages(found) :
          \E placed \in NewestFirst({e \in page : Placeable(Current, e)}) :
             docs' = docs \o [i \in DOMAIN placed |-> Document(Current, placed[i])]
    BY <1>4 DEF SourceAnswers
  <2>3. PICK placed \in NewestFirst({e \in page : Placeable(Current, e)}) :
             docs' = docs \o [i \in DOMAIN placed |-> Document(Current, placed[i])]
    BY <2>2
  <2>4. IF Truncated(found) THEN Say(Asked) ELSE UNCHANGED said
    BY <1>4 DEF SourceAnswers
  <2> DEFINE fresh == [i \in DOMAIN placed |-> Document(Current, placed[i])]
  <2>5. Evident(Current, fresh) /\ (~Truncated(found) => Brought(Current, Asked, fresh))
    BY <2>2, <2>3, AnswerBrings, HistoryFacts DEF RecInv
  <2> HIDE DEF fresh, found
  <2>6. Asked \in said'[run] \/ Brought(Current, Asked, fresh)
    BY <1>2, <2>4, <2>5
  <2>7. docs' = docs \o fresh
    BY <2>3 DEF fresh
  <2>8. Say(Asked) \/ UNCHANGED said
    BY <2>4
  <2> QED
    BY <1>0, <2>1, <2>5, <2>6, <2>7, <2>8 DEF SourceStep
<1> QED
  BY <1>3, <1>4

LEMMA CapturedKeeps == ASSUME RecInv, Captured PROVE RecInv'
<1>0. /\ stage = "capture" /\ todo = <<>> /\ stage' = "write" /\ docs' = Sorted(docs)
      /\ UNCHANGED <<history, run, todo, said, ended, disk, faults, crashes>> /\ Current' = Current
  BY DEF Captured, bounds, Current
<1>1. Evident(Current, docs) /\ \A source \in SourceIds : Caught(source)
  BY <1>0 DEF RecInv, Capturing
<1>2. /\ Evident(Current, docs') /\ InOrder(docs')
      /\ \A source : Brought(Current, source, docs) => Brought(Current, source, docs')
  BY <1>0, <1>1, EvidentSorted
<1>3. RecorderTypes'
  BY <1>0, <1>2 DEF RecInv, RecorderTypes, Stages, Evident
<1>4. Capturing'
  <2>1. Range(todo) = {}
    BY <1>0 DEF Range
  <2>2. \A source \in SourceIds : source \in said[run] \/ Brought(Current, source, docs)
    BY <1>1, <2>1 DEF Caught
  <2> QED
    BY <1>0, <1>2, <2>2 DEF Capturing, Caught
<1>5. Shelf'
  BY <1>0, ShelfWhileCapturing DEF CaptureFrame
<1>6. EvidenceInv'
  BY <1>0, QuietStep DEF RecInv
<1> QED
  BY <1>3, <1>4, <1>5, <1>6 DEF RecInv

---------------------------------------------------------------------------
(* Writing *)

LEMMA WriteManifestKeeps == ASSUME RecInv, WriteManifest PROVE RecInv'
<1>0. /\ stage = "write" /\ stage' = "events"
      /\ disk' = [disk EXCEPT ![Current.name].manifest = run]
      /\ UNCHANGED <<history, run, todo, docs, said, ended, faults, crashes>> /\ Current' = Current
  BY DEF WriteManifest, bounds, Current
<1>1. RecorderTypes'
  BY <1>0 DEF RecInv, RecorderTypes, Stages
<1>2. Capturing'
  BY <1>0 DEF RecInv, Capturing, Caught
<1>3. EvidenceInv'
  BY EvidenceStep DEF RecInv, RecNext
<1>4. Shelf'
  <2> DEFINE held(n) == IF n = Current.name THEN [disk[n] EXCEPT !.manifest = run] ELSE disk[n]
  <2>1. \A n \in Names : disk'[n] = held(n)
    BY <1>0 DEF RecInv, EvidenceInv, DiskShape
  <2>2. run \in Nat /\ run \in 1..Len(history) /\ Len(history) \in Nat
    BY HistoryFacts DEF RecInv
  <2>3. ASSUME NEW n \in Names
        PROVE  /\ held(n) = [manifest |-> held(n).manifest, of |-> disk[n].of,
                             lines |-> disk[n].lines, torn |-> disk[n].torn]
               /\ held(n).manifest \in 0..run
               /\ held(n).of = disk[n].of /\ held(n).lines = disk[n].lines
               /\ held(n).torn = disk[n].torn
    <3>1. /\ disk[n] = [manifest |-> disk[n].manifest, of |-> disk[n].of, lines |-> disk[n].lines,
                        torn |-> disk[n].torn]
          /\ disk[n].manifest \in 0..run
      BY DEF RecInv, Shelf, Holding
    <3>2. CASE n = Current.name
      <4>1. held(n) = [manifest |-> run, of |-> disk[n].of, lines |-> disk[n].lines,
                       torn |-> disk[n].torn]
        BY <3>1, <3>2
      <4> HIDE DEF held
      <4> QED
        BY <2>2, <4>1
    <3>3. CASE n # Current.name
      BY <3>1, <3>3
    <3> QED
      BY <3>2, <3>3
  <2> HIDE DEF held
  <2>4. ASSUME NEW n \in Names PROVE Holding(disk[n])'
    <3>1. Holding(disk[n])
      BY DEF RecInv, Shelf
    <3>2. /\ disk'[n].manifest \in 0..run /\ disk'[n].of = disk[n].of
          /\ disk'[n].lines = disk[n].lines /\ disk'[n].torn = disk[n].torn
      BY <2>1, <2>3
    <3> QED
      BY <1>0, <3>1, <3>2 DEF Holding
  <2>5. ASSUME NEW n \in Names
        PROVE  disk'[n] = [manifest |-> disk'[n].manifest, of |-> disk'[n].of,
                           lines |-> disk'[n].lines, torn |-> disk'[n].torn]
    <3>1. /\ held(n) = [manifest |-> held(n).manifest, of |-> held(n).of,
                        lines |-> held(n).lines, torn |-> held(n).torn]
      BY <2>3
    <3> QED
      BY <2>1, <3>1
  <2> QED
    BY <2>4, <2>5 DEF Shelf
<1> QED
  BY <1>1, <1>2, <1>3, <1>4 DEF RecInv

\* What a run may leave under its name when it ends.
Leaves(documents, how) ==
    /\ Evident(Current, documents) /\ InOrder(documents)
    /\ how = "recorded" =>
          \A source \in SourceIds \ said[run] : Brought(Current, source, documents)

LEMMA FinishKeeps ==
    ASSUME RecInv, stage # "over", NEW how \in Endings, Finish(how), UNCHANGED <<history, said>>,
           faults' \in 0..MaxFaults, crashes' \in 0..MaxCrashes,
           \/ disk' = disk
           \/ \E documents : \E torn \in BOOLEAN :
                 /\ disk' = [disk EXCEPT ![Current.name] = Lines(documents, torn)]
                 /\ Leaves(documents, how)
    PROVE  RecorderTypes' /\ Capturing' /\ Shelf'
<1>0. /\ run \in Nat /\ run \in 1..Len(history) /\ Len(history) \in Nat
      /\ DOMAIN history = 1..Len(history)
  BY HistoryFacts DEF RecInv
<1>1. /\ ended' = [ended EXCEPT ![run] = how] /\ docs' = <<>>
      /\ \/ run < Len(history) /\ run' = run + 1 /\ stage' = "capture" /\ todo' = Sources
         \/ run' = run /\ stage' = "over" /\ todo' = todo
  BY DEF Finish
<1>2. run' \in DOMAIN history /\ run <= run' /\ run' \in Nat /\ (run < run' \/ stage' = "over")
  BY <1>0, <1>1
<1>3. RecorderTypes'
  <2>1. todo' \in Seq(SourceIds)
    BY <1>1, RecordingAssumption DEF RecInv, RecorderTypes
  <2>2. stage' \in Stages
    BY <1>1 DEF Stages
  <2>3. ended' \in [DOMAIN history -> Endings]
    BY <1>1 DEF RecInv, RecorderTypes
  <2>4. docs' \in Seq(DocumentType)
    BY <1>1, NothingIsEvident
  <2> QED
    BY <1>2, <2>1, <2>2, <2>3, <2>4 DEF RecInv, RecorderTypes
<1>4. Capturing'
  <2>1. CASE stage' = "over"
    BY <2>1 DEF Capturing
  <2>2. CASE stage' = "capture"
    <3>1. todo' = Sources /\ Range(Sources) = SourceIds
      <4>1. Range(Sources) = SourceIds
        BY DEF Range, SourceIds
      <4> QED
        BY <1>1, <2>2, <4>1
    <3>2. \A source \in SourceIds : Caught(source)'
      BY <2>2, <3>1 DEF Caught
    <3>3. Evident(Current, docs)'
      <4>1. \A live : Evident(live, <<>>)
        BY NothingIsEvident
      <4>2. PICK live : live = Current'
        OBVIOUS
      <4> QED
        BY <1>1, <4>1, <4>2 DEF Evident
    <3> QED
      BY <2>2, <3>2, <3>3 DEF Capturing
  <2> QED
    BY <1>1, <2>1, <2>2
<1>5. ended \in [DOMAIN history -> Endings]
  BY DEF RecInv, RecorderTypes
<1>6. ASSUME NEW n \in Names, disk'[n] = disk[n]
      PROVE  Holding(disk[n])'
  <2>1. Holding(disk[n])
    BY DEF RecInv, Shelf
  <2>2. ASSUME disk[n].of # Nobody
        PROVE  /\ disk[n].of \in 1..run /\ disk[n].of < run
               /\ ended'[disk[n].of] = ended[disk[n].of]
    <3>1. disk[n].of \in 1..run /\ disk[n].of < run
      BY <2>1, <2>2 DEF Holding
    <3>2. disk[n].of \in DOMAIN history /\ disk[n].of # run
      BY <1>0, <3>1
    <3> QED
      BY <1>1, <1>5, <3>1, <3>2
  <2>3. disk[n].manifest \in 0..run'
    BY <1>0, <1>2, <2>1 DEF Holding
  <2>4. disk[n].of # Nobody => disk[n].of \in 1..run' /\ disk[n].of < run'
    BY <1>0, <1>2, <2>2
  <2> QED
    BY <1>6, <2>1, <2>2, <2>3, <2>4 DEF Holding
<1>7. ASSUME disk' = disk PROVE Shelf'
  <2>1. ASSUME NEW n \in Names
        PROVE  disk'[n] = [manifest |-> disk'[n].manifest, of |-> disk'[n].of,
                           lines |-> disk'[n].lines, torn |-> disk'[n].torn]
    BY <1>7 DEF RecInv, Shelf
  <2>2. ASSUME NEW n \in Names PROVE Holding(disk[n])'
    BY <1>6, <1>7
  <2> QED
    BY <2>1, <2>2 DEF Shelf
<1>8. ASSUME disk' # disk PROVE Shelf'
  <2>1. PICK documents : \E torn \in BOOLEAN :
          /\ disk' = [disk EXCEPT ![Current.name] = Lines(documents, torn)]
          /\ Leaves(documents, how)
    BY <1>8
  <2>2. PICK torn \in BOOLEAN :
          /\ disk' = [disk EXCEPT ![Current.name] = Lines(documents, torn)]
          /\ Leaves(documents, how)
    BY <2>1
  <2>3. ASSUME NEW n \in Names
        PROVE  disk'[n] = IF n = Current.name THEN Lines(documents, torn) ELSE disk[n]
    BY <2>2 DEF RecInv, EvidenceInv, DiskShape
  <2>4. ASSUME NEW n \in Names, n # Current.name
        PROVE  /\ disk'[n] = [manifest |-> disk'[n].manifest, of |-> disk'[n].of,
                              lines |-> disk'[n].lines, torn |-> disk'[n].torn]
               /\ Holding(disk[n])'
    <3>1. disk'[n] = disk[n]
      BY <2>3, <2>4
    <3>2. disk[n] = [manifest |-> disk[n].manifest, of |-> disk[n].of,
                     lines |-> disk[n].lines, torn |-> disk[n].torn]
      BY DEF RecInv, Shelf
    <3>3. Holding(disk[n])'
      BY <1>6, <3>1
    <3> QED
      BY <3>1, <3>2, <3>3
  <2>5. ASSUME NEW n \in Names, n = Current.name
        PROVE  /\ disk'[n] = [manifest |-> disk'[n].manifest, of |-> disk'[n].of,
                              lines |-> disk'[n].lines, torn |-> disk'[n].torn]
               /\ Holding(disk[n])'
    <3>1. /\ disk'[n] = [manifest |-> run, of |-> run, lines |-> documents, torn |-> torn]
      BY <2>3, <2>5 DEF Lines
    <3>2. /\ disk'[n].manifest = run /\ disk'[n].of = run /\ disk'[n].lines = documents
          /\ disk'[n].torn = torn
      BY <3>1
    <3>3. run # Nobody /\ run \in 0..run' /\ run \in 1..run'
      BY <1>0, <1>2 DEF Nobody
    <3>4. ended'[run] = how
      BY <1>0, <1>1, <1>5
    <3>5. history'[run] = Current /\ said' = said
      BY DEF Current
    <3>6. /\ Evident(history'[run], documents) /\ InOrder(documents)
          /\ ended'[run] = "recorded" =>
                \A source \in SourceIds \ said'[run] : Brought(history'[run], source, documents)
      BY <2>2, <3>4, <3>5 DEF Leaves
    <3>7. Holding(disk[n])'
      BY <1>2, <3>2, <3>3, <3>6 DEF Holding
    <3> QED
      BY <3>1, <3>2, <3>7
  <2> QED
    BY <2>4, <2>5 DEF Shelf
<1> QED
  BY <1>3, <1>4, <1>7, <1>8

LEMMA RecStep == RecInv /\ [RecNext]_recVars => RecInv'
<1> SUFFICES ASSUME RecInv, [RecNext]_recVars PROVE RecInv'
  OBVIOUS
<1>0. EvidenceInv'
  BY EvidenceStep DEF RecInv
<1>1. CASE SkipUnmapped \/ SourceFails \/ SourceAnswers
  BY <1>1, SourcesAreDealtWith, SourceStepKeeps
<1>2. CASE Captured
  BY <1>2, CapturedKeeps
<1>3. CASE WriteManifest
  BY <1>3, WriteManifestKeeps
<1>4. faults \in 0..MaxFaults /\ crashes \in 0..MaxCrashes /\ MaxCrashes \in Nat
  BY RecordingAssumption DEF RecInv, RecorderTypes
<1>5. CASE Refuse
  <2>1. /\ stage # "over" /\ Finish("refused")
        /\ UNCHANGED <<history, said, disk, faults, crashes>> /\ "refused" \in Endings
    BY <1>5 DEF Refuse, bounds, Endings
  <2> QED
    BY <1>0, <1>4, <2>1, FinishKeeps DEF RecInv
<1>6. CASE WriteEvents
  <2>1. /\ stage = "events" /\ Finish("recorded") /\ "recorded" \in Endings
        /\ UNCHANGED <<history, said, faults, crashes>>
        /\ disk' = [disk EXCEPT ![Current.name] = Lines(docs, FALSE)]
    BY <1>6 DEF WriteEvents, bounds, Endings
  <2>2. Leaves(docs, "recorded")
    BY <2>1 DEF RecInv, Capturing, Caught, Leaves
  <2>3. \E documents : \E torn \in BOOLEAN :
          /\ disk' = [disk EXCEPT ![Current.name] = Lines(documents, torn)]
          /\ Leaves(documents, "recorded")
    BY <2>1, <2>2
  <2> QED
    BY <1>0, <1>4, <2>1, <2>3, FinishKeeps DEF RecInv
<1>7. CASE Crash
  <2>1. /\ stage # "over" /\ Finish("crashed") /\ "crashed" \in Endings
        /\ UNCHANGED <<history, said, faults>> /\ crashes' \in 0..MaxCrashes
    BY <1>4, <1>7 DEF Crash, Endings
  <2>2. \/ disk' = disk
        \/ \E documents : \E torn \in BOOLEAN :
              /\ disk' = [disk EXCEPT ![Current.name] = Lines(documents, torn)]
              /\ Leaves(documents, "crashed")
    <3>1. CASE disk' = disk
      BY <3>1
    <3>2. CASE disk' # disk
      <4>1. /\ stage = "events"
            /\ \E k \in 0..(Len(docs) - 1), torn \in BOOLEAN :
                 disk' = [disk EXCEPT ![Current.name] = Lines(SubSeq(docs, 1, k), torn)]
        BY <1>7, <3>2 DEF Crash
      <4>2. PICK k \in 0..(Len(docs) - 1), torn \in BOOLEAN :
                 disk' = [disk EXCEPT ![Current.name] = Lines(SubSeq(docs, 1, k), torn)]
        BY <4>1
      <4>3. Evident(Current, docs) /\ InOrder(docs)
        BY <4>1 DEF RecInv, Capturing
      <4>4. Leaves(SubSeq(docs, 1, k), "crashed")
        BY <4>3, EvidentPart DEF Leaves
      <4> QED
        BY <4>2, <4>4
    <3> QED
      BY <3>1, <3>2
  <2> QED
    BY <1>0, <1>4, <2>1, <2>2, FinishKeeps DEF RecInv
<1>8. CASE UNCHANGED recVars
  <2>1. UNCHANGED <<history, run, stage, todo, docs, said, ended, disk, faults, crashes>>
        /\ Current' = Current
    BY <1>8 DEF recVars, Current
  <2>2. RecorderTypes' /\ Capturing'
    BY <2>1 DEF RecInv, RecorderTypes, Capturing, Caught
  <2>3. Shelf'
    BY <2>1 DEF RecInv, Shelf, Holding
  <2> QED
    BY <1>0, <2>2, <2>3 DEF RecInv
<1> QED
  BY <1>1, <1>2, <1>3, <1>5, <1>6, <1>7, <1>8 DEF RecNext

---------------------------------------------------------------------------
(* What the invariant says *)

LEMMA RecInvariant == RecSpec => []RecInv
<1>1. RecInit => RecInv
  BY RecStarts
<1>2. RecInv /\ [RecNext]_recVars => RecInv'
  BY RecStep
<1> QED
  BY <1>1, <1>2, PTL DEF RecSpec

\* Every step that changes the disk changes one name of it.
LEMMA DiskIsFunction == RecSpec => [](disk = [n \in Names |-> disk[n]])
<1> DEFINE IsFunction == disk = [n \in Names |-> disk[n]]
<1>1. RecInit => IsFunction
  BY DEF RecInit
<1>2. IsFunction /\ [RecNext]_recVars => IsFunction'
  BY DiskChanges DEF Overwrites, Completes
<1> QED
  BY <1>1, <1>2, PTL DEF RecSpec

\* What a corpus holds, line by line.
LEMMA HeldLines ==
    ASSUME RecInv, NEW n \in Names
    PROVE  /\ disk[n].lines \in Seq(DocumentType) /\ InOrder(disk[n].lines)
           /\ disk[n].manifest \in 0..run /\ disk[n].torn \in BOOLEAN
           /\ disk[n].of \in 0..run
           /\ disk[n].of # Nobody => /\ history[disk[n].of] \in LiveRun
                                     /\ Evident(history[disk[n].of], disk[n].lines)
           /\ disk[n].of = Nobody => disk[n].lines = <<>>
<1>1. Holding(disk[n])
  BY DEF RecInv, Shelf
<1>2. run \in Nat /\ \A r \in 1..run : history[r] \in LiveRun
  BY HistoryFacts DEF RecInv
<1>3. CASE disk[n].of = Nobody
  <2>1. /\ disk[n].lines = <<>> /\ disk[n].manifest \in 0..run /\ disk[n].torn \in BOOLEAN
    BY <1>1, <1>3 DEF Holding
  <2>2. /\ disk[n].lines \in Seq(DocumentType) /\ InOrder(disk[n].lines)
    BY <2>1, NothingIsEvident, Zenon
  <2>3. disk[n].of \in 0..run
    BY <1>2, <1>3 DEF Nobody
  <2> QED
    BY <1>3, <2>1, <2>2, <2>3
<1>4. CASE disk[n].of # Nobody
  <2>1. disk[n].of \in 1..run /\ Evident(history[disk[n].of], disk[n].lines)
        /\ InOrder(disk[n].lines)
    BY <1>1, <1>4 DEF Holding
  <2> QED
    BY <1>1, <1>2, <1>4, <2>1 DEF Holding, Evident
<1> QED
  BY <1>3, <1>4

\* Types: whatever runs record, the recorder's state and the corpora on disk
\* keep their types.
THEOREM RecTypesHold == RecSpec => []RecTypeOK
<1>1. ASSUME RecInv, disk = [n \in Names |-> disk[n]] PROVE RecTypeOK
  <2>1. ASSUME NEW n \in Names
        PROVE  disk[n] \in [manifest: Nat, of: Nat, lines: Seq(DocumentType), torn: BOOLEAN]
    <3>1. /\ disk[n] = [manifest |-> disk[n].manifest, of |-> disk[n].of,
                        lines |-> disk[n].lines, torn |-> disk[n].torn]
      BY <1>1 DEF RecInv, Shelf
    <3>2. run \in Nat
      BY <1>1, HistoryFacts DEF RecInv
    <3>3. /\ disk[n].manifest \in Nat /\ disk[n].of \in Nat
          /\ disk[n].lines \in Seq(DocumentType) /\ disk[n].torn \in BOOLEAN
      BY <1>1, <3>2, HeldLines
    <3> QED
      BY <3>1, <3>3
  <2>2. disk \in [Names -> [manifest: Nat, of: Nat, lines: Seq(DocumentType), torn: BOOLEAN]]
    BY <1>1, <2>1
  <2> QED
    BY <1>1, <2>2 DEF RecTypeOK, RecInv, RecorderTypes, DocumentType, Places
<1> QED
  BY <1>1, RecInvariant, DiskIsFunction, PTL

---------------------------------------------------------------------------
(* Replays *)

LEMMA LoadedLines ==
    ASSUME RecInv, NEW names \in SUBSET Names
    PROVE  /\ Loaded(names) \in Seq(DocumentType)
           /\ \A i \in DOMAIN Loaded(names) :
                 \E n \in names : \E j \in DOMAIN disk[n].lines :
                     Loaded(names)[i] = disk[n].lines[j]
<1> DEFINE order == Only(CorpusNames, names)
           seqs == [i \in DOMAIN order |-> disk[order[i]].lines]
<1>1. CorpusNames \in Seq(Names)
  BY RecordingAssumption
<1>2. order \in Seq(Names) /\ Selection(CorpusNames, names, order, Len(CorpusNames))
  BY <1>1, OnlySelects
<1>3. /\ Len(order) \in Nat /\ DOMAIN order = 1..Len(order)
      /\ \A i \in DOMAIN order : order[i] \in names
  BY <1>2 DEF Selection
<1> HIDE DEF order
<1>4. \A i \in DOMAIN order : disk[order[i]].lines \in Seq(DocumentType)
  BY <1>3, HeldLines
<1>5. seqs \in Seq(Seq(DocumentType)) /\ DOMAIN seqs = DOMAIN order
      /\ \A i \in DOMAIN order : seqs[i] = disk[order[i]].lines
  BY <1>3, <1>4
<1>6. Loaded(names) = FlattenSeq(seqs)
  BY DEF Loaded, order
<1> HIDE DEF seqs
<1>7. /\ FlattenSeq(seqs) \in Seq(DocumentType)
      /\ \A i \in DOMAIN FlattenSeq(seqs) :
            \E k \in DOMAIN seqs : \E j \in DOMAIN seqs[k] : FlattenSeq(seqs)[i] = seqs[k][j]
  BY <1>5, FlattenElements
<1>8. ASSUME NEW i \in DOMAIN Loaded(names)
      PROVE  \E n \in names : \E j \in DOMAIN disk[n].lines : Loaded(names)[i] = disk[n].lines[j]
  <2>1. PICK k \in DOMAIN seqs : \E j \in DOMAIN seqs[k] : Loaded(names)[i] = seqs[k][j]
    BY <1>6, <1>7, <1>8
  <2>2. order[k] \in names /\ seqs[k] = disk[order[k]].lines
    BY <1>3, <1>5, <2>1
  <2> QED
    BY <2>1, <2>2
<1> QED
  BY <1>6, <1>7, <1>8

\* What a replay selects for a case.
LEMMA ReplaySelects ==
    ASSUME RecInv, NEW names \in SUBSET Names, NEW case \in Cases
    PROVE  LET L == Loaded(names)
               R == Replayed(names, case)
               D == Detections(names, case)
           IN  /\ L \in Seq(DocumentType) /\ R \in Seq(DocumentType) /\ D \in Seq(DocumentType)
               /\ \E chosen : Selection(L, chosen, R, Len(L))
               /\ \E chosen : Selection(R, chosen, D, Len(R))
               /\ \A i \in DOMAIN R : /\ R[i].test = case.test
                                      /\ \E j \in DOMAIN L : R[i] = L[j]
               /\ \A i \in DOMAIN D : /\ case.rule \in D[i].event.matches
                                      /\ \E j \in DOMAIN R : D[i] = R[j]
<1> DEFINE L == Loaded(names)
           R == Replayed(names, case)
           D == Detections(names, case)
           window == Widened([from |-> 0, to |-> Declared[case.test]], case)
           Mine == {d \in Range(L) : /\ d.test = case.test /\ Within(d.offset, window)
                                     /\ InScope(d.event, case.telemetry \cap Offline)}
           Matching == {d \in Range(R) : case.rule \in d.event.matches}
<1>1. L \in Seq(DocumentType)
  BY LoadedLines
<1>2. R = Only(L, Mine) /\ D = Only(R, Matching)
  BY DEF Replayed, Detections
<1>3. /\ \A d \in Mine : d.test = case.test
      /\ \A d \in Matching : case.rule \in d.event.matches
  OBVIOUS
<1> HIDE DEF L, R, D, Mine, Matching
<1>4. R \in Seq(DocumentType) /\ Selection(L, Mine, R, Len(L))
  BY <1>1, <1>2, OnlySelects
<1>5. D \in Seq(DocumentType) /\ Selection(R, Matching, D, Len(R))
  BY <1>2, <1>4, OnlySelects
<1>6. ASSUME NEW i \in DOMAIN R PROVE R[i].test = case.test /\ \E j \in DOMAIN L : R[i] = L[j]
  <2>1. R[i] \in Mine /\ \E j \in 1..Len(L) : R[i] = L[j]
    BY SMTT(20), <1>4 DEF Selection
  <2> QED
    BY <1>1, <1>3, <2>1
<1>7. ASSUME NEW i \in DOMAIN D
      PROVE  case.rule \in D[i].event.matches /\ \E j \in DOMAIN R : D[i] = R[j]
  <2>1. D[i] \in Matching /\ \E j \in 1..Len(R) : D[i] = R[j]
    BY <1>5 DEF Selection
  <2> QED
    BY <1>3, <1>4, <2>1
<1> QED
  BY <1>1, <1>4, <1>5, <1>6, <1>7 DEF L, R, D

\* Replays show nothing that did not happen: a case that a replay of any corpora
\* reports as DETECTED had a matching event in its own test's window.
THEOREM ReplaysAreHonest == RecSpec => []ReplayInventsNothing
<1>1. ASSUME RecInv, NEW names \in SUBSET Names, NEW case \in Cases,
             ReplayOutcome(names, case) = "DETECTED"
      PROVE  \E n \in {m \in names : disk[m].of # Nobody} :
                LET live == history[disk[n].of]
                    span == live.spans[case.test]
                IN  \E e \in live.events :
                        /\ e.dated /\ case.rule \in e.matches /\ Within(e.time, span)
                        /\ \A t \in WindowsOf(live, e.time) :
                              span.from <= live.spans[t].from
  <2>1. Len(Detections(names, case)) > 0
    BY <1>1 DEF ReplayOutcome, Outcome, Answered, ThreeState, NotRun
  <2>2. PICK d : /\ case.rule \in d.event.matches /\ d.test = case.test
                 /\ \E j \in DOMAIN Loaded(names) : d = Loaded(names)[j]
    <3>1. /\ Detections(names, case) \in Seq(DocumentType)
          /\ \A i \in DOMAIN Detections(names, case) :
                /\ case.rule \in Detections(names, case)[i].event.matches
                /\ \E j \in DOMAIN Replayed(names, case) :
                      Detections(names, case)[i] = Replayed(names, case)[j]
          /\ \A i \in DOMAIN Replayed(names, case) :
                /\ Replayed(names, case)[i].test = case.test
                /\ \E j \in DOMAIN Loaded(names) : Replayed(names, case)[i] = Loaded(names)[j]
      BY <1>1, ReplaySelects
    <3>2. 1 \in DOMAIN Detections(names, case)
      BY <2>1, <3>1
    <3>3. PICK j \in DOMAIN Replayed(names, case) :
              Detections(names, case)[1] = Replayed(names, case)[j]
      BY <3>1, <3>2
    <3> QED
      BY <3>1, <3>2, <3>3
  <2>3. PICK n \in names : \E j \in DOMAIN disk[n].lines : d = disk[n].lines[j]
    BY <1>1, <2>2, LoadedLines
  <2>4. PICK j \in DOMAIN disk[n].lines : d = disk[n].lines[j]
    BY <2>3
  <2>5. disk[n].of # Nobody
    <3>1. disk[n].lines # <<>>
      BY <2>4
    <3> QED
      BY <1>1, <3>1, HeldLines
  <2>6. PICK live : live = history[disk[n].of]
    OBVIOUS
  <2>7. live \in LiveRun /\ Evident(live, disk[n].lines)
    BY <1>1, <2>5, <2>6, HeldLines
  <2>8. PICK e \in live.events : Placeable(live, e) /\ d = Document(live, e)
    BY <2>4, <2>7 DEF Evident
  <2>9. d.event = e /\ d.test = WindowFor(live, e.time)
    BY <2>7, <2>8, DocumentFields
  <2>10. /\ Within(e.time, live.spans[case.test])
         /\ \A t \in WindowsOf(live, e.time) : live.spans[case.test].from <= live.spans[t].from
         /\ e.dated /\ case.rule \in e.matches
    BY <2>2, <2>7, <2>8, <2>9, WindowExists DEF Placeable
  <2> QED
    BY <2>5, <2>6, <2>10
<1>2. RecInv => ReplayInventsNothing
  BY <1>1 DEF ReplayInventsNothing
<1> QED
  BY <1>2, RecInvariant, PTL

\* Nothing is left out in silence: an event of some window that a source covers
\* is in the finished corpus, or corpus.errors names a source that should have
\* brought it.
THEOREM OmissionsAreReported == RecSpec => []OmissionsAreSaid
<1>1. ASSUME RecInv, NEW n \in Names, disk[n].of # Nobody, ended[disk[n].of] = "recorded",
             NEW e \in history[disk[n].of].events, Placeable(history[disk[n].of], e),
             e.scopes \cap SourceIds # {}, e.scopes \cap said[disk[n].of] = {}
      PROVE  \E i \in DOMAIN disk[n].lines : disk[n].lines[i].event = e
  <2>1. PICK source \in SourceIds : source \in e.scopes /\ source \notin said[disk[n].of]
    BY <1>1
  <2>2. Holding(disk[n])
    BY <1>1 DEF RecInv, Shelf
  <2>3. Brought(history[disk[n].of], source, disk[n].lines)
    BY <1>1, <2>1, <2>2 DEF Holding
  <2>4. PICK live : live = history[disk[n].of]
    OBVIOUS
  <2>5. live \in LiveRun /\ e \in live.events /\ WindowsOf(live, e.time) # {}
    BY <1>1, <2>4, HeldLines DEF Placeable
  <2>6. Within(e.time, SpanOf(live))
    BY <2>5, SpansOfRun, SpanCovers
  <2>7. e \in Covered(live, source)
    BY <2>1, <2>5, <2>6 DEF Covered
  <2> QED
    BY <1>1, <2>3, <2>4, <2>7 DEF Brought
<1>2. RecInv => OmissionsAreSaid
  BY <1>1 DEF OmissionsAreSaid
<1> QED
  BY <1>2, RecInvariant, PTL

---------------------------------------------------------------------------
(* The order of what is replayed *)

\* The directory lists each name once: one corpus is loaded as it was written.
LEMMA OneCorpus ==
    ASSUME NEW n \in Names
    PROVE  Loaded({n}) = disk[n].lines
<1> DEFINE order == Only(CorpusNames, {n})
           seqs == [i \in DOMAIN order |-> disk[order[i]].lines]
<1>1. CorpusNames \in Seq(Names) /\ Len(CorpusNames) \in Nat
      /\ \A i, j \in 1..Len(CorpusNames) : CorpusNames[i] = CorpusNames[j] => i = j
  BY RecordingAssumption DEF IsInjective
<1>2. order \in Seq(Names) /\ Selection(CorpusNames, {n}, order, Len(CorpusNames))
  BY <1>1, OnlySelects
<1>3. Loaded({n}) = FlattenSeq(seqs)
  BY DEF Loaded
<1> HIDE DEF order
<1>4. Len(order) \in Nat /\ DOMAIN order = 1..Len(order) /\ \A i \in 1..Len(order) : order[i] = n
  BY <1>2 DEF Selection
<1>5. Len(order) # 0
  <2>1. PICK i \in 1..Len(CorpusNames) : CorpusNames[i] = n
    BY <1>1 DEF Names
  <2>2. \E a \in 1..Len(order) : order[a] = CorpusNames[i]
    BY <1>2, <2>1 DEF Selection
  <2> QED
    BY <2>2
<1>6. ~(1 < Len(order))
  <2> SUFFICES ASSUME 1 < Len(order) PROVE FALSE
    OBVIOUS
  <2>1. 1 \in 1..Len(order) /\ 2 \in 1..Len(order) /\ 1 < 2
    BY <1>4
  <2>2. PICK i, j \in 1..Len(CorpusNames) :
            i < j /\ order[1] = CorpusNames[i] /\ order[2] = CorpusNames[j]
    <3>1. \A a, b \in 1..Len(order) :
             a < b => \E i, j \in 1..Len(CorpusNames) :
                         i < j /\ order[a] = CorpusNames[i] /\ order[b] = CorpusNames[j]
      BY <1>2, Zenon DEF Selection
    <3> QED
      BY <2>1, <3>1, Zenon
  <2>3. order[1] = n /\ order[2] = n
    BY <1>4, <2>1
  <2>4. CorpusNames[i] = CorpusNames[j]
    BY <2>2, <2>3
  <2>5. i = j
    BY <1>1, <2>4
  <2> QED
    BY <2>2, <2>5
<1>7. Len(order) = 1
  BY <1>4, <1>5, <1>6
<1>8. /\ DOMAIN seqs = 1..1 /\ seqs[1] = disk[n].lines
  BY <1>4, <1>7
<1>9. Len(seqs) = 1
  <2> HIDE DEF seqs
  <2> QED
    BY <1>8
<1> HIDE DEF seqs
<1> QED
  BY <1>3, <1>8, <1>9, FlattenOfOne

\* Offsets that never fall.
Ascending(t) == \A a, b \in DOMAIN t : a < b => t[a].offset <= t[b].offset

LEMMA FirstIsEarliest ==
    ASSUME NEW t \in Seq(DocumentType), t # <<>>, Ascending(t)
    PROVE  Earliest(t) = t[1].offset
<1> DEFINE offsets == {t[i].offset : i \in DOMAIN t}
<1>1. /\ Len(t) \in Nat /\ DOMAIN t = 1..Len(t) /\ 1 \in DOMAIN t
      /\ \A i \in DOMAIN t : t[i].offset \in Int
  <2>1. /\ Len(t) \in Nat /\ DOMAIN t = 1..Len(t) /\ 1 \in DOMAIN t
        /\ \A i \in DOMAIN t : t[i] \in DocumentType
    OBVIOUS
  <2>2. \A d \in DocumentType : d.offset \in Int
    BY DEF DocumentType
  <2> QED
    BY <2>1, <2>2
<1>2. \A i \in DOMAIN t : t[1].offset <= t[i].offset
  <2>1. ASSUME NEW i \in DOMAIN t, i # 1 PROVE t[1].offset <= t[i].offset
    <3>1. 1 < i
      BY <1>1, <2>1
    <3> QED
      BY <1>1, <3>1 DEF Ascending
  <2> QED
    BY <1>1, <2>1
<1>3. /\ offsets \subseteq Int /\ t[1].offset \in offsets /\ t[1].offset \in Int
      /\ \A x \in offsets : t[1].offset <= x
  BY <1>1, <1>2
<1>4. Earliest(t) = Min(offsets)
  BY DEF Earliest
<1> HIDE DEF offsets
<1>5. offsets # {}
  BY <1>3
<1>6. Min(offsets) \in offsets /\ \A x \in offsets : Min(offsets) <= x
  BY <1>3, <1>5, MinIsLeast
<1>7. Min(offsets) \in Int /\ Min(offsets) <= t[1].offset /\ t[1].offset <= Min(offsets)
  BY <1>3, <1>6
<1> QED
  BY <1>3, <1>4, <1>7

\* A selection of one test's documents keeps the order of the corpus.
LEMMA SelectionAscends ==
    ASSUME NEW s \in Seq(DocumentType), NEW t \in Seq(DocumentType), NEW chosen,
           Selection(s, chosen, t, Len(s)),
           \/ Ascending(s)
           \/ InOrder(s) /\ \A a, b \in DOMAIN t : t[a].test = t[b].test
    PROVE  Ascending(t)
<1> SUFFICES ASSUME NEW a \in DOMAIN t, NEW b \in DOMAIN t, a < b
             PROVE  t[a].offset <= t[b].offset
  BY DEF Ascending
<1>1. DOMAIN t = 1..Len(t) /\ DOMAIN s = 1..Len(s)
  OBVIOUS
<1>2. PICK i, j \in 1..Len(s) : i < j /\ t[a] = s[i] /\ t[b] = s[j]
  BY <1>1 DEF Selection
<1> QED
  BY <1>1, <1>2 DEF Ascending, InOrder

LEMMA DetectionsAscend ==
    ASSUME RecInv, NEW n \in Names, NEW case \in Cases
    PROVE  Detections({n}, case) \in Seq(DocumentType) /\ Ascending(Detections({n}, case))
<1>1. PICK L, R, D : L = Loaded({n}) /\ R = Replayed({n}, case) /\ D = Detections({n}, case)
  OBVIOUS
<1>2. /\ L \in Seq(DocumentType) /\ R \in Seq(DocumentType) /\ D \in Seq(DocumentType)
      /\ \E chosen : Selection(L, chosen, R, Len(L))
      /\ \E chosen : Selection(R, chosen, D, Len(R))
      /\ \A i \in DOMAIN R : R[i].test = case.test
  <2>1. /\ Loaded({n}) \in Seq(DocumentType) /\ Replayed({n}, case) \in Seq(DocumentType)
        /\ Detections({n}, case) \in Seq(DocumentType)
        /\ \E chosen : Selection(Loaded({n}), chosen, Replayed({n}, case), Len(Loaded({n})))
        /\ \E chosen : Selection(Replayed({n}, case), chosen, Detections({n}, case),
                                Len(Replayed({n}, case)))
        /\ \A i \in DOMAIN Replayed({n}, case) : Replayed({n}, case)[i].test = case.test
    <3>1. {n} \in SUBSET Names
      OBVIOUS
    <3> QED
      BY <3>1, ReplaySelects
  <2> QED
    BY <1>1, <2>1
<1>3. InOrder(L)
  BY <1>1, HeldLines, OneCorpus
<1>4. Ascending(R)
  BY <1>2, <1>3, SelectionAscends
<1>5. Ascending(D)
  BY <1>2, <1>4, SelectionAscends
<1> QED
  BY <1>1, <1>2, <1>5

\* The cap of an offline search costs no latency: of the matches in one corpus,
\* the ones it keeps include the earliest.
THEOREM CapIsHarmless == RecSpec => []CapKeepsEarliest
<1>1. ASSUME RecInv, NEW n \in Names, NEW case \in Cases, Detections({n}, case) # <<>>
      PROVE  Earliest(Capped(Detections({n}, case))) = Earliest(Detections({n}, case))
  <2>1. PICK t : t = Detections({n}, case)
    OBVIOUS
  <2>2. t \in Seq(DocumentType) /\ Ascending(t) /\ t # <<>>
    BY <1>1, <2>1, DetectionsAscend
  <2>3. PICK k : k = IF Len(t) < ReplayLimit THEN Len(t) ELSE ReplayLimit
    OBVIOUS
  <2>4. ReplayLimit \in Nat \ {0}
    BY RecordingAssumption
  <2>5. /\ Len(t) \in Nat \ {0} /\ k \in 1..Len(t) /\ DOMAIN t = 1..Len(t)
    BY <2>2, <2>3, <2>4
  <2>6. Capped(t) = SubSeq(t, 1, k)
    BY <2>3 DEF Capped
  <2>7. /\ Capped(t) \in Seq(DocumentType) /\ Len(Capped(t)) = k /\ DOMAIN Capped(t) = 1..k
        /\ \A i \in 1..k : Capped(t)[i] = t[i]
    BY <2>2, <2>5, <2>6
  <2>8. 1 \in 1..k /\ 1..k \subseteq 1..Len(t) /\ Capped(t) # <<>>
    BY <2>5, <2>7
  <2>9. Ascending(Capped(t))
    BY <2>2, <2>5, <2>7, <2>8 DEF Ascending
  <2>10. Earliest(Capped(t)) = Capped(t)[1].offset
    BY <2>7, <2>8, <2>9, FirstIsEarliest
  <2>11. Earliest(t) = t[1].offset
    BY <2>2, FirstIsEarliest
  <2> QED
    BY <2>1, <2>7, <2>8, <2>10, <2>11
<1>2. RecInv => CapKeepsEarliest
  BY <1>1 DEF CapKeepsEarliest
<1> QED
  BY <1>2, RecInvariant, PTL

---------------------------------------------------------------------------
(* Heartbeats *)

LEMMA MaxOfTwo ==
    ASSUME NEW a \in Int, NEW b \in Int
    PROVE  /\ Max({a, b}) \in Int
           /\ \A x \in Int : x <= Max({a, b}) <=> x <= a \/ x <= b
<1>1. IsFiniteSet({a, b})
  <2>1. IsFiniteSet({a}) /\ IsFiniteSet({b}) /\ {a, b} = {a} \cup {b}
    BY FS_Singleton
  <2> QED
    BY <2>1, FS_Union
<1>2. {a, b} \subseteq Int /\ {a, b} # {}
  OBVIOUS
<1>3. Max({a, b}) \in {a, b} /\ \A x \in {a, b} : x <= Max({a, b})
  BY <1>1, <1>2, MaxIsLargest
<1>4. PICK m : m = Max({a, b})
  OBVIOUS
<1>5. (m = a \/ m = b) /\ a <= m /\ b <= m
  BY <1>3, <1>4
<1>6. m \in Int /\ \A x \in Int : x <= m <=> x <= a \/ x <= b
  BY <1>5
<1> QED
  BY <1>4, <1>6

\* The observations of a source are finitely many, each with a time.
LEMMA ObservationsAreTimed ==
    ASSUME RecInv, NEW source
    PROVE  /\ IsFiniteSet(observe_corpora(source))
           /\ \A o \in observe_corpora(source) : o.at \in Int
<1> DEFINE Of(n) == {Observed(n, i) : i \in Sighted(n, source)}
           All == {Of(n) : n \in Names}
<1>1. observe_corpora(source) = UNION All
  BY DEF observe_corpora
<1>0. \A n : Sighted(n, source) \subseteq DOMAIN disk[n].lines
  BY DEF Sighted
<1>2. ASSUME NEW n \in Names PROVE IsFiniteSet(Of(n))
  <2>1. /\ Len(disk[n].lines) \in Nat /\ DOMAIN disk[n].lines = 1..Len(disk[n].lines)
    BY HeldLines
  <2>2. IsFiniteSet(DOMAIN disk[n].lines)
    BY <2>1, FS_Interval
  <2>3. IsFiniteSet(Sighted(n, source))
    BY <1>0, <2>2, FS_Subset
  <2> DEFINE f == [i \in Sighted(n, source) |-> Observed(n, i)]
  <2>4. DOMAIN f = Sighted(n, source) /\ Of(n) = {f[i] : i \in Sighted(n, source)}
    OBVIOUS
  <2> HIDE DEF f, Of
  <2>5. IsFiniteSet({f[i] : i \in Sighted(n, source)})
    BY <2>3, <2>4, ImageIsFinite
  <2> QED
    BY <2>4, <2>5
<1>3. ASSUME NEW n \in Names, NEW o \in Of(n) PROVE o.at \in Int
  <2>1. PICK i \in DOMAIN disk[n].lines : o = Observed(n, i)
    BY <1>0, <1>3
  <2>2. disk[n].lines \in Seq(DocumentType) /\ disk[n].manifest \in 0..run
    BY HeldLines
  <2>3. disk[n].lines[i].offset \in Int
    <3>1. disk[n].lines[i] \in DocumentType
      BY <2>1, <2>2
    <3> QED
      BY <3>1 DEF DocumentType
  <2>4. disk[n].manifest # Nobody
    <3>1. disk[n].lines # <<>>
      BY <2>1
    <3>2. NoCorpus.lines = <<>>
      BY DEF NoCorpus
    <3> QED
      BY <3>1, <3>2 DEF RecInv, EvidenceInv, ManifestFirst
  <2>5. disk[n].manifest \in 1..run
    BY <2>2, <2>4, HistoryFacts DEF RecInv, Nobody
  <2>6. history[disk[n].manifest].at \in Nat
    <3>1. history[disk[n].manifest] \in LiveRun
      BY <2>5, HistoryFacts DEF RecInv
    <3> QED
      BY <3>1 DEF LiveRun
  <2> QED
    BY <2>1, <2>3, <2>6 DEF Observed, Observation
<1> HIDE DEF Of
<1>4. IsFiniteSet(Names)
  <2>1. CorpusNames \in Seq(Names)
    BY RecordingAssumption
  <2>2. Len(CorpusNames) \in Nat /\ DOMAIN CorpusNames = 1..Len(CorpusNames)
    BY <2>1
  <2>3. IsFiniteSet(DOMAIN CorpusNames)
    BY <2>2, FS_Interval
  <2>4. IsFiniteSet({CorpusNames[i] : i \in DOMAIN CorpusNames})
    BY <2>3, ImageIsFinite
  <2> QED
    BY <2>4 DEF Names
<1>5. IsFiniteSet(All)
  <2> DEFINE f == [n \in Names |-> Of(n)]
  <2>1. DOMAIN f = Names /\ All = {f[n] : n \in Names}
    OBVIOUS
  <2> HIDE DEF f, All
  <2>2. IsFiniteSet({f[n] : n \in Names})
    BY <1>4, <2>1, ImageIsFinite
  <2> QED
    BY <2>1, <2>2
<1>6. \A T \in All : IsFiniteSet(T) /\ \A o \in T : o.at \in Int
  BY <1>2, <1>3
<1> HIDE DEF All
<1>7. IsFiniteSet(UNION All)
  BY <1>5, <1>6, FS_UNION
<1> QED
  BY <1>1, <1>6, <1>7

LEMMA TimesOf ==
    ASSUME NEW O, IsFiniteSet(O), O # {}, \A o \in O : o.at \in Int
    PROVE  \E o \in O : Max({x.at : x \in O}) = o.at /\ \A x \in O : x.at <= o.at
<1> DEFINE f == [o \in O |-> o.at]
           times == {x.at : x \in O}
<1>1. DOMAIN f = O /\ times = {f[o] : o \in O}
  OBVIOUS
<1>2. times \subseteq Int /\ times # {}
  OBVIOUS
<1>3. IsFiniteSet(times)
  <2> HIDE DEF f, times
  <2>1. IsFiniteSet({f[o] : o \in O})
    BY <1>1, ImageIsFinite
  <2> QED
    BY <1>1, <2>1
<1>4. Max(times) \in times /\ \A x \in times : x <= Max(times)
  <2> HIDE DEF times
  <2> QED
    BY <1>2, <1>3, MaxIsLargest
<1>5. PICK o \in O : Max(times) = o.at
  BY <1>4
<1>6. \A x \in O : x.at <= o.at
  BY <1>4, <1>5
<1> QED
  BY <1>5, <1>6

\* Heard of within the grace period.
Heard(O, host, as_of, interval, grace) ==
    \E o \in O : /\ o.host = host
                 /\ 2 * (as_of - o.at) <= Max({2 * interval, interval * grace})

LEMMA SilentMeansUnheard ==
    ASSUME NEW O, IsFiniteSet(O), \A o \in O : o.at \in Int, NEW host, NEW as_of \in Int,
           NEW interval \in Nat \ {0}, NEW grace \in Nat
    PROVE  Beat(O, host, as_of, interval, grace).state = "silent"
              <=> ~Heard(O, host, as_of, interval, grace)
<1> DEFINE F == From(O, host)
<1>1. F \subseteq O /\ \A o \in O : o \in F <=> o.host = host
  BY DEF From
<1>2. CASE F = {}
  BY <1>1, <1>2 DEF Beat, Heard
<1>3. CASE F # {}
  <2>1. PICK allowed \in Int : allowed = interval * grace
    OBVIOUS
  <2>2. IsFiniteSet(F) /\ \A o \in F : o.at \in Int
    BY <1>1, FS_Subset
  <2> HIDE DEF F
  <2>3. PICK last \in F : Max({x.at : x \in F}) = last.at /\ \A x \in F : x.at <= last.at
    BY <1>3, <2>2, TimesOf
  <2>4. PICK at \in Int : at = last.at
    BY <2>2
  <2>5. Beat(O, host, as_of, interval, grace).state = StateOf(Age(as_of, at), interval, grace)
    BY <1>3, <2>3, <2>4 DEF Beat, Latest, F
  <2>6. StateOf(Age(as_of, at), interval, grace) = "silent"
            <=> ~(2 * (as_of - at) <= 2 * interval) /\ ~(2 * (as_of - at) <= allowed)
    BY <2>1, <2>4 DEF StateOf, Age
  <2>7. PICK limit : limit = Max({2 * interval, allowed})
    OBVIOUS
  <2>8. /\ limit \in Int
        /\ \A x \in Int : x <= limit <=> x <= 2 * interval \/ x <= allowed
    BY <2>1, <2>7, MaxOfTwo
  <2>9. Heard(O, host, as_of, interval, grace)
            <=> \E o \in F : 2 * (as_of - o.at) <= limit
    BY <1>1, <2>1, <2>7 DEF Heard
  <2>10. (\E o \in F : 2 * (as_of - o.at) <= limit) <=> 2 * (as_of - at) <= limit
    <3>1. ASSUME NEW o \in F, 2 * (as_of - o.at) <= limit PROVE 2 * (as_of - at) <= limit
      <4>1. PICK x \in Int : x = o.at
        BY <2>2
      <4>2. x <= at
        BY <2>3, <2>4, <4>1
      <4> QED
        BY <2>4, <2>8, <3>1, <4>1, <4>2
    <3> QED
      BY <2>4, <3>1
  <2>11. 2 * (as_of - at) \in Int
    BY <2>4
  <2> QED
    BY <2>5, <2>6, <2>8, <2>9, <2>10, <2>11
<1> QED
  BY <1>2, <1>3

LEMMA AsOfIsATime ==
    ASSUME RecInv, NEW source, NEW asked \in Moments \cup {Unasked}
    PROVE  AsOf(source, asked) \in Int
<1>1. Moments \subseteq Nat
  BY RecordingAssumption
<1>2. CASE asked # Unasked
  BY <1>1, <1>2 DEF AsOf
<1>3. CASE asked = Unasked
  <2> DEFINE O == observe_corpora(source)
  <2>1. IsFiniteSet(O) /\ \A o \in O : o.at \in Int
    BY ObservationsAreTimed
  <2>2. Current.at \in Nat
    BY HistoryFacts DEF RecInv, LiveRun
  <2>3. AsOf(source, asked) = DefaultAsOf(O, Current.at)
    BY <1>3 DEF AsOf
  <2> HIDE DEF O
  <2>4. CASE O = {}
    BY <2>2, <2>3, <2>4 DEF DefaultAsOf
  <2>5. CASE O # {}
    <3>1. PICK o \in O : Max({x.at : x \in O}) = o.at
      BY <2>1, <2>5, TimesOf
    <3> QED
      BY <2>1, <2>3, <2>5, <3>1 DEF DefaultAsOf
  <2> QED
    BY <2>4, <2>5
<1> QED
  BY <1>2, <1>3

\* A source's own cadence is one like those a heartbeat is asked with.
LEMMA CadenceOfSource ==
    ASSUME NEW source \in SourceIds, NEW interval \in Intervals, NEW grace \in Graces
    PROVE  IntervalOf(source, interval) \in Nat \ {0} /\ GraceOf(source, grace) \in Nat
<1>1. interval \in Nat \ {0} /\ grace \in Nat
  BY RecordingAssumption
<1>2. /\ Heartbeats[source].interval \in Nat \cup {Undeclared}
      /\ Heartbeats[source].grace \in Nat \cup {Undeclared}
  BY RecordingAssumption
<1>3. IntervalOf(source, interval) \in Nat \ {0}
  BY <1>1, <1>2 DEF IntervalOf, Undeclared
<1>4. GraceOf(source, grace) \in Nat
  BY <1>1, <1>2 DEF GraceOf
<1> QED
  BY <1>3, <1>4

\* The hosts observed for a source are those that its lines name.
LEMMA HostsAreSenders ==
    ASSUME NEW source
    PROVE  {o.host : o \in observe_corpora(source)}
              = UNION {{disk[n].lines[i].event.host : i \in Sighted(n, source)} : n \in Names}
<1>1. \A n, i : Observed(n, i).host = disk[n].lines[i].event.host
  BY DEF Observed, Observation
<1>2. \A o : o \in observe_corpora(source)
                <=> \E n \in Names : \E i \in Sighted(n, source) : o = Observed(n, i)
  BY DEF observe_corpora
<1> QED
  BY <1>1, <1>2

\* Heartbeats: asked about any moment, or none, the silent hosts of a source
\* that is listened to are exactly those unheard of for the source's own grace
\* period, and they fail the command.
THEOREM HeartbeatsNameSilence == RecSpec => []SilenceIsNamed
<1>1. ASSUME RecInv, NEW interval \in Intervals, NEW grace \in Graces,
             NEW asked \in Moments \cup {Unasked}, NEW inventory \in Inventories,
             NEW wanted \in SUBSET SourceIds
      PROVE  LET found == reports(wanted, asked, interval, grace, inventory)
                 SenderOf(source) ==
                     UNION {{disk[n].lines[i].event.host : i \in Sighted(n, source)} : n \in Names}
                 Halves(source) ==
                     Max({2 * IntervalOf(source, interval),
                          IntervalOf(source, interval) * GraceOf(source, grace)})
                 HeardSince(source, host) ==
                     \E o \in observe_corpora(source) :
                         o.host = host /\ 2 * (AsOf(source, asked) - o.at) <= Halves(source)
                 Gone(source) == {host \in inventory \cup SenderOf(source) :
                                     ~HeardSince(source, host)}
             IN  Readable(Names) =>
                    /\ \A source \in Listened(wanted) : In(found[source], "silent") = Gone(source)
                    /\ HeartbeatExit(found) = "ok" <=>
                          \A source \in Listened(wanted) : Gone(source) = {}
  <2> DEFINE found == reports(wanted, asked, interval, grace, inventory)
             SenderOf(source) ==
                 UNION {{disk[n].lines[i].event.host : i \in Sighted(n, source)} : n \in Names}
             Halves(source) ==
                 Max({2 * IntervalOf(source, interval),
                      IntervalOf(source, interval) * GraceOf(source, grace)})
             HeardSince(source, host) ==
                 \E o \in observe_corpora(source) :
                     o.host = host /\ 2 * (AsOf(source, asked) - o.at) <= Halves(source)
             Gone(source) == {host \in inventory \cup SenderOf(source) :
                                 ~HeardSince(source, host)}
  <2>2. ASSUME NEW source \in Listened(wanted) PROVE In(found[source], "silent") = Gone(source)
    <3>0. source \in SourceIds
      BY <2>2 DEF Listened
    <3>1. PICK O : O = observe_corpora(source)
      OBVIOUS
    <3>2. PICK as_of \in Int : as_of = AsOf(source, asked)
      BY <1>1, AsOfIsATime
    <3>3. IsFiniteSet(O) /\ \A o \in O : o.at \in Int
      BY <1>1, <3>1, ObservationsAreTimed
    <3>8. PICK own \in Nat \ {0}, allowed \in Nat :
             own = IntervalOf(source, interval) /\ allowed = GraceOf(source, grace)
      BY <3>0, CadenceOfSource
    <3>4. found[source] = build_heartbeat(O, as_of, own, allowed, inventory)
      BY <3>1, <3>2, <3>8 DEF reports
    <3>5. /\ DOMAIN found[source] = inventory \cup SenderOf(source)
          /\ \A host \in DOMAIN found[source] :
                found[source][host] = Beat(O, host, as_of, own, allowed)
      <4>1. HostsOf(O, inventory) = inventory \cup SenderOf(source)
        BY <3>1, HostsAreSenders DEF HostsOf
      <4> HIDE DEF found, SenderOf
      <4> QED
        BY <3>4, <4>1 DEF build_heartbeat
    <3>6. \A host : HeardSince(source, host) <=> Heard(O, host, as_of, own, allowed)
      BY <3>1, <3>2, <3>8 DEF Heard
    <3>7. \A host : Beat(O, host, as_of, own, allowed).state = "silent"
                       <=> ~Heard(O, host, as_of, own, allowed)
      BY <3>3, <3>8, SilentMeansUnheard
    <3> HIDE DEF found, HeardSince, SenderOf
    <3> QED
      BY <3>5, <3>6, <3>7 DEF In
  <2>3. DOMAIN found = Listened(wanted)
    BY DEF reports
  <2> HIDE DEF found, Gone
  <2>4. HeartbeatExit(found) = "ok" <=> \A source \in Listened(wanted) : Gone(source) = {}
    <3>1. HeartbeatExit(found) = "ok" <=> \A source \in Listened(wanted) : healthy(found[source])
      BY <2>3 DEF HeartbeatExit
    <3>2. \A source \in Listened(wanted) : healthy(found[source]) <=> Gone(source) = {}
      BY <2>2 DEF healthy
    <3> QED
      BY <3>1, <3>2
  <2> QED
    BY <2>2, <2>4 DEF found, Gone
<1>2. RecInv => SilenceIsNamed
  BY <1>1 DEF SilenceIsNamed
<1> QED
  BY <1>2, RecInvariant, PTL

=============================================================================
