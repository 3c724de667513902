----------------------------- MODULE Store_proofs -----------------------------
(***************************************************************************)
(* Proofs about Store: for any number of processes, any workloads and any  *)
(* retention period, the database stays an archive of whole runs (it       *)
(* implements Archive), loads are whole, stored runs stay, a recorded      *)
(* migration has created its tables, and an edited one is the last.        *)
(*                                                                         *)
(* The argument: the write transaction is the only writer (Transactions),  *)
(* it holds a whole run or a purge (DraftOf), a run has rows only once     *)
(* its process is done (Unsaved), and a script has executed what lies      *)
(* before its position (ScriptOf).  That an edited migration ends all      *)
(* migrating rests on their order: who reads the version rows is stopped   *)
(* at the edited one before he reaches any that is pending (Halted).       *)
(***************************************************************************)
EXTENDS Store, TLAPS

---------------------------------------------------------------------------
(* The inductive invariant: what holds of a process in local state l *)

\* Where a process is bounds its cursors.
CursorsOf(p, l) ==
    /\ l.at = "load" => l.k \in 1..3 /\ l.target \in Runs
    /\ l.at = "insert" => l.k \in 1..5
    /\ l.at \in {"prune", "delete", "purge", "vacuum"} => job[p] = "prune"
    /\ l.at = "idle" => l = Idle
    /\ l.cutoff <= today

\* What the open transaction of a process holds.
Inserted(n) == {t \in Parts : \E i \in 1..n : SaveOrder[i] = t}
Purged(cutoff) == [r \in Runs |-> IF Expired(r, cutoff) THEN {} ELSE rows[r]]
DraftOf(p, l) ==
    /\ l.at = "insert" => draft = [rows EXCEPT ![p] = Inserted(l.k - 1)]
    /\ l.at = "purge" => draft = Purged(l.cutoff)

\* A run that is loaded was there, so its process is done.
TargetOf(l) == l.target \in Procs => me[l.target].at = "done"

\* What a load has seen so far.
Read(n) == {t \in LoadedParts : \E i \in 1..n : LoadOrder[i] = t}
LoadOf(l) ==
    /\ l.at \in {"idle", "compare", "find"} => l.seen = {} /\ l.target = NoProc
    /\ l.at = "load" => rows[l.target] = {} \/ l.seen = Read(l.k - 1)
    /\ l.at \in {"save", "done"} /\ l.target # NoProc =>
          l.seen = LoadedParts \/ rows[l.target] = {}

\* A script has executed the statements before its position.
ScriptOf(l) ==
    l.at = "script" /\ l.m \in Versions =>
        \A i \in DOMAIN Migrations[l.m] :
            i <= l.s /\ Migrations[l.m][i].op = "table" => Migrations[l.m][i].name \in objects

LocalInv(p, l) ==
    CursorsOf(p, l) /\ DraftOf(p, l) /\ TargetOf(l) /\ LoadOf(l) /\ ScriptOf(l)

\* Exactly the holder of the write lock is inside a transaction.
Transactions ==
    /\ \A p \in Procs : me[p].at \in {"insert", "purge"} <=> lock = p
    /\ lock = NoProc => draft = rows

\* Whole runs, and of processes that are done only.
Unsaved == \A p \in Procs : me[p].at # "done" => rows[p] = {}
Whole == \A r \in Runs : rows[r] = {} \/ LoadedParts \subseteq rows[r]

IInv == /\ StoreTypeOK /\ Transactions /\ Unsaved /\ Whole
        /\ StoredRunsStay /\ RecordedTablesExist
        /\ \A p \in Procs : LocalInv(p, me[p])

---------------------------------------------------------------------------
(* Facts about the schema *)

LEMMA SchemaFacts ==
    /\ Versions = 1..3
    /\ Len(Migrations) = 3
    /\ DOMAIN Migrations[1] = 1..3 /\ DOMAIN Migrations[2] = 1..1 /\ DOMAIN Migrations[3] = 1..2
    /\ \A m \in 1..3 : Len(Migrations[m]) \in Nat /\ DOMAIN Migrations[m] = 1..Len(Migrations[m])
    /\ \A m \in 1..3 : \A i \in DOMAIN Migrations[m] :
          /\ Migrations[m][i].name \in ObjectsOf(m)
          /\ Migrations[m][i].name \in Objects
          /\ Migrations[m][i].op = "table" => Migrations[m][i].name # "latest_case_outcomes"
          /\ Migrations[m][i].op = "drop" => Migrations[m][i].name = "latest_case_outcomes"
<1>1. Versions = 1..3 /\ Len(Migrations) = 3
  BY DEF Versions, Migrations
<1>2. Len(Migrations[1]) = 3 /\ Len(Migrations[2]) = 1 /\ Len(Migrations[3]) = 2
  BY DEF Migrations
<1>3. DOMAIN Migrations[1] = 1..3 /\ DOMAIN Migrations[2] = 1..1 /\ DOMAIN Migrations[3] = 1..2
  BY DEF Migrations
<1>4. \A m \in 1..3 : Len(Migrations[m]) \in Nat /\ DOMAIN Migrations[m] = 1..Len(Migrations[m])
  BY <1>2, <1>3
<1>5. \A m \in 1..3 : \A i \in DOMAIN Migrations[m] :
          /\ Migrations[m][i].op = "table" => Migrations[m][i].name # "latest_case_outcomes"
          /\ Migrations[m][i].op = "drop" => Migrations[m][i].name = "latest_case_outcomes"
  BY <1>3 DEF Migrations, Table, DropView, CreateView
<1>6. \A m \in 1..3 : \A i \in DOMAIN Migrations[m] : Migrations[m][i].name \in ObjectsOf(m)
  BY <1>4 DEF ObjectsOf
<1>7. \A m \in 1..3 : \A i \in DOMAIN Migrations[m] : Migrations[m][i].name \in Objects
  BY <1>1, <1>6 DEF Objects
<1> QED
  BY <1>1, <1>3, <1>4, <1>5, <1>6, <1>7

\* The tables in the order they are saved and loaded.
LEMMA OrderFacts ==
    /\ Len(SaveOrder) = 4 /\ \A i \in 1..4 : SaveOrder[i] \in Parts
    /\ Inserted(0) = {} /\ Inserted(4) = Parts
    /\ \A k \in 1..4 : Inserted(k) = Inserted(k - 1) \cup {SaveOrder[k]}
    /\ Len(LoadOrder) = 3 /\ \A i \in 1..3 : LoadOrder[i] \in LoadedParts
    /\ LoadOrder[1] = "runs"
    /\ Read(0) = {} /\ Read(3) = LoadedParts
    /\ \A k \in 1..3 : Read(k) = Read(k - 1) \cup {LoadOrder[k]}
<1>1. Len(SaveOrder) = 4 /\ \A i \in 1..4 : SaveOrder[i] \in Parts
  BY DEF SaveOrder, Parts
<1>2. \A t \in Parts : \E i \in 1..4 : SaveOrder[i] = t
  <2>1. /\ SaveOrder[1] = "runs" /\ SaveOrder[2] = "cases" /\ SaveOrder[3] = "emulations"
        /\ SaveOrder[4] = "rule_snapshots"
    BY DEF SaveOrder
  <2> QED
    BY <2>1 DEF Parts
<1>3. Len(LoadOrder) = 3 /\ (\A i \in 1..3 : LoadOrder[i] \in LoadedParts) /\ LoadOrder[1] = "runs"
  BY DEF LoadOrder, LoadedParts
<1>4. \A t \in LoadedParts : \E i \in 1..3 : LoadOrder[i] = t
  <2>1. LoadOrder[1] = "runs" /\ LoadOrder[2] = "emulations" /\ LoadOrder[3] = "cases"
    BY DEF LoadOrder
  <2> QED
    BY <2>1 DEF LoadedParts
<1>5. Inserted(0) = {} /\ Inserted(4) = Parts
  BY <1>2 DEF Inserted
<1>6. \A k \in 1..4 : Inserted(k) = Inserted(k - 1) \cup {SaveOrder[k]}
  BY <1>1 DEF Inserted
<1>7. Read(0) = {} /\ Read(3) = LoadedParts
  BY <1>4 DEF Read
<1>8. \A k \in 1..3 : Read(k) = Read(k - 1) \cup {LoadOrder[k]}
  BY <1>3 DEF Read
<1> QED
  BY <1>1, <1>3, <1>5, <1>6, <1>7, <1>8

---------------------------------------------------------------------------
(* Steps that change one process only *)

Quiet == UNCHANGED <<schema, data, world>>
Moved(p, l) == me' = [me EXCEPT ![p] = l]

\* A process that holds no lock and is not done moves to a place where it holds
\* none, and nothing else changes: it is enough that the place suits it.
LEMMA QuietStep ==
    ASSUME IInv, NEW p \in Procs, NEW l \in Local, Quiet, Moved(p, l),
           me[p].at \notin {"insert", "purge", "done"}, l.at \notin {"insert", "purge"},
           CursorsOf(p, l), TargetOf(l), LoadOf(l), ScriptOf(l),
           l.at = "done" => job[p] # "run"
    PROVE  IInv'
<1> USE DEF Quiet, Moved, schema, data, world
<1>1. me' \in [Procs -> Local] /\ me'[p] = l /\ \A q \in Procs : q # p => me'[q] = me[q]
  BY DEF IInv, StoreTypeOK
<1>2. StoreTypeOK'
  BY <1>1 DEF IInv, StoreTypeOK
<1>3. Transactions'
  BY <1>1 DEF IInv, Transactions
<1>4. rows[p] = {}
  BY DEF IInv, Unsaved
<1>5. Unsaved' /\ Whole'
  BY <1>1, <1>4 DEF IInv, Unsaved, Whole
<1>6. StoredRunsStay'
  BY <1>1 DEF IInv, StoredRunsStay
<1>7. RecordedTablesExist'
  BY DEF IInv, RecordedTablesExist
<1>8. ASSUME NEW q \in Procs PROVE LocalInv(q, me[q])'
  <2>1. CursorsOf(q, me[q])'
    BY <1>1 DEF IInv, LocalInv, CursorsOf
  <2>2. DraftOf(q, me[q])'
    BY <1>1 DEF IInv, LocalInv, DraftOf, Purged, Expired
  <2>3. TargetOf(me[q])'
    <3>1. TargetOf(l) /\ TargetOf(me[q])
      BY DEF IInv, LocalInv
    <3>2. me[q]' = me[q] \/ me[q]' = l
      BY <1>1
    <3>3. ASSUME NEW r \in Procs, me[r].at = "done" PROVE me'[r].at = "done"
      BY <1>1, <3>3
    <3> QED
      BY <3>1, <3>2, <3>3 DEF TargetOf
  <2>4. LoadOf(me[q])'
    BY <1>1 DEF IInv, LocalInv, LoadOf
  <2>5. ScriptOf(me[q])'
    BY <1>1 DEF IInv, LocalInv, ScriptOf
  <2> QED
    BY <2>1, <2>2, <2>3, <2>4, <2>5 DEF LocalInv
<1> QED
  BY <1>2, <1>3, <1>5, <1>6, <1>7, <1>8 DEF IInv

\* A process that ends without its lock has nothing left to keep.
LEMMA EndKeeps ==
    ASSUME IInv, NEW p \in Procs, NEW how \in Ended, Quiet, End(p, how),
           me[p].at \notin {"insert", "purge", "done"}, how = "done" => job[p] # "run"
    PROVE  IInv'
<1> DEFINE l == [Idle EXCEPT !.at = how]
<1>1. l \in Local /\ l.at = how /\ l.target = NoProc /\ l.seen = {} /\ l.cutoff = 0
  BY DEF Local, Idle, Places, Ended
<1>2. Moved(p, l)
  BY DEF Moved, End
<1>3. NoProc \notin Procs
  BY StoreAssumption DEF Runs
<1>4. CursorsOf(p, l) /\ TargetOf(l) /\ LoadOf(l) /\ ScriptOf(l)
  BY <1>1, <1>3 DEF CursorsOf, TargetOf, LoadOf, ScriptOf, Ended, IInv, StoreTypeOK
<1>5. l.at \notin {"insert", "purge"}
  BY <1>1 DEF Ended
<1> HIDE DEF l
<1> QED
  BY <1>1, <1>2, <1>4, <1>5, QuietStep

\* A process that only changes its place.
LEMMA GotoKeeps ==
    ASSUME IInv, NEW p \in Procs, NEW place \in Places, Quiet, Goto(p, place),
           me[p].at \notin {"insert", "purge", "done", "idle"},
           place \notin {"insert", "purge", "idle", "compare", "load", "script"},
           place = "find" => me[p].at = "compare",
           place \in {"prune", "delete", "vacuum"} => job[p] = "prune",
           place \in {"save", "done"} => me[p].target = NoProc,
           place = "done" => job[p] # "run"
    PROVE  IInv'
<1> DEFINE l == [me[p] EXCEPT !.at = place]
<1>1. me[p] \in Local
  BY DEF IInv, StoreTypeOK
<1>2. /\ l \in Local /\ l.at = place /\ l.target = me[p].target /\ l.seen = me[p].seen
      /\ l.cutoff = me[p].cutoff
  BY <1>1 DEF Local
<1>3. Moved(p, l)
  BY <1>1 DEF Moved, Goto
<1>4. LocalInv(p, me[p])
  BY DEF IInv
<1>5. CursorsOf(p, l) /\ TargetOf(l) /\ LoadOf(l) /\ ScriptOf(l)
  BY <1>2, <1>4 DEF LocalInv, CursorsOf, TargetOf, LoadOf, ScriptOf
<1> HIDE DEF l
<1> QED
  BY <1>2, <1>3, <1>5, QuietStep

---------------------------------------------------------------------------
(* Reading, and everything else that moves a process only *)

LEMMA IInit == StoreInit => IInv
<1> SUFFICES ASSUME StoreInit PROVE IInv
  OBVIOUS
<1>1. PICK n \in Installed :
        /\ objects = UNION {ObjectsOf(m) : m \in 1..n}
        /\ versions = [m \in Versions |-> IF m <= n THEN "original" ELSE "none"]
        /\ rows = [r \in Runs |-> IF r \in OldRuns THEN Parts \cap objects ELSE {}]
  BY DEF StoreInit
<1>2. n \in 0..3
  BY StoreAssumption
<1>3. Idle \in Local
  BY DEF Idle, Local, Places
<1>4. StoreTypeOK
  <2>1. objects \subseteq Objects
    BY <1>1, <1>2, SchemaFacts DEF Objects
  <2>2. rows \in [Runs -> SUBSET Parts]
    BY <1>1
  <2>3. started \in [Runs -> Nat] /\ today \in Nat
    BY StoreAssumption DEF StoreInit
  <2>4. files \in [Versions -> {"original", "edited"}]
    BY StoreAssumption, SchemaFacts DEF StoreInit
  <2> QED
    BY <2>1, <2>2, <2>3, <2>4, <1>1, <1>3 DEF StoreInit, StoreTypeOK
<1>5. Transactions
  BY StoreAssumption DEF StoreInit, Transactions, Idle, Runs
<1>6. Unsaved
  BY <1>1, StoreAssumption DEF Unsaved, Runs
<1>7. Whole
  <2>1. n = 0 \/ LoadedParts \subseteq objects
    <3>1. LoadedParts \subseteq ObjectsOf(1)
      <4>1. Migrations[1][1].name = "runs" /\ Migrations[1][2].name = "cases"
            /\ Migrations[1][3].name = "emulations"
        BY DEF Migrations, Table
      <4>2. Len(Migrations[1]) = 3
        BY DEF Migrations
      <4> QED
        BY <4>1, <4>2 DEF ObjectsOf, LoadedParts
    <3> QED
      BY <3>1, <1>1, <1>2
  <2>2. n = 0 => objects = {}
    BY <1>1
  <2>3. LoadedParts \subseteq Parts
    BY DEF LoadedParts, Parts
  <2> QED
    BY <2>1, <2>2, <2>3, <1>1 DEF Whole
<1>8. StoredRunsStay
  BY DEF StoreInit, StoredRunsStay, Idle
<1>9. RecordedTablesExist
  BY <1>1, <1>2, SchemaFacts DEF RecordedTablesExist
<1>10. \A p \in Procs : LocalInv(p, me[p])
  BY StoreAssumption DEF StoreInit, LocalInv, CursorsOf, DraftOf, TargetOf, LoadOf, ScriptOf,
     Idle, Runs
<1> QED
  BY <1>4, <1>5, <1>6, <1>7, <1>8, <1>9, <1>10 DEF IInv

\* Where the steps of a process leave it: nothing but its local state changes.
LEMMA LookKeeps ==
    ASSUME IInv, NEW p \in Procs, Look(p) \/ Save(p) PROVE IInv'
<1>1. CASE Look(p) /\ is_initialised
  BY <1>1, GotoKeeps DEF Look, Quiet, Places
<1>2. CASE Look(p) /\ ~is_initialised
  <2>1. me[p].target = NoProc
    BY <1>2 DEF IInv, LocalInv, LoadOf, Look
  <2>2. AfterLoad(p) \in Places /\ AfterLoad(p) \in {"save", "done"}
        /\ (AfterLoad(p) = "done" => job[p] # "run")
    BY DEF AfterLoad, Places, Ended
  <2> QED
    BY <1>2, <2>1, <2>2, GotoKeeps DEF Look, Quiet
<1>3. CASE Save(p) /\ is_initialised
  BY <1>3, GotoKeeps DEF Save, Quiet, Places
<1>4. CASE Save(p) /\ ~is_initialised
  BY <1>4, GotoKeeps DEF Save, Quiet, Places
<1> QED
  BY <1>1, <1>2, <1>3, <1>4

LEMMA FindKeeps ==
    ASSUME IInv, NEW p \in Procs, Find(p) PROVE IInv'
<1>1. me[p] \in Local /\ me[p].target = NoProc /\ me[p].seen = {} /\ LocalInv(p, me[p])
  BY DEF IInv, StoreTypeOK, LocalInv, LoadOf, Find
<1>2. CASE Candidates(p) = {}
  <2>1. AfterLoad(p) \in Places /\ AfterLoad(p) \in {"save", "done"}
        /\ (AfterLoad(p) = "done" => job[p] # "run")
    BY DEF AfterLoad, Places, Ended
  <2> QED
    BY <1>1, <1>2, <2>1, GotoKeeps DEF Find, Quiet
<1>3. CASE Candidates(p) # {}
  <2>1. PICK r \in Newest(Candidates(p)) :
          me' = [me EXCEPT ![p].at = "load", ![p].target = r, ![p].k = 1]
    BY <1>3 DEF Find
  <2>2. r \in Runs /\ "runs" \in rows[r]
    BY DEF Newest, Candidates
  <2> DEFINE l == [me[p] EXCEPT !.at = "load", !.target = r, !.k = 1]
  <2>3. /\ l \in Local /\ l.at = "load" /\ l.target = r /\ l.k = 1 /\ l.seen = {}
        /\ l.cutoff = me[p].cutoff
    BY <1>1, <2>2 DEF Local, Places
  <2>4. Moved(p, l)
    BY <1>1, <2>1 DEF Moved
  <2>5. TargetOf(l)
    BY <2>2, <2>3 DEF IInv, Unsaved, TargetOf
  <2> HIDE DEF l
  <2>6. CursorsOf(p, l) /\ ScriptOf(l)
    BY <1>1, <2>2, <2>3 DEF LocalInv, CursorsOf, ScriptOf
  <2>7. Read(1 - 1) = {}
    BY OrderFacts
  <2>8. LoadOf(l)
    BY <2>3, <2>7 DEF LoadOf
  <2> QED
    BY <2>3, <2>4, <2>5, <2>6, <2>8, QuietStep DEF Find, Quiet
<1> QED
  BY <1>2, <1>3

LEMMA LoadKeeps ==
    ASSUME IInv, NEW p \in Procs, Load(p) PROVE IInv'
<1> DEFINE table == LoadOrder[me[p].k]
           found == table \in rows[me[p].target]
           end == me[p].k = Len(LoadOrder) \/ (table = "runs" /\ ~found)
           seen == IF found THEN me[p].seen \cup {table} ELSE me[p].seen
           target == IF table = "runs" /\ ~found THEN NoProc ELSE me[p].target
           next == IF end THEN 1 ELSE me[p].k + 1
           place == IF end THEN AfterLoad(p) ELSE "load"
           l == [me[p] EXCEPT !.seen = seen, !.target = target, !.k = next, !.at = place]
<1>1. /\ me[p] \in Local /\ me[p].at = "load" /\ LocalInv(p, me[p])
      /\ me[p].k \in 1..3 /\ me[p].target \in Runs /\ me[p].seen \subseteq LoadedParts
  BY DEF IInv, StoreTypeOK, LocalInv, CursorsOf, Load, Local
<1>2. CASE table \notin objects
  BY <1>1, <1>2, EndKeeps DEF Load, Quiet, Raised, Ended
<1>3. CASE table \in objects
  <2>1. Moved(p, l)
    BY ZenonT(30), <1>1, <1>3 DEF Load, Moved
  <2>2. AfterLoad(p) \in {"save", "done"} /\ (AfterLoad(p) = "done" => job[p] # "run")
    BY DEF AfterLoad
  <2>3. table \in LoadedParts
    BY <1>1, OrderFacts
  <2>4. /\ l \in Local /\ l.cutoff = me[p].cutoff
        /\ l.seen = seen /\ l.target = target /\ l.k = next /\ l.at = place
    <3>1. seen \subseteq LoadedParts /\ target \in Runs \cup {NoProc} /\ next \in Nat /\ place \in Places
      BY <1>1, <2>2, <2>3 DEF Places, Ended
    <3> HIDE DEF seen, target, next, place
    <3> QED
      BY <1>1, <3>1 DEF Local
  <2>5. NoProc \notin Runs /\ Len(LoadOrder) = 3
    BY StoreAssumption, OrderFacts
  <2>6. CursorsOf(p, l)
    BY <1>1, <2>2, <2>4, <2>5 DEF CursorsOf, LocalInv
  <2>7. TargetOf(l)
    BY <1>1, <2>4, <2>5 DEF TargetOf, LocalInv, Runs
  <2>8. LoadOf(l)
    <3>1. rows[me[p].target] = {} \/ (LoadedParts \subseteq rows[me[p].target]
             /\ me[p].seen = Read(me[p].k - 1))
      BY <1>1 DEF IInv, Whole, LocalInv, LoadOf
    <3>2. CASE rows[me[p].target] = {}
      BY <1>1, <2>2, <2>4, <2>5, <3>2 DEF LoadOf
    <3>3. CASE LoadedParts \subseteq rows[me[p].target] /\ me[p].seen = Read(me[p].k - 1)
      <4>1. found /\ l.seen = Read(me[p].k)
        BY <1>1, <2>3, <2>4, <3>3, OrderFacts
      <4>2. me[p].k = 3 => l.seen = LoadedParts
        BY <4>1, OrderFacts
      <4>3. me[p].k # 3 => l.at = "load" /\ l.k - 1 = me[p].k
        BY <1>1, <2>4, <2>5, <4>1
      <4> HIDE DEF l, found, table
      <4> QED
        BY <1>1, <2>2, <2>4, <2>5, <4>1, <4>2, <4>3 DEF LoadOf
    <3> QED
      BY <3>1, <3>2, <3>3
  <2>9. ScriptOf(l)
    BY <2>2, <2>4 DEF ScriptOf
  <2>10. l.at \notin {"insert", "purge"} /\ (l.at = "done" => job[p] # "run")
    BY <2>2, <2>4
  <2> HIDE DEF l, end, found, table
  <2> QED
    BY <1>1, <2>1, <2>4, <2>6, <2>7, <2>8, <2>9, <2>10, QuietStep DEF Load, Quiet
<1> QED
  BY <1>2, <1>3

LEMMA StartKeeps ==
    ASSUME IInv, NEW p \in Procs, Start(p) PROVE IInv'
<1> DEFINE place == CASE job[p] = "run" -> "compare" [] job[p] = "view" -> "compare"
                      [] OTHER -> job[p]
           l == [me[p] EXCEPT !.at = place]
<1> USE DEF schema, data
<1>1. /\ me[p] = Idle /\ me[p] \in Local /\ me[p].at = "idle" /\ LocalInv(p, me[p])
      /\ rows[p] = {} /\ lock # p
  BY DEF IInv, StoreTypeOK, LocalInv, CursorsOf, Unsaved, Transactions, Start
<1>2. place \in {"compare", "migrate", "prune"} /\ (place = "prune" => job[p] = "prune")
  BY StoreAssumption DEF IInv, StoreTypeOK, Jobs, Start
<1>3. /\ l \in Local /\ l.at = place /\ l.target = NoProc /\ l.seen = {} /\ l.cutoff = 0
  <2> HIDE DEF place
  <2> QED
    BY <1>1, <1>2 DEF Local, Places, Idle
<1>4. me' = [me EXCEPT ![p] = l]
  BY <1>1 DEF Start, Goto, IInv, StoreTypeOK
<1>5. /\ me' \in [Procs -> Local] /\ me'[p] = l /\ \A q \in Procs : q # p => me'[q] = me[q]
      /\ started' \in [Runs -> Nat] /\ \A r \in Runs : r # p => started'[r] = started[r]
      /\ UNCHANGED <<objects, versions, files, rows, lock, draft, today, job>>
  <2> HIDE DEF l
  <2> QED
    BY <1>3, <1>4 DEF IInv, StoreTypeOK, Start
<1> HIDE DEF l, place
<1>6. StoreTypeOK'
  BY <1>5 DEF IInv, StoreTypeOK
<1>7. Transactions'
  BY <1>1, <1>2, <1>3, <1>5 DEF IInv, Transactions
<1>8. Unsaved' /\ Whole'
  BY <1>1, <1>5 DEF IInv, Unsaved, Whole
<1>9. StoredRunsStay'
  BY <1>2, <1>3, <1>5 DEF IInv, StoredRunsStay, Runs
<1>10. RecordedTablesExist'
  BY <1>5 DEF IInv, RecordedTablesExist
<1>11. ASSUME NEW q \in Procs PROVE LocalInv(q, me[q])'
  <2>1. CASE q = p
    <3>1. NoProc \notin Procs
      BY StoreAssumption DEF Runs
    <3> QED
      BY <1>2, <1>3, <1>5, <2>1, <3>1 DEF IInv, StoreTypeOK, LocalInv, CursorsOf, DraftOf, TargetOf,
         LoadOf, ScriptOf
  <2>2. CASE q # p
    <3>1. me'[q] = me[q] /\ LocalInv(q, me[q])
      BY <1>5, <2>2 DEF IInv
    <3>2. CursorsOf(q, me[q])' /\ ScriptOf(me[q])'
      BY <1>5, <3>1 DEF LocalInv, CursorsOf, ScriptOf
    <3>3. TargetOf(me[q])' /\ LoadOf(me[q])'
      <4>1. \A r \in Procs : me[r].at = "done" => me'[r].at = "done"
        BY <1>1, <1>5
      <4> QED
        BY <1>5, <3>1, <4>1 DEF LocalInv, TargetOf, LoadOf
    <3>4. ASSUME NEW c PROVE Purged(c)' = Purged(c)
      BY <1>1, <1>5 DEF Purged, Expired
    <3>5. DraftOf(q, me[q])'
      BY <1>5, <3>1, <3>4 DEF LocalInv, DraftOf
    <3> QED
      BY <3>2, <3>3, <3>5 DEF LocalInv
  <2> QED
    BY <2>1, <2>2
<1> QED
  BY <1>6, <1>7, <1>8, <1>9, <1>10, <1>11 DEF IInv

LEMMA NextDayKeeps ==
    ASSUME IInv, NextDay PROVE IInv'
<1> USE DEF schema, data
<1>1. today \in Nat /\ today' = today + 1 /\ UNCHANGED <<schema, data, started, job, me>>
  BY DEF IInv, StoreTypeOK, NextDay
<1>2. StoreTypeOK' /\ Transactions' /\ Unsaved' /\ Whole' /\ RecordedTablesExist'
  BY <1>1 DEF IInv, StoreTypeOK, Transactions, Unsaved, Whole, RecordedTablesExist
<1>3. StoredRunsStay'
  BY <1>1, StoreAssumption DEF IInv, StoreTypeOK, StoredRunsStay, Runs
<1>4. ASSUME NEW q \in Procs PROVE LocalInv(q, me[q])'
  <2>1. LocalInv(q, me[q]) /\ me[q].cutoff \in Nat
    BY DEF IInv, StoreTypeOK, Local
  <2>2. CursorsOf(q, me[q])'
    BY <1>1, <2>1 DEF LocalInv, CursorsOf
  <2>3. DraftOf(q, me[q])' /\ TargetOf(me[q])' /\ LoadOf(me[q])' /\ ScriptOf(me[q])'
    BY <1>1, <2>1 DEF LocalInv, DraftOf, Purged, Expired, TargetOf, LoadOf, ScriptOf
  <2> QED
    BY <2>2, <2>3 DEF LocalInv
<1> QED
  BY <1>2, <1>3, <1>4 DEF IInv

---------------------------------------------------------------------------
(* Migrating *)

LEMMA OpenMigrationsKeeps ==
    ASSUME IInv, NEW p \in Procs, OpenMigrations(p) PROVE IInv'
<1> DEFINE l == [me[p] EXCEPT !.at = "script", !.m = 1, !.s = 0, !.applied = versions]
<1>1. me[p] \in Local /\ me[p].at = "migrate" /\ LocalInv(p, me[p])
  BY DEF IInv, StoreTypeOK, OpenMigrations
<1>2. /\ l \in Local /\ l.at = "script" /\ l.m = 1 /\ l.s = 0 /\ l.target = me[p].target
      /\ l.seen = me[p].seen /\ l.cutoff = me[p].cutoff
  BY <1>1 DEF Local, Places, IInv, StoreTypeOK
<1>3. Moved(p, l)
  BY <1>1 DEF Moved, OpenMigrations
<1> HIDE DEF l
<1>4. ScriptOf(l)
  BY <1>2, SchemaFacts DEF ScriptOf
<1>5. CursorsOf(p, l) /\ TargetOf(l) /\ LoadOf(l)
  BY <1>1, <1>2 DEF LocalInv, CursorsOf, TargetOf, LoadOf
<1> QED
  BY <1>1, <1>2, <1>3, <1>4, <1>5, QuietStep DEF OpenMigrations, Quiet

\* The next position in a script or after it.
CursorAt(l, m, s) == [l EXCEPT !.m = m, !.s = s]

LEMMA CursorMoves ==
    ASSUME NEW l \in Local, NEW m \in Nat, NEW s \in Nat
    PROVE  /\ CursorAt(l, m, s) \in Local /\ CursorAt(l, m, s).at = l.at
           /\ CursorAt(l, m, s).m = m /\ CursorAt(l, m, s).s = s
           /\ CursorAt(l, m, s).target = l.target /\ CursorAt(l, m, s).seen = l.seen
           /\ CursorAt(l, m, s).cutoff = l.cutoff
BY DEF Local, CursorAt

LEMMA SkipKeeps ==
    ASSUME IInv, NEW p \in Procs, SkipMigration(p) PROVE IInv'
<1> DEFINE l == CursorAt(me[p], me[p].m + 1, 0)
<1>1. me[p] \in Local /\ me[p].at = "script" /\ me[p].m \in Nat /\ LocalInv(p, me[p])
  BY DEF IInv, StoreTypeOK, SkipMigration, InScript, Local
<1>0. me[p].m + 1 \in Nat /\ 0 \in Nat
  BY <1>1
<1>2. /\ l \in Local /\ l.at = "script" /\ l.s = 0 /\ l.target = me[p].target
      /\ l.seen = me[p].seen /\ l.cutoff = me[p].cutoff
  BY <1>0, <1>1 DEF Local, CursorAt
<1>3. Moved(p, l)
  BY <1>1 DEF Moved, SkipMigration, NextMigration, CursorAt
<1> HIDE DEF l
<1>4. ScriptOf(l)
  BY <1>2, SchemaFacts DEF ScriptOf
<1>5. CursorsOf(p, l) /\ TargetOf(l) /\ LoadOf(l)
  BY <1>1, <1>2 DEF LocalInv, CursorsOf, TargetOf, LoadOf
<1> QED
  BY <1>1, <1>2, <1>3, <1>4, <1>5, QuietStep DEF SkipMigration, Quiet

\* A process that executes or records: the schema grows but for the view.
LEMMA ScriptStep ==
    ASSUME IInv, NEW p \in Procs, NEW l \in Local, Moved(p, l),
           UNCHANGED <<files, data, world>>, me[p].at = "script",
           l.at \in {"script", "refused", "raised"},
           l.at = "script" => l.target = me[p].target /\ l.seen = me[p].seen,
           l.at # "script" => l.target = NoProc,
           l.cutoff = 0 \/ l.cutoff = me[p].cutoff,
           objects' \subseteq Objects, objects \ {"latest_case_outcomes"} \subseteq objects',
           versions' \in [Versions -> {"none", "original", "edited"}],
           RecordedTablesExist', ScriptOf(l)'
    PROVE  IInv'
<1> USE DEF Moved, data, world
<1>1. /\ me' \in [Procs -> Local] /\ me'[p] = l /\ \A q \in Procs : q # p => me'[q] = me[q]
      /\ me[p] \in Local /\ LocalInv(p, me[p])
  BY DEF IInv, StoreTypeOK
<1>2. StoreTypeOK' /\ Transactions' /\ Unsaved' /\ Whole' /\ StoredRunsStay'
  BY <1>1 DEF IInv, StoreTypeOK, Transactions, Unsaved, Whole, StoredRunsStay
<1>3. ASSUME NEW q \in Procs PROVE LocalInv(q, me[q])'
  <2>1. LocalInv(q, me[q])
    BY DEF IInv
  <2>2. CursorsOf(q, me[q])'
    <3>1. 0 <= today
      BY DEF IInv, StoreTypeOK
    <3> QED
      BY <1>1, <2>1, <3>1 DEF LocalInv, CursorsOf
  <2>3. DraftOf(q, me[q])'
    BY <1>1, <2>1 DEF LocalInv, DraftOf, Purged, Expired
  <2>4. TargetOf(me[q])'
    <3>1. NoProc \notin Procs
      BY StoreAssumption DEF Runs
    <3> QED
      BY <1>1, <2>1, <3>1 DEF LocalInv, TargetOf
  <2>5. LoadOf(me[q])'
    BY <1>1, <2>1 DEF LocalInv, LoadOf
  <2>6. ScriptOf(me[q])'
    <3>1. CASE q = p
      BY <1>1, <3>1
    <3>2. CASE q # p
      <4>1. me'[q] = me[q] /\ ScriptOf(me[q])
        BY <1>1, <2>1, <3>2 DEF LocalInv
      <4>2. ASSUME me[q].at = "script", me[q].m \in Versions,
                   NEW i \in DOMAIN Migrations[me[q].m], i <= me[q].s,
                   Migrations[me[q].m][i].op = "table"
            PROVE  Migrations[me[q].m][i].name \in objects'
        <5>1. Migrations[me[q].m][i].name \in objects
          BY <4>1, <4>2 DEF ScriptOf
        <5>2. Migrations[me[q].m][i].name # "latest_case_outcomes"
          BY <4>2, SchemaFacts
        <5> QED
          BY <5>1, <5>2
      <4> QED
        BY <4>1, <4>2 DEF ScriptOf
    <3> QED
      BY <3>1, <3>2
  <2> QED
    BY <2>2, <2>3, <2>4, <2>5, <2>6 DEF LocalInv
<1> QED
  BY <1>2, <1>3 DEF IInv

LEMMA ExecuteKeeps ==
    ASSUME IInv, NEW p \in Procs, Execute(p) PROVE IInv'
<1> DEFINE m == me[p].m
           statement == Migrations[m][me[p].s + 1]
<1>1. /\ me[p] \in Local /\ me[p].at = "script" /\ LocalInv(p, me[p])
      /\ m \in 1..3 /\ me[p].s \in Nat /\ me[p].s + 1 \in DOMAIN Migrations[m]
  <2>1. me[p] \in Local /\ LocalInv(p, me[p])
    BY DEF IInv, StoreTypeOK
  <2>2. me[p].at = "script" /\ m \in Versions /\ me[p].s < Len(Migrations[m])
    BY DEF Execute, Pending, InScript
  <2>3. me[p].s \in Nat
    BY <2>1 DEF Local
  <2> QED
    BY <2>1, <2>2, <2>3, SchemaFacts
<1>2. /\ statement.name \in Objects
      /\ statement.op = "table" => statement.name # "latest_case_outcomes"
      /\ statement.op = "drop" => statement.name = "latest_case_outcomes"
  BY <1>1, SchemaFacts
<1>3. /\ UNCHANGED <<versions, files, data, world>>
      /\ \/ Refused(p) /\ UNCHANGED objects
         \/ /\ objects' = IF statement.op = "drop" THEN objects \ {statement.name}
                          ELSE objects \cup {statement.name}
            /\ me' = [me EXCEPT ![p].s = @ + 1]
  BY DEF Execute
<1>4. CASE Refused(p) /\ UNCHANGED objects
  BY <1>1, <1>3, <1>4, EndKeeps DEF Refused, Quiet, schema, Ended
<1>5. CASE /\ objects' = IF statement.op = "drop" THEN objects \ {statement.name}
                         ELSE objects \cup {statement.name}
           /\ me' = [me EXCEPT ![p].s = @ + 1]
  <2>a. m \in Nat /\ me[p].s + 1 \in Nat
    BY <1>1
  <2>0. PICK l \in Local : l = CursorAt(me[p], m, me[p].s + 1)
    BY <1>1, <2>a, CursorMoves, Zenon
  <2>1. /\ l.at = "script" /\ l.m = m /\ l.s = me[p].s + 1
        /\ l.target = me[p].target /\ l.seen = me[p].seen /\ l.cutoff = me[p].cutoff
    BY <1>1, <2>a, <2>0 DEF Local, CursorAt
  <2>2. Moved(p, l)
    <3>1. l = [me[p] EXCEPT !.s = @ + 1]
      BY <1>1, <2>0 DEF Local, CursorAt
    <3> QED
      BY <1>1, <1>5, <3>1 DEF Moved, IInv, StoreTypeOK
  <2>3. objects' \subseteq Objects /\ objects \ {"latest_case_outcomes"} \subseteq objects'
        /\ (statement.op = "table" => statement.name \in objects')
    BY <1>2, <1>5 DEF IInv, StoreTypeOK
  <2>4. versions' \in [Versions -> {"none", "original", "edited"}]
    BY <1>3 DEF IInv, StoreTypeOK
  <2>5. RecordedTablesExist'
    BY <1>3, <2>3, SchemaFacts DEF IInv, RecordedTablesExist
  <2>6. ScriptOf(l)'
    <3>1. ASSUME NEW i \in DOMAIN Migrations[m], i <= me[p].s + 1, Migrations[m][i].op = "table"
          PROVE  Migrations[m][i].name \in objects'
      <4>1. CASE i = me[p].s + 1
        BY <3>1, <4>1, <2>3
      <4>2. CASE i # me[p].s + 1
        <5>1. i <= me[p].s
          BY SMTT(20), <1>1, <3>1, <4>2, SchemaFacts
        <5>2. Migrations[m][i].name \in objects
          BY <1>1, <3>1, <5>1, SchemaFacts DEF LocalInv, ScriptOf
        <5>3. Migrations[m][i].name # "latest_case_outcomes"
          BY <1>1, <3>1, SchemaFacts
        <5> QED
          BY <5>2, <5>3, <2>3
      <4> QED
        BY <4>1, <4>2
    <3> QED
      BY <2>1, <3>1 DEF ScriptOf
  <2> QED
    BY <1>1, <1>3, <2>1, <2>2, <2>3, <2>4, <2>5, <2>6, ScriptStep
<1> QED
  BY <1>3, <1>4, <1>5

LEMMA RecordVersionKeeps ==
    ASSUME IInv, NEW p \in Procs, RecordVersion(p) PROVE IInv'
<1> DEFINE m == me[p].m
<1>1. /\ me[p] \in Local /\ me[p].at = "script" /\ LocalInv(p, me[p])
      /\ m \in 1..3 /\ me[p].s = Len(Migrations[m])
  BY SchemaFacts DEF IInv, StoreTypeOK, Local, RecordVersion, Pending, InScript, ScriptDone
<1>2. UNCHANGED <<objects, files, data, world>>
  BY DEF RecordVersion
<1>3. CASE versions[m] # "none"
  BY <1>1, <1>2, <1>3, EndKeeps DEF RecordVersion, Raised, Quiet, schema, Ended
<1>4. CASE versions[m] = "none"
  <2>a. m + 1 \in Nat /\ 0 \in Nat
    BY <1>1
  <2>0. PICK l \in Local : l = CursorAt(me[p], m + 1, 0)
    BY <1>1, <2>a, CursorMoves, Zenon
  <2>1. /\ l.at = "script" /\ l.s = 0
        /\ l.target = me[p].target /\ l.seen = me[p].seen /\ l.cutoff = me[p].cutoff
    BY <1>1, <2>a, <2>0 DEF Local, CursorAt
  <2>2. Moved(p, l) /\ versions' = [versions EXCEPT ![m] = files[m]]
    BY <1>1, <1>4, <2>0 DEF RecordVersion, NextMigration, Moved, CursorAt
  <2>3. versions' \in [Versions -> {"none", "original", "edited"}]
    BY <1>1, <2>2, SchemaFacts DEF IInv, StoreTypeOK
  <2>4. RecordedTablesExist'
    <3>1. ASSUME NEW i \in DOMAIN Migrations[m], Migrations[m][i].op = "table"
          PROVE  Migrations[m][i].name \in objects
      BY <1>1, <3>1, SchemaFacts DEF LocalInv, ScriptOf
    <3>2. \A n \in Versions : n # m => versions'[n] = versions[n]
      BY <2>2 DEF IInv, StoreTypeOK
    <3> QED
      BY <1>2, <3>1, <3>2 DEF IInv, RecordedTablesExist
  <2>5. ScriptOf(l)'
    BY <2>1, SchemaFacts DEF ScriptOf
  <2>6. objects' \subseteq Objects /\ objects \ {"latest_case_outcomes"} \subseteq objects'
    BY <1>2 DEF IInv, StoreTypeOK
  <2> QED
    BY <1>1, <1>2, <2>1, <2>2, <2>3, <2>4, <2>5, <2>6, ScriptStep
<1> QED
  BY <1>3, <1>4

LEMMA MigrationsDoneKeeps ==
    ASSUME IInv, NEW p \in Procs, MigrationsDone(p) PROVE IInv'
<1>1. CASE job[p] = "run"
  BY <1>1, GotoKeeps DEF MigrationsDone, Quiet, Places
<1>2. CASE job[p] # "run"
  BY <1>2, EndKeeps DEF MigrationsDone, Quiet, Ended
<1> QED
  BY <1>1, <1>2

---------------------------------------------------------------------------
(* Writing *)

\* A step of the process p while nobody else holds the write lock: it may only
\* store its own run whole, or drop runs.
LEMMA WriteStep ==
    ASSUME IInv, NEW p \in Procs, NEW l \in Local, Moved(p, l), UNCHANGED <<schema, world>>,
           me[p].at # "done", lock \in {p, NoProc}, lock' \in {p, NoProc},
           l.at \in {"insert", "purge"} <=> lock' = p,
           lock' = NoProc => draft' = rows',
           rows' \in [Runs -> SUBSET Parts], draft' \in [Runs -> SUBSET Parts],
           \A r \in Runs \ {p} : rows'[r] = rows[r] \/ (rows'[r] = {} /\ started[r] + KeepDays < today),
           rows'[p] = {} \/ (rows'[p] = Parts /\ l.at = "done"),
           l.at = "done" /\ job[p] = "run" => rows'[p] = Parts,
           CursorsOf(p, l), DraftOf(p, l)', TargetOf(l), ScriptOf(l),
           l.at \notin {"idle", "compare", "find", "load"},
           l.at \in {"save", "done"} => l.target = NoProc
    PROVE  IInv'
<1> USE DEF Moved, schema, world
<1>1. /\ me' \in [Procs -> Local] /\ me'[p] = l /\ \A q \in Procs : q # p => me'[q] = me[q]
      /\ p # NoProc /\ p \in Runs /\ NoProc \notin Procs
  BY StoreAssumption DEF IInv, StoreTypeOK, Runs
<1>2. StoreTypeOK'
  BY <1>1 DEF IInv, StoreTypeOK
<1>3. Transactions'
  BY <1>1 DEF IInv, Transactions
<1>4. Unsaved'
  BY <1>1 DEF IInv, Unsaved, Runs
<1>5. Whole'
  <2>1. LoadedParts \subseteq Parts
    BY DEF LoadedParts, Parts
  <2> QED
    BY <1>1, <2>1 DEF IInv, Whole
<1>6. StoredRunsStay'
  <2>1. ASSUME NEW q \in Procs, job[q] = "run", me'[q].at = "done", today <= started[q] + KeepDays
        PROVE  rows'[q] = Parts
    <3>1. CASE q = p
      BY <1>1, <2>1, <3>1
    <3>2. CASE q # p
      <4>1. rows[q] = Parts /\ q \in Runs \ {p}
        BY <1>1, <2>1, <3>2 DEF IInv, StoredRunsStay, Runs
      <4>2. ~(started[q] + KeepDays < today)
        BY <2>1, <4>1, StoreAssumption DEF IInv, StoreTypeOK
      <4> QED
        BY <4>1, <4>2
    <3> QED
      BY <3>1, <3>2
  <2> QED
    BY <2>1 DEF StoredRunsStay
<1>7. RecordedTablesExist'
  BY DEF IInv, RecordedTablesExist
<1>8. ASSUME NEW q \in Procs, q # p PROVE LocalInv(q, me[q])'
  <2>1. me'[q] = me[q] /\ LocalInv(q, me[q]) /\ me[q].at \notin {"insert", "purge"}
    BY <1>1, <1>8 DEF IInv, Transactions
  <2>2. CursorsOf(q, me[q])' /\ ScriptOf(me[q])'
    BY <2>1 DEF LocalInv, CursorsOf, ScriptOf
  <2>3. DraftOf(q, me[q])'
    BY <2>1 DEF DraftOf
  <2>4. TargetOf(me[q])'
    BY <1>1, <2>1 DEF LocalInv, TargetOf
  <2>5. LoadOf(me[q])'
    <3>1. \A t \in Runs : t = me[q].target => rows'[t] = rows[t] \/ rows'[t] = {}
      BY <2>1 DEF LocalInv, TargetOf
    <3>2. me[q].target \in Runs \cup {NoProc} /\ (me[q].at = "load" => me[q].target \in Runs)
      BY <2>1 DEF IInv, StoreTypeOK, Local, LocalInv, CursorsOf
    <3> QED
      BY <2>1, <3>1, <3>2 DEF LocalInv, LoadOf
  <2> QED
    BY <2>2, <2>3, <2>4, <2>5 DEF LocalInv
<1>9. LocalInv(p, me[p])'
  <2>1. CursorsOf(p, me[p])' /\ ScriptOf(me[p])'
    BY <1>1 DEF CursorsOf, ScriptOf
  <2>2. DraftOf(p, me[p])'
    BY <1>1 DEF DraftOf, Purged, Expired
  <2>3. TargetOf(me[p])'
    BY <1>1 DEF TargetOf
  <2>4. LoadOf(me[p])'
    BY <1>1 DEF LoadOf
  <2> QED
    BY <2>1, <2>2, <2>3, <2>4 DEF LocalInv
<1>10. ASSUME NEW q \in Procs PROVE LocalInv(q, me[q])'
  BY <1>8, <1>9
<1> QED
  BY <1>2, <1>3, <1>4, <1>5, <1>6, <1>7, <1>10 DEF IInv

\* The writer that ends, its transaction committed or rolled back.
LEMMA WriterEnds ==
    ASSUME IInv, NEW p \in Procs, NEW how \in Ended, End(p, how), UNCHANGED <<schema, world>>,
           me[p].at # "done", lock = p, lock' = NoProc, draft' = rows',
           rows' \in [Runs -> SUBSET Parts],
           \A r \in Runs \ {p} : rows'[r] = rows[r] \/ (rows'[r] = {} /\ started[r] + KeepDays < today),
           rows'[p] = {} \/ (rows'[p] = Parts /\ how = "done"),
           how = "done" /\ job[p] = "run" => rows'[p] = Parts
    PROVE  IInv'
<1>0. PICK l \in Local : l = [Idle EXCEPT !.at = how]
  BY DEF Local, Idle, Places, Ended
<1>1. l.at = how /\ l.target = NoProc /\ l.seen = {} /\ l.cutoff = 0
  BY <1>0 DEF Local, Idle, Places, Ended
<1>2. Moved(p, l)
  BY <1>0 DEF Moved, End
<1>3. NoProc \notin Procs /\ p # NoProc
  BY StoreAssumption DEF Runs
<1>4. CursorsOf(p, l) /\ TargetOf(l) /\ ScriptOf(l)
  BY <1>1, <1>3 DEF CursorsOf, TargetOf, ScriptOf, Ended, IInv, StoreTypeOK
<1>5. DraftOf(p, l)'
  BY <1>1 DEF DraftOf, Ended
<1>6. l.at \notin {"insert", "purge", "idle", "compare", "find", "load"}
  BY <1>1 DEF Ended
<1> QED
  BY <1>1, <1>2, <1>3, <1>4, <1>5, <1>6, WriteStep

\* A place (and the next table to write) is all that changes.
PlaceAt(l, place, k) == [l EXCEPT !.at = place, !.k = k]

LEMMA PlaceMoves ==
    ASSUME NEW l \in Local, NEW place \in Places, NEW k \in Nat
    PROVE  /\ PlaceAt(l, place, k) \in Local /\ PlaceAt(l, place, k).at = place
           /\ PlaceAt(l, place, k).k = k /\ PlaceAt(l, place, k).target = l.target
           /\ PlaceAt(l, place, k).seen = l.seen /\ PlaceAt(l, place, k).cutoff = l.cutoff
BY DEF Local, PlaceAt

LEMMA BeginKeeps ==
    ASSUME IInv, NEW p \in Procs, Begin(p) PROVE IInv'
<1>1. /\ me[p] \in Local /\ me[p].at = "begin" /\ LocalInv(p, me[p]) /\ lock = NoProc
      /\ rows \in [Runs -> SUBSET Parts] /\ rows[p] = {} /\ p \in Runs
  BY DEF IInv, StoreTypeOK, Unsaved, Begin, Runs
<1>2. PICK l \in Local : l = PlaceAt(me[p], "insert", 1)
  BY <1>1, PlaceMoves DEF Places
<1>3. /\ l.at = "insert" /\ l.k = 1 /\ l.target = me[p].target /\ l.seen = me[p].seen
      /\ l.cutoff = me[p].cutoff
  BY <1>1, <1>2 DEF PlaceAt, Local
<1>4. Moved(p, l)
  BY <1>1, <1>2 DEF Moved, Begin, PlaceAt
<1>5. lock' = p /\ draft' = [rows EXCEPT ![p] = {}] /\ rows' = rows /\ UNCHANGED <<schema, world>>
  BY DEF Begin
<1>6. Inserted(1 - 1) = {}
  BY OrderFacts
<1>7. DraftOf(p, l)'
  BY <1>3, <1>5, <1>6 DEF DraftOf
<1>8. CursorsOf(p, l) /\ TargetOf(l) /\ ScriptOf(l)
  BY <1>1, <1>3 DEF LocalInv, CursorsOf, TargetOf, ScriptOf
<1>9. draft' \in [Runs -> SUBSET Parts] /\ lock' # NoProc
  BY <1>1, <1>5, StoreAssumption
<1> QED
  BY <1>1, <1>3, <1>4, <1>5, <1>7, <1>8, <1>9, WriteStep

LEMMA RollbackKeeps ==
    ASSUME IInv, NEW p \in Procs, NEW how \in Ended, how # "done", End(p, how), Rollback,
           UNCHANGED <<schema, world>>, me[p].at # "done", lock = p
    PROVE  IInv'
<1>1. rows \in [Runs -> SUBSET Parts] /\ rows[p] = {} /\ p \in Runs
  BY DEF IInv, StoreTypeOK, Unsaved, Runs
<1> QED
  BY <1>1, WriterEnds DEF Rollback

LEMMA InsertKeeps ==
    ASSUME IInv, NEW p \in Procs, Insert(p) PROVE IInv'
<1> DEFINE table == SaveOrder[me[p].k]
<1>1. /\ me[p] \in Local /\ me[p].at = "insert" /\ LocalInv(p, me[p]) /\ lock = p
      /\ me[p].k \in 1..4 /\ table \in Parts /\ Len(SaveOrder) = 4
      /\ rows \in [Runs -> SUBSET Parts] /\ rows[p] = {} /\ p \in Runs
      /\ UNCHANGED <<schema, world>>
  BY OrderFacts DEF IInv, StoreTypeOK, Unsaved, Transactions, LocalInv, CursorsOf, Local, Insert, Runs
<1>2. draft = [rows EXCEPT ![p] = Inserted(me[p].k - 1)]
  BY <1>1 DEF LocalInv, DraftOf
<1>3. CASE table \notin objects
  BY <1>1, <1>3, RollbackKeeps DEF Insert, Raised, Ended
<1>4. CASE table \in objects
  <2>1. PICK l \in Local : l = PlaceAt(me[p], "insert", me[p].k + 1)
    BY <1>1, PlaceMoves DEF Places
  <2>2. /\ l.at = "insert" /\ l.k = me[p].k + 1 /\ l.target = me[p].target
        /\ l.seen = me[p].seen /\ l.cutoff = me[p].cutoff
    BY <1>1, <2>1 DEF PlaceAt, Local
  <2>3. Moved(p, l)
    <3>1. l = [me[p] EXCEPT !.k = @ + 1]
      BY <1>1, <2>1 DEF PlaceAt, Local
    <3> QED
      BY <1>1, <1>4, <3>1 DEF Moved, Insert, IInv, StoreTypeOK
  <2>4. lock' = p /\ rows' = rows /\ draft' = [draft EXCEPT ![p] = @ \cup {table}]
    BY <1>1, <1>4 DEF Insert, Write
  <2>5. Inserted(me[p].k) = Inserted(me[p].k - 1) \cup {table}
    BY <1>1, OrderFacts
  <2>6. draft' = [rows EXCEPT ![p] = Inserted(me[p].k)]
    BY <1>1, <1>2, <2>4, <2>5
  <2>7. DraftOf(p, l)'
    <3>1. l.k - 1 = me[p].k
      BY <1>1, <2>2
    <3> QED
      BY <2>2, <2>4, <2>6, <3>1 DEF DraftOf
  <2>8. CursorsOf(p, l) /\ TargetOf(l) /\ ScriptOf(l)
    BY <1>1, <2>2 DEF LocalInv, CursorsOf, TargetOf, ScriptOf
  <2>9. draft' \in [Runs -> SUBSET Parts] /\ lock' # NoProc
    BY <1>1, <2>4, StoreAssumption DEF IInv, StoreTypeOK
  <2> QED
    BY <1>1, <2>2, <2>3, <2>4, <2>7, <2>8, <2>9, WriteStep
<1> QED
  BY <1>3, <1>4

LEMMA CommitSaveKeeps ==
    ASSUME IInv, NEW p \in Procs, CommitSave(p)
    PROVE  IInv' /\ rows' = [rows EXCEPT ![p] = Parts] /\ rows[p] = {}
<1>1. /\ LocalInv(p, me[p]) /\ me[p].at = "insert" /\ lock = p /\ me[p].k = 5
      /\ rows \in [Runs -> SUBSET Parts] /\ rows[p] = {} /\ p \in Runs
      /\ draft \in [Runs -> SUBSET Parts]
  BY OrderFacts DEF IInv, StoreTypeOK, Unsaved, Transactions, LocalInv, CursorsOf, CommitSave, Runs
<1>2. draft = [rows EXCEPT ![p] = Parts]
  <2>1. me[p].k - 1 = 4
    BY <1>1
  <2> QED
    BY <1>1, <2>1, OrderFacts DEF LocalInv, DraftOf
<1>3. /\ rows' = draft /\ draft' = draft /\ lock' = NoProc /\ End(p, "done")
      /\ UNCHANGED <<schema, world>>
  BY DEF CommitSave, Commit
<1>4. rows'[p] = Parts /\ \A r \in Runs \ {p} : rows'[r] = rows[r]
  BY <1>1, <1>2, <1>3
<1>5. IInv'
  BY <1>1, <1>3, <1>4, WriterEnds DEF Ended
<1> QED
  BY <1>1, <1>2, <1>3, <1>5

---------------------------------------------------------------------------
(* Pruning, and what goes wrong *)

LEMMA MeasureKeeps ==
    ASSUME IInv, NEW p \in Procs, Measure(p) PROVE IInv'
<1>1. me[p] \in Local /\ me[p].at = "prune" /\ LocalInv(p, me[p]) /\ today \in Nat
  BY DEF IInv, StoreTypeOK, Measure
<1>2. PICK l \in Local : l = [me[p] EXCEPT !.at = "delete", !.cutoff = today]
  BY <1>1 DEF Local, Places
<1>3. /\ l.at = "delete" /\ l.cutoff = today /\ l.target = me[p].target
  BY <1>1, <1>2 DEF Local
<1>4. Moved(p, l)
  BY <1>1, <1>2 DEF Moved, Measure
<1>5. CursorsOf(p, l) /\ TargetOf(l) /\ LoadOf(l) /\ ScriptOf(l)
  BY <1>1, <1>3 DEF LocalInv, CursorsOf, TargetOf, LoadOf, ScriptOf
<1> QED
  BY <1>1, <1>3, <1>4, <1>5, QuietStep DEF Measure, Quiet

LEMMA DeleteKeeps ==
    ASSUME IInv, NEW p \in Procs, Delete(p) PROVE IInv'
<1>1. /\ me[p] \in Local /\ me[p].at = "delete" /\ LocalInv(p, me[p]) /\ lock = NoProc
      /\ rows \in [Runs -> SUBSET Parts] /\ rows[p] = {} /\ p \in Runs
      /\ UNCHANGED <<schema, rows, world>> /\ job[p] = "prune"
  BY DEF IInv, StoreTypeOK, Unsaved, LocalInv, CursorsOf, Delete, Runs
<1>2. CASE ~is_initialised
  BY <1>1, <1>2, EndKeeps DEF Delete, Raised, Quiet, data, Ended
<1>3. CASE is_initialised
  <2>1. PICK l \in Local : l = PlaceAt(me[p], "purge", me[p].k)
    <3>1. me[p].k \in Nat /\ "purge" \in Places
      BY <1>1 DEF Local, Places
    <3> QED
      BY <1>1, <3>1, PlaceMoves
  <2>2. /\ l.at = "purge" /\ l.target = me[p].target /\ l.cutoff = me[p].cutoff
    BY <1>1, <2>1 DEF PlaceAt, Local
  <2>3. Moved(p, l)
    <3>1. l = [me[p] EXCEPT !.at = "purge"]
      BY <1>1, <2>1 DEF PlaceAt, Local
    <3> QED
      BY <1>1, <1>3, <3>1 DEF Moved, Delete, Goto, IInv, StoreTypeOK
  <2>4. lock' = p /\ draft' = Purged(l.cutoff)
    BY <1>3, <2>2 DEF Delete, Remains, Purged
  <2>5. DraftOf(p, l)'
    BY <1>1, <2>2, <2>4 DEF DraftOf, Purged, Expired, world
  <2>6. CursorsOf(p, l) /\ TargetOf(l) /\ ScriptOf(l)
    BY <1>1, <2>2 DEF LocalInv, CursorsOf, TargetOf, ScriptOf
  <2>7. draft' \in [Runs -> SUBSET Parts] /\ lock' # NoProc
    BY <1>1, <2>4, StoreAssumption DEF Purged
  <2> QED
    BY <1>1, <2>2, <2>3, <2>4, <2>5, <2>6, <2>7, WriteStep
<1> QED
  BY <1>2, <1>3

LEMMA CommitPurgeKeeps ==
    ASSUME IInv, NEW p \in Procs, CommitPurge(p)
    PROVE  IInv' /\ me[p].cutoff \in 0..today /\ rows' = Purged(me[p].cutoff)
<1>1. /\ me[p] \in Local /\ LocalInv(p, me[p]) /\ me[p].at = "purge" /\ lock = p
      /\ rows \in [Runs -> SUBSET Parts] /\ rows[p] = {} /\ p \in Runs
      /\ draft \in [Runs -> SUBSET Parts] /\ draft = Purged(me[p].cutoff)
      /\ job[p] = "prune" /\ today \in Nat /\ started \in [Runs -> Nat]
  BY DEF IInv, StoreTypeOK, Unsaved, Transactions, LocalInv, CursorsOf, DraftOf, CommitPurge, Runs
<1>2. me[p].cutoff \in 0..today
  BY <1>1 DEF Local, LocalInv, CursorsOf
<1>3. rows' = draft /\ draft' = draft /\ lock' = NoProc /\ UNCHANGED <<schema, world>>
  BY DEF CommitPurge, Commit
<1>4. \A r \in Runs \ {p} : rows'[r] = rows[r] \/ (rows'[r] = {} /\ started[r] + KeepDays < today)
  <2>1. ASSUME NEW r \in Runs, Expired(r, me[p].cutoff) PROVE started[r] + KeepDays < today
    BY <1>1, <1>2, <2>1, StoreAssumption DEF Expired
  <2> QED
    BY <1>1, <1>3, <2>1 DEF Purged
<1>5. rows'[p] = {}
  BY <1>1, <1>3 DEF Purged
<1>6. ASSUME draft = rows PROVE IInv'
  <2>1. End(p, "done") /\ "done" \in Ended /\ job[p] # "run"
    BY <1>1, <1>6 DEF CommitPurge, Ended
  <2>2. /\ me[p].at # "done" /\ lock = p /\ lock' = NoProc /\ UNCHANGED <<schema, world>>
        /\ draft' = rows' /\ rows' \in [Runs -> SUBSET Parts]
    BY <1>1, <1>3
  <2> QED
    BY <1>4, <1>5, <2>1, <2>2, WriterEnds
<1>7. ASSUME draft # rows PROVE IInv'
  <2>1. PICK l \in Local : l = PlaceAt(me[p], "vacuum", me[p].k)
    <3>1. me[p].k \in Nat /\ "vacuum" \in Places
      BY <1>1 DEF Local, Places
    <3> QED
      BY <1>1, <3>1, PlaceMoves
  <2>2. /\ l.at = "vacuum" /\ l.target = me[p].target /\ l.cutoff = me[p].cutoff
    BY <1>1, <2>1 DEF PlaceAt, Local
  <2>3. Moved(p, l)
    <3>1. l = [me[p] EXCEPT !.at = "vacuum"]
      BY <1>1, <2>1 DEF PlaceAt, Local
    <3> QED
      BY <1>1, <1>7, <3>1 DEF Moved, CommitPurge, Goto, IInv, StoreTypeOK
  <2>4. DraftOf(p, l)'
    BY <2>2 DEF DraftOf
  <2>5. CursorsOf(p, l) /\ TargetOf(l) /\ ScriptOf(l)
    BY <1>1, <2>2 DEF LocalInv, CursorsOf, TargetOf, ScriptOf
  <2>6. NoProc # p
    BY StoreAssumption DEF Runs
  <2> QED
    BY <1>1, <1>2, <1>3, <1>4, <1>5, <2>2, <2>3, <2>4, <2>5, <2>6, WriteStep
<1>8. IInv'
  BY <1>6, <1>7
<1>9. rows' = Purged(me[p].cutoff)
  BY <1>1, <1>3, Zenon
<1> QED
  BY <1>2, <1>8, <1>9, Zenon

\* The remaining ways to end, none of them inside a transaction.
LEMMA EndsKeep ==
    ASSUME IInv, NEW p \in Procs, Vacuum(p) \/ RefuseEdited(p) \/ GiveUp(p) PROVE IInv'
<1>1. CASE Vacuum(p)
  <2>1. job[p] # "run"
    BY <1>1 DEF IInv, LocalInv, CursorsOf, Vacuum
  <2> QED
    BY <1>1, <2>1, EndKeeps DEF Vacuum, Quiet, Ended
<1>2. CASE RefuseEdited(p)
  BY <1>2, EndKeeps DEF RefuseEdited, InScript, Refused, Quiet, Ended
<1>3. CASE GiveUp(p)
  <2>1. me[p].at \in {"begin", "delete", "vacuum", "script"}
    BY <1>3 DEF GiveUp, Wanting, Pending, InScript
  <2>2. PICK how \in {"refused", "raised"} : End(p, how)
    BY <1>3 DEF GiveUp, Refused, Raised
  <2> QED
    BY <1>3, <2>1, <2>2, EndKeeps DEF GiveUp, Quiet, Ended
<1> QED
  BY <1>1, <1>2, <1>3

LEMMA CrashKeeps ==
    ASSUME IInv, NEW p \in Procs, Crash(p) PROVE IInv'
<1>1. me[p].at \notin Ended /\ End(p, "crashed") /\ UNCHANGED <<schema, world>>
      /\ (me[p].at \in {"insert", "purge"} <=> lock = p)
  BY DEF Crash, IInv, Transactions
<1>2. CASE lock = p
  BY <1>1, <1>2, RollbackKeeps DEF Crash, Ended
<1>3. CASE lock # p
  BY <1>1, <1>3, EndKeeps DEF Crash, Quiet, Ended
<1> QED
  BY <1>2, <1>3

---------------------------------------------------------------------------
(* The invariant *)

LEMMA StepKeeps ==
    ASSUME IInv, NEW p \in Procs, Step(p) \/ GiveUp(p) \/ Crash(p) PROVE IInv'
BY LookKeeps, FindKeeps, LoadKeeps, StartKeeps, OpenMigrationsKeeps, SkipKeeps, ExecuteKeeps,
   RecordVersionKeeps, MigrationsDoneKeeps, BeginKeeps, InsertKeeps, CommitSaveKeeps, MeasureKeeps,
   DeleteKeeps, CommitPurgeKeeps, EndsKeep, CrashKeeps DEF Step

LEMMA StutterKeeps ==
    ASSUME IInv, UNCHANGED storeVars PROVE IInv'
<1> USE DEF storeVars
<1>1. StoreTypeOK' /\ Transactions' /\ Unsaved' /\ Whole' /\ StoredRunsStay' /\ RecordedTablesExist'
  BY DEF IInv, StoreTypeOK, Transactions, Unsaved, Whole, StoredRunsStay, RecordedTablesExist
<1>2. ASSUME NEW q \in Procs PROVE LocalInv(q, me[q])'
  <2>1. LocalInv(q, me[q])
    BY DEF IInv
  <2> QED
    BY <2>1 DEF LocalInv, CursorsOf, DraftOf, Purged, Expired, TargetOf, LoadOf, ScriptOf
<1> QED
  BY <1>1, <1>2 DEF IInv

\* The invariant holds however the processes interleave, fail and die.
THEOREM StoreInvariant == StoreSpec => []IInv
<1>1. IInv /\ [StoreNext]_storeVars => IInv'
  BY NextDayKeeps, StepKeeps, StutterKeeps DEF StoreNext
<1> QED
  BY IInit, <1>1, PTL DEF StoreSpec

---------------------------------------------------------------------------
(* Theorems *)

\* Types of the database and of the processes that share it.
THEOREM StoreTypeCorrect == StoreSpec => []StoreTypeOK
<1>1. IInv => StoreTypeOK
  BY DEF IInv
<1> QED
  BY <1>1, StoreInvariant, PTL

\* load_run has no transaction around its SELECTs, and still whoever loads a
\* run gets all of it, unless it was pruned while he read.
THEOREM LoadsAlwaysWhole == StoreSpec => []LoadsAreWhole
<1>1. IInv => LoadsAreWhole
  BY DEF IInv, LocalInv, LoadOf, LoadsAreWhole
<1> QED
  BY <1>1, StoreInvariant, PTL

\* A run that ended well stays stored for its retention period.
THEOREM RunsStayStored == StoreSpec => []StoredRunsStay
<1>1. IInv => StoredRunsStay
  BY DEF IInv
<1> QED
  BY <1>1, StoreInvariant, PTL

\* A recorded migration has created its tables, whoever migrates at the same
\* time and whoever dies in the middle of a script.
THEOREM RecordedMigrationsRan == StoreSpec => []RecordedTablesExist
<1>1. IInv => RecordedTablesExist
  BY DEF IInv
<1> QED
  BY <1>1, StoreInvariant, PTL

---------------------------------------------------------------------------
(* Edited migrations *)

\* What was applied under this version is not what its file now says.
Edited(m) == versions[m] \notin {"none", files[m]}

\* Migrations are applied in order, so whoever reads the version rows meets the
\* edited one before any that is pending.
StopsBefore(l, m) ==
    l.at = "script" => l.m <= m /\ \A k \in 1..m : l.applied[k] = versions[k]
Halted ==
    \A m \in Versions : Edited(m) =>
        /\ \A k \in 1..m : versions[k] # "none"
        /\ \A p \in Procs : StopsBefore(me[p], m)

LEMMA HaltedStarts == StoreInit => Halted
<1> SUFFICES ASSUME StoreInit, NEW m \in Versions, Edited(m)
             PROVE  /\ \A k \in 1..m : versions[k] # "none"
                    /\ \A p \in Procs : StopsBefore(me[p], m)
  BY DEF Halted
<1>1. PICK n \in 0..3 : versions = [k \in Versions |-> IF k <= n THEN "original" ELSE "none"]
  BY StoreAssumption DEF StoreInit
<1>2. \A p \in Procs : StopsBefore(me[p], m)
  BY DEF StoreInit, Idle, StopsBefore
<1>3. m <= n
  BY <1>1 DEF Edited
<1>4. \A k \in 1..m : k \in Versions /\ k <= n
  BY <1>1, <1>3, SchemaFacts
<1> QED
  BY <1>1, <1>2, <1>4

\* Nothing is executed or recorded once a migration has been edited.
LEMMA EditedIsFinal ==
    ASSUME IInv, Halted, NEW m \in Versions, Edited(m), [StoreNext]_storeVars
    PROVE  UNCHANGED schema
<1>1. ASSUME NEW p \in Procs, Pending(p) PROVE FALSE
  <2>1. me[p].at = "script" /\ me[p].m \in Versions /\ me[p].applied[me[p].m] = "none"
    BY <1>1 DEF Pending, InScript
  <2>2. me[p].m \in 1..m /\ me[p].applied[me[p].m] = versions[me[p].m]
    BY <2>1, SchemaFacts DEF Halted, StopsBefore
  <2> QED
    BY <2>1, <2>2 DEF Halted
<1>2. CASE UNCHANGED storeVars
  BY <1>2 DEF storeVars, schema
<1>3. CASE NextDay
  BY <1>3 DEF NextDay
<1>4. ASSUME NEW p \in Procs, Step(p) \/ GiveUp(p) \/ Crash(p) PROVE UNCHANGED schema
  BY <1>1, <1>4 DEF Step, Start, Look, Find, Load, Save, OpenMigrations, SkipMigration, RefuseEdited,
     Execute, RecordVersion, MigrationsDone, Begin, Insert, CommitSave, Measure, Delete,
     CommitPurge, Vacuum, GiveUp, Crash
<1> QED
  BY <1>2, <1>3, <1>4 DEF StoreNext

\* Who is in a script is where he was, has just read the version rows, or has
\* passed a migration whose file is as it was.
LEMMA ScriptMoves ==
    ASSUME IInv, NEW p \in Procs, [StoreNext]_storeVars, UNCHANGED versions,
           me'[p].at = "script"
    PROVE  \/ /\ me[p].at = "script" /\ me'[p].m = me[p].m /\ me'[p].applied = me[p].applied
           \/ me'[p].m = 1 /\ me'[p].applied = versions
           \/ /\ me[p].at = "script" /\ me'[p].m = me[p].m + 1 /\ Unchanged(p)
              /\ me[p].m \in Versions /\ me'[p].applied = me[p].applied
<1>0. /\ me \in [Procs -> Local] /\ me[p] \in Local
      /\ versions \in [Versions -> {"none", "original", "edited"}]
  BY DEF IInv, StoreTypeOK
<1>1. CASE UNCHANGED storeVars
  BY <1>1 DEF storeVars
<1>2. CASE NextDay
  BY <1>2 DEF NextDay
<1>3. ASSUME NEW q \in Procs, q # p, Step(q) \/ GiveUp(q) \/ Crash(q) PROVE me'[p] = me[p]
  BY <1>0, <1>3 DEF Step, Start, Look, Find, Load, Save, OpenMigrations, SkipMigration, RefuseEdited,
     Execute, RecordVersion, MigrationsDone, Begin, Insert, CommitSave, Measure, Delete,
     CommitPurge, Vacuum, GiveUp, Crash, Goto, End, Refused, Raised, NextMigration
<1>4. CASE OpenMigrations(p)
  BY <1>0, <1>4 DEF OpenMigrations, Local
<1>5. CASE SkipMigration(p)
  BY <1>0, <1>5 DEF SkipMigration, NextMigration, InScript, Local
<1>6. CASE Execute(p)
  <2>1. me[p].at = "script"
    BY <1>6 DEF Execute, Pending, InScript
  <2>2. CASE Refused(p)
    BY <1>0, <2>2 DEF Refused, End, Idle
  <2>3. CASE me' = [me EXCEPT ![p].s = @ + 1]
    BY <1>0, <2>1, <2>3 DEF Local
  <2> QED
    BY <1>6, <2>2, <2>3 DEF Execute
<1>7. CASE RecordVersion(p)
  <2>1. versions[me[p].m] # "none" \/ files[me[p].m] = "none"
    BY <1>0, <1>7 DEF RecordVersion, Pending, InScript
  <2>2. files[me[p].m] # "none"
    BY <1>7 DEF RecordVersion, Pending, InScript, IInv, StoreTypeOK
  <2> QED
    BY <1>0, <1>7, <2>1, <2>2 DEF RecordVersion, Raised, End, Idle
<1>8. CASE \/ Start(p) \/ Look(p) \/ Find(p) \/ Load(p) \/ Save(p) \/ RefuseEdited(p)
           \/ MigrationsDone(p) \/ Begin(p) \/ Insert(p) \/ CommitSave(p) \/ Measure(p)
           \/ Delete(p) \/ CommitPurge(p) \/ Vacuum(p) \/ GiveUp(p) \/ Crash(p)
  <2>1. CASE Start(p)
    <3>1. job[p] \in Jobs
      BY StoreAssumption DEF IInv, StoreTypeOK
    <3> QED
      BY <1>0, <2>1, <3>1 DEF Start, Goto, Jobs
  <2>2. CASE Look(p) \/ Find(p) \/ Load(p)
    <3>1. AfterLoad(p) # "script"
      BY DEF AfterLoad
    <3>2. CASE Look(p)
      BY <1>0, <3>1, <3>2 DEF Look, Goto, Local
    <3>3. CASE Find(p)
      <4>1. CASE Candidates(p) = {}
        BY <1>0, <3>1, <3>3, <4>1 DEF Find, Goto, Local
      <4>2. CASE Candidates(p) # {}
        <5>1. \E r : me' = [me EXCEPT ![p].at = "load", ![p].target = r, ![p].k = 1]
          BY <3>3, <4>2 DEF Find
        <5>2. me'[p].at = "load"
          BY <1>0, <5>1 DEF Local
        <5> QED
          BY <5>2
      <4> QED
        BY <4>1, <4>2
    <3>4. CASE Load(p)
      BY <1>0, <3>1, <3>4 DEF Load, Raised, End, Idle, Local
    <3> QED
      BY <2>2, <3>2, <3>3, <3>4
  <2>3. CASE RefuseEdited(p) \/ GiveUp(p) \/ Crash(p) \/ CommitSave(p) \/ Vacuum(p)
    BY <1>0, <2>3 DEF RefuseEdited, GiveUp, Crash, CommitSave, Vacuum, End, Refused, Raised, Idle
  <2>4. CASE \/ Save(p) \/ MigrationsDone(p) \/ Begin(p) \/ Insert(p) \/ Measure(p)
             \/ Delete(p) \/ CommitPurge(p)
    <3>1. CASE Save(p) \/ MigrationsDone(p)
      BY <1>0, <3>1 DEF Save, MigrationsDone, Goto, End, Idle, Local
    <3>2. CASE Begin(p) \/ Measure(p)
      BY <1>0, <3>2 DEF Begin, Measure, Local
    <3>3. CASE Insert(p)
      BY ZenonT(30), <1>0, <3>3 DEF Insert, End, Raised, Idle, Local
    <3>4. CASE Delete(p) \/ CommitPurge(p)
      BY <1>0, <3>4 DEF Delete, CommitPurge, Goto, End, Raised, Idle, Local
    <3> QED
      BY <2>4, <3>1, <3>2, <3>3, <3>4
  <2> QED
    BY <1>8, <2>1, <2>2, <2>3, <2>4
<1> QED
  BY <1>1, <1>2, <1>3, <1>4, <1>5, <1>6, <1>7, <1>8 DEF StoreNext, Step

LEMMA HaltedKeeps ==
    ASSUME IInv, Halted, [StoreNext]_storeVars PROVE Halted'
<1>0. /\ versions \in [Versions -> {"none", "original", "edited"}] /\ me \in [Procs -> Local]
      /\ files' = files
  <2>1. files' = files
    BY ZenonT(30) DEF StoreNext, storeVars, schema, NextDay, Step, Start, Look, Find, Load, Save,
       OpenMigrations, SkipMigration, RefuseEdited, Execute, RecordVersion, MigrationsDone, Begin,
       Insert, CommitSave, Measure, Delete, CommitPurge, Vacuum, GiveUp, Crash
  <2> QED
    BY <2>1 DEF IInv, StoreTypeOK
<1>1. CASE \A m \in Versions : ~Edited(m)
  <2>1. \/ versions' = versions
        \/ \E p \in Procs : versions' = [versions EXCEPT ![me[p].m] = files[me[p].m]]
    BY ZenonT(30) DEF StoreNext, storeVars, schema, NextDay, Step, Start, Look, Find, Load, Save,
       OpenMigrations, SkipMigration, RefuseEdited, Execute, RecordVersion, MigrationsDone, Begin,
       Insert, CommitSave, Measure, Delete, CommitPurge, Vacuum, GiveUp, Crash
  <2>2. \A m \in Versions : versions'[m] \in {versions[m], files[m]}
    BY <1>0, <2>1
  <2>3. \A m \in Versions : ~Edited(m)'
    BY <1>0, <1>1, <2>2 DEF Edited
  <2> QED
    BY <2>3 DEF Halted
<1>2. ASSUME NEW edited \in Versions, Edited(edited) PROVE Halted'
  <2>1. versions' = versions
    BY <1>2, EditedIsFinal DEF schema
  <2>2. ASSUME NEW m \in Versions, Edited(m), NEW p \in Procs, me'[p].at = "script"
        PROVE  me'[p].m <= m /\ \A k \in 1..m : me'[p].applied[k] = versions[k]
    <3>1. StopsBefore(me[p], m) /\ m \in 1..3
      BY <2>2, SchemaFacts DEF Halted
    <3>2. CASE me[p].at = "script" /\ me'[p].m = me[p].m /\ me'[p].applied = me[p].applied
      BY <3>1, <3>2 DEF StopsBefore
    <3>3. CASE me'[p].m = 1 /\ me'[p].applied = versions
      BY <3>1, <3>3
    <3>4. CASE /\ me[p].at = "script" /\ me'[p].m = me[p].m + 1 /\ Unchanged(p)
               /\ me[p].m \in Versions /\ me'[p].applied = me[p].applied
      <4>1. me[p].m \in 1..m /\ me[p].applied[m] = versions[m] /\ me[p].m \in Nat
        BY <3>1, <3>4, SchemaFacts DEF StopsBefore
      <4>2. me[p].m # m
        BY <2>2, <3>4, <4>1 DEF Unchanged, Edited
      <4>3. me[p].m + 1 <= m
        BY <3>1, <4>1, <4>2
      <4> QED
        BY <3>1, <3>4, <4>3 DEF StopsBefore
    <3> QED
      BY <2>1, <2>2, <3>2, <3>3, <3>4, ScriptMoves
  <2>3. ASSUME NEW m \in Versions, Edited(m)'
        PROVE  /\ \A k \in 1..m : versions'[k] # "none"
               /\ \A p \in Procs : StopsBefore(me[p], m)'
    <3>1. Edited(m)
      BY <1>0, <2>1, <2>3 DEF Edited
    <3>2. \A k \in 1..m : versions'[k] # "none"
      BY <2>1, <3>1 DEF Halted
    <3>3. ASSUME NEW p \in Procs PROVE StopsBefore(me[p], m)'
      BY <2>1, <2>2, <3>1 DEF StopsBefore
    <3> QED
      BY <3>2, <3>3
  <2> QED
    BY <2>3 DEF Halted
<1> QED
  BY <1>1, <1>2

\* Once the file of an applied migration has been edited, the schema stays as it
\* is, whoever else migrates, runs or dies.
THEOREM EditedMigrationsStop == StoreSpec => EditedStopsMigrating
<1>1. Halted /\ IInv /\ [StoreNext]_storeVars => Halted'
  BY HaltedKeeps
<1>2. IInv /\ Halted /\ [StoreNext]_storeVars =>
          [(\E m \in Versions : versions[m] \notin {"none", files[m]}) =>
              UNCHANGED <<objects, versions>>]_storeVars
  BY EditedIsFinal DEF Edited, schema
<1> QED
  BY HaltedStarts, <1>1, <1>2, StoreInvariant, PTL DEF StoreSpec, EditedStopsMigrating

---------------------------------------------------------------------------
(* The database implements the archive *)

\* Every step stores one whole run, drops expired runs, starts a run that has
\* no rows, ends a day, or leaves the archive as it is.
LEMMA StepMaps ==
    ASSUME IInv, StoreNext PROVE [Promise!Next]_<<rows, started, today>>
<1>1. CASE NextDay
  BY <1>1 DEF NextDay, Promise!NextDay, Promise!Next, data
<1>2. ASSUME NEW p \in Procs, Step(p) \/ GiveUp(p) \/ Crash(p)
      PROVE  [Promise!Next]_<<rows, started, today>>
  <2>0. p \in Runs
    BY DEF Runs
  <2>1. CASE Start(p)
    <3>1. rows[p] = {}
      BY <2>1 DEF IInv, Unsaved, Start
    <3>2. UNCHANGED <<rows, today>> /\ (started' = started \/ started' = [started EXCEPT ![p] = today])
      BY <2>1 DEF Start, data
    <3> QED
      BY <2>0, <3>1, <3>2 DEF Promise!Start, Promise!Next
  <2>2. CASE CommitSave(p)
    <3>1. rows' = [rows EXCEPT ![p] = Parts] /\ UNCHANGED <<started, today>>
      BY <2>2, CommitSaveKeeps DEF CommitSave, world
    <3> QED
      BY <2>0, <3>1 DEF Promise!Keep, Promise!Next
  <2>3. CASE CommitPurge(p)
    <3>1. me[p].cutoff \in 0..today /\ rows' = Purged(me[p].cutoff) /\ UNCHANGED <<started, today>>
      BY <2>3, CommitPurgeKeeps DEF CommitPurge, world
    <3> QED
      BY <3>1 DEF Purged, Expired, Promise!Expire, Promise!Next
  <2>4. CASE ~(Start(p) \/ CommitSave(p) \/ CommitPurge(p))
    <3>1. UNCHANGED <<rows, started, today>>
      BY <1>2, <2>4 DEF Step, Look, Find, Load, Save, OpenMigrations, SkipMigration, RefuseEdited,
         Execute, RecordVersion, MigrationsDone, Begin, Insert, Measure, Delete, Vacuum, GiveUp,
         Crash, Write, Rollback, data, world
    <3> QED
      BY <3>1
  <2> QED
    BY <2>1, <2>2, <2>3, <2>4
<1> QED
  BY <1>1, <1>2 DEF StoreNext

\* "Writes are one transaction per run": the shared database implements the
\* archive of whole runs, for any number of processes and any mixture of jobs.
THEOREM DatabaseIsAnArchive == StoreSpec => RunsAreStoredWhole
<1>1. StoreInit => Promise!Init
  BY IInit DEF IInv, StoreTypeOK, Promise!Init
<1>2. IInv /\ [StoreNext]_storeVars => [Promise!Next]_(Promise!archiveVars)
  BY StepMaps DEF storeVars, Promise!archiveVars
<1> QED
  BY <1>1, <1>2, StoreInvariant, PTL DEF StoreSpec, RunsAreStoredWhole, Promise!Spec

=============================================================================
