-------------------------- MODULE Operations_proofs --------------------------
(***************************************************************************)
(* The committed schedule is the manifest's, and a broken rule file costs  *)
(* a run its own rule and nothing else: for every manifest, set of         *)
(* profiles, library and number of edits.                                  *)
(*                                                                         *)
(* ScheduleIsTheManifest is not inductive, because a render writes file by *)
(* file.  RenderInv says what the tree looks like while it does.           *)
(***************************************************************************)
EXTENDS Operations, TLAPS

---------------------------------------------------------------------------
(* What a render renders *)

JobsTyped == manifest \in Manifests /\ profiles \in ProfileSets

LEMMA JobFields ==
    ASSUME JobsTyped
    PROVE  /\ manifest.jobs \in Seq(Job)
           /\ DOMAIN manifest.jobs \subseteq Nat
           /\ \A k \in DOMAIN manifest.jobs :
                 /\ k \in 1..Len(manifest.jobs)
                 /\ manifest.jobs[k] \in Job
<1>1. manifest \in Manifest
  BY ScheduleAssumption DEF JobsTyped
<1>2. manifest.jobs \in Seq(Job)
  BY <1>1 DEF Manifest
<1> QED
  BY <1>2

\* Two timer jobs of a manifest that is not refused have different profiles.
LEMMA ProfilesDiffer ==
    ASSUME JobsTyped, ~Refused,
           NEW j \in DOMAIN manifest.jobs, NEW k \in DOMAIN manifest.jobs,
           IsTimer(manifest.jobs[j]), IsTimer(manifest.jobs[k]),
           manifest.jobs[j].profile = manifest.jobs[k].profile
    PROVE  j = k
<1>1. \A a, b \in DOMAIN manifest.jobs :
        a < b /\ IsTimer(manifest.jobs[a]) /\ IsTimer(manifest.jobs[b])
          => manifest.jobs[a].profile # manifest.jobs[b].profile
  <2> SUFFICES ASSUME NEW a \in DOMAIN manifest.jobs, NEW b \in DOMAIN manifest.jobs,
                      a < b, IsTimer(manifest.jobs[a]), IsTimer(manifest.jobs[b]),
                      manifest.jobs[a].profile = manifest.jobs[b].profile
               PROVE  FALSE
    OBVIOUS
  <2>1. a \in 1..(b - 1)
    BY JobFields
  <2>2. JobRefused(manifest.jobs, b)
    BY <2>1 DEF JobRefused
  <2> QED
    BY <2>2 DEF Refused
<1>2. j \in Nat /\ k \in Nat
  BY JobFields
<1>3. j < k \/ k < j \/ j = k
  BY <1>2
<1> QED
  BY <1>1, <1>3

\* What a job that is not refused has, and what it renders to.
LEMMA JobAccepted ==
    ASSUME JobsTyped, ~Refused,
           NEW k \in DOMAIN manifest.jobs, IsTimer(manifest.jobs[k])
    PROVE  /\ manifest.jobs[k].profile \in Profiles
           /\ to_oncalendar(manifest.jobs[k].schedule) # {}
           /\ Executes(manifest.jobs[k]) => manifest.jobs[k].authorization # ""
<1>1. ~JobRefused(manifest.jobs, k)
  BY DEF Refused
<1>2. manifest.jobs[k].profile \in Profiles \cup {""}
  BY JobFields DEF Job
<1> QED
  BY <1>1, <1>2 DEF JobRefused

LEMMA ItemOf ==
    ASSUME NEW item \in render
    PROVE  \E k \in DOMAIN manifest.jobs :
              /\ IsTimer(manifest.jobs[k])
              /\ \/ item = _timer_dropin(manifest.jobs[k], k)
                 \/ /\ Executes(manifest.jobs[k])
                    /\ item = _service_dropin(manifest.jobs[k], k)
BY DEF render

\* A path is written once.
LEMMA PathsDiffer ==
    ASSUME JobsTyped, ~Refused,
           NEW a \in render, NEW b \in render, a.path = b.path
    PROVE  a = b
<1>1. PICK j \in DOMAIN manifest.jobs :
        /\ IsTimer(manifest.jobs[j])
        /\ \/ a = _timer_dropin(manifest.jobs[j], j)
           \/ a = _service_dropin(manifest.jobs[j], j)
  BY ItemOf
<1>2. PICK k \in DOMAIN manifest.jobs :
        /\ IsTimer(manifest.jobs[k])
        /\ \/ b = _timer_dropin(manifest.jobs[k], k)
           \/ b = _service_dropin(manifest.jobs[k], k)
  BY ItemOf
<1>3. /\ a.path[1] = manifest.jobs[j].profile
      /\ b.path[1] = manifest.jobs[k].profile
      /\ a.path[2] = "timer" => a = _timer_dropin(manifest.jobs[j], j)
      /\ a.path[2] = "service" => a = _service_dropin(manifest.jobs[j], j)
      /\ b.path[2] = "timer" => b = _timer_dropin(manifest.jobs[k], k)
      /\ b.path[2] = "service" => b = _service_dropin(manifest.jobs[k], k)
      /\ a.path[2] \in Kinds
  BY <1>1, <1>2 DEF _timer_dropin, _service_dropin, Kinds
<1>4. j = k
  BY <1>1, <1>2, <1>3, ProfilesDiffer
<1> QED
  BY <1>3, <1>4 DEF Kinds

LEMMA PathsOfItems ==
    ASSUME JobsTyped, ~Refused, NEW item \in render
    PROVE  item.path \in Paths
<1>1. PICK k \in DOMAIN manifest.jobs :
        /\ IsTimer(manifest.jobs[k])
        /\ \/ item = _timer_dropin(manifest.jobs[k], k)
           \/ item = _service_dropin(manifest.jobs[k], k)
  BY ItemOf
<1>2. item.path = <<manifest.jobs[k].profile, "timer">>
      \/ item.path = <<manifest.jobs[k].profile, "service">>
  BY <1>1 DEF _timer_dropin, _service_dropin
<1>3. manifest.jobs[k].profile \in Profiles
  BY <1>1, JobAccepted
<1> QED
  BY <1>2, <1>3 DEF Paths, Kinds

---------------------------------------------------------------------------
(* The schedule on disk *)

TreeTyped == tree = [d \in Dirs |-> [p \in Paths |-> tree[d][p]]]
PendingTyped ==
    pending = [active |-> pending.active, output |-> pending.output,
               stale |-> pending.stale, items |-> pending.items]

\* Every drop-in of the manifest but those in items is on disk, and no other
\* but those in stale.
DoneBut(items, stale) ==
    /\ \A item \in render \ items : tree["generated"][item.path] = item.content
    /\ On("generated") \subseteq Wanted(render) \cup stale

RenderInv ==
    /\ JobsTyped
    /\ TreeTyped
    /\ PendingTyped
    /\ ~pending.active => pending = NoRender
    /\ pending.active =>
          /\ exit = NoExit /\ ~Refused
          /\ pending.items \subseteq render
          /\ pending.output = "generated" =>
                /\ pending.stale \cap Wanted(render) = {}
                /\ DoneBut(pending.items, pending.stale)
    /\ exit.command # "none" /\ exit.code = 0 /\ exit.output = "generated" /\ render # {} =>
          ~Refused /\ DoneBut({}, {})

\* A complete tree is the schedule of the manifest.
LEMMA CompleteIsScheduled ==
    ASSUME JobsTyped, TreeTyped, ~Refused, DoneBut({}, {}), NEW profile \in Profiles
    PROVE  LET timer == tree["generated"][<<profile, "timer">>]
               service == tree["generated"][<<profile, "service">>]
           IN  \/ /\ Scheduled(profile) = {}
                  /\ timer = Absent /\ service = Absent
               \/ \E job \in Scheduled(profile) :
                     /\ timer.is = "timer" /\ timer.oncalendar \in to_oncalendar(job.schedule)
                     /\ IF Executes(job)
                        THEN /\ service.is = "service" /\ service.authorization # ""
                             /\ service.authorization = job.authorization
                             /\ service.backend = BackendFor(job)
                        ELSE service = Absent
<1> DEFINE timer == tree["generated"][<<profile, "timer">>]
           service == tree["generated"][<<profile, "service">>]
<1>1. /\ <<profile, "timer">> \in Paths /\ <<profile, "service">> \in Paths
      /\ \A p \in Paths : p \notin Wanted(render) => tree["generated"][p] = Absent
  BY DEF Paths, Kinds, DoneBut, On
<1>2. ASSUME NEW p \in Wanted(render), p[1] = profile
      PROVE  \E k \in DOMAIN manifest.jobs :
                /\ IsTimer(manifest.jobs[k]) /\ manifest.jobs[k].profile = profile
                /\ p[2] = "service" => Executes(manifest.jobs[k])
  <2>1. PICK item \in render : item.path = p
    BY DEF Wanted
  <2>2. PICK k \in DOMAIN manifest.jobs :
          /\ IsTimer(manifest.jobs[k])
          /\ \/ item = _timer_dropin(manifest.jobs[k], k)
             \/ Executes(manifest.jobs[k]) /\ item = _service_dropin(manifest.jobs[k], k)
    BY ItemOf
  <2>3. /\ p[1] = manifest.jobs[k].profile
        /\ p[2] = "service" => Executes(manifest.jobs[k])
    BY <2>1, <2>2 DEF _timer_dropin, _service_dropin
  <2> QED
    BY <1>2, <2>2, <2>3
<1>3. CASE Scheduled(profile) = {}
  <2>1. \A k \in DOMAIN manifest.jobs :
          ~(IsTimer(manifest.jobs[k]) /\ manifest.jobs[k].profile = profile)
    BY <1>3 DEF Scheduled, Range
  <2>2. <<profile, "timer">> \notin Wanted(render) /\ <<profile, "service">> \notin Wanted(render)
    BY <1>2, <2>1
  <2> QED
    BY <1>1, <1>3, <2>2
<1>4. CASE Scheduled(profile) # {}
  <2>1. PICK k \in DOMAIN manifest.jobs :
          IsTimer(manifest.jobs[k]) /\ manifest.jobs[k].profile = profile
    BY <1>4 DEF Scheduled, Range
  <2> DEFINE job == manifest.jobs[k]
  <2>2. job \in Scheduled(profile)
    BY <2>1 DEF Scheduled, Range
  <2>3. timer.is = "timer" /\ timer.oncalendar \in to_oncalendar(job.schedule)
    <3> DEFINE item == _timer_dropin(job, k)
    <3>1. item \in render
      BY <2>1 DEF render
    <3>2. tree["generated"][item.path] = item.content
      BY <3>1 DEF DoneBut
    <3>3. /\ item.path = <<profile, "timer">> /\ item.content.is = "timer"
          /\ item.content.oncalendar = CHOOSE c \in to_oncalendar(job.schedule) : TRUE
      BY <2>1 DEF _timer_dropin
    <3>4. to_oncalendar(job.schedule) # {}
      BY <2>1, JobAccepted
    <3>5. timer = item.content
      BY <3>2, <3>3
    <3> HIDE DEF item, timer
    <3> QED
      BY <3>3, <3>4, <3>5
  <2>4. CASE Executes(job)
    <3> DEFINE item == _service_dropin(job, k)
    <3>1. item \in render
      BY <2>1, <2>4 DEF render
    <3>2. tree["generated"][item.path] = item.content
      BY <3>1 DEF DoneBut
    <3>3. /\ item.path = <<profile, "service">> /\ item.content.is = "service"
          /\ item.content.authorization = job.authorization
          /\ item.content.backend = BackendFor(job)
      BY <2>1 DEF _service_dropin
    <3>4. job.authorization # ""
      BY <2>1, <2>4, JobAccepted
    <3>5. service = item.content
      BY <3>2, <3>3
    <3>6. service.is = "service" /\ service.authorization # ""
          /\ service.authorization = job.authorization
          /\ service.backend = BackendFor(job)
      <4> HIDE DEF item, service
      <4> QED
        BY <3>3, <3>4, <3>5
    <3> QED
      BY <2>2, <2>3, <2>4, <3>6
  <2>5. CASE ~Executes(job)
    <3>1. <<profile, "service">> \notin Wanted(render)
      <4> SUFFICES ASSUME <<profile, "service">> \in Wanted(render) PROVE FALSE
        OBVIOUS
      <4>1. PICK j \in DOMAIN manifest.jobs :
              /\ IsTimer(manifest.jobs[j]) /\ manifest.jobs[j].profile = profile
              /\ Executes(manifest.jobs[j])
        BY <1>2
      <4>2. j = k
        BY <2>1, <4>1, ProfilesDiffer
      <4> QED
        BY <2>5, <4>1, <4>2
    <3>2. service = Absent
      BY <1>1, <3>1
    <3> QED
      BY <2>2, <2>3, <2>5, <3>2
  <2> QED
    BY <2>4, <2>5
<1> QED
  BY <1>3, <1>4

LEMMA InvSchedules == RenderInv => ScheduleIsTheManifest
<1> SUFFICES ASSUME RenderInv,
                    exit.command # "none", exit.code = 0, exit.output = "generated",
                    render # {}, NEW profile \in Profiles
             PROVE  LET timer == tree["generated"][<<profile, "timer">>]
                        service == tree["generated"][<<profile, "service">>]
                    IN  \/ /\ Scheduled(profile) = {}
                           /\ timer = Absent /\ service = Absent
                        \/ \E job \in Scheduled(profile) :
                              /\ timer.is = "timer"
                              /\ timer.oncalendar \in to_oncalendar(job.schedule)
                              /\ IF Executes(job)
                                 THEN /\ service.is = "service" /\ service.authorization # ""
                                      /\ service.authorization = job.authorization
                                      /\ service.backend = BackendFor(job)
                                 ELSE service = Absent
  BY DEF ScheduleIsTheManifest
<1>1. JobsTyped /\ TreeTyped /\ ~Refused /\ DoneBut({}, {})
  BY DEF RenderInv
<1> QED
  BY <1>1, CompleteIsScheduled

---------------------------------------------------------------------------
(* Rendering keeps the invariant *)

\* What is rendered, and whether, depends on the manifest and the profiles.
LEMMA RenderKept ==
    ASSUME UNCHANGED <<manifest, profiles>>
    PROVE  render' = render /\ Refused' = Refused
<1>1. ASSUME NEW job PROVE Executes(job)' = Executes(job)
  BY DEF Executes
<1>2. render' = render
  BY <1>1 DEF render, _service_dropin, BackendFor
<1>3. ASSUME NEW jobs, NEW k PROVE JobRefused(jobs, k)' = JobRefused(jobs, k)
  BY <1>1 DEF JobRefused
<1>4. Refused' = Refused
  BY <1>3 DEF Refused
<1> QED
  BY <1>2, <1>4

LEMMA ScheduleStarts == ScheduleInit => RenderInv
<1> SUFFICES ASSUME ScheduleInit PROVE RenderInv
  OBVIOUS
<1>1. JobsTyped /\ pending = NoRender /\ exit = NoExit
  BY DEF ScheduleInit, JobsTyped
<1>2. TreeTyped
  BY DEF ScheduleInit, TreeTyped
<1> QED
  BY <1>1, <1>2 DEF RenderInv, PendingTyped, NoRender, NoExit

\* Nothing but the last command's exit, and what follows from it, has changed.
LEMMA OnlyExits ==
    ASSUME RenderInv, ~pending.active, NEW command, NEW code, NEW output,
           Exit(command, code, output),
           UNCHANGED <<manifest, profiles, tree, pending, edits>>,
           code = 0 /\ output = "generated" /\ render # {} => ~Refused /\ DoneBut({}, {})
    PROVE  RenderInv'
<1>1. render' = render /\ Refused' = Refused /\ DoneBut({}, {})' = DoneBut({}, {})
  BY RenderKept DEF DoneBut, On, Wanted
<1>2. exit' = [command |-> command, code |-> code, output |-> output]
  BY DEF Exit
<1>3. JobsTyped' /\ TreeTyped' /\ PendingTyped'
  BY DEF RenderInv, JobsTyped, TreeTyped, PendingTyped
<1> QED
  BY <1>1, <1>2, <1>3 DEF RenderInv

\* Without drift the tree is complete.
LEMMA NoDrift == ASSUME ~drift("generated") PROVE DoneBut({}, {})
BY DEF drift, StaleOf, DoneBut

\* What a render removes is not what it writes.
LEMMA StartsWhole ==
    /\ StaleOf("generated", render) \cap Wanted(render) = {}
    /\ DoneBut(render, StaleOf("generated", render))
BY DEF DoneBut, StaleOf

\* An edit happens between renders, and no exit code outlives it.
LEMMA EditsKeep ==
    ASSUME RenderInv, Edit, JobsTyped', TreeTyped' PROVE RenderInv'
<1>1. pending' = pending /\ exit' = NoExit /\ ~pending.active
  BY DEF Edit
<1>2. PendingTyped' /\ pending = NoRender
  BY <1>1 DEF RenderInv, PendingTyped
<1> QED
  BY <1>1, <1>2 DEF RenderInv, NoRender, NoExit

LEMMA ScheduleStep == ASSUME RenderInv, ScheduleNext PROVE RenderInv'
<1> DEFINE Kept == UNCHANGED <<manifest, profiles>>
<1>1. ASSUME Kept
      PROVE  JobsTyped' /\ render' = render /\ Refused' = Refused
  BY <1>1, RenderKept DEF RenderInv, JobsTyped
<1>2. ASSUME NEW command, NEW output, RenderRefused(command, output) PROVE RenderInv'
  BY <1>2, OnlyExits DEF RenderRefused
<1>3. ASSUME NEW command, NEW output, NothingToRender(command, output) PROVE RenderInv'
  BY <1>3, OnlyExits DEF NothingToRender
<1>4. ASSUME NEW output, Check(output) PROVE RenderInv'
  <2>1. output = "generated" /\ (IF drift(output) THEN 1 ELSE 0) = 0 => DoneBut({}, {})
    BY NoDrift
  <2> QED
    BY <1>4, <2>1, OnlyExits DEF Check
<1>5. ASSUME NEW output, StartWrite(output) PROVE RenderInv'
  <2>1. /\ pending' = [active |-> TRUE, output |-> output,
                       stale |-> StaleOf(output, render), items |-> render]
        /\ exit' = NoExit /\ tree' = tree /\ Kept /\ ~Refused
    BY <1>5 DEF StartWrite
  <2>2. TreeTyped' /\ PendingTyped'
    BY <2>1 DEF RenderInv, TreeTyped, PendingTyped
  <2>3. render' = render /\ ~Refused' /\ JobsTyped'
    BY <1>1, <2>1
  <2>4. output = "generated" =>
          /\ pending'.stale \cap Wanted(render') = {}
          /\ DoneBut(pending.items, pending.stale)'
    BY <2>1, <2>3, StartsWhole DEF DoneBut, On, Wanted
  <2> QED
    BY <2>1, <2>2, <2>3, <2>4 DEF RenderInv, NoExit
<1>6. ASSUME NEW p \in Paths, RemoveStale(p) PROVE RenderInv'
  <2>1. /\ p \in pending.stale
        /\ tree' = [tree EXCEPT ![pending.output][p] = Absent]
        /\ pending' = [pending EXCEPT !.stale = @ \ {p}]
        /\ exit' = exit /\ Kept
    BY <1>6 DEF RemoveStale
  <2>2. pending.active
    BY <2>1 DEF RenderInv, NoRender
  <2>3. /\ pending'.active /\ pending'.output = pending.output
        /\ pending'.items = pending.items /\ pending'.stale = pending.stale \ {p}
        /\ PendingTyped'
    BY <2>1, <2>2 DEF RenderInv, PendingTyped
  <2>4. JobsTyped' /\ render' = render /\ ~Refused'
    BY <1>1, <2>1, <2>2 DEF RenderInv
  <2>5. TreeTyped'
    BY <2>1 DEF RenderInv, TreeTyped
  <2>6. ASSUME pending.output = "generated"
        PROVE  /\ pending'.stale \cap Wanted(render') = {}
               /\ DoneBut(pending.items, pending.stale)'
    <3>1. /\ pending.stale \cap Wanted(render) = {}
          /\ DoneBut(pending.items, pending.stale)
      BY <2>2, <2>6 DEF RenderInv
    <3>2. \A q \in Paths : /\ q # p => tree'["generated"][q] = tree["generated"][q]
                           /\ tree'["generated"][p] = Absent
      BY <2>1, <2>6 DEF RenderInv, TreeTyped, Dirs
    <3>3. \A item \in render \ pending.items : tree'["generated"][item.path] = item.content
      <4> SUFFICES ASSUME NEW item \in render \ pending.items
                   PROVE  tree'["generated"][item.path] = item.content
        OBVIOUS
      <4>1. item.path \in Paths
        BY <2>2, PathsOfItems DEF RenderInv
      <4>2. item.path # p
        BY <2>1, <3>1 DEF Wanted
      <4> QED
        BY <3>1, <3>2, <4>1, <4>2 DEF DoneBut
    <3>4. On("generated")' \subseteq Wanted(render) \cup (pending.stale \ {p})
      BY <3>1, <3>2 DEF On, DoneBut
    <3>5. pending'.stale \cap Wanted(render) = {}
      BY <2>3, <3>1
    <3> QED
      BY <2>3, <2>4, <3>3, <3>4, <3>5 DEF DoneBut, Wanted
  <2> QED
    BY <2>1, <2>2, <2>3, <2>4, <2>5, <2>6 DEF RenderInv, NoExit
<1>7. ASSUME NEW item \in pending.items, WriteItem(item) PROVE RenderInv'
  <2>1. /\ pending.stale = {}
        /\ tree' = [tree EXCEPT !["generated"][item.path] = item.content]
        /\ pending' = [pending EXCEPT !.items = @ \ {item}]
        /\ exit' = exit /\ Kept
    BY <1>7 DEF WriteItem
  <2>2. pending.active
    BY <1>7 DEF RenderInv, NoRender
  <2>3. /\ pending'.active /\ pending'.output = pending.output
        /\ pending'.items = pending.items \ {item} /\ pending'.stale = pending.stale
        /\ PendingTyped'
    BY <2>1, <2>2 DEF RenderInv, PendingTyped
  <2>4. JobsTyped' /\ render' = render /\ ~Refused'
    BY <1>1, <2>1, <2>2 DEF RenderInv
  <2>5. TreeTyped'
    BY <2>1 DEF RenderInv, TreeTyped
  <2>6. item \in render /\ item.path \in Paths /\ pending.items \subseteq render
    BY <1>7, <2>2, PathsOfItems DEF RenderInv
  <2>7. ASSUME pending.output = "generated"
        PROVE  DoneBut(pending.items, pending.stale)'
    <3>1. DoneBut(pending.items, pending.stale)
      BY <2>2, <2>7 DEF RenderInv
    <3>2. \A q \in Paths : /\ q # item.path => tree'["generated"][q] = tree["generated"][q]
                           /\ tree'["generated"][item.path] = item.content
      BY <2>1, <2>6 DEF RenderInv, TreeTyped, Dirs
    <3>3. \A other \in render \ (pending.items \ {item}) :
            tree'["generated"][other.path] = other.content
      <4> SUFFICES ASSUME NEW other \in render \ (pending.items \ {item})
                   PROVE  tree'["generated"][other.path] = other.content
        OBVIOUS
      <4>1. CASE other = item
        BY <2>6, <3>2, <4>1
      <4>2. CASE other # item
        <5>1. other.path \in Paths /\ other.path # item.path
          BY <2>2, <2>6, <4>2, PathsOfItems, PathsDiffer DEF RenderInv
        <5>2. tree["generated"][other.path] = other.content
          BY <3>1, <4>2 DEF DoneBut
        <5> QED
          BY <3>2, <5>1, <5>2
      <4> QED
        BY <4>1, <4>2
    <3>4. On("generated")' \subseteq Wanted(render) \cup pending.stale
      BY <2>6, <3>1, <3>2 DEF On, DoneBut, Wanted
    <3> QED
      BY <2>3, <2>4, <3>3, <3>4 DEF DoneBut, Wanted
  <2>8. pending'.stale \cap Wanted(render') = {}
    BY <2>1, <2>3
  <2> QED
    BY <2>1, <2>2, <2>3, <2>4, <2>5, <2>6, <2>7, <2>8 DEF RenderInv, NoExit
<1>8. CASE WriteDone
  <2>1. /\ pending.active /\ pending.stale = {} /\ pending.items = {}
        /\ exit' = [command |-> "render", code |-> 0, output |-> pending.output]
        /\ pending' = NoRender /\ tree' = tree /\ Kept
    BY <1>8 DEF WriteDone, Exit
  <2>2. JobsTyped' /\ render' = render /\ ~Refused'
    BY <1>1, <2>1 DEF RenderInv
  <2>3. TreeTyped' /\ PendingTyped'
    BY <2>1 DEF RenderInv, TreeTyped, PendingTyped, NoRender
  <2>4. pending.output = "generated" => DoneBut({}, {})'
    BY <2>1, <2>2 DEF RenderInv, DoneBut, On, Wanted
  <2> QED
    BY <2>1, <2>2, <2>3, <2>4 DEF RenderInv, NoRender
<1>9. CASE Interrupt
  <2>1. /\ exit' = [command |-> "render", code |-> 130, output |-> pending.output]
        /\ pending' = NoRender /\ Kept
    BY <1>9 DEF Interrupt, Exit
  <2>2. TreeTyped'
    <3>1. TreeTyped
      BY DEF RenderInv
    <3>2. CASE UNCHANGED tree
      BY <3>1, <3>2 DEF TreeTyped
    <3>3. CASE \E item \in pending.items :
                 tree' = [tree EXCEPT !["generated"][item.path] = Torn]
      <4>1. PICK item \in pending.items :
              tree' = [tree EXCEPT !["generated"][item.path] = Torn]
        BY <3>3
      <4> DEFINE path == item.path
      <4>2. tree' = [tree EXCEPT !["generated"][path] = Torn]
        BY <4>1
      <4> HIDE DEF path
      <4> QED
        BY <3>1, <4>2 DEF TreeTyped
    <3> QED
      BY <1>9, <3>2, <3>3 DEF Interrupt
  <2>3. JobsTyped' /\ PendingTyped'
    BY <1>1, <2>1 DEF PendingTyped, NoRender
  <2> QED
    BY <2>1, <2>2, <2>3 DEF RenderInv, NoRender
<1>10. CASE EditManifest
  <2>1. Edit /\ JobsTyped' /\ TreeTyped'
    BY <1>10 DEF EditManifest, RenderInv, JobsTyped, TreeTyped
  <2> QED
    BY <2>1, EditsKeep
<1>11. CASE EditProfiles
  <2>1. Edit /\ JobsTyped' /\ TreeTyped'
    BY <1>11 DEF EditProfiles, RenderInv, JobsTyped, TreeTyped
  <2> QED
    BY <2>1, EditsKeep
<1>12. CASE EditDropIn
  <2>1. Edit /\ JobsTyped' /\ TreeTyped'
    BY ZenonT(30), <1>12 DEF EditDropIn, RenderInv, JobsTyped, TreeTyped
  <2> QED
    BY <2>1, EditsKeep
<1> QED
  BY <1>2, <1>3, <1>4, <1>5, <1>6, <1>7, <1>8, <1>9, <1>10, <1>11, <1>12 DEF ScheduleNext

LEMMA ScheduleStutter == ASSUME RenderInv, UNCHANGED scheduleVars PROVE RenderInv'
<1>1. render' = render /\ Refused' = Refused
  BY RenderKept DEF scheduleVars
<1>2. /\ DoneBut({}, {})' = DoneBut({}, {})
      /\ DoneBut(pending.items, pending.stale)' = DoneBut(pending.items, pending.stale)
      /\ Wanted(render)' = Wanted(render)
  BY <1>1 DEF scheduleVars, DoneBut, On, Wanted
<1>3. JobsTyped' /\ TreeTyped' /\ PendingTyped'
  BY DEF scheduleVars, RenderInv, JobsTyped, TreeTyped, PendingTyped
<1> QED
  BY <1>1, <1>2, <1>3 DEF scheduleVars, RenderInv

\* The invariant of the schedule: what an unfinished render has done.
THEOREM RenderInvariant == OpsSpec => []RenderInv
<1>1. OpsInit => RenderInv
  BY ScheduleStarts DEF OpsInit
<1>2. RenderInv /\ [OpsNext]_opsVars => RenderInv'
  <2> SUFFICES ASSUME RenderInv, [OpsNext]_opsVars PROVE RenderInv'
    OBVIOUS
  <2>1. ScheduleNext \/ UNCHANGED scheduleVars
    BY DEF OpsNext, opsVars, Fire, RunEnds
  <2> QED
    BY <2>1, ScheduleStep, ScheduleStutter
<1> QED
  BY <1>1, <1>2, PTL DEF OpsSpec

\* Whatever was edited, removed or torn before, a script that exits 0 leaves or
\* finds the schedule of the manifest (render_systemd.py).
THEOREM TreeFollowsManifest == OpsSpec => []ScheduleIsTheManifest
BY RenderInvariant, InvSchedules, PTL

---------------------------------------------------------------------------
(* One broken rule *)

\* Breaking the i-th file changes what the library says of no other name.
LEMMA RulesSurvive ==
    ASSUME NEW files, files \in Seq(Range(files)),
           NEW i \in DOMAIN files, IsRule(files, i),
           NEW rule, rule.name # files[i].name
    PROVE  rule \in RulesOf([files EXCEPT ![i] = Broken]) <=> rule \in RulesOf(files)
<1> DEFINE broken == [files EXCEPT ![i] = Broken]
<1>1. /\ DOMAIN broken = DOMAIN files /\ broken[i] = Broken
      /\ \A k \in DOMAIN files : k # i => broken[k] = files[k]
  OBVIOUS
<1>2. /\ \A k \in DOMAIN files : \A j \in 1..(k - 1) : j \in DOMAIN files
      /\ \A k \in DOMAIN files : k \in Nat
  OBVIOUS
<1>3. /\ ~IsRule(broken, i)
      /\ \A k \in DOMAIN files : k # i => (IsRule(broken, k) <=> IsRule(files, k))
  BY <1>1 DEF IsRule
<1>4. ASSUME NEW f
      PROVE  rule \in RulesOf(f) <=>
                \E k \in DOMAIN f : /\ rule = f[k] /\ IsRule(f, k)
                                    /\ \A j \in 1..(k - 1) :
                                          IsRule(f, j) => f[j].name # f[k].name
  BY DEF RulesOf
<1> HIDE DEF broken
<1>5. ASSUME rule \in RulesOf(broken) PROVE rule \in RulesOf(files)
  <2>1. PICK k \in DOMAIN broken :
          /\ rule = broken[k] /\ IsRule(broken, k)
          /\ \A j \in 1..(k - 1) : IsRule(broken, j) => broken[j].name # broken[k].name
    BY <1>4, <1>5
  <2>2. k \in DOMAIN files /\ rule = files[k] /\ IsRule(files, k)
    BY <1>1, <1>3, <2>1
  <2>3. \A j \in 1..(k - 1) : IsRule(files, j) => files[j].name # files[k].name
    BY <1>1, <1>2, <1>3, <2>1, <2>2
  <2> QED
    BY <1>4, <2>2, <2>3
<1>6. ASSUME rule \in RulesOf(files) PROVE rule \in RulesOf(broken)
  <2>1. PICK k \in DOMAIN files :
          /\ rule = files[k] /\ IsRule(files, k)
          /\ \A j \in 1..(k - 1) : IsRule(files, j) => files[j].name # files[k].name
    BY <1>4, <1>6
  <2>2. k # i /\ k \in DOMAIN broken /\ rule = broken[k] /\ IsRule(broken, k)
    BY <1>1, <1>3, <2>1
  <2>3. \A j \in 1..(k - 1) : IsRule(broken, j) => broken[j].name # broken[k].name
    BY <1>1, <1>2, <1>3, <2>1, <2>2
  <2> QED
    BY <1>4, <2>2, <2>3
<1> QED
  BY <1>5, <1>6 DEF broken

\* c is a case that the profile plans for the rule.
PlansCase(profile, rule, c) ==
    \E i \in DOMAIN rule.emulation :
        /\ Matches(rule, profile.select) /\ rule.name \notin profile.exclude_rules
        /\ Wants(profile.tests, {rule.emulation[i]})
        /\ c = _build_case(rule, i)

LEMMA CaseOfRule ==
    ASSUME NEW profile, NEW rule, NEW c, PlansCase(profile, rule, c)
    PROVE  c.rule = rule.name
<1>1. PICK i : c = _build_case(rule, i)
  BY DEF PlansCase
<1> QED
  BY <1>1 DEF _build_case

\* A case belongs to a rule that the profile selects, and to nothing else.
LEMMA PlannedFrom ==
    ASSUME NEW library, NEW profile, NEW c
    PROVE  c \in plan(library, profile) <=> \E rule \in library : PlansCase(profile, rule, c)
<1> DEFINE chosen == {r \in select(library, profile.select) : r.name \notin profile.exclude_rules}
           Tested(rule) == {k \in DOMAIN rule.emulation :
                              Wants(profile.tests, {rule.emulation[k]})}
           Of(rule) == {_build_case(rule, i) : i \in Tested(rule)}
<1>1. plan(library, profile) = UNION {Of(rule) : rule \in chosen}
  BY DEF plan
<1>2. \A rule : rule \in chosen <=>
         /\ rule \in library /\ Matches(rule, profile.select)
         /\ rule.name \notin profile.exclude_rules
  BY DEF select
<1>3. \A rule : c \in Of(rule) <=> \E i \in Tested(rule) : c = _build_case(rule, i)
  OBVIOUS
<1>4. \A rule, i : i \in Tested(rule) <=>
         i \in DOMAIN rule.emulation /\ Wants(profile.tests, {rule.emulation[i]})
  OBVIOUS
<1> HIDE DEF chosen, Of, Tested
<1>6. \A rule \in library :
        PlansCase(profile, rule, c) <=> rule \in chosen /\ c \in Of(rule)
  BY <1>2, <1>3, <1>4 DEF PlansCase
<1>5. c \in plan(library, profile) <=> \E rule \in chosen : c \in Of(rule)
  BY <1>1
<1> QED
  BY <1>2, <1>5, <1>6

LEMMA PlanSurvives ==
    ASSUME NEW files, files \in Seq(Range(files)),
           NEW i \in DOMAIN files, IsRule(files, i),
           NEW profile, NEW c, c.rule # files[i].name
    PROVE  c \in plan(RulesOf([files EXCEPT ![i] = Broken]), profile)
              <=> c \in plan(RulesOf(files), profile)
<1>1. ASSUME NEW rule, PlansCase(profile, rule, c)
      PROVE  rule \in RulesOf([files EXCEPT ![i] = Broken]) <=> rule \in RulesOf(files)
  BY <1>1, CaseOfRule, RulesSurvive
<1> QED
  BY <1>1, PlannedFrom

\* A run that begins has the planned cases, and one that ends at once has none.
LEMMA CasesOfRun ==
    ASSUME NEW files, NEW documents, NEW name, NEW backend
    PROVE  \/ \A f : run(f, documents, name, backend).cases = {}
           \/ \E profile : \A f :
                 run(f, documents, name, backend).cases = plan(RulesOf(f), profile)
<1> DEFINE named == ProfileNamed(documents, name)
           chosen == CHOOSE p \in named : TRUE
           wanted == backend_of(chosen, backend)
<1>1. \A status : Ends(status).cases = {}
  BY DEF Ends
<1>2. \A f : load_library(f, FALSE) = RulesOf(f)
  BY DEF load_library
<1>3. CASE Broken \in Range(documents) \/ named = {}
  BY <1>1, <1>3 DEF run
<1>4. CASE ~(Broken \in Range(documents) \/ named = {})
  <2>1. \A f : run(f, documents, name, backend) = Begin(RulesOf(f), chosen, backend)
    BY <1>2, <1>4 DEF run
  <2>2. CASE wanted \notin DOMAIN Backends \/ ~Backends[wanted]
    <3>1. \A library : Begin(library, chosen, backend).cases = {}
      BY <1>1, <2>2 DEF Begin
    <3> QED
      BY <2>1, <3>1
  <2>3. CASE ~(wanted \notin DOMAIN Backends \/ ~Backends[wanted])
    <3>1. \A library : Begin(library, chosen, backend).cases = plan(library, chosen)
      BY <1>1, <2>3 DEF Begin
    <3> QED
      BY <2>1, <3>1
  <2> QED
    BY <2>2, <2>3
<1> QED
  BY <1>3, <1>4

FilesTyped == started.files = <<>> \/ started.files \in Libraries

LEMMA OthersKeepTheirCases == FilesTyped => BrokenRuleCostsOnlyItself
<1> SUFFICES ASSUME FilesTyped,
                    NEW i \in DOMAIN started.files, IsRule(started.files, i)
             PROVE  CasesBut(started.files[i].name, [started.files EXCEPT ![i] = Broken])
                      = CasesBut(started.files[i].name, started.files)
  BY DEF BrokenRuleCostsOnlyItself
<1>1. PICK files : files = started.files
  OBVIOUS
<1>2. files \in Seq(Range(files))
  BY <1>1, OperationsAssumption DEF FilesTyped
<1> DEFINE broken == [files EXCEPT ![i] = Broken]
           Cases(f) == run(f, started.documents, started.profile, started.backend).cases
<1>3. ASSUME NEW c, c.rule # files[i].name
      PROVE  c \in Cases(broken) <=> c \in Cases(files)
  <2>1. CASE \A f : Cases(f) = {}
    BY <2>1
  <2>2. CASE \E profile : \A f : Cases(f) = plan(RulesOf(f), profile)
    <3>1. PICK profile : \A f : Cases(f) = plan(RulesOf(f), profile)
      BY <2>2
    <3>2. i \in DOMAIN files /\ IsRule(files, i)
      BY <1>1
    <3>3. c \in plan(RulesOf(broken), profile) <=> c \in plan(RulesOf(files), profile)
      BY <1>2, <1>3, <3>2, PlanSurvives
    <3> HIDE DEF Cases, broken
    <3> QED
      BY <3>1, <3>3
  <2>3. \/ \A f : Cases(f) = {}
        \/ \E profile : \A f : Cases(f) = plan(RulesOf(f), profile)
    BY CasesOfRun
  <2> QED
    BY <2>1, <2>2, <2>3
<1>4. CasesBut(files[i].name, broken) = CasesBut(files[i].name, files)
  BY <1>3 DEF CasesBut
<1> QED
  BY <1>1, <1>4

\* One broken rule file collects an error and costs the run its own cases: the
\* cases of every other rule are planned as before (library.py).
THEOREM BrokenRulesStayAlone == OpsSpec => []BrokenRuleCostsOnlyItself
<1>1. NoRun.files = <<>>
  BY DEF NoRun
<1>2. OpsInit => FilesTyped
  BY <1>1 DEF OpsInit, FilesTyped
<1>3. FilesTyped /\ [OpsNext]_opsVars => FilesTyped'
  <2> SUFFICES ASSUME FilesTyped, [OpsNext]_opsVars PROVE FilesTyped'
    OBVIOUS
  <2>1. CASE UNCHANGED started
    BY <2>1 DEF FilesTyped
  <2>2. ASSUME NEW profile \in Profiles, Fire(profile) PROVE FilesTyped'
    <3>1. \E files \in Libraries : started'.files = files
      <4>1. PICK files \in Libraries, documents \in Documents :
              LET service == tree["generated"][<<profile, "service">>]
                  execute == service.is = "service"
                  backend == IF execute THEN service.backend ELSE ""
                  texts == FilesOf(documents)
              IN  started' = [profile |-> profile, files |-> files, documents |-> texts,
                              execute |-> execute, backend |-> backend,
                              begun |-> run(files, texts, profile, backend)]
        BY <2>2 DEF Fire
      <4> QED
        BY <4>1
    <3> QED
      BY <3>1 DEF FilesTyped
  <2>3. CASE RunEnds
    BY <1>1, <2>3 DEF RunEnds, FilesTyped
  <2> QED
    BY <2>1, <2>2, <2>3 DEF OpsNext, opsVars
<1> QED
  BY <1>2, <1>3, OthersKeepTheirCases, PTL DEF OpsSpec

=============================================================================
