------------------------------- MODULE Schedule -------------------------------
(***************************************************************************)
(* The schedule of a validation programme: scheduler/jobs.yml is the       *)
(* manifest, and scripts/render_systemd.py renders its timer jobs into     *)
(* systemd drop-ins, which are committed.  Authors edit the manifest and   *)
(* the drop-ins; the script writes file by file and may be interrupted     *)
(* between any two, or within one.                                         *)
(*                                                                         *)
(* A drop-in is <<profile, kind>>: the timer's schedule.conf or the        *)
(* service's execute.conf of the profile's unit instance.  Wording and     *)
(* empty directories are left out; of a service's command line, the        *)
(* backend and the authorisation of record are kept.                       *)
(***************************************************************************)
EXTENDS Integers, Sequences, FiniteSets, Functions

CONSTANTS
    Profiles,    \* the names profiles may have
    Manifests,   \* the contents jobs.yml may have: see Manifest
    ProfileSets, \* the sets of profile files config/profiles/ may hold
    MaxEdits     \* bound: edits before the model stops

Kinds == {"timer", "service"}
Paths == Profiles \X Kinds
Dirs == {"generated", "elsewhere"}      \* the default output and another one

\* What a file may hold besides what the script renders.
Absent == [is |-> "absent"]
Torn == [is |-> "torn"]                 \* cut short by an interrupt
Edited == [is |-> "edited by hand"]

\* A manifest has jobs and defaults for `execute` and `backend`.  "" is a key
\* that is not given.
Job == [name: STRING, trigger: STRING, profile: Profiles \cup {""},
        schedule: [form: STRING, days: STRING, at: STRING],
        execute: {"yes", "no", "default"}, authorization: STRING, backend: STRING]
Manifest == [readable: BOOLEAN, execute: BOOLEAN, backend: STRING, jobs: Seq(Job)]
Unreadable == [readable |-> FALSE, execute |-> FALSE, backend |-> "", jobs |-> <<>>]

ASSUME ScheduleAssumption ==
    /\ \A m \in Manifests : m \in Manifest
    /\ MaxEdits \in Nat

VARIABLES
    manifest,   \* jobs.yml
    profiles,   \* the profiles that have a file in config/profiles/
    tree,       \* directory -> path -> what is on disk
    pending,    \* the render that is writing, or NoRender
    exit,       \* the last command with its exit code, until something is edited
    edits       \* edits so far

scheduleVars == <<manifest, profiles, tree, pending, exit, edits>>

---------------------------------------------------------------------------
(* Rendering *)

\* A time of day, a weekday and time, a systemd shorthand and a calendar
\* expression are translated; anything else is refused.
to_oncalendar(schedule) ==
    CASE schedule.form = "time" -> {[days |-> "*", at |-> schedule.at]}
      [] schedule.form = "day time" -> {[days |-> schedule.days, at |-> schedule.at]}
      [] schedule.form = "shorthand" -> {[days |-> schedule.days, at |-> "midnight"]}
      [] schedule.form = "expression" -> {[days |-> schedule.days, at |-> schedule.at]}
      [] OTHER -> {}

IsTimer(job) == job.trigger = "timer"
Executes(job) == IF job.execute = "default" THEN manifest.execute ELSE job.execute = "yes"

\* ManifestError: the first job in error stops the rendering, so any does.
JobRefused(jobs, k) ==
    LET job == jobs[k]
    IN  /\ IsTimer(job)
        /\ \/ job.profile = ""
           \/ profiles # {} /\ job.profile \notin profiles
           \/ \E j \in 1..(k - 1) : IsTimer(jobs[j]) /\ jobs[j].profile = job.profile
           \/ to_oncalendar(job.schedule) = {}
           \/ Executes(job) /\ job.authorization = ""
Refused == ~manifest.readable \/ \E k \in DOMAIN manifest.jobs : JobRefused(manifest.jobs, k)

_timer_dropin(job, k) ==
    [nth |-> k, path |-> <<job.profile, "timer">>,
     content |-> [is |-> "timer", job |-> job.name,
                  oncalendar |-> CHOOSE c \in to_oncalendar(job.schedule) : TRUE]]

\* A service always names a backend: its job's, the manifest's or the fixture.
BackendFor(job) ==
    IF job.backend # "" THEN job.backend
    ELSE IF manifest.backend # "" THEN manifest.backend ELSE "fixture"
_service_dropin(job, k) ==
    [nth |-> k, path |-> <<job.profile, "service">>,
     content |-> [is |-> "service", backend |-> BackendFor(job),
                  authorization |-> job.authorization]]

\* The drop-ins of the manifest, a timer for each timer job and a service for
\* those that execute.
render ==
    LET jobs == manifest.jobs
        timers == {k \in DOMAIN jobs : IsTimer(jobs[k])}
    IN  {_timer_dropin(jobs[k], k) : k \in timers}
        \cup {_service_dropin(jobs[k], k) : k \in {t \in timers : Executes(jobs[t])}}

\* They are written in the order of the manifest, a job's timer first.
Before(a, b) == a.nth < b.nth \/ (a.nth = b.nth /\ a.path[2] = "timer" /\ b.path[2] = "service")
NextItem(item, items) == item \in items /\ \A other \in items : ~Before(other, item)

Wanted(rendered) == {item.path : item \in rendered}
On(dir) == {p \in Paths : tree[dir][p] # Absent}

---------------------------------------------------------------------------
(* The script *)

NoRender == [active |-> FALSE, output |-> "generated", stale |-> {}, items |-> {}]
NoExit == [command |-> "none", code |-> 0, output |-> "generated"]

ScheduleInit ==
    /\ manifest \in Manifests /\ profiles \in ProfileSets
    /\ tree = [d \in Dirs |-> [p \in Paths |-> Absent]]
    /\ pending = NoRender /\ exit = NoExit /\ edits = 0

Exit(command, code, output) ==
    exit' = [command |-> command, code |-> code, output |-> output]

\* Mutant: a render leaves what it does not render alone.
StaleOfUpdated(output, rendered) == {}

\* What a write removes: the wanted paths all lie in the default output, so of
\* another one nothing is kept.
StaleOf(output, rendered) ==
    IF output = "generated" THEN On(output) \ Wanted(rendered) ELSE On(output)

\* The manifest cannot be rendered: nothing is written or compared.
RenderRefused(command, output) ==
    /\ ~pending.active /\ Refused
    /\ Exit(command, 3, output)
    /\ UNCHANGED <<manifest, profiles, tree, pending, edits>>

\* It holds no timer job: the script stops before it writes or compares.
NothingToRender(command, output) ==
    /\ ~pending.active /\ ~Refused /\ render = {}
    /\ Exit(command, 0, output)
    /\ UNCHANGED <<manifest, profiles, tree, pending, edits>>

\* --check: whatever the output, the rendered paths are in the default one.
drift(output) ==
    \/ \E item \in render : tree["generated"][item.path] # item.content
    \/ StaleOf(output, render) # {}
Check(output) ==
    /\ ~pending.active /\ ~Refused /\ render # {}
    /\ Exit("check", IF drift(output) THEN 1 ELSE 0, output)
    /\ UNCHANGED <<manifest, profiles, tree, pending, edits>>

\* A render reads the manifest and what it has to remove.
StartWrite(output) ==
    /\ ~pending.active /\ ~Refused /\ render # {}
    /\ pending' = [active |-> TRUE, output |-> output,
                   stale |-> StaleOf(output, render), items |-> render]
    /\ exit' = NoExit
    /\ UNCHANGED <<manifest, profiles, tree, edits>>

\* One file that is no longer in the manifest is removed.  The services of an
\* instance come before its timers, and instances in the order of their names;
\* the order does not matter to what is left, so any is allowed.
RemoveStale(p) ==
    /\ p \in pending.stale
    /\ tree' = [tree EXCEPT ![pending.output][p] = Absent]
    /\ pending' = [pending EXCEPT !.stale = @ \ {p}]
    /\ UNCHANGED <<manifest, profiles, exit, edits>>

\* Then each drop-in that differs is written, in the default output.
WriteItem(item) ==
    /\ pending.stale = {} /\ NextItem(item, pending.items)
    /\ tree' = [tree EXCEPT !["generated"][item.path] = item.content]
    /\ pending' = [pending EXCEPT !.items = @ \ {item}]
    /\ UNCHANGED <<manifest, profiles, exit, edits>>

WriteDone ==
    /\ pending.active /\ pending.stale = {} /\ pending.items = {}
    /\ Exit("render", 0, pending.output)
    /\ pending' = NoRender
    /\ UNCHANGED <<manifest, profiles, tree, edits>>

\* Ctrl-C, between two files or while one is written; a file that is already
\* what it should be is not opened.
Interrupt ==
    /\ pending.active
    /\ Exit("render", 130, pending.output)
    /\ pending' = NoRender
    /\ \/ UNCHANGED tree
       \/ /\ pending.stale = {}
          /\ \E item \in pending.items :
                /\ NextItem(item, pending.items)
                /\ tree["generated"][item.path] # item.content
                /\ tree' = [tree EXCEPT !["generated"][item.path] = Torn]
    /\ UNCHANGED <<manifest, profiles, edits>>

---------------------------------------------------------------------------
(* The authors *)

Edit ==
    /\ ~pending.active /\ edits < MaxEdits
    /\ edits' = edits + 1 /\ exit' = NoExit
    /\ UNCHANGED pending

EditManifest ==
    /\ Edit
    /\ \E m \in Manifests \ {manifest} : manifest' = m
    /\ UNCHANGED <<profiles, tree>>

EditProfiles ==
    /\ Edit
    /\ \E s \in ProfileSets \ {profiles} : profiles' = s
    /\ UNCHANGED <<manifest, tree>>

\* "Do not edit", says the banner of a drop-in.
EditDropIn ==
    /\ Edit
    /\ \E d \in Dirs, p \in Paths, c \in {Absent, Edited} :
          /\ tree[d][p] # c
          /\ tree' = [tree EXCEPT ![d][p] = c]
    /\ UNCHANGED <<manifest, profiles>>

ScheduleNext ==
    \/ \E command \in {"check", "render"}, output \in Dirs :
          RenderRefused(command, output) \/ NothingToRender(command, output)
    \/ \E output \in Dirs : Check(output) \/ StartWrite(output)
    \/ \E p \in Paths : RemoveStale(p)
    \/ \E item \in pending.items : WriteItem(item)
    \/ WriteDone \/ Interrupt
    \/ EditManifest \/ EditProfiles \/ EditDropIn

---------------------------------------------------------------------------
(* Correctness *)

\* The schedule that the manifest means for a profile.
Scheduled(profile) ==
    {job \in Range(manifest.jobs) : IsTimer(job) /\ job.profile = profile}

\* The manifest is the source of truth: when the script exits 0 with something
\* to render in the default output, a profile has a timer on disk exactly if a
\* job schedules it, at that job's time, and a service that executes exactly if
\* that job does, under its authorization and against its backend: whatever was
\* edited, removed or torn before.
ScheduleIsTheManifest ==
    exit.command # "none" /\ exit.code = 0 /\ exit.output = "generated" /\ render # {} =>
        \A profile \in Profiles :
            LET timer == tree["generated"][<<profile, "timer">>]
                service == tree["generated"][<<profile, "service">>]
            IN  \/ /\ Scheduled(profile) = {}
                   /\ timer = Absent /\ service = Absent
                \/ \E job \in Scheduled(profile) :
                      /\ timer.is = "timer" /\ timer.oncalendar \in to_oncalendar(job.schedule)
                      /\ IF Executes(job)
                         THEN /\ service.is = "service" /\ service.authorization # ""
                              /\ service.authorization = job.authorization
                              /\ service.backend = BackendFor(job)
                         ELSE service = Absent

=============================================================================
