------------------------------ MODULE Operations ------------------------------
(***************************************************************************)
(* A scheduled validation programme: Schedule renders the manifest into    *)
(* timers, CI checks the committed result, it is installed on a host, and  *)
(* a timer that fires starts `dvp run --profile` there, which plans its    *)
(* cases from the rule and profile files it finds (Planning).              *)
(***************************************************************************)
EXTENDS Schedule, Planning, SequencesExt

CONSTANTS
    Libraries,   \* the contents detections/ may have: sequences of files, by path
    Documents    \* the contents of the profile files: profile file -> document

ASSUME OperationsAssumption == \A files \in Libraries : files \in Seq(Range(files))

VARIABLE started   \* the run a timer started, until it has ended

opsVars == <<scheduleVars, started>>

NoRun == [profile |-> "", files |-> <<>>, documents |-> <<>>, execute |-> FALSE,
          backend |-> "", begun |-> Ends("none")]

\* The profile files that exist, by name.
FilesOf(documents) ==
    LET present == SetToSortSeq(profiles, LAMBDA a, b : documents[a].nth < documents[b].nth)
    IN  [k \in DOMAIN present |-> documents[present[k]].text]

\* A timer of a tree that CI has checked fires: the unit's own command line, or
\* the one of its drop-in, which executes and names a backend.
Fire(profile) ==
    /\ started = NoRun
    /\ exit = [command |-> "check", code |-> 0, output |-> "generated"]
    /\ tree["generated"][<<profile, "timer">>].is = "timer"
    /\ \E files \in Libraries, documents \in Documents :
          LET service == tree["generated"][<<profile, "service">>]
              execute == service.is = "service"
              backend == IF execute THEN service.backend ELSE ""
              texts == FilesOf(documents)
          IN  started' = [profile |-> profile, files |-> files, documents |-> texts,
                          execute |-> execute, backend |-> backend,
                          begun |-> run(files, texts, profile, backend)]
    /\ UNCHANGED scheduleVars

\* The run goes its way (Emulation, Pipeline) and ends.
RunEnds ==
    /\ started # NoRun
    /\ started' = NoRun
    /\ UNCHANGED scheduleVars

OpsInit == ScheduleInit /\ started = NoRun
OpsNext ==
    \/ started = NoRun /\ ScheduleNext /\ UNCHANGED started
    \/ \E profile \in Profiles : Fire(profile)
    \/ RunEnds
OpsSpec == OpsInit /\ [][OpsNext]_opsVars

---------------------------------------------------------------------------
(* Correctness *)

\* The cases of rules of other names that the run has, or would have had if the
\* i-th rule file were broken.
CasesBut(name, files) ==
    {c \in run(files, started.documents, started.profile, started.backend).cases :
        c.rule # name}

\* library.py: "one broken rule collects an error and the rest of the library
\* still loads".  Whatever file of the library breaks, wherever it is and
\* whatever else is broken, the run keeps every case of every other rule.
BrokenRuleCostsOnlyItself ==
    \A i \in DOMAIN started.files : IsRule(started.files, i) =>
        LET name == started.files[i].name
        IN  CasesBut(name, [started.files EXCEPT ![i] = Broken]) = CasesBut(name, started.files)

---------------------------------------------------------------------------
(* A claim that the code does not keep *)

\* library.py on faults: "Callers that need strictness (the pipeline planner)
\* pass strict=True."  So no run is planned from a library that has errors.
PlannerIsStrict ==
    started.begun.status = "running" => ErrorsOf(started.files) = {}

=============================================================================
