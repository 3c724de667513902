----------------------------- MODULE MCPipeline -----------------------------
(* A lab of two tests and five cases for model checking validation runs.   *)
EXTENDS Pipeline

MCTests == {"dump", "shell"}
MCTechniques == {"T1003", "T1059"}
MCParentOf == [t \in MCTechniques |-> t]

CaseOf(rule, test, covers, matches) ==
    [rule |-> rule, test |-> test, enabled |-> TRUE, compiles |-> TRUE,
     probe |-> TRUE, covers |-> covers, matches |-> matches,
     expected |-> "DETECTED", max_latency |-> 3]

\* "dumper" has two variants and recognises one of them; "bare" declares no log
\* sources; "off" is disabled and "odd" does not compile.
MCCases ==
    LET dumper(test) == CaseOf("dumper", test, {"dump", "shell", NoTest}, {"dump", NoTest})
        other(rule) == CaseOf(rule, "dump", {"dump"}, {"dump"})
    IN  << [other("bare") EXCEPT !.probe = FALSE, !.expected = "VISIBLE"],
           dumper("dump"), dumper("shell"),
           [other("odd") EXCEPT !.compiles = FALSE],
           [other("off") EXCEPT !.enabled = FALSE] >>

Entry(technique) ==
    [technique |-> technique, platform |-> "linux", executor |-> "bash",
     destructive |-> FALSE, hasCleanup |-> FALSE, duration |-> 1]

Open == [execution_requested |-> TRUE, authorized |-> TRUE,
         authorization_reference |-> TRUE, host_allowlist |-> {"lab"},
         require_lab_tag |-> FALSE, technique_denylist |-> {},
         technique_allowlist |-> {}, allow_destructive |-> FALSE,
         require_cleanup |-> FALSE, max_failures |-> 2]
Unasked == [Open EXCEPT !.execution_requested = FALSE]

Invocation(policy, backend, default) ==
    [plan |-> PlannedTests(MCTests), known |-> MCTests,
     catalog |-> [t \in MCTests |-> Entry(IF t = "dump" THEN "T1003" ELSE "T1059")],
     policy |-> policy,
     target |-> [host |-> "lab", platform |-> "linux", looks_like_lab |-> TRUE],
     backend |-> backend, default_backend |-> default, inter_test_delay |-> 1]

\* Executing live, fully or with one test refused; asked for a live platform
\* without executing, with either default backend; and offline.
Executing == Invocation(Open, "live", "live")
NotExecuting == Invocation(Unasked, "live", "fixture")
MCSetups ==
    {Executing, NotExecuting,
     Invocation([Open EXCEPT !.technique_denylist = {"T1059"}], "live", "fixture"),
     Invocation(Unasked, "live", "live"),
     Invocation(Unasked, "fixture", "fixture")}
ExecutingSetups == {Executing}

\* Everyday activity that looks like dumping credentials, in the quiet window.
MCBackgrounds == {{[origin |-> NoTest, time |-> -3, arrives |-> 0, line |-> 0]}}

Rec(origin, offset) == [origin |-> origin, offset |-> offset]
\* Nothing; one event; all three origins; four of one test in order, and out of
\* order as two recordings read one after the other; one that is too late.
MCCorpora ==
    {<<>>, <<Rec("dump", 3)>>, <<Rec(NoTest, 2), Rec("dump", 1), Rec("shell", -2)>>,
     <<Rec("dump", 0), Rec("dump", 1), Rec("shell", 0), Rec("dump", 3), Rec("dump", 9)>>,
     <<Rec("dump", 2), Rec("dump", 3), Rec("dump", 1), Rec("shell", 0)>>,
     <<Rec(NoTest, 0), Rec("shell", 9), Rec(NoTest, 0)>>}

=============================================================================
