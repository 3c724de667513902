---------------------------- MODULE MCRecording ----------------------------
(* Two adjacent tests, three log sources and histories of one or two       *)
(* recordings, for model checking the recorder, replays and heartbeats.    *)
EXTENDS Recording, TLC

MCTestNames == <<"__baseline__", "dump", "shell">>
MCCorpusNames == <<"lab", "spare">>
MCSources == <<"process", "file", "network">>
MCDeclared == ("dump" :> 2) @@ ("shell" :> 1)

CaseOf(rule, test, telemetry, latency) ==
    [rule |-> rule, test |-> test, telemetry |-> telemetry, max_latency |-> latency]
MCCases ==
    {CaseOf("dumper", "dump", {"process"}, 1), CaseOf("dumper", "shell", {"process", "file"}, 1),
     CaseOf("beacon", "shell", {"file", "network"}, 4), CaseOf("beacon", "dump", {"network"}, 1)}
MCHeartbeats ==
    ("process" :> [interval |-> Undeclared, grace |-> Undeclared])
        @@ ("file" :> [interval |-> 1, grace |-> 6]) @@ ("network" :> [interval |-> 0, grace |-> 0])

Ev(id, time, host, scopes, matches) ==
    [id |-> id, time |-> time, dated |-> TRUE, host |-> host, scopes |-> scopes,
     matches |-> matches]

\* Inside the first test, where both meet, inside the second and in two scopes;
\* after both, before anything, between the baseline and the tests, without a
\* time stamp of its own, and of a source that is not mapped.  One names no host.
During == Ev(1, 5, "alpha", {"process"}, {"dumper"})
Sooner == Ev(2, 4, "beta", {"process"}, {"dumper"})
Between == Ev(3, 6, NoHost, {"process"}, {"dumper", "beacon"})
Shared == Ev(4, 7, "beta", {"process", "file"}, {"beacon"})
After == Ev(5, 9, "gamma", {"file"}, {"beacon"})
Quiet == Ev(6, 2, "gamma", {"file"}, {"dumper"})
Undated == [Ev(7, 5, "alpha", {"file"}, {"dumper"}) EXCEPT !.dated = FALSE]
Early == Ev(9, 3, "alpha", {"process"}, {"dumper"})
Remote == Ev(8, 7, "beta", {"network"}, {"beacon"})

MCSpans == [t \in {MCTestNames[i] : i \in 1..3} |->
               CASE t = "dump" -> [from |-> 4, to |-> 6]
                 [] t = "shell" -> [from |-> 6, to |-> 8]
                 [] OTHER -> [from |-> 0, to |-> 2]]

Live(name, overwrite, at, events) ==
    [name |-> name, overwrite |-> overwrite, at |-> at, events |-> events, spans |-> MCSpans]

Busy == {During, Sooner, Between, Quiet}
MCEventSets ==
    {{}, Busy, {Shared, After, Undated, Remote}, {During, Shared, Remote},
     {After, Quiet, Between}, {Early, Shared}}

Alone == {<<Live("lab", FALSE, 10, events)>> : events \in MCEventSets}
Pairs ==
    {<<Live("lab", FALSE, 10, first), Live(name, overwrite, 12, second)>> :
        first \in {Busy, {During, Shared, Remote}}, second \in {Busy, {After, Quiet, Between}},
        name \in {"lab", "spare"}, overwrite \in BOOLEAN}
MCHistories == Alone \cup Pairs

=============================================================================
