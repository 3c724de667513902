----------------------------- MODULE MCOperations -----------------------------
(* Two profiles, manifests of every kind and small libraries. *)
EXTENDS Operations, TLC

At(form, days, at) == [form |-> form, days |-> days, at |-> at]
Nightly == At("time", "*", "02:15")
Weekly == At("day time", "Sun", "03:00")
Monthly == At("expression", "Mon *-*-01..07", "04:00")
Daily == At("shorthand", "*", "midnight")
Sometimes == At("other", "", "")

TheJob(name, trigger, profile, schedule, execute, authorization, backend) ==
    [name |-> name, trigger |-> trigger, profile |-> profile, schedule |-> schedule,
     execute |-> execute, authorization |-> authorization, backend |-> backend]
M(execute, jobs) == [readable |-> TRUE, execute |-> execute, backend |-> "", jobs |-> jobs]

Smoke == TheJob("smoke", "ci", "quick", Nightly, "no", "", "fixture")
Offline == TheJob("offline", "timer", "quick", Nightly, "no", "", "fixture")
Live == TheJob("live", "timer", "theft", Weekly, "yes", "CHG-1", "splunk")

MCManifests ==
    {Unreadable,
     M(FALSE, <<Smoke>>),                                       \* nothing to render
     M(FALSE, <<Smoke, Offline, Live>>),
     M(FALSE, <<Live>>),
     M(FALSE, <<Offline>>),
     M(TRUE, <<[Offline EXCEPT !.execute = "default"]>>),       \* not authorised
     M(TRUE, <<[Live EXCEPT !.execute = "default", !.schedule = Monthly,
                            !.authorization = "CHG-2", !.backend = ""]>>),
     [M(FALSE, <<[Live EXCEPT !.backend = ""], Offline>>) EXCEPT !.backend = "splunk"],
     M(FALSE, <<[Live EXCEPT !.execute = "no", !.schedule = Daily], Offline>>),
     M(FALSE, <<Offline, [Offline EXCEPT !.name = "again"]>>),  \* one profile twice
     M(FALSE, <<[Offline EXCEPT !.schedule = Sometimes], Live>>),
     M(FALSE, <<[Offline EXCEPT !.profile = ""]>>)}

MCProfileSets == {{}, {"quick"}, {"quick", "theft"}}

---------------------------------------------------------------------------

Rule(name, status, techniques, emulation) ==
    [name |-> name, status |-> status, severity |-> 3, platforms |-> {"windows"},
     tactics |-> {"access"}, techniques |-> techniques, tags |-> {}, emulation |-> emulation,
     enabled |-> TRUE, expect |-> "DETECTED"]
Dumper == Rule("dumper", "production", {"T1003.001"}, <<"dump", "minidump">>)
Copy == [Rule("dumper", "test", {"T1070"}, <<"logs">>) EXCEPT !.enabled = FALSE]
Clearer == Rule("clearer", "experimental", {"T1070"}, <<"logs", "undefined">>)
Retired == Rule("retired", "deprecated", {"T1003"}, <<"dump">>)
Files == {Dumper, Copy, Clearer, Retired, Broken}
MCLibraries == UNION {[1..n -> Files] : n \in 0..2} \cup {<<Broken, Dumper, Clearer>>,
                   <<Copy, Clearer, Dumper>>, <<Clearer, Broken, Dumper>>}

MCParent == [t \in {"T1003", "T1003.001", "T1070"} |-> IF t = "T1070" THEN t ELSE "T1003"]
MCBackends == [fixture |-> TRUE, splunk |-> TRUE, elastic |-> FALSE]
MCBaseSettings == [max_wait |-> 300, min_detection_rate |-> 0]

Everything == [rules |-> {}, platforms |-> {}, tactics |-> {}, techniques |-> {}, tags |-> {},
               statuses |-> {}, min_severity |-> 0, include_inactive |-> FALSE]
Doc(name, select_, tests, excluded, backend) ==
    [name |-> name, select |-> select_, tests |-> tests, exclude_rules |-> excluded,
     backend |-> backend, overrides |-> [max_wait |-> 60]]
Quick == Doc("quick", Everything, {}, {}, "")
Theft == Doc("theft", [Everything EXCEPT !.techniques = {"T1003"}], {}, {}, "elastic")
In(quick, theft) == [quick |-> [nth |-> 1, text |-> quick], theft |-> [nth |-> 2, text |-> theft]]

\* Ordinary files; two with one name; one that does not parse; ones that narrow.
MCDocuments ==
    {In(Quick, Theft), In(Quick, [Theft EXCEPT !.name = "quick"]), In(Quick, Broken),
     In(Doc("quick", [Everything EXCEPT !.statuses = {"deprecated"}], {}, {}, "qradar"),
        Doc("theft", [Everything EXCEPT !.include_inactive = TRUE], {"dump", "logs"},
            {"clearer"}, "qradar"))}

=============================================================================
