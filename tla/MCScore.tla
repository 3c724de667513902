------------------------------ MODULE MCScore ------------------------------
(* Three rules, one of them with two tests and one with three techniques, for *)
(* checking the programme and the scorecard. *)
EXTENDS Scorecard

Ref(technique, tactic) == [technique |-> technique, tactic |-> tactic]

\* "dumper" should fire on both its tests; "clearer" is a documented visibility
\* gap of low severity; "hooker" is a documented detection gap that shares a
\* technique with "dumper" and names one that is out of scope.
Dumper == [rule |-> "dumper", attack |-> <<Ref("T1003", NoTactic)>>, severity |-> 3,
           expected |-> "DETECTED", max_latency |-> 30]
MCCase ==
    [dump |-> Dumper, minidump |-> Dumper,
     logs |-> [rule |-> "clearer", attack |-> <<Ref("T1070", "evasion")>>, severity |-> 1,
               expected |-> "BLIND", max_latency |-> 30],
     hook |-> [rule |-> "hooker", attack |-> <<Ref("T1003", "access"), Ref("T1105", NoTactic),
                                              Ref("T1218", NoTactic)>>,
               severity |-> 4, expected |-> "VISIBLE", max_latency |-> 5]]

\* "dumper" is flawless but for its test results; the others are ordinary.
Flawless ==
    [tests |-> {"dump", "minidump"}, enabled |-> TRUE, expect |-> "DETECTED",
     field_names |-> <<"TargetImage", "GrantedAccess", "CallTrace">>, filtered |-> TRUE,
     exact_paths |-> 0, telemetry |-> {"process_access"}, techniques |-> {"T1003"},
     tactics |-> TRUE, description |-> "full", references |-> TRUE, author |-> TRUE,
     falsepositives |-> TRUE, fields |-> TRUE, date |-> TRUE, id |-> TRUE,
     unused |-> FALSE, unknown_keys |-> FALSE, status |-> "production"]
MCRuleText ==
    [dumper |-> Flawless,
     clearer |-> [Flawless EXCEPT !.tests = {"logs"}, !.techniques = {"T1070"}, !.expect = "BLIND",
                     !.field_names = <<"Image">>, !.telemetry = {"security_log", "syslog"},
                     !.description = "short", !.status = "experimental"],
     hooker |-> [Flawless EXCEPT !.tests = {"hook"}, !.expect = "VISIBLE", !.enabled = FALSE,
                     !.field_names = <<"Image", "TargetFilename">>, !.exact_paths = 2,
                     !.techniques = {"T1003", "T1105"}, !.id = FALSE, !.filtered = FALSE]]
MCOwned == [process_access |-> TRUE, security_log |-> FALSE]

MCTacticsOf == [T1003 |-> {"access"}, T1070 |-> {"evasion"}, T1105 |-> {"control"},
                T1218 |-> {"evasion"}]
MCTargets == [access |-> [detected |-> 90, visible |-> 100, critical |-> TRUE],
              evasion |-> [detected |-> 70, visible |-> 95, critical |-> TRUE],
              control |-> [detected |-> 70, visible |-> 90, critical |-> FALSE]]
MCAllowance == [dumper |-> 1, clearer |-> 0, hooker |-> 0]

V(outcome_, latency, hits) ==
    [outcome |-> outcome_, latency |-> latency, baseline_hits |-> hits]
MCObserved ==
    {V("DETECTED", 10, 0), V("DETECTED", 40, 2), V("VISIBLE", NoLatency, 0),
     V("BLIND", NoLatency, 0), V("ERROR", NoLatency, 0), V("SKIPPED", NoLatency, 0)}

MCPlans == {<<"dump", "logs">>, <<"dump", "hook">>, <<"dump", "minidump">>, <<"minidump">>,
            <<"logs", "logs">>, <<>>}

Strict == [min_detection_rate |-> 80, min_visibility_rate |-> 95,
           fail_on_regression |-> TRUE, fail_on_noise |-> TRUE, min_severity |-> 2,
           fail_on_error |-> TRUE, fail_on_latency_breach |-> TRUE,
           fail_on_coverage_target |-> TRUE]
MCPolicies == {Strict}

=============================================================================
