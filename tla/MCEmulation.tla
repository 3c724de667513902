---------------------------- MODULE MCEmulation ----------------------------
(* Invocations for model checking the emulation phase. *)
EXTENDS Emulation

\* "ghost" is named by plans and missing from the catalog.
MCTests == {"dump", "shell", "wipe", "ghost"}
MCTechniques == {"T1003", "T1003.001", "T1059", "T1485"}
MCParentOf == [t \in MCTechniques |-> IF t = "T1003.001" THEN "T1003" ELSE t]
MCHosts == {"lab-01", "dc01"}

Entry(technique, destructive, hasCleanup) ==
    [technique |-> technique, platform |-> "linux", executor |-> "bash",
     destructive |-> destructive, hasCleanup |-> hasCleanup, duration |-> 1]

Catalog ==
    [t \in MCTests |->
        CASE t = "dump"  -> Entry("T1003.001", FALSE, TRUE)
          [] t = "shell" -> Entry("T1059", FALSE, FALSE)
          [] t = "wipe"  -> Entry("T1485", TRUE, TRUE)
          [] OTHER       -> Entry("T1059", FALSE, TRUE)]

\* A lab where everything is allowed, with a budget of one failure.
Open == [execution_requested |-> TRUE, authorized |-> TRUE,
         authorization_reference |-> TRUE, host_allowlist |-> {"lab-01"},
         require_lab_tag |-> TRUE, technique_denylist |-> {},
         technique_allowlist |-> {}, allow_destructive |-> TRUE,
         require_cleanup |-> FALSE, max_failures |-> 1]

\* The same lab with one thing different at a time.
Policies ==
    {Open,
     [Open EXCEPT !.max_failures = 2],
     [Open EXCEPT !.execution_requested = FALSE],
     [Open EXCEPT !.authorized = FALSE],
     [Open EXCEPT !.authorization_reference = FALSE],
     [Open EXCEPT !.host_allowlist = {}],
     [Open EXCEPT !.technique_denylist = {"T1003"}],
     [Open EXCEPT !.technique_allowlist = {"T1003"}],
     [Open EXCEPT !.allow_destructive = FALSE],
     [Open EXCEPT !.require_cleanup = TRUE]}

Plans == {<<"dump", "shell", "dump">>, <<"shell", "ghost", "wipe", "dump">>}

Sites == {[host |-> "lab-01", platform |-> "linux", looks_like_lab |-> TRUE],
          [host |-> "lab-01", platform |-> "windows", looks_like_lab |-> TRUE],
          [host |-> "dc01", platform |-> "linux", looks_like_lab |-> FALSE]}

MCSetups ==
    [plan: Plans, known: {MCTests \ {"ghost"}}, catalog: {Catalog},
     policy: Policies, target: Sites, backend: {"fixture", "live"},
     default_backend: {"fixture", "live"}, inter_test_delay: {1}]

=============================================================================
