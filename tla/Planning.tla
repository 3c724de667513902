------------------------------- MODULE Planning -------------------------------
(***************************************************************************)
(* How a validation run decides what to validate: the rule library and the *)
(* profiles are read from files, a profile selects rules, and each test of *)
(* a selected rule becomes a case.  library.py, profiles.py, and the plan  *)
(* and the preamble of Pipeline.run.                                       *)
(*                                                                         *)
(* The files of a directory are the sequence they are read in, by path.    *)
(* Names are compared without case in the code; here they are values.      *)
(***************************************************************************)
EXTENDS Integers, Sequences, FiniteSets, Functions

CONSTANTS
    Parent,           \* technique -> the technique it is a sub-technique of, or itself
    KnownTests,       \* the tests of the catalog
    Backends,         \* backend -> whether it is enabled
    default_backend,  \* Settings.default_backend
    BaseSettings,     \* the settings a profile may override: setting -> value
    Broken            \* a file that cannot be parsed or validated

Statuses == {"experimental", "test", "stable", "production", "deprecated", "unsupported"}
is_active(rule) == rule.status \notin {"deprecated", "unsupported"}

---------------------------------------------------------------------------
(* The library *)

IsRule(files, i) == files[i] # Broken

\* Mutant: the first file in error ends the loading.
RulesOfUntilError(files) ==
    {files[i] : i \in {k \in DOMAIN files : /\ IsRule(files, k)
                                            /\ \A j \in 1..(k - 1) :
                                                  IsRule(files, j) /\ files[j].name # files[k].name}}

\* A file in error is left out; of two rules with one name, the first is kept.
RulesOf(files) ==
    {files[i] : i \in {k \in DOMAIN files : /\ IsRule(files, k)
                                            /\ \A j \in 1..(k - 1) : IsRule(files, j) =>
                                                  files[j].name # files[k].name}}

ErrorsOf(files) ==
    {i \in DOMAIN files : \/ ~IsRule(files, i)
                          \/ \E j \in 1..(i - 1) : IsRule(files, j) /\ files[j].name = files[i].name}

\* Only a strict load stops at an error.
load_library(files, strict) == IF strict /\ ErrorsOf(files) # {} THEN Broken ELSE RulesOf(files)

---------------------------------------------------------------------------
(* Selection *)

Criteria == {"rules", "platforms", "tactics", "techniques", "tags", "statuses"}

\* Nothing wanted restricts nothing.
Wants(wanted, have) == wanted = {} \/ wanted \cap have # {}

\* Asking for a technique also asks for its sub-techniques.
_technique_match(wanted, rule) ==
    Wants(wanted, rule.techniques \cup {Parent[t] : t \in rule.techniques})

Matches(rule, select) ==
    /\ select.include_inactive \/ is_active(rule)
    /\ Wants(select.rules, {rule.name})
    /\ Wants(select.statuses, {rule.status})
    /\ rule.severity >= select.min_severity
    /\ Wants(select.platforms, rule.platforms)
    /\ Wants(select.tactics, rule.tactics)
    /\ _technique_match(select.techniques, rule)
    /\ Wants(select.tags, rule.tags)

select(library, selector) == {rule \in library : Matches(rule, selector)}

---------------------------------------------------------------------------
(* Profiles *)

\* Of two profiles with one name, the last read is kept.
ProfileNamed(files, name) ==
    {files[i] : i \in {k \in DOMAIN files : /\ files[k].name = name
                                            /\ \A j \in (k + 1)..Len(files) :
                                                  files[j].name # name}}

\* Profile.timing and Profile.gates: overrides layered on top of the settings;
\* a key that is no setting is ignored.
Layered(overrides) ==
    [k \in DOMAIN BaseSettings |-> IF k \in DOMAIN overrides THEN overrides[k] ELSE BaseSettings[k]]

---------------------------------------------------------------------------
(* The plan *)

_build_case(rule, i) ==
    [rule |-> rule.name, test |-> rule.emulation[i], expected |-> rule.expect,
     nth |-> i,      \* a test listed twice is planned twice, under one case id
     skip_reason |-> IF ~rule.enabled THEN "disabled"
                     ELSE IF KnownTests # {} /\ rule.emulation[i] \notin KnownTests
                     THEN "undefined test" ELSE "none"]

plan(library, profile) ==
    UNION {{_build_case(rule, i) : i \in {k \in DOMAIN rule.emulation :
                                            Wants(profile.tests, {rule.emulation[k]})}} :
              rule \in {r \in select(library, profile.select) :
                           r.name \notin profile.exclude_rules}}

\* How `dvp run --profile name --backend backend` begins, "" being no option.
backend_of(profile, backend) ==
    IF backend # "" THEN backend
    ELSE IF profile.backend # "" THEN profile.backend ELSE default_backend

Ends(status) == [status |-> status, cases |-> {}, backend |-> "", settings |-> BaseSettings]

\* Pipeline.run up to the start of its stages, for the profile of that name.
Begin(library, profile, backend) ==
    LET cases == plan(library, profile)
        chosen == backend_of(profile, backend)
    IN  IF cases = {} THEN Ends("nothing selected")
        ELSE IF chosen \notin DOMAIN Backends THEN Ends("unknown backend")
        ELSE IF ~Backends[chosen] THEN Ends("disabled backend")
        ELSE [status |-> "running", cases |-> cases, backend |-> chosen,
              settings |-> Layered(profile.overrides)]

\* Workspace.load reads every file: a broken profile stops every run, a broken
\* rule none.
run(ruleFiles, profileFiles, name, backend) ==
    LET library == load_library(ruleFiles, FALSE)
        profiles == ProfileNamed(profileFiles, name)
    IN  IF Broken \in Range(profileFiles) THEN Ends("configuration error")
        ELSE IF profiles = {} THEN Ends("unknown profile")
        ELSE Begin(library, CHOOSE p \in profiles : TRUE, backend)

=============================================================================
