-------------------------------- MODULE Rules --------------------------------
(***************************************************************************)
(* A detection rule from its file to the queries that are sent for it.     *)
(* Rule.from_dict parses and validates it, a compiler renders it for one   *)
(* platform, and the fixture dialect compiles it to the predicate that     *)
(* proves it offline.  One compiler serves all rules of a run.             *)
(*                                                                         *)
(* A text is a sequence of characters; "*" and "?" are wildcards, and in a *)
(* regular expression ".*" and "." are.  A query stands for the events it  *)
(* finds.  What a platform makes of a query is external: absent fields     *)
(* match nothing, and texts are compared regardless of case unless the     *)
(* query asks otherwise, as matcher.py says of the platforms.              *)
(*                                                                         *)
(* Left out: escaped wildcards, numbers, networks, value transforms, null  *)
(* among other values, wildcards in keywords, and regular expressions that *)
(* match part of a text (some dialects anchor them, some do not).          *)
(***************************************************************************)
EXTENDS Condition

CONSTANTS
    Lower,     \* character -> its lower case
    Catalog,   \* telemetry source -> [channels, dialects with a scope, KQL table]
    Files,     \* the rule files considered
    Others,    \* files the same compiler may be given afterwards
    Events,    \* the events considered
    Null       \* the YAML null

Dialects == {"fixture", "splunk", "elastic", "sentinel"}
COMPARISONS == {"contains", "startswith", "endswith", "re"}
Modifiers == COMPARISONS \cup {"all", "cased", "exists"}

Wild == {"*", "?"}
SqlWild == {"%", "_"}
Has(text, characters) == \E i \in DOMAIN text : text[i] \in characters

Text == Seq(DOMAIN Lower)
Keyword == {text \in Text : ~Has(text, Wild)}

\* A selection is a list of mappings (one mapping is a list of one) or a list of
\* keywords; a mapping is a sequence of tests.  The value of exists is want.
Test == {t \in [field: STRING, modifiers: SUBSET STRING,
                values: {<<Null>>} \cup Seq(Text), want: BOOLEAN] :
            "exists" \in t.modifiers /\ t.values = <<Null>> => ~t.want}
SelectionDef == {d \in [alternatives: Seq(Seq(Test)), keywords: Seq(Keyword)] :
                    d.alternatives = <<>> \/ d.keywords = <<>>}
File == [condition: Seq(STRING), detection: [SelectionNames -> SelectionDef],
         telemetry: Seq(DOMAIN Catalog)]

ASSUME RulesAssumption ==
    /\ \A c \in DOMAIN Lower, w \in Wild \cup SqlWild : Lower[c] = w <=> c = w
    /\ Wild \cup SqlWild \subseteq DOMAIN Lower
    /\ Files \subseteq File /\ Others \subseteq Files
    /\ \A f \in Files : 2 * Len(f.condition) < MaxDepth

VARIABLES
    file,       \* the file at hand
    rule,       \* what it was loaded as
    dialect,    \* the dialect of the compiler, once there is one
    eval_mode,  \* SplunkCompiler._eval_mode
    query,      \* the compiled detection
    probe       \* the compiled telemetry probe

ruleVars == <<file, rule, dialect, eval_mode, query, probe>>

---------------------------------------------------------------------------
(* Matching: matcher.py *)

\* Whether a text matches a pattern with the given wildcards.  matched[k] are the
\* lengths of the prefixes of the text that the first k characters match.
Like(pattern, text, many, one) ==
    LET matched[k \in 0..Len(pattern)] ==
            LET before == matched[k - 1]
            IN  IF k = 0 THEN {0}
                ELSE IF pattern[k] = many THEN {j \in 0..Len(text) : \E i \in before : i <= j}
                ELSE {j \in 1..Len(text) : j - 1 \in before /\ pattern[k] \in {one, text[j]}}
    IN  Len(text) \in matched[Len(pattern)]

casefold(text) == [i \in DOMAIN text |-> Lower[text[i]]]

comparison(test) == IF test.modifiers \cap COMPARISONS = {} THEN "equals"
                    ELSE CHOOSE m \in COMPARISONS : m \in test.modifiers

\* A value as a pattern for the whole text.
Anchored(how, value) ==
    (IF how \in {"contains", "endswith"} THEN <<"*">> ELSE <<>>) \o value \o
    (IF how \in {"contains", "startswith"} THEN <<"*">> ELSE <<>>)

_value_matcher(test, value, observed) ==
    LET pattern == Anchored(comparison(test), value)
    IN  IF comparison(test) = "re" THEN Like(casefold(value), casefold(observed), ".*", ".")
        ELSE IF "cased" \in test.modifiers THEN Like(pattern, observed, "*", "?")
        ELSE Like(casefold(pattern), casefold(observed), "*", "?")

\* An absent field has no values.
_build_field_predicate(test, event) ==
    LET observed == event.fields[test.field]
        matched(i) == \E k \in DOMAIN observed :
                         _value_matcher(test, test.values[i], observed[k])
    IN  IF "exists" \in test.modifiers THEN (observed # <<>>) = test.want
        ELSE IF test.values = <<Null>> THEN observed = <<>>
        ELSE /\ observed # <<>>
             /\ IF "all" \in test.modifiers THEN \A i \in DOMAIN test.values : matched(i)
                ELSE \E i \in DOMAIN test.values : matched(i)

Mentions(event, keyword) ==
    \E f \in DOMAIN event.fields : \E k \in DOMAIN event.fields[f] :
        Like(<<"*">> \o casefold(keyword) \o <<"*">>, casefold(event.fields[f][k]), "*", "?")

build_selection_predicate(selection, event) ==
    \/ \E a \in DOMAIN selection.alternatives :
          \A i \in DOMAIN selection.alternatives[a] :
              _build_field_predicate(selection.alternatives[a][i], event)
    \/ \E i \in DOMAIN selection.keywords : Mentions(event, selection.keywords[i])

\* What an empty selection or mapping raises, in every dialect.
Unmatchable(selection) ==
    \/ selection.alternatives = <<>> /\ selection.keywords = <<>>
    \/ <<>> \in {selection.alternatives[a] : a \in DOMAIN selection.alternatives}

Tests(selection) ==
    UNION {{selection.alternatives[a][i] : i \in DOMAIN selection.alternatives[a]} :
           a \in DOMAIN selection.alternatives}

---------------------------------------------------------------------------
(* Loading: rule.py *)

NoRule == [status |-> "unread"]
RuleError == [status |-> "error"]
Loaded == rule.status = "loaded"

parse_field_spec(test) ==
    /\ test.modifiers \subseteq Modifiers
    /\ Cardinality(test.modifiers \cap COMPARISONS) <= 1
    /\ ~({"cased", "re"} \subseteq test.modifiers)

from_dict(f) ==
    IF /\ ~Failed(parse_condition(f.condition))
       /\ \A s \in SelectionNames : \A test \in Tests(f.detection[s]) : parse_field_spec(test)
    THEN [status |-> "loaded", condition |-> parse_condition(f.condition).nodes[1],
          detection |-> f.detection, telemetry |-> f.telemetry]
    ELSE RuleError

referenced_selections(node) ==
    LET names[n \in Tree] ==
            IF n.op = "ref" THEN {n.name}
            ELSE UNION {names[n.nodes[i]] : i \in DOMAIN n.nodes}
    IN  names[node]

---------------------------------------------------------------------------
(* Compiling: compilers.py.  A clause is the set of events it finds. *)

_and(parts) == {e \in Events : \A i \in DOMAIN parts : e \in parts[i]}
_or(parts) == {e \in Events : \E i \in DOMAIN parts : e \in parts[i]}
_not(part) == Events \ part
_exists(field) == {e \in Events : e.fields[field] # <<>>}

\* One test of a platform on one value of a field.
Satisfies(op, pattern, text) ==
    CASE op = "matches_cs" -> Like(pattern, text, "*", "?")
      [] op = "matches"    -> Like(casefold(pattern), casefold(text), "*", "?")
      [] op = "like"       -> Like(casefold(pattern), casefold(text), "%", "_")
      [] op = "regex"      -> Like(casefold(pattern), casefold(text), ".*", ".")

Atom(op, field, pattern) ==
    {e \in Events : \E k \in DOMAIN e.fields[field] : Satisfies(op, pattern, e.fields[field][k])}

SqlWildcards(text) ==
    [i \in DOMAIN text |-> CASE text[i] = "*" -> "%" [] text[i] = "?" -> "_" [] OTHER -> text[i]]

\* Mutant: the mode is set once the body has been rendered.
ModeBefore == eval_mode

\* The mode a rule is rendered in: its own, set before anything is rendered.
ModeSet == eval_mode'

\* A search has keywords; a string in a where clause of Splunk is no condition.
_keyword(text) == {e \in Events : ~ModeSet /\ Mentions(e, text)}

Native(op, test, value) == Atom(op, test.field, Anchored(comparison(test), value))

\* Splunk: wildcards in a search, like() and match() in a where clause.
_eval_comparison(test, value) ==
    IF comparison(test) = "re" THEN Atom("regex", test.field, value)
    ELSE Atom("like", test.field, SqlWildcards(Anchored(comparison(test), value)))

SplunkComparison(test, value) ==
    IF ModeSet THEN _eval_comparison(test, value) ELSE Native("matches", test, value)

ElasticComparison(test, value) ==
    IF comparison(test) = "re" THEN Atom("regex", test.field, value)
    ELSE Native("matches", test, value)

\* KQL has an operator for every comparison, with a cased form of each.
KqlComparison(test, value) ==
    CASE comparison(test) = "re" -> Atom("regex", test.field, value)
      [] "cased" \in test.modifiers /\ ~Has(value, Wild) -> Native("matches_cs", test, value)
      [] OTHER -> Native("matches", test, value)

_comparison(test, value) ==
    CASE dialect = "splunk"  -> SplunkComparison(test, value)
      [] dialect = "elastic" -> ElasticComparison(test, value)
      [] OTHER               -> KqlComparison(test, value)

_render_field(test) ==
    LET clauses == [i \in DOMAIN test.values |-> _comparison(test, test.values[i])]
    IN  IF test.values = <<Null>> THEN _not(_exists(test.field))
        ELSE IF "exists" \in test.modifiers
             THEN IF test.want THEN _exists(test.field) ELSE _not(_exists(test.field))
        ELSE IF "all" \in test.modifiers THEN _and(clauses) ELSE _or(clauses)

_render_selection(selection) ==
    IF selection.alternatives # <<>>
    THEN _or([a \in DOMAIN selection.alternatives |->
               _and([i \in DOMAIN selection.alternatives[a] |->
                       _render_field(selection.alternatives[a][i])])])
    ELSE _or([i \in DOMAIN selection.keywords |-> _keyword(selection.keywords[i])])

_render(node) ==
    LET rendered[n \in Tree] ==
            CASE n.op = "ref" -> _render_selection(rule.detection[n.name])
              [] n.op = "not" -> _not(rendered[n.nodes[1]])
              [] n.op = "and" -> _and([i \in DOMAIN n.nodes |-> rendered[n.nodes[i]]])
              [] OTHER        -> _or([i \in DOMAIN n.nodes |-> rendered[n.nodes[i]]])
    IN  rendered[node]

\* The offline verdict on an event.
Predicate(event) ==
    Holds(rule.condition,
          {s \in SelectionNames : build_selection_predicate(rule.detection[s], event)})

\* A conjunction or disjunction of nothing cannot be rendered.  A predicate for
\* an empty list of values can be built.
Refused ==
    \E s \in referenced_selections(rule.condition) :
        \/ Unmatchable(rule.detection[s])
        \/ /\ dialect # "fixture"
           /\ \E test \in Tests(rule.detection[s]) :
                 test.values = <<>> /\ "exists" \notin test.modifiers

\* SplunkCompiler looks at every selection, referenced or not.
_needs_eval ==
    \E s \in SelectionNames : \E test \in Tests(rule.detection[s]) : comparison(test) = "re"

\* The declared sources the dialect has a selector for.
Scope == Only(rule.telemetry, {s \in DOMAIN Catalog : dialect \in Catalog[s].dialects})
Tables == {Catalog[rule.telemetry[i]].table : i \in DOMAIN rule.telemetry} \ {""}
Untabled == dialect = "sentinel" /\ Cardinality(Tables) # 1

NotCompiled == [kind |-> "none", scope |-> <<>>, body |-> {}]
CompileError == [NotCompiled EXCEPT !.kind = "error"]
Query(scope, body) == [kind |-> "query", scope |-> scope, body |-> body]

RuleInit ==
    /\ file \in Files
    /\ rule = NoRule
    /\ dialect = "none" /\ eval_mode = FALSE
    /\ query = NotCompiled /\ probe = NotCompiled

\* load_library reads the file; one that does not load is set aside.
Load ==
    /\ rule = NoRule
    /\ rule' = from_dict(file)
    /\ UNCHANGED <<file, dialect, eval_mode, query, probe>>

\* A run picks its backend.
get_compiler ==
    /\ Loaded /\ dialect = "none"
    /\ dialect' \in Dialects
    /\ UNCHANGED <<file, rule, eval_mode, query, probe>>

\* The detection: the rule inside its scope.
compile ==
    /\ eval_mode' = (dialect = "splunk" /\ _needs_eval)
    /\ query' = IF Refused \/ Untabled THEN CompileError
                ELSE Query(Scope, IF dialect = "fixture" THEN {e \in Events : Predicate(e)}
                                  ELSE _render(rule.condition))

\* Mutant: only the first source is probed.
ProbedFirst == SubSeq(Scope, 1, 1)

Probed == Scope

\* The probe: the scope by itself, when there is one.
compile_telemetry ==
    probe' = IF Scope = <<>> THEN NotCompiled
             ELSE IF Untabled THEN CompileError ELSE Query(Probed, Events)

Compile ==
    /\ Loaded /\ dialect # "none" /\ query = NotCompiled
    /\ compile /\ compile_telemetry
    /\ UNCHANGED <<file, rule, dialect>>

\* The next case of the run, with the same compiler.
NextRule ==
    /\ query # NotCompiled
    /\ file' \in Others /\ file' # file
    /\ rule' = from_dict(file')
    /\ query' = NotCompiled /\ probe' = NotCompiled
    /\ UNCHANGED <<dialect, eval_mode>>

RuleNext == Load \/ get_compiler \/ Compile \/ NextRule

RuleSpec == RuleInit /\ [][RuleNext]_ruleVars

---------------------------------------------------------------------------
(* What a platform finds *)

Scoped(q, event) == q.scope = <<>> \/ \E i \in DOMAIN q.scope :
                                         event.channel \in Catalog[q.scope[i]].channels

Finds(q, event) == event \in q.body /\ Scoped(q, event)

---------------------------------------------------------------------------
(* Correctness *)

\* condition.py documents a grammar: the parser accepts exactly what it derives,
\* and the tree it builds means what the derivation says, however negations,
\* parentheses, quantifiers and patterns nest.
ConditionFollowsGrammar ==
    /\ Loaded => Expression(file.condition) = {Meaning(rule.condition)}
    /\ rule = RuleError =>
          \/ Expression(file.condition) = {}
          \/ \E s \in SelectionNames : \E test \in Tests(file.detection[s]) :
                ~parse_field_spec(test)

\* What the language of a dialect can say of a rule.  Splunk and Elastic have no
\* case-sensitive comparison, KQL none for a wildcard; like() has wildcards that
\* the rule's values may contain; a where clause has no keywords.  The compilers
\* render all of it nevertheless.
Expressible ==
    \A s \in referenced_selections(rule.condition) :
        /\ eval_mode => rule.detection[s].keywords = <<>>
        /\ \A test \in Tests(rule.detection[s]) : \A i \in DOMAIN test.values :
              test.values # <<Null>> =>
                  /\ "cased" \in test.modifiers =>
                        dialect = "sentinel" /\ ~Has(test.values[i], Wild)
                  /\ eval_mode /\ comparison(test) # "re" => ~Has(test.values[i], SqlWild)

\* compilers.py: a compiler raises CompileError "rather than emitting a query
\* that quietly means something else".  Every query finds, among the events of
\* its scope, those the offline predicate matches and no others, if the dialect
\* can express the rule at all.
QueryMeansTheRule ==
    query.kind = "query" /\ (dialect = "fixture" \/ Expressible) =>
        \A e \in Events : Finds(query, e) <=> Scoped(query, e) /\ Predicate(e)

\* mapping/telemetry_sources.yml: "a rule can never search one index while its
\* blindness probe checks another".  A query that is confined to log sources has
\* a probe, and the probe finds whatever the query finds: a case whose sources
\* are empty cannot have been detected.
ProbeCoversDetection ==
    query.kind = "query" =>
        /\ query.scope # <<>> => probe.kind = "query"
        /\ probe.kind = "query" => \A e \in Events : Finds(query, e) => Finds(probe, e)

=============================================================================
