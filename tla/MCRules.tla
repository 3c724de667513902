------------------------------ MODULE MCRules ------------------------------
(* Rules with six selections, for checking the parser and the compilers. *)
EXTENDS Rules

\* The last three are named like a keyword, a pattern and a number.
MCSelections == <<"sel", "filter1", "filter2", "all", "filter*", "1">>
MCGlobs == [p \in {"filter*", "none*"} |->
    IF p = "filter*" THEN {"filter1", "filter2", "filter*"} ELSE {}]
MCLower == [c \in {"a", "A", "b", "*", "?", "%", "_", ".*", "."} |-> IF c = "A" THEN "a" ELSE c]

Source(channels, dialects_, table) ==
    [channels |-> channels, dialects |-> dialects_, table |-> table]
MCCatalog == [process |-> Source({"sysmon"}, Dialects, "DeviceProcess"),
              logon   |-> Source({"security"}, Dialects \ {"elastic"}, "DeviceLogon"),
              audit   |-> Source({"security", "sysmon"}, Dialects, "DeviceProcess"),
              proxy   |-> Source({"proxy"}, {}, "")]

Field(field, modifiers, values) ==
    [field |-> field, modifiers |-> modifiers, values |-> values, want |-> TRUE]
Mapping(tests) == [alternatives |-> <<tests>>, keywords |-> <<>>]
Keywords(texts) == [alternatives |-> <<>>, keywords |-> texts]

User == Mapping(<<Field("User", {}, << <<"b">> >>)>>)
Image(test) == Mapping(<<test>>)
Detection(selection) == [s \in SelectionNames |->
    CASE s = "sel" -> selection [] s = "filter1" -> User
      [] OTHER -> Image(Field("Image", {"endswith"}, << <<"b">> >>))]

RuleFile(condition, selection, telemetry) ==
    [condition |-> condition, detection |-> Detection(selection), telemetry |-> telemetry]

Plain == Image(Field("Image", {"contains"}, << <<"a">> >>))
Regex == Image(Field("Image", {"re"}, << <<".*", "a", ".*">> >>))

\* Every short sequence of tokens, and conditions of three operands with
\* negations and parentheses.
Tokens == {"sel", "filter1", "filter*", "none*", "1", "2", "all", "of", "them", "and", "or",
           "not", "(", ")", "ghost"}
Short == UNION {[1..n -> Tokens] : n \in 0..3} \cup [1..4 -> Tokens \ {"2", "none*", "filter1", "all", "ghost"}]
Operand == {<<"sel">>, <<"1", "of", "filter*">>, <<"filter*">>}
Negation == {<<>>, <<"not">>}
Long ==
    UNION {{n1 \o a \o <<o1>> \o n2 \o b \o <<o2>> \o c,
            n1 \o <<"(">> \o a \o <<o1>> \o n2 \o b \o <<")", o2>> \o c,
            n1 \o a \o <<o1>> \o n2 \o <<"(">> \o b \o <<o2>> \o c \o <<")">>} :
           n1 \in Negation, n2 \in Negation, a \in Operand, b \in Operand,
           c \in {<<"filter1">>, <<"all", "of", "them">>},
           o1 \in {"and", "or"}, o2 \in {"and", "or"}}
ConditionFiles == {RuleFile(t, Plain, <<"process">>) : t \in Short \cup Long}

\* Every way to test one field, and selections of other shapes.
Comparing(values, modifiers) ==
    {Field("Image", m \cup how, v) : m \in modifiers, v \in values,
        how \in {{}, {"contains"}, {"startswith"}, {"endswith"}}}
Literals == {<< <<"a">> >>, << <<"a", "b">>, <<"a">> >>}
Expressions == {<< <<".*", "a", ".*">> >>, << <<"a", ".">>, <<".*", "b", "b">> >>}
FieldTests ==
    Comparing(Literals \cup {<< <<"a", "*", "b">> >>, << <<"?", "b">>, <<"a">> >>, <<>>},
              {{}, {"all"}})
    \cup Comparing({<< <<"A", "b">> >>, << <<"a">>, <<"A", "*">> >>, << <<"a", "%">> >>}, {{}, {"cased"}})
    \cup {Field("Image", {"re"} \cup m, v) : v \in Expressions, m \in {{}, {"all"}, {"cased"}}}
    \cup {Field("Image", {}, <<Null>>), Field("Image", {"exists"}, <<>>),
          [Field("Image", {"exists"}, <<>>) EXCEPT !.want = FALSE],
          [Field("Image", {"exists"}, <<Null>>) EXCEPT !.want = FALSE],
          Field("Image", {"contains", "endswith"}, << <<"a">> >>)}
OtherShapes ==
    {Mapping(<<Field("Image", {}, << <<"a">> >>), Field("User", {"startswith"}, << <<"b">> >>)>>),
     [alternatives |-> <<Plain.alternatives[1], User.alternatives[1]>>, keywords |-> <<>>],
     Keywords(<< <<"a", "b">> >>), Keywords(<< <<"b", "b">>, <<"b", "a">> >>), Keywords(<<>>), Mapping(<<>>)}
Conditions == {<<"sel">>, <<"sel", "and", "not", "filter1">>, <<"not", "1", "of", "them">>}
Telemetry == {<<>>, <<"process">>, <<"process", "logon">>, <<"audit", "process">>, <<"proxy", "logon">>}
SelectionFiles ==
    {RuleFile(c, s, t) : c \in Conditions, t \in Telemetry,
        s \in {Image(test) : test \in FieldTests} \cup OtherShapes}

\* Selections that the mode of the whole rule decides how to render.
Beside == {Image(Field("Image", {"startswith"}, << <<"a", "%">> >>)), Image(Field("Image", {}, << <<"?", "b">> >>)),
           Image(Field("Image", {"cased"}, << <<"a">> >>)), Keywords(<< <<"b">> >>)}
ModeFiles ==
    {[RuleFile(c, Regex, <<"process">>) EXCEPT !.detection["filter1"] = s] :
        c \in {<<"sel", "and", "filter1">>, <<"not", "filter1">>}, s \in Beside}

MCOthers == {RuleFile(<<"sel">>, Plain, <<"process">>), RuleFile(<<"sel">>, Regex, <<"process">>)}
MCFiles == ConditionFiles \cup SelectionFiles \cup ModeFiles \cup MCOthers

Fields(texts) ==
    [Image: {<<>>, <<<<"a">>, <<"b", "b">>>>} \cup {<<t>> : t \in texts},
     User: {<<>>, << <<"b">> >>}]
MCEvents == [channel: {"sysmon", "security", "proxy"},
             fields: Fields({<<"a">>, <<"a", "b">>, <<"b", "a">>, <<"A", "b", "b">>, <<"a", "%">>})]

=============================================================================
