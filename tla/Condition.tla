------------------------------ MODULE Condition ------------------------------
(***************************************************************************)
(* The condition of a detection rule: parse_condition, a recursive descent *)
(* over tokens that expands quantifiers and globs against the selections   *)
(* of the rule, and the grammar the module documents, as a definition of   *)
(* its own to compare the parser with.                                     *)
(*                                                                         *)
(* Tokens are strings; the lexer is left out.  A pattern with a wildcard   *)
(* is represented by the selections it matches.  What recurs is a function *)
(* of a position, defined from its values at later ones (rest), or of a    *)
(* tree, defined from its values at the operands.                          *)
(***************************************************************************)
EXTENDS Naturals, FiniteSets, Comprehension

CONSTANTS
    Selections,  \* the rule's selection names, in the order they are written
    Globs,       \* pattern with a wildcard -> the selections it matches
    MaxDepth     \* how deep a condition may nest

SelectionNames == {Selections[i] : i \in DOMAIN Selections}
Patterns == DOMAIN Globs
Numbers == {"1", "2"}
KEYWORDS == {"and", "or", "not", "of", "them", "all"}
Marks == {"(", ")", "end"}

\* A selection may have any name, those of keywords, numbers and patterns included.
ASSUME ConditionAssumption ==
    /\ Selections \in Seq(SelectionNames)
    /\ MaxDepth \in Nat
    /\ \A p \in Patterns : Globs[p] \subseteq SelectionNames
    /\ Patterns \cap (KEYWORDS \cup Numbers \cup Marks) = {}

---------------------------------------------------------------------------
(* The tree every compiler walks *)

Ref(name) == [op |-> "ref", name |-> name, nodes |-> <<>>]
Not(node) == [op |-> "not", name |-> "", nodes |-> <<node>>]
Joined(op, nodes) == IF Len(nodes) = 1 THEN nodes[1]
                     ELSE [op |-> op, name |-> "", nodes |-> nodes]

\* The trees of at most a given depth.
Nodes[depth \in 0..MaxDepth] ==
    LET smaller == Nodes[depth - 1]
    IN  {Ref(name) : name \in SelectionNames} \cup
        IF depth = 0 THEN {}
        ELSE [op: {"not"}, name: {""}, nodes: [1..1 -> smaller]]
             \cup [op: {"and", "or"}, name: {""}, nodes: Seq(smaller)]

Tree == Nodes[MaxDepth]

\* What a token of a quantifier names: all that a pattern matches, or a selection.
Named(token) == IF token \in Patterns THEN Globs[token]
                ELSE ({token} \cap SelectionNames) \ (KEYWORDS \cup Marks)

\* The selections that satisfy a pattern, in order.
_expand_glob(pattern) == Only(Selections, Named(pattern))

Refs(names) == [i \in DOMAIN names |-> Ref(names[i])]

\* Whether a condition holds of an event that satisfies the given selections.
Holds(node, satisfied) ==
    LET holds[n \in Tree] ==
            CASE n.op = "ref" -> n.name \in satisfied
              [] n.op = "not" -> ~holds[n.nodes[1]]
              [] n.op = "and" -> \A i \in DOMAIN n.nodes : holds[n.nodes[i]]
              [] OTHER        -> \E i \in DOMAIN n.nodes : holds[n.nodes[i]]
    IN  holds[node]

All == SUBSET SelectionNames
Meaning(node) == {T \in All : Holds(node, T)}

---------------------------------------------------------------------------
(* The parser.  Every parse_... takes the tokens, the index to start at    *)
(* and what is parsed from each later index, and returns the operands it   *)
(* read with the index after them, or ConditionError.                      *)

Parsed(nodes, index) == [nodes |-> nodes, index |-> index]
ConditionError == Parsed(<<>>, 0)
Failed(result) == result.index = 0
current(tokens, index) == IF index <= Len(tokens) THEN tokens[index] ELSE "end"

\* The one node the operands of a chain stand for.
Single(op, result) ==
    IF Failed(result) THEN ConditionError
    ELSE Parsed(<<Joined(op, result.nodes)>>, result.index)

\* "all of" and "1 of"; index is after the quantity.
parse_quantifier(quantity, tokens, index) ==
    LET target == current(tokens, index + 1)
        names == IF target = "them" THEN Selections ELSE _expand_glob(target)
    IN  IF current(tokens, index) # "of" \/ names = <<>> \/ quantity \notin {"all", "1"}
        THEN ConditionError
        ELSE Parsed(<<Joined(IF quantity = "all" THEN "and" ELSE "or", Refs(names))>>, index + 2)

\* A name, or a bare pattern, which stands for all it matches.
resolve_reference(name, index) ==
    LET names == IF name \in SelectionNames THEN <<name>> ELSE _expand_glob(name)
    IN  IF names = <<>> THEN ConditionError
        ELSE Parsed(<<Joined("and", Refs(names))>>, index)

parse_atom(tokens, index, rest) ==
    LET token == current(tokens, index)
        inner == Single("or", rest[index + 1]["or"])
    IN  CASE token = "(" ->
               IF ~Failed(inner) /\ current(tokens, inner.index) = ")"
               THEN Parsed(inner.nodes, inner.index + 1) ELSE ConditionError
          [] token \in {"all"} \cup Numbers ->
               parse_quantifier(token, tokens, index + 1)
          [] token \in (KEYWORDS \cup Marks) \ {"all", "("} -> ConditionError
          [] OTHER -> resolve_reference(token, index + 1)

Negated(operand) ==
    IF Failed(operand) THEN ConditionError
    ELSE Parsed(<<Not(operand.nodes[1])>>, operand.index)

\* Mutant: not reaches over the whole conjunction that follows it.
parse_not_greedy(tokens, index, rest) ==
    IF current(tokens, index) # "not" THEN parse_atom(tokens, index, rest)
    ELSE Negated(Single("and", rest[index + 1]["and"]))

parse_not(tokens, index, rest) ==
    IF current(tokens, index) # "not" THEN parse_atom(tokens, index, rest)
    ELSE Negated(rest[index + 1]["not"])

\* The loops of parse_or and parse_and: operands as long as the keyword follows.
Operands(op, first, tokens, rest) ==
    LET others == rest[first.index + 1][op]
    IN  IF Failed(first) \/ current(tokens, first.index) # op THEN first
        ELSE IF Failed(others) THEN ConditionError
        ELSE Parsed(first.nodes \o others.nodes, others.index)

parse_and(tokens, index, rest) == Operands("and", parse_not(tokens, index, rest), tokens, rest)

parse_or(tokens, index, rest) ==
    Operands("or", Single("and", parse_and(tokens, index, rest)), tokens, rest)

ParsedFrom(tokens, index, rest) ==
    [level \in {"not", "and", "or"} |->
        CASE level = "not" -> parse_not(tokens, index, rest)
          [] level = "and" -> parse_and(tokens, index, rest)
          [] level = "or"  -> parse_or(tokens, index, rest)]

\* A condition has nothing after its last token.
parse_condition(tokens) ==
    LET last == Len(tokens) + 1
        from[i \in 1..last] == ParsedFrom(tokens, i, [k \in (i + 1)..last |-> from[k]])
        whole == Single("or", from[1]["or"])
    IN  IF whole.index = last THEN whole ELSE ConditionError

---------------------------------------------------------------------------
(* The grammar, read as a definition: what the tokens from i to j may mean *)

Quantified(quantity, names) ==
    IF quantity = "all" THEN {T \in All : names \subseteq T} ELSE {T \in All : names \cap T # {}}

\* What a token names by itself.
IDENT(token) ==
    IF token \in KEYWORDS \cup Numbers \cup Marks THEN {}
    ELSE IF token \in SelectionNames THEN {token} ELSE Named(token)

Both(op, A, B) == IF op = "or" THEN A \cup B ELSE A \cap B

atom(tokens, i, j, rest) ==
    LET names == IF tokens[j] = "them" THEN SelectionNames ELSE Named(tokens[j])
    IN  CASE tokens[i] = "(" -> IF tokens[j] = ")" /\ i + 1 < j THEN rest[i + 1]["or"][j - 1] ELSE {}
          [] tokens[i] \in {"all", "1"} ->
               IF j = i + 2 /\ tokens[i + 1] = "of" /\ names # {}
               THEN {Quantified(tokens[i], names)} ELSE {}
          [] OTHER -> IF j = i /\ IDENT(tokens[i]) # {}
                      THEN {Quantified("all", IDENT(tokens[i]))} ELSE {}

not_expr(tokens, i, rest) ==
    [j \in i..Len(tokens) |->
        IF tokens[i] # "not" THEN atom(tokens, i, j, rest)
        ELSE IF i < j THEN {All \ A : A \in rest[i + 1]["not"][j]} ELSE {}]

\* One operand, or one, the keyword, and a chain of them.
Chain(op, operand, tokens, i, rest) ==
    [j \in i..Len(tokens) |->
        operand[j] \cup
        UNION {{Both(op, A, B) : A \in operand[k - 1], B \in rest[k + 1][op][j]} :
               k \in {k \in (i + 1)..(j - 1) : tokens[k] = op}}]

and_expr(tokens, i, rest) == Chain("and", not_expr(tokens, i, rest), tokens, i, rest)

or_expr(tokens, i, rest) == Chain("or", and_expr(tokens, i, rest), tokens, i, rest)

DerivedFrom(tokens, i, rest) ==
    [level \in {"not", "and", "or"} |->
        CASE level = "not" -> not_expr(tokens, i, rest)
          [] level = "and" -> and_expr(tokens, i, rest)
          [] level = "or"  -> or_expr(tokens, i, rest)]

\* What the grammar lets a condition mean.
Expression(tokens) ==
    LET last == Len(tokens)
        from[i \in 1..last] == DerivedFrom(tokens, i, [k \in (i + 1)..last |-> from[k]])
    IN  IF tokens = <<>> THEN {} ELSE from[1]["or"][last]

=============================================================================
