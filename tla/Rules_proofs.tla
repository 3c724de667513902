----------------------------- MODULE Rules_proofs -----------------------------
(***************************************************************************)
(* A rule means one thing from its file to every query sent for it: for    *)
(* every condition, selection, event, telemetry mapping and dialect.       *)
(*                                                                         *)
(* Trees are walked by recursion over their depth: what a walk gives at a  *)
(* node is stated once (WalkExists and the facts named ..ByShape).  The    *)
(* parser and the grammar are functions on the positions of the tokens,    *)
(* each value fixed by those to its right, so what is true of them is      *)
(* proved from the last position down (Climbs): what is read there is a    *)
(* tree no deeper than twice the tokens left (ParserReturns), and it is    *)
(* read exactly when the grammar derives it, with the same meaning         *)
(* (EntryAgrees).  A value as a dialect renders it matches the texts the   *)
(* offline matcher does (ValueMeans), hence so do a test, a selection and  *)
(* a condition (FieldMeans, SelectionMeans, RenderMeans).                  *)
(***************************************************************************)
EXTENDS Rules, Comprehension_proofs, SequenceTheorems

---------------------------------------------------------------------------
(* Trees *)

Leaves == {Ref(name) : name \in SelectionNames}
Negations(smaller) == [op: {"not"}, name: {""}, nodes: [1..1 -> smaller]]
Junctions(smaller) == [op: {"and", "or"}, name: {""}, nodes: Seq(smaller)]

\* f is the recursive function of the definition of Nodes, up to last.
NodesUpTo(f, last) ==
    f = [depth \in 0..last |->
            LET smaller == f[depth - 1]
            IN  {Ref(name) : name \in SelectionNames} \cup
                IF depth = 0 THEN {}
                ELSE [op: {"not"}, name: {""}, nodes: [1..1 -> smaller]]
                     \cup [op: {"and", "or"}, name: {""}, nodes: Seq(smaller)]]

\* The recursion that defines Nodes has a solution.
LEMMA NodesExist ==
    ASSUME NEW last \in Nat
    PROVE  \E f : NodesUpTo(f, last)
<1> DEFINE S == {m \in Nat : \E f : NodesUpTo(f, m)}
           Layer(f, depth) ==
              LET smaller == f[depth - 1]
              IN  {Ref(name) : name \in SelectionNames} \cup
                  IF depth = 0 THEN {}
                  ELSE [op: {"not"}, name: {""}, nodes: [1..1 -> smaller]]
                       \cup [op: {"and", "or"}, name: {""}, nodes: Seq(smaller)]
<1>0. \A f, m : NodesUpTo(f, m) <=> f = [depth \in 0..m |-> Layer(f, depth)]
  BY DEF NodesUpTo
<1>a. \A f, g, depth : f[depth - 1] = g[depth - 1] => Layer(f, depth) = Layer(g, depth)
  OBVIOUS
<1>b. \A f, g : Layer(f, 0) = Layer(g, 0)
  OBVIOUS
<1> HIDE DEF Layer
<1>1. 0 \in S
  <2> DEFINE g == [depth \in 0..0 |-> Layer(<<>>, 0)]
  <2>1. g = [depth \in 0..0 |-> Layer(g, depth)]
    BY <1>b
  <2> QED
    BY <1>0, <2>1
<1>2. ASSUME NEW m \in Nat, m \in S PROVE m + 1 \in S
  <2>1. PICK f : f = [depth \in 0..m |-> Layer(f, depth)]
    BY <1>0, <1>2
  <2> DEFINE g == [depth \in 0..(m + 1) |-> IF depth = m + 1 THEN Layer(f, depth) ELSE f[depth]]
  <2>2. \A depth \in 0..(m + 1) : g[depth] = Layer(g, depth)
    <3> SUFFICES ASSUME NEW depth \in 0..(m + 1) PROVE g[depth] = Layer(g, depth)
      OBVIOUS
    <3>1. g[depth] = Layer(f, depth)
      <4>1. CASE depth = m + 1
        BY <4>1
      <4>2. CASE depth # m + 1
        <5>1. depth \in 0..m
          BY <4>2
        <5> QED
          BY <2>1, <4>2, <5>1
      <4> QED
        BY <4>1, <4>2
    <3>2. CASE depth = 0
      BY <1>b, <3>1, <3>2
    <3>3. CASE depth # 0
      <4>1. depth - 1 \in 0..(m + 1) /\ depth - 1 # m + 1
        BY <3>3
      <4>2. g[depth - 1] = f[depth - 1]
        BY <4>1
      <4> HIDE DEF g
      <4> QED
        BY <1>a, <3>1, <4>2
    <3> QED
      BY <3>2, <3>3
  <2>3. g = [depth \in 0..(m + 1) |-> Layer(g, depth)]
    <3>1. g = [depth \in 0..(m + 1) |-> g[depth]]
      OBVIOUS
    <3> HIDE DEF g
    <3> QED
      BY <2>2, <3>1
  <2> HIDE DEF g
  <2> QED
    BY <1>0, <2>3
<1>3. Nat \subseteq S
  <2> HIDE DEF S
  <2> QED
    BY <1>1, <1>2, Climbs
<1> QED
  BY <1>3

\* A tree is a reference or has smaller trees for operands.
LEMMA NodesByDepth ==
    /\ DOMAIN Nodes = 0..MaxDepth
    /\ Nodes[0] = Leaves
    /\ \A depth \in 1..MaxDepth :
          Nodes[depth] = Leaves \cup Negations(Nodes[depth - 1]) \cup Junctions(Nodes[depth - 1])
<1>1. MaxDepth \in Nat
  BY ConditionAssumption
<1>2. \E f : NodesUpTo(f, MaxDepth)
  BY <1>1, NodesExist
<1>3. Nodes = CHOOSE f : NodesUpTo(f, MaxDepth)
  BY Zenon DEF Nodes, NodesUpTo
<1>4. NodesUpTo(Nodes, MaxDepth)
  BY <1>2, <1>3
<1>5. DOMAIN Nodes = 0..MaxDepth
  BY <1>4 DEF NodesUpTo
<1>6. ASSUME NEW depth \in 0..MaxDepth
      PROVE  Nodes[depth] = Leaves \cup
                IF depth = 0 THEN {}
                ELSE Negations(Nodes[depth - 1]) \cup Junctions(Nodes[depth - 1])
  BY <1>4 DEF NodesUpTo, Leaves, Negations, Junctions
<1>7. Nodes[0] = Leaves
  <2>1. 0 \in 0..MaxDepth
    BY <1>1
  <2> QED
    BY <1>6, <2>1
<1>8. ASSUME NEW depth \in 1..MaxDepth
      PROVE  Nodes[depth] = Leaves \cup Negations(Nodes[depth - 1]) \cup Junctions(Nodes[depth - 1])
  <2>1. depth \in 0..MaxDepth /\ depth # 0
    BY <1>1
  <2> QED
    BY <1>6, <2>1
<1> QED
  BY <1>5, <1>7, <1>8

\* Every tree of a depth is one of any larger depth.
LEMMA NodesGrow ==
    ASSUME NEW a \in 0..MaxDepth, NEW b \in 0..MaxDepth, a <= b
    PROVE  Nodes[a] \subseteq Nodes[b]
<1>1. MaxDepth \in Nat
  BY ConditionAssumption
<1>2. ASSUME NEW A, NEW B, A \subseteq B
      PROVE  Negations(A) \subseteq Negations(B) /\ Junctions(A) \subseteq Junctions(B)
  <2>1. [1..1 -> A] \subseteq [1..1 -> B]
    BY <1>2
  <2>2. Seq(A) \subseteq Seq(B)
    BY <1>2
  <2> QED
    BY <2>1, <2>2 DEF Negations, Junctions
<1> DEFINE S == {d \in Nat : d + 1 \in 0..MaxDepth => Nodes[d] \subseteq Nodes[d + 1]}
<1>3. 0 \in S
  <2>1. ASSUME 1 \in 0..MaxDepth PROVE Nodes[0] \subseteq Nodes[1]
    <3>1. 1 \in 1..MaxDepth
      BY <1>1, <2>1
    <3> QED
      BY <3>1, NodesByDepth
  <2> QED
    BY <2>1
<1>4. ASSUME NEW d \in Nat, d \in S PROVE d + 1 \in S
  <2> SUFFICES ASSUME d + 2 \in 0..MaxDepth PROVE Nodes[d + 1] \subseteq Nodes[d + 2]
    OBVIOUS
  <2>1. d + 1 \in 1..MaxDepth /\ d + 2 \in 1..MaxDepth /\ (d + 1) - 1 = d /\ (d + 2) - 1 = d + 1
    BY <1>1
  <2>2. Nodes[d] \subseteq Nodes[d + 1]
    BY <1>4, <2>1
  <2>3. Nodes[d + 1] = Leaves \cup Negations(Nodes[d]) \cup Junctions(Nodes[d])
    BY <2>1, NodesByDepth
  <2>4. Nodes[d + 2] = Leaves \cup Negations(Nodes[d + 1]) \cup Junctions(Nodes[d + 1])
    BY <2>1, NodesByDepth
  <2> QED
    BY <1>2, <2>2, <2>3, <2>4
<1>5. Nat \subseteq S
  <2> HIDE DEF S
  <2> QED
    BY <1>3, <1>4, Climbs
<1> DEFINE T == {n \in Nat : a + n \in 0..MaxDepth => Nodes[a] \subseteq Nodes[a + n]}
<1>6. 0 \in T
  OBVIOUS
<1>7. ASSUME NEW n \in Nat, n \in T PROVE n + 1 \in T
  <2> SUFFICES ASSUME a + (n + 1) \in 0..MaxDepth PROVE Nodes[a] \subseteq Nodes[a + (n + 1)]
    OBVIOUS
  <2>1. a + n \in 0..MaxDepth /\ a + n \in Nat /\ a + (n + 1) = (a + n) + 1
    BY <1>1
  <2>2. a + n \in S
    BY <1>5, <2>1
  <2>3. Nodes[a + n] \subseteq Nodes[a + (n + 1)]
    BY <2>1, <2>2
  <2>4. Nodes[a] \subseteq Nodes[a + n]
    BY <1>7, <2>1
  <2> QED
    BY <2>3, <2>4
<1>8. Nat \subseteq T
  <2> HIDE DEF T
  <2> QED
    BY <1>6, <1>7, Climbs
<1>9. b - a \in Nat /\ a + (b - a) = b
  BY <1>1
<1> QED
  <2>1. b - a \in T
    BY <1>8, <1>9
  <2> QED
    BY <1>9, <2>1

\* What a walk over the tree computes: the value at a leaf by its name, the one
\* at an inner node by its operator from the values of its operands.
Walks(D, V, leaf, inner, f) ==
    /\ f \in [D -> V]
    /\ \A n \in D : f[n] = IF n.op = "ref" THEN leaf[n.name]
                           ELSE inner[<<n.op, [i \in DOMAIN n.nodes |-> f[n.nodes[i]]]>>]

\* A tuple of one element.
LEMMA Singleton ==
    ASSUME NEW S, NEW x \in S
    PROVE  <<x>> \in Seq(S) /\ Len(<<x>>) = 1 /\ DOMAIN <<x>> = {1} /\ <<x>>[1] = x
<1>1. <<x>> \in Seq(S) /\ Len(<<x>>) = 1 /\ <<x>>[1] = x
  OBVIOUS
<1>2. DOMAIN <<x>> = 1..1
  BY <1>1
<1> QED
  BY <1>1, <1>2

\* A node, and that its operands are smaller.
LEMMA NodeShape ==
    ASSUME NEW depth \in 0..MaxDepth, NEW n \in Nodes[depth]
    PROVE  \/ /\ n.op = "ref" /\ n.name \in SelectionNames /\ n = Ref(n.name)
           \/ /\ depth # 0 /\ n.op = "not" /\ n.nodes \in Seq(Nodes[depth - 1])
              /\ DOMAIN n.nodes = {1} /\ Len(n.nodes) = 1
           \/ /\ depth # 0 /\ n.op \in {"and", "or"} /\ n.nodes \in Seq(Nodes[depth - 1])
<1>1. MaxDepth \in Nat
  BY ConditionAssumption
<1>2. CASE n \in Leaves
  BY <1>2 DEF Leaves, Ref
<1>3. CASE depth # 0 /\ n \in Negations(Nodes[depth - 1])
  <2>1. n.op = "not" /\ n.nodes \in [1..1 -> Nodes[depth - 1]]
    BY <1>3 DEF Negations
  <2>2. n.nodes = <<n.nodes[1]>> /\ n.nodes[1] \in Nodes[depth - 1]
    BY <2>1
  <2>3. n.nodes \in Seq(Nodes[depth - 1]) /\ Len(n.nodes) = 1 /\ DOMAIN n.nodes = {1}
    <3> DEFINE kid == n.nodes[1]
    <3>1. n.nodes = <<kid>> /\ kid \in Nodes[depth - 1]
      BY <2>2
    <3> HIDE DEF kid
    <3>2. <<kid>> \in Seq(Nodes[depth - 1]) /\ Len(<<kid>>) = 1 /\ DOMAIN <<kid>> = {1}
      BY <3>1, Singleton
    <3> QED
      BY <3>1, <3>2
  <2> QED
    BY <1>3, <2>1, <2>3
<1>4. CASE depth # 0 /\ n \in Junctions(Nodes[depth - 1])
  BY <1>4 DEF Junctions
<1> QED
  <2>1. CASE depth = 0
    BY <1>2, <2>1, NodesByDepth
  <2>2. CASE depth # 0
    <3>1. depth \in 1..MaxDepth
      BY <1>1, <2>2
    <3> QED
      BY <1>2, <1>3, <1>4, <2>2, <3>1, NodesByDepth
  <2> QED
    BY <2>1, <2>2

\* A recursion over the kids of a node has a solution on every tree.
LEMMA WalkExists ==
    ASSUME NEW V, NEW leaf \in [SelectionNames -> V],
           NEW inner \in [{"not", "and", "or"} \X Seq(V) -> V]
    PROVE  \E f : Walks(Tree, V, leaf, inner, f)
<1>1. MaxDepth \in Nat
  BY ConditionAssumption
<1> DEFINE S == {d \in Nat : d \in 0..MaxDepth => \E f : Walks(Nodes[d], V, leaf, inner, f)}
           Value(f, n) == IF n.op = "ref" THEN leaf[n.name]
                          ELSE inner[<<n.op, [i \in DOMAIN n.nodes |-> f[n.nodes[i]]]>>]
<1>2. 0 \in S
  <2> DEFINE g == [n \in Nodes[0] |-> leaf[n.name]]
  <2>1. \A n \in Nodes[0] : n.op = "ref" /\ n.name \in SelectionNames
    BY NodesByDepth DEF Leaves, Ref
  <2>2. Walks(Nodes[0], V, leaf, inner, g)
    BY <2>1 DEF Walks
  <2> QED
    BY <2>2
<1>3. ASSUME NEW d \in Nat, d \in S PROVE d + 1 \in S
  <2> SUFFICES ASSUME d + 1 \in 0..MaxDepth
               PROVE  \E f : Walks(Nodes[d + 1], V, leaf, inner, f)
    OBVIOUS
  <2>1. d \in 0..MaxDepth /\ (d + 1) - 1 = d /\ d + 1 # 0
    BY <1>1
  <2>2. PICK f : Walks(Nodes[d], V, leaf, inner, f)
    BY <1>3, <2>1
  <2>3. Nodes[d] \subseteq Nodes[d + 1]
    BY <2>1, NodesGrow
  <2> DEFINE g == [n \in Nodes[d + 1] |-> Value(f, n)]
  <2>4. ASSUME NEW n \in Nodes[d + 1], n.op # "ref"
        PROVE  /\ n.op \in {"not", "and", "or"} /\ n.nodes \in Seq(Nodes[d])
               /\ \A i \in DOMAIN n.nodes : n.nodes[i] \in Nodes[d]
    BY <2>1, <2>4, NodeShape
  <2>5. ASSUME NEW n \in Nodes[d + 1] PROVE Value(f, n) \in V
    <3>1. CASE n.op = "ref"
      <4>1. n.name \in SelectionNames
        BY <2>1, <3>1, NodeShape
      <4> QED
        BY <3>1, <4>1
    <3>2. CASE n.op # "ref"
      <4> DEFINE kids == [i \in DOMAIN n.nodes |-> f[n.nodes[i]]]
      <4>1. DOMAIN n.nodes = 1..Len(n.nodes) /\ Len(n.nodes) \in Nat
        BY <2>4, <3>2
      <4>2. \A i \in DOMAIN n.nodes : f[n.nodes[i]] \in V
        BY <2>2, <2>4, <3>2 DEF Walks
      <4>3. kids \in Seq(V)
        BY <4>1, <4>2
      <4>4. <<n.op, kids>> \in {"not", "and", "or"} \X Seq(V)
        BY <2>4, <3>2, <4>3
      <4> HIDE DEF kids
      <4>5. inner[<<n.op, kids>>] \in V
        BY <4>4
      <4> QED
        BY <3>2, <4>5 DEF kids
    <3> QED
      BY <3>1, <3>2
  <2>6. \A n \in Nodes[d] : g[n] = f[n]
    BY <2>2, <2>3 DEF Walks
  <2>7. ASSUME NEW n \in Nodes[d + 1] PROVE g[n] = Value(g, n)
    <3>1. g[n] = Value(f, n)
      OBVIOUS
    <3>2. CASE n.op = "ref"
      BY <3>1, <3>2
    <3>3. CASE n.op # "ref"
      <4>1. \A i \in DOMAIN n.nodes : g[n.nodes[i]] = f[n.nodes[i]]
        BY <2>4, <2>6, <3>3
      <4> HIDE DEF g
      <4>2. [i \in DOMAIN n.nodes |-> f[n.nodes[i]]] = [i \in DOMAIN n.nodes |-> g[n.nodes[i]]]
        BY <4>1
      <4> QED
        BY <3>1, <3>3, <4>2
    <3> QED
      BY <3>2, <3>3
  <2>8. g \in [Nodes[d + 1] -> V]
    BY <2>5
  <2> HIDE DEF g
  <2>9. Walks(Nodes[d + 1], V, leaf, inner, g)
    BY <2>7, <2>8 DEF Walks
  <2> QED
    BY <2>9
<1>4. Nat \subseteq S
  <2> HIDE DEF S
  <2> QED
    BY <1>2, <1>3, Climbs
<1> QED
  BY <1>1, <1>4 DEF Tree

\* A tree is a reference, a negation, or a conjunction or disjunction of trees.
LEMMA TreeShape ==
    ASSUME NEW n \in Tree
    PROVE  \/ n.op = "ref" /\ n.name \in SelectionNames
           \/ /\ n.op \in {"not", "and", "or"} /\ n.nodes \in Seq(Tree)
              /\ \A i \in DOMAIN n.nodes : n.nodes[i] \in Tree
              /\ n.op = "not" => 1 \in DOMAIN n.nodes
<1>1. MaxDepth \in Nat /\ MaxDepth \in 0..MaxDepth
  BY ConditionAssumption
<1>2. CASE MaxDepth # 0 /\ n.nodes \in Seq(Nodes[MaxDepth - 1])
  <2>1. Nodes[MaxDepth - 1] \subseteq Tree
    BY <1>1, <1>2, NodesGrow DEF Tree
  <2>2. n.nodes \in Seq(Tree)
    BY <1>2, <2>1
  <2>3. \A i \in DOMAIN n.nodes : n.nodes[i] \in Tree
    BY <2>2
  <2> QED
    BY <1>1, <2>2, <2>3, NodeShape DEF Tree
<1> QED
  BY <1>1, <1>2, NodeShape DEF Tree

\* A walk that is defined on trees is defined on the kids of a tree.
LEMMA KidsAreValued ==
    ASSUME NEW V, NEW f \in [Tree -> V], NEW n \in Tree, n.op # "ref"
    PROVE  /\ [i \in DOMAIN n.nodes |-> f[n.nodes[i]]] \in Seq(V)
           /\ DOMAIN [i \in DOMAIN n.nodes |-> f[n.nodes[i]]] = DOMAIN n.nodes
           /\ <<n.op, [i \in DOMAIN n.nodes |-> f[n.nodes[i]]]>> \in {"not", "and", "or"} \X Seq(V)
<1>1. /\ n.op \in {"not", "and", "or"} /\ n.nodes \in Seq(Tree)
      /\ \A i \in DOMAIN n.nodes : n.nodes[i] \in Tree
  BY TreeShape
<1> DEFINE kids == [i \in DOMAIN n.nodes |-> f[n.nodes[i]]]
<1>2. DOMAIN n.nodes = 1..Len(n.nodes) /\ Len(n.nodes) \in Nat
  BY <1>1
<1>3. \A i \in DOMAIN n.nodes : f[n.nodes[i]] \in V
  BY <1>1
<1>4. kids \in Seq(V)
  BY <1>2, <1>3
<1>5. DOMAIN kids = DOMAIN n.nodes
  OBVIOUS
<1> HIDE DEF kids
<1>6. <<n.op, kids>> \in {"not", "and", "or"} \X Seq(V)
  BY <1>1, <1>4
<1> QED
  BY <1>4, <1>5, <1>6 DEF kids

---------------------------------------------------------------------------
(* The three walks *)

HoldsIs(T, f) ==
    f = [n \in Tree |->
            CASE n.op = "ref" -> n.name \in T
              [] n.op = "not" -> ~f[n.nodes[1]]
              [] n.op = "and" -> \A i \in DOMAIN n.nodes : f[n.nodes[i]]
              [] OTHER        -> \E i \in DOMAIN n.nodes : f[n.nodes[i]]]

LEMMA HoldsExists ==
    ASSUME NEW T
    PROVE  \E f \in [Tree -> BOOLEAN] : HoldsIs(T, f)
<1> DEFINE leaf == [name \in SelectionNames |-> name \in T]
           inner == [x \in {"not", "and", "or"} \X Seq(BOOLEAN) |->
                       CASE x[1] = "not" -> x[2][1] = FALSE
                         [] x[1] = "and" -> \A i \in DOMAIN x[2] : x[2][i]
                         [] OTHER        -> \E i \in DOMAIN x[2] : x[2][i]]
<1>1. leaf \in [SelectionNames -> BOOLEAN]
  OBVIOUS
<1>2. inner \in [{"not", "and", "or"} \X Seq(BOOLEAN) -> BOOLEAN]
  OBVIOUS
<1>3. \E f : Walks(Tree, BOOLEAN, leaf, inner, f)
  <2> HIDE DEF leaf, inner
  <2> QED
    BY <1>1, <1>2, WalkExists
<1>4. PICK f : Walks(Tree, BOOLEAN, leaf, inner, f)
  BY <1>3
<1>5. f \in [Tree -> BOOLEAN]
  BY <1>4 DEF Walks
<1>6. ASSUME NEW n \in Tree
      PROVE  f[n] = CASE n.op = "ref" -> n.name \in T
                      [] n.op = "not" -> ~f[n.nodes[1]]
                      [] n.op = "and" -> \A i \in DOMAIN n.nodes : f[n.nodes[i]]
                      [] OTHER        -> \E i \in DOMAIN n.nodes : f[n.nodes[i]]
  <2>1. CASE n.op = "ref"
    <3>1. n.name \in SelectionNames
      BY <2>1, TreeShape
    <3>2. f[n] = leaf[n.name]
      BY <1>4, <2>1 DEF Walks
    <3> QED
      BY <2>1, <3>1, <3>2
  <2>2. CASE n.op # "ref"
    <3> DEFINE kids == [i \in DOMAIN n.nodes |-> f[n.nodes[i]]]
    <3>1. /\ <<n.op, kids>> \in {"not", "and", "or"} \X Seq(BOOLEAN)
          /\ DOMAIN kids = DOMAIN n.nodes
      BY <1>5, <2>2, KidsAreValued
    <3>2. f[n] = inner[<<n.op, kids>>]
      BY <1>4, <2>2 DEF Walks
    <3>3. \A i \in DOMAIN n.nodes : kids[i] = f[n.nodes[i]]
      OBVIOUS
    <3>4. /\ n.op \in {"not", "and", "or"}
          /\ n.op = "not" => 1 \in DOMAIN n.nodes
          /\ \A i \in DOMAIN n.nodes : n.nodes[i] \in Tree
      BY <2>2, TreeShape
    <3> HIDE DEF kids
    <3>5. f[n] = CASE n.op = "not" -> kids[1] = FALSE
                   [] n.op = "and" -> \A i \in DOMAIN kids : kids[i]
                   [] OTHER        -> \E i \in DOMAIN kids : kids[i]
      BY <3>1, <3>2
    <3>6. CASE n.op = "not"
      <4>1. f[n] = (kids[1] = FALSE)
        BY <3>5, <3>6
      <4>2. kids[1] = f[n.nodes[1]] /\ f[n.nodes[1]] \in BOOLEAN
        BY <1>5, <3>3, <3>4, <3>6
      <4>3. f[n] = ~f[n.nodes[1]]
        BY <4>1, <4>2
      <4> QED
        BY <3>6, <4>3
    <3>7. CASE n.op = "and"
      <4>1. f[n] = \A i \in DOMAIN kids : kids[i]
        BY <3>5, <3>7
      <4>2. f[n] = \A i \in DOMAIN n.nodes : f[n.nodes[i]]
        BY <3>1, <3>3, <4>1
      <4> QED
        BY <3>7, <4>2
    <3>8. CASE n.op = "or"
      <4>1. f[n] = \E i \in DOMAIN kids : kids[i]
        BY <3>5, <3>8
      <4>2. f[n] = \E i \in DOMAIN n.nodes : f[n.nodes[i]]
        BY <3>1, <3>3, <4>1
      <4> QED
        BY <3>8, <4>2
    <3> QED
      BY <3>4, <3>6, <3>7, <3>8
  <2> QED
    BY <2>1, <2>2
<1>7. HoldsIs(T, f)
  <2>1. f = [n \in Tree |-> f[n]]
    BY <1>5
  <2> QED
    BY <1>6, <2>1 DEF HoldsIs
<1> QED
  BY <1>5, <1>7

\* Whether a condition holds, node by node.
LEMMA HoldsByShape ==
    ASSUME NEW T, NEW n \in Tree
    PROVE  /\ n.op = "ref" => (Holds(n, T) <=> n.name \in T)
           /\ n.op = "not" => (Holds(n, T) <=> ~Holds(n.nodes[1], T))
           /\ n.op = "and" => (Holds(n, T) <=> \A i \in DOMAIN n.nodes : Holds(n.nodes[i], T))
           /\ n.op = "or" => (Holds(n, T) <=> \E i \in DOMAIN n.nodes : Holds(n.nodes[i], T))
<1> DEFINE h == CHOOSE f : HoldsIs(T, f)
<1>1. \E f : HoldsIs(T, f)
  BY HoldsExists
<1>2. HoldsIs(T, h)
  BY <1>1
<1>3. \A m : Holds(m, T) = h[m]
  BY Zenon DEF Holds, HoldsIs
<1> HIDE DEF h
<1>4. h[n] = CASE n.op = "ref" -> n.name \in T
               [] n.op = "not" -> ~h[n.nodes[1]]
               [] n.op = "and" -> \A i \in DOMAIN n.nodes : h[n.nodes[i]]
               [] OTHER        -> \E i \in DOMAIN n.nodes : h[n.nodes[i]]
  BY <1>2 DEF HoldsIs
<1>5. n.op \in {"ref", "not", "and", "or"}
  BY TreeShape
<1>6. n.op = "ref" => h[n] = (n.name \in T)
  BY <1>4
<1>7. n.op = "not" => h[n] = ~h[n.nodes[1]]
  BY <1>4
<1>8. n.op = "and" => h[n] = \A i \in DOMAIN n.nodes : h[n.nodes[i]]
  BY <1>4
<1>9. n.op = "or" => h[n] = \E i \in DOMAIN n.nodes : h[n.nodes[i]]
  BY <1>4
<1> QED
  BY <1>3, <1>6, <1>7, <1>8, <1>9, Zenon

NamesAre(f) ==
    f = [n \in Tree |-> IF n.op = "ref" THEN {n.name}
                        ELSE UNION {f[n.nodes[i]] : i \in DOMAIN n.nodes}]

LEMMA NamesExist == \E f : NamesAre(f)
<1> DEFINE V == SUBSET SelectionNames
           leaf == [name \in SelectionNames |-> {name}]
           inner == [x \in {"not", "and", "or"} \X Seq(V) |-> UNION {x[2][i] : i \in DOMAIN x[2]}]
<1>1. leaf \in [SelectionNames -> V]
  OBVIOUS
<1>2. inner \in [{"not", "and", "or"} \X Seq(V) -> V]
  <2>1. ASSUME NEW s \in Seq(V) PROVE UNION {s[i] : i \in DOMAIN s} \in V
    <3>1. \A i \in DOMAIN s : s[i] \in V
      OBVIOUS
    <3> QED
      BY <3>1
  <2>2. \A x \in {"not", "and", "or"} \X Seq(V) : x[2] \in Seq(V)
    OBVIOUS
  <2> QED
    BY <2>1, <2>2
<1>3. \E f : Walks(Tree, V, leaf, inner, f)
  <2> HIDE DEF leaf, inner, V
  <2> QED
    BY <1>1, <1>2, WalkExists
<1>4. PICK f : Walks(Tree, V, leaf, inner, f)
  BY <1>3
<1>5. f \in [Tree -> V]
  BY <1>4 DEF Walks
<1>6. ASSUME NEW n \in Tree
      PROVE  f[n] = IF n.op = "ref" THEN {n.name}
                    ELSE UNION {f[n.nodes[i]] : i \in DOMAIN n.nodes}
  <2>1. CASE n.op = "ref"
    <3>1. n.name \in SelectionNames
      BY <2>1, TreeShape
    <3>2. f[n] = leaf[n.name]
      BY <1>4, <2>1 DEF Walks
    <3> QED
      BY <2>1, <3>1, <3>2
  <2>2. CASE n.op # "ref"
    <3> DEFINE kids == [i \in DOMAIN n.nodes |-> f[n.nodes[i]]]
    <3>1. /\ <<n.op, kids>> \in {"not", "and", "or"} \X Seq(V)
          /\ DOMAIN kids = DOMAIN n.nodes
      <4> HIDE DEF V
      <4> QED
        BY <1>5, <2>2, KidsAreValued
    <3>2. f[n] = inner[<<n.op, kids>>]
      BY <1>4, <2>2 DEF Walks
    <3>3. \A i \in DOMAIN n.nodes : kids[i] = f[n.nodes[i]]
      OBVIOUS
    <3> HIDE DEF kids
    <3>4. f[n] = UNION {kids[i] : i \in DOMAIN kids}
      BY <3>1, <3>2
    <3>5. {kids[i] : i \in DOMAIN kids} = {f[n.nodes[i]] : i \in DOMAIN n.nodes}
      BY <3>1, <3>3
    <3> QED
      BY <2>2, <3>4, <3>5
  <2> QED
    BY <2>1, <2>2
<1> QED
  <2>1. f = [n \in Tree |-> f[n]]
    BY <1>5
  <2> QED
    BY <1>6, <2>1 DEF NamesAre

\* The selections a condition mentions are those its operands mention.
LEMMA NamesByShape ==
    ASSUME NEW n \in Tree
    PROVE  referenced_selections(n) =
               IF n.op = "ref" THEN {n.name}
               ELSE UNION {referenced_selections(n.nodes[i]) : i \in DOMAIN n.nodes}
<1> DEFINE h == CHOOSE f : NamesAre(f)
<1>1. NamesAre(h)
  BY NamesExist
<1>2. \A m : referenced_selections(m) = h[m]
  BY Zenon DEF referenced_selections, NamesAre
<1> HIDE DEF h
<1>3. h[n] = IF n.op = "ref" THEN {n.name}
             ELSE UNION {h[n.nodes[i]] : i \in DOMAIN n.nodes}
  BY <1>1 DEF NamesAre
<1>4. {h[n.nodes[i]] : i \in DOMAIN n.nodes} =
      {referenced_selections(n.nodes[i]) : i \in DOMAIN n.nodes}
  BY <1>2
<1> QED
  BY <1>2, <1>3, <1>4

RenderedIs(f) ==
    f = [n \in Tree |->
            CASE n.op = "ref" -> _render_selection(rule.detection[n.name])
              [] n.op = "not" -> _not(f[n.nodes[1]])
              [] n.op = "and" -> _and([i \in DOMAIN n.nodes |-> f[n.nodes[i]]])
              [] OTHER        -> _or([i \in DOMAIN n.nodes |-> f[n.nodes[i]]])]

LEMMA RenderedExists == \E f : RenderedIs(f)
<1> DEFINE V == SUBSET Events
           leaf == [name \in SelectionNames |-> _render_selection(rule.detection[name])]
           inner == [x \in {"not", "and", "or"} \X Seq(V) |->
                       CASE x[1] = "not" -> _not(x[2][1])
                         [] x[1] = "and" -> _and(x[2])
                         [] OTHER        -> _or(x[2])]
<1>1. leaf \in [SelectionNames -> V]
  <2>1. \A name : _render_selection(rule.detection[name]) \in V
    BY DEF _render_selection, _or
  <2> QED
    BY <2>1
<1>2. inner \in [{"not", "and", "or"} \X Seq(V) -> V]
  BY DEF _not, _and, _or
<1>3. \E f : Walks(Tree, V, leaf, inner, f)
  <2> HIDE DEF leaf, inner, V
  <2> QED
    BY <1>1, <1>2, WalkExists
<1>4. PICK f : Walks(Tree, V, leaf, inner, f)
  BY <1>3
<1>5. f \in [Tree -> V]
  BY <1>4 DEF Walks
<1>6. ASSUME NEW n \in Tree
      PROVE  f[n] = CASE n.op = "ref" -> _render_selection(rule.detection[n.name])
                      [] n.op = "not" -> _not(f[n.nodes[1]])
                      [] n.op = "and" -> _and([i \in DOMAIN n.nodes |-> f[n.nodes[i]]])
                      [] OTHER        -> _or([i \in DOMAIN n.nodes |-> f[n.nodes[i]]])
  <2>1. CASE n.op = "ref"
    <3>1. n.name \in SelectionNames
      BY <2>1, TreeShape
    <3>2. f[n] = leaf[n.name]
      BY <1>4, <2>1 DEF Walks
    <3> QED
      BY <2>1, <3>1, <3>2
  <2>2. CASE n.op # "ref"
    <3> DEFINE kids == [i \in DOMAIN n.nodes |-> f[n.nodes[i]]]
    <3>1. <<n.op, kids>> \in {"not", "and", "or"} \X Seq(V)
      <4> HIDE DEF V
      <4> QED
        BY <1>5, <2>2, KidsAreValued
    <3>2. f[n] = inner[<<n.op, kids>>]
      BY <1>4, <2>2 DEF Walks
    <3>3. n.op = "not" => kids[1] = f[n.nodes[1]]
      BY <2>2, TreeShape
    <3> HIDE DEF kids
    <3>4. f[n] = CASE n.op = "not" -> _not(kids[1])
                   [] n.op = "and" -> _and(kids)
                   [] OTHER        -> _or(kids)
      BY <3>1, <3>2
    <3>5. f[n] = CASE n.op = "not" -> _not(f[n.nodes[1]])
                   [] n.op = "and" -> _and(kids)
                   [] OTHER        -> _or(kids)
      BY <3>3, <3>4
    <3> QED
      BY <2>2, <3>5 DEF kids
  <2> QED
    BY <2>1, <2>2
<1> QED
  <2>1. f = [n \in Tree |-> f[n]]
    BY <1>5
  <2> QED
    BY <1>6, <2>1 DEF RenderedIs

\* What a node is rendered to, from what its operands are.
LEMMA RenderedByShape ==
    ASSUME NEW n \in Tree
    PROVE  /\ n.op = "ref" => _render(n) = _render_selection(rule.detection[n.name])
           /\ n.op = "not" => _render(n) = _not(_render(n.nodes[1]))
           /\ n.op = "and" => _render(n) = _and([i \in DOMAIN n.nodes |-> _render(n.nodes[i])])
           /\ n.op = "or" => _render(n) = _or([i \in DOMAIN n.nodes |-> _render(n.nodes[i])])
<1> DEFINE h == CHOOSE f : RenderedIs(f)
<1>1. RenderedIs(h)
  BY RenderedExists
<1>2. \A m : _render(m) = h[m]
  BY Zenon DEF _render, RenderedIs
<1> HIDE DEF h
<1>3. h[n] = CASE n.op = "ref" -> _render_selection(rule.detection[n.name])
               [] n.op = "not" -> _not(h[n.nodes[1]])
               [] n.op = "and" -> _and([i \in DOMAIN n.nodes |-> h[n.nodes[i]]])
               [] OTHER        -> _or([i \in DOMAIN n.nodes |-> h[n.nodes[i]]])
  BY <1>1 DEF RenderedIs
<1>4. [i \in DOMAIN n.nodes |-> h[n.nodes[i]]] = [i \in DOMAIN n.nodes |-> _render(n.nodes[i])]
  BY <1>2
<1> QED
  BY <1>2, <1>3, <1>4

---------------------------------------------------------------------------
(* Patterns *)

LikeIs(pattern, text, many, one, f) ==
    f = [k \in 0..Len(pattern) |->
            LET before == f[k - 1]
            IN  IF k = 0 THEN {0}
                ELSE IF pattern[k] = many THEN {j \in 0..Len(text) : \E i \in before : i <= j}
                ELSE {j \in 1..Len(text) : j - 1 \in before /\ pattern[k] \in {one, text[j]}}]

\* Two patterns that differ in the notation of their wildcards only.
Alike(p, q, text, many, one, many2, one2) ==
    /\ Len(p) \in Nat /\ Len(p) = Len(q)
    /\ \A k \in 1..Len(p) : p[k] = many <=> q[k] = many2
    /\ \A k \in 1..Len(p) : p[k] # many =>
          \A j \in 1..Len(text) : p[k] \in {one, text[j]} <=> q[k] \in {one2, text[j]}

\* Such patterns match the same texts.
LEMMA SameLike ==
    ASSUME NEW p, NEW q, NEW text, NEW many, NEW one, NEW many2, NEW one2,
           Alike(p, q, text, many, one, many2, one2)
    PROVE  Like(p, text, many, one) <=> Like(q, text, many2, one2)
<1> DEFINE Body(f, r, m, o, k) ==
              LET before == f[k - 1]
              IN  IF k = 0 THEN {0}
                  ELSE IF r[k] = m THEN {j \in 0..Len(text) : \E i \in before : i <= j}
                  ELSE {j \in 1..Len(text) : j - 1 \in before /\ r[k] \in {o, text[j]}}
<1>0. /\ Len(p) \in Nat /\ Len(p) = Len(q)
      /\ \A k \in 1..Len(p) : p[k] = many <=> q[k] = many2
      /\ \A k \in 1..Len(p) : p[k] # many =>
            \A j \in 1..Len(text) : p[k] \in {one, text[j]} <=> q[k] \in {one2, text[j]}
  BY DEF Alike
<1>1. ASSUME NEW f, NEW k \in 0..Len(p) PROVE Body(f, p, many, one, k) = Body(f, q, many2, one2, k)
  <2>1. CASE k = 0
    BY <2>1
  <2>2. CASE k # 0
    <3>1. k \in 1..Len(p)
      BY <1>0, <2>2
    <3> QED
      BY <1>0, <2>2, <3>1
  <2> QED
    BY <2>1, <2>2
<1>2. \A f : LikeIs(p, text, many, one, f) <=> LikeIs(q, text, many2, one2, f)
  <2> SUFFICES ASSUME NEW f
               PROVE  LikeIs(p, text, many, one, f) <=> LikeIs(q, text, many2, one2, f)
    OBVIOUS
  <2>1. [k \in 0..Len(p) |-> Body(f, p, many, one, k)] =
        [k \in 0..Len(q) |-> Body(f, q, many2, one2, k)]
    <3> HIDE DEF Body
    <3> QED
      BY <1>0, <1>1
  <2> QED
    BY <2>1 DEF LikeIs
<1>3. \A r, m, o : Like(r, text, m, o) <=>
         (Len(text) \in (CHOOSE f : LikeIs(r, text, m, o, f))[Len(r)])
  BY Zenon DEF Like, LikeIs
<1>4. (CHOOSE f : LikeIs(p, text, many, one, f)) = (CHOOSE f : LikeIs(q, text, many2, one2, f))
  BY <1>2
<1> QED
  BY <1>0, <1>3, <1>4

\* A pattern of like() means what the rule's pattern does, unless the pattern has
\* wildcards of like() for characters of its own.
LEMMA SqlMeansTheSame ==
    ASSUME NEW p \in Text, ~Has(p, SqlWild), NEW text
    PROVE  Like(casefold(SqlWildcards(p)), text, "%", "_") <=> Like(casefold(p), text, "*", "?")
<1> DEFINE q == SqlWildcards(p)
<1>1. Len(p) \in Nat /\ DOMAIN p = 1..Len(p) /\ \A k \in 1..Len(p) : p[k] \in DOMAIN Lower
  BY DEF Text
<1>2. DOMAIN q = 1..Len(p) /\ Len(q) = Len(p)
  BY <1>1 DEF SqlWildcards
<1>3. \A k \in 1..Len(p) : p[k] \notin {"%", "_"}
  BY <1>1 DEF Has, SqlWild
<1>4. \A k \in 1..Len(p) : q[k] = IF p[k] = "*" THEN "%" ELSE IF p[k] = "?" THEN "_" ELSE p[k]
  BY <1>1 DEF SqlWildcards
<1> HIDE DEF q
<1>5. /\ DOMAIN casefold(p) = 1..Len(p) /\ Len(casefold(p)) = Len(p)
      /\ DOMAIN casefold(q) = 1..Len(p) /\ Len(casefold(q)) = Len(p)
      /\ \A k \in 1..Len(p) : casefold(p)[k] = Lower[p[k]] /\ casefold(q)[k] = Lower[q[k]]
  BY <1>1, <1>2 DEF casefold
<1>6. \A c \in DOMAIN Lower : \A w \in {"*", "?", "%", "_"} : Lower[c] = w <=> c = w
  BY RulesAssumption DEF Wild, SqlWild
<1>7. {"*", "?", "%", "_"} \subseteq DOMAIN Lower
  BY RulesAssumption DEF Wild, SqlWild
<1>8. ASSUME NEW k \in 1..Len(p)
      PROVE  /\ casefold(q)[k] = "%" <=> casefold(p)[k] = "*"
             /\ casefold(q)[k] # "%" =>
                   \A x : casefold(q)[k] \in {"_", x} <=> casefold(p)[k] \in {"?", x}
  <2> DEFINE c == p[k]
             d == q[k]
  <2>1. casefold(p)[k] = Lower[c] /\ casefold(q)[k] = Lower[d]
    BY <1>5, <1>8
  <2>2. c \in DOMAIN Lower /\ c # "%" /\ c # "_"
    BY <1>1, <1>3, <1>8
  <2>3. /\ Lower[c] = "*" <=> c = "*"
        /\ Lower[c] = "?" <=> c = "?"
        /\ Lower[c] # "%" /\ Lower[c] # "_"
    BY <1>6, <2>2
  <2>4. Lower["%"] = "%" /\ Lower["_"] = "_" /\ Lower["*"] = "*" /\ Lower["?"] = "?"
    BY <1>6, <1>7
  <2>5. d = IF c = "*" THEN "%" ELSE IF c = "?" THEN "_" ELSE c
    BY <1>4, <1>8
  <2>6. CASE c = "*"
    BY <2>1, <2>4, <2>5, <2>6
  <2>7. CASE c = "?"
    BY <2>1, <2>4, <2>5, <2>7
  <2>8. CASE c # "*" /\ c # "?"
    <3>1. d = c
      BY <2>5, <2>8
    <3> QED
      BY <2>1, <2>3, <2>8, <3>1
  <2> QED
    BY <2>6, <2>7, <2>8
<1> QED
  <2> DEFINE a == casefold(q)
             b == casefold(p)
  <2>1. Len(a) \in Nat /\ Len(a) = Len(b) /\ Len(a) = Len(p)
    BY <1>1, <1>5
  <2>2. \A k \in 1..Len(p) :
           /\ a[k] = "%" <=> b[k] = "*"
           /\ a[k] # "%" => \A j \in 1..Len(text) : a[k] \in {"_", text[j]} <=> b[k] \in {"?", text[j]}
    BY <1>8
  <2>3. Alike(a, b, text, "%", "_", "*", "?")
    BY <2>1, <2>2 DEF Alike
  <2> HIDE DEF a, b
  <2>4. Like(a, text, "%", "_") <=> Like(b, text, "*", "?")
    BY <2>3, SameLike
  <2> QED
    BY <2>4 DEF a, b, q

\* Anchoring a text adds only wildcards to it.
LEMMA AnchoredIsText ==
    ASSUME NEW how, NEW value \in Text
    PROVE  /\ Anchored(how, value) \in Text
           /\ ~Has(value, SqlWild) => ~Has(Anchored(how, value), SqlWild)
<1>1. "*" \in DOMAIN Lower /\ "*" \notin SqlWild
  BY RulesAssumption DEF Wild, SqlWild
<1> DEFINE before == IF how \in {"contains", "endswith"} THEN <<"*">> ELSE <<>>
           after == IF how \in {"contains", "startswith"} THEN <<"*">> ELSE <<>>
<1>2. before \in {<<>>, <<"*">>} /\ after \in {<<>>, <<"*">>}
  OBVIOUS
<1>3. ASSUME NEW s \in {<<>>, <<"*">>} PROVE s \in Text /\ ~Has(s, SqlWild)
  <2>1. CASE s = <<>>
    BY <2>1 DEF Text, Has
  <2>2. CASE s = <<"*">>
    <3>1. s \in Text /\ DOMAIN s = {1} /\ s[1] = "*"
      BY <1>1, <2>2, Singleton DEF Text
    <3> QED
      BY <1>1, <3>1 DEF Has
  <2> QED
    BY <2>1, <2>2
<1>4. Anchored(how, value) = before \o value \o after
  BY DEF Anchored
<1> HIDE DEF before, after
<1>5. ASSUME NEW s \in Text, NEW t \in Text
      PROVE  s \o t \in Text /\ (~Has(s, SqlWild) /\ ~Has(t, SqlWild) => ~Has(s \o t, SqlWild))
  <2>1. s \o t \in Text
    BY DEF Text
  <2>2. ASSUME NEW i \in DOMAIN (s \o t), (s \o t)[i] \in SqlWild
        PROVE  Has(s, SqlWild) \/ Has(t, SqlWild)
    <3>1. Len(s) \in Nat /\ Len(t) \in Nat /\ DOMAIN s = 1..Len(s) /\ DOMAIN t = 1..Len(t)
      BY DEF Text
    <3>2. i \in 1..(Len(s) + Len(t))
      BY <3>1 DEF Text
    <3>3. CASE i <= Len(s)
      <4>1. i \in DOMAIN s /\ s[i] = (s \o t)[i]
        BY <3>1, <3>2, <3>3 DEF Text
      <4> QED
        BY <2>2, <4>1 DEF Has
    <3>4. CASE i > Len(s)
      <4>1. i - Len(s) \in DOMAIN t /\ t[i - Len(s)] = (s \o t)[i]
        BY <3>1, <3>2, <3>4 DEF Text
      <4> QED
        BY <2>2, <4>1 DEF Has
    <3> QED
      BY <3>1, <3>2, <3>3, <3>4
  <2> QED
    BY <2>1, <2>2 DEF Has
<1>6. before \o value \in Text /\ (~Has(value, SqlWild) => ~Has(before \o value, SqlWild))
  BY <1>2, <1>3, <1>5
<1> QED
  BY <1>2, <1>3, <1>4, <1>5, <1>6

---------------------------------------------------------------------------
(* What a compiler renders *)

\* The dialect has an operator for a value of a test, in the mode of the rule.
Speaks(test, value) ==
    /\ dialect \in {"splunk", "elastic", "sentinel"} /\ eval_mode' \in BOOLEAN
    /\ eval_mode' => dialect = "splunk"
    /\ dialect = "splunk" /\ comparison(test) = "re" => eval_mode'
    /\ "cased" \in test.modifiers =>
          comparison(test) # "re" /\ dialect = "sentinel" /\ ~Has(value, Wild)
    /\ eval_mode' /\ comparison(test) # "re" => ~Has(value, SqlWild)

\* A comparison finds the events that have a value the offline matcher accepts.
LEMMA ValueMeans ==
    ASSUME NEW test, NEW value \in Text, NEW e \in Events, Speaks(test, value)
    PROVE  e \in _comparison(test, value) <=>
              \E k \in DOMAIN e.fields[test.field] :
                 _value_matcher(test, value, e.fields[test.field][k])
<1> DEFINE how == comparison(test)
           pattern == Anchored(how, value)
           observed == e.fields[test.field]
<1>0. dialect \in {"splunk", "elastic", "sentinel"} /\ eval_mode' \in BOOLEAN
      /\ (eval_mode' => dialect = "splunk")
      /\ (dialect = "splunk" /\ how = "re" => eval_mode')
      /\ ("cased" \in test.modifiers => how # "re" /\ dialect = "sentinel" /\ ~Has(value, Wild))
      /\ (eval_mode' /\ how # "re" => ~Has(value, SqlWild))
  BY DEF Speaks
<1>a. \A op, p : e \in Atom(op, test.field, p) <=>
                    \E k \in DOMAIN observed : Satisfies(op, p, observed[k])
  BY DEF Atom
<1>b. \A p, t : /\ Satisfies("matches_cs", p, t) <=> Like(p, t, "*", "?")
                /\ Satisfies("matches", p, t) <=> Like(casefold(p), casefold(t), "*", "?")
                /\ Satisfies("like", p, t) <=> Like(casefold(p), casefold(t), "%", "_")
                /\ Satisfies("regex", p, t) <=> Like(casefold(p), casefold(t), ".*", ".")
  BY DEF Satisfies
<1>c. \A op : Native(op, test, value) = Atom(op, test.field, pattern)
  BY DEF Native
<1>d. \A t : _value_matcher(test, value, t) <=>
                IF how = "re" THEN Like(casefold(value), casefold(t), ".*", ".")
                ELSE IF "cased" \in test.modifiers THEN Like(pattern, t, "*", "?")
                ELSE Like(casefold(pattern), casefold(t), "*", "?")
  BY DEF _value_matcher
<1>e. ~Has(value, SqlWild) =>
         \A t : Like(casefold(SqlWildcards(pattern)), t, "%", "_") <=> Like(casefold(pattern), t, "*", "?")
  <2> SUFFICES ASSUME ~Has(value, SqlWild), NEW t
               PROVE  Like(casefold(SqlWildcards(pattern)), t, "%", "_") <=> Like(casefold(pattern), t, "*", "?")
    OBVIOUS
  <2>1. pattern \in Text /\ ~Has(pattern, SqlWild)
    BY AnchoredIsText
  <2> HIDE DEF pattern
  <2> QED
    BY <2>1, SqlMeansTheSame
<1> HIDE DEF how, pattern, observed
<1>1. CASE how = "re"
  <2>1. _comparison(test, value) = Atom("regex", test.field, value)
    BY <1>0, <1>1 DEF _comparison, SplunkComparison, _eval_comparison, ElasticComparison,
       KqlComparison, ModeSet, how
  <2> QED
    BY <1>1, <1>a, <1>b, <1>d, <2>1 DEF observed
<1>2. CASE how # "re" /\ "cased" \in test.modifiers
  <2>1. _comparison(test, value) = Atom("matches_cs", test.field, pattern)
    BY <1>0, <1>2, <1>c DEF _comparison, KqlComparison, how
  <2> QED
    BY <1>2, <1>a, <1>b, <1>d, <2>1 DEF observed
<1>3. CASE how # "re" /\ "cased" \notin test.modifiers /\ eval_mode'
  <2>1. _comparison(test, value) = Atom("like", test.field, SqlWildcards(pattern))
    BY <1>0, <1>3 DEF _comparison, SplunkComparison, _eval_comparison, ModeSet, how, pattern
  <2>2. \A t : Satisfies("like", SqlWildcards(pattern), t) <=> _value_matcher(test, value, t)
    BY <1>0, <1>3, <1>b, <1>d, <1>e
  <2> QED
    BY <1>a, <2>1, <2>2 DEF observed
<1>4. CASE how # "re" /\ "cased" \notin test.modifiers /\ ~eval_mode'
  <2>1. _comparison(test, value) = Atom("matches", test.field, pattern)
    BY <1>0, <1>4, <1>c DEF _comparison, SplunkComparison, ElasticComparison, KqlComparison,
       ModeSet, how
  <2> QED
    BY <1>4, <1>a, <1>b, <1>d, <2>1 DEF observed
<1> QED
  BY <1>0, <1>1, <1>2, <1>3, <1>4

LEMMA NoDomain == DOMAIN <<>> = {}
OBVIOUS

\* So does a test, when it has a value to look for.
LEMMA FieldMeans ==
    ASSUME NEW test \in Test, NEW e \in Events,
           test.values # <<>> \/ "exists" \in test.modifiers,
           test.values # <<Null>> => \A i \in DOMAIN test.values : Speaks(test, test.values[i])
    PROVE  e \in _render_field(test) <=> _build_field_predicate(test, e)
<1> DEFINE observed == e.fields[test.field]
           Matched(i) == \E k \in DOMAIN observed : _value_matcher(test, test.values[i], observed[k])
<1>1. test.want \in BOOLEAN /\ (test.values = <<Null>> \/ test.values \in Seq(Text))
      /\ ("exists" \in test.modifiers /\ test.values = <<Null>> => ~test.want)
  BY DEF Test
<1>2. e \in _exists(test.field) <=> observed # <<>>
  BY DEF _exists
<1>3. CASE test.values = <<Null>>
  BY <1>1, <1>2, <1>3 DEF _render_field, _build_field_predicate, _not
<1>4. CASE test.values # <<Null>> /\ "exists" \in test.modifiers
  BY <1>1, <1>2, <1>4 DEF _render_field, _build_field_predicate, _not
<1>5. CASE test.values # <<Null>> /\ "exists" \notin test.modifiers
  <2> DEFINE clauses == [i \in DOMAIN test.values |-> _comparison(test, test.values[i])]
  <2>1. \A i \in DOMAIN test.values : e \in clauses[i] <=> Matched(i)
    <3> SUFFICES ASSUME NEW i \in DOMAIN test.values
                 PROVE  e \in _comparison(test, test.values[i]) <=> Matched(i)
      OBVIOUS
    <3> DEFINE value == test.values[i]
    <3>1. value \in Text /\ Speaks(test, value)
      BY <1>1, <1>5
    <3> HIDE DEF value
    <3>2. e \in _comparison(test, value) <=>
             \E k \in DOMAIN observed : _value_matcher(test, value, observed[k])
      BY <3>1, ValueMeans
    <3> QED
      BY <3>2 DEF value
  <2>2. DOMAIN clauses = DOMAIN test.values
    OBVIOUS
  <2>3. e \in _render_field(test) <=> IF "all" \in test.modifiers THEN e \in _and(clauses)
                                      ELSE e \in _or(clauses)
    BY <1>5 DEF _render_field
  <2> HIDE DEF clauses
  <2>4. /\ e \in _and(clauses) <=> \A i \in DOMAIN test.values : Matched(i)
        /\ e \in _or(clauses) <=> \E i \in DOMAIN test.values : Matched(i)
    BY <2>1, <2>2 DEF _and, _or
  <2>5. \A i : Matched(i) => observed # <<>>
    <3> SUFFICES ASSUME NEW i, Matched(i) PROVE observed # <<>>
      OBVIOUS
    <3>1. DOMAIN observed # {}
      OBVIOUS
    <3> QED
      BY <3>1, NoDomain
  <2>6. \E i : i \in DOMAIN test.values
    <3>1. test.values \in Seq(Text) /\ test.values # <<>>
      BY <1>1, <1>5
    <3>2. 1 \in DOMAIN test.values
      BY <3>1
    <3> QED
      BY <3>2
  <2>7. _build_field_predicate(test, e) <=>
           /\ observed # <<>>
           /\ IF "all" \in test.modifiers THEN \A i \in DOMAIN test.values : Matched(i)
              ELSE \E i \in DOMAIN test.values : Matched(i)
    BY <1>5 DEF _build_field_predicate
  <2> HIDE DEF Matched, observed
  <2> QED
    BY <2>3, <2>4, <2>5, <2>6, <2>7
<1> QED
  BY <1>3, <1>4, <1>5

\* A selection that can be rendered in the dialect.
Sayable(selection) ==
    /\ selection \in SelectionDef /\ ~Unmatchable(selection)
    /\ eval_mode' => selection.keywords = <<>>
    /\ \A test \in Tests(selection) :
          /\ test \in Test
          /\ test.values # <<>> \/ "exists" \in test.modifiers
          /\ test.values # <<Null>> => \A i \in DOMAIN test.values : Speaks(test, test.values[i])

\* A selection that a dialect can express finds the events it matches.
LEMMA SelectionMeans ==
    ASSUME NEW selection, Sayable(selection), NEW e \in Events
    PROVE  e \in _render_selection(selection) <=> build_selection_predicate(selection, e)
<1> DEFINE alternatives == selection.alternatives
           keywords == selection.keywords
<1>1. /\ alternatives = <<>> \/ keywords = <<>>
      /\ eval_mode' => keywords = <<>>
  BY DEF Sayable, SelectionDef
<1>2. \A a \in DOMAIN alternatives : \A i \in DOMAIN alternatives[a] :
         e \in _render_field(alternatives[a][i]) <=> _build_field_predicate(alternatives[a][i], e)
  <2> SUFFICES ASSUME NEW a \in DOMAIN alternatives, NEW i \in DOMAIN alternatives[a]
               PROVE  e \in _render_field(alternatives[a][i]) <=>
                      _build_field_predicate(alternatives[a][i], e)
    OBVIOUS
  <2> DEFINE test == alternatives[a][i]
  <2>1. test \in Tests(selection)
    BY DEF Tests
  <2> HIDE DEF test
  <2>2. /\ test \in Test /\ (test.values # <<>> \/ "exists" \in test.modifiers)
        /\ test.values # <<Null>> => \A j \in DOMAIN test.values : Speaks(test, test.values[j])
    BY <2>1 DEF Sayable
  <2>3. e \in _render_field(test) <=> _build_field_predicate(test, e)
    BY <2>2, FieldMeans
  <2> QED
    BY <2>3 DEF test
<1>3. CASE alternatives # <<>>
  <2> DEFINE mapping(a) == _and([i \in DOMAIN alternatives[a] |-> _render_field(alternatives[a][i])])
  <2>1. _render_selection(selection) = _or([a \in DOMAIN alternatives |-> mapping(a)])
    BY <1>3 DEF _render_selection
  <2>2. \A a \in DOMAIN alternatives : e \in mapping(a) <=>
           \A i \in DOMAIN alternatives[a] : _build_field_predicate(alternatives[a][i], e)
    BY <1>2 DEF _and
  <2> HIDE DEF mapping
  <2>3. e \in _or([a \in DOMAIN alternatives |-> mapping(a)]) <=>
           \E a \in DOMAIN alternatives : e \in mapping(a)
    BY DEF _or
  <2>4. DOMAIN keywords = {}
    BY <1>1, <1>3, NoDomain
  <2> QED
    BY <2>1, <2>2, <2>3, <2>4 DEF build_selection_predicate
<1>4. CASE alternatives = <<>>
  <2>1. DOMAIN alternatives = {}
    BY <1>4, NoDomain
  <2>2. keywords # <<>>
    BY <1>4 DEF Sayable, Unmatchable
  <2>3. \A i \in DOMAIN keywords : e \in _keyword(keywords[i]) <=> Mentions(e, keywords[i])
    BY <1>1, <2>2 DEF _keyword, ModeSet
  <2>4. e \in _render_selection(selection) <=> \E i \in DOMAIN keywords : e \in _keyword(keywords[i])
    BY <1>4 DEF _render_selection, _or
  <2> QED
    BY <2>1, <2>3, <2>4 DEF build_selection_predicate
<1> QED
  BY <1>3, <1>4

\* So does a condition, when every selection it mentions can be rendered.
LEMMA RenderMeans ==
    ASSUME NEW node \in Tree, NEW e \in Events,
           \A s \in referenced_selections(node) : Sayable(rule.detection[s])
    PROVE  e \in _render(node) <=>
              Holds(node, {s \in SelectionNames : build_selection_predicate(rule.detection[s], e)})
<1> DEFINE T == {s \in SelectionNames : build_selection_predicate(rule.detection[s], e)}
           Fine(n) == \A s \in referenced_selections(n) : Sayable(rule.detection[s])
           S == {d \in Nat : d \in 0..MaxDepth =>
                    \A n \in Nodes[d] : Fine(n) => (e \in _render(n) <=> Holds(n, T))}
<1>1. MaxDepth \in Nat
  BY ConditionAssumption
<1>2. ASSUME NEW n \in Tree, n.op = "ref", Fine(n) PROVE e \in _render(n) <=> Holds(n, T)
  <2>1. n.name \in SelectionNames
    BY <1>2, TreeShape
  <2>2. n.name \in referenced_selections(n)
    BY <1>2, NamesByShape
  <2> DEFINE selection == rule.detection[n.name]
  <2>3. Sayable(selection)
    BY <1>2, <2>2
  <2>4. n.name \in T <=> build_selection_predicate(selection, e)
    BY <2>1
  <2>5. _render(n) = _render_selection(selection)
    BY <1>2, RenderedByShape
  <2> HIDE DEF selection
  <2>6. e \in _render_selection(selection) <=> build_selection_predicate(selection, e)
    BY <2>3, SelectionMeans
  <2> HIDE DEF T
  <2>7. Holds(n, T) <=> n.name \in T
    BY <1>2, HoldsByShape
  <2> QED
    BY <2>4, <2>5, <2>6, <2>7
<1>3. 0 \in S
  <2> SUFFICES ASSUME 0 \in 0..MaxDepth, NEW n \in Nodes[0], Fine(n)
               PROVE  e \in _render(n) <=> Holds(n, T)
    BY <1>1
  <2>1. n.op = "ref"
    BY NodeShape
  <2>2. n \in Tree
    BY <1>1, NodesGrow DEF Tree
  <2> QED
    BY <1>2, <2>1, <2>2
<1>4. ASSUME NEW d \in Nat, d \in S PROVE d + 1 \in S
  <2> SUFFICES ASSUME d + 1 \in 0..MaxDepth, NEW n \in Nodes[d + 1], Fine(n)
               PROVE  e \in _render(n) <=> Holds(n, T)
    OBVIOUS
  <2>1. d \in 0..MaxDepth /\ (d + 1) - 1 = d /\ MaxDepth \in 0..MaxDepth
    BY <1>1
  <2>2. n \in Tree
    BY <2>1, NodesGrow DEF Tree
  <2>3. CASE n.op = "ref"
    BY <1>2, <2>2, <2>3
  <2>4. CASE n.op # "ref"
    <3>1. n.op \in {"not", "and", "or"} /\ \A i \in DOMAIN n.nodes : n.nodes[i] \in Nodes[d]
      BY <2>1, <2>4, NodeShape
    <3>2. n.op = "not" => 1 \in DOMAIN n.nodes
      BY <2>2, TreeShape
    <3>3. ASSUME NEW i \in DOMAIN n.nodes
          PROVE  e \in _render(n.nodes[i]) <=> Holds(n.nodes[i], T)
      <4>1. referenced_selections(n.nodes[i]) \subseteq referenced_selections(n)
        BY <2>2, <2>4, NamesByShape
      <4>2. Fine(n.nodes[i])
        BY <4>1
      <4> QED
        BY <1>4, <2>1, <3>1, <4>2
    <3> HIDE DEF T
    <3>4. CASE n.op = "not"
      <4>1. _render(n) = _not(_render(n.nodes[1])) /\ (Holds(n, T) <=> ~Holds(n.nodes[1], T))
        BY <2>2, <3>4, RenderedByShape, HoldsByShape
      <4> QED
        BY <3>2, <3>3, <3>4, <4>1 DEF _not
    <3>5. CASE n.op = "and"
      <4>1. /\ _render(n) = _and([i \in DOMAIN n.nodes |-> _render(n.nodes[i])])
            /\ Holds(n, T) <=> \A i \in DOMAIN n.nodes : Holds(n.nodes[i], T)
        BY <2>2, <3>5, RenderedByShape, HoldsByShape
      <4> QED
        BY <3>3, <4>1 DEF _and
    <3>6. CASE n.op = "or"
      <4>1. /\ _render(n) = _or([i \in DOMAIN n.nodes |-> _render(n.nodes[i])])
            /\ Holds(n, T) <=> \E i \in DOMAIN n.nodes : Holds(n.nodes[i], T)
        BY <2>2, <3>6, RenderedByShape, HoldsByShape
      <4> QED
        BY <3>3, <4>1 DEF _or
    <3> QED
      BY <3>1, <3>4, <3>5, <3>6
  <2> QED
    BY <2>3, <2>4
<1>5. Nat \subseteq S
  <2> HIDE DEF S
  <2> QED
    BY <1>3, <1>4, Climbs
<1> QED
  <2>1. MaxDepth \in S /\ MaxDepth \in 0..MaxDepth
    BY <1>1, <1>5
  <2> QED
    BY <2>1 DEF Tree

---------------------------------------------------------------------------
(* What a node means *)

\* Selections by name, of which there are some.
Names == {names \in Seq(SelectionNames) : names # <<>>}
NamesOf(names) == {names[i] : i \in DOMAIN names}

\* A pattern expands to selections of the rule, in their order.
LEMMA GlobExpands ==
    ASSUME NEW token
    PROVE  /\ _expand_glob(token) \in Seq(SelectionNames)
           /\ NamesOf(_expand_glob(token)) = Named(token)
           /\ _expand_glob(token) = <<>> <=> Named(token) = {}
<1> DEFINE found == _expand_glob(token)
<1>1. Selections \in Seq(SelectionNames)
  BY ConditionAssumption
<1>2. found \in Seq(SelectionNames) /\ Selection(Selections, Named(token), found, Len(Selections))
  BY <1>1, OnlySelects DEF _expand_glob
<1>3. Named(token) \subseteq SelectionNames
  BY ConditionAssumption DEF Named
<1>4. \A x \in Named(token) : \E i \in 1..Len(Selections) : Selections[i] = x
  BY <1>1, <1>3 DEF SelectionNames
<1> HIDE DEF found
<1>5. NamesOf(found) = Named(token)
  <2>1. DOMAIN found = 1..Len(found)
    BY <1>2
  <2>2. \A a \in 1..Len(found) : found[a] \in Named(token)
    BY <1>2 DEF Selection
  <2>3. \A i \in 1..Len(Selections) : Selections[i] \in Named(token) =>
           \E a \in 1..Len(found) : found[a] = Selections[i]
    BY <1>2 DEF Selection
  <2> QED
    BY <1>4, <2>1, <2>2, <2>3 DEF NamesOf
<1>6. found = <<>> <=> NamesOf(found) = {}
  <2>1. found = <<>> => NamesOf(found) = {}
    BY NoDomain DEF NamesOf
  <2>2. found # <<>> => 1 \in DOMAIN found
    BY <1>2
  <2> QED
    BY <2>1, <2>2 DEF NamesOf
<1> QED
  BY <1>2, <1>5, <1>6 DEF found

\* The selections of a rule, as a sequence, are its selections.
LEMMA SelectionsAre ==
    /\ Selections \in Seq(SelectionNames)
    /\ NamesOf(Selections) = SelectionNames
    /\ Selections = <<>> <=> SelectionNames = {}
<1>1. Selections \in Seq(SelectionNames)
  BY ConditionAssumption
<1>2. NamesOf(Selections) = SelectionNames
  BY DEF NamesOf, SelectionNames
<1>3. Selections # <<>> => 1 \in DOMAIN Selections
  BY <1>1
<1>4. Selections = <<>> => NamesOf(Selections) = {}
  BY NoDomain DEF NamesOf
<1> QED
  BY <1>1, <1>2, <1>3, <1>4 DEF NamesOf

\* What operands mean together.
Combined(op, nodes) ==
    IF op = "and" THEN {T \in All : \A k \in DOMAIN nodes : Holds(nodes[k], T)}
    ELSE {T \in All : \E k \in DOMAIN nodes : Holds(nodes[k], T)}

\* A reference is a tree of any depth.
LEMMA RefIsNode ==
    ASSUME NEW name \in SelectionNames, NEW depth \in 0..MaxDepth
    PROVE  Ref(name) \in Nodes[depth]
<1>1. 0 \in 0..MaxDepth /\ 0 <= depth
  BY ConditionAssumption
<1>2. Nodes[0] \subseteq Nodes[depth]
  BY <1>1, NodesGrow
<1> QED
  BY <1>2, NodesByDepth DEF Leaves

\* The negation of a tree means the complement of what the tree means.
LEMMA NotIsNode ==
    ASSUME NEW depth \in 1..MaxDepth, NEW node \in Nodes[depth - 1]
    PROVE  /\ Not(node) \in Nodes[depth]
           /\ Meaning(Not(node)) = All \ Meaning(node)
<1>1. MaxDepth \in Nat
  BY ConditionAssumption
<1>2. Not(node) \in Negations(Nodes[depth - 1])
  <2> DEFINE kids == <<node>>
  <2>1. kids \in [1..1 -> Nodes[depth - 1]]
    OBVIOUS
  <2> HIDE DEF kids
  <2>2. [op |-> "not", name |-> "", nodes |-> kids] \in Negations(Nodes[depth - 1])
    BY <2>1 DEF Negations
  <2> QED
    BY <2>2 DEF Not, kids
<1>3. Not(node) \in Nodes[depth]
  BY <1>2, NodesByDepth
<1>4. Not(node) \in Tree
  BY <1>1, <1>3, NodesGrow DEF Tree
<1>5. Not(node).op = "not" /\ Not(node).nodes[1] = node
  BY DEF Not
<1>6. \A T : Holds(Not(node), T) <=> ~Holds(node, T)
  BY <1>4, <1>5, HoldsByShape
<1> QED
  BY <1>3, <1>6 DEF Meaning

\* Operands joined by an operator are one tree, and it means their combination.
LEMMA JoinedIsNode ==
    ASSUME NEW op \in {"and", "or"}, NEW depth \in 1..MaxDepth,
           NEW nodes \in Seq(Nodes[depth - 1]), nodes # <<>>
    PROVE  /\ Joined(op, nodes) \in Nodes[depth]
           /\ Meaning(Joined(op, nodes)) = Combined(op, nodes)
<1>1. MaxDepth \in Nat
  BY ConditionAssumption
<1>2. CASE Len(nodes) = 1
  <2>1. DOMAIN nodes = {1} /\ nodes[1] \in Nodes[depth - 1]
    BY <1>2
  <2>2. Joined(op, nodes) = nodes[1]
    BY <1>2 DEF Joined
  <2>3. nodes[1] \in Nodes[depth]
    BY <1>1, <2>1, NodesGrow
  <2>4. Meaning(nodes[1]) = Combined(op, nodes)
    BY <2>1 DEF Meaning, Combined
  <2> QED
    BY <2>2, <2>3, <2>4
<1>3. CASE Len(nodes) # 1
  <2> DEFINE node == [op |-> op, name |-> "", nodes |-> nodes]
  <2>1. Joined(op, nodes) = node
    BY <1>3 DEF Joined
  <2>2. node \in Junctions(Nodes[depth - 1])
    BY DEF Junctions
  <2>3. node \in Nodes[depth]
    BY <2>2, NodesByDepth
  <2>4. node \in Tree
    <3>1. Nodes[depth] \subseteq Tree
      BY <1>1, NodesGrow DEF Tree
    <3> HIDE DEF node
    <3> QED
      BY <2>3, <3>1
  <2>5. node.op = op /\ node.nodes = nodes
    OBVIOUS
  <2> HIDE DEF node
  <2>6. \A T : /\ op = "and" => (Holds(node, T) <=> \A k \in DOMAIN nodes : Holds(nodes[k], T))
               /\ op = "or" => (Holds(node, T) <=> \E k \in DOMAIN nodes : Holds(nodes[k], T))
    BY <2>4, <2>5, HoldsByShape
  <2>7. Meaning(node) = Combined(op, nodes)
    BY <2>6 DEF Meaning, Combined
  <2> QED
    BY <2>1, <2>3, <2>7
<1> QED
  BY <1>2, <1>3

\* A chain means what its first operand and the rest of it do.
LEMMA CombinedSplits ==
    ASSUME NEW op \in {"and", "or"}, NEW D, NEW first \in Seq(D), Len(first) = 1, NEW others \in Seq(D)
    PROVE  Combined(op, first \o others) = Both(op, Meaning(first[1]), Combined(op, others))
<1> DEFINE nodes == first \o others
<1>1. Len(others) \in Nat /\ DOMAIN others = 1..Len(others)
  OBVIOUS
<1>2. /\ DOMAIN nodes = 1..(1 + Len(others)) /\ nodes[1] = first[1]
      /\ \A k \in 1..Len(others) : nodes[k + 1] = others[k]
  <2>1. /\ nodes \in Seq(D) /\ Len(nodes) = Len(first) + Len(others)
        /\ \A k \in 1..(Len(first) + Len(others)) :
              nodes[k] = IF k <= Len(first) THEN first[k] ELSE others[k - Len(first)]
    BY ConcatProperties
  <2> HIDE DEF nodes
  <2>2. nodes[1] = first[1]
    BY <1>1, <2>1
  <2>3. ASSUME NEW k \in 1..Len(others) PROVE nodes[k + 1] = others[k]
    <3>1. k + 1 \in 1..(Len(first) + Len(others)) /\ ~(k + 1 <= Len(first)) /\ (k + 1) - Len(first) = k
      BY <1>1
    <3> QED
      BY <2>1, <3>1
  <2> QED
    BY <1>1, <2>1, <2>2, <2>3
<1> HIDE DEF nodes
<1>3. \A k \in DOMAIN nodes : k = 1 \/ (k - 1 \in DOMAIN others /\ nodes[k] = others[k - 1])
  <2> SUFFICES ASSUME NEW k \in DOMAIN nodes, k # 1
               PROVE  k - 1 \in DOMAIN others /\ nodes[k] = others[k - 1]
    OBVIOUS
  <2>1. k - 1 \in 1..Len(others) /\ (k - 1) + 1 = k
    BY <1>1, <1>2
  <2> QED
    BY <1>1, <1>2, <2>1
<1>4. \A k \in DOMAIN others : k + 1 \in DOMAIN nodes /\ nodes[k + 1] = others[k]
  BY <1>1, <1>2
<1>5. 1 \in DOMAIN nodes
  BY <1>1, <1>2
<1>6. \A T : /\ (\A k \in DOMAIN nodes : Holds(nodes[k], T)) <=>
                   Holds(first[1], T) /\ \A k \in DOMAIN others : Holds(others[k], T)
             /\ (\E k \in DOMAIN nodes : Holds(nodes[k], T)) <=>
                   Holds(first[1], T) \/ \E k \in DOMAIN others : Holds(others[k], T)
  <2> SUFFICES ASSUME NEW T
               PROVE  /\ (\A k \in DOMAIN nodes : Holds(nodes[k], T)) <=>
                            Holds(first[1], T) /\ \A k \in DOMAIN others : Holds(others[k], T)
                      /\ (\E k \in DOMAIN nodes : Holds(nodes[k], T)) <=>
                            Holds(first[1], T) \/ \E k \in DOMAIN others : Holds(others[k], T)
    OBVIOUS
  <2> QED
    BY <1>2, <1>3, <1>4, <1>5
<1> QED
  <2>1. CASE op = "and"
    BY <1>6, <2>1 DEF Combined, Both, Meaning, nodes
  <2>2. CASE op = "or"
    BY <1>6, <2>2 DEF Combined, Both, Meaning, nodes
  <2> QED
    BY <2>1, <2>2

\* A quantifier is a node over references, and means what it says.
LEMMA QuantifierIsNode ==
    ASSUME NEW names \in Names, MaxDepth >= 1
    PROVE  /\ \A op \in {"and", "or"} : Joined(op, Refs(names)) \in Nodes[1]
           /\ Meaning(Joined("and", Refs(names))) = Quantified("all", NamesOf(names))
           /\ Meaning(Joined("or", Refs(names))) = Quantified("1", NamesOf(names))
<1>1. MaxDepth \in Nat /\ 0 \in 0..MaxDepth /\ 1 \in 1..MaxDepth /\ 1 - 1 = 0
  BY ConditionAssumption
<1>2. names \in Seq(SelectionNames) /\ names # <<>>
  BY DEF Names
<1> DEFINE nodes == Refs(names)
<1>3. nodes \in Seq(Nodes[0]) /\ DOMAIN nodes = DOMAIN names
  <2>1. \A i \in DOMAIN names : Ref(names[i]) \in Nodes[0]
    BY <1>1, <1>2, RefIsNode
  <2> QED
    BY <1>2, <2>1 DEF Refs
<1>4. nodes # <<>>
  <2>1. 1 \in DOMAIN names
    BY <1>2
  <2> QED
    BY <1>3, <2>1, NoDomain
<1>5. \A i \in DOMAIN nodes : \A T : Holds(nodes[i], T) <=> names[i] \in T
  <2> SUFFICES ASSUME NEW i \in DOMAIN names, NEW T PROVE Holds(Ref(names[i]), T) <=> names[i] \in T
    BY <1>3 DEF Refs
  <2>1. names[i] \in SelectionNames
    BY <1>2
  <2>2. Ref(names[i]) \in Tree
    BY <1>1, <2>1, RefIsNode DEF Tree
  <2>3. Ref(names[i]).op = "ref" /\ Ref(names[i]).name = names[i]
    BY DEF Ref
  <2> QED
    BY <2>2, <2>3, HoldsByShape
<1> HIDE DEF nodes
<1>6. \A op \in {"and", "or"} : Joined(op, nodes) \in Nodes[1]
                                 /\ Meaning(Joined(op, nodes)) = Combined(op, nodes)
  BY <1>1, <1>3, <1>4, JoinedIsNode
<1>7. Combined("and", nodes) = Quantified("all", NamesOf(names))
  BY <1>3, <1>5 DEF Combined, Quantified, NamesOf
<1>8. Combined("or", nodes) = Quantified("1", NamesOf(names))
  <2>1. \A T \in All : (\E k \in DOMAIN nodes : Holds(nodes[k], T)) <=> NamesOf(names) \cap T # {}
    BY <1>3, <1>5 DEF NamesOf
  <2> QED
    BY <2>1 DEF Combined, Quantified
<1> QED
  BY <1>6, <1>7, <1>8 DEF nodes

---------------------------------------------------------------------------
(* What recurs over the positions of a condition *)

\* One step of the parser, or of the grammar.
StepFrom(which, tokens, i, rest) ==
    IF which = "parser" THEN ParsedFrom(tokens, i, rest) ELSE DerivedFrom(tokens, i, rest)

\* f holds what is read from each position, first being the earliest.
ReadFrom(which, tokens, last, first, f) ==
    f = [i \in first..last |-> StepFrom(which, tokens, i, [k \in (i + 1)..last |-> f[k]])]

\* A recursion over positions, from the last one down, has a solution.
LEMMA ReadingExists ==
    ASSUME NEW which, NEW tokens, NEW last \in Nat
    PROVE  \E f : ReadFrom(which, tokens, last, 1, f)
<1> DEFINE S == {m \in Nat : m <= last => \E f : ReadFrom(which, tokens, last, (last - m) + 1, f)}
           At(f, i) == StepFrom(which, tokens, i, [k \in (i + 1)..last |-> f[k]])
<1>1. 0 \in S
  <2> DEFINE g == [i \in (last + 1)..last |-> 0]
  <2>1. (last - 0) + 1 = last + 1 /\ \A i : i \notin (last + 1)..last
    OBVIOUS
  <2>2. g = [i \in (last + 1)..last |-> At(g, i)]
    <3> HIDE DEF At
    <3> QED
      BY <2>1
  <2>3. ReadFrom(which, tokens, last, last + 1, g)
    BY <2>2 DEF ReadFrom
  <2> HIDE DEF g
  <2> QED
    BY <2>1, <2>3
<1>2. ASSUME NEW m \in Nat, m \in S PROVE m + 1 \in S
  <2> SUFFICES ASSUME m + 1 <= last
               PROVE  \E f : ReadFrom(which, tokens, last, (last - (m + 1)) + 1, f)
    OBVIOUS
  <2> DEFINE p == last - m
  <2>1. p \in Nat /\ p <= last /\ (last - m) + 1 = p + 1 /\ (last - (m + 1)) + 1 = p
    OBVIOUS
  <2>2. PICK f : ReadFrom(which, tokens, last, p + 1, f)
    BY <1>2, <2>1
  <2> HIDE DEF p
  <2> DEFINE g == [i \in p..last |-> IF i = p THEN At(f, p) ELSE f[i]]
  <2>3. f = [i \in (p + 1)..last |-> At(f, i)]
    BY <2>2 DEF ReadFrom
  <2>4. \A i \in p..last : g[i] = At(f, i)
    <3> SUFFICES ASSUME NEW i \in p..last PROVE g[i] = At(f, i)
      OBVIOUS
    <3> HIDE DEF At
    <3>1. CASE i = p
      BY <3>1
    <3>2. CASE i # p
      <4>1. i \in (p + 1)..last
        BY <2>1, <3>2
      <4> QED
        BY <2>3, <3>2, <4>1
    <3> QED
      BY <3>1, <3>2
  <2>5. \A i \in p..last : At(g, i) = At(f, i)
    <3> SUFFICES ASSUME NEW i \in p..last
                 PROVE  [k \in (i + 1)..last |-> g[k]] = [k \in (i + 1)..last |-> f[k]]
      BY Zenon
    <3>1. \A k \in (i + 1)..last : k \in p..last /\ k # p
      BY <2>1
    <3> HIDE DEF At
    <3>2. \A k \in (i + 1)..last : g[k] = f[k]
      BY <3>1
    <3> HIDE DEF g
    <3> QED
      BY <3>2
  <2>6. g = [i \in p..last |-> At(g, i)]
    <3>1. g = [i \in p..last |-> g[i]]
      <4> HIDE DEF At
      <4> QED
        OBVIOUS
    <3> HIDE DEF g, At
    <3> QED
      BY <2>4, <2>5, <3>1
  <2> HIDE DEF g
  <2>7. ReadFrom(which, tokens, last, p, g)
    BY <2>6 DEF ReadFrom
  <2> QED
    BY <2>1, <2>7
<1>3. last \in S
  <2> HIDE DEF S
  <2> QED
    BY <1>1, <1>2, Climbs
<1> QED
  <2>1. (last - last) + 1 = 1
    OBVIOUS
  <2> QED
    BY <1>3, <2>1

\* The parser and the grammar, in terms of what is read from each position.
LEMMA ParserReads ==
    ASSUME NEW tokens, Len(tokens) \in Nat
    PROVE  \E P :
              /\ \A i \in 1..(Len(tokens) + 1) :
                    P[i] = ParsedFrom(tokens, i, [k \in (i + 1)..(Len(tokens) + 1) |-> P[k]])
              /\ parse_condition(tokens) =
                    IF Single("or", P[1]["or"]).index = Len(tokens) + 1
                    THEN Single("or", P[1]["or"]) ELSE ConditionError
<1> DEFINE last == Len(tokens) + 1
           Is(f) == f = [i \in 1..last |-> ParsedFrom(tokens, i, [k \in (i + 1)..last |-> f[k]])]
           P == CHOOSE f : Is(f)
<1>1. \E f : ReadFrom("parser", tokens, last, 1, f)
  <2>1. last \in Nat
    OBVIOUS
  <2> HIDE DEF last
  <2> QED
    BY <2>1, ReadingExists
<1>2. \A f : ReadFrom("parser", tokens, last, 1, f) <=> Is(f)
  BY DEF ReadFrom, StepFrom
<1>3. Is(P)
  <2>1. \E f : Is(f)
    BY <1>1, <1>2
  <2> HIDE DEF Is
  <2> QED
    BY <2>1
<1>4. parse_condition(tokens) =
         IF Single("or", P[1]["or"]).index = last THEN Single("or", P[1]["or"]) ELSE ConditionError
  BY Zenon DEF parse_condition
<1> HIDE DEF P
<1>5. \A i \in 1..last : P[i] = ParsedFrom(tokens, i, [k \in (i + 1)..last |-> P[k]])
  BY <1>3
<1> QED
  BY <1>4, <1>5

\* What the grammar derives, as a function on positions.
LEMMA GrammarReads ==
    ASSUME NEW tokens, Len(tokens) \in Nat
    PROVE  \E D :
              /\ \A i \in 1..Len(tokens) :
                    D[i] = DerivedFrom(tokens, i, [k \in (i + 1)..Len(tokens) |-> D[k]])
              /\ Expression(tokens) = IF tokens = <<>> THEN {} ELSE D[1]["or"][Len(tokens)]
<1> DEFINE last == Len(tokens)
           Is(f) == f = [i \in 1..last |-> DerivedFrom(tokens, i, [k \in (i + 1)..last |-> f[k]])]
           D == CHOOSE f : Is(f)
<1>1. \E f : ReadFrom("grammar", tokens, last, 1, f)
  BY ReadingExists
<1>2. \A f : ReadFrom("grammar", tokens, last, 1, f) <=> Is(f)
  BY DEF ReadFrom, StepFrom
<1>3. Is(D)
  <2>1. \E f : Is(f)
    BY <1>1, <1>2
  <2> HIDE DEF Is
  <2> QED
    BY <2>1
<1>4. Expression(tokens) = IF tokens = <<>> THEN {} ELSE D[1]["or"][last]
  BY Zenon DEF Expression
<1> HIDE DEF D
<1>5. \A i \in 1..last : D[i] = DerivedFrom(tokens, i, [k \in (i + 1)..last |-> D[k]])
  BY <1>3
<1> QED
  BY <1>4, <1>5

---------------------------------------------------------------------------
(* What the parser returns *)

\* A result of the parser: an error, or operands of at most a given depth and an
\* index beyond the one it started at.
Reads(result, i, last, depth) ==
    \/ result = ConditionError
    \/ /\ result.index \in (i + 1)..last
       /\ result.nodes \in Seq(Nodes[depth]) /\ result.nodes # <<>>

ReadsOne(result, i, last, depth) ==
    Reads(result, i, last, depth) /\ (~Failed(result) => Len(result.nodes) = 1)

\* The deeper a tree, the more tokens it takes: two more for a level, at least.
ReadsFrom(entry, i, last) ==
    /\ ReadsOne(entry["not"], i, last, 2 * (last - i) - 1)
    /\ Reads(entry["and"], i, last, 2 * (last - i) - 1)
    /\ Reads(entry["or"], i, last, 2 * (last - i))

LEMMA ErrorReads ==
    /\ Failed(ConditionError) /\ ConditionError.index = 0
    /\ \A i, last, depth : ReadsOne(ConditionError, i, last, depth)
BY DEF ConditionError, Parsed, Failed, ReadsOne, Reads

\* A single tree is a well-formed result of reading.
LEMMA NodeReads ==
    ASSUME NEW i \in Nat, NEW last \in Nat, NEW depth, NEW node \in Nodes[depth],
           NEW index \in (i + 1)..last
    PROVE  /\ ReadsOne(Parsed(<<node>>, index), i, last, depth)
           /\ ~Failed(Parsed(<<node>>, index))
           /\ Parsed(<<node>>, index).nodes[1] = node /\ Parsed(<<node>>, index).index = index
<1> DEFINE result == Parsed(<<node>>, index)
<1>1. result.nodes = <<node>> /\ result.index = index
  BY DEF Parsed
<1>2. <<node>> \in Seq(Nodes[depth]) /\ Len(<<node>>) = 1 /\ <<node>>[1] = node /\ <<node>> # <<>>
  <2>1. <<node>> \in Seq(Nodes[depth]) /\ Len(<<node>>) = 1 /\ <<node>>[1] = node
    BY Singleton
  <2> QED
    BY <2>1
<1> HIDE DEF result
<1>3. ~Failed(result)
  BY <1>1 DEF Failed
<1>4. result.nodes \in Seq(Nodes[depth]) /\ result.nodes # <<>> /\ Len(result.nodes) = 1
      /\ result.nodes[1] = node
  BY <1>1, <1>2
<1>5. ReadsOne(result, i, last, depth)
  BY <1>1, <1>4 DEF ReadsOne, Reads
<1> QED
  BY <1>1, <1>3, <1>4, <1>5 DEF result

\* What is read within a depth is read within any larger one.
LEMMA Deeper ==
    ASSUME NEW i \in Nat, NEW j \in Nat, j <= i, NEW last \in Nat, NEW result,
           NEW a \in 0..MaxDepth, NEW b \in 0..MaxDepth, a <= b, Reads(result, i, last, a)
    PROVE  Reads(result, j, last, b)
<1>1. Nodes[a] \subseteq Nodes[b]
  BY NodesGrow
<1>2. CASE result = ConditionError
  BY <1>2 DEF Reads
<1>3. CASE result.index \in (i + 1)..last /\ result.nodes \in Seq(Nodes[a]) /\ result.nodes # <<>>
  <2>1. result.nodes \in Seq(Nodes[b])
    BY <1>1, <1>3
  <2>2. result.index \in (j + 1)..last
    BY <1>3
  <2> QED
    BY <1>3, <2>1, <2>2 DEF Reads
<1> QED
  BY <1>2, <1>3 DEF Reads

\* The one node for the operands of a chain.
LEMMA SingleReads ==
    ASSUME NEW op \in {"and", "or"}, NEW i \in Nat, NEW last \in Nat,
           NEW depth \in 1..MaxDepth, NEW result, Reads(result, i, last, depth - 1)
    PROVE  /\ ReadsOne(Single(op, result), i, last, depth)
           /\ Single(op, result).index = result.index
           /\ Failed(Single(op, result)) <=> Failed(result)
           /\ ~Failed(result) => Meaning(Single(op, result).nodes[1]) = Combined(op, result.nodes)
<1>1. CASE result = ConditionError
  <2>1. Single(op, result) = ConditionError
    BY <1>1, ErrorReads DEF Single
  <2> QED
    BY <1>1, <2>1, ErrorReads
<1>2. CASE result # ConditionError
  <2>1. /\ result.index \in (i + 1)..last
        /\ result.nodes \in Seq(Nodes[depth - 1]) /\ result.nodes # <<>>
    BY <1>2 DEF Reads
  <2>2. ~Failed(result)
    BY <2>1 DEF Failed
  <2> DEFINE node == Joined(op, result.nodes)
             index == result.index
  <2>3. node \in Nodes[depth] /\ Meaning(node) = Combined(op, result.nodes)
    BY <2>1, JoinedIsNode
  <2>4. Single(op, result) = Parsed(<<node>>, index)
    BY <2>2 DEF Single
  <2>5. node \in Nodes[depth] /\ index \in (i + 1)..last /\ index = result.index
    BY <2>1, <2>3
  <2> HIDE DEF node, index
  <2>6. /\ ReadsOne(Parsed(<<node>>, index), i, last, depth)
        /\ ~Failed(Parsed(<<node>>, index))
        /\ Parsed(<<node>>, index).nodes[1] = node /\ Parsed(<<node>>, index).index = index
    BY <2>5, NodeReads
  <2> QED
    BY <2>2, <2>3, <2>4, <2>5, <2>6
<1> QED
  BY <1>1, <1>2

\* What "them" or a pattern stands for in a quantifier.
Counted(target) == IF target = "them" THEN SelectionNames ELSE Named(target)

\* What a quantifier is read as, and what it means.
LEMMA QuantifierReads ==
    ASSUME NEW quantity, NEW tokens, NEW index \in Nat, NEW i \in Nat, NEW last \in Nat,
           NEW depth \in 1..MaxDepth,
           NEW target, target = current(tokens, index + 1),
           target # "end" => index + 2 \in (i + 1)..last,
           NEW result, result = parse_quantifier(quantity, tokens, index)
    PROVE  /\ ReadsOne(result, i, last, depth)
           /\ ~Failed(result) <=> current(tokens, index) = "of" /\ Counted(target) # {}
                                  /\ quantity \in {"all", "1"}
           /\ ~Failed(result) => result.index = index + 2
                                 /\ Meaning(result.nodes[1]) = Quantified(quantity, Counted(target))
<1> DEFINE names == Counted(target)
           list == IF target = "them" THEN Selections ELSE _expand_glob(target)
           op == IF quantity = "all" THEN "and" ELSE "or"
           node == Joined(op, Refs(list))
<1>1. /\ list \in Seq(SelectionNames) /\ NamesOf(list) = names
      /\ list = <<>> <=> names = {}
  <2>1. CASE target = "them"
    BY <2>1, SelectionsAre DEF Counted
  <2>2. CASE target # "them"
    BY <2>2, GlobExpands DEF Counted
  <2> QED
    BY <2>1, <2>2
<1>2. result = IF current(tokens, index) # "of" \/ list = <<>> \/ quantity \notin {"all", "1"}
               THEN ConditionError ELSE Parsed(<<node>>, index + 2)
  BY DEF parse_quantifier
<1>3. names # {} => target # "end"
  <2>1. "end" \in Marks /\ "end" \notin Patterns
    BY ConditionAssumption DEF Marks
  <2>2. Named("end") = {}
    BY <2>1 DEF Named
  <2> QED
    BY <2>2 DEF Counted
<1> HIDE DEF names, list
<1>4. CASE current(tokens, index) # "of" \/ list = <<>> \/ quantity \notin {"all", "1"}
  <2>1. result = ConditionError
    BY <1>2, <1>4
  <2>2. ReadsOne(result, i, last, depth) /\ Failed(result)
    BY <2>1, ErrorReads
  <2> QED
    BY <1>1, <1>4, <2>2 DEF names
<1>5. CASE ~(current(tokens, index) # "of" \/ list = <<>> \/ quantity \notin {"all", "1"})
  <2>1. list \in Names /\ MaxDepth \in Nat /\ MaxDepth >= 1
    BY <1>1, <1>5, ConditionAssumption DEF Names
  <2>2. node \in Nodes[1] /\ Meaning(node) = Quantified(quantity, names)
    <3>1. /\ \A o \in {"and", "or"} : Joined(o, Refs(list)) \in Nodes[1]
          /\ Meaning(Joined("and", Refs(list))) = Quantified("all", NamesOf(list))
          /\ Meaning(Joined("or", Refs(list))) = Quantified("1", NamesOf(list))
      BY <2>1, QuantifierIsNode
    <3>2. CASE quantity = "all"
      BY <1>1, <3>1, <3>2
    <3>3. CASE quantity = "1"
      BY <1>1, <3>1, <3>3
    <3> QED
      BY <1>5, <3>2, <3>3
  <2> HIDE DEF node
  <2>3. node \in Nodes[depth]
    <3>1. 1 \in 0..MaxDepth /\ depth \in 0..MaxDepth /\ 1 <= depth
      BY <2>1
    <3> QED
      BY <2>2, <3>1, NodesGrow
  <2>4. index + 2 \in (i + 1)..last
    BY <1>1, <1>3, <1>5
  <2>5. result = Parsed(<<node>>, index + 2)
    BY <1>2, <1>5
  <2>6. ReadsOne(result, i, last, depth) /\ ~Failed(result) /\ result.index = index + 2
        /\ result.nodes[1] = node
    <3> DEFINE after == index + 2
    <3>1. after \in (i + 1)..last /\ result = Parsed(<<node>>, after)
      BY <2>4, <2>5
    <3> HIDE DEF after
    <3>2. ReadsOne(Parsed(<<node>>, after), i, last, depth) /\ ~Failed(Parsed(<<node>>, after))
          /\ Parsed(<<node>>, after).index = after /\ Parsed(<<node>>, after).nodes[1] = node
      BY <2>3, <3>1, NodeReads
    <3> QED
      BY <3>1, <3>2 DEF after
  <2> QED
    BY <1>1, <1>5, <2>2, <2>6 DEF names
<1> QED
  BY <1>4, <1>5

\* What a name is read as, and what it means.
LEMMA ReferenceReads ==
    ASSUME NEW name, NEW index \in Nat, NEW i \in Nat, NEW last \in Nat, NEW depth \in 1..MaxDepth,
           index \in (i + 1)..last,
           name \notin KEYWORDS \cup Numbers \cup Marks
    PROVE  LET result == resolve_reference(name, index)
           IN  /\ ReadsOne(result, i, last, depth)
               /\ ~Failed(result) <=> IDENT(name) # {}
               /\ ~Failed(result) => result.index = index
                                     /\ Meaning(result.nodes[1]) = Quantified("all", IDENT(name))
<1> DEFINE list == IF name \in SelectionNames THEN <<name>> ELSE _expand_glob(name)
           result == resolve_reference(name, index)
           node == Joined("and", Refs(list))
<1>1. /\ list \in Seq(SelectionNames) /\ NamesOf(list) = IDENT(name)
      /\ list = <<>> <=> IDENT(name) = {}
  <2>1. CASE name \in SelectionNames
    <3>1. list = <<name>> /\ IDENT(name) = {name}
      BY <2>1 DEF IDENT
    <3> HIDE DEF list
    <3>2. <<name>> \in Seq(SelectionNames) /\ NamesOf(<<name>>) = {name} /\ <<name>> # <<>>
      BY <2>1, Singleton DEF NamesOf
    <3> QED
      BY <3>1, <3>2
  <2>2. CASE name \notin SelectionNames
    <3>1. list = _expand_glob(name) /\ IDENT(name) = Named(name)
      BY <2>2 DEF IDENT
    <3> HIDE DEF list
    <3> QED
      BY <3>1, GlobExpands
  <2> QED
    BY <2>1, <2>2
<1>2. result = IF list = <<>> THEN ConditionError ELSE Parsed(<<node>>, index)
  BY DEF resolve_reference
<1> HIDE DEF list, result
<1>3. CASE list = <<>>
  <2>1. ReadsOne(result, i, last, depth) /\ Failed(result)
    BY <1>2, <1>3, ErrorReads
  <2> QED
    BY <1>1, <1>3, <2>1 DEF result
<1>4. CASE list # <<>>
  <2>1. list \in Names /\ MaxDepth \in Nat /\ MaxDepth >= 1
    BY <1>1, <1>4, ConditionAssumption DEF Names
  <2>2. node \in Nodes[1] /\ Meaning(node) = Quantified("all", IDENT(name))
    BY <1>1, <2>1, QuantifierIsNode
  <2> HIDE DEF node
  <2>3. node \in Nodes[depth]
    <3>1. 1 \in 0..MaxDepth /\ depth \in 0..MaxDepth /\ 1 <= depth
      BY <2>1
    <3> QED
      BY <2>2, <3>1, NodesGrow
  <2>4. result = Parsed(<<node>>, index)
    BY <1>2, <1>4
  <2>5. ReadsOne(result, i, last, depth) /\ ~Failed(result) /\ result.index = index
        /\ result.nodes[1] = node
    BY <2>3, <2>4, NodeReads
  <2> QED
    BY <1>1, <1>4, <2>2, <2>5 DEF result
<1> QED
  BY <1>3, <1>4

Reserved == {"and", "or", "not", "of", "them", ")", "end"}

\* A token that begins nothing else is a name.
LEMMA OtherIsName ==
    ASSUME NEW token, token \notin Reserved \cup {"(", "all", "1", "2"}
    PROVE  token \notin KEYWORDS \cup Numbers \cup Marks
BY DEF Reserved, KEYWORDS, Numbers, Marks

\* What an atom is read as depends on its first token.
LEMMA AtomByToken ==
    ASSUME NEW tokens, NEW i, NEW rest
    PROVE  LET token == current(tokens, i)
               inner == Single("or", rest[i + 1]["or"])
               result == parse_atom(tokens, i, rest)
           IN  /\ token = "(" => result = IF ~Failed(inner) /\ current(tokens, inner.index) = ")"
                                          THEN Parsed(inner.nodes, inner.index + 1) ELSE ConditionError
               /\ token \in {"all", "1", "2"} => result = parse_quantifier(token, tokens, i + 1)
               /\ token \in Reserved => result = ConditionError
               /\ token \notin Reserved \cup {"(", "all", "1", "2"} =>
                     result = resolve_reference(token, i + 1)
<1> DEFINE token == current(tokens, i)
           inner == Single("or", rest[i + 1]["or"])
<1>1. parse_atom(tokens, i, rest) =
         CASE token = "(" -> IF ~Failed(inner) /\ current(tokens, inner.index) = ")"
                             THEN Parsed(inner.nodes, inner.index + 1) ELSE ConditionError
           [] token \in {"all", "1", "2"} -> parse_quantifier(token, tokens, i + 1)
           [] token \in Reserved -> ConditionError
           [] OTHER -> resolve_reference(token, i + 1)
  <2>1. {"all"} \cup Numbers = {"all", "1", "2"} /\ (KEYWORDS \cup Marks) \ {"all", "("} = Reserved
    BY DEF Numbers, KEYWORDS, Marks, Reserved
  <2> QED
    BY <2>1, Zenon DEF parse_atom
<1> HIDE DEF token, inner
<1>2. CASE token = "("
  BY <1>1, <1>2 DEF Reserved, token, inner
<1>3. CASE token \in {"all", "1", "2"}
  BY <1>1, <1>3 DEF Reserved, token, inner
<1>4. CASE token \in Reserved
  BY <1>1, <1>4 DEF Reserved, token, inner
<1>5. CASE token \notin Reserved \cup {"(", "all", "1", "2"}
  BY <1>1, <1>5 DEF token, inner
<1> QED
  BY <1>2, <1>3, <1>4, <1>5 DEF token, inner

\* What an atom is read as is well-formed, if what is read to its right is.
LEMMA AtomReads ==
    ASSUME NEW tokens, Len(tokens) \in Nat, 2 * Len(tokens) < MaxDepth,
           NEW i \in 1..(Len(tokens) + 1), NEW rest,
           \A k \in (i + 1)..(Len(tokens) + 1) : ReadsFrom(rest[k], k, Len(tokens) + 1)
    PROVE  ReadsOne(parse_atom(tokens, i, rest), i, Len(tokens) + 1, 2 * ((Len(tokens) + 1) - i) - 1)
<1> DEFINE last == Len(tokens) + 1
           depth == 2 * (last - i) - 1
           token == current(tokens, i)
           inner == Single("or", rest[i + 1]["or"])
           result == parse_atom(tokens, i, rest)
<1>1. MaxDepth \in Nat /\ i \in Nat /\ i + 1 \in Nat /\ last \in Nat
  BY ConditionAssumption
<1>2. /\ token = "(" => result = IF ~Failed(inner) /\ current(tokens, inner.index) = ")"
                                 THEN Parsed(inner.nodes, inner.index + 1) ELSE ConditionError
      /\ token \in {"all", "1", "2"} => result = parse_quantifier(token, tokens, i + 1)
      /\ token \in Reserved => result = ConditionError
      /\ token \notin Reserved \cup {"(", "all", "1", "2"} => result = resolve_reference(token, i + 1)
  BY AtomByToken
<1>3. CASE i = last
  <2>1. token = "end"
    BY <1>1, <1>3 DEF current
  <2>2. result = ConditionError
    BY <1>2, <2>1 DEF Reserved
  <2> QED
    BY <2>2, ErrorReads
<1>4. CASE i # last
  <2>1. i + 1 \in (i + 1)..last /\ depth \in 1..MaxDepth
    BY <1>1, <1>4
  <2>2. CASE token = "("
    <3>1. Reads(rest[i + 1]["or"], i + 1, last, 2 * (last - (i + 1)))
      BY <2>1 DEF ReadsFrom
    <3>2. 2 * (last - (i + 1)) = depth - 1
      BY <1>1
    <3>3. ReadsOne(inner, i + 1, last, depth)
      <4>1. Reads(rest[i + 1]["or"], i + 1, last, depth - 1)
        BY <3>1, <3>2
      <4> HIDE DEF depth, inner, last
      <4>2. ReadsOne(Single("or", rest[i + 1]["or"]), i + 1, last, depth)
        BY <1>1, <2>1, <4>1, SingleReads
      <4> QED
        BY <4>2 DEF inner
    <3> HIDE DEF depth, inner, result, token
    <3>4. CASE ~Failed(inner) /\ current(tokens, inner.index) = ")"
      <4>1. /\ inner.index \in (i + 2)..last /\ inner.nodes \in Seq(Nodes[depth])
            /\ inner.nodes # <<>> /\ Len(inner.nodes) = 1
        BY <1>1, <3>3, <3>4, ErrorReads DEF ReadsOne, Reads
      <4>2. inner.index # last
        BY <1>1, <3>4 DEF current
      <4>3. inner.index + 1 \in (i + 1)..last
        BY <1>1, <4>1, <4>2
      <4>4. result = Parsed(inner.nodes, inner.index + 1)
        BY <1>2, <2>2, <3>4
      <4> HIDE DEF last
      <4>5. result.nodes = inner.nodes /\ result.index = inner.index + 1
        BY <4>4 DEF Parsed
      <4>6. ReadsOne(result, i, last, depth)
        BY <4>1, <4>3, <4>5 DEF ReadsOne, Reads
      <4> QED
        BY <4>6 DEF result, depth, last
    <3>5. CASE ~(~Failed(inner) /\ current(tokens, inner.index) = ")")
      <4>1. result = ConditionError
        BY <1>2, <2>2, <3>5
      <4> QED
        BY <4>1, ErrorReads DEF result
    <3> QED
      BY <3>4, <3>5 DEF result, depth
  <2>3. CASE token \in {"all", "1", "2"}
    <3>1. current(tokens, (i + 1) + 1) # "end" => (i + 1) + 2 \in (i + 1)..last
      BY <1>1 DEF current
    <3> DEFINE index == i + 1
               target == current(tokens, index + 1)
    <3>3. index \in Nat /\ (target # "end" => index + 2 \in (i + 1)..last)
      BY <1>1, <3>1
    <3> DEFINE parsed == parse_quantifier(token, tokens, index)
    <3>5. target = current(tokens, index + 1) /\ parsed = parse_quantifier(token, tokens, index)
      OBVIOUS
    <3> HIDE DEF depth, last, index, target, parsed
    <3>4. ReadsOne(parsed, i, last, depth)
      BY <1>1, <2>1, <3>3, <3>5, QuantifierReads
    <3>2. ReadsOne(parse_quantifier(token, tokens, i + 1), i, last, depth)
      BY <3>4 DEF index, parsed
    <3> QED
      BY <1>2, <2>3, <3>2 DEF depth, last
  <2>4. CASE token \in Reserved
    <3>1. result = ConditionError
      BY <1>2, <2>4
    <3> QED
      BY <3>1, ErrorReads
  <2>5. CASE token \notin Reserved \cup {"(", "all", "1", "2"}
    <3> DEFINE next == i + 1
    <3>1. token \notin KEYWORDS \cup Numbers \cup Marks
      BY <2>5, OtherIsName
    <3>2. i \in Nat /\ last \in Nat /\ next \in Nat /\ next \in (i + 1)..last
      BY <1>1, <2>1
    <3> HIDE DEF depth, last, token, next
    <3>3. ReadsOne(resolve_reference(token, next), i, last, depth)
      BY <2>1, <3>1, <3>2, ReferenceReads
    <3> QED
      BY <1>2, <2>5, <3>3 DEF depth, last, token, next
  <2> QED
    BY <2>2, <2>3, <2>4, <2>5
<1> QED
  BY <1>3, <1>4

\* What a negation is read as is well-formed, if what is read to its right is.
LEMMA NegationReads ==
    ASSUME NEW tokens, Len(tokens) \in Nat, 2 * Len(tokens) < MaxDepth,
           NEW i \in 1..(Len(tokens) + 1), NEW rest,
           \A k \in (i + 1)..(Len(tokens) + 1) : ReadsFrom(rest[k], k, Len(tokens) + 1)
    PROVE  ReadsOne(parse_not(tokens, i, rest), i, Len(tokens) + 1, 2 * ((Len(tokens) + 1) - i) - 1)
<1> DEFINE last == Len(tokens) + 1
           depth == 2 * (last - i) - 1
           operand == rest[i + 1]["not"]
           node == operand.nodes[1]
<1>1. MaxDepth \in Nat /\ i \in Nat /\ last \in Nat
  BY ConditionAssumption
<1>2. CASE current(tokens, i) # "not"
  BY <1>2, AtomReads DEF parse_not
<1>3. CASE current(tokens, i) = "not"
  <2>1. i \in 1..Len(tokens)
    BY <1>1, <1>3 DEF current
  <2>2. parse_not(tokens, i, rest) = Negated(operand)
    BY <1>3 DEF parse_not
  <2>3. ReadsOne(operand, i + 1, last, 2 * (last - (i + 1)) - 1)
    <3>1. i + 1 \in (i + 1)..last
      BY <1>1, <2>1
    <3> QED
      BY <3>1 DEF ReadsFrom
  <2>4. 2 * (last - (i + 1)) - 1 = depth - 2
    BY <1>1
  <2> HIDE DEF operand
  <2>5. CASE operand = ConditionError
    BY <2>2, <2>5, ErrorReads DEF Negated
  <2>6. CASE operand # ConditionError
    <3> HIDE DEF depth, last
    <3>1. operand.index \in (i + 2)..last /\ operand.nodes \in Seq(Nodes[depth - 2])
          /\ operand.nodes # <<>>
      BY <1>1, <2>3, <2>4, <2>6 DEF ReadsOne, Reads
    <3>2. ~Failed(operand)
      BY <1>1, <3>1 DEF Failed
    <3>3. node \in Nodes[depth - 2]
      BY <3>1
    <3>4. depth - 1 \in 1..MaxDepth /\ depth \in 1..MaxDepth /\ (depth - 1) - 1 = depth - 2
      <4>1. i + 2 <= last
        BY <1>1, <3>1
      <4> QED
        BY <1>1, <4>1 DEF depth, last
    <3> HIDE DEF node
    <3>5. Not(node) \in Nodes[depth - 1]
      BY <3>3, <3>4, NotIsNode
    <3>6. Not(node) \in Nodes[depth]
      <4>1. depth - 1 \in 0..MaxDepth /\ depth \in 0..MaxDepth /\ depth - 1 <= depth
        BY <1>1, <3>4
      <4> QED
        BY <3>5, <4>1, NodesGrow
    <3>7. parse_not(tokens, i, rest) = Parsed(<<Not(node)>>, operand.index)
      BY <2>2, <3>2 DEF Negated, node
    <3>8. operand.index \in (i + 1)..last
      BY <1>1, <3>1
    <3>9. ReadsOne(Parsed(<<Not(node)>>, operand.index), i, last, depth)
      BY <1>1, <3>6, <3>8, NodeReads
    <3> QED
      BY <3>7, <3>9 DEF depth, last
  <2> QED
    BY <2>5, <2>6
<1> QED
  BY <1>2, <1>3

\* A chain of operands is well-formed, if its first operand and its rest are.
LEMMA OperandsRead ==
    ASSUME NEW op \in {"and", "or"}, NEW tokens, Len(tokens) \in Nat,
           NEW i \in 1..(Len(tokens) + 1), NEW rest, NEW depth \in 0..MaxDepth, NEW first,
           ReadsOne(first, i, Len(tokens) + 1, depth),
           \A k \in (i + 1)..(Len(tokens) + 1) : Reads(rest[k][op], k, Len(tokens) + 1, depth)
    PROVE  Reads(Operands(op, first, tokens, rest), i, Len(tokens) + 1, depth)
<1> DEFINE last == Len(tokens) + 1
           others == rest[first.index + 1][op]
           result == Operands(op, first, tokens, rest)
<1>1. MaxDepth \in Nat /\ i \in Nat /\ last \in Nat
  BY ConditionAssumption
<1>2. CASE Failed(first) \/ current(tokens, first.index) # op
  BY <1>2 DEF Operands, ReadsOne
<1>3. CASE ~(Failed(first) \/ current(tokens, first.index) # op)
  <2>1. first.index \in (i + 1)..last /\ first.nodes \in Seq(Nodes[depth]) /\ first.nodes # <<>>
    BY <1>3, ErrorReads DEF ReadsOne, Reads
  <2>2. first.index # last
    BY <1>1, <1>3 DEF current
  <2>3. first.index + 1 \in (i + 1)..last
    BY <1>1, <2>1, <2>2
  <2>4. Reads(others, first.index + 1, last, depth)
    BY <2>3
  <2>5. result = IF Failed(others) THEN ConditionError
                 ELSE Parsed(first.nodes \o others.nodes, others.index)
    BY <1>3 DEF Operands
  <2> HIDE DEF others, result, last
  <2>6. CASE Failed(others)
    BY <2>5, <2>6, ErrorReads DEF ReadsOne, result, last
  <2>7. CASE ~Failed(others)
    <3>1. others.index \in (first.index + 2)..last /\ others.nodes \in Seq(Nodes[depth])
      BY <1>1, <2>1, <2>4, <2>7, ErrorReads DEF Reads
    <3>2. others.index \in (i + 1)..last
      BY <1>1, <2>1, <3>1
    <3> DEFINE nodes == first.nodes \o others.nodes
    <3>3. /\ nodes \in Seq(Nodes[depth])
          /\ Len(nodes) = Len(first.nodes) + Len(others.nodes)
      BY <2>1, <3>1, ConcatProperties
    <3>4. Len(first.nodes) >= 1 /\ Len(first.nodes) \in Nat /\ Len(others.nodes) \in Nat
      BY <2>1, <3>1
    <3> HIDE DEF nodes
    <3>5. nodes # <<>>
      <4>1. \A a, b \in Nat : a >= 1 => a + b # 0
        OBVIOUS
      <4>2. Len(nodes) # 0
        BY <3>3, <3>4, <4>1
      <4> QED
        BY <4>2
    <3>6. result.nodes = nodes /\ result.index = others.index
      BY <2>5, <2>7 DEF Parsed, nodes
    <3> QED
      BY <3>2, <3>3, <3>5, <3>6 DEF Reads, result, last
  <2> QED
    BY <2>6, <2>7
<1> QED
  BY <1>2, <1>3

\* A chain that starts later nests no deeper.
LEMMA RestReads ==
    ASSUME NEW last \in Nat, NEW i \in 1..(last - 1), 2 * (last - 1) < MaxDepth,
           NEW k \in (i + 1)..last, NEW entry, ReadsFrom(entry, k, last)
    PROVE  /\ Reads(entry["and"], k, last, 2 * (last - i) - 1)
           /\ Reads(entry["or"], k, last, 2 * (last - i))
<1> DEFINE depth == 2 * (last - i) - 1
<1>1. MaxDepth \in Nat
  BY ConditionAssumption
<1>2. Reads(entry["and"], k, last, 2 * (last - k) - 1) /\ Reads(entry["or"], k, last, 2 * (last - k))
  BY DEF ReadsFrom
<1>3. CASE k = last
  <2>1. entry["and"] = ConditionError /\ entry["or"] = ConditionError
    BY <1>1, <1>2, <1>3 DEF Reads
  <2> QED
    BY <2>1 DEF Reads
<1>4. CASE k # last
  <2> DEFINE a == 2 * (last - k) - 1
             b == 2 * (last - k)
             d == 2 * (last - i)
  <2>1. /\ a \in 0..MaxDepth /\ b \in 0..MaxDepth /\ depth \in 0..MaxDepth /\ d \in 0..MaxDepth
        /\ k \in Nat /\ a <= depth /\ b <= d /\ k <= k
    BY <1>1, <1>4
  <2>2. Reads(entry["and"], k, last, a) /\ Reads(entry["or"], k, last, b)
    BY <1>2
  <2> HIDE DEF a, b, d, depth
  <2>3. Reads(entry["and"], k, last, depth) /\ Reads(entry["or"], k, last, d)
    BY <1>1, <2>1, <2>2, Deeper
  <2> QED
    BY <2>3 DEF d, depth
<1> QED
  BY <1>3, <1>4

\* What is read from a position, when what is read from the later ones is right.
LEMMA EntryReads ==
    ASSUME NEW tokens, Len(tokens) \in Nat, 2 * Len(tokens) < MaxDepth,
           NEW i \in 1..(Len(tokens) + 1), NEW rest,
           \A k \in (i + 1)..(Len(tokens) + 1) : ReadsFrom(rest[k], k, Len(tokens) + 1)
    PROVE  ReadsFrom(ParsedFrom(tokens, i, rest), i, Len(tokens) + 1)
<1> DEFINE last == Len(tokens) + 1
           depth == 2 * (last - i) - 1
           negation == parse_not(tokens, i, rest)
           chain == parse_and(tokens, i, rest)
           whole == parse_or(tokens, i, rest)
           entry == ParsedFrom(tokens, i, rest)
<1>1. MaxDepth \in Nat /\ i \in Nat /\ last \in Nat
  BY ConditionAssumption
<1>2. ReadsOne(negation, i, last, depth)
  BY NegationReads
<1>3. /\ chain = Operands("and", negation, tokens, rest)
      /\ whole = Operands("or", Single("and", chain), tokens, rest)
  BY DEF parse_and, parse_or
<1>4. entry["not"] = negation /\ entry["and"] = chain /\ entry["or"] = whole
  BY DEF ParsedFrom
<1>5. Reads(chain, i, last, depth) /\ Reads(whole, i, last, depth + 1)
  <2>1. CASE i = last
    <3>1. negation = ConditionError
      BY <1>1, <1>2, <2>1 DEF ReadsOne, Reads
    <3>2. \A op : Operands(op, ConditionError, tokens, rest) = ConditionError
                  /\ Single(op, ConditionError) = ConditionError
      BY ErrorReads DEF Operands, Single
    <3> HIDE DEF negation, chain, whole
    <3>3. chain = ConditionError /\ whole = ConditionError
      BY <1>3, <3>1, <3>2
    <3> QED
      BY <3>3, ErrorReads DEF ReadsOne
  <2>2. CASE i # last
    <3>1. depth \in 0..MaxDepth /\ depth + 1 \in 1..MaxDepth /\ (depth + 1) - 1 = depth
          /\ depth + 1 \in 0..MaxDepth
      BY <1>1, <2>2
    <3>2. ASSUME NEW k \in (i + 1)..last
          PROVE  Reads(rest[k]["and"], k, last, depth) /\ Reads(rest[k]["or"], k, last, depth + 1)
      <4>1. i \in 1..(last - 1) /\ 2 * (last - 1) < MaxDepth
        BY <1>1, <2>2
      <4>2. ReadsFrom(rest[k], k, last)
        OBVIOUS
      <4>3. depth + 1 = 2 * (last - i)
        BY <1>1
      <4> HIDE DEF last
      <4>4. Reads(rest[k]["and"], k, last, 2 * (last - i) - 1)
            /\ Reads(rest[k]["or"], k, last, 2 * (last - i))
        BY <1>1, <4>1, <4>2, RestReads
      <4> QED
        BY <4>3, <4>4
    <3> HIDE DEF negation, chain, whole, depth
    <3>3. Reads(chain, i, last, depth)
      BY <1>2, <1>3, <3>1, <3>2, OperandsRead
    <3>4. ReadsOne(Single("and", chain), i, last, depth + 1)
      <4> HIDE DEF last
      <4> QED
        BY <1>1, <3>1, <3>3, SingleReads
    <3>5. Reads(whole, i, last, depth + 1)
      BY <1>3, <3>1, <3>2, <3>4, OperandsRead
    <3> QED
      BY <3>3, <3>5
  <2> QED
    BY <2>1, <2>2
<1>6. depth + 1 = 2 * (last - i)
  BY <1>1
<1> HIDE DEF negation, chain, whole, depth, last, entry
<1>7. ReadsFrom(entry, i, last)
  BY <1>2, <1>4, <1>5, <1>6 DEF ReadsFrom, depth
<1> QED
  BY <1>7 DEF entry, last

\* P is the table the parser fills.
ParsesTo(tokens, P) ==
    \A i \in 1..(Len(tokens) + 1) :
       P[i] = ParsedFrom(tokens, i, [k \in (i + 1)..(Len(tokens) + 1) |-> P[k]])

\* What the parser reads at any position is well-formed.
LEMMA ParserReturns ==
    ASSUME NEW tokens, Len(tokens) \in Nat, 2 * Len(tokens) < MaxDepth, NEW P, ParsesTo(tokens, P)
    PROVE  \A i \in 1..(Len(tokens) + 1) : ReadsFrom(P[i], i, Len(tokens) + 1)
<1> DEFINE last == Len(tokens) + 1
           S == {m \in Nat : m < last => \A i \in (last - m)..last : ReadsFrom(P[i], i, last)}
<1>1. last \in Nat
  OBVIOUS
<1>2. ASSUME NEW i \in 1..last, \A k \in (i + 1)..last : ReadsFrom(P[k], k, last)
      PROVE  ReadsFrom(P[i], i, last)
  <2> DEFINE rest == [k \in (i + 1)..last |-> P[k]]
  <2>1. \A k \in (i + 1)..last : ReadsFrom(rest[k], k, last)
    BY <1>2
  <2>2. P[i] = ParsedFrom(tokens, i, rest)
    BY DEF ParsesTo
  <2> HIDE DEF rest
  <2>3. ReadsFrom(ParsedFrom(tokens, i, rest), i, last)
    BY <2>1, EntryReads
  <2> QED
    BY <2>2, <2>3
<1>3. 0 \in S
  <2> SUFFICES ASSUME NEW i \in (last - 0)..last PROVE ReadsFrom(P[i], i, last)
    OBVIOUS
  <2>1. i \in 1..last /\ \A k : k \notin (i + 1)..last
    BY <1>1
  <2> HIDE DEF last
  <2> QED
    BY <1>2, <2>1
<1>4. ASSUME NEW m \in Nat, m \in S PROVE m + 1 \in S
  <2> SUFFICES ASSUME m + 1 < last, NEW i \in (last - (m + 1))..last PROVE ReadsFrom(P[i], i, last)
    OBVIOUS
  <2>1. \A k \in (last - m)..last : ReadsFrom(P[k], k, last)
    BY <1>1, <1>4
  <2>2. i \in 1..last /\ \A k \in (i + 1)..last : k \in (last - m)..last
    BY <1>1
  <2> HIDE DEF last
  <2> QED
    BY <1>2, <2>1, <2>2
<1>5. Nat \subseteq S
  <2> HIDE DEF S
  <2> QED
    BY <1>3, <1>4, Climbs
<1> QED
  <2>1. Len(tokens) \in S /\ Len(tokens) < last /\ last - Len(tokens) = 1
    BY <1>5
  <2> QED
    BY <2>1

---------------------------------------------------------------------------
(* The parser and the grammar *)

\* What a result of the parser means at the position it must end at.
MeansAt(result, op, j) == IF result.index = j + 1 THEN {Combined(op, result.nodes)} ELSE {}

\* What the parser reads from i is what the grammar derives up to any j at which
\* a chain cannot go on.
Agree(tokens, entry, derived, i) ==
    \A j \in i..Len(tokens) :
       /\ derived["not"][j] = MeansAt(entry["not"], "and", j)
       /\ current(tokens, j + 1) # "and" => derived["and"][j] = MeansAt(entry["and"], "and", j)
       /\ current(tokens, j + 1) \notin {"and", "or"} =>
             derived["or"][j] = MeansAt(entry["or"], "or", j)

\* A combination of one operand means what the operand means.
LEMMA OneMeans ==
    ASSUME NEW result, NEW i, NEW last, NEW depth, ReadsOne(result, i, last, depth), ~Failed(result)
    PROVE  \A op : Combined(op, result.nodes) = Meaning(result.nodes[1])
<1>1. result.nodes \in Seq(Nodes[depth]) /\ Len(result.nodes) = 1
  BY ErrorReads DEF ReadsOne, Reads
<1>2. DOMAIN result.nodes = {1}
  BY <1>1
<1> QED
  BY <1>2 DEF Combined, Meaning

\* No keyword or number is a name.
LEMMA ReservedNamesNothing ==
    ASSUME NEW token \in Reserved \cup {"(", "all", "1", "2"}
    PROVE  IDENT(token) = {}
BY DEF IDENT, Reserved, KEYWORDS, Numbers, Marks

\* What an atom derives depends on its first token.
LEMMA DerivedByToken ==
    ASSUME NEW tokens, NEW i, NEW j, NEW rest
    PROVE  LET names == Counted(tokens[j])
               derived == atom(tokens, i, j, rest)
           IN  /\ tokens[i] = "(" => derived = IF tokens[j] = ")" /\ i + 1 < j
                                              THEN rest[i + 1]["or"][j - 1] ELSE {}
               /\ tokens[i] \in {"all", "1"} =>
                     derived = IF j = i + 2 /\ tokens[i + 1] = "of" /\ names # {}
                               THEN {Quantified(tokens[i], names)} ELSE {}
               /\ tokens[i] \notin {"(", "all", "1"} =>
                     derived = IF j = i /\ IDENT(tokens[i]) # {}
                               THEN {Quantified("all", IDENT(tokens[i]))} ELSE {}
<1> DEFINE names == Counted(tokens[j])
<1>1. atom(tokens, i, j, rest) =
         CASE tokens[i] = "(" -> IF tokens[j] = ")" /\ i + 1 < j THEN rest[i + 1]["or"][j - 1] ELSE {}
           [] tokens[i] \in {"all", "1"} ->
                IF j = i + 2 /\ tokens[i + 1] = "of" /\ names # {}
                THEN {Quantified(tokens[i], names)} ELSE {}
           [] OTHER -> IF j = i /\ IDENT(tokens[i]) # {}
                       THEN {Quantified("all", IDENT(tokens[i]))} ELSE {}
  BY Zenon DEF atom, Counted
<1> HIDE DEF names
<1>2. CASE tokens[i] = "("
  BY <1>1, <1>2
<1>3. CASE tokens[i] \in {"all", "1"}
  BY <1>1, <1>3 DEF names
<1>4. CASE tokens[i] \notin {"(", "all", "1"}
  BY <1>1, <1>4
<1> QED
  BY <1>2, <1>3, <1>4

\* The parser reads an atom up to j exactly when the grammar derives one there.
LEMMA AtomAgrees ==
    ASSUME NEW tokens, Len(tokens) \in Nat, 2 * Len(tokens) < MaxDepth,
           NEW i \in 1..Len(tokens), NEW j \in i..Len(tokens), NEW rest, NEW others,
           \A k \in (i + 1)..(Len(tokens) + 1) : ReadsFrom(rest[k], k, Len(tokens) + 1),
           \A k \in (i + 1)..Len(tokens) : Agree(tokens, rest[k], others[k], k)
    PROVE  atom(tokens, i, j, others) = MeansAt(parse_atom(tokens, i, rest), "and", j)
<1> DEFINE last == Len(tokens) + 1
           depth == 2 * (last - i) - 1
           token == current(tokens, i)
           outer == rest[i + 1]["or"]
           inner == Single("or", outer)
           result == parse_atom(tokens, i, rest)
           names == Counted(tokens[j])
           derived == atom(tokens, i, j, others)
<1>1. MaxDepth \in Nat /\ i \in Nat /\ j \in Nat /\ last \in Nat /\ i + 1 \in Nat
      /\ j + 1 # 0 /\ depth \in 1..MaxDepth /\ j < last /\ i <= j
  BY ConditionAssumption
<1>2. /\ token = "(" => result = IF ~Failed(inner) /\ current(tokens, inner.index) = ")"
                                 THEN Parsed(inner.nodes, inner.index + 1) ELSE ConditionError
      /\ token \in {"all", "1", "2"} => result = parse_quantifier(token, tokens, i + 1)
      /\ token \in Reserved => result = ConditionError
      /\ token \notin Reserved \cup {"(", "all", "1", "2"} => result = resolve_reference(token, i + 1)
  BY AtomByToken
<1>3. /\ token = "(" => derived = IF tokens[j] = ")" /\ i + 1 < j
                                  THEN others[i + 1]["or"][j - 1] ELSE {}
      /\ token \in {"all", "1"} =>
            derived = IF j = i + 2 /\ tokens[i + 1] = "of" /\ names # {}
                      THEN {Quantified(token, names)} ELSE {}
      /\ token \notin {"(", "all", "1"} =>
            derived = IF j = i /\ IDENT(token) # {} THEN {Quantified("all", IDENT(token))} ELSE {}
  <2>1. tokens[i] = token
    BY <1>1 DEF current
  <2>2. /\ tokens[i] = "(" => derived = IF tokens[j] = ")" /\ i + 1 < j
                                         THEN others[i + 1]["or"][j - 1] ELSE {}
        /\ tokens[i] \in {"all", "1"} =>
              derived = IF j = i + 2 /\ tokens[i + 1] = "of" /\ names # {}
                        THEN {Quantified(tokens[i], names)} ELSE {}
        /\ tokens[i] \notin {"(", "all", "1"} =>
              derived = IF j = i /\ IDENT(tokens[i]) # {}
                        THEN {Quantified("all", IDENT(tokens[i]))} ELSE {}
    BY DerivedByToken
  <2> HIDE DEF token, names, derived
  <2> QED
    BY <2>1, <2>2
<1>4. \A k \in 1..Len(tokens) : current(tokens, k) = tokens[k]
  BY <1>1 DEF current
<1> HIDE DEF derived, result
<1>5. CASE token = "("
  <2>1. Reads(outer, i + 1, last, depth - 1)
    <3>1. i + 1 \in (i + 1)..last /\ 2 * (last - (i + 1)) = depth - 1
      BY <1>1
    <3> QED
      BY <3>1 DEF ReadsFrom
  <2> HIDE DEF outer, token, depth
  <2>2. /\ ReadsOne(inner, i + 1, last, depth) /\ inner.index = outer.index
        /\ Failed(inner) <=> Failed(outer)
        /\ ~Failed(outer) => Meaning(inner.nodes[1]) = Combined("or", outer.nodes)
    <3> DEFINE next == i + 1
    <3>1. next \in Nat /\ Reads(outer, next, last, depth - 1)
      BY <1>1, <2>1
    <3> HIDE DEF last, inner, next
    <3>2. /\ ReadsOne(Single("or", outer), next, last, depth)
          /\ Single("or", outer).index = outer.index
          /\ Failed(Single("or", outer)) <=> Failed(outer)
          /\ ~Failed(outer) => Meaning(Single("or", outer).nodes[1]) = Combined("or", outer.nodes)
      <4>1. last \in Nat /\ depth \in 1..MaxDepth
        BY <1>1
      <4> QED
        BY <3>1, <4>1, SingleReads
    <3> QED
      BY <3>2 DEF inner, next
  <2> DEFINE m == outer.index
  <2>3. m = 0 \/ m \in (i + 2)..last
    <3>1. CASE outer = ConditionError
      BY <3>1, ErrorReads
    <3>2. CASE outer # ConditionError
      BY <1>1, <2>1, <3>2 DEF Reads
    <3> QED
      BY <3>1, <3>2
  <2>4. Failed(outer) <=> m = 0
    BY DEF Failed
  <2>5. ~Failed(inner) => Combined("and", inner.nodes) = Combined("or", outer.nodes)
    BY <2>2, OneMeans
  <2> HIDE DEF inner
  <2>6. result = IF m # 0 /\ current(tokens, m) = ")"
                 THEN Parsed(inner.nodes, m + 1) ELSE ConditionError
    BY <1>2, <1>5, <2>2, <2>4
  <2> HIDE DEF m, last
  <2>7. CASE tokens[j] = ")" /\ i + 1 < j
    <3>1. derived = others[i + 1]["or"][j - 1]
      BY <1>3, <1>5, <2>7
    <3>2. i + 1 \in (i + 1)..Len(tokens) /\ j - 1 \in (i + 1)..Len(tokens) /\ (j - 1) + 1 = j
          /\ j \in 1..Len(tokens)
      BY <1>1, <2>7
    <3>3. current(tokens, (j - 1) + 1) \notin {"and", "or"}
      BY <1>4, <2>7, <3>2
    <3>4. derived = MeansAt(outer, "or", j - 1)
      BY <3>1, <3>2, <3>3 DEF Agree, outer
    <3>5. derived = IF m = j THEN {Combined("or", outer.nodes)} ELSE {}
      BY <3>2, <3>4 DEF MeansAt, m
    <3>6. CASE m = j
      <4>1. result = Parsed(inner.nodes, j + 1)
        BY <1>4, <2>6, <2>7, <3>2, <3>6
      <4>2. result.index = j + 1 /\ result.nodes = inner.nodes
        BY <4>1 DEF Parsed
      <4>3. ~Failed(inner)
        BY <2>2, <2>4, <3>2, <3>6
      <4> QED
        BY <2>5, <3>5, <3>6, <4>2, <4>3 DEF MeansAt, derived, result
    <3>7. CASE m # j
      <4>1. result.index # j + 1
        BY <1>1, <2>3, <2>6, <3>7, ErrorReads DEF Parsed, last
      <4> QED
        BY <3>5, <3>7, <4>1 DEF MeansAt, derived, result
    <3> QED
      BY <3>6, <3>7
  <2>8. CASE ~(tokens[j] = ")" /\ i + 1 < j)
    <3>1. derived = {}
      BY <1>3, <1>5, <2>8
    <3>2. result.index # j + 1
      <4>1. CASE m # 0 /\ current(tokens, m) = ")"
        <5>1. result.index = m + 1
          BY <2>6, <4>1 DEF Parsed
        <5>2. m # j
          <6>1. m \in (i + 2)..last
            BY <2>3, <4>1
          <6>2. m = j => i + 1 < j /\ j \in 1..Len(tokens)
            BY <1>1, <6>1
          <6> QED
            BY <1>4, <2>8, <4>1, <6>2
        <5> QED
          BY <1>1, <2>3, <5>1, <5>2 DEF last
      <4>2. CASE ~(m # 0 /\ current(tokens, m) = ")")
        BY <1>1, <2>6, <4>2, ErrorReads
      <4> QED
        BY <4>1, <4>2
    <3> QED
      BY <3>1, <3>2 DEF MeansAt, derived, result
  <2> QED
    BY <2>7, <2>8
<1>6. CASE token \in {"all", "1", "2"}
  <2> DEFINE target == current(tokens, (i + 1) + 1)
             named == Counted(target)
  <2>1. current(tokens, (i + 1) + 1) # "end" => (i + 1) + 2 \in (i + 1)..last
    BY <1>1 DEF current
  <2>2. result = parse_quantifier(token, tokens, i + 1)
    BY <1>2, <1>6
  <2> HIDE DEF depth, last, token
  <2>3. /\ ReadsOne(result, i, last, depth)
        /\ ~Failed(result) <=> current(tokens, i + 1) = "of" /\ named # {} /\ token \in {"all", "1"}
        /\ ~Failed(result) => result.index = (i + 1) + 2
                              /\ Meaning(result.nodes[1]) = Quantified(token, named)
    <3> DEFINE index == i + 1
    <3>1. index \in Nat /\ (target # "end" => index + 2 \in (i + 1)..last)
      BY <1>1, <2>1
    <3>2. i \in Nat /\ last \in Nat /\ depth \in 1..MaxDepth
      BY <1>1
    <3>3. target = current(tokens, index + 1) /\ result = parse_quantifier(token, tokens, index)
      BY <2>2
    <3> HIDE DEF index, target, result
    <3>4. /\ ReadsOne(result, i, last, depth)
          /\ ~Failed(result) <=> current(tokens, index) = "of" /\ Counted(target) # {}
                                 /\ token \in {"all", "1"}
          /\ ~Failed(result) => result.index = index + 2
                                /\ Meaning(result.nodes[1]) = Quantified(token, Counted(target))
      BY <3>1, <3>2, <3>3, QuantifierReads
    <3> QED
      BY <3>4 DEF index
  <2>4. ~Failed(result) => Combined("and", result.nodes) = Quantified(token, named)
    BY <2>3, OneMeans
  <2>5. CASE Failed(result)
    <3>1. MeansAt(result, "and", j) = {}
      BY <1>1, <2>5 DEF MeansAt, Failed
    <3>2. derived = {}
      <4>1. CASE token = "2"
        <5>1. IDENT(token) = {}
          BY <4>1, ReservedNamesNothing
        <5> QED
          BY <1>3, <4>1, <5>1
      <4>2. CASE token \in {"all", "1"} /\ j = i + 2
        <5>1. i + 1 \in 1..Len(tokens) /\ (i + 1) + 1 = j /\ j \in 1..Len(tokens)
          BY <1>1, <4>2
        <5>2. target = tokens[j] /\ current(tokens, i + 1) = tokens[i + 1]
          BY <1>4, <5>1
        <5> HIDE DEF target
        <5> QED
          BY <1>3, <2>3, <2>5, <4>2, <5>2
      <4>3. CASE token \in {"all", "1"} /\ j # i + 2
        BY <1>3, <4>3
      <4> QED
        BY <1>6, <4>1, <4>2, <4>3
    <3> QED
      BY <3>1, <3>2 DEF derived, result
  <2>6. CASE ~Failed(result)
    <3>1. CASE j = i + 2
      <4>1. i + 1 \in 1..Len(tokens) /\ (i + 1) + 1 = j /\ j \in 1..Len(tokens) /\ (i + 1) + 2 = j + 1
        BY <1>1, <3>1
      <4>2. target = tokens[j] /\ current(tokens, i + 1) = tokens[i + 1]
        BY <1>4, <4>1
      <4> HIDE DEF target
      <4>3. derived = {Quantified(token, named)}
        BY <1>3, <2>3, <2>6, <3>1, <4>2
      <4>4. MeansAt(result, "and", j) = {Quantified(token, named)}
        BY <2>3, <2>4, <2>6, <4>1 DEF MeansAt
      <4> QED
        BY <4>3, <4>4 DEF derived, result
    <3>2. CASE j # i + 2
      <4>1. derived = {}
        BY <1>3, <2>3, <2>6, <3>2
      <4>2. result.index # j + 1
        BY <1>1, <2>3, <2>6, <3>2
      <4> QED
        BY <4>1, <4>2 DEF MeansAt, derived, result
    <3> QED
      BY <3>1, <3>2
  <2> QED
    BY <2>5, <2>6
<1>7. CASE token \in Reserved
  <2>1. IDENT(token) = {} /\ token \notin {"(", "all", "1"}
    BY <1>7, ReservedNamesNothing DEF Reserved
  <2>2. derived = {}
    BY <1>3, <2>1
  <2>3. result.index # j + 1
    BY <1>1, <1>2, <1>7, ErrorReads
  <2> QED
    BY <2>2, <2>3 DEF MeansAt, derived, result
<1>8. CASE token \notin Reserved \cup {"(", "all", "1", "2"}
  <2>1. result = resolve_reference(token, i + 1)
    BY <1>2, <1>8
  <2>2. i + 1 \in (i + 1)..last
    BY <1>1
  <2>8. token \notin KEYWORDS \cup Numbers \cup Marks
    BY <1>8, OtherIsName
  <2> HIDE DEF depth, last, token
  <2>3. /\ ReadsOne(result, i, last, depth)
        /\ ~Failed(result) <=> IDENT(token) # {}
        /\ ~Failed(result) => result.index = i + 1
                              /\ Meaning(result.nodes[1]) = Quantified("all", IDENT(token))
    <3> DEFINE next == i + 1
    <3>1. i \in Nat /\ last \in Nat /\ next \in Nat /\ next \in (i + 1)..last
      BY <1>1, <2>2
    <3>2. result = resolve_reference(token, next) /\ depth \in 1..MaxDepth
      BY <1>1, <2>1
    <3> HIDE DEF next
    <3>3. /\ ReadsOne(resolve_reference(token, next), i, last, depth)
          /\ ~Failed(resolve_reference(token, next)) <=> IDENT(token) # {}
          /\ ~Failed(resolve_reference(token, next)) =>
                /\ resolve_reference(token, next).index = next
                /\ Meaning(resolve_reference(token, next).nodes[1]) = Quantified("all", IDENT(token))
      BY <2>8, <3>1, <3>2, ReferenceReads
    <3> QED
      BY <3>2, <3>3 DEF next
  <2>4. ~Failed(result) => Combined("and", result.nodes) = Quantified("all", IDENT(token))
    BY <2>3, OneMeans
  <2>5. derived = IF j = i /\ IDENT(token) # {} THEN {Quantified("all", IDENT(token))} ELSE {}
    BY <1>3, <1>8
  <2>6. CASE Failed(result)
    BY <1>1, <2>3, <2>5, <2>6 DEF MeansAt, Failed, derived, result
  <2>7. CASE ~Failed(result)
    <3>1. result.index = j + 1 <=> j = i
      BY <1>1, <2>3, <2>7
    <3> QED
      BY <2>3, <2>4, <2>5, <2>7, <3>1 DEF MeansAt, derived, result
  <2> QED
    BY <2>6, <2>7
<1> QED
  BY <1>5, <1>6, <1>7, <1>8

\* The parser reads a negation up to j exactly when the grammar derives one there.
LEMMA NegationAgrees ==
    ASSUME NEW tokens, Len(tokens) \in Nat, 2 * Len(tokens) < MaxDepth,
           NEW i \in 1..Len(tokens), NEW j \in i..Len(tokens), NEW rest, NEW others,
           \A k \in (i + 1)..(Len(tokens) + 1) : ReadsFrom(rest[k], k, Len(tokens) + 1),
           \A k \in (i + 1)..Len(tokens) : Agree(tokens, rest[k], others[k], k)
    PROVE  not_expr(tokens, i, others)[j] = MeansAt(parse_not(tokens, i, rest), "and", j)
<1> DEFINE last == Len(tokens) + 1
           below == 2 * (last - (i + 1)) - 1
           operand == rest[i + 1]["not"]
           node == operand.nodes[1]
           result == parse_not(tokens, i, rest)
           derived == not_expr(tokens, i, others)[j]
<1>1. MaxDepth \in Nat /\ i \in Nat /\ j \in Nat /\ last \in Nat /\ i <= j /\ j < last /\ j + 1 # 0
  BY ConditionAssumption
<1>2. tokens[i] = current(tokens, i)
  BY <1>1 DEF current
<1>3. derived = IF tokens[i] # "not" THEN atom(tokens, i, j, others)
                ELSE IF i < j THEN {All \ A : A \in others[i + 1]["not"][j]} ELSE {}
  BY DEF not_expr
<1> HIDE DEF derived, result
<1>4. CASE tokens[i] # "not"
  <2>1. derived = atom(tokens, i, j, others) /\ result = parse_atom(tokens, i, rest)
    BY <1>2, <1>3, <1>4 DEF parse_not, result
  <2>2. atom(tokens, i, j, others) = MeansAt(parse_atom(tokens, i, rest), "and", j)
    BY AtomAgrees
  <2> QED
    BY <2>1, <2>2 DEF derived, result
<1>5. CASE tokens[i] = "not"
  <2>1. result = Negated(operand)
    BY <1>2, <1>5 DEF parse_not, result
  <2>2. ReadsOne(operand, i + 1, last, below)
    <3>1. i + 1 \in (i + 1)..last
      BY <1>1
    <3> QED
      BY <3>1 DEF ReadsFrom
  <2>3. i < j => others[i + 1]["not"][j] = MeansAt(operand, "and", j)
    <3>1. i < j => i + 1 \in (i + 1)..Len(tokens) /\ j \in (i + 1)..Len(tokens)
      BY <1>1
    <3> QED
      BY <3>1 DEF Agree
  <2> HIDE DEF operand
  <2>4. CASE Failed(operand)
    <3>1. result = ConditionError
      BY <2>1, <2>4 DEF Negated
    <3>2. MeansAt(operand, "and", j) = {} /\ MeansAt(result, "and", j) = {}
      BY <1>1, <2>4, <3>1, ErrorReads DEF MeansAt, Failed
    <3> QED
      BY <1>3, <1>5, <2>3, <3>2 DEF derived, result
  <2>5. CASE ~Failed(operand)
    <3>1. result = Parsed(<<Not(node)>>, operand.index)
      BY <2>1, <2>5 DEF Negated
    <3>2. result.index = operand.index /\ result.nodes = <<Not(node)>>
      BY <3>1 DEF Parsed
    <3>3. operand.index \in (i + 2)..last /\ operand.nodes \in Seq(Nodes[below])
          /\ operand.nodes # <<>>
      <4> HIDE DEF below, last
      <4> QED
        BY <1>1, <2>2, <2>5, ErrorReads DEF ReadsOne, Reads
    <3>4. below + 1 \in 1..MaxDepth /\ (below + 1) - 1 = below
      <4>1. i + 2 <= last
        BY <1>1, <3>3
      <4>2. below \in Int /\ below = 2 * (last - i) - 3
        BY <1>1
      <4>3. below >= 1 /\ below <= 2 * Len(tokens) - 3
        BY <1>1, <4>1, <4>2
      <4> HIDE DEF below, last
      <4> QED
        BY <1>1, <4>2, <4>3
    <3>5. Combined("and", operand.nodes) = Meaning(node)
      BY <2>2, <2>5, OneMeans
    <3>6. Combined("and", <<Not(node)>>) = Meaning(Not(node))
      <4>1. DOMAIN <<Not(node)>> = {1} /\ <<Not(node)>>[1] = Not(node)
        BY Singleton
      <4> QED
        BY <4>1 DEF Combined, Meaning
    <3>7. Meaning(Not(node)) = All \ Meaning(node)
      <4>1. node \in Nodes[below]
        BY <3>3
      <4> HIDE DEF below, node
      <4> QED
        BY <3>4, <4>1, NotIsNode
    <3> HIDE DEF node
    <3>8. CASE operand.index = j + 1
      <4>1. i < j
        BY <1>1, <3>3, <3>8
      <4>2. MeansAt(operand, "and", j) = {Meaning(node)}
        BY <3>5, <3>8 DEF MeansAt
      <4>3. others[i + 1]["not"][j] = {Meaning(node)}
        BY <2>3, <4>1, <4>2
      <4>4. derived = {All \ A : A \in {Meaning(node)}}
        BY <1>3, <1>5, <4>1, <4>3
      <4>5. MeansAt(result, "and", j) = {All \ Meaning(node)}
        BY <3>2, <3>6, <3>7, <3>8 DEF MeansAt
      <4> QED
        BY <4>4, <4>5 DEF derived, result
    <3>9. CASE operand.index # j + 1
      <4>1. MeansAt(operand, "and", j) = {} /\ MeansAt(result, "and", j) = {}
        BY <3>2, <3>9 DEF MeansAt
      <4> QED
        BY <1>3, <1>5, <2>3, <4>1 DEF derived, result
    <3> QED
      BY <3>8, <3>9
  <2> QED
    BY <2>4, <2>5
<1> QED
  BY <1>4, <1>5

\* The operands of a chain agree, up to a j at which it cannot go on.  They may be
\* followed by its own keyword but by no other stop.
OperandsAgree(op, tokens, i, j, rest, others, first, operand, depth, stops) ==
    /\ op \in {"and", "or"} /\ op \in stops /\ current(tokens, j + 1) \notin stops
    /\ ReadsOne(first, i, Len(tokens) + 1, depth)
    /\ \A k \in (i + 1)..(Len(tokens) + 1) : Reads(rest[k][op], k, Len(tokens) + 1, depth)
    /\ \A k \in i..Len(tokens) :
          current(tokens, k + 1) \notin stops \ {op} => operand[k] = MeansAt(first, "and", k)
    /\ \A k \in (i + 1)..Len(tokens) : j \in k..Len(tokens) =>
          others[k][op][j] = MeansAt(rest[k][op], op, j)

\* The parser reads a chain up to j exactly when the grammar derives one there.
LEMMA ChainAgrees ==
    ASSUME NEW op, NEW tokens, Len(tokens) \in Nat,
           NEW i \in 1..Len(tokens), NEW j \in i..Len(tokens), NEW rest, NEW others,
           NEW first, NEW operand, NEW depth, NEW stops,
           OperandsAgree(op, tokens, i, j, rest, others, first, operand, depth, stops)
    PROVE  Chain(op, operand, tokens, i, others)[j] = MeansAt(Operands(op, first, tokens, rest), op, j)
<1> DEFINE last == Len(tokens) + 1
           m == first.index
           Further(k) == {Both(op, A, B) : A \in operand[k - 1], B \in others[k + 1][op][j]}
           ks == {k \in (i + 1)..(j - 1) : tokens[k] = op}
           derived == Chain(op, operand, tokens, i, others)[j]
           result == Operands(op, first, tokens, rest)
<1>0. /\ op \in {"and", "or"} /\ op \in stops /\ current(tokens, j + 1) \notin stops
      /\ ReadsOne(first, i, Len(tokens) + 1, depth)
      /\ \A k \in (i + 1)..(Len(tokens) + 1) : Reads(rest[k][op], k, Len(tokens) + 1, depth)
      /\ \A k \in i..Len(tokens) :
            current(tokens, k + 1) \notin stops \ {op} => operand[k] = MeansAt(first, "and", k)
      /\ \A k \in (i + 1)..Len(tokens) : j \in k..Len(tokens) =>
            others[k][op][j] = MeansAt(rest[k][op], op, j)
  BY DEF OperandsAgree
<1>1. i \in Nat /\ j \in Nat /\ last \in Nat /\ i <= j /\ j < last /\ j + 1 # 0
      /\ j \in i..Len(tokens)
  OBVIOUS
<1>2. \A k \in 1..Len(tokens) : current(tokens, k) = tokens[k]
  BY <1>1 DEF current
<1>3. derived = operand[j] \cup UNION {Further(k) : k \in ks}
  BY DEF Chain
<1>4. operand[j] = MeansAt(first, "and", j)
  BY <1>0, <1>1
<1>5. \A k \in ks : operand[k - 1] = MeansAt(first, "and", k - 1) /\ k \in 1..Len(tokens)
                    /\ tokens[k] = op /\ (k - 1) + 1 = k
  <2> SUFFICES ASSUME NEW k \in ks
               PROVE  operand[k - 1] = MeansAt(first, "and", k - 1) /\ k \in 1..Len(tokens)
                      /\ tokens[k] = op /\ (k - 1) + 1 = k
    OBVIOUS
  <2>1. k \in 1..Len(tokens) /\ k - 1 \in i..Len(tokens) /\ (k - 1) + 1 = k /\ tokens[k] = op
    BY <1>1
  <2>2. current(tokens, (k - 1) + 1) = op
    BY <1>2, <2>1
  <2> QED
    BY <1>0, <2>1, <2>2
<1>6. m = 0 \/ (m \in (i + 1)..last /\ first.nodes \in Seq(Nodes[depth]) /\ Len(first.nodes) = 1)
  <2>1. Reads(first, i, last, depth) /\ (m # 0 => Len(first.nodes) = 1)
    BY <1>0 DEF ReadsOne, Failed
  <2>2. CASE first = ConditionError
    BY <2>2, ErrorReads
  <2>3. CASE first # ConditionError
    BY <1>1, <2>1, <2>3 DEF Reads
  <2> QED
    BY <2>2, <2>3
<1>7. Failed(first) <=> m = 0
  BY DEF Failed
<1>8. \A o : m # 0 => Combined(o, first.nodes) = Meaning(first.nodes[1])
  BY <1>0, <1>7, OneMeans
<1> HIDE DEF last, m
<1>9. \A k : MeansAt(first, "and", k) = IF m = k + 1 THEN {Combined("and", first.nodes)} ELSE {}
  BY DEF MeansAt, m
<1>10. \A k \in ks : k # m => Further(k) = {}
  BY <1>5, <1>9
<1> HIDE DEF ks, derived, result
<1>11. CASE m = 0 \/ current(tokens, m) # op
  <2>1. result = first
    BY <1>7, <1>11 DEF Operands, result, m
  <2>2. m \notin ks
    <3> SUFFICES ASSUME m \in ks PROVE FALSE
      OBVIOUS
    <3>1. m \in 1..Len(tokens) /\ tokens[m] = op
      BY <1>5
    <3> QED
      BY <1>2, <1>11, <3>1
  <2>3. UNION {Further(k) : k \in ks} = {}
    <3> HIDE DEF Further
    <3> QED
      BY <1>10, <2>2
  <2>4. derived = MeansAt(first, "and", j)
    <3> HIDE DEF Further
    <3>1. \A A, B : A = operand[j] \cup B /\ B = {} => A = operand[j]
      OBVIOUS
    <3> QED
      BY <1>3, <1>4, <2>3, <3>1
  <2>5. MeansAt(first, "and", j) = MeansAt(first, op, j)
    <3>1. CASE m = 0
      BY <1>1, <3>1 DEF MeansAt, m
    <3>2. CASE m # 0
      BY <1>8, <3>2 DEF MeansAt
    <3> QED
      BY <3>1, <3>2
  <2> QED
    BY <2>1, <2>4, <2>5 DEF derived, result
<1>12. CASE m # 0 /\ current(tokens, m) = op
  <2> DEFINE r == rest[m + 1][op]
  <2>1. m \in (i + 1)..last /\ m # last /\ m \in Nat
    <3>1. m \in (i + 1)..last
      BY <1>6, <1>12
    <3>2. op # "end"
      BY <1>0
    <3> QED
      BY <1>1, <1>12, <3>1, <3>2 DEF current, last
  <2>2. Reads(r, m + 1, last, depth)
    <3>1. m + 1 \in (i + 1)..last
      BY <1>1, <2>1
    <3> QED
      BY <1>0, <3>1 DEF last
  <2>3. result = IF Failed(r) THEN ConditionError ELSE Parsed(first.nodes \o r.nodes, r.index)
    BY <1>7, <1>12 DEF Operands, result, m
  <2>4. operand[j] = {}
    <3>1. m # j + 1
      BY <1>0, <1>12
    <3> QED
      BY <1>4, <1>9, <3>1
  <2>5. derived = IF m \in ks THEN Further(m) ELSE {}
    <3> HIDE DEF Further
    <3>1. CASE m \in ks
      <4>1. UNION {Further(k) : k \in ks} = Further(m)
        BY <1>10, <3>1
      <4> QED
        BY <1>3, <2>4, <3>1, <4>1
    <3>2. CASE m \notin ks
      <4>1. UNION {Further(k) : k \in ks} = {}
        BY <1>10, <3>2
      <4> QED
        BY <1>3, <2>4, <3>2, <4>1
    <3> QED
      BY <3>1, <3>2
  <2>6. m \in ks <=> m < j
    <3>1. m \in 1..Len(tokens)
      BY <1>1, <2>1 DEF last
    <3>2. tokens[m] = op
      BY <1>2, <1>12, <3>1
    <3> QED
      BY <1>1, <2>1, <3>2 DEF ks
  <2>7. ASSUME m < j
        PROVE  Further(m) = {Both(op, Meaning(first.nodes[1]), B) : B \in MeansAt(r, op, j)}
    <3>1. m + 1 \in (i + 1)..Len(tokens) /\ j \in (m + 1)..Len(tokens)
      BY <1>1, <2>1, <2>7 DEF last
    <3>2. others[m + 1][op][j] = MeansAt(r, op, j)
      BY <1>0, <3>1
    <3>3. operand[m - 1] = {Meaning(first.nodes[1])}
      BY <1>5, <1>8, <1>9, <1>12, <2>6, <2>7
    <3> HIDE DEF r
    <3> QED
      BY <3>2, <3>3
  <2> HIDE DEF r, Further
  <2>8. CASE Failed(r)
    <3>1. MeansAt(r, op, j) = {} /\ MeansAt(result, op, j) = {}
      BY <1>1, <2>3, <2>8, ErrorReads DEF MeansAt, Failed
    <3>2. derived = {}
      BY <2>5, <2>6, <2>7, <3>1
    <3> QED
      BY <3>1, <3>2 DEF derived, result
  <2>9. CASE ~Failed(r)
    <3>1. r.index \in (m + 2)..last /\ r.nodes \in Seq(Nodes[depth])
      BY <1>1, <2>1, <2>2, <2>9, ErrorReads DEF Reads
    <3>2. result.index = r.index /\ result.nodes = first.nodes \o r.nodes
      BY <2>3, <2>9 DEF Parsed
    <3>3. Combined(op, result.nodes) = Both(op, Meaning(first.nodes[1]), Combined(op, r.nodes))
      BY <1>0, <1>6, <1>12, <3>1, <3>2, CombinedSplits
    <3>4. CASE r.index = j + 1
      <4>1. m < j
        BY <1>1, <2>1, <3>1, <3>4
      <4>2. MeansAt(r, op, j) = {Combined(op, r.nodes)}
        BY <3>4 DEF MeansAt
      <4>3. derived = {Both(op, Meaning(first.nodes[1]), Combined(op, r.nodes))}
        BY <2>5, <2>6, <2>7, <4>1, <4>2
      <4>4. MeansAt(result, op, j) = {Combined(op, result.nodes)}
        BY <3>2, <3>4 DEF MeansAt
      <4> QED
        BY <3>3, <4>3, <4>4 DEF derived, result
    <3>5. CASE r.index # j + 1
      <4>1. MeansAt(r, op, j) = {} /\ MeansAt(result, op, j) = {}
        BY <3>2, <3>5 DEF MeansAt
      <4>2. derived = {}
        BY <2>5, <2>6, <2>7, <4>1
      <4> QED
        BY <4>1, <4>2 DEF derived, result
    <3> QED
      BY <3>4, <3>5
  <2> QED
    BY <2>8, <2>9
<1> QED
  BY <1>11, <1>12

\* What the parser reads at a position is what the grammar derives there.
LEMMA EntryAgrees ==
    ASSUME NEW tokens, Len(tokens) \in Nat, 2 * Len(tokens) < MaxDepth,
           NEW i \in 1..Len(tokens), NEW rest, NEW others,
           \A k \in (i + 1)..(Len(tokens) + 1) : ReadsFrom(rest[k], k, Len(tokens) + 1),
           \A k \in (i + 1)..Len(tokens) : Agree(tokens, rest[k], others[k], k)
    PROVE  Agree(tokens, ParsedFrom(tokens, i, rest), DerivedFrom(tokens, i, others), i)
<1> DEFINE last == Len(tokens) + 1
           depth == 2 * (last - i) - 1
           negation == parse_not(tokens, i, rest)
           chain == parse_and(tokens, i, rest)
           single == Single("and", chain)
           whole == parse_or(tokens, i, rest)
           negated == not_expr(tokens, i, others)
           conjunction == and_expr(tokens, i, others)
           disjunction == or_expr(tokens, i, others)
           entry == ParsedFrom(tokens, i, rest)
           derived == DerivedFrom(tokens, i, others)
<1>1. /\ MaxDepth \in Nat /\ i \in Nat /\ last \in Nat /\ depth \in 0..MaxDepth
      /\ depth + 1 \in 1..MaxDepth /\ depth + 1 \in 0..MaxDepth /\ (depth + 1) - 1 = depth
      /\ i \in 1..(last - 1) /\ 2 * (last - 1) < MaxDepth /\ depth + 1 = 2 * (last - i)
      /\ i \in 1..last
  BY ConditionAssumption
<1>2. entry["not"] = negation /\ entry["and"] = chain /\ entry["or"] = whole
  BY DEF ParsedFrom
<1>3. derived["not"] = negated /\ derived["and"] = conjunction /\ derived["or"] = disjunction
  BY DEF DerivedFrom
<1>4. /\ chain = Operands("and", negation, tokens, rest)
      /\ whole = Operands("or", single, tokens, rest)
      /\ conjunction = Chain("and", negated, tokens, i, others)
      /\ disjunction = Chain("or", conjunction, tokens, i, others)
  BY DEF parse_and, parse_or, and_expr, or_expr
<1>5. ReadsOne(negation, i, last, depth) /\ Reads(chain, i, last, depth)
  <2>1. ReadsFrom(entry, i, last)
    BY <1>1, EntryReads
  <2> HIDE DEF entry, depth
  <2> QED
    BY <1>2, <2>1 DEF ReadsFrom, depth
<1>6. /\ \A k \in (i + 1)..last : Reads(rest[k]["and"], k, last, depth)
      /\ \A k \in (i + 1)..last : Reads(rest[k]["or"], k, last, depth + 1)
  <2> SUFFICES ASSUME NEW k \in (i + 1)..last
               PROVE  Reads(rest[k]["and"], k, last, depth) /\ Reads(rest[k]["or"], k, last, depth + 1)
    OBVIOUS
  <2>1. ReadsFrom(rest[k], k, last)
    OBVIOUS
  <2> HIDE DEF last
  <2>2. Reads(rest[k]["and"], k, last, 2 * (last - i) - 1) /\ Reads(rest[k]["or"], k, last, 2 * (last - i))
    BY <1>1, <2>1, RestReads
  <2> QED
    BY <1>1, <2>2
<1>7. /\ ReadsOne(single, i, last, depth + 1) /\ single.index = chain.index
      /\ Failed(single) <=> Failed(chain)
      /\ ~Failed(chain) => Meaning(single.nodes[1]) = Combined("and", chain.nodes)
  <2> DEFINE deep == depth + 1
  <2>1. deep \in 1..MaxDepth /\ Reads(chain, i, last, deep - 1)
    BY <1>1, <1>5
  <2> HIDE DEF last, depth, chain, deep
  <2>2. /\ ReadsOne(Single("and", chain), i, last, deep)
        /\ Single("and", chain).index = chain.index
        /\ Failed(Single("and", chain)) <=> Failed(chain)
        /\ ~Failed(chain) => Meaning(Single("and", chain).nodes[1]) = Combined("and", chain.nodes)
    BY <1>1, <2>1, SingleReads
  <2> QED
    BY <2>2 DEF deep
<1>8. \A k \in i..Len(tokens) : negated[k] = MeansAt(negation, "and", k)
  BY NegationAgrees
<1> HIDE DEF negation, chain, single, whole, negated, conjunction, disjunction, entry, derived, depth
<1>9. ASSUME NEW j \in i..Len(tokens), current(tokens, j + 1) # "and"
      PROVE  conjunction[j] = MeansAt(chain, "and", j)
  <2>1. \A k \in (i + 1)..Len(tokens) : j \in k..Len(tokens) =>
           others[k]["and"][j] = MeansAt(rest[k]["and"], "and", j)
    BY <1>9 DEF Agree
  <2>2. OperandsAgree("and", tokens, i, j, rest, others, negation, negated, depth, {"and"})
    BY <1>5, <1>6, <1>8, <1>9, <2>1 DEF OperandsAgree
  <2>3. Chain("and", negated, tokens, i, others)[j] =
        MeansAt(Operands("and", negation, tokens, rest), "and", j)
    BY <2>2, ChainAgrees
  <2> QED
    BY <1>4, <2>3
<1>10. \A k : MeansAt(single, "and", k) = MeansAt(chain, "and", k)
  <2>1. CASE Failed(chain)
    <3>1. single = ConditionError /\ chain = ConditionError
      BY <1>5, <1>7, <2>1 DEF Failed, ReadsOne, Reads
    <3> QED
      BY <3>1
  <2>2. CASE ~Failed(chain)
    <3>1. Combined("and", single.nodes) = Meaning(single.nodes[1])
      BY <1>7, <2>2, OneMeans
    <3> QED
      BY <1>7, <2>2, <3>1 DEF MeansAt
  <2> QED
    BY <2>1, <2>2
<1>11. ASSUME NEW j \in i..Len(tokens), current(tokens, j + 1) \notin {"and", "or"}
       PROVE  disjunction[j] = MeansAt(whole, "or", j)
  <2>1. \A k \in (i + 1)..Len(tokens) : j \in k..Len(tokens) =>
           others[k]["or"][j] = MeansAt(rest[k]["or"], "or", j)
    BY <1>11 DEF Agree
  <2>2. \A k \in i..Len(tokens) :
           current(tokens, k + 1) # "and" => conjunction[k] = MeansAt(single, "and", k)
    BY <1>9, <1>10
  <2>3. OperandsAgree("or", tokens, i, j, rest, others, single, conjunction, depth + 1, {"and", "or"})
    BY <1>6, <1>7, <1>11, <2>1, <2>2 DEF OperandsAgree
  <2>4. Chain("or", conjunction, tokens, i, others)[j] =
        MeansAt(Operands("or", single, tokens, rest), "or", j)
    BY <2>3, ChainAgrees
  <2> QED
    BY <1>4, <2>4
<1>12. Agree(tokens, entry, derived, i)
  BY <1>2, <1>3, <1>8, <1>9, <1>11 DEF Agree
<1> QED
  BY <1>12 DEF entry, derived

\* The parser accepts what the grammar derives, and the tree it builds means what
\* the derivation says.
LEMMA ParserFollowsGrammar ==
    ASSUME NEW tokens, Len(tokens) \in Nat, 2 * Len(tokens) < MaxDepth, tokens = <<>> <=> Len(tokens) = 0
    PROVE  LET result == parse_condition(tokens)
           IN  /\ Failed(result) => Expression(tokens) = {}
               /\ ~Failed(result) => result.nodes[1] \in Tree
                                     /\ Expression(tokens) = {Meaning(result.nodes[1])}
<1> DEFINE last == Len(tokens) + 1
           result == parse_condition(tokens)
<1>1. MaxDepth \in Nat /\ last \in Nat
  BY ConditionAssumption
<1>2. PICK P : /\ \A i \in 1..(Len(tokens) + 1) :
                     P[i] = ParsedFrom(tokens, i, [k \in (i + 1)..(Len(tokens) + 1) |-> P[k]])
               /\ parse_condition(tokens) =
                     IF Single("or", P[1]["or"]).index = Len(tokens) + 1
                     THEN Single("or", P[1]["or"]) ELSE ConditionError
  BY ParserReads
<1>3. PICK D : /\ \A i \in 1..Len(tokens) :
                     D[i] = DerivedFrom(tokens, i, [k \in (i + 1)..Len(tokens) |-> D[k]])
               /\ Expression(tokens) = IF tokens = <<>> THEN {} ELSE D[1]["or"][Len(tokens)]
  BY GrammarReads
<1>4. \A i \in 1..last : ReadsFrom(P[i], i, last)
  <2>1. ParsesTo(tokens, P)
    BY <1>2 DEF ParsesTo
  <2> QED
    BY <2>1, ParserReturns
<1> DEFINE whole == P[1]["or"]
           single == Single("or", whole)
           depth == 2 * (last - 1) + 1
<1>5. Reads(whole, 1, last, depth - 1) /\ depth \in 1..MaxDepth /\ depth \in 0..MaxDepth
      /\ MaxDepth \in 0..MaxDepth /\ depth <= MaxDepth
  <2>1. 1 \in 1..last /\ depth - 1 = 2 * (last - 1)
    BY <1>1
  <2>2. ReadsFrom(P[1], 1, last)
    BY <1>4, <2>1
  <2>3. Reads(whole, 1, last, 2 * (last - 1))
    BY <2>2 DEF ReadsFrom
  <2>4. depth \in 1..MaxDepth /\ depth \in 0..MaxDepth /\ MaxDepth \in 0..MaxDepth /\ depth <= MaxDepth
    BY <1>1
  <2> HIDE DEF whole, depth
  <2> QED
    BY <2>1, <2>3, <2>4
<1>6. result = IF single.index = last THEN single ELSE ConditionError
  BY <1>2
<1> HIDE DEF result, whole, depth
<1>7. /\ ReadsOne(single, 1, last, depth) /\ single.index = whole.index
      /\ ~Failed(whole) => Meaning(single.nodes[1]) = Combined("or", whole.nodes)
  <2> DEFINE first == 1
  <2>1. first \in Nat /\ last \in Nat /\ depth \in 1..MaxDepth /\ "or" \in {"and", "or"}
    BY <1>1, <1>5
  <2>3. Reads(whole, first, last, depth - 1)
    BY <1>5
  <2> HIDE DEF last, first, single
  <2>2. /\ ReadsOne(Single("or", whole), first, last, depth)
        /\ Single("or", whole).index = whole.index
        /\ ~Failed(whole) => Meaning(Single("or", whole).nodes[1]) = Combined("or", whole.nodes)
    BY <2>1, <2>3, SingleReads
  <2> QED
    BY <2>2 DEF first, single
<1>8. CASE tokens = <<>>
  <2>1. Len(tokens) = 0
    BY <1>8
  <2>2. whole = ConditionError
    BY <1>1, <1>5, <2>1 DEF Reads
  <2>3. single = ConditionError
    BY <2>2, ErrorReads DEF Single
  <2>4. result = ConditionError
    BY <1>6, <2>3
  <2> QED
    BY <1>3, <1>8, <2>4, ErrorReads DEF result
<1>9. CASE tokens # <<>>
  <2>1. Len(tokens) >= 1 /\ last # 0 /\ Len(tokens) \in 1..Len(tokens) /\ 1 \in 1..Len(tokens)
    BY <1>9
  <2>2. \A i \in 1..Len(tokens) : Agree(tokens, P[i], D[i], i)
    <3> DEFINE S == {m \in Nat : m < Len(tokens) =>
                        \A i \in (Len(tokens) - m)..Len(tokens) : Agree(tokens, P[i], D[i], i)}
    <3>1. ASSUME NEW i \in 1..Len(tokens), \A k \in (i + 1)..Len(tokens) : Agree(tokens, P[k], D[k], k)
          PROVE  Agree(tokens, P[i], D[i], i)
      <4> DEFINE rest == [k \in (i + 1)..(Len(tokens) + 1) |-> P[k]]
                 others == [k \in (i + 1)..Len(tokens) |-> D[k]]
      <4>1. P[i] = ParsedFrom(tokens, i, rest) /\ D[i] = DerivedFrom(tokens, i, others)
        BY <1>2, <1>3
      <4>2. \A k \in (i + 1)..(Len(tokens) + 1) : ReadsFrom(rest[k], k, Len(tokens) + 1)
        BY <1>4
      <4>3. \A k \in (i + 1)..Len(tokens) : Agree(tokens, rest[k], others[k], k)
        <5> SUFFICES ASSUME NEW k \in (i + 1)..Len(tokens) PROVE Agree(tokens, rest[k], others[k], k)
          OBVIOUS
        <5>1. k \in (i + 1)..(Len(tokens) + 1)
          OBVIOUS
        <5>2. rest[k] = P[k] /\ others[k] = D[k]
          BY <5>1
        <5> HIDE DEF rest, others
        <5> QED
          BY <3>1, <5>2
      <4> HIDE DEF rest, others
      <4> QED
        BY <4>1, <4>2, <4>3, EntryAgrees
    <3>2. 0 \in S
      <4> SUFFICES ASSUME NEW i \in (Len(tokens) - 0)..Len(tokens), 0 < Len(tokens)
                   PROVE Agree(tokens, P[i], D[i], i)
        OBVIOUS
      <4>1. i \in 1..Len(tokens) /\ \A k : k \notin (i + 1)..Len(tokens)
        OBVIOUS
      <4> QED
        BY <3>1, <4>1
    <3>3. ASSUME NEW m \in Nat, m \in S PROVE m + 1 \in S
      <4> SUFFICES ASSUME m + 1 < Len(tokens), NEW i \in (Len(tokens) - (m + 1))..Len(tokens)
                   PROVE  Agree(tokens, P[i], D[i], i)
        OBVIOUS
      <4>1. \A k \in (Len(tokens) - m)..Len(tokens) : Agree(tokens, P[k], D[k], k)
        BY <3>3
      <4>2. i \in 1..Len(tokens) /\ \A k \in (i + 1)..Len(tokens) : k \in (Len(tokens) - m)..Len(tokens)
        OBVIOUS
      <4> QED
        BY <3>1, <4>1, <4>2
    <3>4. Nat \subseteq S
      <4> HIDE DEF S
      <4> QED
        BY <3>2, <3>3, Climbs
    <3>5. Len(tokens) - 1 \in S /\ Len(tokens) - 1 < Len(tokens) /\ Len(tokens) - (Len(tokens) - 1) = 1
      BY <2>1, <3>4
    <3> QED
      BY <3>5
  <2>3. Agree(tokens, P[1], D[1], 1)
    BY <2>1, <2>2
  <2>4. current(tokens, Len(tokens) + 1) = "end"
    BY DEF current
  <2>5. D[1]["or"][Len(tokens)] = MeansAt(whole, "or", Len(tokens))
    BY <2>1, <2>3, <2>4 DEF Agree, whole
  <2>6. Expression(tokens) = IF whole.index = last THEN {Combined("or", whole.nodes)} ELSE {}
    BY <1>3, <1>9, <2>5 DEF MeansAt
  <2> HIDE DEF single, last
  <2>7. CASE whole.index = last
    <3>1. result = single /\ ~Failed(single) /\ ~Failed(whole)
      BY <1>6, <1>7, <2>1, <2>7 DEF Failed
    <3>2. Meaning(single.nodes[1]) = Combined("or", whole.nodes)
      BY <1>7, <3>1
    <3>3. single.nodes[1] \in Nodes[depth]
      <4>1. single.nodes \in Seq(Nodes[depth]) /\ single.nodes # <<>>
        BY <1>7, <3>1, ErrorReads DEF ReadsOne, Reads
      <4> QED
        BY <4>1
    <3>4. single.nodes[1] \in Tree
      BY <1>5, <3>3, NodesGrow DEF Tree
    <3> QED
      BY <2>6, <2>7, <3>1, <3>2, <3>4 DEF result
  <2>8. CASE whole.index # last
    <3>1. result = ConditionError
      BY <1>6, <1>7, <2>8
    <3> QED
      BY <2>6, <2>8, <3>1, ErrorReads DEF result
  <2> QED
    BY <2>7, <2>8
<1> QED
  BY <1>8, <1>9

---------------------------------------------------------------------------
(* The invariant *)

\* What a file is loaded as.
LEMMA FileLoads ==
    ASSUME NEW f \in Files, NEW r, r = from_dict(f)
    PROVE  /\ r.status = "loaded" =>
                /\ r.condition \in Tree /\ Expression(f.condition) = {Meaning(r.condition)}
                /\ r.detection \in [SelectionNames -> SelectionDef]
                /\ \A s \in SelectionNames : \A test \in Tests(r.detection[s]) : parse_field_spec(test)
           /\ r = RuleError =>
                \/ Expression(f.condition) = {}
                \/ \E s \in SelectionNames : \E test \in Tests(f.detection[s]) : ~parse_field_spec(test)
           /\ r # NoRule
<1> DEFINE tokens == f.condition
           result == parse_condition(tokens)
           accepted == /\ ~Failed(result)
                       /\ \A s \in SelectionNames : \A test \in Tests(f.detection[s]) : parse_field_spec(test)
<1>1. f \in File /\ 2 * Len(tokens) < MaxDepth
  BY RulesAssumption
<1>2. tokens \in Seq(STRING) /\ f.detection \in [SelectionNames -> SelectionDef]
  BY <1>1 DEF File
<1>3. Len(tokens) \in Nat /\ (tokens = <<>> <=> Len(tokens) = 0)
  BY <1>2
<1> HIDE DEF tokens
<1>4. /\ Failed(result) => Expression(tokens) = {}
      /\ ~Failed(result) => result.nodes[1] \in Tree /\ Expression(tokens) = {Meaning(result.nodes[1])}
  BY <1>1, <1>3, ParserFollowsGrammar
<1>5. r = IF accepted THEN [status |-> "loaded", condition |-> result.nodes[1],
                            detection |-> f.detection, telemetry |-> f.telemetry]
          ELSE RuleError
  BY Zenon DEF from_dict, tokens
<1> HIDE DEF result
<1>6. CASE accepted
  <2>1. /\ r.status = "loaded" /\ r.condition = result.nodes[1] /\ r.detection = f.detection
    BY <1>5, <1>6
  <2>2. r # RuleError /\ r # NoRule
    BY <2>1 DEF RuleError, NoRule
  <2> QED
    BY <1>2, <1>4, <1>6, <2>1, <2>2 DEF tokens
<1>7. CASE ~accepted
  <2>1. r = RuleError /\ r.status # "loaded" /\ r # NoRule
    BY <1>5, <1>7 DEF RuleError, NoRule
  <2> QED
    BY <1>4, <1>7, <2>1 DEF tokens
<1> QED
  BY <1>6, <1>7

\* The selections that a tree refers to are selections of the rule.
LEMMA NamesAreSelections ==
    ASSUME NEW node \in Tree
    PROVE  referenced_selections(node) \subseteq SelectionNames
<1> DEFINE S == {d \in Nat : d \in 0..MaxDepth =>
                    \A n \in Nodes[d] : referenced_selections(n) \subseteq SelectionNames}
<1>1. MaxDepth \in Nat /\ MaxDepth \in 0..MaxDepth
  BY ConditionAssumption
<1>2. ASSUME NEW n \in Tree, n.op = "ref" PROVE referenced_selections(n) \subseteq SelectionNames
  BY <1>2, TreeShape, NamesByShape
<1>3. 0 \in S
  <2> SUFFICES ASSUME 0 \in 0..MaxDepth, NEW n \in Nodes[0]
               PROVE  referenced_selections(n) \subseteq SelectionNames
    BY <1>1
  <2>1. n.op = "ref"
    BY NodeShape
  <2>2. n \in Tree
    BY <1>1, NodesGrow DEF Tree
  <2> QED
    BY <1>2, <2>1, <2>2
<1>4. ASSUME NEW d \in Nat, d \in S PROVE d + 1 \in S
  <2> SUFFICES ASSUME d + 1 \in 0..MaxDepth, NEW n \in Nodes[d + 1]
               PROVE  referenced_selections(n) \subseteq SelectionNames
    OBVIOUS
  <2>1. d \in 0..MaxDepth /\ (d + 1) - 1 = d
    BY <1>1
  <2>2. n \in Tree
    BY <1>1, NodesGrow DEF Tree
  <2>3. CASE n.op = "ref"
    BY <1>2, <2>2, <2>3
  <2>4. CASE n.op # "ref"
    <3>1. \A i \in DOMAIN n.nodes : n.nodes[i] \in Nodes[d]
      BY <2>1, <2>4, NodeShape
    <3>2. \A i \in DOMAIN n.nodes : referenced_selections(n.nodes[i]) \subseteq SelectionNames
      BY <1>4, <2>1, <3>1
    <3> QED
      BY <2>2, <2>4, <3>2, NamesByShape
  <2> QED
    BY <2>3, <2>4
<1>5. Nat \subseteq S
  <2> HIDE DEF S
  <2> QED
    BY <1>3, <1>4, Climbs
<1> QED
  BY <1>1, <1>5 DEF Tree

\* What was compiled is what the loaded rule compiles to.
QueryInv ==
    /\ dialect = "fixture" \/ Expressible => \A e \in Events : e \in query.body <=> Predicate(e)
    /\ probe = IF query.scope = <<>> THEN NotCompiled ELSE Query(query.scope, Events)

\* The inductive invariant.
RuleInv ==
    /\ file \in Files
    /\ rule \in {NoRule, from_dict(file)}
    /\ dialect \in Dialects \cup {"none"} /\ eval_mode \in BOOLEAN
    /\ query # NotCompiled => Loaded /\ dialect # "none"
    /\ query.kind = "query" => QueryInv

\* A test compares by regular expression only if its modifiers say so.
LEMMA ComparisonIsModifier ==
    ASSUME NEW test, comparison(test) = "re"
    PROVE  "re" \in test.modifiers
<1>1. test.modifiers \cap COMPARISONS # {} /\
      (CHOOSE m \in COMPARISONS : m \in test.modifiers) = "re"
  BY DEF comparison
<1>2. \E m \in COMPARISONS : m \in test.modifiers
  BY <1>1
<1> QED
  BY <1>1, <1>2

\* The body of a query finds what the offline predicate matches.
LEMMA BodyMeans ==
    ASSUME RuleInv, Compile, dialect # "fixture", ~Refused, Expressible'
    PROVE  \A e \in Events : e \in _render(rule.condition) <=> Predicate(e)
<1> DEFINE node == rule.condition
           detection == rule.detection
<1>1. /\ node \in Tree /\ detection \in [SelectionNames -> SelectionDef]
      /\ \A s \in SelectionNames : \A test \in Tests(detection[s]) : parse_field_spec(test)
  <2>1. rule.status = "loaded" /\ file \in Files /\ rule = from_dict(file)
    BY DEF RuleInv, Compile, Loaded, NoRule
  <2> QED
    BY <2>1, FileLoads
<1>2. /\ eval_mode' = (dialect = "splunk" /\ _needs_eval)
      /\ dialect \in {"splunk", "elastic", "sentinel"}
      /\ rule' = rule /\ dialect' = dialect
  BY DEF RuleInv, Compile, compile, Dialects
<1>3. \A s \in referenced_selections(node) :
         /\ eval_mode' => detection[s].keywords = <<>>
         /\ \A test \in Tests(detection[s]) : \A i \in DOMAIN test.values :
               test.values # <<Null>> =>
                   /\ "cased" \in test.modifiers => dialect = "sentinel" /\ ~Has(test.values[i], Wild)
                   /\ eval_mode' /\ comparison(test) # "re" => ~Has(test.values[i], SqlWild)
  BY <1>2 DEF Expressible
<1>4. \A s \in referenced_selections(node) :
         /\ ~Unmatchable(detection[s])
         /\ \A test \in Tests(detection[s]) : test.values # <<>> \/ "exists" \in test.modifiers
  BY DEF Refused
<1>5. \A s \in referenced_selections(node) : s \in SelectionNames
  BY <1>1, NamesAreSelections
<1>6. ASSUME NEW s \in SelectionNames, NEW test \in Tests(detection[s])
      PROVE  test \in Test
  <2>1. detection[s].alternatives \in Seq(Seq(Test))
    BY <1>1 DEF SelectionDef
  <2>2. PICK a \in DOMAIN detection[s].alternatives :
           \E i \in DOMAIN detection[s].alternatives[a] : test = detection[s].alternatives[a][i]
    BY <1>6 DEF Tests
  <2>3. detection[s].alternatives[a] \in Seq(Test)
    BY <2>1
  <2> QED
    BY <2>2, <2>3
<1>7. ASSUME NEW s \in SelectionNames, NEW test \in Tests(detection[s])
      PROVE  /\ dialect = "splunk" /\ comparison(test) = "re" => eval_mode'
             /\ "cased" \in test.modifiers => comparison(test) # "re"
  <2>1. dialect = "splunk" /\ comparison(test) = "re" => eval_mode'
    BY <1>2, <1>7 DEF _needs_eval
  <2>2. ~({"cased", "re"} \subseteq test.modifiers)
    BY <1>1, <1>7 DEF parse_field_spec
  <2> QED
    BY <2>1, <2>2, ComparisonIsModifier
<1> HIDE DEF node, detection
<1>8. ASSUME NEW s \in referenced_selections(node)
      PROVE  Sayable(detection[s])
  <2>1. s \in SelectionNames /\ detection[s] \in SelectionDef
    BY <1>1, <1>5
  <2>2. ASSUME NEW test \in Tests(detection[s])
        PROVE  /\ test \in Test
               /\ test.values # <<>> \/ "exists" \in test.modifiers
               /\ test.values # <<Null>> => \A i \in DOMAIN test.values : Speaks(test, test.values[i])
    <3>1. test \in Test /\ (test.values # <<>> \/ "exists" \in test.modifiers)
      BY <1>4, <1>6, <2>1
    <3>2. ASSUME test.values # <<Null>>, NEW i \in DOMAIN test.values
          PROVE  Speaks(test, test.values[i])
      <4>1. /\ "cased" \in test.modifiers => dialect = "sentinel" /\ ~Has(test.values[i], Wild)
            /\ eval_mode' /\ comparison(test) # "re" => ~Has(test.values[i], SqlWild)
        BY <1>3, <3>2
      <4>2. /\ dialect = "splunk" /\ comparison(test) = "re" => eval_mode'
            /\ "cased" \in test.modifiers => comparison(test) # "re"
        BY <1>7, <2>1
      <4>3. eval_mode' \in BOOLEAN /\ (eval_mode' => dialect = "splunk")
        BY <1>2
      <4> QED
        BY <1>2, <4>1, <4>2, <4>3 DEF Speaks
    <3> QED
      BY <3>1, <3>2
  <2> QED
    BY <1>3, <1>4, <2>1, <2>2 DEF Sayable
<1>9. ASSUME NEW e \in Events
      PROVE  e \in _render(node) <=> Predicate(e)
  <2>1. \A s \in referenced_selections(node) : Sayable(rule.detection[s])
    BY <1>8 DEF detection
  <2>2. e \in _render(node) <=>
           Holds(node, {s \in SelectionNames : build_selection_predicate(rule.detection[s], e)})
    BY <1>1, <2>1, RenderMeans
  <2> QED
    BY <2>2 DEF Predicate, node
<1> QED
  BY <1>9 DEF node

---------------------------------------------------------------------------
(* The invariant and the theorems *)

LEMMA RuleStarts == RuleInit => RuleInv
<1> SUFFICES ASSUME RuleInit PROVE RuleInv
  OBVIOUS
<1>1. query = NotCompiled /\ query.kind # "query"
  BY DEF RuleInit, NotCompiled
<1>2. file \in Files /\ rule \in {NoRule, from_dict(file)}
  BY DEF RuleInit
<1>3. dialect \in Dialects \cup {"none"} /\ eval_mode \in BOOLEAN
  BY DEF RuleInit
<1> QED
  BY <1>1, <1>2, <1>3 DEF RuleInv

\* Compiling a rule, in any dialect, makes what the invariant says of a query.
LEMMA CompileKeepsRuleInv ==
    ASSUME RuleInv, Compile
    PROVE  RuleInv'
<1>1. /\ file' = file /\ rule' = rule /\ dialect' = dialect
      /\ Loaded /\ dialect # "none" /\ eval_mode' \in BOOLEAN
  BY DEF Compile, compile
<1>2. /\ file' \in Files /\ rule' \in {NoRule, from_dict(file')}
      /\ dialect' \in Dialects \cup {"none"} /\ Loaded'
  BY <1>1 DEF RuleInv, Loaded
<1>3. ASSUME query'.kind = "query"
      PROVE  QueryInv'
  <2>1. ~Refused /\ ~Untabled
    BY <1>3 DEF Compile, compile, CompileError, NotCompiled
  <2>2. query' = Query(Scope, IF dialect = "fixture" THEN {e \in Events : Predicate(e)}
                              ELSE _render(rule.condition))
    BY <2>1 DEF Compile, compile
  <2>3. /\ query'.scope = Scope
        /\ query'.body = IF dialect = "fixture" THEN {e \in Events : Predicate(e)}
                         ELSE _render(rule.condition)
    BY <2>2 DEF Query
  <2>4. \A e \in Events : Predicate(e)' <=> Predicate(e)
    BY <1>1 DEF Predicate
  <2>5. ASSUME (dialect = "fixture" \/ Expressible)', NEW e \in Events
        PROVE  e \in query'.body <=> Predicate(e)
    <3>1. CASE dialect = "fixture"
      BY <2>3, <3>1
    <3>2. CASE dialect # "fixture"
      <4>1. Expressible'
        BY <1>1, <2>5, <3>2
      <4> QED
        BY <2>1, <2>3, <3>2, <4>1, BodyMeans
    <3> QED
      BY <3>1, <3>2
  <2>6. probe' = IF query'.scope = <<>> THEN NotCompiled ELSE Query(query'.scope, Events)
    BY <2>1, <2>3 DEF Compile, compile_telemetry, Probed
  <2> QED
    BY <2>4, <2>5, <2>6 DEF QueryInv, Query, NotCompiled
<1> QED
  BY <1>1, <1>2, <1>3 DEF RuleInv

LEMMA StepKeepsRuleInv == RuleInv /\ [RuleNext]_ruleVars => RuleInv'
<1> SUFFICES ASSUME RuleInv, [RuleNext]_ruleVars
             PROVE  RuleInv'
  OBVIOUS
<1>1. CASE Load
  <2>1. query = NotCompiled /\ query' = NotCompiled
    BY <1>1 DEF RuleInv, Load, Loaded, NoRule
  <2> QED
    BY <1>1, <2>1 DEF RuleInv, Load, NotCompiled
<1>2. CASE get_compiler
  <2>1. query = NotCompiled /\ query' = NotCompiled
    BY <1>2 DEF RuleInv, get_compiler
  <2> QED
    BY <1>2, <2>1 DEF RuleInv, get_compiler, NotCompiled
<1>3. CASE Compile
  BY <1>3, CompileKeepsRuleInv
<1>4. CASE NextRule
  <2>1. file' \in Files
    BY <1>4, RulesAssumption DEF NextRule
  <2> QED
    BY <1>4, <2>1 DEF RuleInv, NextRule, NotCompiled
<1>5. CASE UNCHANGED ruleVars
  <2>1. /\ file' = file /\ rule' = rule /\ dialect' = dialect
        /\ eval_mode' = eval_mode /\ query' = query /\ probe' = probe
    BY <1>5 DEF ruleVars
  <2>2. Loaded' <=> Loaded
    BY <2>1 DEF Loaded
  <2>3. QueryInv => QueryInv'
    BY <2>1 DEF QueryInv, Expressible, Predicate
  <2> QED
    BY <2>1, <2>2, <2>3 DEF RuleInv
<1> QED
  BY <1>1, <1>2, <1>3, <1>4, <1>5 DEF RuleNext

\* A rule at hand is what its own file loads as, and a query that was compiled
\* finds what the offline predicate matches and has the probe of its scope.
THEOREM RuleInvariant == RuleSpec => []RuleInv
  BY RuleStarts, StepKeepsRuleInv, PTL DEF RuleSpec

\* The parser of condition.py accepts exactly the conditions its grammar derives,
\* and what it builds means what the derivation says, for every condition.
THEOREM ConditionsFollowGrammar == RuleSpec => []ConditionFollowsGrammar
<1>1. RuleInv => ConditionFollowsGrammar
  <2> SUFFICES ASSUME RuleInv
               PROVE  ConditionFollowsGrammar
    OBVIOUS
  <2>1. file \in Files /\ rule \in {NoRule, from_dict(file)}
    BY DEF RuleInv
  <2>2. ASSUME Loaded
        PROVE  Expression(file.condition) = {Meaning(rule.condition)}
    BY <2>1, <2>2, FileLoads DEF Loaded, NoRule
  <2>3. ASSUME rule = RuleError
        PROVE  \/ Expression(file.condition) = {}
               \/ \E s \in SelectionNames : \E test \in Tests(file.detection[s]) :
                     ~parse_field_spec(test)
    BY <2>1, <2>3, FileLoads DEF RuleError, NoRule
  <2> QED
    BY <2>2, <2>3 DEF ConditionFollowsGrammar
<1> QED
  BY <1>1, RuleInvariant, PTL

\* Every query a compiler emits, in the language of any of the platforms, finds
\* among the events of its scope exactly those the offline predicate matches,
\* unless that language cannot express the rule.
THEOREM QueriesMeanTheRule == RuleSpec => []QueryMeansTheRule
<1>1. RuleInv => QueryMeansTheRule
  BY DEF RuleInv, QueryInv, QueryMeansTheRule, Finds
<1> QED
  BY <1>1, RuleInvariant, PTL

\* A query confined to log sources has a probe, and the probe of the telemetry
\* finds whatever the query finds.
THEOREM ProbesCoverDetections == RuleSpec => []ProbeCoversDetection
<1>1. RuleInv => ProbeCoversDetection
  <2> SUFFICES ASSUME RuleInv, query.kind = "query"
               PROVE  /\ query.scope # <<>> => probe.kind = "query"
                      /\ probe.kind = "query" =>
                            \A e \in Events : Finds(query, e) => Finds(probe, e)
    BY DEF ProbeCoversDetection
  <2>1. probe = IF query.scope = <<>> THEN NotCompiled ELSE Query(query.scope, Events)
    BY DEF RuleInv, QueryInv
  <2>2. CASE query.scope = <<>>
    BY <2>1, <2>2 DEF NotCompiled
  <2>3. CASE query.scope # <<>>
    <3>1. probe.kind = "query" /\ probe.scope = query.scope /\ probe.body = Events
      BY <2>1, <2>3 DEF Query
    <3> QED
      BY <3>1 DEF Finds, Scoped
  <2> QED
    BY <2>2, <2>3
<1> QED
  BY <1>1, RuleInvariant, PTL

=============================================================================
