------------------------- MODULE Comprehension_proofs -------------------------
(***************************************************************************)
(* What a comprehension returns: those elements alone, all that are        *)
(* chosen, in the order they came in (OnlySelects).  It is defined by      *)
(* recursion, so there is first to be shown that a function satisfying the *)
(* recursion exists.  Induction is over sets of numbers (Climbs): the      *)
(* least number outside of a set that is closed under successor would have *)
(* a predecessor inside of it.                                             *)
(***************************************************************************)
EXTENDS Comprehension, Integers, TLAPS, WellFoundedInduction

---------------------------------------------------------------------------
(* Numbers *)

Less == {pair \in Nat \X Nat : pair[1] < pair[2]}

LEMMA LessIsWellFounded == IsWellFoundedOn(Less, Nat)
BY NatLessThanWellFounded DEF OpToRel, Less

\* Induction on a set of numbers.
LEMMA Climbs ==
    ASSUME NEW S, 0 \in S, \A n \in Nat : n \in S => n + 1 \in S
    PROVE  Nat \subseteq S
<1> SUFFICES ASSUME NEW k \in Nat, k \notin S PROVE FALSE
  OBVIOUS
<1> DEFINE T == Nat \ S
<1>1. T \subseteq Nat /\ T # {}
  OBVIOUS
<1>2. \E n \in T : \A m \in T : ~(<<m, n>> \in Less)
  <2> HIDE DEF T
  <2> QED
    BY <1>1, LessIsWellFounded, WFMin
<1>3. PICK n \in T : \A m \in T : ~(<<m, n>> \in Less)
  BY <1>2
<1>4. n \in Nat /\ n # 0 /\ n - 1 \in Nat /\ n - 1 < n
  BY <1>3
<1>5. n - 1 \in T
  <2>1. (n - 1) + 1 = n
    BY <1>4
  <2> QED
    BY <1>3, <1>4, <2>1
<1> QED
  BY <1>3, <1>4, <1>5 DEF Less

\* A set of integers with a lower bound has a least element.
LEMMA LeastElement ==
    ASSUME NEW S, S \subseteq Int, S # {}, NEW bound \in Int, \A x \in S : bound <= x
    PROVE  \E x \in S : \A y \in S : x <= y
<1> DEFINE T == {x - bound : x \in S}
<1>1. T \subseteq Nat /\ T # {}
  <2>1. \A x \in S : x - bound \in Nat
    OBVIOUS
  <2>2. T # {}
    <3>1. PICK x \in S : TRUE
      OBVIOUS
    <3>2. x - bound \in T
      OBVIOUS
    <3> QED
      BY <3>2
  <2> QED
    BY <2>1, <2>2
<1>2. \E n \in T : \A m \in T : ~(<<m, n>> \in Less)
  <2> HIDE DEF T
  <2> QED
    BY <1>1, LessIsWellFounded, WFMin
<1>3. PICK n \in T : \A m \in T : ~(<<m, n>> \in Less)
  BY <1>2
<1>4. \A m \in T : n <= m
  <2> SUFFICES ASSUME NEW m \in T PROVE n <= m
    OBVIOUS
  <2>1. m \in Nat /\ n \in Nat /\ ~(<<m, n>> \in Less)
    BY <1>1, <1>3
  <2> HIDE DEF T
  <2>2. ~(m < n)
    BY <2>1 DEF Less
  <2> QED
    BY <2>1, <2>2
<1>5. PICK x \in S : n = x - bound
  BY <1>3
<1>6. \A y \in S : x <= y
  <2> SUFFICES ASSUME NEW y \in S PROVE x <= y
    OBVIOUS
  <2>1. n <= y - bound
    BY <1>4
  <2> QED
    BY <1>5, <2>1
<1> QED
  BY <1>6

---------------------------------------------------------------------------
(* Comprehensions *)

\* f is the recursive function of the definition of Only, up to last.
Kept(s, chosen, f, last) ==
    f = [n \in 0..last |->
            IF n = 0 THEN <<>>
            ELSE IF s[n] \in chosen THEN Append(f[n - 1], s[n]) ELSE f[n - 1]]

LEMMA KeptExists ==
    ASSUME NEW s, NEW chosen, NEW last \in Nat
    PROVE  \E f : Kept(s, chosen, f, last)
<1> DEFINE S == {m \in Nat : \E f : Kept(s, chosen, f, m)}
<1>1. 0 \in S
  <2>1. Kept(s, chosen, [n \in 0..0 |-> <<>>], 0)
    BY DEF Kept
  <2> QED
    BY <2>1
<1>2. ASSUME NEW m \in Nat, m \in S PROVE m + 1 \in S
  <2>1. PICK f : Kept(s, chosen, f, m)
    BY <1>2
  <2> DEFINE g == [n \in 0..(m + 1) |->
                     IF n = m + 1
                     THEN IF s[n] \in chosen THEN Append(f[m], s[n]) ELSE f[m]
                     ELSE f[n]]
  <2>2. Kept(s, chosen, g, m + 1)
    <3>1. ASSUME NEW n \in 0..(m + 1)
          PROVE  g[n] = IF n = 0 THEN <<>>
                        ELSE IF s[n] \in chosen THEN Append(g[n - 1], s[n]) ELSE g[n - 1]
      <4>1. CASE n = m + 1
        <5>1. g[n - 1] = f[m] /\ n # 0
          BY <4>1
        <5> QED
          BY <4>1, <5>1
      <4>2. CASE n # m + 1
        <5>1. n \in 0..m /\ g[n] = f[n]
          BY <4>2
        <5>2. n # 0 => n - 1 \in 0..(m + 1) /\ n - 1 # m + 1 /\ g[n - 1] = f[n - 1]
          BY <4>2
        <5> QED
          BY <2>1, <5>1, <5>2 DEF Kept
      <4> QED
        BY <4>1, <4>2
    <3>2. DOMAIN g = 0..(m + 1) /\ g = [n \in DOMAIN g |-> g[n]]
      OBVIOUS
    <3> HIDE DEF g
    <3>3. g = [n \in 0..(m + 1) |-> IF n = 0 THEN <<>>
                        ELSE IF s[n] \in chosen THEN Append(g[n - 1], s[n]) ELSE g[n - 1]]
      BY <3>1, <3>2
    <3> QED
      BY <3>3 DEF Kept
  <2> QED
    BY <2>2
<1>3. Nat \subseteq S
  <2> HIDE DEF S
  <2> QED
    BY <1>1, <1>2, Climbs
<1> QED
  BY <1>3

LEMMA OnlyIsKept ==
    ASSUME NEW S, NEW s \in Seq(S), NEW chosen
    PROVE  \E f : Kept(s, chosen, f, Len(s)) /\ Only(s, chosen) = f[Len(s)]
<1>1. Len(s) \in Nat
  OBVIOUS
<1>2. \E f : Kept(s, chosen, f, Len(s))
  BY <1>1, KeptExists
<1> DEFINE f == CHOOSE f : Kept(s, chosen, f, Len(s))
<1>3. Kept(s, chosen, f, Len(s))
  BY <1>2
<1>4. Only(s, chosen) = f[Len(s)]
  BY Zenon DEF Only, Kept
<1> QED
  BY <1>3, <1>4

\* t is a selection from the first n elements of s: of those alone, all that are
\* chosen, and in the order of s.
Selection(s, chosen, t, n) ==
    /\ Len(t) <= n
    /\ \A a \in 1..Len(t) : t[a] \in chosen /\ \E i \in 1..n : t[a] = s[i]
    /\ \A i \in 1..n : s[i] \in chosen => \E a \in 1..Len(t) : t[a] = s[i]
    /\ \A a, b \in 1..Len(t) : a < b => \E i, j \in 1..n : i < j /\ t[a] = s[i] /\ t[b] = s[j]

LEMMA SelectionGrows ==
    ASSUME NEW S, NEW s \in Seq(S), NEW chosen, NEW n \in Nat, n + 1 \in 1..Len(s),
           NEW t \in Seq(S), Selection(s, chosen, t, n),
           NEW u, u = IF s[n + 1] \in chosen THEN Append(t, s[n + 1]) ELSE t
    PROVE  u \in Seq(S) /\ Selection(s, chosen, u, n + 1)
<1>1. s[n + 1] \in S /\ Len(t) \in Nat
  OBVIOUS
<1>2. CASE s[n + 1] \notin chosen
  <2>1. u = t
    BY <1>2
  <2>2. \A i \in 1..(n + 1) : s[i] \in chosen => i \in 1..n
    BY <1>2
  <2>3. \A i \in 1..n : i \in 1..(n + 1)
    OBVIOUS
  <2>4. Len(t) <= n + 1
    BY <1>1 DEF Selection
  <2>5. \A a \in 1..Len(t) : t[a] \in chosen /\ \E i \in 1..(n + 1) : t[a] = s[i]
    BY <2>3 DEF Selection
  <2>6. \A i \in 1..(n + 1) : s[i] \in chosen => \E a \in 1..Len(t) : t[a] = s[i]
    BY <2>2 DEF Selection
  <2>7. \A a, b \in 1..Len(t) : a < b =>
           \E i, j \in 1..(n + 1) : i < j /\ t[a] = s[i] /\ t[b] = s[j]
    BY <2>3 DEF Selection
  <2> QED
    BY <2>1, <2>4, <2>5, <2>6, <2>7 DEF Selection
<1>3. CASE s[n + 1] \in chosen
  <2> DEFINE m == Len(t) + 1
  <2>1. /\ u \in Seq(S) /\ Len(u) = m /\ u[m] = s[n + 1]
        /\ \A a \in 1..Len(t) : u[a] = t[a]
    BY <1>1, <1>3
  <2>2. m \in Nat /\ \A a \in 1..m : a \in 1..Len(t) \/ a = m
    BY <1>1
  <2>3. \A i \in 1..(n + 1) : i \in 1..n \/ i = n + 1
    OBVIOUS
  <2>4. (\A i \in 1..n : i \in 1..(n + 1) /\ i < n + 1) /\ n + 1 \in 1..(n + 1)
    OBVIOUS
  <2>5. Len(u) <= n + 1
    BY <1>1, <2>1 DEF Selection
  <2>6. \A a \in 1..m : u[a] \in chosen /\ \E i \in 1..(n + 1) : u[a] = s[i]
    <3> SUFFICES ASSUME NEW a \in 1..m
                 PROVE  u[a] \in chosen /\ \E i \in 1..(n + 1) : u[a] = s[i]
      OBVIOUS
    <3>1. CASE a = m
      BY <1>3, <2>1, <2>4, <3>1
    <3>2. CASE a \in 1..Len(t)
      <4>1. t[a] \in chosen /\ \E i \in 1..n : t[a] = s[i]
        BY <3>2 DEF Selection
      <4> QED
        BY <2>1, <2>4, <3>2, <4>1
    <3> QED
      BY <2>2, <3>1, <3>2
  <2>7. \A i \in 1..(n + 1) : s[i] \in chosen => \E a \in 1..m : u[a] = s[i]
    <3> SUFFICES ASSUME NEW i \in 1..(n + 1), s[i] \in chosen
                 PROVE  \E a \in 1..m : u[a] = s[i]
      OBVIOUS
    <3>1. CASE i = n + 1
      <4>1. m \in 1..m
        BY <1>1
      <4> QED
        BY <2>1, <3>1, <4>1
    <3>2. CASE i \in 1..n
      <4>1. PICK a \in 1..Len(t) : t[a] = s[i]
        BY <3>2 DEF Selection
      <4>2. a \in 1..m
        BY <1>1
      <4> QED
        BY <2>1, <4>1, <4>2
    <3> QED
      BY <2>3, <3>1, <3>2
  <2>8. \A a, b \in 1..m : a < b =>
           \E i, j \in 1..(n + 1) : i < j /\ u[a] = s[i] /\ u[b] = s[j]
    <3> SUFFICES ASSUME NEW a \in 1..m, NEW b \in 1..m, a < b
                 PROVE  \E i, j \in 1..(n + 1) : i < j /\ u[a] = s[i] /\ u[b] = s[j]
      OBVIOUS
    <3>1. a \in 1..Len(t)
      BY <1>1
    <3>2. CASE b = m
      <4>1. PICK i \in 1..n : t[a] = s[i]
        BY <3>1 DEF Selection
      <4> QED
        BY <2>1, <2>4, <3>1, <3>2, <4>1
    <3>3. CASE b \in 1..Len(t)
      <4>1. PICK i \in 1..n, j \in 1..n : i < j /\ t[a] = s[i] /\ t[b] = s[j]
        BY <3>1, <3>3 DEF Selection
      <4> QED
        BY <2>1, <2>4, <3>1, <3>3, <4>1
    <3> QED
      BY <2>2, <3>2, <3>3
  <2> HIDE DEF m
  <2> QED
    BY <2>1, <2>5, <2>6, <2>7, <2>8 DEF Selection
<1> QED
  BY <1>2, <1>3

\* What a comprehension returns.
LEMMA OnlySelects ==
    ASSUME NEW S, NEW s \in Seq(S), NEW chosen
    PROVE  Only(s, chosen) \in Seq(S) /\ Selection(s, chosen, Only(s, chosen), Len(s))
<1>1. PICK f : Kept(s, chosen, f, Len(s)) /\ Only(s, chosen) = f[Len(s)]
  BY OnlyIsKept
<1> DEFINE T == {n \in Nat : n <= Len(s) => f[n] \in Seq(S) /\ Selection(s, chosen, f[n], n)}
<1>2. 0 \in T
  <2>1. f[0] = <<>>
    BY <1>1 DEF Kept
  <2>2. Selection(s, chosen, <<>>, 0)
    BY DEF Selection
  <2>3. f[0] \in Seq(S) /\ Selection(s, chosen, f[0], 0)
    BY <2>1, <2>2
  <2> QED
    BY <2>3
<1>3. ASSUME NEW n \in Nat, n \in T PROVE n + 1 \in T
  <2> SUFFICES ASSUME n + 1 <= Len(s)
               PROVE  f[n + 1] \in Seq(S) /\ Selection(s, chosen, f[n + 1], n + 1)
    OBVIOUS
  <2>1. n + 1 \in 1..Len(s) /\ n <= Len(s)
    OBVIOUS
  <2>2. f[n + 1] = IF s[n + 1] \in chosen THEN Append(f[n], s[n + 1]) ELSE f[n]
    <3>1. n + 1 \in 0..Len(s) /\ n + 1 # 0 /\ (n + 1) - 1 = n
      BY <2>1
    <3> QED
      BY <1>1, <3>1 DEF Kept
  <2>3. f[n] \in Seq(S) /\ Selection(s, chosen, f[n], n)
    BY <1>3, <2>1
  <2> QED
    BY <2>1, <2>2, <2>3, SelectionGrows
<1>4. Len(s) \in T
  <2> HIDE DEF T
  <2>1. Nat \subseteq T
    BY <1>2, <1>3, Climbs
  <2> QED
    BY <2>1
<1> QED
  BY <1>1, <1>4

=============================================================================
