------------------------------ MODULE SetFacts ------------------------------
(***************************************************************************)
(* Facts about numbers and functions that the proofs of several modules    *)
(* need: there is a least number in a set, and so induction over numbers,  *)
(* with sets in the place of predicates, and functions by recursion, from  *)
(* the place before or from a later one.                                   *)
(***************************************************************************)
EXTENDS Integers, FiniteSetTheorems, WellFoundedInduction, TLAPS

\* A set of numbers that is not empty has a least element.
LEMMA LeastExists ==
  ASSUME NEW S \in SUBSET Nat, S # {}
  PROVE  \E j \in S : \A i \in S : j <= i
<1> DEFINE R == {ss \in Nat \X Nat : ss[1] < ss[2]}
<1>1. IsWellFoundedOn(R, Nat)
  BY NatLessThanWellFounded DEF OpToRel
<1>2. PICK x \in S : \A y \in S : ~ (<<y, x>> \in R)
  <2> HIDE DEF R
  <2> QED
    BY <1>1, WFMin
<1>3. \A y \in S : x \in Nat /\ y \in Nat /\ ~ (y < x)
  BY <1>2
<1> QED
  BY <1>3

\* Induction: a set with 0, and with the next of each of its numbers, has all
\* numbers up to N.
LEMMA InductionUpTo ==
  ASSUME NEW N \in Nat, NEW S, 0 \in S,
         \A n \in 0 .. N - 1 : n \in S => n + 1 \in S
  PROVE  \A n \in 0 .. N : n \in S
<1> SUFFICES ASSUME NEW m \in 0 .. N, m \notin S PROVE FALSE
  OBVIOUS
<1> DEFINE B == {n \in 0 .. N : n \notin S}
<1>1. PICK k \in B : \A i \in B : k <= i
  <2>1. B \in SUBSET Nat /\ B # {}
    OBVIOUS
  <2> HIDE DEF B
  <2> QED
    BY <2>1, LeastExists
<1>2. k - 1 \in 0 .. N - 1 /\ k - 1 \in S
  BY <1>1
<1> QED
  BY <1>1, <1>2

\* The function g that starts with a and goes on with f.
IsRecursion(g, N, a, f) == g = [i \in 0 .. N |-> IF i = 0 THEN a ELSE f[<<i, g[i - 1]>>]]

\* Recursion: there is a function that is defined by where it starts and by how
\* each value comes from the one before.
LEMMA RecursionExists ==
  ASSUME NEW N \in Nat, NEW S, NEW a \in S, NEW f \in [(1 .. N) \X S -> S]
  PROVE  \E g \in [0 .. N -> S] : IsRecursion(g, N, a, f)
<1> DEFINE X == {M \in 0 .. N : \E g \in [0 .. M -> S] : IsRecursion(g, M, a, f)}
<1>1. 0 \in X
  <2> DEFINE g == [i \in 0 .. 0 |-> a]
  <2>1. g \in [0 .. 0 -> S]
    OBVIOUS
  <2>2. IsRecursion(g, 0, a, f)
    BY DEF IsRecursion
  <2> QED
    BY <2>1, <2>2
<1>2. ASSUME NEW M \in 0 .. N - 1, M \in X PROVE M + 1 \in X
  <2>1. PICK g \in [0 .. M -> S] : IsRecursion(g, M, a, f)
    BY <1>2
  <2> DEFINE h == [i \in 0 .. M + 1 |-> IF i = M + 1 THEN f[<<M + 1, g[M]>>] ELSE g[i]]
  <2>2. h \in [0 .. M + 1 -> S]
    OBVIOUS
  <2>3. ASSUME NEW i \in 0 .. M + 1
        PROVE  h[i] = IF i = 0 THEN a ELSE f[<<i, h[i - 1]>>]
    <3>1. CASE i = 0
      BY <3>1, <2>1 DEF IsRecursion
    <3>2. CASE i = M + 1
      <4>1. h[M] = g[M] /\ h[M + 1] = f[<<M + 1, g[M]>>]
        OBVIOUS
      <4>2. i - 1 = M /\ i # 0
        BY <3>2
      <4> HIDE DEF h
      <4> QED
        BY <3>2, <4>1, <4>2
    <3>3. CASE i # 0 /\ i # M + 1
      <4>1. h[i] = g[i] /\ h[i - 1] = g[i - 1]
        BY <3>3
      <4>2. g[i] = f[<<i, g[i - 1]>>]
        BY <3>3, <2>1 DEF IsRecursion
      <4> QED
        BY <3>3, <4>1, <4>2
    <3> QED
      BY <3>1, <3>2, <3>3
  <2>4. IsRecursion(h, M + 1, a, f)
    <3> HIDE DEF h
    <3> QED
      BY <2>2, <2>3 DEF IsRecursion
  <2>5. M + 1 \in 0 .. N
    OBVIOUS
  <2> HIDE DEF h
  <2> QED
    BY <2>2, <2>4, <2>5
<1>3. N \in X
  <2> HIDE DEF X
  <2> QED
    BY <1>1, <1>2, InductionUpTo
<1> QED
  BY <1>3

\* The same when each value comes from the one before only.
LEMMA IterationExists ==
  ASSUME NEW N \in Nat, NEW S, NEW a \in S, NEW f \in [S -> S]
  PROVE  \E g \in [0 .. N -> S] : g = [i \in 0 .. N |-> IF i = 0 THEN a ELSE f[g[i - 1]]]
<1> DEFINE h == [x \in (1 .. N) \X S |-> f[x[2]]]
<1>1. h \in [(1 .. N) \X S -> S]
  OBVIOUS
<1>2. PICK g \in [0 .. N -> S] : IsRecursion(g, N, a, h)
  <2> HIDE DEF h
  <2> QED
    BY <1>1, RecursionExists
<1>3. \A i \in 0 .. N : (IF i = 0 THEN a ELSE h[<<i, g[i - 1]>>]) = IF i = 0 THEN a ELSE f[g[i - 1]]
  <2> TAKE i \in 0 .. N
  <2>1. CASE i = 0
    BY <2>1
  <2>2. CASE i # 0
    <3>1. i \in 1 .. N /\ i - 1 \in 0 .. N
      BY <2>2
    <3>2. <<i, g[i - 1]>> \in (1 .. N) \X S
      BY <3>1
    <3> QED
      BY <2>2, <3>2
  <2> QED
    BY <2>1, <2>2
<1> HIDE DEF h
<1>4. g = [i \in 0 .. N |-> IF i = 0 THEN a ELSE f[g[i - 1]]]
  BY <1>2, <1>3 DEF IsRecursion
<1> QED
  BY <1>4

\* A function that goes on at a later place until it is where it stops.
IsJump(g, a, N, Stop, to) == g = [i \in a .. N |-> IF i \in Stop THEN i ELSE g[to[i]]]

\* There is one function like that, and each of its values is a place to stop at, no
\* earlier than where it was asked for.
LEMMA JumpExists ==
  ASSUME NEW a \in Nat, NEW N \in Nat, a <= N, NEW Stop, NEW to,
         \A i \in (a .. N) \ Stop : to[i] \in i + 1 .. N
  PROVE  /\ \E g : IsJump(g, a, N, Stop, to)
         /\ \A g : IsJump(g, a, N, Stop, to) => \A i \in a .. N : g[i] \in i .. N /\ g[i] \in Stop
<1> DEFINE Body(g, i) == IF i \in Stop THEN i ELSE g[to[i]]
           Is(n, g) == g = [i \in N - n .. N |-> Body(g, i)]
           X == {n \in 0 .. N - a : \E g : Is(n, g)}
<1>0. N \in Stop
  BY Z3
<1>a. N - a \in Nat /\ N - (N - a) = a /\ N - 0 = N
  OBVIOUS
<1>1. 0 \in X
  <2> DEFINE g == [i \in N .. N |-> i]
  <2>1. g = [i \in N - 0 .. N |-> Body(g, i)]
    BY <1>0
  <2> QED
    BY <2>1, <1>a
<1>2. ASSUME NEW n \in 0 .. (N - a) - 1, n \in X PROVE n + 1 \in X
  <2>1. PICK g : Is(n, g)
    BY <1>2
  <2> DEFINE m == N - (n + 1)
             h == [i \in m .. N |-> Body(g, i)]
  <2>0. m \in a .. N /\ N - n = m + 1
    OBVIOUS
  <2> HIDE DEF m
  <2>2. ASSUME NEW i \in m .. N PROVE Body(g, i) = Body(h, i)
    <3>1. CASE i \in Stop
      BY <3>1
    <3>2. CASE i \notin Stop
      <4> DEFINE p == to[i]
      <4>1. p \in m + 1 .. N /\ p \in m .. N
        BY <3>2, <2>0
      <4> HIDE DEF p
      <4>2. g[p] = Body(g, p)
        BY <4>1, <2>0, <2>1
      <4>3. h[p] = Body(g, p)
        BY <4>1
      <4> QED
        BY <3>2, <4>2, <4>3 DEF p
    <3> QED
      BY <3>1, <3>2
  <2>3. h = [i \in m .. N |-> Body(h, i)]
    <3>1. h = [i \in m .. N |-> Body(g, i)]
      OBVIOUS
    <3> HIDE DEF h
    <3> QED
      BY <3>1, <2>2
  <2>4. n + 1 \in 0 .. N - a
    OBVIOUS
  <2> HIDE DEF h
  <2> QED
    BY <2>3, <2>4 DEF m
<1>3. \A n \in 0 .. N - a : n \in X
  <2> HIDE DEF X
  <2> QED
    BY <1>a, <1>1, <1>2, InductionUpTo
<1>4. \E g : IsJump(g, a, N, Stop, to)
  <2>1. N - a \in X
    BY <1>3, <1>a
  <2>2. PICK g : Is(N - a, g)
    BY <2>1
  <2> QED
    BY <2>2, <1>a DEF IsJump
<1>5. ASSUME NEW g, IsJump(g, a, N, Stop, to)
      PROVE  \A i \in a .. N : g[i] \in i .. N /\ g[i] \in Stop
  <2> DEFINE Good(i) == g[i] \in i .. N /\ g[i] \in Stop
             E == {n \in 0 .. N - a : \A i \in N - n .. N : Good(i)}
  <2>0. \A i \in a .. N : g[i] = IF i \in Stop THEN i ELSE g[to[i]]
    BY <1>5 DEF IsJump
  <2>1. 0 \in E
    BY <1>0, <1>a, <2>0
  <2>2. ASSUME NEW n \in 0 .. (N - a) - 1, n \in E PROVE n + 1 \in E
    <3> DEFINE m == N - (n + 1)
    <3>0. m \in a .. N /\ N - n = m + 1
      OBVIOUS
    <3> HIDE DEF m
    <3>1. Good(m)
      <4>1. CASE m \in Stop
        BY <4>1, <3>0, <2>0
      <4>2. CASE m \notin Stop
        <5>1. to[m] \in m + 1 .. N
          BY <4>2, <3>0
        <5>2. Good(to[m])
          BY <5>1, <3>0, <2>2
        <5>3. g[m] = g[to[m]]
          BY <4>2, <3>0, <2>0
        <5> QED
          BY <5>1, <5>2, <5>3, <3>0
      <4> QED
        BY <4>1, <4>2
    <3>2. \A i \in m .. N : i = m \/ i \in m + 1 .. N
      BY <3>0
    <3>3. n + 1 \in 0 .. N - a
      OBVIOUS
    <3>4. \A i \in m .. N : Good(i)
      <4> HIDE DEF Good
      <4> QED
        BY <2>2, <3>0, <3>1, <3>2 
    <3> HIDE DEF Good
    <3> QED
      BY <3>3, <3>4 DEF m
  <2>3. \A n \in 0 .. N - a : n \in E
    <3> HIDE DEF E
    <3> QED
      BY <1>a, <2>1, <2>2, InductionUpTo
  <2>4. N - a \in E
    BY <2>3, <1>a
  <2> QED
    BY <2>4, <1>a
<1> QED
  BY <1>4, <1>5
=============================================================================
