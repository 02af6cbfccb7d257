---------------------------- MODULE FoldTheorems ----------------------------
(***************************************************************************)
(* Folds of a sequence, for proofs by induction on the sequence.  FoldLeft *)
(* of SequencesExt is the value for the whole domain of a function on its  *)
(* subsets (IsFold); that function exists, and its values for 1 .. k are   *)
(* the results after k elements.  A module that proves something about a   *)
(* fold instantiates this one with the operator of the fold, whose first   *)
(* argument is what the fold does not change.                              *)
(***************************************************************************)
EXTENDS Integers, WellFoundedInduction, NaturalsInduction, TLAPS

CONSTANT Op(_, _, _)

Greatest(S) == CHOOSE x \in S : \A y \in S : x >= y

\* The function that the fold of s by Op(c, _, _) takes its value from.
IsFold(f, c, base, s, len) ==
  f = [S \in SUBSET (1 .. len) |->
         IF S = {} THEN base ELSE Op(c, f[S \ {Greatest(S)}], s[Greatest(S)])]

\* The results after 0, 1, ... and all elements of the sequence.
IsRun(g, c, base, s, len) == g[0] = base /\ \A k \in 1 .. len : g[k] = Op(c, g[k - 1], s[k])

\* A set of numbers with 0 and the successors of its numbers holds all of them.
LEMMA SetInduction ==
  \A S : 0 \in S /\ (\A n \in Nat : n \in S => n + 1 \in S) => Nat \subseteq S
<1> SUFFICES ASSUME NEW S, 0 \in S, \A n \in Nat : n \in S => n + 1 \in S, Nat \ S # {}
             PROVE  FALSE
  OBVIOUS
<1>1. IsWellFoundedOn(OpToRel(<, Nat), Nat)
  BY NatLessThanWellFounded
<1>2. PICK x \in Nat \ S : \A y \in Nat \ S : ~(<<y, x>> \in OpToRel(<, Nat))
  BY <1>1, WFMin
<1>3. \A y \in Nat : y < x => <<y, x>> \in OpToRel(<, Nat)
  BY DEF OpToRel
<1>4. x - 1 \in Nat /\ x - 1 < x
  OBVIOUS
<1>5. x - 1 \in S
  BY <1>2, <1>3, <1>4
<1> QED BY <1>4, <1>5

\* The same for an interval.
LEMMA IntervalInduction ==
  \A len \in Nat : \A S : 0 \in S /\ (\A k \in 1 .. len : k - 1 \in S => k \in S) => 0 .. len \subseteq S
<1> SUFFICES ASSUME NEW len \in Nat, NEW S, 0 \in S, \A k \in 1 .. len : k - 1 \in S => k \in S
             PROVE  0 .. len \subseteq S
  OBVIOUS
<1> DEFINE T == {n \in Nat : n \in 0 .. len => n \in S}
<1>1. 0 \in T
  OBVIOUS
<1>2. ASSUME NEW n \in Nat, n \in T PROVE n + 1 \in T
  <2>1. CASE n + 1 \in 0 .. len
    <3>1. n \in 0 .. len /\ n + 1 \in 1 .. len /\ (n + 1) - 1 = n
      BY <2>1
    <3>2. n \in S
      BY <1>2, <3>1
    <3> QED BY <3>1, <3>2
  <2> QED BY <2>1
<1>3. Nat \subseteq T
  <2> HIDE DEF T
  <2> QED BY <1>1, <1>2, SetInduction
<1> QED BY <1>3

\* A set of numbers up to len that is not empty has a least and a greatest number.
LEMMA Extremes ==
  \A len \in Nat : \A S : S \subseteq 0 .. len /\ S # {} =>
     (\E x \in S : \A y \in S : x <= y) /\ (\E x \in S : \A y \in S : x >= y)
<1> SUFFICES ASSUME NEW len \in Nat, NEW S, S \subseteq 0 .. len, S # {}
             PROVE  (\E x \in S : \A y \in S : x <= y) /\ (\E x \in S : \A y \in S : x >= y)
  OBVIOUS
<1>0. \A x \in S : x \in Int /\ 0 <= x /\ x <= len
  OBVIOUS
<1> DEFINE R == {k \in 0 .. len : (\E x \in S : x <= k) => \E x \in S : \A y \in S : x <= y}
<1>1. 0 \in R
  <2> SUFFICES ASSUME NEW x \in S, x <= 0 PROVE \A y \in S : x <= y
    OBVIOUS
  <2>1. x = 0
    BY <1>0
  <2> QED BY <1>0, <2>1
<1>2. ASSUME NEW k \in 1 .. len, k - 1 \in R PROVE k \in R
  <2> SUFFICES ASSUME \E x \in S : x <= k PROVE \E x \in S : \A y \in S : x <= y
    OBVIOUS
  <2>1. CASE \E x \in S : x <= k - 1
    BY <1>2, <2>1
  <2>2. CASE \A x \in S : ~(x <= k - 1)
    <3>1. ASSUME NEW x \in S PROVE k <= x
      <4>1. x \in Int /\ ~(x <= k - 1)
        BY <1>0, <2>2
      <4> QED BY <4>1
    <3>2. k \in S
      BY <1>0, <3>1
    <3> QED BY <3>1, <3>2
  <2> QED BY <2>1, <2>2
<1>3. \E x \in S : \A y \in S : x <= y
  <2>1. 0 .. len \subseteq R
    <3> HIDE DEF R
    <3> QED BY <1>1, <1>2, IntervalInduction
  <2>2. len \in R
    BY <2>1
  <2>3. \E x \in S : x <= len
    BY <1>0
  <2> QED BY <2>2, <2>3
<1> DEFINE Q == {k \in 0 .. len : (\E x \in S : x >= len - k) => \E x \in S : \A y \in S : x >= y}
<1>4. 0 \in Q
  <2> SUFFICES ASSUME NEW x \in S, x >= len - 0 PROVE \A y \in S : x >= y
    OBVIOUS
  <2>1. x = len
    BY <1>0
  <2> QED BY <1>0, <2>1
<1>5. ASSUME NEW k \in 1 .. len, k - 1 \in Q PROVE k \in Q
  <2> SUFFICES ASSUME \E x \in S : x >= len - k PROVE \E x \in S : \A y \in S : x >= y
    OBVIOUS
  <2>1. CASE \E x \in S : x >= len - (k - 1)
    BY <1>5, <2>1
  <2>2. CASE \A x \in S : ~(x >= len - (k - 1))
    <3>1. ASSUME NEW x \in S PROVE len - k >= x
      <4>1. x \in Int /\ ~(x >= len - (k - 1))
        BY <1>0, <2>2
      <4> QED BY <4>1
    <3>2. len - k \in S
      BY <1>0, <3>1
    <3> QED BY <3>1, <3>2
  <2> QED BY <2>1, <2>2
<1>6. \E x \in S : \A y \in S : x >= y
  <2>1. 0 .. len \subseteq Q
    <3> HIDE DEF Q
    <3> QED BY <1>4, <1>5, IntervalInduction
  <2>2. len \in Q
    BY <2>1
  <2>3. \E x \in S : x >= len - len
    <3>1. PICK x \in S : x \in Int /\ 0 <= x
      BY <1>0
    <3>2. x >= len - len
      BY <3>1
    <3> QED BY <3>2
  <2> QED BY <2>2, <2>3
<1> QED BY <1>3, <1>6

\* The greatest element, where one is known.
LEMMA GreatestLemma ==
  ASSUME NEW S, NEW m \in Int, m \in S, S \subseteq Int, \A x \in S : x <= m
  PROVE  Greatest(S) = m
<1>1. \A y \in S : m >= y
  OBVIOUS
<1>2. Greatest(S) \in S /\ \A y \in S : Greatest(S) >= y
  BY <1>1 DEF Greatest
<1>3. Greatest(S) \in Int /\ Greatest(S) >= m /\ Greatest(S) <= m
  BY <1>2
<1> QED BY <1>3

\* The function exists, for a sequence of any length.
THEOREM FoldExists ==
  \A c, base, s : \A len \in Nat : \E f : IsFold(f, c, base, s, len)
<1> SUFFICES ASSUME NEW c, NEW base, NEW s
             PROVE  Nat \subseteq {n \in Nat : \E f : IsFold(f, c, base, s, n)}
  OBVIOUS
<1> DEFINE R == {n \in Nat : \E f : IsFold(f, c, base, s, n)}
<1>1. 0 \in R
  <2>1. \A S \in SUBSET (1 .. 0) : S = {}
    OBVIOUS
  <2>2. IsFold([S \in SUBSET (1 .. 0) |-> base], c, base, s, 0)
    BY <2>1 DEF IsFold
  <2> QED BY <2>2
<1>2. ASSUME NEW n \in Nat, n \in R PROVE n + 1 \in R
  <2>1. PICK f : IsFold(f, c, base, s, n)
    BY <1>2
  <2> DEFINE h == [S \in SUBSET (1 .. n + 1) |->
                     IF n + 1 \in S THEN Op(c, f[S \ {n + 1}], s[n + 1]) ELSE f[S]]
  <2>2. ASSUME NEW S \in SUBSET (1 .. n + 1)
        PROVE  h[S] = IF S = {} THEN base ELSE Op(c, h[S \ {Greatest(S)}], s[Greatest(S)])
    <3>1. CASE n + 1 \in S
      <4>1. S \subseteq Int /\ n + 1 \in Int /\ \A x \in S : x <= n + 1
        OBVIOUS
      <4>2. Greatest(S) = n + 1
        BY <3>1, <4>1, GreatestLemma
      <4>3. h[S \ {n + 1}] = f[S \ {n + 1}]
        OBVIOUS
      <4> QED BY <3>1, <4>2, <4>3
    <3>2. CASE n + 1 \notin S
      <4>1. S \in SUBSET (1 .. n) /\ h[S] = f[S]
        BY <3>2
      <4>2. h[S \ {Greatest(S)}] = f[S \ {Greatest(S)}]
        BY <3>2
      <4>3. f[S] = IF S = {} THEN base ELSE Op(c, f[S \ {Greatest(S)}], s[Greatest(S)])
        BY <2>1, <4>1 DEF IsFold
      <4> QED BY <4>1, <4>2, <4>3
    <3> QED BY <3>1, <3>2
  <2>3. IsFold(h, c, base, s, n + 1)
    BY <2>2 DEF IsFold
  <2> HIDE DEF h
  <2> QED BY <2>3
<1> HIDE DEF R
<1>3. Nat \subseteq R
  BY <1>1, <1>2, SetInduction
<1> QED BY <1>3 DEF R

\* The values for 1 .. k are the results after k elements.
LEMMA FoldRuns ==
  \A c, base, s, f : \A len \in Nat : IsFold(f, c, base, s, len) =>
     \E g : IsRun(g, c, base, s, len) /\ g[len] = f[1 .. len]
<1> SUFFICES ASSUME NEW c, NEW base, NEW s, NEW f, NEW len \in Nat, IsFold(f, c, base, s, len)
             PROVE  \E g : IsRun(g, c, base, s, len) /\ g[len] = f[1 .. len]
  OBVIOUS
<1> DEFINE g == [k \in 0 .. len |-> f[1 .. k]]
<1>1. \A S \in SUBSET (1 .. len) :
         f[S] = IF S = {} THEN base ELSE Op(c, f[S \ {Greatest(S)}], s[Greatest(S)])
  BY DEF IsFold
<1>2. g[0] = base
  <2>1. 1 .. 0 = {} /\ {} \in SUBSET (1 .. len)
    OBVIOUS
  <2>2. f[{}] = base
    BY <1>1
  <2> QED BY <2>1, <2>2
<1>3. ASSUME NEW k \in 1 .. len
      PROVE  g[k] = Op(c, g[k - 1], s[k])
  <2>1. Greatest(1 .. k) = k
    <3>1. k \in Int /\ k \in 1 .. k /\ 1 .. k \subseteq Int /\ \A x \in 1 .. k : x <= k
      OBVIOUS
    <3> QED BY <3>1, GreatestLemma
  <2>2. (1 .. k) \ {k} = 1 .. k - 1 /\ 1 .. k # {} /\ 1 .. k \in SUBSET (1 .. len)
    OBVIOUS
  <2>3. f[1 .. k] = Op(c, f[1 .. k - 1], s[k])
    BY <1>1, <2>1, <2>2
  <2> QED BY <2>3
<1>4. g[len] = f[1 .. len]
  OBVIOUS
<1> HIDE DEF g
<1> QED BY <1>2, <1>3, <1>4 DEF IsRun
=============================================================================
