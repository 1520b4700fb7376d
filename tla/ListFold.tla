------------------------------ MODULE ListFold ------------------------------
(***************************************************************************)
(* A loop over a list: Step is its body, a value and the next element to   *)
(* the next value.  The value after every turn is a recursive function, so *)
(* that the proofs can follow a loop turn by turn.                         *)
(***************************************************************************)
EXTENDS Integers, Sequences, WellFoundedInduction, TLAPS

CONSTANT Step(_, _)

\* The value after k turns.
folded(first, list) ==
  LET after[k \in 0 .. Len(list)] == IF k = 0 THEN first ELSE Step(after[k - 1], list[k]) IN after

Fold(first, list) == folded(first, list)[Len(list)]
----------------------------------------------------------------------------
(* What the proofs need to know of a loop.                                 *)

\* A set of naturals that is not empty has a least element.
LEMMA LeastNatural ==
  ASSUME NEW T \in SUBSET Nat, T # {}
  PROVE  \E k \in T : \A j \in T : k <= j
<1>1. PICK k \in T : \A j \in T : ~ (<<j, k>> \in OpToRel(<, Nat))
  BY NatLessThanWellFounded, WFMin
<1>2. \A j \in T : ~ (j < k)
  BY <1>1 DEF OpToRel
<1>3. \A j \in T : j \in Nat /\ k \in Nat
  OBVIOUS
<1>4. \A j \in T : k <= j
  BY <1>2, <1>3
<1>5. QED BY <1>4

\* Induction over the turns of a loop, with the set of turns where something
\* holds instead of a predicate.
LEMMA TurnByTurn ==
  ASSUME NEW n \in Nat, NEW K, 0 \in K, \A k \in 1 .. n : k - 1 \in K => k \in K
  PROVE  \A k \in 0 .. n : k \in K
<1> DEFINE T == {k \in 0 .. n : k \notin K}
<1>1. SUFFICES ASSUME T # {} PROVE FALSE
  OBVIOUS
<1>2. PICK k \in T : \A j \in T : k <= j
  <2>1. T \in SUBSET Nat
    OBVIOUS
  <2> HIDE DEF T
  <2>2. QED BY <1>1, <2>1, LeastNatural
<1>3. k \in 1 .. n /\ k - 1 \in 0 .. n /\ ~ (k <= k - 1)
  OBVIOUS
<1>4. k - 1 \in K
  BY <1>2, <1>3
<1>5. QED BY <1>3, <1>4

\* The first m turns of the loop.
Turns(first, list, m, f) == f = [k \in 0 .. m |-> IF k = 0 THEN first ELSE Step(f[k - 1], list[k])]

\* A loop can be carried on to any number of turns.
LEMMA TurnsExist ==
  ASSUME NEW first, NEW list, NEW n \in Nat
  PROVE  \E f : Turns(first, list, n, f)
<1> DEFINE K == {m \in 0 .. n : \E f : Turns(first, list, m, f)}
<1>1. 0 \in K
  <2> DEFINE g == [k \in 0 .. 0 |-> first]
  <2>1. g = [k \in 0 .. 0 |-> IF k = 0 THEN first ELSE Step(g[k - 1], list[k])]
    OBVIOUS
  <2> HIDE DEF g
  <2>2. QED BY <2>1 DEF Turns
<1>2. ASSUME NEW m \in 1 .. n, m - 1 \in K PROVE m \in K
  <2>1. PICK f : f = [k \in 0 .. m - 1 |-> IF k = 0 THEN first ELSE Step(f[k - 1], list[k])]
    BY <1>2 DEF Turns
  <2> DEFINE g == [k \in 0 .. m |-> IF k = m THEN Step(f[m - 1], list[m]) ELSE f[k]]
  <2>2. \A k \in 0 .. m : g[k] = IF k = 0 THEN first ELSE Step(g[k - 1], list[k])
    <3>1. ASSUME NEW k \in 0 .. m PROVE g[k] = IF k = 0 THEN first ELSE Step(g[k - 1], list[k])
      <4>1. CASE k = 0
        <5>1. g[k] = f[k] /\ k \in 0 .. m - 1
          BY <4>1
        <5>2. f[k] = first
          BY <2>1, <4>1, <5>1
        <5>3. QED BY <4>1, <5>1, <5>2
      <4>2. CASE k \in 1 .. m - 1
        <5>1. g[k] = f[k] /\ g[k - 1] = f[k - 1] /\ k \in 0 .. m - 1 /\ k # 0
          BY <4>2
        <5>2. f[k] = Step(f[k - 1], list[k])
          BY <2>1, <5>1
        <5>3. QED BY <5>1, <5>2
      <4>3. CASE k = m
        <5>1. g[k] = Step(f[k - 1], list[k]) /\ g[k - 1] = f[k - 1] /\ k # 0
          BY <4>3
        <5>2. QED BY <5>1
      <4>4. QED BY <4>1, <4>2, <4>3
    <3>2. QED BY <3>1
  <2>3. g = [k \in 0 .. m |-> IF k = 0 THEN first ELSE Step(g[k - 1], list[k])]
    <3>1. g = [k \in 0 .. m |-> g[k]]
      OBVIOUS
    <3> HIDE DEF g
    <3>2. QED BY <2>2, <3>1
  <2> HIDE DEF g
  <2>4. QED BY <2>3 DEF Turns
<1>3. n \in K
  <2> HIDE DEF K
  <2>1. QED BY <1>1, <1>2, TurnByTurn
<1>4. QED BY <1>3

\* The value after a turn is what the body of the loop makes of the value
\* before it.
THEOREM FoldedSteps ==
  ASSUME NEW first, NEW list, Len(list) \in Nat
  PROVE  /\ folded(first, list)[0] = first
         /\ \A k \in 1 .. Len(list) : folded(first, list)[k] = Step(folded(first, list)[k - 1], list[k])
<1> DEFINE n == Len(list)
           f == folded(first, list)
<1>1. Turns(first, list, n, f)
  <2>1. f = CHOOSE g : Turns(first, list, n, g)
    BY DEF folded, Turns
  <2>2. \E g : Turns(first, list, n, g)
    BY TurnsExist
  <2> HIDE DEF f
  <2>3. QED BY <2>1, <2>2
<1> HIDE DEF f
<1>2. f = [k \in 0 .. n |-> IF k = 0 THEN first ELSE Step(f[k - 1], list[k])]
  BY <1>1 DEF Turns
<1>3. f[0] = first
  BY <1>2
<1>4. ASSUME NEW k \in 1 .. n PROVE f[k] = Step(f[k - 1], list[k])
  BY <1>2
<1>5. QED BY <1>3, <1>4 DEF f
=============================================================================
