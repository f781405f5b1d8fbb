------------------------------ MODULE FoldRule ------------------------------
(***************************************************************************)
(* What a loop over a sequence keeps.  Loop is Fold of Pages, for a step   *)
(* with up to two values that the loop does not change; a module names its *)
(* step by INSTANCE FoldRule WITH step <- ....                             *)
(***************************************************************************)
EXTENDS Naturals, Sequences, WellFoundedInduction, TLAPS

CONSTANT step(_, _, _, _)   \* two fixed values, what the loop has, an element

Loop(d, e, base, s) ==
  LET upTo[i \in 0 .. Len(s)] ==
        IF i = 0 THEN base ELSE CHOOSE next \in {step(d, e, last, s[i]) : last \in {upTo[i - 1]}} : TRUE
  IN upTo[Len(s)]

-----------------------------------------------------------------------------
\* Induction over the natural numbers, for a set and not for an operator.

LEMMA LeastNatural ==
  ASSUME NEW S, S \subseteq Nat, S # {}
  PROVE  \E n \in S : \A m \in S : n <= m
<1> DEFINE R == OpToRel(<, Nat)
<1>1. IsWellFoundedOn(R, Nat)
  BY NatLessThanWellFounded
<1>2. \E x \in S : \A y \in S : ~ (<<y, x>> \in R)
  BY <1>1, WFMin
<1>3. \A x, y \in Nat : <<y, x>> \in R <=> y < x
  BY DEF OpToRel
<1> HIDE DEF R
<1>4. PICK n \in S : \A m \in S : ~ (<<m, n>> \in R)
  BY <1>2
<1>5. \A m \in S : ~ (m < n)
  BY <1>3, <1>4
<1> QED BY <1>5

LEMMA NatSetInduction ==
  ASSUME NEW S, 0 \in S, \A n \in Nat : n \in S => n + 1 \in S
  PROVE  Nat \subseteq S
<1> DEFINE T == Nat \ S
<1> SUFFICES ASSUME T # {} PROVE FALSE
  OBVIOUS
<1>1. PICK n \in T : \A m \in T : n <= m
  BY LeastNatural
<1>2. n # 0 /\ n - 1 \in Nat /\ n - 1 \notin T
  BY <1>1
<1> QED BY <1>1, <1>2

-----------------------------------------------------------------------------
\* f holds what the loop has after each of its first n elements.
Steps(d, e, base, s, n, f) ==
  f = [i \in 0 .. n |-> IF i = 0 THEN base ELSE step(d, e, f[i - 1], s[i])]

LEMMA StepsExist ==
  ASSUME NEW d, NEW e, NEW base, NEW s, NEW m \in Nat
  PROVE  \E f : Steps(d, e, base, s, m, f)
<1> DEFINE Up(n) == \E f : f = [i \in 0 .. n |-> IF i = 0 THEN base ELSE step(d, e, f[i - 1], s[i])]
           S == {n \in Nat : Up(n)}
<1>1. 0 \in S
  <2> DEFINE f == [i \in 0 .. 0 |-> base]
  <2>1. f = [i \in 0 .. 0 |-> IF i = 0 THEN base ELSE step(d, e, f[i - 1], s[i])]
    OBVIOUS
  <2> QED BY <2>1
<1>2. ASSUME NEW n \in Nat, n \in S PROVE n + 1 \in S
  <2>1. PICK f : f = [i \in 0 .. n |-> IF i = 0 THEN base ELSE step(d, e, f[i - 1], s[i])]
    BY <1>2
  <2> DEFINE g == [i \in 0 .. n + 1 |-> IF i <= n THEN f[i] ELSE step(d, e, f[n], s[i])]
  <2>2. g = [i \in 0 .. n + 1 |-> IF i = 0 THEN base ELSE step(d, e, g[i - 1], s[i])]
    <3>1. \A i \in 0 .. n : g[i] = f[i]
      OBVIOUS
    <3>2. ASSUME NEW i \in 0 .. n + 1
          PROVE  g[i] = IF i = 0 THEN base ELSE step(d, e, g[i - 1], s[i])
      <4>1. CASE i = n + 1
        BY <3>1, <4>1
      <4>2. CASE i # n + 1
        <5>1. f[i] = IF i = 0 THEN base ELSE step(d, e, f[i - 1], s[i])
          BY <2>1, <4>2
        <5> QED BY <3>1, <4>2, <5>1
      <4> QED BY <4>1, <4>2
    <3> HIDE DEF g
    <3>3. g = [i \in 0 .. n + 1 |-> g[i]]
      BY DEF g
    <3> QED BY <3>2, <3>3, Zenon
  <2> HIDE DEF g
  <2>3. Up(n + 1)
    BY <2>2, Zenon
  <2> QED BY <2>3
<1> HIDE DEF S
<1>3. Nat \subseteq S
  BY <1>1, <1>2, NatSetInduction
<1>4. Up(m)
  BY <1>3 DEF S
<1> QED BY <1>4, Zenon DEF Steps

LEMMA ChooseMapped ==
  ASSUME NEW d, NEW e, NEW x, NEW y
  PROVE  (CHOOSE next \in {step(d, e, last, y) : last \in {x}} : TRUE) = step(d, e, x, y)
<1>1. {step(d, e, last, y) : last \in {x}} = {step(d, e, x, y)}
  OBVIOUS
<1> QED BY <1>1

LEMMA LoopUnrolls ==
  ASSUME NEW d, NEW e, NEW base, NEW s, Len(s) \in Nat
  PROVE  \E f : /\ f[0] = base
                /\ \A i \in 1 .. Len(s) : f[i] = step(d, e, f[i - 1], s[i])
                /\ Loop(d, e, base, s) = f[Len(s)]
<1> DEFINE f == CHOOSE g : g = [i \in 0 .. Len(s) |-> IF i = 0 THEN base ELSE
                   CHOOSE next \in {step(d, e, last, s[i]) : last \in {g[i - 1]}} : TRUE]
<1>1. Loop(d, e, base, s) = f[Len(s)]
  BY DEF Loop
<1>2. PICK g : Steps(d, e, base, s, Len(s), g)
  BY StepsExist
<1>3. g = [i \in 0 .. Len(s) |-> IF i = 0 THEN base ELSE step(d, e, g[i - 1], s[i])]
  BY <1>2 DEF Steps
<1>4. g = [i \in 0 .. Len(s) |-> IF i = 0 THEN base ELSE
             CHOOSE next \in {step(d, e, last, s[i]) : last \in {g[i - 1]}} : TRUE]
  BY <1>3, ChooseMapped, Zenon
<1>5. f = [i \in 0 .. Len(s) |-> IF i = 0 THEN base ELSE
             CHOOSE next \in {step(d, e, last, s[i]) : last \in {f[i - 1]}} : TRUE]
  BY <1>4, Zenon
<1> HIDE DEF f
<1>6. f = [i \in 0 .. Len(s) |-> IF i = 0 THEN base ELSE step(d, e, f[i - 1], s[i])]
  BY <1>5, ChooseMapped, Zenon
<1>7. f[0] = base /\ \A i \in 1 .. Len(s) : f[i] = step(d, e, f[i - 1], s[i])
  BY <1>6
<1> QED BY <1>1, <1>7

-----------------------------------------------------------------------------
\* What holds before the loop, and is kept by every step, holds after it.  I is
\* the set of the positions and the values the loop may have there.
LEMMA LoopKeepsAt ==
  ASSUME NEW d, NEW e, NEW base, NEW s, Len(s) \in Nat, NEW I,
         <<0, base>> \in I,
         \A i \in 1 .. Len(s) : \A a : <<i - 1, a>> \in I => <<i, step(d, e, a, s[i])>> \in I
  PROVE  <<Len(s), Loop(d, e, base, s)>> \in I
<1>1. PICK f : /\ f[0] = base
               /\ \A i \in 1 .. Len(s) : f[i] = step(d, e, f[i - 1], s[i])
               /\ Loop(d, e, base, s) = f[Len(s)]
  BY LoopUnrolls
<1> DEFINE S == {n \in Nat : n <= Len(s) => <<n, f[n]>> \in I}
<1>2. 0 \in S
  BY <1>1
<1>3. ASSUME NEW n \in Nat, n \in S PROVE n + 1 \in S
  <2>1. CASE n + 1 <= Len(s)
    <3>1. n + 1 \in 1 .. Len(s) /\ (n + 1) - 1 = n /\ <<n, f[n]>> \in I
      BY <1>3, <2>1
    <3>2. f[n + 1] = step(d, e, f[n], s[n + 1])
      BY <1>1, <3>1
    <3>3. <<n + 1, step(d, e, f[n], s[n + 1])>> \in I
      BY <3>1
    <3> QED BY <3>2, <3>3
  <2> QED BY <2>1
<1> HIDE DEF S
<1>4. Nat \subseteq S
  BY <1>2, <1>3, NatSetInduction
<1> QED BY <1>1, <1>4 DEF S

LEMMA LoopKeeps ==
  ASSUME NEW d, NEW e, NEW base, NEW s, Len(s) \in Nat, NEW J,
         base \in J,
         \A i \in 1 .. Len(s) : \A a \in J : step(d, e, a, s[i]) \in J
  PROVE  Loop(d, e, base, s) \in J
<1> DEFINE I == (0 .. Len(s)) \X J
<1>1. <<0, base>> \in I
  OBVIOUS
<1>2. \A i \in 1 .. Len(s) : \A a : <<i - 1, a>> \in I => <<i, step(d, e, a, s[i])>> \in I
  OBVIOUS
<1> HIDE DEF I
<1>3. <<Len(s), Loop(d, e, base, s)>> \in I
  BY <1>1, <1>2, LoopKeepsAt
<1> QED BY <1>3 DEF I
=============================================================================
