------------------------------- MODULE Induction -------------------------------
(***************************************************************************)
(* Induction over the naturals and definition by recursion, stated with    *)
(* sets and functions where the library's theorems take an operator.       *)
(***************************************************************************)
EXTENDS Naturals, TLAPS, WellFoundedInduction

Less == {p \in Nat \X Nat : p[1] < p[2]}

LEMMA LessWellFounded == IsWellFoundedOn(Less, Nat)
<1>1. OpToRel(<, Nat) = Less
  BY Zenon DEF OpToRel, Less
<1>. QED  BY <1>1, NatLessThanWellFounded, Zenon

\* Every set of naturals that is not empty has a smallest element.
LEMMA NatMinimum ==
  ASSUME NEW S \in SUBSET Nat, S # {}
  PROVE  \E m \in S : \A n \in S : m <= n
<1>1. PICK m \in S : \A n \in S : <<n, m>> \notin Less
  BY LessWellFounded, WFMin
<1>2. \A a, b \in Nat : <<a, b>> \in Less <=> a < b
  BY DEF Less
<1>3. ASSUME NEW n \in S  PROVE m <= n
  <2>1. n \in Nat /\ m \in Nat /\ <<n, m>> \notin Less
    BY <1>1
  <2>2. ~ n < m
    BY <2>1, <1>2, Zenon
  <2>. QED  BY <2>1, <2>2
<1>. QED  BY <1>3

\* What holds of zero and of the successor of every number it holds of, holds of all: S is the
\* set of the numbers it holds of.
LEMMA NatSetInduction ==
  ASSUME NEW S \in SUBSET Nat, 0 \in S, \A n \in S : n + 1 \in S
  PROVE  S = Nat
<1>1. SUFFICES ASSUME Nat \ S # {}  PROVE FALSE
  OBVIOUS
<1>2. PICK m \in Nat \ S : \A n \in Nat \ S : m <= n
  BY <1>1, NatMinimum
<1>3. m # 0 /\ m - 1 \in S
  BY <1>2
<1>. QED  BY <1>2, <1>3

\* What holds at the start of a range and is carried from each place to the next holds in the
\* whole range.
LEMMA RangeInduction ==
  ASSUME NEW N \in Nat, NEW S, 0 \in S, \A n \in 1 .. N : n - 1 \in S => n \in S
  PROVE  \A n \in 0 .. N : n \in S
<1>. DEFINE Good == {n \in Nat : n <= N => n \in S}
<1>1. ASSUME NEW n \in Good  PROVE n + 1 \in Good
  <2>1. CASE n + 1 <= N
    <3>1. n + 1 \in 1 .. N /\ n \in S /\ (n + 1) - 1 = n
      BY <2>1
    <3>. QED  BY <3>1
  <2>2. CASE ~ n + 1 <= N
    BY <2>2
  <2>. QED  BY <2>1, <2>2
<1>2. Good = Nat
  <2>1. Good \in SUBSET Nat /\ 0 \in Good
    OBVIOUS
  <2>. HIDE DEF Good
  <2>. QED  BY <1>1, <2>1, NatSetInduction
<1>. QED  BY <1>2

\* f begins with base and goes on with step, from each place in 0 .. N to the next.
StepOn(step, N, S) == step \in [(1 .. N) \X S -> S]
RunOf(f, base, step, N, S) ==
  /\ f \in [0 .. N -> S]
  /\ f[0] = base
  /\ \A n \in 1 .. N : f[n] = step[<<n, f[n - 1]>>]

\* There is such an f.
LEMMA Recursion ==
  ASSUME NEW S, NEW base \in S, NEW N \in Nat, NEW step, StepOn(step, N, S)
  PROVE  \E f : RunOf(f, base, step, N, S)
<1>. DEFINE Good == {k \in Nat : k <= N => \E f : RunOf(f, base, step, k, S)}
<1>1. 0 \in Good
  <2>1. RunOf([i \in 0 .. 0 |-> base], base, step, 0, S)
    BY DEF RunOf
  <2>. QED  BY <2>1
<1>2. ASSUME NEW k \in Good  PROVE k + 1 \in Good
  <2>1. SUFFICES ASSUME k + 1 <= N  PROVE \E f : RunOf(f, base, step, k + 1, S)
    OBVIOUS
  <2>2. PICK f : RunOf(f, base, step, k, S)
    BY <2>1
  <2>. DEFINE g == [i \in 0 .. k + 1 |-> IF i <= k THEN f[i] ELSE step[<<k + 1, f[k]>>]]
  <2>3. f \in [0 .. k -> S] /\ f[0] = base /\ \A n \in 1 .. k : f[n] = step[<<n, f[n - 1]>>]
    BY <2>2 DEF RunOf
  <2>4. k \in Nat /\ f[k] \in S /\ <<k + 1, f[k]>> \in (1 .. N) \X S
    BY <2>1, <2>3
  <2>5. step[<<k + 1, f[k]>>] \in S
    BY <2>4 DEF StepOn
  <2>6. g \in [0 .. k + 1 -> S]
    BY <2>3, <2>4, <2>5
  <2>7. g[0] = base
    BY <2>3, <2>4
  <2>8. ASSUME NEW n \in 1 .. k + 1  PROVE g[n] = step[<<n, g[n - 1]>>]
    <3>1. CASE n <= k
      BY <3>1, <2>3, <2>4
    <3>2. CASE n = k + 1
      BY <3>2, <2>3, <2>4
    <3>. QED  BY <3>1, <3>2, <2>4
  <2>9. RunOf(g, base, step, k + 1, S)
    <3>. HIDE DEF g
    <3>. QED  BY <2>6, <2>7, <2>8 DEF RunOf
  <2>. QED  BY <2>9
<1>3. Good = Nat
  <2>1. Good \in SUBSET Nat
    OBVIOUS
  <2>. HIDE DEF Good
  <2>. QED  BY <1>1, <1>2, <2>1, NatSetInduction
<1>4. N \in Good
  BY <1>3
<1>. QED  BY <1>4
=============================================================================
