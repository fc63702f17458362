------------------------------- MODULE Recursion -------------------------------
(***************************************************************************)
(* Induction over the naturals and recursive functions, stated of sets and *)
(* functions: what the models' recursive functions compute is proved from  *)
(* these.                                                                  *)
(***************************************************************************)
EXTENDS Integers, TLAPS, WellFoundedInduction

\* A set of naturals has a least member.
LEMMA LeastNat ==
  ASSUME NEW T, T \subseteq Nat, T # {}
  PROVE  \E m \in T : \A n \in T : m <= n
<1>1. PICK x \in T : \A y \in T : ~(<<y, x>> \in OpToRel(<, Nat))
  BY NatLessThanWellFounded, WFMin
<1>2. \A y \in T : ~(y < x)
  BY <1>1 DEF OpToRel
<1>3. \A y \in T : x <= y
  BY <1>2
<1> QED
  BY <1>3

\* What holds of 0 and passes from each number to the next, up to N, holds up to N.
LEMMA InductionTo ==
  ASSUME NEW N \in Nat, NEW S, 0 \in S, \A n \in Nat : n < N /\ n \in S => n + 1 \in S
  PROVE  0..N \subseteq S
<1> DEFINE T == (0..N) \ S
<1> SUFFICES ASSUME T # {} PROVE FALSE
  OBVIOUS
<1>0. T \subseteq Nat
  OBVIOUS
<1>1. PICK m \in T : \A n \in T : m <= n
  <2> HIDE DEF T
  <2> QED
    BY <1>0, LeastNat
<1>2. m # 0
  OBVIOUS
<1>3. m - 1 \in 0..N /\ m - 1 \in S /\ m - 1 < N
  BY <1>1, <1>2
<1>4. (m - 1) + 1 \in S
  BY <1>3
<1> QED
  BY <1>1, <1>4

\* f starts in a and goes on by each step in turn.
IsRun(f, N, a, step) == f[0] = a /\ \A i \in 1..N : f[i] = step[i][f[i - 1]]

\* A function on 0..N given its value at 0 and each next one from the one before exists.
LEMMA RecursiveFunction ==
  ASSUME NEW N \in Nat, NEW X, NEW a \in X, NEW step \in [1..N -> [X -> X]]
  PROVE  \E f \in [0..N -> X] : IsRun(f, N, a, step)
<1> DEFINE Is(k, f) == f = [i \in 0..k |-> IF i = 0 THEN a ELSE step[i][f[i - 1]]]
           Has(k) == \E f \in [0..k -> X] : Is(k, f)
           S == {k \in 0..N : Has(k)}
<1>1. 0 \in S
  <2> DEFINE f == [i \in 0..0 |-> a]
  <2>1. f \in [0..0 -> X] /\ Is(0, f)
    OBVIOUS
  <2>2. Has(0)
    <3> HIDE DEF Is, f
    <3> QED
      BY <2>1
  <2> HIDE DEF Has
  <2> QED
    BY <2>2
<1>2. ASSUME NEW k \in Nat, k < N, k \in S PROVE k + 1 \in S
  <2>0. Has(k)
    <3> HIDE DEF Has
    <3> QED
      BY <1>2
  <2>1. PICK f \in [0..k -> X] : Is(k, f)
    BY <2>0
  <2> DEFINE g == [i \in 0..(k + 1) |-> IF i <= k THEN f[i] ELSE step[k + 1][f[k]]]
  <2>2. step[k + 1][f[k]] \in X
    BY <1>2
  <2>3. g \in [0..(k + 1) -> X]
    BY <2>2
  <2>4. \A i \in 0..k : g[i] = f[i]
    OBVIOUS
  <2>5. ASSUME NEW i \in 0..(k + 1) PROVE g[i] = IF i = 0 THEN a ELSE step[i][g[i - 1]]
    <3>1. CASE i = k + 1
      <4>1. g[i] = step[k + 1][f[k]] /\ i # 0 /\ i - 1 = k /\ k \in 0..k
        BY <3>1
      <4>2. g[k] = f[k]
        BY <4>1, <2>4
      <4> HIDE DEF g
      <4> QED
        BY <3>1, <4>1, <4>2
    <3>2. CASE i \in 0..k
      <4>1. f[i] = IF i = 0 THEN a ELSE step[i][f[i - 1]]
        BY <2>1, <3>2
      <4>2. i # 0 => i - 1 \in 0..k
        BY <3>2
      <4>3. g[i] = f[i] /\ (i # 0 => g[i - 1] = f[i - 1])
        BY <2>4, <3>2, <4>2
      <4> HIDE DEF g
      <4> QED
        BY <4>1, <4>3
    <3> QED
      BY <3>1, <3>2
  <2>6. g = [i \in 0..(k + 1) |-> g[i]]
    OBVIOUS
  <2> HIDE DEF g
  <2>7. Is(k + 1, g)
    BY <2>5, <2>6
  <2>8. Has(k + 1)
    <3> HIDE DEF Is
    <3> QED
      BY <2>3, <2>7
  <2> HIDE DEF Has
  <2> QED
    BY <2>8, <1>2
<1> HIDE DEF S
<1>3. 0..N \subseteq S
  BY <1>1, <1>2, InductionTo
<1>4. N \in S
  BY <1>3
<1>5. Has(N)
  <2> HIDE DEF Has
  <2> QED
    BY <1>4 DEF S
<1>6. PICK f \in [0..N -> X] : Is(N, f)
  BY <1>5
<1>7. IsRun(f, N, a, step)
  BY <1>6 DEF IsRun
<1> HIDE DEF Is
<1> QED
  BY <1>7

\* What a sequence of values starts in and never leaves.
LEMMA RecursiveValues ==
  ASSUME NEW N \in Nat, NEW X, NEW f, f[0] \in X, \A i \in 1..N : f[i - 1] \in X => f[i] \in X
  PROVE  \A i \in 0..N : f[i] \in X
<1> DEFINE S == {i \in 0..N : f[i] \in X}
<1>1. 0 \in S
  OBVIOUS
<1>2. ASSUME NEW n \in Nat, n < N, n \in S PROVE n + 1 \in S
  <2>1. n + 1 \in 1..N /\ n + 1 \in 0..N /\ (n + 1) - 1 = n
    BY <1>2
  <2> QED
    BY <1>2, <2>1
<1>3. 0..N \subseteq S
  <2> HIDE DEF S
  <2> QED
    BY <1>1, <1>2, InductionTo
<1> QED
  BY <1>3
=============================================================================
