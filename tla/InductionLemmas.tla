-------------------------- MODULE InductionLemmas ---------------------------
(***************************************************************************)
(* Induction over the naturals, stated with sets, and what it gives:       *)
(* least and greatest elements, and for functions defined by recursion     *)
(* over a range, which stand for the loops of the code, that they exist,   *)
(* and that what holds at 0 and is kept by a step holds at every number.   *)
(***************************************************************************)
EXTENDS Integers, FiniteSetsExt, WellFoundedInduction, TLAPS

LEMMA LeastNatural ==
  ASSUME NEW T, T \subseteq Nat, T # {}
  PROVE  \E x \in T : \A y \in T : x <= y
<1> DEFINE R == OpToRel(<, Nat)
<1>1. IsWellFoundedOn(R, Nat)
  BY NatLessThanWellFounded
<1>2. \A y, x \in Nat : y < x => <<y, x>> \in R
  BY DEF OpToRel
<1> HIDE DEF R
<1>3. PICK x \in T : \A y \in T : ~(<<y, x>> \in R)
  BY <1>1, WFMin
<1>4. \A y \in T : y \in Nat /\ x \in Nat
  OBVIOUS
<1>5. \A y \in T : ~(y < x)
  BY <1>2, <1>3, <1>4
<1>6. \A y \in T : x <= y
  BY <1>4, <1>5
<1> QED
  BY <1>6

LEMMA LeastOf ==
  ASSUME NEW S, S \subseteq Nat, S # {}
  PROVE  Min(S) \in S /\ \A y \in S : Min(S) <= y
<1>1. \E x \in S : \A y \in S : x <= y
  BY LeastNatural
<1> QED
  BY <1>1 DEF Min

LEMMA GreatestOf ==
  ASSUME NEW N \in Nat, NEW S, S \subseteq 0 .. N, S # {}
  PROVE  Max(S) \in S /\ \A y \in S : y <= Max(S)
<1> DEFINE T == {n \in Nat : \A x \in S : x <= n}
<1>1. N \in T
  OBVIOUS
<1>2. T \subseteq Nat /\ T # {}
  BY <1>1
<1>3. PICK t \in T : \A y \in T : t <= y
  <2> HIDE DEF T
  <2> QED
    BY <1>2, LeastNatural
<1>4. t \in Nat /\ \A x \in S : x \in Nat /\ x <= t
  OBVIOUS
<1>5. t \in S
  <2> SUFFICES ASSUME t \notin S PROVE FALSE
    OBVIOUS
  <2>1. \A x \in S : x <= t - 1 /\ t - 1 \in Nat
    BY <1>4
  <2>2. t - 1 \in T
    BY <2>1
  <2> QED
    BY <1>3, <1>4, <2>2
<1>6. Max(S) \in S /\ \A y \in S : Max(S) >= y
  BY <1>4, <1>5 DEF Max
<1> QED
  BY <1>4, <1>6

LEMMA RangeInduction ==
  ASSUME NEW N \in Nat, NEW S, 0 \in S, \A n \in 1 .. N : n - 1 \in S => n \in S
  PROVE  0 .. N \subseteq S
<1> SUFFICES ASSUME (0 .. N) \ S # {} PROVE FALSE
  OBVIOUS
<1> DEFINE T == (0 .. N) \ S
<1>0. T \subseteq Nat /\ T # {}
  OBVIOUS
<1>1. PICK x \in T : \A y \in T : x <= y
  <2> HIDE DEF T
  <2> QED
    BY <1>0, LeastNatural
<1>2. x \in 1 .. N /\ x - 1 \in 0 .. N /\ ~(x <= x - 1)
  BY <1>1
<1> QED
  BY <1>1, <1>2

-----------------------------------------------------------------------------
(* Functions defined by recursion over a range. step takes the number and  *)
(* the value before it; D[n] is where the value at n is.                   *)

StepsIn(N, U, D, a, step) ==
  /\ \A n \in 0 .. N : D[n] \subseteq U
  /\ a \in D[0]
  /\ \A n \in 1 .. N : \A x \in D[n - 1] : step[<<n, x>>] \in D[n]

Recurs(f, N, U, a, step) ==
  /\ f \in [0 .. N -> U]
  /\ f[0] = a /\ \A n \in 1 .. N : f[n] = step[<<n, f[n - 1]>>]

LEMMA Recursion ==
  ASSUME NEW N \in Nat, NEW U, NEW D, NEW a, NEW step, StepsIn(N, U, D, a, step)
  PROVE  \E f : Recurs(f, N, U, a, step)
<1> USE DEF StepsIn
<1> DEFINE Up(f, n) ==
             /\ f \in [0 .. N -> U] /\ f[0] = a /\ f[n] \in D[n]
             /\ \A i \in 1 .. n : f[i] = step[<<i, f[i - 1]>>]
           S == {n \in 0 .. N : \E f \in [0 .. N -> U] : Up(f, n)}
<1>1. 0 \in S
  <2> DEFINE f == [i \in 0 .. N |-> a]
  <2>1. 0 \in 0 .. N /\ a \in U
    OBVIOUS
  <2>2. f \in [0 .. N -> U] /\ f[0] = a
    BY <2>1
  <2> HIDE DEF f
  <2>3. Up(f, 0)
    BY <2>2
  <2> QED
    BY <2>1, <2>2, <2>3
<1>2. ASSUME NEW n \in 1 .. N, n - 1 \in S PROVE n \in S
  <2>1. PICK f \in [0 .. N -> U] : Up(f, n - 1)
    BY <1>2
  <2> DEFINE g == [f EXCEPT ![n] = step[<<n, f[n - 1]>>]]
  <2>2. n \in 0 .. N /\ n - 1 \in 0 .. N /\ 0 \in 0 .. N /\ n # 0 /\ n # n - 1
    OBVIOUS
  <2>3. step[<<n, f[n - 1]>>] \in D[n] /\ step[<<n, f[n - 1]>>] \in U
    BY <2>1, <2>2
  <2>4. /\ g \in [0 .. N -> U] /\ g[n] = step[<<n, f[n - 1]>>]
        /\ \A i \in 0 .. N : i # n => g[i] = f[i]
    BY <2>2, <2>3
  <2> HIDE DEF g
  <2>5. \A i \in 1 .. n : g[i] = step[<<i, g[i - 1]>>]
    <3> TAKE i \in 1 .. n
    <3>1. CASE i = n
      BY <2>2, <2>4, <3>1
    <3>2. CASE i # n
      <4>1. i \in 1 .. n - 1 /\ i \in 0 .. N /\ i - 1 \in 0 .. N /\ i - 1 # n
        BY <3>2
      <4> QED
        BY <2>1, <2>4, <3>2, <4>1
    <3> QED
      BY <3>1, <3>2
  <2>6. Up(g, n)
    BY <2>1, <2>2, <2>3, <2>4, <2>5
  <2> QED
    BY <2>2, <2>4, <2>6
<1>3. N \in S
  <2> HIDE DEF S
  <2>1. 0 .. N \subseteq S
    BY <1>1, <1>2, RangeInduction
  <2> QED
    BY <2>1
<1>4. PICK f \in [0 .. N -> U] : Up(f, N)
  BY <1>3
<1> QED
  BY <1>4 DEF Recurs

LEMMA KeptInRange ==
  ASSUME NEW N \in Nat, NEW D, NEW f, f[0] \in D[0],
         \A n \in 1 .. N : f[n - 1] \in D[n - 1] => f[n] \in D[n]
  PROVE  \A n \in 0 .. N : f[n] \in D[n]
<1> DEFINE S == {n \in 0 .. N : f[n] \in D[n]}
<1>1. 0 \in S
  OBVIOUS
<1>2. ASSUME NEW n \in 1 .. N, n - 1 \in S PROVE n \in S
  BY <1>2
<1> HIDE DEF S
<1>3. 0 .. N \subseteq S
  BY <1>1, <1>2, RangeInduction
<1> QED
  BY <1>3 DEF S

=============================================================================
