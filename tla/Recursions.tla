------------------------------ MODULE Recursions ------------------------------
(***************************************************************************)
(* Recursion over the naturals, for the proofs about the loops of the code:*)
(* a loop is a recursive function of the number of its passes, and what a  *)
(* pass does is a function of the state and of that number. The facts are  *)
(* stated for one set at a time and proved from its least element.         *)
(***************************************************************************)
EXTENDS Integers, Sequences, SequenceTheorems, FiniteSetTheorems, TLAPS

LEMMA LeastNumber ==
  ASSUME NEW T \in SUBSET Nat, T # {}
  PROVE  \E x \in T : \A y \in T : x <= y
<1> DEFINE Below(x) == 0..x
           downs == {Below(x) : x \in T}
           R == StrictSubsetOrdering(Nat)
<1>1. downs \subseteq FiniteSubsetsOf(Nat) /\ downs # {}
  <2>1. \A x \in T : Below(x) \in SUBSET Nat /\ IsFiniteSet(Below(x))
    BY FS_Interval
  <2>2. QED
    BY <2>1 DEF FiniteSubsetsOf
<1>2. PICK d \in downs : \A e \in downs : <<e, d>> \notin R
  <2> HIDE DEF downs, R
  <2>1. QED
    BY <1>1, FS_StrictSubsetOrderingWellFounded, WFMin DEF R
<1>3. PICK x \in T : d = Below(x)
  OBVIOUS
<1>4. ASSUME NEW y \in T, y < x
      PROVE  FALSE
  <2>1. Below(y) \subseteq Below(x) /\ Below(y) # Below(x)
    BY <1>4
  <2>2. <<Below(y), Below(x)>> \in R
    BY <2>1 DEF StrictSubsetOrdering
  <2>3. QED
    BY <1>2, <1>3, <2>2
<1>5. QED
  BY <1>4

(* A set of numbers that holds 0 and, with a number, the next one.         *)
LEMMA EveryNumber ==
  ASSUME NEW m \in Nat, NEW T \in SUBSET (0..m), 0 \in T,
         \A n \in T : n < m => n + 1 \in T
  PROVE  T = 0..m
<1> SUFFICES ASSUME (0..m) \ T # {} PROVE FALSE
  OBVIOUS
<1> DEFINE U == (0..m) \ T
<1>0. U \in SUBSET Nat /\ U # {}
  OBVIOUS
<1>1. PICK x \in U : \A y \in U : x <= y
  <2> HIDE DEF U
  <2>1. QED
    BY <1>0, LeastNumber
<1>2. x # 0 /\ x - 1 \in T /\ x - 1 < m
  BY <1>1
<1>3. QED
  BY <1>1, <1>2

(* The greatest of some of the numbers up to n.                            *)
LEMMA GreatestNumber ==
  ASSUME NEW n \in Nat, NEW S \in SUBSET (0..n), S # {}
  PROVE  \E x \in S : \A y \in S : y <= x
<1> DEFINE U == {n - i : i \in S}
<1>1. U \in SUBSET Nat /\ U # {}
  <2>1. \A i \in S : n - i \in Nat
    OBVIOUS
  <2>2. QED
    BY <2>1
<1>2. PICK u \in U : \A v \in U : u <= v
  BY <1>1, LeastNumber
<1>3. PICK i \in S : u = n - i
  OBVIOUS
<1>4. \A j \in S : j <= i
  <2> SUFFICES ASSUME NEW j \in S PROVE j <= i
    OBVIOUS
  <2>1. n - j \in U
    OBVIOUS
  <2>2. n - i <= n - j
    BY <1>2, <1>3, <2>1
  <2>3. QED
    BY <2>2
<1>5. QED
  BY <1>4

(* Where a loop of m passes stands after each of them.                     *)
IsRun(S, c, m, step, f) ==
  /\ f \in [0..m -> S]
  /\ f[0] = c
  /\ \A n \in 1..m : f[n] = step[<<f[n - 1], n>>]

LEMMA Recursion ==
  ASSUME NEW S, NEW c \in S, NEW m \in Nat, NEW step \in [S \X (1..m) -> S]
  PROVE  \E f : IsRun(S, c, m, step, f)
<1> DEFINE Runs(k, f) == f[0] = c /\ \A n \in 1..k : f[n] = step[<<f[n - 1], n>>]
           T == {k \in 0..m : \E f \in [0..k -> S] : Runs(k, f)}
<1>1. 0 \in T
  <2> DEFINE g == [n \in 0..0 |-> c]
  <2>1. g \in [0..0 -> S] /\ Runs(0, g) /\ 0 \in 0..m
    OBVIOUS
  <2> HIDE DEF g, Runs
  <2>2. QED
    BY <2>1
<1>2. ASSUME NEW k \in T, k < m PROVE k + 1 \in T
  <2>1. PICK f \in [0..k -> S] : Runs(k, f)
    OBVIOUS
  <2> DEFINE g == [n \in 0..(k + 1) |-> IF n = k + 1 THEN step[<<f[k], k + 1>>] ELSE f[n]]
  <2>2. k \in Nat /\ k + 1 \in 1..m /\ f[k] \in S
    BY <1>2
  <2>3. step[<<f[k], k + 1>>] \in S
    BY <2>2
  <2>4. g \in [0..(k + 1) -> S]
    BY <2>2, <2>3
  <2>5. g[k + 1] = step[<<f[k], k + 1>>] /\ \A n \in 0..k : g[n] = f[n]
    BY <2>2
  <2> HIDE DEF g
  <2>6. \A n \in 1..(k + 1) : g[n] = step[<<g[n - 1], n>>]
    <3> SUFFICES ASSUME NEW n \in 1..(k + 1) PROVE g[n] = step[<<g[n - 1], n>>]
      OBVIOUS
    <3>1. CASE n = k + 1
      <4>1. n - 1 = k /\ k \in 0..k
        BY <2>2, <3>1
      <4>2. QED
        BY <2>5, <3>1, <4>1
    <3>2. CASE n # k + 1
      <4>1. n \in 1..k /\ n \in 0..k /\ n - 1 \in 0..k
        BY <2>2, <3>2
      <4>2. QED
        BY <2>1, <2>5, <4>1
    <3>3. QED
      BY <3>1, <3>2
  <2>7. Runs(k + 1, g)
    BY <2>1, <2>2, <2>5, <2>6
  <2>8. QED
    BY <2>2, <2>4, <2>7
<1>3. T = 0..m
  <2> HIDE DEF T
  <2>1. T \in SUBSET (0..m)
    BY DEF T
  <2>2. QED
    BY <1>1, <1>2, <2>1, EveryNumber
<1>4. PICK f \in [0..m -> S] : Runs(m, f)
  BY <1>3
<1>5. IsRun(S, c, m, step, f)
  BY <1>4 DEF IsRun
<1>6. QED
  BY <1>5
==============================================================================
