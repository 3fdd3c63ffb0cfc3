------------------------------ MODULE WordProofs ------------------------------
(***************************************************************************)
(* Proofs about what the scripts store of a word and how a reader finds it,*)
(* for any inventory, any rules of the variant and any length: the syllable*)
(* breakdown, the readings of an entry, the stored readings of the         *)
(* catalogue, and the suggestions for a word that is not there.            *)
(***************************************************************************)
EXTENDS Syllables, WordEntry, Catalogue, WordSearch, Recursions

------------------------------------------------------------------------------
(* The filter of the arrays.                                               *)

(* A sequence with one element more.                                       *)
LEMMA OneMore ==
  ASSUME NEW S, NEW r \in Seq(S), NEW x \in S
  PROVE  /\ Append(r, x) \in Seq(S)
         /\ ToSet(Append(r, x)) = ToSet(r) \cup {x}
         /\ IsInjective(r) /\ x \notin ToSet(r) => IsInjective(Append(r, x))
<1> DEFINE n == Len(r)
           q == Append(r, x)
<1>1. /\ q \in Seq(S) /\ n \in Nat /\ DOMAIN r = 1..n /\ DOMAIN q = 1..(n + 1)
      /\ q[n + 1] = x /\ \A i \in 1..n : q[i] = r[i]
  OBVIOUS
<1> HIDE DEF q, n
<1>2. \A i \in DOMAIN q : i \in 1..n \/ i = n + 1
  BY <1>1
<1>3. ToSet(q) = ToSet(r) \cup {x}
  <2>1. ASSUME NEW y \in ToSet(q) PROVE y \in ToSet(r) \cup {x}
    BY <1>1, <1>2, <2>1 DEF ToSet
  <2>2. ASSUME NEW y \in ToSet(r) PROVE y \in ToSet(q)
    <3>1. PICK i \in 1..n : y = r[i]
      BY <1>1, <2>2 DEF ToSet
    <3>2. i \in DOMAIN q /\ q[i] = y
      BY <1>1, <3>1
    <3>3. QED
      BY <3>2 DEF ToSet
  <2>3. x \in ToSet(q)
    <3>1. n + 1 \in DOMAIN q
      BY <1>1
    <3>2. QED
      BY <1>1, <3>1 DEF ToSet
  <2>4. QED
    BY <2>1, <2>2, <2>3
<1>4. ASSUME IsInjective(r), x \notin ToSet(r) PROVE IsInjective(q)
  <2>1. \A i \in 1..n : r[i] # x
    BY <1>1, <1>4 DEF ToSet
  <2>2. \A i, j \in 1..n : r[i] = r[j] => i = j
    BY <1>1, <1>4 DEF IsInjective
  <2>3. QED
    BY <1>1, <1>2, <2>1, <2>2 DEF IsInjective
<1>5. QED
  BY <1>1, <1>3, <1>4 DEF q

(* What passes the filter: all of it that is in A, and nothing twice that  *)
(* was not there twice.                                                    *)
LEMMA OnlyFacts ==
  ASSUME NEW S, NEW s \in Seq(S), NEW A
  PROVE  /\ Only(s, A) \in Seq(S \cap A)
         /\ ToSet(Only(s, A)) = ToSet(s) \cap A
         /\ IsInjective(s) => IsInjective(Only(s, A))
<1> DEFINE m == Len(s)
           U == Seq(S \cap A)
           step == [p \in U \X (1..m) |->
                      IF s[p[2]] \in A THEN Append(p[1], s[p[2]]) ELSE p[1]]
           body(f) == [k \in 0..m |-> IF k = 0 THEN << >>
                                      ELSE IF s[k] \in A THEN Append(f[k - 1], s[k])
                                      ELSE f[k - 1]]
           upTo == CHOOSE f : f = body(f)
           Seen(k) == {s[i] : i \in 1..k}
<1>1. m \in Nat /\ << >> \in U /\ DOMAIN s = 1..m
  OBVIOUS
<1>2. \A k \in 1..m : s[k] \in S
  OBVIOUS
<1>3. \A k \in 1..m, u \in U : (IF s[k] \in A THEN Append(u, s[k]) ELSE u) \in U
  BY <1>2
<1> HIDE DEF m, U
<1>4. step \in [U \X (1..m) -> U]
  BY <1>3
<1>5. \A u \in U, k \in 1..m :
        step[<<u, k>>] = IF s[k] \in A THEN Append(u, s[k]) ELSE u
  OBVIOUS
<1> HIDE DEF step
<1>6. PICK f : IsRun(U, << >>, m, step, f)
  BY <1>1, <1>4, Recursion
<1>7. /\ f \in [0..m -> U] /\ f[0] = << >>
      /\ \A k \in 1..m : f[k] = step[<<f[k - 1], k>>]
  BY <1>6 DEF IsRun
<1>8. \A k \in 1..m : f[k] = IF s[k] \in A THEN Append(f[k - 1], s[k]) ELSE f[k - 1]
  <2> SUFFICES ASSUME NEW k \in 1..m
               PROVE  f[k] = IF s[k] \in A THEN Append(f[k - 1], s[k]) ELSE f[k - 1]
    OBVIOUS
  <2>1. k - 1 \in 0..m
    BY <1>1
  <2>2. f[k - 1] \in U /\ f[k] = step[<<f[k - 1], k>>]
    BY <1>7, <2>1
  <2>3. QED
    BY <1>5, <2>2
<1>9. f = body(f)
  <2>1. \A k \in 0..m : k = 0 \/ k \in 1..m
    BY <1>1
  <2>2. \A k \in 0..m : f[k] = IF k = 0 THEN << >>
                               ELSE IF s[k] \in A THEN Append(f[k - 1], s[k])
                               ELSE f[k - 1]
    BY <1>7, <1>8, <2>1
  <2>3. DOMAIN f = 0..m /\ f = [k \in 0..m |-> f[k]]
    BY <1>7
  <2>4. QED
    BY <2>2, <2>3
<1>10. upTo = body(upTo)
  BY <1>9
<1> HIDE DEF upTo
<1>11. \A k \in 0..m : upTo[k] = IF k = 0 THEN << >>
                                 ELSE IF s[k] \in A THEN Append(upTo[k - 1], s[k])
                                 ELSE upTo[k - 1]
  BY <1>10
<1> DEFINE Holds(k) == /\ upTo[k] \in U
                       /\ ToSet(upTo[k]) = Seen(k) \cap A
                       /\ IsInjective(s) => IsInjective(upTo[k])
           T == {k \in 0..m : Holds(k)}
<1>12. 0 \in T
  <2>1. 0 \in 0..m
    BY <1>1
  <2>2. upTo[0] = << >>
    BY <1>11, <2>1
  <2>3. Seen(0) = {}
    OBVIOUS
  <2>4. ToSet(<< >>) = {} /\ IsInjective(<< >>)
    BY DEF ToSet, IsInjective
  <2>5. QED
    BY <1>1, <2>1, <2>2, <2>3, <2>4
<1>13. ASSUME NEW k \in T, k < m PROVE k + 1 \in T
  <2>1. k + 1 \in 1..m /\ k + 1 \in 0..m /\ k + 1 # 0 /\ (k + 1) - 1 = k /\ k \in Nat
    BY <1>1, <1>13
  <2>2. Holds(k)
    OBVIOUS
  <2>3. upTo[k + 1] = IF s[k + 1] \in A THEN Append(upTo[k], s[k + 1]) ELSE upTo[k]
    BY <1>11, <2>1
  <2>4. Seen(k + 1) = Seen(k) \cup {s[k + 1]}
    <3>1. 1..(k + 1) = (1..k) \cup {k + 1}
      BY <2>1
    <3>2. QED
      BY <3>1
  <2>5. IsInjective(s) => s[k + 1] \notin Seen(k)
    <3>1. \A i \in 1..k : i \in DOMAIN s /\ i # k + 1
      BY <1>1, <2>1
    <3>2. k + 1 \in DOMAIN s
      BY <1>1, <2>1
    <3>3. QED
      BY <3>1, <3>2 DEF IsInjective
  <2> HIDE DEF Seen
  <2>6. CASE s[k + 1] \in A
    <3>1. upTo[k + 1] = Append(upTo[k], s[k + 1])
      BY <2>3, <2>6
    <3>2. s[k + 1] \in S \cap A /\ upTo[k] \in Seq(S \cap A)
      BY <1>2, <2>1, <2>2, <2>6 DEF U
    <3>3. /\ Append(upTo[k], s[k + 1]) \in Seq(S \cap A)
          /\ ToSet(Append(upTo[k], s[k + 1])) = ToSet(upTo[k]) \cup {s[k + 1]}
          /\ IsInjective(upTo[k]) /\ s[k + 1] \notin ToSet(upTo[k])
               => IsInjective(Append(upTo[k], s[k + 1]))
      BY <3>2, OneMore
    <3>4. Holds(k + 1)
      <4>1. upTo[k + 1] \in U
        BY <3>1, <3>3 DEF U
      <4>2. ToSet(upTo[k + 1]) = Seen(k + 1) \cap A
        BY <2>2, <2>4, <2>6, <3>1, <3>3
      <4>3. IsInjective(s) => IsInjective(upTo[k + 1])
        BY <2>2, <2>5, <3>1, <3>3
      <4>4. QED
        BY <4>1, <4>2, <4>3
    <3>5. QED
      BY <2>1, <3>4
  <2>7. CASE s[k + 1] \notin A
    <3>1. upTo[k + 1] = upTo[k] /\ Seen(k + 1) \cap A = Seen(k) \cap A
      BY <2>3, <2>4, <2>7
    <3>2. Holds(k + 1)
      BY <2>2, <3>1
    <3>3. QED
      BY <2>1, <3>2
  <2>8. QED
    BY <2>6, <2>7
<1>14. T \in SUBSET (0..m)
  OBVIOUS
<1> HIDE DEF T
<1>15. T = 0..m
  BY <1>1, <1>12, <1>13, <1>14, EveryNumber
<1>16. Holds(m)
  <2>1. m \in T
    BY <1>1, <1>15
  <2>2. QED
    BY <2>1 DEF T
<1>17. Only(s, A) = upTo[m]
  BY DEF Only, upTo, m
<1>18. ToSet(s) = Seen(m)
  BY <1>1 DEF ToSet
<1>19. QED
  BY <1>16, <1>17, <1>18 DEF U

------------------------------------------------------------------------------
(* The syllable breakdown.                                                 *)

AllUnits == Consonants \cup Nuclei

LEMMA UnitsAreUnits ==
  ASSUME NEW S, NEW w \in Seq(S)
  PROVE  UnitsIn(w) \in Seq(AllUnits)
<1>1. Only(w, AllUnits) \in Seq(S \cap AllUnits)
  BY OnlyFacts
<1>2. Seq(S \cap AllUnits) \subseteq Seq(AllUnits)
  OBVIOUS
<1>3. QED
  BY <1>1, <1>2 DEF UnitsIn, AllUnits

LEMMA MaxIsThere ==
  ASSUME NEW n \in Nat, NEW S \in SUBSET (0..n), S # {}
  PROVE  Max(S) \in S /\ \A x \in S : x <= Max(S)
<1>1. PICK x \in S : \A y \in S : y <= x
  BY GreatestNumber
<1>2. \A y \in S : x >= y
  BY <1>1
<1>3. Max(S) \in S /\ \A y \in S : Max(S) >= y
  BY <1>2, Zenon DEF Max
<1>4. QED
  BY <1>3

(* Two nuclei that follow one another.                                     *)
Adjacent(us, m, n) ==
  /\ m \in DOMAIN us /\ n \in DOMAIN us /\ m < n
  /\ us[m] \in Nuclei /\ us[n] \in Nuclei
  /\ \A k \in (m + 1)..(n - 1) : us[k] \notin Nuclei

(* What deciding between them comes to: a stress mark decides, or there is *)
(* nothing to share out, or the next syllable takes t of the consonants.   *)
Shared(us, m, n, stressed, t) ==
  /\ t \in 0..(n - m - 1)
  /\ Between(us, m, n, stressed) = {n - t}
  /\ IsLegalOnset(SubSeq(us, n - t, n - 1))
  /\ t # 0 => t <= MaximumOnset(us[m], SubSeq(us, m + 1, n - 1))

LEMMA NothingIsAnOnset ==
  ASSUME NEW c, Len(c) = 0
  PROVE  IsLegalOnset(c)
BY DEF IsLegalOnset

LEMMA BetweenCases ==
  ASSUME NEW us \in Seq(AllUnits), NEW stressed, NEW m, NEW n, Adjacent(us, m, n)
  PROVE  \/ \E x \in stressed \cap (m + 1)..n : Between(us, m, n, stressed) = {x}
         \/ /\ n = m + 1 /\ us[n] \in CentralRhotics
            /\ Between(us, m, n, stressed) = {}
         \/ \E t : Shared(us, m, n, stressed, t)
<1> DEFINE fixed == stressed \cap (m + 1)..n
           cluster == SubSeq(us, m + 1, n - 1)
           taken == {k \in 1..MaximumOnset(us[m], cluster) :
                       k <= 3 /\ IsLegalOnset(SubSeq(us, n - k, n - 1))}
<1>0. m \in Nat /\ n \in Nat /\ m >= 1 /\ m < n /\ n <= Len(us) /\ Len(us) \in Nat
  BY DEF Adjacent
<1>1. CASE fixed # {}
  <2>1. fixed \in SUBSET (0..n)
    BY <1>0
  <2>2. Max(fixed) \in fixed
    BY <1>0, <1>1, <2>1, MaxIsThere
  <2>3. Between(us, m, n, stressed) = {Max(fixed)}
    BY <1>1 DEF Between
  <2>4. QED
    BY <2>2, <2>3
<1>2. CASE fixed = {}
  <2>1. /\ cluster \in Seq(AllUnits) /\ Len(cluster) = n - m - 1
        /\ \A k \in 1..(n - m - 1) : cluster[k] = us[m + k]
    <3>1. Len(cluster) = IF m + 1 <= n - 1 THEN (n - 1) - (m + 1) + 1 ELSE 0
      BY <1>0
    <3>2. \A k \in 1..(n - m - 1) : cluster[k] = us[m + k]
      BY <1>0
    <3>3. cluster \in Seq(AllUnits)
      BY <1>0
    <3>4. QED
      BY <1>0, <3>1, <3>2, <3>3
  <2>2. cluster = << >> <=> n = m + 1
    BY <1>0, <2>1
  <2>3. IsLegalOnset(SubSeq(us, n, n - 1))
    <3>1. Len(SubSeq(us, n, n - 1)) = 0
      BY <1>0
    <3>2. QED
      BY <3>1, NothingIsAnOnset
  <2>4. CASE n = m + 1
    <3>1. Between(us, m, n, stressed) = IF us[n] \in CentralRhotics THEN {} ELSE {n}
      BY <1>2, <2>2, <2>4 DEF Between
    <3>2. CASE us[n] \in CentralRhotics
      BY <2>4, <3>1, <3>2
    <3>3. CASE us[n] \notin CentralRhotics
      <4>1. Shared(us, m, n, stressed, 0)
        BY <1>0, <2>3, <3>1, <3>3 DEF Shared
      <4>2. QED
        BY <4>1
    <3>4. QED
      BY <3>2, <3>3
  <2>5. CASE n # m + 1
    <3> DEFINE t == Max(taken \cup {0})
    <3>1. Between(us, m, n, stressed) = {n - t}
      BY <1>2, <2>2, <2>5 DEF Between
    <3>2. MaximumOnset(us[m], cluster) \in Nat /\ MaximumOnset(us[m], cluster) <= n - m - 1
      <4>1. m \in Int /\ n \in Int /\ m < n
        BY <1>0
      <4>2. PICK l \in Int : l = Len(cluster) /\ l = n - m - 1 /\ l >= 1
        BY <2>1, <2>5, <4>1
      <4> HIDE DEF cluster
      <4>3. MaximumOnset(us[m], cluster) \in {l - 1, l}
        BY <4>2 DEF MaximumOnset
      <4>4. QED
        BY <4>2, <4>3
    <3>3. (taken \cup {0}) \in SUBSET (0..3) /\ taken \cup {0} # {}
      BY <3>2
    <3> HIDE DEF taken
    <3>4. t \in taken \cup {0}
      BY <3>3, MaxIsThere
    <3> HIDE DEF t
    <3>5. CASE t = 0
      <4>1. n - t = n
        BY <1>0, <3>5
      <4>2. Shared(us, m, n, stressed, t)
        BY <1>0, <2>3, <3>1, <3>5, <4>1 DEF Shared
      <4>3. QED
        BY <4>2
    <3>6. CASE t \in taken
      <4>1. /\ t \in 1..MaximumOnset(us[m], cluster) /\ IsLegalOnset(SubSeq(us, n - t, n - 1))
        BY <3>6 DEF taken
      <4>2. Shared(us, m, n, stressed, t)
        BY <1>0, <3>1, <3>2, <4>1 DEF Shared
      <4>3. QED
        BY <4>2
    <3>7. QED
      BY <3>4, <3>5, <3>6
  <2>6. QED
    BY <2>4, <2>5
<1>3. QED
  BY <1>1, <1>2

(* What dividing by the rules gives: two nuclei the division leaves in one *)
(* syllable are a vowel and a disputed rhotic, and a boundary no mark      *)
(* states is where an English syllable may begin.                          *)
NucleiAreApart(us, starts) ==
  \A m, n \in DOMAIN us :
    Adjacent(us, m, n) /\ starts \cap (m + 1)..n = {} => n = m + 1 /\ us[n] \in CentralRhotics

BeginsWell(us, b) ==
  /\ \E n \in DOMAIN us :
       /\ n >= b /\ us[n] \in Nuclei
       /\ \A k \in b..(n - 1) : us[k] \in Consonants
       /\ IsLegalOnset(SubSeq(us, b, n - 1))
  /\ us[b - 1] \in CheckedVowels => us[b] \in Nuclei
  /\ us[b - 1] \in Nuclei => us[b] # RhoticConsonant

LEMMA GapsOfSyllabify ==
  ASSUME NEW us \in Seq(AllUnits), NEW stressed
  PROVE  /\ 1 \in Syllabify(us, stressed)
         /\ \A m, n : Adjacent(us, m, n) => Between(us, m, n, stressed) \subseteq Syllabify(us, stressed)
         /\ \A b \in Syllabify(us, stressed) : b # 1 =>
              \E m, n : Adjacent(us, m, n) /\ b \in Between(us, m, n, stressed)
<1> DEFINE nuclei == {k \in DOMAIN us : us[k] \in Nuclei}
           gaps == {p \in nuclei \X nuclei :
                      p[1] < p[2] /\ nuclei \cap (p[1] + 1)..(p[2] - 1) = {}}
           inner == UNION {Between(us, p[1], p[2], stressed) : p \in gaps}
<1>1. Syllabify(us, stressed) = {1} \cup inner
  BY DEF Syllabify
<1>2. ASSUME NEW m, NEW n, Adjacent(us, m, n) PROVE <<m, n>> \in gaps
  BY <1>2 DEF Adjacent
<1>3. ASSUME NEW p \in gaps PROVE Adjacent(us, p[1], p[2])
  <2>1. /\ p[1] \in nuclei /\ p[2] \in nuclei /\ p[1] < p[2]
        /\ nuclei \cap (p[1] + 1)..(p[2] - 1) = {}
    BY <1>3
  <2>2. /\ DOMAIN us = 1..Len(us) /\ Len(us) \in Nat
        /\ p[1] \in 1..Len(us) /\ p[2] \in 1..Len(us)
    BY <2>1
  <2>3. \A k \in (p[1] + 1)..(p[2] - 1) : us[k] \notin Nuclei
    <3> SUFFICES ASSUME NEW k \in (p[1] + 1)..(p[2] - 1), us[k] \in Nuclei PROVE FALSE
      OBVIOUS
    <3>1. k \in DOMAIN us
      BY <2>2
    <3>2. QED
      BY <2>1, <3>1
  <2>4. QED
    BY <2>1, <2>3 DEF Adjacent
<1> HIDE DEF gaps
<1>4. ASSUME NEW m, NEW n, Adjacent(us, m, n)
      PROVE  Between(us, m, n, stressed) \subseteq inner
  <2>1. <<m, n>> \in gaps
    BY <1>2, <1>4
  <2>2. <<m, n>>[1] = m /\ <<m, n>>[2] = n
    OBVIOUS
  <2>3. QED
    BY <2>1, <2>2
<1>5. ASSUME NEW b \in inner
      PROVE  \E m, n : Adjacent(us, m, n) /\ b \in Between(us, m, n, stressed)
  <2>1. PICK p \in gaps : b \in Between(us, p[1], p[2], stressed)
    BY <1>5
  <2>2. Adjacent(us, p[1], p[2])
    BY <1>3
  <2>3. QED
    BY <2>1, <2>2
<1> HIDE DEF inner
<1>6. QED
  BY <1>1, <1>4, <1>5

LEMMA SyllabifyKeepsApart ==
  ASSUME NEW us \in Seq(AllUnits), NEW stressed
  PROVE  NucleiAreApart(us, Syllabify(us, stressed) \cup stressed)
<1> DEFINE starts == Syllabify(us, stressed) \cup stressed
<1> SUFFICES ASSUME NEW m \in DOMAIN us, NEW n \in DOMAIN us, Adjacent(us, m, n),
                    starts \cap (m + 1)..n = {}
             PROVE  n = m + 1 /\ us[n] \in CentralRhotics
  BY DEF NucleiAreApart
<1>0. m \in Nat /\ n \in Nat /\ m < n
  BY DEF Adjacent
<1>1. Between(us, m, n, stressed) \subseteq starts
  BY GapsOfSyllabify
<1> HIDE DEF starts
<1>2. ASSUME NEW x \in stressed \cap (m + 1)..n, Between(us, m, n, stressed) = {x}
      PROVE  FALSE
  BY <1>1, <1>2
<1>3. ASSUME NEW t, Shared(us, m, n, stressed, t)
      PROVE  FALSE
  <2>1. t \in 0..(n - m - 1) /\ n - t \in Between(us, m, n, stressed)
    BY <1>3 DEF Shared
  <2>2. n - t \in (m + 1)..n
    BY <1>0, <2>1
  <2>3. QED
    BY <1>1, <2>1, <2>2
<1>4. QED
  BY <1>2, <1>3, BetweenCases

LEMMA SharesWell ==
  ASSUME NEW us \in Seq(AllUnits), NEW stressed, NEW m, NEW n, NEW t,
         Adjacent(us, m, n), Shared(us, m, n, stressed, t)
  PROVE  BeginsWell(us, n - t)
<1> DEFINE b == n - t
           cluster == SubSeq(us, m + 1, n - 1)
<1>0. /\ m \in Nat /\ n \in Nat /\ m >= 1 /\ m < n /\ n <= Len(us) /\ Len(us) \in Nat
      /\ t \in 0..(n - m - 1)
      /\ DOMAIN us = 1..Len(us)
  BY DEF Adjacent, Shared
<1>1. b \in Nat /\ m + 1 <= b /\ b <= n /\ b \in DOMAIN us /\ n - b = t
  BY <1>0
<1>2. \A k \in b..(n - 1) : us[k] \in Consonants
  <2> SUFFICES ASSUME NEW k \in b..(n - 1) PROVE us[k] \in Consonants
    OBVIOUS
  <2>1. k \in (m + 1)..(n - 1) /\ k \in DOMAIN us
    BY <1>0, <1>1
  <2>2. us[k] \in AllUnits /\ us[k] \notin Nuclei
    BY <2>1, ElementOfSeq DEF Adjacent
  <2>3. QED
    BY <2>2 DEF AllUnits
<1>3. IsLegalOnset(SubSeq(us, b, n - 1))
  BY DEF Shared
<1>4. us[b - 1] \in Nuclei => b = m + 1
  <2>1. b - 1 \in m..(n - 1)
    BY <1>0, <1>1
  <2>2. b - 1 = m \/ b - 1 \in (m + 1)..(n - 1)
    BY <1>0, <2>1
  <2>3. CASE b - 1 = m
    BY <1>0, <1>1, <2>3
  <2>4. CASE b - 1 \in (m + 1)..(n - 1)
    BY <2>4 DEF Adjacent
  <2>5. QED
    BY <2>2, <2>3, <2>4
<1>5. t = 0 => us[b] \in Nuclei
  <2>1. t = 0 => b = n
    BY <1>0
  <2>2. QED
    BY <2>1 DEF Adjacent
<1> HIDE DEF b
<1>6. b = m + 1 /\ t # 0 =>
        /\ Len(cluster) = t /\ cluster[1] = us[b] /\ t <= MaximumOnset(us[m], cluster)
  <2> SUFFICES ASSUME b = m + 1, t # 0
               PROVE  Len(cluster) = t /\ cluster[1] = us[b] /\ t <= MaximumOnset(us[m], cluster)
    OBVIOUS
  <2>1. t = n - m - 1 /\ m + 1 <= n - 1
    BY <1>0, <1>1
  <2>2. Len(cluster) = t /\ cluster[1] = us[b]
    BY <1>0, <2>1
  <2>3. QED
    BY <2>2 DEF Shared
<1>7. ASSUME b = m + 1, t # 0
      PROVE  us[m] \notin CheckedVowels /\ us[b] # RhoticConsonant
  <2>1. SUFFICES ASSUME us[m] \in CheckedVowels \/ cluster[1] = RhoticConsonant
                 PROVE  FALSE
    BY <1>6, <1>7
  <2>2. MaximumOnset(us[m], cluster) = t - 1
    BY <1>6, <1>7, <2>1 DEF MaximumOnset
  <2>3. QED
    BY <1>0, <1>6, <1>7, <2>2
<1>8. us[b - 1] \in CheckedVowels => us[b] \in Nuclei
  <2> SUFFICES ASSUME us[b - 1] \in CheckedVowels PROVE us[b] \in Nuclei
    OBVIOUS
  <2>1. us[b - 1] \in Nuclei
    BY SyllablesAssumption DEF Nuclei
  <2>2. b = m + 1 /\ b - 1 = m
    BY <1>0, <1>4, <2>1
  <2>3. t = 0
    BY <1>7, <2>2
  <2>4. QED
    BY <1>5, <2>3
<1>9. us[b - 1] \in Nuclei => us[b] # RhoticConsonant
  <2> SUFFICES ASSUME us[b - 1] \in Nuclei PROVE us[b] # RhoticConsonant
    OBVIOUS
  <2>1. b = m + 1
    BY <1>4
  <2>2. CASE t = 0
    BY <1>5, <2>2, SyllablesAssumption
  <2>3. QED
    BY <1>7, <2>1, <2>2
<1>10. BeginsWell(us, b)
  <2>1. n \in DOMAIN us /\ n >= b /\ us[n] \in Nuclei
    BY <1>0, <1>1 DEF Adjacent
  <2>2. QED
    BY <1>2, <1>3, <1>8, <1>9, <2>1 DEF BeginsWell
<1>11. QED
  BY <1>10 DEF b

LEMMA SyllabifyBeginsWell ==
  ASSUME NEW us \in Seq(AllUnits), NEW stressed, NEW b \in Syllabify(us, stressed),
         b # 1, b \notin stressed
  PROVE  BeginsWell(us, b)
<1>1. PICK m, n : Adjacent(us, m, n) /\ b \in Between(us, m, n, stressed)
  BY GapsOfSyllabify
<1>2. PICK t : Shared(us, m, n, stressed, t)
  BY <1>1, BetweenCases
<1>3. b = n - t
  BY <1>1, <1>2 DEF Shared
<1>4. QED
  BY <1>1, <1>2, <1>3, SharesWell

(* Whatever writes the separators leaves a nucleus in every syllable.      *)
LEMMA SeparatedIsWhole ==
  ASSUME NEW us, NEW starts, NEW stressed, Separated(us, starts, stressed) # NoBreakdown
  PROVE  EverySpanHasANucleus(us, starts \cup stressed)
BY DEF Separated

LEMMA UndottedDerivation ==
  ASSUME NEW w, Dot \notin ToSet(w)
  PROVE  Derived(w) = {1} \cup Before(w, Stress)
<1>1. {k \in DOMAIN w : w[k] = Dot} = {}
  BY DEF ToSet
<1>2. Before(w, Dot) = {}
  BY <1>1 DEF Before
<1>3. QED
  BY <1>2 DEF Derived

(* A source's own breakdown has its first syllable.                        *)
LEMMA DerivedIsSome == \A w : Derived(w) # NoBreakdown
BY DEF Derived, NoBreakdown

(* The layers in which the script decides a boundary itself, and those in  *)
(* which it leaves the source's.                                           *)
LEMMA PlanDecides ==
  ASSUME NEW stored, stored # NoBreakdown
  PROVE  /\ Plan(word, stored).layer = "inferred" =>
              /\ Dot \notin ToSet(word)
              /\ Plan(word, stored).breakdown = InsertSyllableMarks(word)
              /\ InsertSyllableMarks(word) # NoBreakdown
         /\ Plan(word, stored).layer = "override" =>
              /\ Dot \notin ToSet(word) /\ review.status = "reviewed"
              /\ Plan(word, stored).breakdown = ApplyProposedDivision(word, review.starts)
              /\ ApplyProposedDivision(word, review.starts) # NoBreakdown
         /\ Plan(word, stored).layer \in {"held", "unreviewed", "refused"} =>
              Plan(word, stored).breakdown = Derived(word)
         /\ Plan(word, stored).breakdown # NoBreakdown
<1> DEFINE proposed == ApplyProposedDivision(word, review.starts)
           inferred == InsertSyllableMarks(word)
           marked == IF defect \/ review.status = "unreviewed" THEN NoBreakdown
                     ELSE IF review.status = "reviewed" THEN proposed
                     ELSE inferred
           decided == IF defect THEN "held"
                      ELSE IF review.status = "unreviewed" THEN "unreviewed"
                      ELSE IF review.status = "reviewed"
                        THEN IF marked = NoBreakdown THEN "refused" ELSE "override"
                      ELSE IF marked = NoBreakdown THEN "none" ELSE "inferred"
           target == OrDerived(word, marked)
<1>1. Plan(word, stored) =
        IF Dot \in ToSet(word) THEN [layer |-> "source", breakdown |-> stored]
        ELSE IF stored # Derived(word) /\ stored # target
               THEN [layer |-> "curated", breakdown |-> stored]
        ELSE [layer |-> decided, breakdown |-> target]
  BY DEF Plan
<1>2. target # NoBreakdown
  BY DerivedIsSome DEF OrDerived
<1> HIDE DEF proposed, inferred
<1>3. decided = "inferred" => target = inferred /\ inferred # NoBreakdown
  BY DEF OrDerived
<1>4. decided = "override" =>
        review.status = "reviewed" /\ target = proposed /\ proposed # NoBreakdown
  BY DEF OrDerived
<1>5. decided \in {"held", "unreviewed", "refused"} => target = Derived(word)
  BY DEF OrDerived
<1> HIDE DEF marked, target, decided
<1>6. Plan(word, stored).layer \in {"inferred", "override", "held", "unreviewed", "refused"} =>
        /\ Dot \notin ToSet(word)
        /\ Plan(word, stored).layer = decided /\ Plan(word, stored).breakdown = target
  <2>1. CASE Dot \in ToSet(word)
    BY <1>1, <2>1
  <2>2. CASE Dot \notin ToSet(word) /\ stored # Derived(word) /\ stored # target
    BY <1>1, <2>2
  <2>3. CASE Dot \notin ToSet(word) /\ ~(stored # Derived(word) /\ stored # target)
    BY <1>1, <2>3
  <2>4. QED
    BY <2>1, <2>2, <2>3
<1>7. Plan(word, stored).breakdown # NoBreakdown
  <2>1. Plan(word, stored).breakdown \in {stored, target}
    BY <1>1
  <2>2. QED
    BY <1>2, <2>1
<1>8. QED
  BY <1>3, <1>4, <1>5, <1>6, <1>7 DEF proposed, inferred

DivisionInv ==
  /\ word \in Seq(AllUnits \cup {Stress, Dot})
  /\ review.status = "reviewed" => 1 \in review.starts
  /\ breakdown = NoBreakdown => layer = "unseeded"
  /\ DivisionIsSound

(* What DivisionIsSound asks of each layer.                                *)
KeepsTheMarks(w, starts) ==
  /\ Derived(w) \subseteq starts
  /\ EverySpanHasANucleus(UnitsIn(w), starts)

FollowsTheRules(w, starts) ==
  /\ NucleiAreApart(UnitsIn(w), starts)
  /\ \A b \in starts \ Derived(w) : BeginsWell(UnitsIn(w), b)

KeepsItsLayer ==
  /\ layer \in {"inferred", "override"} => KeepsTheMarks(word, breakdown)
  /\ layer \in {"held", "unreviewed", "refused"} => breakdown = Derived(word)
  /\ layer = "inferred" => FollowsTheRules(word, breakdown)

LEMMA SoundByLayer == DivisionIsSound <=> KeepsItsLayer
<1> DEFINE us == UnitsIn(word)
<1>1. NucleiAreApart(us, breakdown) <=>
        \A m, n \in DOMAIN us :
          (/\ m < n /\ {us[m], us[n]} \subseteq Nuclei
           /\ breakdown \cap (m + 1)..n = {}
           /\ \A k \in (m + 1)..(n - 1) : us[k] \notin Nuclei)
          => n = m + 1 /\ us[n] \in CentralRhotics
  BY DEF NucleiAreApart, Adjacent
<1>2. KeepsTheMarks(word, breakdown) <=>
        /\ Derived(word) \subseteq breakdown
        /\ \A b \in breakdown : Syllable(us, breakdown, b) \cap Nuclei # {}
  BY DEF KeepsTheMarks, EverySpanHasANucleus
<1>3. FollowsTheRules(word, breakdown) <=>
        /\ \A m, n \in DOMAIN us :
             (/\ m < n /\ {us[m], us[n]} \subseteq Nuclei
              /\ breakdown \cap (m + 1)..n = {}
              /\ \A k \in (m + 1)..(n - 1) : us[k] \notin Nuclei)
             => n = m + 1 /\ us[n] \in CentralRhotics
        /\ \A b \in breakdown \ Derived(word) :
             /\ \E n \in DOMAIN us :
                  /\ n >= b /\ us[n] \in Nuclei
                  /\ \A k \in b..(n - 1) : us[k] \in Consonants
                  /\ IsLegalOnset(SubSeq(us, b, n - 1))
             /\ us[b - 1] \in CheckedVowels => us[b] \in Nuclei
             /\ us[b - 1] \in Nuclei => us[b] # RhoticConsonant
  BY <1>1, Zenon DEF FollowsTheRules, BeginsWell
<1>4. QED
  BY <1>2, <1>3, Zenon DEF DivisionIsSound, KeepsItsLayer

LEMMA DivisionStep ==
  ASSUME DivisionInv, SyllabifyPronunciation
  PROVE  DivisionIsSound' /\ breakdown' # NoBreakdown
<1> DEFINE us == UnitsIn(word)
           st == Before(word, Stress)
<1>1. /\ breakdown' = Plan(word, breakdown).breakdown
      /\ layer' = Plan(word, breakdown).layer
      /\ word' = word /\ breakdown # NoBreakdown
  BY DEF SyllabifyPronunciation, Fresh
<1>2. us \in Seq(AllUnits)
  BY UnitsAreUnits DEF DivisionInv
<1>3. layer' = "inferred" =>
        KeepsTheMarks(word, breakdown') /\ FollowsTheRules(word, breakdown')
  <2> SUFFICES ASSUME layer' = "inferred"
               PROVE  KeepsTheMarks(word, breakdown') /\ FollowsTheRules(word, breakdown')
    OBVIOUS
  <2>1. /\ Dot \notin ToSet(word)
        /\ breakdown' = Separated(us, Syllabify(us, st), st)
        /\ Separated(us, Syllabify(us, st), st) # NoBreakdown
    <3>1. /\ Dot \notin ToSet(word) /\ breakdown' = InsertSyllableMarks(word)
          /\ InsertSyllableMarks(word) # NoBreakdown
      BY <1>1, PlanDecides
    <3>2. QED
      BY <3>1 DEF InsertSyllableMarks
  <2>2. Derived(word) = {1} \cup st
    BY <2>1, UndottedDerivation
  <2> HIDE DEF us, st
  <2>3. /\ breakdown' = Syllabify(us, st) \cup st
        /\ EverySpanHasANucleus(us, breakdown')
    <3>1. Separated(us, Syllabify(us, st), st) = Syllabify(us, st) \cup st
      BY <2>1 DEF Separated
    <3>2. EverySpanHasANucleus(us, Syllabify(us, st) \cup st)
      BY <2>1, SeparatedIsWhole
    <3>3. QED
      BY <2>1, <3>1, <3>2
  <2>4. 1 \in Syllabify(us, st)
    BY <1>2, GapsOfSyllabify
  <2>5. Derived(word) \subseteq breakdown'
    BY <2>2, <2>3, <2>4
  <2>6. NucleiAreApart(us, breakdown')
    <3>1. NucleiAreApart(us, Syllabify(us, st) \cup st)
      BY <1>2, SyllabifyKeepsApart
    <3>2. QED
      BY <2>3, <3>1
  <2>7. ASSUME NEW b \in breakdown' \ Derived(word) PROVE BeginsWell(us, b)
    <3>1. b \in Syllabify(us, st) /\ b # 1 /\ b \notin st
      BY <2>2, <2>3
    <3>2. QED
      BY <1>2, <3>1, SyllabifyBeginsWell
  <2>8. KeepsTheMarks(word, breakdown')
    BY <2>3, <2>5 DEF KeepsTheMarks, us
  <2>9. FollowsTheRules(word, breakdown')
    BY <2>6, <2>7 DEF FollowsTheRules, us
  <2>10. QED
    BY <2>8, <2>9
<1>4. layer' = "override" => KeepsTheMarks(word, breakdown')
  <2> SUFFICES ASSUME layer' = "override" PROVE KeepsTheMarks(word, breakdown')
    OBVIOUS
  <2> DEFINE starts == review.starts
  <2>1. /\ Dot \notin ToSet(word) /\ review.status = "reviewed"
        /\ breakdown' = ApplyProposedDivision(word, starts)
        /\ ApplyProposedDivision(word, starts) # NoBreakdown
    BY <1>1, PlanDecides
  <2>2. /\ breakdown' = Separated(us, starts, st)
        /\ Separated(us, starts, st) # NoBreakdown
    BY <2>1 DEF ApplyProposedDivision
  <2>3. Derived(word) = {1} \cup st
    BY <2>1, UndottedDerivation
  <2>6. 1 \in starts
    BY <2>1 DEF DivisionInv
  <2> HIDE DEF us, st, starts
  <2>4. Separated(us, starts, st) = starts \cup st
    BY <2>2 DEF Separated
  <2>5. EverySpanHasANucleus(us, starts \cup st)
    BY <2>2, SeparatedIsWhole
  <2>7. Derived(word) \subseteq breakdown'
    BY <2>2, <2>3, <2>4, <2>6
  <2>8. EverySpanHasANucleus(us, breakdown')
    BY <2>2, <2>4, <2>5
  <2>9. QED
    BY <2>7, <2>8 DEF KeepsTheMarks, us
<1>5. /\ layer' \in {"held", "unreviewed", "refused"} => breakdown' = Derived(word)
      /\ breakdown' # NoBreakdown
  BY <1>1, PlanDecides
<1>6. KeepsItsLayer'
  BY <1>1, <1>3, <1>4, <1>5 DEF KeepsItsLayer
<1>7. QED
  BY <1>5, <1>6, SoundByLayer, PTL

LEMMA NewWordIsMarked ==
  ASSUME word \in Seq(AllUnits \cup {Stress, Dot}), Transcribe
  PROVE  word' \in Seq(AllUnits \cup {Stress, Dot})
<1>1. PICK x \in Consonants \cup Nuclei \cup {Stress, Dot} : word' = Append(word, x)
  BY Zenon DEF Transcribe
<1>2. QED
  BY <1>1 DEF AllUnits

LEMMA DivisionInvNext == DivisionInv /\ [SyllablesNext]_sylVars => DivisionInv'
<1> SUFFICES ASSUME DivisionInv, [SyllablesNext]_sylVars PROVE DivisionInv'
  OBVIOUS
<1>0. /\ word \in Seq(AllUnits \cup {Stress, Dot})
      /\ review.status = "reviewed" => 1 \in review.starts
      /\ breakdown = NoBreakdown => layer = "unseeded"
      /\ DivisionIsSound
  BY DEF DivisionInv
<1>1. CASE Transcribe
  <2>1. UNCHANGED <<breakdown, review, layer>> /\ breakdown = NoBreakdown
    BY <1>1, Zenon DEF Transcribe, Fresh
  <2>2. DivisionIsSound'
    BY <1>0, <2>1 DEF DivisionIsSound
  <2>3. QED
    BY <1>0, <1>1, <2>1, <2>2, NewWordIsMarked DEF DivisionInv
<1>2. CASE SeedBreakdown
  <2>1. layer' = "seed" /\ UNCHANGED <<word, review>> /\ \E b : breakdown' = Derived(word) \cup {b}
    BY <1>2, Zenon DEF SeedBreakdown
  <2>2. breakdown' # NoBreakdown
    BY <2>1 DEF Derived, NoBreakdown
  <2>3. DivisionIsSound'
    BY <2>1 DEF DivisionIsSound
  <2>4. QED
    BY <1>0, <2>1, <2>2, <2>3 DEF DivisionInv
<1>3. CASE PutUpForReview
  <2>1. /\ layer = "seed" /\ UNCHANGED <<word, breakdown, layer>>
        /\ review' = [NoReview EXCEPT !.status = "unreviewed"]
    BY <1>3, Zenon DEF PutUpForReview
  <2>2. review'.status # "reviewed"
    BY <2>1 DEF NoReview
  <2>3. DivisionIsSound'
    BY <2>1 DEF DivisionIsSound
  <2>4. QED
    BY <1>0, <2>1, <2>2, <2>3 DEF DivisionInv
<1>4. CASE ReviewDivision
  <2>1. /\ layer = "seed" /\ UNCHANGED <<word, breakdown, layer>>
        /\ \E inner : review' = [status |-> "reviewed", starts |-> {1} \cup inner]
    BY <1>4, Zenon DEF ReviewDivision
  <2>2. 1 \in review'.starts
    BY <2>1
  <2>3. DivisionIsSound'
    BY <2>1 DEF DivisionIsSound
  <2>4. QED
    BY <1>0, <2>1, <2>2, <2>3 DEF DivisionInv
<1>5. CASE ProveDefect
  <2>1. layer = "seed" /\ UNCHANGED <<word, breakdown, layer, review>>
    BY <1>5, Zenon DEF ProveDefect
  <2>2. DivisionIsSound'
    BY <2>1 DEF DivisionIsSound
  <2>3. QED
    BY <1>0, <2>1, <2>2 DEF DivisionInv
<1>6. CASE SyllabifyPronunciation
  <2>1. UNCHANGED <<word, review>>
    BY <1>6, Zenon DEF SyllabifyPronunciation
  <2>2. DivisionIsSound' /\ breakdown' # NoBreakdown
    BY <1>6, DivisionStep
  <2>3. QED
    BY <1>0, <2>1, <2>2 DEF DivisionInv
<1>7. CASE UNCHANGED sylVars
  BY <1>0, <1>7 DEF sylVars, DivisionInv, DivisionIsSound
<1>8. QED
  BY <1>1, <1>2, <1>3, <1>4, <1>5, <1>6, <1>7, Zenon DEF SyllablesNext

(* A breakdown the script inferred or took from a reviewed row keeps the   *)
(* boundaries of the source's marks and has a nucleus in every syllable; a *)
(* defect, a division under review or one it refuses keeps those of the    *)
(* source alone; one it inferred puts no two nuclei in a syllable but for a*)
(* disputed rhotic, begins every syllable as English may and closes checked*)
(* vowels: for any inventory, any onsets and transcriptions of any length  *)
(* (planSyllableBreakdown, syllabify).                                     *)
THEOREM DivisionsAreSound == SyllablesSpec => []DivisionIsSound
<1>1. SyllablesInit => DivisionInv
  BY DEF SyllablesInit, DivisionInv, DivisionIsSound, NoReview
<1>2. DivisionInv => DivisionIsSound
  BY Zenon DEF DivisionInv
<1>3. QED
  BY <1>1, <1>2, DivisionInvNext, PTL DEF SyllablesSpec

------------------------------------------------------------------------------
(* The readings of an entry.                                               *)

SourceCandidate == [ipa : SourceForms, accents : Labels]
American(c) == "us" \in c.accents \/ "foreign" \notin c.accents

LEMMA NothingInNothing ==
  ASSUME NEW S, NEW s \in Seq(S)
  PROVE  s = << >> <=> ToSet(s) = {}
<1>1. Len(s) \in Nat /\ DOMAIN s = 1..Len(s) /\ (Len(s) = 0 <=> s = << >>)
  OBVIOUS
<1>2. s # << >> => s[1] \in ToSet(s)
  BY <1>1 DEF ToSet
<1>3. ToSet(<< >>) = {}
  BY DEF ToSet
<1>4. QED
  BY <1>2, <1>3

(* selectAmericanTranscriptions: candidates of no other country's accent,  *)
(* and every explicitly American one.                                      *)
LEMMA SelectedFacts ==
  ASSUME NEW cs \in Seq(SourceCandidate)
  PROVE  /\ Selected(cs) \in Seq(SourceCandidate)
         /\ \A c \in ToSet(Selected(cs)) : c \in ToSet(cs) /\ American(c)
         /\ \A c \in ToSet(cs) : "us" \in c.accents => c \in ToSet(Selected(cs))
<1> DEFINE E == {c \in ToSet(cs) : "us" \in Accents(c)}
           N == {c \in ToSet(cs) : Accents(c) = {}}
           W == {c \in ToSet(cs) : Accents(c) = {"within"}}
<1>1. \A A : Only(cs, A) \in Seq(SourceCandidate) /\ ToSet(Only(cs, A)) = ToSet(cs) \cap A
  <2> TAKE A
  <2>1. Only(cs, A) \in Seq(SourceCandidate \cap A)
    BY OnlyFacts
  <2>2. Seq(SourceCandidate \cap A) \subseteq Seq(SourceCandidate)
    OBVIOUS
  <2>3. ToSet(Only(cs, A)) = ToSet(cs) \cap A
    BY OnlyFacts
  <2>4. QED
    BY <2>1, <2>2, <2>3
<1>2. \A c \in E \cup N \cup W : American(c)
  BY DEF American, Accents
<1>3. \A c \in ToSet(cs) : "us" \in c.accents => c \in E
  BY DEF Accents
<1>4. E \subseteq ToSet(cs) /\ N \subseteq ToSet(cs) /\ W \subseteq ToSet(cs)
  OBVIOUS
<1>5. Selected(cs) = IF Only(cs, E) # << >> THEN Only(cs, E)
                     ELSE IF Only(cs, N) # << >> THEN Only(cs, N) ELSE Only(cs, W)
  BY DEF Selected
<1> HIDE DEF E, N, W
<1>6. Only(cs, E) = << >> => E = {}
  <2>1. ToSet(Only(cs, E)) = E
    BY <1>1, <1>4
  <2>2. Only(cs, E) \in Seq(SourceCandidate)
    BY <1>1
  <2>3. QED
    BY <2>1, <2>2, NothingInNothing
<1>7. CASE Only(cs, E) # << >>
  <2>1. Selected(cs) = Only(cs, E)
    BY <1>5, <1>7
  <2>2. Selected(cs) \in Seq(SourceCandidate) /\ ToSet(Selected(cs)) = ToSet(cs) \cap E
    BY <1>1, <2>1
  <2>3. QED
    BY <1>2, <1>3, <2>2
<1>8. CASE Only(cs, E) = << >>
  <2>1. \A c \in ToSet(cs) : "us" \notin c.accents
    BY <1>3, <1>6, <1>8
  <2>2. PICK A \in {N, W} : Selected(cs) = Only(cs, A)
    BY <1>5, <1>8
  <2>3. Selected(cs) \in Seq(SourceCandidate) /\ ToSet(Selected(cs)) = ToSet(cs) \cap A
    BY <1>1, <2>2
  <2>4. QED
    BY <1>2, <2>1, <2>3
<1>9. QED
  BY <1>7, <1>8

(* The forms normaliseEntry selects: with a curated list, forms that are   *)
(* upstream; without any curation, those of selectAmericanTranscriptions.  *)
ChosenIsSourced ==
  /\ Chosen \in Seq(SourceForms)
  /\ \A f \in ToSet(Chosen) : \E j \in DOMAIN candidates :
       candidates[j].ipa = f /\ (pinned = NoPin => American(candidates[j]))
  /\ pinned = NoPin /\ cmudict = << >> =>
       \A j \in DOMAIN candidates :
         "us" \in candidates[j].accents => candidates[j].ipa \in ToSet(Chosen)

LEMMA ChosenFacts == EntryTypeOK => ChosenIsSourced
<1> SUFFICES ASSUME EntryTypeOK PROVE ChosenIsSourced
  OBVIOUS
<1>0. /\ candidates \in Seq(SourceCandidate)
      /\ pinned # NoPin => pinned \in Seq(SourceForms)
  BY DEF EntryTypeOK, SourceCandidate
<1>1. CASE pinned # NoPin
  <2> DEFINE A == {f \in SourceForms : Upstream(f)}
  <2>1. Chosen = Only(pinned, A)
    BY <1>1 DEF Chosen
  <2>2. /\ Only(pinned, A) \in Seq(SourceForms \cap A)
        /\ ToSet(Only(pinned, A)) = ToSet(pinned) \cap A
    BY <1>0, <1>1, OnlyFacts
  <2>3. Seq(SourceForms \cap A) \subseteq Seq(SourceForms)
    OBVIOUS
  <2>4. \A f \in ToSet(Chosen) : Upstream(f)
    BY <2>1, <2>2
  <2>5. QED
    BY <1>1, <2>1, <2>2, <2>3, <2>4 DEF ChosenIsSourced, Upstream
<1>2. CASE pinned = NoPin /\ cmudict # << >>
  <2>1. Chosen = << >>
    BY <1>2 DEF Chosen
  <2>2. QED
    BY <1>2, <2>1 DEF ChosenIsSourced, ToSet
<1>3. CASE pinned = NoPin /\ cmudict = << >>
  <2> DEFINE cs == Selected(candidates)
  <2>1. Chosen = [k \in DOMAIN cs |-> cs[k].ipa]
    BY <1>3 DEF Chosen
  <2>2. /\ cs \in Seq(SourceCandidate)
        /\ \A c \in ToSet(cs) : c \in ToSet(candidates) /\ American(c)
        /\ \A c \in ToSet(candidates) : "us" \in c.accents => c \in ToSet(cs)
    BY <1>0, SelectedFacts
  <2> HIDE DEF cs
  <2>3. /\ Chosen \in Seq(SourceForms) /\ DOMAIN Chosen = DOMAIN cs
        /\ \A k \in DOMAIN cs : Chosen[k] = cs[k].ipa
    <3>1. DOMAIN cs = 1..Len(cs) /\ Len(cs) \in Nat
      BY <2>2
    <3>2. \A k \in 1..Len(cs) : cs[k].ipa \in SourceForms
      <4>1. \A k \in 1..Len(cs) : cs[k] \in SourceCandidate
        BY <2>2
      <4>2. QED
        BY <4>1 DEF SourceCandidate
    <3>3. [k \in 1..Len(cs) |-> cs[k].ipa] \in Seq(SourceForms)
      BY <3>1, <3>2
    <3>4. QED
      BY <2>1, <3>1, <3>3
  <2>4. ASSUME NEW f \in ToSet(Chosen)
        PROVE  \E j \in DOMAIN candidates : candidates[j].ipa = f /\ American(candidates[j])
    <3>1. PICK k \in DOMAIN cs : f = cs[k].ipa
      BY <2>3, <2>4 DEF ToSet
    <3>2. cs[k] \in ToSet(cs)
      BY DEF ToSet
    <3>3. cs[k] \in ToSet(candidates) /\ American(cs[k])
      BY <2>2, <3>2
    <3>4. PICK j \in DOMAIN candidates : cs[k] = candidates[j]
      BY <3>3 DEF ToSet
    <3>5. QED
      BY <3>1, <3>3, <3>4
  <2>5. ASSUME NEW j \in DOMAIN candidates, "us" \in candidates[j].accents
        PROVE  candidates[j].ipa \in ToSet(Chosen)
    <3>1. candidates[j] \in ToSet(candidates)
      BY DEF ToSet
    <3>2. PICK k \in DOMAIN cs : candidates[j] = cs[k]
      BY <2>2, <2>5, <3>1 DEF ToSet
    <3>3. QED
      BY <2>3, <3>2 DEF ToSet
  <2>6. QED
    BY <2>3, <2>4, <2>5 DEF ChosenIsSourced
<1>4. QED
  BY <1>1, <1>2, <1>3

(* What a list of readings holds, each of them once.                       *)
Holding(r, A) == r \in Seq(SourceForms) /\ IsInjective(r) /\ ToSet(r) = A

Usable(f) == f \notin Fragments /\ CanonicalForm[f] \notin Unstressed \cup {Unreadable}
CanonicalsOf(forms, n) ==
  {CanonicalForm[forms[i]] : i \in {i \in 1..n : Usable(forms[i])}}

LEMMA GatheredHolds ==
  ASSUME NEW r, NEW A, NEW f \in SourceForms, Holding(r, A)
  PROVE  Holding(Gathered(r, f), A \cup (IF Usable(f) THEN {CanonicalForm[f]} ELSE {}))
<1> DEFINE c == CanonicalForm[f]
<1>1. /\ r \in Seq(SourceForms) /\ IsInjective(r) /\ ToSet(r) = A
  BY DEF Holding
<1>2. CASE ~Usable(f)
  <2>1. Gathered(r, f) = r
    BY <1>2 DEF Gathered, Usable
  <2>2. QED
    BY <1>1, <1>2, <2>1 DEF Holding
<1>3. CASE Usable(f) /\ c \in A
  <2>1. Gathered(r, f) = r /\ A \cup {c} = A
    BY <1>1, <1>3 DEF Gathered
  <2>2. QED
    BY <1>1, <1>3, <2>1 DEF Holding
<1>4. CASE Usable(f) /\ c \notin A
  <2>1. Gathered(r, f) = Append(r, c) /\ c \in SourceForms
    BY <1>1, <1>4, EntryAssumption DEF Gathered, Usable
  <2>2. /\ Append(r, c) \in Seq(SourceForms) /\ ToSet(Append(r, c)) = ToSet(r) \cup {c}
        /\ IsInjective(Append(r, c))
    BY <1>1, <1>4, <2>1, OneMore
  <2>3. QED
    BY <1>1, <1>4, <2>1, <2>2 DEF Holding
<1>5. QED
  BY <1>2, <1>3, <1>4

LEMMA PinAddedHolds ==
  ASSUME NEW r, NEW A, NEW f \in SourceForms, Holding(r, A)
  PROVE  Holding(PinAdded(r, f), A \cup (IF VerifiedPin(f) THEN {f} ELSE {}))
<1>1. /\ r \in Seq(SourceForms) /\ IsInjective(r) /\ ToSet(r) = A
  BY DEF Holding
<1>2. CASE ~VerifiedPin(f)
  <2>1. PinAdded(r, f) = r
    BY <1>2 DEF PinAdded
  <2>2. QED
    BY <1>1, <1>2, <2>1 DEF Holding
<1>3. CASE VerifiedPin(f) /\ f \in A
  <2>1. PinAdded(r, f) = r /\ A \cup {f} = A
    BY <1>1, <1>3 DEF PinAdded
  <2>2. QED
    BY <1>1, <1>3, <2>1 DEF Holding
<1>4. CASE VerifiedPin(f) /\ f \notin A
  <2>1. PinAdded(r, f) = Append(r, f)
    BY <1>1, <1>4 DEF PinAdded
  <2>2. /\ Append(r, f) \in Seq(SourceForms) /\ ToSet(Append(r, f)) = ToSet(r) \cup {f}
        /\ IsInjective(Append(r, f))
    BY <1>1, <1>4, OneMore
  <2>3. QED
    BY <1>1, <1>4, <2>1, <2>2 DEF Holding
<1>5. QED
  BY <1>2, <1>3, <1>4

LEMMA DedupedFacts ==
  ASSUME NEW forms \in Seq(SourceForms)
  PROVE  Holding(Deduped(forms), CanonicalsOf(forms, Len(forms)))
<1> DEFINE m == Len(forms)
           U == Seq(SourceForms)
           step == [p \in U \X (1..m) |-> Gathered(p[1], forms[p[2]])]
           body(f) == [k \in 0..m |-> IF k = 0 THEN << >> ELSE Gathered(f[k - 1], forms[k])]
           upTo == CHOOSE f : f = body(f)
           Seen(k) == CanonicalsOf(forms, k)
<1>1. m \in Nat /\ << >> \in U /\ \A k \in 1..m : forms[k] \in SourceForms
  OBVIOUS
<1>2. \A u \in U, x \in SourceForms : Gathered(u, x) \in U
  <2> SUFFICES ASSUME NEW u \in U, NEW x \in SourceForms PROVE Gathered(u, x) \in U
    OBVIOUS
  <2>1. CASE ~Usable(x) \/ CanonicalForm[x] \in ToSet(u)
    BY <2>1 DEF Gathered, Usable
  <2>2. CASE Usable(x) /\ CanonicalForm[x] \notin ToSet(u)
    <3>1. Gathered(u, x) = Append(u, CanonicalForm[x]) /\ CanonicalForm[x] \in SourceForms
      BY <2>2, EntryAssumption DEF Gathered, Usable
    <3>2. QED
      BY <3>1
  <2>3. QED
    BY <2>1, <2>2
<1> HIDE DEF m, U
<1>3. step \in [U \X (1..m) -> U]
  BY <1>1, <1>2
<1>4. \A u \in U, k \in 1..m : step[<<u, k>>] = Gathered(u, forms[k])
  OBVIOUS
<1> HIDE DEF step
<1>5. PICK f : IsRun(U, << >>, m, step, f)
  BY <1>1, <1>3, Recursion
<1>6. /\ f \in [0..m -> U] /\ f[0] = << >>
      /\ \A k \in 1..m : f[k] = step[<<f[k - 1], k>>]
  BY <1>5 DEF IsRun
<1>7. \A k \in 1..m : f[k] = Gathered(f[k - 1], forms[k])
  <2> SUFFICES ASSUME NEW k \in 1..m PROVE f[k] = Gathered(f[k - 1], forms[k])
    OBVIOUS
  <2>1. k - 1 \in 0..m
    BY <1>1
  <2>2. f[k - 1] \in U /\ f[k] = step[<<f[k - 1], k>>]
    BY <1>6, <2>1
  <2>3. QED
    BY <1>4, <2>2
<1>8. f = body(f)
  <2>1. \A k \in 0..m : k = 0 \/ k \in 1..m
    BY <1>1
  <2>2. \A k \in 0..m : f[k] = IF k = 0 THEN << >> ELSE Gathered(f[k - 1], forms[k])
    BY <1>6, <1>7, <2>1
  <2>3. DOMAIN f = 0..m /\ f = [k \in 0..m |-> f[k]]
    BY <1>6
  <2>4. QED
    BY <2>2, <2>3
<1>9. upTo = body(upTo)
  BY <1>8
<1> HIDE DEF upTo
<1>10. \A k \in 0..m : upTo[k] = IF k = 0 THEN << >> ELSE Gathered(upTo[k - 1], forms[k])
  BY <1>9
<1> DEFINE T == {k \in 0..m : Holding(upTo[k], Seen(k))}
<1>11. 0 \in T
  <2>1. 0 \in 0..m
    BY <1>1
  <2>2. upTo[0] = << >>
    BY <1>10, <2>1
  <2>3. Seen(0) = {}
    BY DEF CanonicalsOf
  <2>4. Holding(<< >>, {})
    BY DEF Holding, ToSet, IsInjective
  <2>5. QED
    BY <2>1, <2>2, <2>3, <2>4
<1>12. ASSUME NEW k \in T, k < m PROVE k + 1 \in T
  <2>1. k + 1 \in 1..m /\ k + 1 \in 0..m /\ k + 1 # 0 /\ (k + 1) - 1 = k /\ k \in Nat
    BY <1>1, <1>12
  <2>2. Holding(upTo[k], Seen(k))
    OBVIOUS
  <2>3. upTo[k + 1] = Gathered(upTo[k], forms[k + 1])
    BY <1>10, <2>1
  <2>4. Seen(k + 1) = Seen(k) \cup (IF Usable(forms[k + 1]) THEN {CanonicalForm[forms[k + 1]]} ELSE {})
    <3>1. 1..(k + 1) = (1..k) \cup {k + 1}
      BY <2>1
    <3>2. QED
      BY <3>1 DEF CanonicalsOf
  <2>5. forms[k + 1] \in SourceForms
    BY <1>1, <2>1
  <2> HIDE DEF Seen
  <2>6. Holding(upTo[k + 1], Seen(k + 1))
    BY <2>2, <2>3, <2>4, <2>5, GatheredHolds
  <2>7. QED
    BY <2>1, <2>6
<1>13. T \in SUBSET (0..m)
  OBVIOUS
<1> HIDE DEF T
<1>14. T = 0..m
  BY <1>1, <1>11, <1>12, <1>13, EveryNumber
<1>15. Holding(upTo[m], Seen(m))
  <2>1. m \in T
    BY <1>1, <1>14
  <2>2. QED
    BY <2>1 DEF T
<1>16. Deduped(forms) = upTo[m]
  BY DEF Deduped, upTo, m
<1>17. QED
  BY <1>15, <1>16 DEF m

PinsUpTo(n) == {f \in {cmudict[i] : i \in 1..n} : VerifiedPin(f)}

LEMMA WithPinsFacts ==
  ASSUME cmudict \in Seq(SourceForms), NEW r, NEW A, Holding(r, A)
  PROVE  Holding(WithPins(r), A \cup PinsUpTo(Len(cmudict)))
<1> DEFINE m == Len(cmudict)
           U == Seq(SourceForms)
           step == [p \in U \X (1..m) |-> PinAdded(p[1], cmudict[p[2]])]
           body(f) == [k \in 0..m |-> IF k = 0 THEN r ELSE PinAdded(f[k - 1], cmudict[k])]
           upTo == CHOOSE f : f = body(f)
           Seen(k) == A \cup PinsUpTo(k)
<1>1. m \in Nat /\ r \in U /\ \A k \in 1..m : cmudict[k] \in SourceForms
  BY DEF Holding
<1>2. \A u \in U, x \in SourceForms : PinAdded(u, x) \in U
  <2> SUFFICES ASSUME NEW u \in U, NEW x \in SourceForms PROVE PinAdded(u, x) \in U
    OBVIOUS
  <2>1. PinAdded(u, x) = u \/ PinAdded(u, x) = Append(u, x)
    BY DEF PinAdded
  <2>2. QED
    BY <2>1
<1> HIDE DEF m, U
<1>3. step \in [U \X (1..m) -> U]
  BY <1>1, <1>2
<1>4. \A u \in U, k \in 1..m : step[<<u, k>>] = PinAdded(u, cmudict[k])
  OBVIOUS
<1> HIDE DEF step
<1>5. PICK f : IsRun(U, r, m, step, f)
  BY <1>1, <1>3, Recursion
<1>6. /\ f \in [0..m -> U] /\ f[0] = r
      /\ \A k \in 1..m : f[k] = step[<<f[k - 1], k>>]
  BY <1>5 DEF IsRun
<1>7. \A k \in 1..m : f[k] = PinAdded(f[k - 1], cmudict[k])
  <2> SUFFICES ASSUME NEW k \in 1..m PROVE f[k] = PinAdded(f[k - 1], cmudict[k])
    OBVIOUS
  <2>1. k - 1 \in 0..m
    BY <1>1
  <2>2. f[k - 1] \in U /\ f[k] = step[<<f[k - 1], k>>]
    BY <1>6, <2>1
  <2>3. QED
    BY <1>4, <2>2
<1>8. f = body(f)
  <2>1. \A k \in 0..m : k = 0 \/ k \in 1..m
    BY <1>1
  <2>2. \A k \in 0..m : f[k] = IF k = 0 THEN r ELSE PinAdded(f[k - 1], cmudict[k])
    BY <1>6, <1>7, <2>1
  <2>3. DOMAIN f = 0..m /\ f = [k \in 0..m |-> f[k]]
    BY <1>6
  <2>4. QED
    BY <2>2, <2>3
<1>9. upTo = body(upTo)
  BY <1>8
<1> HIDE DEF upTo
<1>10. \A k \in 0..m : upTo[k] = IF k = 0 THEN r ELSE PinAdded(upTo[k - 1], cmudict[k])
  BY <1>9
<1> DEFINE T == {k \in 0..m : Holding(upTo[k], Seen(k))}
<1>11. 0 \in T
  <2>1. 0 \in 0..m
    BY <1>1
  <2>2. upTo[0] = r
    BY <1>10, <2>1
  <2>3. Seen(0) = A
    BY DEF PinsUpTo
  <2>4. QED
    BY <2>1, <2>2, <2>3
<1>12. ASSUME NEW k \in T, k < m PROVE k + 1 \in T
  <2>1. k + 1 \in 1..m /\ k + 1 \in 0..m /\ k + 1 # 0 /\ (k + 1) - 1 = k /\ k \in Nat
    BY <1>1, <1>12
  <2>2. Holding(upTo[k], Seen(k))
    OBVIOUS
  <2>3. upTo[k + 1] = PinAdded(upTo[k], cmudict[k + 1])
    BY <1>10, <2>1
  <2>4. Seen(k + 1) = Seen(k) \cup (IF VerifiedPin(cmudict[k + 1]) THEN {cmudict[k + 1]} ELSE {})
    <3>1. 1..(k + 1) = (1..k) \cup {k + 1}
      BY <2>1
    <3>2. QED
      BY <3>1 DEF PinsUpTo
  <2>5. cmudict[k + 1] \in SourceForms
    BY <1>1, <2>1
  <2> HIDE DEF Seen
  <2>6. Holding(upTo[k + 1], Seen(k + 1))
    BY <2>2, <2>3, <2>4, <2>5, PinAddedHolds
  <2>7. QED
    BY <2>1, <2>6
<1>13. T \in SUBSET (0..m)
  OBVIOUS
<1> HIDE DEF T
<1>14. T = 0..m
  BY <1>1, <1>11, <1>12, <1>13, EveryNumber
<1>15. Holding(upTo[m], Seen(m))
  <2>1. m \in T
    BY <1>1, <1>14
  <2>2. QED
    BY <2>1 DEF T
<1>16. WithPins(r) = upTo[m]
  BY DEF WithPins, upTo, m
<1>17. QED
  BY <1>15, <1>16 DEF m

LEMMA OrderedFacts ==
  ASSUME NEW r, NEW A, Holding(r, A)
  PROVE  Holding(Ordered(r), A)
<1> DEFINE d == Only(r, Dotted)
           e == Only(r, ToSet(r) \ Dotted)
           q == d \o e
<1>1. r \in Seq(SourceForms) /\ IsInjective(r) /\ ToSet(r) = A
  BY DEF Holding
<1>2. /\ d \in Seq(SourceForms \cap Dotted) /\ IsInjective(d) /\ ToSet(d) = A \cap Dotted
  BY <1>1, OnlyFacts
<1>3. /\ e \in Seq(SourceForms \cap (ToSet(r) \ Dotted)) /\ IsInjective(e)
      /\ ToSet(e) = A \ Dotted
  <2>1. /\ e \in Seq(SourceForms \cap (ToSet(r) \ Dotted)) /\ IsInjective(e)
        /\ ToSet(e) = ToSet(r) \cap (ToSet(r) \ Dotted)
    BY <1>1, OnlyFacts
  <2>2. QED
    BY <1>1, <2>1
<1> HIDE DEF d, e
<1>4. d \in Seq(SourceForms) /\ e \in Seq(SourceForms)
  BY <1>2, <1>3
<1>5. /\ q \in Seq(SourceForms) /\ Len(q) = Len(d) + Len(e)
      /\ Len(d) \in Nat /\ Len(e) \in Nat
      /\ DOMAIN d = 1..Len(d) /\ DOMAIN e = 1..Len(e) /\ DOMAIN q = 1..Len(q)
      /\ \A i \in 1..Len(d) : q[i] = d[i]
      /\ \A i \in 1..Len(e) : q[Len(d) + i] = e[i]
  BY <1>4
<1> HIDE DEF q
<1>6. \A i \in DOMAIN q : i \in 1..Len(d) \/ (i - Len(d) \in 1..Len(e) /\ i = Len(d) + (i - Len(d)))
  BY <1>5
<1>7. /\ \A i \in 1..Len(d) : d[i] \in Dotted
      /\ \A i \in 1..Len(e) : e[i] \notin Dotted
  BY <1>2, <1>3, <1>5 DEF ToSet
<1>8. \A i \in DOMAIN q : (i \in 1..Len(d) => q[i] = d[i])
                          /\ (i - Len(d) \in 1..Len(e) => q[i] = e[i - Len(d)])
  BY <1>5
<1>9. IsInjective(q)
  <2> SUFFICES ASSUME NEW i \in DOMAIN q, NEW j \in DOMAIN q, q[i] = q[j] PROVE i = j
    BY DEF IsInjective
  <2>1. CASE i \in 1..Len(d) /\ j \in 1..Len(d)
    BY <1>2, <1>5, <1>8, <2>1 DEF IsInjective
  <2>2. CASE i - Len(d) \in 1..Len(e) /\ j - Len(d) \in 1..Len(e)
    <3>1. i - Len(d) = j - Len(d)
      BY <1>3, <1>5, <1>8, <2>2 DEF IsInjective
    <3>2. QED
      BY <1>5, <3>1
  <2>3. CASE i \in 1..Len(d) /\ j - Len(d) \in 1..Len(e)
    BY <1>7, <1>8, <2>3
  <2>4. CASE j \in 1..Len(d) /\ i - Len(d) \in 1..Len(e)
    BY <1>7, <1>8, <2>4
  <2>5. QED
    BY <1>6, <2>1, <2>2, <2>3, <2>4
<1>10. ToSet(q) = A
  <2>1. ASSUME NEW x \in ToSet(q) PROVE x \in A
    <3>1. PICK i \in DOMAIN q : x = q[i]
      BY <2>1 DEF ToSet
    <3>2. x \in ToSet(d) \cup ToSet(e)
      BY <1>5, <1>6, <1>8, <3>1 DEF ToSet
    <3>3. QED
      BY <1>2, <1>3, <3>2
  <2>2. ASSUME NEW x \in A PROVE x \in ToSet(q)
    <3>1. x \in ToSet(d) \/ x \in ToSet(e)
      BY <1>2, <1>3
    <3>2. CASE x \in ToSet(d)
      <4>1. PICK i \in 1..Len(d) : x = d[i]
        BY <1>5, <3>2 DEF ToSet
      <4>2. i \in DOMAIN q
        BY <1>5
      <4>3. QED
        BY <1>5, <4>1, <4>2 DEF ToSet
    <3>3. CASE x \in ToSet(e)
      <4>1. PICK i \in 1..Len(e) : x = e[i]
        BY <1>5, <3>3 DEF ToSet
      <4>2. Len(d) + i \in DOMAIN q
        BY <1>5
      <4>3. QED
        BY <1>5, <4>1, <4>2 DEF ToSet
    <3>4. QED
      BY <3>1, <3>2, <3>3
  <2>3. QED
    BY <2>1, <2>2
<1>11. Ordered(r) = r \/ Ordered(r) = q
  BY DEF Ordered, d, e, q
<1>12. QED
  BY <1>1, <1>5, <1>9, <1>10, <1>11 DEF Holding

(* What the readings of an entry are made of.                              *)
LEMMA ReadingsFacts ==
  EntryTypeOK => Holding(Readings, CanonicalsOf(Chosen, Len(Chosen)) \cup PinsUpTo(Len(cmudict)))
<1> SUFFICES ASSUME EntryTypeOK
             PROVE  Holding(Readings, CanonicalsOf(Chosen, Len(Chosen)) \cup PinsUpTo(Len(cmudict)))
  OBVIOUS
<1>1. Chosen \in Seq(SourceForms) /\ cmudict \in Seq(SourceForms)
  BY ChosenFacts DEF ChosenIsSourced, EntryTypeOK
<1>2. Holding(Deduped(Chosen), CanonicalsOf(Chosen, Len(Chosen)))
  BY <1>1, DedupedFacts
<1>3. Holding(WithPins(Deduped(Chosen)), CanonicalsOf(Chosen, Len(Chosen)) \cup PinsUpTo(Len(cmudict)))
  BY <1>1, <1>2, WithPinsFacts
<1>4. Holding(Ordered(WithPins(Deduped(Chosen))),
              CanonicalsOf(Chosen, Len(Chosen)) \cup PinsUpTo(Len(cmudict)))
  BY <1>3, OrderedFacts
<1>5. QED
  BY <1>4 DEF Readings

(* "Curation cannot silently invent a pronunciation."                      *)
LEMMA EveryReadingIsSourced ==
  ASSUME EntryTypeOK, NEW f \in ToSet(Readings)
  PROVE  /\ CanonicalForm[f] = f
         /\ \/ \E j \in DOMAIN candidates :
                 /\ CanonicalForm[candidates[j].ipa] = f
                 /\ pinned = NoPin => American(candidates[j])
            \/ f \in Verified /\ f \in ToSet(cmudict)
<1>1. f \in CanonicalsOf(Chosen, Len(Chosen)) \/ f \in PinsUpTo(Len(cmudict))
  BY ReadingsFacts DEF Holding
<1>2. /\ ChosenIsSourced /\ DOMAIN Chosen = 1..Len(Chosen)
      /\ DOMAIN cmudict = 1..Len(cmudict)
  BY ChosenFacts DEF ChosenIsSourced, EntryTypeOK
<1>3. CASE f \in CanonicalsOf(Chosen, Len(Chosen))
  <2>1. PICK i \in 1..Len(Chosen) : f = CanonicalForm[Chosen[i]] /\ Usable(Chosen[i])
    BY <1>3 DEF CanonicalsOf
  <2>2. Chosen[i] \in ToSet(Chosen) /\ Chosen[i] \in SourceForms
    BY <1>2 DEF ToSet, ChosenIsSourced
  <2>3. CanonicalForm[f] = f
    BY <2>1, <2>2, EntryAssumption DEF Usable
  <2>4. PICK j \in DOMAIN candidates :
          candidates[j].ipa = Chosen[i] /\ (pinned = NoPin => American(candidates[j]))
    BY <1>2, <2>2 DEF ChosenIsSourced
  <2>5. QED
    BY <2>1, <2>3, <2>4
<1>4. CASE f \in PinsUpTo(Len(cmudict))
  <2>1. VerifiedPin(f) /\ f \in ToSet(cmudict)
    BY <1>2, <1>4 DEF PinsUpTo, ToSet
  <2>2. QED
    BY <2>1 DEF VerifiedPin
<1>5. QED
  BY <1>1, <1>3, <1>4

(* "One unsupported variant must not cost the word its other               *)
(* pronunciations."                                                        *)
LEMMA UsableEntryLoads ==
  ASSUME EntryTypeOK, attributed, pinned = NoPin, cmudict = << >>,
         NEW c \in DOMAIN candidates, Usable(candidates[c].ipa), "us" \in candidates[c].accents,
         Cardinality({CanonicalForm[candidates[k].ipa] : k \in DOMAIN candidates}) <= MaxReadings
  PROVE  ~Problems
<1> DEFINE X == {CanonicalForm[candidates[k].ipa] : k \in DOMAIN candidates}
           H == CanonicalsOf(Chosen, Len(Chosen))
           n == Len(candidates)
<1>1. /\ ChosenIsSourced /\ Chosen \in Seq(SourceForms) /\ DOMAIN Chosen = 1..Len(Chosen)
  BY ChosenFacts DEF ChosenIsSourced
<1>2. PinsUpTo(Len(cmudict)) = {}
  BY DEF PinsUpTo
<1>3. Readings \in Seq(SourceForms) /\ IsInjective(Readings) /\ ToSet(Readings) = H
  BY <1>2, ReadingsFacts DEF Holding
<1>4. candidates[c].ipa \in ToSet(Chosen)
  BY <1>1 DEF ChosenIsSourced
<1>5. PICK i \in 1..Len(Chosen) : Chosen[i] = candidates[c].ipa
  BY <1>1, <1>4 DEF ToSet
<1>6. CanonicalForm[Chosen[i]] \in H
  BY <1>5 DEF CanonicalsOf
<1>7. H \subseteq X
  <2> SUFFICES ASSUME NEW f \in H PROVE f \in X
    OBVIOUS
  <2>1. PICK k \in 1..Len(Chosen) : f = CanonicalForm[Chosen[k]]
    BY DEF CanonicalsOf
  <2>2. Chosen[k] \in ToSet(Chosen)
    BY <1>1 DEF ToSet
  <2>3. PICK j \in DOMAIN candidates : candidates[j].ipa = Chosen[k]
    BY <1>1, <2>2 DEF ChosenIsSourced
  <2>4. QED
    BY <2>1, <2>3
<1>8. H \cap Unstressed = {}
  BY DEF CanonicalsOf, Usable
<1>9. n \in Nat /\ DOMAIN candidates = 1..n
  BY DEF EntryTypeOK
<1>10. IsFiniteSet(X)
  <2> DEFINE g == [k \in 1..n |-> CanonicalForm[candidates[k].ipa]]
  <2>1. g \in Surjection(1..n, X)
    BY <1>9 DEF Surjection
  <2>2. IsFiniteSet(1..n)
    BY <1>9, FS_Interval
  <2> HIDE DEF X, g
  <2>3. QED
    BY <2>1, <2>2, FS_Surjection
<1> HIDE DEF X, H, n
<1>11. Len(Readings) \in Nat /\ DOMAIN Readings = 1..Len(Readings)
  BY <1>3
<1>12. Readings \in Injection(1..Len(Readings), X)
  <2>1. Readings \in [1..Len(Readings) -> X]
    BY <1>3, <1>7, <1>11 DEF ToSet
  <2>2. QED
    BY <1>3, <2>1 DEF Injection
<1>13. Len(Readings) <= Cardinality(X)
  <2>1. Cardinality(1..Len(Readings)) = Len(Readings)
    <3>1. PICK l \in Nat : l = Len(Readings)
      BY <1>11
    <3>2. 1 \in Int /\ l \in Int
      BY <3>1
    <3>3. Cardinality(1..l) = IF 1 > l THEN 0 ELSE l - 1 + 1
      BY ONLY <3>2, FS_Interval
    <3>4. QED
      BY <3>1, <3>3
  <2>2. Cardinality(1..Len(Readings)) <= Cardinality(X)
    BY <1>10, <1>12, FS_Injection
  <2>3. QED
    BY <2>1, <2>2
<1>14. Cardinality(X) \in Nat /\ Cardinality(X) <= MaxReadings /\ MaxReadings \in Nat
  BY <1>10, FS_CardinalityType, EntryAssumption DEF X
<1>15. Readings # << >>
  BY <1>3, <1>6, NothingInNothing
<1>16. ~Rejections
  <2>1. Chosen # << >>
    BY <1>1, <1>4, NothingInNothing
  <2>2. DOMAIN cmudict = {}
    OBVIOUS
  <2>3. QED
    BY <2>1, <2>2 DEF Rejections
<1>17. ~(Len(Readings) > MaxReadings)
  BY <1>11, <1>13, <1>14
<1>18. ToSet(Readings) \cap Unstressed = {}
  BY <1>3, <1>8
<1>19. QED
  BY <1>15, <1>16, <1>17, <1>18 DEF Problems

LEMMA ReadingsSoundNow == EntryTypeOK => ReadingsAreSourced
<1> SUFFICES ASSUME EntryTypeOK PROVE ReadingsAreSourced
  OBVIOUS
<1>1. Readings \in Seq(SourceForms) /\ IsInjective(Readings)
  BY ReadingsFacts DEF Holding
<1>2. Len(Readings) \in Nat /\ DOMAIN Readings = 1..Len(Readings)
      /\ (Len(Readings) = 0 <=> Readings = << >>)
  BY <1>1
<1>3. ~Problems =>
        /\ Len(Readings) \in 1..MaxReadings
        /\ ToSet(Readings) \cap Unstressed = {}
  BY <1>2, EntryAssumption DEF Problems
<1>4. ASSUME ~Problems, NEW k \in DOMAIN Readings
      PROVE  /\ CanonicalForm[Readings[k]] = Readings[k] /\ Readings[k] \notin Unstressed
             /\ \/ \E j \in DOMAIN candidates :
                     /\ CanonicalForm[candidates[j].ipa] = Readings[k]
                     /\ pinned = NoPin =>
                          "us" \in candidates[j].accents \/ "foreign" \notin candidates[j].accents
                \/ Readings[k] \in Verified /\ Readings[k] \in ToSet(cmudict)
  <2>1. Readings[k] \in ToSet(Readings)
    BY DEF ToSet
  <2>2. Readings[k] \notin Unstressed
    BY <1>3, <1>4, <2>1
  <2>3. QED
    BY <2>1, <2>2, EveryReadingIsSourced DEF American
<1>5. ASSUME attributed, pinned = NoPin, cmudict = << >>,
             NEW c \in DOMAIN candidates,
             candidates[c].ipa \notin Fragments,
             CanonicalForm[candidates[c].ipa] \notin Unstressed \cup {Unreadable},
             "us" \in candidates[c].accents,
             Cardinality({CanonicalForm[candidates[k].ipa] : k \in DOMAIN candidates}) <= MaxReadings
      PROVE  ~Problems
  BY <1>5, UsableEntryLoads DEF Usable
<1> HIDE DEF Readings
<1>6. QED
  BY <1>1, <1>3, <1>4, <1>5 DEF ReadingsAreSourced

(* The readings an entry loads with are a few distinct canonical forms,    *)
(* stressed, each read off an American or a pinned candidate or verified   *)
(* by CMUdict, and a usable American candidate is enough for the entry to  *)
(* load: for any forms, labels and lengths (normaliseEntry, validateEntry).*)
THEOREM EntriesAreSourced == EntrySpec => []ReadingsAreSourced
<1>1. EntryInit => EntryTypeOK
  BY DEF EntryInit, EntryTypeOK
<1>2. EntryTypeOK /\ [EntryNext]_entryVars => EntryTypeOK'
  <2> SUFFICES ASSUME EntryTypeOK, [EntryNext]_entryVars PROVE EntryTypeOK'
    OBVIOUS
  <2>0. /\ candidates \in Seq([ipa : SourceForms, accents : Labels])
        /\ pinned = NoPin \/ pinned \in Seq(SourceForms)
        /\ cmudict \in Seq(SourceForms) /\ attributed \in BOOLEAN
    BY Zenon DEF EntryTypeOK
  <2>1. CASE FetchCandidate
    <3>1. PICK f \in SourceForms, a \in Labels :
            candidates' = Append(candidates, [ipa |-> f, accents |-> a])
      BY <2>1 DEF FetchCandidate
    <3>2. candidates' \in Seq([ipa : SourceForms, accents : Labels])
      BY <2>0, <3>1
    <3>3. QED
      BY <2>0, <2>1, <3>2 DEF FetchCandidate, EntryTypeOK
  <2>2. CASE PinTranscription
    <3>1. PICK f \in SourceForms :
            IF pinned = NoPin THEN pinned' = <<f>> ELSE pinned' = Append(pinned, f)
      BY <2>2 DEF PinTranscription
    <3>2. pinned' \in Seq(SourceForms)
      <4>1. <<f>> \in Seq(SourceForms)
        OBVIOUS
      <4>2. pinned # NoPin => Append(pinned, f) \in Seq(SourceForms)
        BY <2>0
      <4>3. QED
        BY <3>1, <4>1, <4>2
    <3>3. QED
      BY <2>0, <2>2, <3>2 DEF PinTranscription, EntryTypeOK
  <2>3. CASE PinCmudict
    <3>1. PICK f \in SourceForms : cmudict' = Append(cmudict, f)
      BY <2>3 DEF PinCmudict
    <3>2. cmudict' \in Seq(SourceForms)
      BY <2>0, <3>1
    <3>3. QED
      BY <2>0, <2>3, <3>2 DEF PinCmudict, EntryTypeOK
  <2>4. CASE UNCHANGED entryVars
    BY <2>0, <2>4 DEF entryVars, EntryTypeOK
  <2>5. QED
    BY <2>1, <2>2, <2>3, <2>4 DEF EntryNext
<1>3. QED
  BY <1>1, <1>2, ReadingsSoundNow, PTL DEF EntrySpec

------------------------------------------------------------------------------
(* The pronunciations of a word.                                           *)

Row == [form : Forms, primary : BOOLEAN, order : Int, clip : BOOLEAN]

(* Rows that satisfy the three unique keys of the table.                   *)
Table(rs, next) ==
  /\ next \in Nat \ {0}
  /\ DOMAIN rs \subseteq 1..(next - 1)
  /\ rs \in [DOMAIN rs -> Row]
  /\ \A i \in DOMAIN rs : ~Collides(rs, i)

LEMMA TableKeys ==
  ASSUME NEW rs, NEW next, Table(rs, next), NEW i \in DOMAIN rs, NEW j \in DOMAIN rs, i # j
  PROVE  /\ rs[i].form # rs[j].form /\ rs[i].order # rs[j].order
         /\ ~(rs[i].primary /\ rs[j].primary)
BY DEF Table, Collides

LEMMA TableFinite ==
  ASSUME NEW rs, NEW next, Table(rs, next)
  PROVE  IsFiniteSet(DOMAIN rs)
<1>1. next - 1 \in Int
  BY DEF Table
<1>2. IsFiniteSet(1..(next - 1))
  BY <1>1, FS_Interval
<1>3. DOMAIN rs \in SUBSET (1..(next - 1))
  BY DEF Table
<1>4. QED
  BY <1>2, <1>3, FS_Subset

(* ORDER BY display_order returns every row once, and rows only.           *)
LEMMA InOrderIsAll ==
  ASSUME NEW rs, NEW next, Table(rs, next)
  PROVE  /\ InOrder(rs) \in Seq(DOMAIN rs) /\ ToSet(InOrder(rs)) = DOMAIN rs
         /\ IsInjective(InOrder(rs))
<1> DEFINE D == DOMAIN rs
           n == Cardinality(D)
           lower(i) == {j \in D : rs[j].order < rs[i].order}
           b == [i \in D |-> Cardinality(lower(i))]
<1>1. IsFiniteSet(D) /\ n \in Nat
  BY TableFinite, FS_CardinalityType
<1>2. \A i \in D : rs[i].order \in Int
  BY DEF Table, Row
<1>3. \A i, j \in D : i # j => rs[i].order # rs[j].order
  BY TableKeys
<1>4. InOrder(rs) = [k \in 1..n |-> CHOOSE i \in D : Cardinality(lower(i)) = k - 1]
  BY DEF InOrder
<1> HIDE DEF D
<1>5. ASSUME NEW i \in D
      PROVE  IsFiniteSet(lower(i)) /\ Cardinality(lower(i)) \in 0..(n - 1)
  <2>1. lower(i) \in SUBSET D /\ i \notin lower(i)
    BY <1>2
  <2> HIDE DEF lower
  <2>2. IsFiniteSet(lower(i)) /\ Cardinality(lower(i)) <= n
    BY <1>1, <2>1, FS_Subset
  <2>3. Cardinality(lower(i)) # n
    BY <1>1, <2>1, FS_Subset
  <2>4. Cardinality(lower(i)) \in Nat
    BY <2>2, FS_CardinalityType
  <2>5. QED
    BY <1>1, <2>2, <2>3, <2>4
<1>6. ASSUME NEW i \in D, NEW j \in D, rs[i].order < rs[j].order
      PROVE  Cardinality(lower(i)) # Cardinality(lower(j))
  <2>1. (lower(i) \cup {i}) \in SUBSET lower(j) /\ i \notin lower(i)
    BY <1>2, <1>6
  <2> HIDE DEF lower
  <2>2. IsFiniteSet(lower(i)) /\ IsFiniteSet(lower(j))
    BY <1>5
  <2>3. Cardinality(lower(i) \cup {i}) <= Cardinality(lower(j))
    BY <2>1, <2>2, FS_Subset
  <2>4. Cardinality(lower(i) \cup {i}) = Cardinality(lower(i)) + 1
    BY <2>1, <2>2, FS_AddElement
  <2>5. Cardinality(lower(i)) \in Int /\ Cardinality(lower(j)) \in Int
    BY <2>2, FS_CardinalityType
  <2>6. QED
    BY <2>3, <2>4, <2>5
<1> HIDE DEF lower
<1>7. b \in Injection(D, 0..(n - 1))
  <2>1. b \in [D -> 0..(n - 1)]
    BY <1>5
  <2>2. ASSUME NEW i \in D, NEW j \in D, b[i] = b[j] PROVE i = j
    <3>1. Cardinality(lower(i)) = Cardinality(lower(j))
      BY <2>2
    <3>2. ~(rs[i].order < rs[j].order) /\ ~(rs[j].order < rs[i].order)
      BY <1>6, <3>1
    <3>3. QED
      BY <1>2, <1>3, <3>2
  <2>3. QED
    BY <2>1, <2>2 DEF Injection, IsInjective
<1>8. b \in Surjection(D, 0..(n - 1))
  <2>1. IsFiniteSet(0..(n - 1)) /\ Cardinality(0..(n - 1)) = n
    <3>1. 0 \in Int /\ n - 1 \in Int
      BY <1>1
    <3>2. /\ IsFiniteSet(0..(n - 1))
          /\ Cardinality(0..(n - 1)) = IF 0 > n - 1 THEN 0 ELSE n - 1 - 0 + 1
      BY <3>1, FS_Interval
    <3>3. QED
      BY <1>1, <3>2
  <2> HIDE DEF b
  <2>2. QED
    BY <1>7, <2>1, FS_Injection
<1>9. \A k \in 1..n : InOrder(rs)[k] \in D /\ Cardinality(lower(InOrder(rs)[k])) = k - 1
  <2> SUFFICES ASSUME NEW k \in 1..n
               PROVE  InOrder(rs)[k] \in D /\ Cardinality(lower(InOrder(rs)[k])) = k - 1
    OBVIOUS
  <2>1. k - 1 \in 0..(n - 1)
    BY <1>1
  <2>2. PICK i \in D : b[i] = k - 1
    BY <1>8, <2>1 DEF Surjection
  <2>3. Cardinality(lower(i)) = k - 1
    BY <2>2
  <2>4. QED
    BY <1>4, <2>3
<1>10. InOrder(rs) \in [1..n -> D]
  BY <1>4, <1>9
<1>11. InOrder(rs) \in Seq(D) /\ DOMAIN InOrder(rs) = 1..n
  BY <1>1, <1>10
<1>12. ASSUME NEW i \in D PROVE i \in ToSet(InOrder(rs))
  <2>1. Cardinality(lower(i)) \in 0..(n - 1)
    BY <1>5
  <2>2. PICK k \in 1..n : k - 1 = Cardinality(lower(i))
    <3>1. Cardinality(lower(i)) + 1 \in 1..n /\ (Cardinality(lower(i)) + 1) - 1 = Cardinality(lower(i))
      BY <1>1, <2>1
    <3>2. QED
      BY <3>1
  <2>3. InOrder(rs)[k] \in D /\ Cardinality(lower(InOrder(rs)[k])) = Cardinality(lower(i))
    BY <1>9, <2>2
  <2>4. b[InOrder(rs)[k]] = b[i]
    BY <2>3
  <2>5. InOrder(rs)[k] = i
    <3>1. \A x, y \in D : b[x] = b[y] => x = y
      BY <1>7 DEF Injection, IsInjective
    <3>2. QED
      BY <2>3, <2>4, <3>1
  <2>6. QED
    BY <1>11, <2>5 DEF ToSet
<1>13. ToSet(InOrder(rs)) = D
  <2>1. \A k \in DOMAIN InOrder(rs) : InOrder(rs)[k] \in D
    BY <1>10, <1>11
  <2>2. QED
    BY <1>12, <2>1 DEF ToSet
<1>14. IsInjective(InOrder(rs))
  <2> SUFFICES ASSUME NEW k \in 1..n, NEW l \in 1..n, InOrder(rs)[k] = InOrder(rs)[l]
               PROVE  k = l
    BY <1>11 DEF IsInjective
  <2>1. k - 1 = l - 1
    BY <1>9
  <2>2. QED
    BY <1>1, <2>1
<1>15. QED
  BY <1>11, <1>13, <1>14 DEF D

Tables == UNION {[D -> Row] : D \in SUBSET Nat}
Works == [rows : Tables, next : Nat, ok : BOOLEAN]

Rewritten(rs, i, r) == [rs EXCEPT ![i] = [@ EXCEPT !.primary = r.primary, !.order = r.order]]

LEMMA TableIsTable ==
  ASSUME NEW rs
  PROVE  rs \in Tables <=> DOMAIN rs \in SUBSET Nat /\ rs \in [DOMAIN rs -> Row]
<1>1. ASSUME rs \in Tables PROVE DOMAIN rs \in SUBSET Nat /\ rs \in [DOMAIN rs -> Row]
  <2>1. PICK D \in SUBSET Nat : rs \in [D -> Row]
    BY <1>1 DEF Tables
  <2>2. DOMAIN rs = D
    BY <2>1
  <2>3. QED
    BY <2>1, <2>2
<1>2. ASSUME DOMAIN rs \in SUBSET Nat, rs \in [DOMAIN rs -> Row] PROVE rs \in Tables
  BY <1>2 DEF Tables
<1>3. QED
  BY <1>1, <1>2

IsRewritten(q, rs, i, r) ==
  /\ q \in [DOMAIN rs -> Row]
  /\ q[i].form = rs[i].form /\ q[i].clip = rs[i].clip
  /\ q[i].primary = r.primary /\ q[i].order = r.order
  /\ \A j \in DOMAIN rs \ {i} : q[j] = rs[j]

LEMMA RewrittenFacts ==
  ASSUME NEW rs, rs \in [DOMAIN rs -> Row], NEW i \in DOMAIN rs, NEW r \in Row
  PROVE  IsRewritten(Rewritten(rs, i, r), rs, i, r)
<1> DEFINE x == rs[i]
           y == [x EXCEPT !.primary = r.primary, !.order = r.order]
<1>1. x \in Row /\ r.primary \in BOOLEAN /\ r.order \in Int
  BY DEF Row
<1>2. y \in Row /\ y.form = x.form /\ y.clip = x.clip /\ y.primary = r.primary /\ y.order = r.order
  BY <1>1 DEF Row
<1>3. Rewritten(rs, i, r) = [rs EXCEPT ![i] = y]
  BY DEF Rewritten
<1> HIDE DEF y
<1>4. QED
  BY <1>2, <1>3 DEF IsRewritten

IsInserted(q, rs, n, r) ==
  /\ DOMAIN q = DOMAIN rs \cup {n} /\ q \in [DOMAIN rs \cup {n} -> Row]
  /\ q[n] = r
  /\ \A j \in DOMAIN rs : q[j] = rs[j]

LEMMA InsertedFacts ==
  ASSUME NEW rs, rs \in [DOMAIN rs -> Row], NEW n \in Nat, n \notin DOMAIN rs, NEW r \in Row
  PROVE  IsInserted(Inserted(rs, n, r), rs, n, r)
BY DEF Inserted, IsInserted

LEMMA DuplicatesAreRows ==
  ASSUME NEW rs, NEW r
  PROVE  Duplicates(rs, r) \subseteq DOMAIN rs
BY DEF Duplicates

(* What an upsert did, when it was not refused.                            *)
UpsertDone(t, r, u) ==
  /\ t.ok
  /\ \/ /\ Duplicates(t.rows, r) = {}
        /\ u = [t EXCEPT !.rows = Inserted(t.rows, t.next, r), !.next = @ + 1]
     \/ \E i \in Duplicates(t.rows, r) :
          /\ u = [t EXCEPT !.rows = Rewritten(t.rows, i, r)]
          /\ ~Collides(Rewritten(t.rows, i, r), i)

LEMMA UpsertCases ==
  ASSUME NEW t \in Works, NEW r
  PROVE  \/ UpsertPronunciation(t, r) = t /\ ~t.ok
         \/ UpsertPronunciation(t, r) = [t EXCEPT !.ok = FALSE]
         \/ UpsertDone(t, r, UpsertPronunciation(t, r))
<1> DEFINE met == Duplicates(t.rows, r)
           i == CHOOSE i \in met : TRUE
<1>1. CASE ~t.ok
  BY <1>1 DEF UpsertPronunciation
<1>2. CASE t.ok /\ met = {}
  BY <1>2 DEF UpsertPronunciation, UpsertDone
<1>3. CASE t.ok /\ met # {}
  <2>1. i \in met
    BY <1>3
  <2>2. UpsertPronunciation(t, r) =
          IF Collides(Rewritten(t.rows, i, r), i) THEN [t EXCEPT !.ok = FALSE]
          ELSE [t EXCEPT !.rows = Rewritten(t.rows, i, r)]
    BY <1>3 DEF UpsertPronunciation, Rewritten
  <2> HIDE DEF i
  <2>3. CASE Collides(Rewritten(t.rows, i, r), i)
    BY <2>2, <2>3
  <2>4. CASE ~Collides(Rewritten(t.rows, i, r), i)
    BY <1>3, <2>1, <2>2, <2>4 DEF UpsertDone
  <2>5. QED
    BY <2>3, <2>4
<1>4. QED
  BY <1>1, <1>2, <1>3

LEMMA WorkFields ==
  ASSUME NEW t \in Works
  PROVE  /\ t.rows \in Tables /\ t.next \in Nat /\ t.ok \in BOOLEAN
         /\ DOMAIN t.rows \in SUBSET Nat /\ t.rows \in [DOMAIN t.rows -> Row]
<1>1. t.rows \in Tables /\ t.next \in Nat /\ t.ok \in BOOLEAN
  BY DEF Works
<1>2. QED
  BY <1>1, TableIsTable

LEMMA UpsertType ==
  ASSUME NEW t \in Works, NEW r \in Row
  PROVE  UpsertPronunciation(t, r) \in Works
<1> DEFINE u == UpsertPronunciation(t, r)
<1>0. /\ t.rows \in Tables /\ t.next \in Nat /\ t.ok \in BOOLEAN
      /\ DOMAIN t.rows \in SUBSET Nat /\ t.rows \in [DOMAIN t.rows -> Row]
  BY WorkFields
<1>1. CASE u = t \/ u = [t EXCEPT !.ok = FALSE]
  BY <1>1 DEF Works
<1>2. CASE UpsertDone(t, r, u)
  <2>1. CASE u = [t EXCEPT !.rows = Inserted(t.rows, t.next, r), !.next = @ + 1]
    <3> DEFINE q == Inserted(t.rows, t.next, r)
    <3>1. DOMAIN q \in SUBSET Nat /\ q \in [DOMAIN q -> Row]
      BY <1>0 DEF Inserted
    <3>2. q \in Tables
      BY <3>1, TableIsTable
    <3>3. u = [t EXCEPT !.rows = q, !.next = t.next + 1]
      BY <2>1
    <3>4. t.next + 1 \in Nat
      BY <1>0
    <3> HIDE DEF q, u
    <3>5. u \in Works
      BY <3>2, <3>3, <3>4 DEF Works
    <3>6. QED
      BY <3>5 DEF u
  <2>2. ASSUME NEW i \in Duplicates(t.rows, r),
               u = [t EXCEPT !.rows = Rewritten(t.rows, i, r)]
        PROVE  u \in Works
    <3> DEFINE q == Rewritten(t.rows, i, r)
    <3>1. i \in DOMAIN t.rows
      BY DuplicatesAreRows
    <3>2. q \in [DOMAIN t.rows -> Row]
      BY <1>0, <3>1, RewrittenFacts DEF IsRewritten
    <3> HIDE DEF q
    <3>3. DOMAIN q \in SUBSET Nat /\ q \in [DOMAIN q -> Row]
      BY <1>0, <3>2
    <3>4. q \in Tables
      BY <3>3, TableIsTable
    <3>5. QED
      BY <2>2, <3>4 DEF Works, q
  <2>3. QED
    BY <1>2, <2>1, <2>2 DEF UpsertDone
<1>3. QED
  BY <1>1, <1>2, UpsertCases

LEMMA InsertedTable ==
  ASSUME NEW rs, NEW next, Table(rs, next), NEW r \in Row, Duplicates(rs, r) = {}
  PROVE  Table(Inserted(rs, next, r), next + 1)
<1> DEFINE q == Inserted(rs, next, r)
<1>1. next \in Nat /\ next \notin DOMAIN rs /\ rs \in [DOMAIN rs -> Row]
      /\ DOMAIN rs \subseteq 1..(next - 1)
  BY DEF Table
<1>2. /\ DOMAIN q = DOMAIN rs \cup {next} /\ q \in [DOMAIN rs \cup {next} -> Row]
      /\ q[next] = r /\ \A j \in DOMAIN rs : q[j] = rs[j]
  BY <1>1, InsertedFacts DEF IsInserted
<1> HIDE DEF q
<1>3. \A i \in DOMAIN rs : /\ rs[i].form # r.form /\ rs[i].order # r.order
                           /\ ~(r.primary /\ rs[i].primary)
  BY DEF Duplicates
<1>4. \A i \in DOMAIN q : ~Collides(q, i)
  BY <1>1, <1>2, <1>3, TableKeys DEF Collides
<1>5. next + 1 \in Nat /\ DOMAIN q \subseteq 1..((next + 1) - 1)
  <2>1. next # 0
    BY DEF Table
  <2>2. QED
    BY <1>1, <1>2, <2>1
<1>6. QED
  BY <1>2, <1>4, <1>5 DEF Table, q

LEMMA RewrittenTable ==
  ASSUME NEW rs, NEW next, Table(rs, next), NEW r \in Row, NEW i \in DOMAIN rs,
         ~Collides(Rewritten(rs, i, r), i)
  PROVE  Table(Rewritten(rs, i, r), next)
<1> DEFINE q == Rewritten(rs, i, r)
<1>1. next \in Nat /\ rs \in [DOMAIN rs -> Row] /\ DOMAIN rs \subseteq 1..(next - 1)
  BY DEF Table
<1>2. q \in [DOMAIN rs -> Row] /\ \A j \in DOMAIN rs \ {i} : q[j] = rs[j]
  BY <1>1, RewrittenFacts DEF IsRewritten
<1>3. ~Collides(q, i)
  OBVIOUS
<1> HIDE DEF q
<1>4. DOMAIN q = DOMAIN rs
  BY <1>2
<1>5. \A j \in DOMAIN q : ~Collides(q, j)
  <2> SUFFICES ASSUME NEW j \in DOMAIN q, NEW k \in DOMAIN q \ {j},
                      \/ q[k].form = q[j].form
                      \/ q[k].order = q[j].order
                      \/ q[k].primary /\ q[j].primary
               PROVE  FALSE
    BY DEF Collides
  <2>1. CASE j = i \/ k = i
    BY <1>3, <1>4, <2>1 DEF Collides
  <2>2. CASE j # i /\ k # i
    BY <1>2, <1>4, <2>2, TableKeys
  <2>3. QED
    BY <2>1, <2>2
<1>6. QED
  BY <1>1, <1>2, <1>4, <1>5 DEF Table, q

(* What a load leaves of the rows the word had: their form and their clip. *)
OwnRows(rs, q) ==
  /\ DOMAIN rs \subseteq DOMAIN q
  /\ \A i \in DOMAIN rs : q[i].form = rs[i].form /\ q[i].clip = rs[i].clip

(* Out of the way of every row of the entry.                               *)
Aside(row) == row.order < 0 /\ row.primary = FALSE

ParkedTo(rs, n, t) ==
  t.ok => /\ Table(t.rows, t.next)
          /\ DOMAIN t.rows = DOMAIN rs /\ OwnRows(rs, t.rows)
          /\ \A j \in 1..n : Aside(t.rows[InOrder(rs)[j]])

LEMMA ParkedRow ==
  ASSUME NEW i \in Nat, NEW x \in Row
  PROVE  Parked(i, x) \in Row /\ Parked(i, x).form = x.form /\ Aside(Parked(i, x))
<1>1. i % ParkModulus \in Nat
  BY CatalogueAssumption
<1>2. PICK m \in Nat : m = i % ParkModulus
  BY <1>1
<1>3. Parked(i, x) = [x EXCEPT !.primary = FALSE, !.order = -m - 1]
  BY <1>2 DEF Parked
<1>4. -m - 1 \in Int /\ -m - 1 < 0
  OBVIOUS
<1>5. PICK o \in Int : o = -m - 1 /\ o < 0
  BY <1>4
<1>6. Parked(i, x) = [x EXCEPT !.primary = FALSE, !.order = o]
  BY <1>3, <1>5
<1>7. /\ Parked(i, x) = [form |-> x.form, primary |-> FALSE, order |-> o, clip |-> x.clip]
      /\ x.form \in Forms /\ x.clip \in BOOLEAN
  BY <1>6 DEF Row
<1>8. QED
  BY <1>5, <1>7 DEF Row, Aside

LEMMA ParkStep ==
  ASSUME NEW rs, NEW next, Table(rs, next), NEW n \in Nat, NEW t \in Works,
         ParkedTo(rs, n, t), n + 1 \in DOMAIN InOrder(rs),
         NEW i, i = InOrder(rs)[n + 1]
  PROVE  ParkedTo(rs, n + 1, UpsertPronunciation(t, Parked(i, rs[i])))
<1> DEFINE r == Parked(i, rs[i])
           u == UpsertPronunciation(t, r)
<1>0. i \in DOMAIN rs /\ rs[i] \in Row /\ i \in Nat
  <2>1. InOrder(rs) \in Seq(DOMAIN rs)
    BY InOrderIsAll
  <2>2. i \in DOMAIN rs
    BY <2>1
  <2>3. QED
    BY <2>2 DEF Table
<1>1. r \in Row /\ r.form = rs[i].form /\ Aside(r)
  BY <1>0, ParkedRow
<1> HIDE DEF r
<1> SUFFICES ASSUME u.ok PROVE ParkedTo(rs, n + 1, u)
  BY DEF ParkedTo, r
<1>2. UpsertDone(t, r, u)
  <2>1. CASE u = t /\ ~t.ok
    BY <2>1
  <2>2. CASE u = [t EXCEPT !.ok = FALSE]
    BY <2>2 DEF Works
  <2>3. QED
    BY <2>1, <2>2, UpsertCases
<1> HIDE DEF u
<1>3. /\ Table(t.rows, t.next) /\ DOMAIN t.rows = DOMAIN rs /\ OwnRows(rs, t.rows)
      /\ \A j \in 1..n : Aside(t.rows[InOrder(rs)[j]])
  BY <1>2 DEF UpsertDone, ParkedTo
<1>4. Duplicates(t.rows, r) = {i}
  <2>1. {k \in DOMAIN t.rows : t.rows[k].form = r.form} = {i}
    BY <1>0, <1>1, <1>3, TableKeys DEF OwnRows
  <2>2. QED
    BY <2>1 DEF Duplicates
<1>5. /\ u = [t EXCEPT !.rows = Rewritten(t.rows, i, r)]
      /\ ~Collides(Rewritten(t.rows, i, r), i)
  BY <1>2, <1>4 DEF UpsertDone
<1>6. u.rows = Rewritten(t.rows, i, r) /\ u.next = t.next
  BY <1>5 DEF Works
<1>7. t.rows \in [DOMAIN t.rows -> Row] /\ i \in DOMAIN t.rows
  BY <1>0, <1>3 DEF Table
<1>8. /\ u.rows \in [DOMAIN t.rows -> Row]
      /\ u.rows[i].form = t.rows[i].form /\ u.rows[i].clip = t.rows[i].clip
      /\ u.rows[i].primary = r.primary /\ u.rows[i].order = r.order
      /\ \A j \in DOMAIN t.rows \ {i} : u.rows[j] = t.rows[j]
  <2>1. IsRewritten(Rewritten(t.rows, i, r), t.rows, i, r)
    BY <1>1, <1>7, RewrittenFacts
  <2>2. IsRewritten(u.rows, t.rows, i, r)
    BY <1>6, <2>1
  <2>3. QED
    BY <2>2 DEF IsRewritten
<1>9. Table(u.rows, u.next)
  BY <1>1, <1>3, <1>5, <1>6, <1>7, RewrittenTable
<1>10. DOMAIN u.rows = DOMAIN rs
  BY <1>3, <1>8
<1>11. OwnRows(rs, u.rows)
  BY <1>3, <1>8, <1>10 DEF OwnRows
<1>12. \A j \in 1..(n + 1) : Aside(u.rows[InOrder(rs)[j]])
  <2> SUFFICES ASSUME NEW j \in 1..(n + 1) PROVE Aside(u.rows[InOrder(rs)[j]])
    OBVIOUS
  <2>1. /\ InOrder(rs)[j] \in DOMAIN rs
        /\ j \in 1..n \/ j = n + 1
    <3>1. InOrder(rs) \in Seq(DOMAIN rs)
      BY InOrderIsAll
    <3>2. j \in DOMAIN InOrder(rs)
      BY <3>1
    <3>3. QED
      BY <3>1, <3>2
  <2>2. CASE InOrder(rs)[j] = i
    BY <1>1, <1>8, <2>2 DEF Aside
  <2>3. CASE InOrder(rs)[j] # i
    BY <1>3, <1>8, <2>1, <2>3
  <2>4. QED
    BY <2>2, <2>3
<1>13. QED
  BY <1>9, <1>10, <1>11, <1>12 DEF ParkedTo

LEMMA AllParkedFacts ==
  ASSUME NEW rs, NEW next, Table(rs, next)
  PROVE  /\ AllParked(rs, next) \in Works
         /\ ParkedTo(rs, Len(InOrder(rs)), AllParked(rs, next))
<1> DEFINE ids == InOrder(rs)
           m == Len(ids)
           c == [rows |-> rs, next |-> next, ok |-> TRUE]
           row(k) == Parked(ids[k], rs[ids[k]])
           step == [p \in Works \X (1..m) |-> UpsertPronunciation(p[1], row(p[2]))]
           body(f) == [k \in 0..m |-> IF k = 0 THEN c ELSE UpsertPronunciation(f[k - 1], row(k))]
           upTo == CHOOSE f : f = body(f)
<1>1. m \in Nat /\ DOMAIN ids = 1..m /\ \A k \in 1..m : row(k) \in Row
  <2>1. ids \in Seq(DOMAIN rs)
    BY InOrderIsAll
  <2> HIDE DEF ids
  <2>2. m \in Nat /\ DOMAIN ids = 1..m /\ \A k \in 1..m : ids[k] \in DOMAIN rs
    BY <2>1
  <2>3. \A i \in DOMAIN rs : i \in Nat /\ rs[i] \in Row
    BY DEF Table
  <2>4. \A k \in 1..m : row(k) \in Row
    BY <2>2, <2>3, ParkedRow
  <2>5. QED
    BY <2>2, <2>4
<1>2. c \in Works /\ c.ok /\ c.rows = rs /\ c.next = next
  <2>1. rs \in Tables
    <3>1. DOMAIN rs \in SUBSET Nat /\ rs \in [DOMAIN rs -> Row]
      BY DEF Table
    <3>2. QED
      BY <3>1, TableIsTable
  <2>2. next \in Nat
    BY DEF Table
  <2>3. QED
    BY <2>1, <2>2 DEF Works
<1> HIDE DEF ids, m, c, row
<1>3. step \in [Works \X (1..m) -> Works]
  BY <1>1, UpsertType
<1>4. \A u \in Works, k \in 1..m : step[<<u, k>>] = UpsertPronunciation(u, row(k))
  OBVIOUS
<1> HIDE DEF step
<1>5. PICK f : IsRun(Works, c, m, step, f)
  BY <1>1, <1>2, <1>3, Recursion
<1>6. /\ f \in [0..m -> Works] /\ f[0] = c
      /\ \A k \in 1..m : f[k] = step[<<f[k - 1], k>>]
  BY <1>5 DEF IsRun
<1>7. \A k \in 1..m : f[k] = UpsertPronunciation(f[k - 1], row(k))
  <2> SUFFICES ASSUME NEW k \in 1..m PROVE f[k] = UpsertPronunciation(f[k - 1], row(k))
    OBVIOUS
  <2>1. k - 1 \in 0..m
    BY <1>1
  <2>2. f[k - 1] \in Works /\ f[k] = step[<<f[k - 1], k>>]
    BY <1>6, <2>1
  <2>3. QED
    BY <1>4, <2>2
<1>8. f = body(f)
  <2>1. \A k \in 0..m : k = 0 \/ k \in 1..m
    BY <1>1
  <2>2. \A k \in 0..m : f[k] = IF k = 0 THEN c ELSE UpsertPronunciation(f[k - 1], row(k))
    BY <1>6, <1>7, <2>1
  <2>3. DOMAIN f = 0..m /\ f = [k \in 0..m |-> f[k]]
    BY <1>6
  <2>4. QED
    BY <2>2, <2>3
<1>9. upTo = body(upTo)
  BY <1>8
<1> HIDE DEF upTo
<1>10. \A k \in 0..m : upTo[k] = IF k = 0 THEN c ELSE UpsertPronunciation(upTo[k - 1], row(k))
  BY <1>9
<1> DEFINE T == {k \in 0..m : upTo[k] \in Works /\ ParkedTo(rs, k, upTo[k])}
<1>11. 0 \in T
  <2>1. 0 \in 0..m
    BY <1>1
  <2>2. upTo[0] = c
    BY <1>10, <2>1
  <2>3. ParkedTo(rs, 0, c)
    BY <1>2 DEF ParkedTo, OwnRows
  <2>4. QED
    BY <1>2, <2>1, <2>2, <2>3
<1>12. ASSUME NEW k \in T, k < m PROVE k + 1 \in T
  <2>1. k + 1 \in 1..m /\ k + 1 \in 0..m /\ k + 1 # 0 /\ (k + 1) - 1 = k /\ k \in Nat
    BY <1>1, <1>12
  <2>2. upTo[k] \in Works /\ ParkedTo(rs, k, upTo[k])
    OBVIOUS
  <2>3. upTo[k + 1] = UpsertPronunciation(upTo[k], row(k + 1))
    BY <1>10, <2>1
  <2>4. upTo[k + 1] \in Works
    BY <1>1, <2>1, <2>2, <2>3, UpsertType
  <2>5. ParkedTo(rs, k + 1, UpsertPronunciation(upTo[k], Parked(ids[k + 1], rs[ids[k + 1]])))
    <3>1. k + 1 \in DOMAIN InOrder(rs)
      BY <1>1, <2>1 DEF ids
    <3>2. QED
      BY <2>1, <2>2, <3>1, ParkStep DEF ids
  <2>6. ParkedTo(rs, k + 1, upTo[k + 1])
    BY <2>3, <2>5 DEF row
  <2>7. QED
    BY <2>1, <2>4, <2>6
<1>13. T \in SUBSET (0..m)
  OBVIOUS
<1> HIDE DEF T
<1>14. T = 0..m
  BY <1>1, <1>11, <1>12, <1>13, EveryNumber
<1>15. upTo[m] \in Works /\ ParkedTo(rs, m, upTo[m])
  <2>1. m \in T
    BY <1>1, <1>14
  <2>2. QED
    BY <2>1 DEF T
<1>16. AllParked(rs, next) = upTo[m]
  BY DEF AllParked, upTo, m, ids, c, row
<1>17. QED
  BY <1>15, <1>16 DEF m, ids

(* A row as the k-th reading of the entry has it.                          *)
ReadingOf(row, e, k) ==
  row.form = e[k] /\ row.order = k - 1 /\ (row.primary <=> k = 1)

WrittenTo(rs, e, n, t) ==
  t.ok => /\ Table(t.rows, t.next) /\ OwnRows(rs, t.rows)
          /\ \A k \in 1..n : \E i \in DOMAIN t.rows : ReadingOf(t.rows[i], e, k)
          /\ \A i \in DOMAIN t.rows : \/ \E k \in 1..n : ReadingOf(t.rows[i], e, k)
                                      \/ Aside(t.rows[i])

LEMMA EntryRowFacts ==
  ASSUME NEW e \in Seq(Forms), NEW k \in DOMAIN e
  PROVE  EntryRow(e, k) \in Row /\ ReadingOf(EntryRow(e, k), e, k)
<1>1. e[k] \in Forms /\ k - 1 \in Int
  OBVIOUS
<1>2. PICK p \in BOOLEAN : p <=> k = 1
  OBVIOUS
<1>3. EntryRow(e, k) = [form |-> e[k], primary |-> p, order |-> k - 1, clip |-> FALSE]
  BY <1>2 DEF EntryRow
<1>4. EntryRow(e, k) \in Row
  <2>1. FALSE \in BOOLEAN
    OBVIOUS
  <2>2. PICK c \in BOOLEAN : c = FALSE
    BY <2>1
  <2>3. EntryRow(e, k) = [form |-> e[k], primary |-> p, order |-> k - 1, clip |-> c]
    BY <1>3, <2>2
  <2>4. QED
    BY <1>1, <2>3 DEF Row
<1>5. ReadingOf(EntryRow(e, k), e, k)
  BY <1>2, <1>3 DEF ReadingOf
<1>6. QED
  BY <1>4, <1>5

LEMMA WriteStep ==
  ASSUME NEW rs, NEW e \in Seq(Forms), IsInjective(e), NEW n \in Nat, n + 1 \in DOMAIN e,
         NEW t \in Works, WrittenTo(rs, e, n, t)
  PROVE  WrittenTo(rs, e, n + 1, UpsertPronunciation(t, EntryRow(e, n + 1)))
<1> DEFINE r == EntryRow(e, n + 1)
           u == UpsertPronunciation(t, r)
<1>1. r \in Row /\ ReadingOf(r, e, n + 1)
  BY EntryRowFacts
<1>2. r.form = e[n + 1] /\ r.order = n /\ (r.primary <=> n = 0)
  BY <1>1 DEF ReadingOf
<1> HIDE DEF r
<1> SUFFICES ASSUME u.ok PROVE WrittenTo(rs, e, n + 1, u)
  BY DEF WrittenTo, r
<1>3. UpsertDone(t, r, u)
  <2>1. CASE u = t /\ ~t.ok
    BY <2>1
  <2>2. CASE u = [t EXCEPT !.ok = FALSE]
    BY <2>2 DEF Works
  <2>3. QED
    BY <2>1, <2>2, UpsertCases
<1> HIDE DEF u
<1>4. /\ Table(t.rows, t.next) /\ OwnRows(rs, t.rows)
      /\ \A k \in 1..n : \E i \in DOMAIN t.rows : ReadingOf(t.rows[i], e, k)
      /\ \A i \in DOMAIN t.rows : \/ \E k \in 1..n : ReadingOf(t.rows[i], e, k)
                                  \/ Aside(t.rows[i])
  BY <1>3 DEF UpsertDone, WrittenTo
<1>5. \A k \in 1..n : k \in DOMAIN e /\ e[k] # e[n + 1]
  <2>1. DOMAIN e = 1..Len(e) /\ Len(e) \in Nat
    OBVIOUS
  <2>2. \A k \in 1..n : k \in DOMAIN e /\ k # n + 1
    BY <2>1
  <2>3. QED
    BY <2>2 DEF IsInjective
<1>6. t.rows \in [DOMAIN t.rows -> Row] /\ t.next \in Nat /\ t.next \notin DOMAIN t.rows
  BY <1>4 DEF Table
<1>7. CASE Duplicates(t.rows, r) = {}
  <2>1. u = [t EXCEPT !.rows = Inserted(t.rows, t.next, r), !.next = @ + 1]
    BY <1>3, <1>7 DEF UpsertDone
  <2>2. u.rows = Inserted(t.rows, t.next, r) /\ u.next = t.next + 1
    BY <2>1 DEF Works
  <2>3. Table(u.rows, u.next)
    BY <1>1, <1>4, <1>7, <2>2, InsertedTable
  <2>4. /\ DOMAIN u.rows = DOMAIN t.rows \cup {t.next} /\ u.rows[t.next] = r
        /\ \A j \in DOMAIN t.rows : u.rows[j] = t.rows[j]
    <3>1. IsInserted(Inserted(t.rows, t.next, r), t.rows, t.next, r)
      BY <1>1, <1>6, InsertedFacts
    <3>2. IsInserted(u.rows, t.rows, t.next, r)
      BY <2>2, <3>1
    <3>3. QED
      BY <3>2 DEF IsInserted
  <2>5. OwnRows(rs, u.rows)
    BY <1>4, <2>4 DEF OwnRows
  <2>6. \A k \in 1..(n + 1) : \E i \in DOMAIN u.rows : ReadingOf(u.rows[i], e, k)
    <3> SUFFICES ASSUME NEW k \in 1..(n + 1)
                 PROVE  \E i \in DOMAIN u.rows : ReadingOf(u.rows[i], e, k)
      OBVIOUS
    <3>1. CASE k \in 1..n
      BY <1>4, <2>4, <3>1
    <3>2. CASE k = n + 1
      BY <1>1, <2>4, <3>2
    <3>3. QED
      BY <3>1, <3>2
  <2>7. ASSUME NEW i \in DOMAIN u.rows
        PROVE  (\E k \in 1..(n + 1) : ReadingOf(u.rows[i], e, k)) \/ Aside(u.rows[i])
    <3>1. n + 1 \in 1..(n + 1) /\ \A k \in 1..n : k \in 1..(n + 1)
      OBVIOUS
    <3>2. CASE i = t.next
      BY <1>1, <2>4, <3>1, <3>2
    <3>3. CASE i \in DOMAIN t.rows
      BY <1>4, <2>4, <3>1, <3>3
    <3>4. QED
      BY <2>4, <3>2, <3>3
  <2>8. QED
    BY <2>3, <2>5, <2>6, <2>7 DEF WrittenTo
<1>8. CASE Duplicates(t.rows, r) # {}
  <2>1. PICK i \in Duplicates(t.rows, r) :
          /\ u = [t EXCEPT !.rows = Rewritten(t.rows, i, r)]
          /\ ~Collides(Rewritten(t.rows, i, r), i)
    BY <1>3, <1>8 DEF UpsertDone
  <2>2. i \in DOMAIN t.rows
    BY DuplicatesAreRows
  <2>3. t.rows[i].form = r.form
    <3>1. \A j \in DOMAIN t.rows : t.rows[j].form = r.form
             \/ (t.rows[j].order # r.order /\ ~(r.primary /\ t.rows[j].primary))
      <4> SUFFICES ASSUME NEW j \in DOMAIN t.rows
                   PROVE  t.rows[j].order # r.order /\ ~(r.primary /\ t.rows[j].primary)
        OBVIOUS
      <4>1. CASE Aside(t.rows[j])
        BY <1>2, <4>1 DEF Aside
      <4>2. ASSUME NEW k \in 1..n, ReadingOf(t.rows[j], e, k)
            PROVE  t.rows[j].order # r.order /\ ~(r.primary /\ t.rows[j].primary)
        BY <1>2, <4>2 DEF ReadingOf
      <4>3. QED
        BY <1>4, <4>1, <4>2
    <3>2. QED
      BY <3>1 DEF Duplicates
  <2>4. u.rows = Rewritten(t.rows, i, r) /\ u.next = t.next
    BY <2>1 DEF Works
  <2>5. /\ u.rows \in [DOMAIN t.rows -> Row]
        /\ u.rows[i].form = t.rows[i].form /\ u.rows[i].clip = t.rows[i].clip
        /\ u.rows[i].primary = r.primary /\ u.rows[i].order = r.order
        /\ \A j \in DOMAIN t.rows \ {i} : u.rows[j] = t.rows[j]
    <3>1. IsRewritten(Rewritten(t.rows, i, r), t.rows, i, r)
      BY <1>1, <1>6, <2>2, RewrittenFacts
    <3>2. IsRewritten(u.rows, t.rows, i, r)
      BY <2>4, <3>1
    <3>3. QED
      BY <3>2 DEF IsRewritten
  <2>6. Table(u.rows, u.next)
    BY <1>1, <1>4, <2>1, <2>2, <2>4, RewrittenTable
  <2>7. DOMAIN u.rows = DOMAIN t.rows
    BY <2>5
  <2>8. OwnRows(rs, u.rows)
    BY <1>4, <2>5, <2>7 DEF OwnRows
  <2>9. ReadingOf(u.rows[i], e, n + 1)
    BY <1>2, <2>3, <2>5 DEF ReadingOf
  <2>10. \A k \in 1..(n + 1) : \E j \in DOMAIN u.rows : ReadingOf(u.rows[j], e, k)
    <3> SUFFICES ASSUME NEW k \in 1..(n + 1)
                 PROVE  \E j \in DOMAIN u.rows : ReadingOf(u.rows[j], e, k)
      OBVIOUS
    <3>1. CASE k \in 1..n
      <4>1. PICK j \in DOMAIN t.rows : ReadingOf(t.rows[j], e, k)
        BY <1>4, <3>1
      <4>2. t.rows[j].form # r.form
        BY <1>2, <1>5, <3>1, <4>1 DEF ReadingOf
      <4>3. j # i /\ u.rows[j] = t.rows[j]
        BY <2>3, <2>5, <4>2
      <4>4. QED
        BY <2>7, <4>1, <4>3
    <3>2. CASE k = n + 1
      BY <2>2, <2>7, <2>9, <3>2
    <3>3. QED
      BY <3>1, <3>2
  <2>11. ASSUME NEW j \in DOMAIN u.rows
         PROVE  (\E k \in 1..(n + 1) : ReadingOf(u.rows[j], e, k)) \/ Aside(u.rows[j])
    <3>1. n + 1 \in 1..(n + 1) /\ \A k \in 1..n : k \in 1..(n + 1)
      OBVIOUS
    <3>2. CASE j = i
      BY <2>9, <3>1, <3>2
    <3>3. CASE j # i
      BY <1>4, <2>5, <2>7, <3>1, <3>3
    <3>4. QED
      BY <3>2, <3>3
  <2>12. QED
    BY <2>6, <2>8, <2>10, <2>11 DEF WrittenTo
<1>9. QED
  BY <1>7, <1>8

LEMMA WrittenFacts ==
  ASSUME NEW rs, NEW next, Table(rs, next), NEW e \in Seq(Forms), IsInjective(e)
  PROVE  /\ Written(rs, next, e) \in Works
         /\ WrittenTo(rs, e, Len(e), Written(rs, next, e))
<1> DEFINE m == Len(e)
           c == AllParked(rs, next)
           row(k) == EntryRow(e, k)
           step == [p \in Works \X (1..m) |-> UpsertPronunciation(p[1], row(p[2]))]
           body(f) == [k \in 0..m |-> IF k = 0 THEN c ELSE UpsertPronunciation(f[k - 1], row(k))]
           upTo == CHOOSE f : f = body(f)
<1>1. m \in Nat /\ DOMAIN e = 1..m /\ \A k \in 1..m : row(k) \in Row
  <2>1. m \in Nat /\ DOMAIN e = 1..m
    OBVIOUS
  <2>2. QED
    BY <2>1, EntryRowFacts
<1>2. c \in Works /\ WrittenTo(rs, e, 0, c)
  <2>1. c \in Works /\ ParkedTo(rs, Len(InOrder(rs)), c)
    BY AllParkedFacts
  <2>2. InOrder(rs) \in Seq(DOMAIN rs) /\ ToSet(InOrder(rs)) = DOMAIN rs
    BY InOrderIsAll
  <2>3. \A i \in DOMAIN rs : \E j \in 1..Len(InOrder(rs)) : i = InOrder(rs)[j]
    BY <2>2 DEF ToSet
  <2> HIDE DEF c
  <2>4. QED
    BY <2>1, <2>3 DEF WrittenTo, ParkedTo
<1> HIDE DEF m, c, row
<1>3. step \in [Works \X (1..m) -> Works]
  BY <1>1, UpsertType
<1>4. \A u \in Works, k \in 1..m : step[<<u, k>>] = UpsertPronunciation(u, row(k))
  OBVIOUS
<1> HIDE DEF step
<1>5. PICK f : IsRun(Works, c, m, step, f)
  BY <1>1, <1>2, <1>3, Recursion
<1>6. /\ f \in [0..m -> Works] /\ f[0] = c
      /\ \A k \in 1..m : f[k] = step[<<f[k - 1], k>>]
  BY <1>5 DEF IsRun
<1>7. \A k \in 1..m : f[k] = UpsertPronunciation(f[k - 1], row(k))
  <2> SUFFICES ASSUME NEW k \in 1..m PROVE f[k] = UpsertPronunciation(f[k - 1], row(k))
    OBVIOUS
  <2>1. k - 1 \in 0..m
    BY <1>1
  <2>2. f[k - 1] \in Works /\ f[k] = step[<<f[k - 1], k>>]
    BY <1>6, <2>1
  <2>3. QED
    BY <1>4, <2>2
<1>8. f = body(f)
  <2>1. \A k \in 0..m : k = 0 \/ k \in 1..m
    BY <1>1
  <2>2. \A k \in 0..m : f[k] = IF k = 0 THEN c ELSE UpsertPronunciation(f[k - 1], row(k))
    BY <1>6, <1>7, <2>1
  <2>3. DOMAIN f = 0..m /\ f = [k \in 0..m |-> f[k]]
    BY <1>6
  <2>4. QED
    BY <2>2, <2>3
<1>9. upTo = body(upTo)
  BY <1>8
<1> HIDE DEF upTo
<1>10. \A k \in 0..m : upTo[k] = IF k = 0 THEN c ELSE UpsertPronunciation(upTo[k - 1], row(k))
  BY <1>9
<1> DEFINE T == {k \in 0..m : upTo[k] \in Works /\ WrittenTo(rs, e, k, upTo[k])}
<1>11. 0 \in T
  <2>1. 0 \in 0..m
    BY <1>1
  <2>2. upTo[0] = c
    BY <1>10, <2>1
  <2>3. QED
    BY <1>2, <2>1, <2>2
<1>12. ASSUME NEW k \in T, k < m PROVE k + 1 \in T
  <2>1. k + 1 \in 1..m /\ k + 1 \in 0..m /\ k + 1 # 0 /\ (k + 1) - 1 = k /\ k \in Nat
    BY <1>1, <1>12
  <2>2. upTo[k] \in Works /\ WrittenTo(rs, e, k, upTo[k])
    OBVIOUS
  <2>3. upTo[k + 1] = UpsertPronunciation(upTo[k], row(k + 1))
    BY <1>10, <2>1
  <2>4. upTo[k + 1] \in Works
    BY <1>1, <2>1, <2>2, <2>3, UpsertType
  <2>5. WrittenTo(rs, e, k + 1, UpsertPronunciation(upTo[k], EntryRow(e, k + 1)))
    BY <1>1, <2>1, <2>2, WriteStep
  <2>6. WrittenTo(rs, e, k + 1, upTo[k + 1])
    BY <2>3, <2>5 DEF row
  <2>7. QED
    BY <2>1, <2>4, <2>6
<1>13. T \in SUBSET (0..m)
  OBVIOUS
<1> HIDE DEF T
<1>14. T = 0..m
  BY <1>1, <1>11, <1>12, <1>13, EveryNumber
<1>15. upTo[m] \in Works /\ WrittenTo(rs, e, m, upTo[m])
  <2>1. m \in T
    BY <1>1, <1>14
  <2>2. QED
    BY <2>1 DEF T
<1>16. Written(rs, next, e) = upTo[m]
  BY DEF Written, upTo, m, c, row
<1>17. QED
  BY <1>15, <1>16 DEF m

LEMMA KeepTable ==
  ASSUME NEW rs, NEW next, Table(rs, next), NEW S
  PROVE  Table(Keep(rs, S), next)
<1> DEFINE q == Keep(rs, S)
<1>1. DOMAIN q = DOMAIN rs \cap S /\ \A i \in DOMAIN q : q[i] = rs[i]
  BY DEF Keep
<1>2. q \in [DOMAIN q -> Row]
  BY <1>1 DEF Table, Keep
<1> HIDE DEF q
<1>3. \A i \in DOMAIN q : ~Collides(q, i)
  BY <1>1, TableKeys DEF Collides
<1>4. QED
  BY <1>1, <1>2, <1>3 DEF Table, q

(* What a load leaves.                                                     *)
IsLoaded(rs, e, q) ==
  /\ {q[i].form : i \in DOMAIN q} = ToSet(e)
  /\ \A i \in DOMAIN q :
       /\ q[i].form = e[q[i].order + 1]
       /\ q[i].primary <=> q[i].order = 0
  /\ \A i \in DOMAIN rs : rs[i].form \in ToSet(e) =>
       /\ i \in DOMAIN q
       /\ q[i].form = rs[i].form /\ q[i].clip = rs[i].clip

LEMMA LoadedRows ==
  ASSUME NEW rs, NEW e \in Seq(Forms), IsInjective(e), NEW t \in Works, t.ok,
         WrittenTo(rs, e, Len(e), t)
  PROVE  LET q == Keep(t.rows, {i \in DOMAIN t.rows : t.rows[i].form \in ToSet(e)})
         IN  IsLoaded(rs, e, q) /\ \A i \in DOMAIN q : q[i].order \in Nat
<1> DEFINE q == Keep(t.rows, {i \in DOMAIN t.rows : t.rows[i].form \in ToSet(e)})
           m == Len(e)
<1>0. m \in Nat /\ DOMAIN e = 1..m /\ ToSet(e) = {e[k] : k \in 1..m}
  BY DEF ToSet
<1>1. /\ Table(t.rows, t.next) /\ OwnRows(rs, t.rows)
      /\ \A k \in 1..m : \E i \in DOMAIN t.rows : ReadingOf(t.rows[i], e, k)
  BY DEF WrittenTo
<1>2. /\ DOMAIN q = {i \in DOMAIN t.rows : t.rows[i].form \in ToSet(e)}
      /\ \A i \in DOMAIN q : q[i] = t.rows[i]
  BY DEF Keep
<1> HIDE DEF q, m
<1>3. ASSUME NEW i \in DOMAIN q
      PROVE  \E k \in 1..m : ReadingOf(q[i], e, k)
  <2>1. PICK k \in 1..m : t.rows[i].form = e[k]
    BY <1>0, <1>2
  <2>2. PICK j \in DOMAIN t.rows : ReadingOf(t.rows[j], e, k)
    BY <1>1
  <2>3. i = j
    BY <1>1, <1>2, <2>1, <2>2, TableKeys DEF ReadingOf
  <2>4. QED
    BY <1>2, <2>2, <2>3
<1>4. ASSUME NEW k \in 1..m PROVE \E i \in DOMAIN q : q[i].form = e[k]
  <2>1. PICK j \in DOMAIN t.rows : ReadingOf(t.rows[j], e, k)
    BY <1>1
  <2>2. t.rows[j].form = e[k] /\ e[k] \in ToSet(e)
    BY <1>0, <2>1 DEF ReadingOf
  <2>3. QED
    BY <1>2, <2>2
<1>5. {q[i].form : i \in DOMAIN q} = ToSet(e)
  BY <1>0, <1>2, <1>4
<1>6. ASSUME NEW i \in DOMAIN q
      PROVE  q[i].form = e[q[i].order + 1] /\ (q[i].primary <=> q[i].order = 0)
  <2>1. PICK k \in 1..m : ReadingOf(q[i], e, k)
    BY <1>3
  <2>2. (k - 1) + 1 = k /\ (k = 1 <=> k - 1 = 0)
    BY <1>0
  <2>3. QED
    BY <2>1, <2>2 DEF ReadingOf
<1>7. ASSUME NEW i \in DOMAIN rs, rs[i].form \in ToSet(e)
      PROVE  i \in DOMAIN q /\ q[i].form = rs[i].form /\ q[i].clip = rs[i].clip
  <2>1. i \in DOMAIN t.rows /\ t.rows[i].form = rs[i].form /\ t.rows[i].clip = rs[i].clip
    BY <1>1 DEF OwnRows
  <2>2. QED
    BY <1>2, <1>7, <2>1
<1>8. ASSUME NEW i \in DOMAIN q PROVE q[i].order \in Nat
  BY <1>0, <1>3 DEF ReadingOf
<1>9. QED
  BY <1>5, <1>6, <1>7, <1>8 DEF IsLoaded, q

(* The statements the script has left; a rename gives a row a form.        *)
Ops == {"clear", "delete", "rename", "promote", "occur"}
Statements ==
  {s \in [op : Ops, id : Nat, arg : Forms \cup {0} \cup (Nat \X Units)] :
     s.op = "rename" => s.arg \in Forms}

Deleted(todo) == {todo[n].id : n \in {n \in DOMAIN todo : todo[n].op = "delete"}}

LEMMA DeletedOfConcat ==
  ASSUME NEW a \in Seq(Statements), NEW b \in Seq(Statements)
  PROVE  a \o b \in Seq(Statements) /\ Deleted(a \o b) = Deleted(a) \cup Deleted(b)
<1> DEFINE q == a \o b
<1>1. /\ q \in Seq(Statements) /\ Len(a) \in Nat /\ Len(b) \in Nat
      /\ DOMAIN a = 1..Len(a) /\ DOMAIN b = 1..Len(b) /\ DOMAIN q = 1..(Len(a) + Len(b))
      /\ \A n \in 1..Len(a) : q[n] = a[n]
      /\ \A n \in 1..Len(b) : q[Len(a) + n] = b[n]
  OBVIOUS
<1> HIDE DEF q
<1>2. \A n \in DOMAIN q : \/ n \in 1..Len(a) /\ q[n] = a[n]
                          \/ n - Len(a) \in 1..Len(b) /\ q[n] = b[n - Len(a)]
  <2> SUFFICES ASSUME NEW n \in DOMAIN q, n \notin 1..Len(a)
               PROVE  n - Len(a) \in 1..Len(b) /\ q[n] = b[n - Len(a)]
    BY <1>1
  <2>1. n - Len(a) \in 1..Len(b) /\ Len(a) + (n - Len(a)) = n
    BY <1>1
  <2>2. QED
    BY <1>1, <2>1
<1>3. ASSUME NEW x \in Deleted(q) PROVE x \in Deleted(a) \cup Deleted(b)
  <2>1. PICK n \in DOMAIN q : q[n].op = "delete" /\ x = q[n].id
    BY DEF Deleted
  <2>2. QED
    BY <1>1, <1>2, <2>1 DEF Deleted
<1>4. ASSUME NEW x \in Deleted(a) PROVE x \in Deleted(q)
  <2>1. PICK n \in DOMAIN a : a[n].op = "delete" /\ x = a[n].id
    BY DEF Deleted
  <2>2. n \in DOMAIN q /\ q[n] = a[n]
    BY <1>1
  <2>3. QED
    BY <2>1, <2>2 DEF Deleted
<1>5. ASSUME NEW x \in Deleted(b) PROVE x \in Deleted(q)
  <2>1. PICK n \in DOMAIN b : b[n].op = "delete" /\ x = b[n].id
    BY DEF Deleted
  <2>2. Len(a) + n \in DOMAIN q /\ q[Len(a) + n] = b[n]
    BY <1>1
  <2>3. QED
    BY <2>1, <2>2 DEF Deleted
<1>6. Deleted(q) = Deleted(a) \cup Deleted(b)
  BY <1>3, <1>4, <1>5
<1>7. QED
  BY <1>1, <1>6 DEF q

LEMMA DeletedOfOne ==
  ASSUME NEW s \in Statements
  PROVE  <<s>> \in Seq(Statements) /\ Deleted(<<s>>) = IF s.op = "delete" THEN {s.id} ELSE {}
<1>1. /\ <<s>> \in Seq(Statements) /\ DOMAIN <<s>> = {1} /\ <<s>>[1] = s
  OBVIOUS
<1>2. {n \in {1} : s.op = "delete"} = IF s.op = "delete" THEN {1} ELSE {}
  OBVIOUS
<1>3. QED
  BY <1>1, <1>2 DEF Deleted

LEMMA DeletedOfNone == << >> \in Seq(Statements) /\ Deleted(<< >>) = {}
BY DEF Deleted

LEMMA DeletedOfRest ==
  ASSUME NEW todo \in Seq(Statements), todo # << >>
  PROVE  /\ Head(todo) \in Statements /\ Tail(todo) \in Seq(Statements)
         /\ Deleted(Tail(todo)) \subseteq Deleted(todo)
         /\ Head(todo).op = "delete" => Head(todo).id \in Deleted(todo)
<1>1. /\ Len(todo) \in Nat /\ Len(todo) >= 1 /\ DOMAIN todo = 1..Len(todo)
      /\ Head(todo) = todo[1] /\ todo[1] \in Statements
  OBVIOUS
<1>2. /\ Tail(todo) \in Seq(Statements) /\ Len(Tail(todo)) = Len(todo) - 1
      /\ \A n \in 1..(Len(todo) - 1) : Tail(todo)[n] = todo[n + 1]
  OBVIOUS
<1>3. \A n \in DOMAIN Tail(todo) : n + 1 \in DOMAIN todo /\ Tail(todo)[n] = todo[n + 1]
  BY <1>1, <1>2
<1>4. Deleted(Tail(todo)) \subseteq Deleted(todo)
  BY <1>3, Zenon DEF Deleted
<1>5. 1 \in DOMAIN todo
  BY <1>1
<1>6. Head(todo).op = "delete" => Head(todo).id \in Deleted(todo)
  BY <1>1, <1>5, Zenon DEF Deleted
<1>7. QED
  BY <1>1, <1>2, <1>4, <1>6

IsStatement(s, op, i) == s \in Statements /\ s.op = op /\ s.id = i

LEMMA StatementIn ==
  ASSUME NEW op \in Ops, NEW i \in Nat, NEW x \in Forms \cup {0} \cup (Nat \X Units),
         op = "rename" => x \in Forms
  PROVE  IsStatement(Statement(op, i, x), op, i)
BY DEF Statement, Statements, IsStatement

LEMMA BareStatement ==
  ASSUME NEW i \in Nat, NEW op \in {"clear", "delete", "promote"}
  PROVE  IsStatement(Statement(op, i, 0), op, i)
<1>1. 0 \in Forms \cup {0} \cup (Nat \X Units)
  OBVIOUS
<1>2. op \in Ops /\ op # "rename"
  BY DEF Ops
<1>3. QED
  BY <1>1, <1>2, StatementIn

LEMMA DeletingDeletes ==
  ASSUME NEW i \in Nat
  PROVE  Deleting(i) \in Seq(Statements) /\ Deleted(Deleting(i)) = {i}
<1> DEFINE a == Statement("clear", i, 0)
           b == Statement("delete", i, 0)
<1>1. IsStatement(a, "clear", i) /\ IsStatement(b, "delete", i)
  BY BareStatement
<1> HIDE DEF a, b
<1>2. a \in Statements /\ a.op # "delete" /\ b \in Statements /\ b.op = "delete" /\ b.id = i
  BY <1>1 DEF IsStatement
<1>3. /\ <<a, b>> \in Seq(Statements) /\ DOMAIN <<a, b>> = {1, 2}
      /\ <<a, b>>[1] = a /\ <<a, b>>[2] = b
  BY <1>2
<1>4. Deleted(<<a, b>>) = {i}
  BY <1>2, <1>3 DEF Deleted
<1>5. QED
  BY <1>3, <1>4 DEF Deleting, a, b

LEMMA ReplacingDeletesNone ==
  ASSUME NEW i \in Nat, NEW us \in Seq(Units)
  PROVE  Replacing(i, us) \in Seq(Statements) /\ Deleted(Replacing(i, us)) = {}
<1> DEFINE a == Statement("clear", i, 0)
           c(k) == Statement("occur", i, <<k, us[k]>>)
           b == [k \in DOMAIN us |-> c(k)]
<1>1. a \in Statements /\ a.op # "delete"
  <2>1. IsStatement(a, "clear", i)
    BY BareStatement
  <2> HIDE DEF a
  <2>2. QED
    BY <2>1 DEF IsStatement
<1>2. \A k \in DOMAIN us : c(k) \in Statements /\ c(k).op # "delete"
  <2> SUFFICES ASSUME NEW k \in DOMAIN us PROVE c(k) \in Statements /\ c(k).op # "delete"
    OBVIOUS
  <2>1. <<k, us[k]>> \in Forms \cup {0} \cup (Nat \X Units)
    <3>1. k \in Nat /\ us[k] \in Units
      OBVIOUS
    <3>2. QED
      BY <3>1
  <2>2. "occur" \in Ops /\ "occur" # "rename"
    BY DEF Ops
  <2>3. IsStatement(c(k), "occur", i)
    BY <2>1, <2>2, StatementIn
  <2> HIDE DEF c
  <2>4. QED
    BY <2>3 DEF IsStatement
<1> HIDE DEF a, c
<1>3. DOMAIN us = 1..Len(us) /\ Len(us) \in Nat
  OBVIOUS
<1>4. b \in Seq(Statements)
  <2>1. b \in [1..Len(us) -> Statements]
    BY <1>2, <1>3
  <2>2. QED
    BY <1>3, <2>1
<1>5. Deleted(b) = {}
  <2>1. \A k \in DOMAIN b : b[k].op # "delete"
    BY <1>2
  <2> HIDE DEF b
  <2>2. QED
    BY <2>1 DEF Deleted
<1>6. <<a>> \in Seq(Statements) /\ Deleted(<<a>>) = {}
  <2>1. Deleted(<<a>>) = IF a.op = "delete" THEN {a.id} ELSE {}
    BY <1>1, DeletedOfOne
  <2>2. QED
    BY <1>1, <2>1
<1>7. Replacing(i, us) = <<a>> \o b
  BY DEF Replacing, a, c
<1> HIDE DEF b
<1>8. <<a>> \o b \in Seq(Statements) /\ Deleted(<<a>> \o b) = {}
  <2>1. Deleted(<<a>> \o b) = Deleted(<<a>>) \cup Deleted(b)
    BY <1>4, <1>6, DeletedOfConcat
  <2>2. QED
    BY <1>4, <1>5, <1>6, <2>1
<1>9. QED
  BY <1>7, <1>8

Persisted ==
  /\ release \in Releases
  /\ Table(rows, nextId)
  /\ \A i \in DOMAIN rows : rows[i].order \in Nat

(* Where the decisions of a reconciliation stand: a row that tokenises is  *)
(* not consumed, and what is to be deleted is consumed or does not.        *)
Deciding ==
  {t \in [consumed : SUBSET (DOMAIN rows), todo : Seq(Statements)] :
     /\ \E i \in DOMAIN rows : Tokenises(rows[i].form) /\ i \notin t.consumed
     /\ \A i \in Deleted(t.todo) : i \in t.consumed \/ ~Tokenises(rows[i].form)}

LEMMA FirstOfSome ==
  ASSUME Persisted, NEW S \in SUBSET (DOMAIN rows), S # {}
  PROVE  (CHOOSE s \in S : \A j \in S : rows[s].order <= rows[j].order) \in S
<1> DEFINE T == {rows[j].order : j \in S}
<1>1. T \in SUBSET Nat /\ T # {}
  BY DEF Persisted
<1>2. PICK x \in T : \A y \in T : x <= y
  <2> HIDE DEF T
  <2>1. QED
    BY <1>1, LeastNumber
<1>3. \E s \in S : \A j \in S : rows[s].order <= rows[j].order
  BY <1>2
<1>4. QED
  BY <1>3

LEMMA CanonicalIsForm ==
  ASSUME Persisted, NEW i \in DOMAIN rows, Tokenises(rows[i].form)
  PROVE  /\ CanonicalOf(rows[i].form) \in Forms
         /\ UnitsOf[release][CanonicalOf(rows[i].form)] \in Seq(Units)
<1>1. rows[i].form \in Forms
  BY DEF Persisted, Table, Row
<1>2. QED
  BY <1>1, CatalogueAssumption DEF Persisted, Releases, Tokenises, CanonicalOf

LEMMA StillDeciding ==
  ASSUME NEW c \in SUBSET (DOMAIN rows), NEW d \in Seq(Statements),
         NEW w \in DOMAIN rows, Tokenises(rows[w].form), w \notin c,
         \A i \in Deleted(d) : i \in c \/ ~Tokenises(rows[i].form)
  PROVE  [consumed |-> c, todo |-> d] \in Deciding
BY DEF Deciding

LEMMA DecidedStays ==
  ASSUME Persisted, NEW t \in Deciding, NEW i \in DOMAIN rows
  PROVE  Decided(t, i) \in Deciding
<1> DEFINE canonical == CanonicalOf(rows[i].form)
           siblings == {j \in DOMAIN rows \ {i} :
                          j \notin t.consumed /\ CanonicalOf(rows[j].form) = canonical}
           first == CHOOSE s \in siblings : \A j \in siblings : rows[s].order <= rows[j].order
           rename == Statement("rename", i, canonical)
           promote == IF rows[first].primary /\ ~rows[i].primary
                        THEN <<Statement("promote", i, 0)>> ELSE << >>
<1>0. /\ t.consumed \in SUBSET (DOMAIN rows) /\ t.todo \in Seq(Statements)
      /\ t = [consumed |-> t.consumed, todo |-> t.todo]
      /\ \E k \in DOMAIN rows : Tokenises(rows[k].form) /\ k \notin t.consumed
      /\ \A k \in Deleted(t.todo) : k \in t.consumed \/ ~Tokenises(rows[k].form)
      /\ DOMAIN rows \subseteq Nat /\ i \in Nat
  <2>1. DOMAIN rows \subseteq Nat
    BY DEF Persisted, Table
  <2>2. QED
    BY <2>1 DEF Deciding
<1>1. Decided(t, i) =
        IF i \in t.consumed \/ canonical = rows[i].form THEN t
        ELSE IF canonical = Rejected THEN [t EXCEPT !.todo = @ \o Deleting(i)]
        ELSE IF siblings = {} THEN [t EXCEPT !.todo = @ \o <<rename>>]
        ELSE [consumed |-> t.consumed \cup {first},
              todo |-> t.todo \o Deleting(first) \o <<rename>> \o promote]
  BY DEF Decided
<1>2. siblings \in SUBSET (DOMAIN rows) /\ i \notin siblings
  OBVIOUS
<1>3. siblings # {} => first \in siblings
  <2> HIDE DEF siblings
  <2>1. QED
    BY <1>2, FirstOfSome
<1>4. canonical # Rejected =>
        /\ <<rename>> \in Seq(Statements) /\ Deleted(<<rename>>) = {}
        /\ Tokenises(rows[i].form)
  <2> SUFFICES ASSUME canonical # Rejected
               PROVE  /\ <<rename>> \in Seq(Statements) /\ Deleted(<<rename>>) = {}
                      /\ Tokenises(rows[i].form)
    OBVIOUS
  <2>1. Tokenises(rows[i].form)
    BY DEF Tokenises
  <2>2. canonical \in Forms
    BY <2>1, CanonicalIsForm
  <2>3. "rename" \in Ops /\ canonical \in Forms \cup {0} \cup (Nat \X Units)
    BY <2>2 DEF Ops
  <2> HIDE DEF canonical
  <2>4. IsStatement(rename, "rename", i)
    BY <1>0, <2>2, <2>3, StatementIn
  <2> HIDE DEF rename
  <2>5. rename \in Statements /\ rename.op # "delete"
    BY <2>4 DEF IsStatement
  <2>6. /\ <<rename>> \in Seq(Statements)
        /\ Deleted(<<rename>>) = IF rename.op = "delete" THEN {rename.id} ELSE {}
    BY <2>5, DeletedOfOne
  <2>7. QED
    BY <2>1, <2>5, <2>6
<1>5. promote \in Seq(Statements) /\ Deleted(promote) = {}
  <2> DEFINE p == Statement("promote", i, 0)
  <2>1. IsStatement(p, "promote", i)
    BY <1>0, BareStatement
  <2> HIDE DEF p
  <2>2. p \in Statements /\ p.op # "delete"
    BY <2>1 DEF IsStatement
  <2>3. /\ <<p>> \in Seq(Statements)
        /\ Deleted(<<p>>) = IF p.op = "delete" THEN {p.id} ELSE {}
    BY <2>2, DeletedOfOne
  <2>4. <<p>> \in Seq(Statements) /\ Deleted(<<p>>) = {}
    BY <2>2, <2>3
  <2>5. promote = <<p>> \/ promote = << >>
    BY DEF p
  <2>6. QED
    BY <2>4, <2>5, DeletedOfNone
<1>6. canonical = Rejected => ~Tokenises(rows[i].form)
  BY DEF Tokenises
<1> HIDE DEF canonical, siblings, first, rename, promote
<1>7. CASE i \in t.consumed \/ canonical = rows[i].form
  BY <1>1, <1>7
<1>8. CASE /\ ~(i \in t.consumed \/ canonical = rows[i].form)
           /\ canonical = Rejected
  <2>1. Decided(t, i) = [consumed |-> t.consumed, todo |-> t.todo \o Deleting(i)]
    BY <1>0, <1>1, <1>8
  <2>2. Deleting(i) \in Seq(Statements) /\ Deleted(Deleting(i)) = {i}
    BY <1>0, DeletingDeletes
  <2>3. /\ t.todo \o Deleting(i) \in Seq(Statements)
        /\ Deleted(t.todo \o Deleting(i)) = Deleted(t.todo) \cup {i}
    BY <1>0, <2>2, DeletedOfConcat
  <2>4. PICK w \in DOMAIN rows : Tokenises(rows[w].form) /\ w \notin t.consumed
    BY <1>0
  <2>5. \A k \in Deleted(t.todo \o Deleting(i)) : k \in t.consumed \/ ~Tokenises(rows[k].form)
    BY <1>0, <1>6, <1>8, <2>3
  <2>6. QED
    BY <1>0, <2>1, <2>3, <2>4, <2>5, StillDeciding
<1>9. CASE /\ ~(i \in t.consumed \/ canonical = rows[i].form)
           /\ canonical # Rejected /\ siblings = {}
  <2>1. Decided(t, i) = [consumed |-> t.consumed, todo |-> t.todo \o <<rename>>]
    BY <1>0, <1>1, <1>9
  <2>2. /\ t.todo \o <<rename>> \in Seq(Statements)
        /\ Deleted(t.todo \o <<rename>>) = Deleted(t.todo) \cup Deleted(<<rename>>)
    BY <1>0, <1>4, <1>9, DeletedOfConcat
  <2>3. PICK w \in DOMAIN rows : Tokenises(rows[w].form) /\ w \notin t.consumed
    BY <1>0
  <2>4. \A k \in Deleted(t.todo \o <<rename>>) : k \in t.consumed \/ ~Tokenises(rows[k].form)
    BY <1>0, <1>4, <1>9, <2>2
  <2>5. QED
    BY <1>0, <2>1, <2>2, <2>3, <2>4, StillDeciding
<1>10. CASE /\ ~(i \in t.consumed \/ canonical = rows[i].form)
            /\ canonical # Rejected /\ siblings # {}
  <2> DEFINE a == t.todo \o Deleting(first)
             b == a \o <<rename>>
             c == b \o promote
  <2>1. Decided(t, i) = [consumed |-> t.consumed \cup {first}, todo |-> c]
    BY <1>1, <1>10
  <2>2. first \in DOMAIN rows /\ first # i /\ first \in Nat
    BY <1>0, <1>2, <1>3, <1>10
  <2>3. Deleting(first) \in Seq(Statements) /\ Deleted(Deleting(first)) = {first}
    BY <2>2, DeletingDeletes
  <2>4. a \in Seq(Statements) /\ Deleted(a) = Deleted(t.todo) \cup {first}
    BY <1>0, <2>3, DeletedOfConcat
  <2> HIDE DEF a
  <2>5. b \in Seq(Statements) /\ Deleted(b) = Deleted(a) \cup Deleted(<<rename>>)
    BY <1>4, <1>10, <2>4, DeletedOfConcat
  <2> HIDE DEF b
  <2>6. c \in Seq(Statements) /\ Deleted(c) = Deleted(b) \cup Deleted(promote)
    BY <1>5, <2>5, DeletedOfConcat
  <2> HIDE DEF c
  <2>7. Deleted(c) = Deleted(t.todo) \cup {first}
    BY <1>4, <1>5, <1>10, <2>4, <2>5, <2>6
  <2>8. Tokenises(rows[i].form) /\ i \notin t.consumed \cup {first}
    BY <1>4, <1>10, <2>2
  <2>9. QED
    BY <1>0, <2>1, <2>2, <2>6, <2>7, <2>8 DEF Deciding
<1>11. QED
  BY <1>7, <1>8, <1>9, <1>10

(* The loop over the rows, pass by pass.                                   *)
IsDecisionRun(f) ==
  LET ids == InOrder(rows)
  IN  /\ f \in [0..Len(ids) -> Deciding]
      /\ f[0] = [consumed |-> {}, todo |-> << >>]
      /\ \A k \in 1..Len(ids) : f[k] = Decided(f[k - 1], ids[k])
      /\ Decisions = f[Len(ids)].todo

LEMMA DecisionsRun ==
  ASSUME Persisted, ~Blocked
  PROVE  \E f : IsDecisionRun(f)
<1> DEFINE ids == InOrder(rows)
           m == Len(ids)
           c == [consumed |-> {}, todo |-> << >>]
           step == [p \in Deciding \X (1..m) |-> Decided(p[1], ids[p[2]])]
           body(f) == [k \in 0..m |-> IF k = 0 THEN c ELSE Decided(f[k - 1], ids[k])]
           upTo == CHOOSE f : f = body(f)
<1>1. m \in Nat /\ \A k \in 1..m : ids[k] \in DOMAIN rows
  <2>1. ids \in Seq(DOMAIN rows)
    BY InOrderIsAll DEF Persisted
  <2> HIDE DEF ids
  <2>2. QED
    BY <2>1
<1>2. c \in Deciding
  <2>1. PICK w \in DOMAIN rows : Tokenises(rows[w].form)
    BY DEF Blocked
  <2>2. {} \in SUBSET (DOMAIN rows) /\ w \notin {}
    OBVIOUS
  <2>3. QED
    BY <2>1, <2>2, DeletedOfNone, StillDeciding
<1>3. \A u \in Deciding, k \in 1..m : Decided(u, ids[k]) \in Deciding
  BY <1>1, DecidedStays
<1> HIDE DEF ids, m, c
<1>4. step \in [Deciding \X (1..m) -> Deciding]
  BY <1>3
<1>5. \A u \in Deciding, k \in 1..m : step[<<u, k>>] = Decided(u, ids[k])
  OBVIOUS
<1> HIDE DEF step
<1>6. PICK f : IsRun(Deciding, c, m, step, f)
  BY <1>1, <1>2, <1>4, Recursion
<1>7. /\ f \in [0..m -> Deciding] /\ f[0] = c
      /\ \A k \in 1..m : f[k] = step[<<f[k - 1], k>>]
  BY <1>6 DEF IsRun
<1>8. \A k \in 1..m : f[k] = Decided(f[k - 1], ids[k])
  <2> SUFFICES ASSUME NEW k \in 1..m PROVE f[k] = Decided(f[k - 1], ids[k])
    OBVIOUS
  <2>1. k - 1 \in 0..m
    BY <1>1
  <2>2. f[k - 1] \in Deciding /\ f[k] = step[<<f[k - 1], k>>]
    BY <1>7, <2>1
  <2>3. QED
    BY <1>5, <2>2
<1>9. f = body(f)
  <2>1. \A k \in 0..m : k = 0 \/ k \in 1..m
    BY <1>1
  <2>2. \A k \in 0..m : f[k] = IF k = 0 THEN c ELSE Decided(f[k - 1], ids[k])
    BY <1>7, <1>8, <2>1
  <2>3. DOMAIN f = 0..m /\ f = [k \in 0..m |-> f[k]]
    BY <1>7
  <2>4. QED
    BY <2>2, <2>3
<1>10. upTo = body(upTo)
  BY <1>9
<1> HIDE DEF upTo
<1>11. \A k \in 0..m : upTo[k] = IF k = 0 THEN c ELSE Decided(upTo[k - 1], ids[k])
  BY <1>10
<1> DEFINE T == {k \in 0..m : upTo[k] \in Deciding}
<1>12. 0 \in T
  <2>1. 0 \in 0..m
    BY <1>1
  <2>2. upTo[0] = c
    BY <1>11, <2>1
  <2>3. QED
    BY <1>2, <2>1, <2>2
<1>13. ASSUME NEW k \in T, k < m PROVE k + 1 \in T
  <2>1. k + 1 \in 1..m /\ k + 1 \in 0..m /\ k + 1 # 0 /\ (k + 1) - 1 = k /\ upTo[k] \in Deciding
    BY <1>1, <1>13
  <2>2. upTo[k + 1] = Decided(upTo[k], ids[k + 1])
    BY <1>11, <2>1
  <2>3. QED
    BY <1>3, <2>1, <2>2
<1>14. T \in SUBSET (0..m)
  OBVIOUS
<1> HIDE DEF T
<1>15. T = 0..m
  BY <1>1, <1>12, <1>13, <1>14, EveryNumber
<1>16. upTo \in [0..m -> Deciding]
  <2>1. \A k \in 0..m : upTo[k] \in Deciding
    BY <1>15 DEF T
  <2>2. DOMAIN upTo = 0..m /\ upTo = [k \in 0..m |-> upTo[k]]
    BY <1>10, Zenon
  <2>3. QED
    BY <2>1, <2>2
<1>17. Decisions = upTo[m].todo
  BY DEF Decisions, upTo, m, ids, c
<1>18. upTo[0] = c /\ \A k \in 1..m : upTo[k] = Decided(upTo[k - 1], ids[k])
  <2>1. 0 \in 0..m /\ \A k \in 1..m : k \in 0..m /\ k # 0
    BY <1>1
  <2>2. QED
    BY <1>11, <2>1
<1>19. IsDecisionRun(upTo)
  BY <1>16, <1>17, <1>18 DEF IsDecisionRun, m, ids, c
<1>20. QED
  BY <1>19

(* The decisions of a reconciliation spare a row that tokenises.           *)
LEMMA DecisionsSpare ==
  ASSUME Persisted, ~Blocked
  PROVE  /\ Decisions \in Seq(Statements)
         /\ \E i \in DOMAIN rows : i \notin Deleted(Decisions)
<1>1. PICK f : IsDecisionRun(f)
  BY DecisionsRun
<1>2. PICK t \in Deciding : Decisions = t.todo
  <2>1. PICK ids \in Seq(DOMAIN rows) : ids = InOrder(rows)
    BY InOrderIsAll DEF Persisted
  <2>2. Len(ids) \in 0..Len(ids)
    OBVIOUS
  <2>3. f \in [0..Len(ids) -> Deciding] /\ Decisions = f[Len(ids)].todo
    BY <1>1, <2>1 DEF IsDecisionRun
  <2>4. QED
    BY <2>2, <2>3
<1>3. /\ t.todo \in Seq(Statements)
      /\ \E i \in DOMAIN rows : Tokenises(rows[i].form) /\ i \notin t.consumed
      /\ \A i \in Deleted(t.todo) : i \in t.consumed \/ ~Tokenises(rows[i].form)
  BY DEF Deciding
<1>4. QED
  BY <1>2, <1>3

Clean == {todo \in Seq(Statements) : Deleted(todo) = {}}

LEMMA OccurrencesClean ==
  ASSUME Persisted, NEW i \in DOMAIN rows, NEW todo \in Clean
  PROVE  todo \o Occurrences(i) \in Clean
<1> DEFINE units == UnitsOf[release][CanonicalOf(rows[i].form)]
<1>1. CASE ~Tokenises(rows[i].form) \/ \E k \in DOMAIN units : ranks[units[k]] = 0
  <2>1. Occurrences(i) = << >>
    BY <1>1 DEF Occurrences
  <2>2. Occurrences(i) \in Seq(Statements) /\ Deleted(Occurrences(i)) = {}
    BY <2>1, DeletedOfNone
  <2>3. QED
    BY <2>2, DeletedOfConcat DEF Clean
<1>2. CASE ~(~Tokenises(rows[i].form) \/ \E k \in DOMAIN units : ranks[units[k]] = 0)
  <2>1. Occurrences(i) = Replacing(i, units)
    BY <1>2 DEF Occurrences
  <2>2. units \in Seq(Units) /\ i \in Nat
    BY <1>2, CanonicalIsForm DEF Persisted, Table
  <2> HIDE DEF units
  <2>3. Occurrences(i) \in Seq(Statements) /\ Deleted(Occurrences(i)) = {}
    BY <2>1, <2>2, ReplacingDeletesNone
  <2>4. QED
    BY <2>3, DeletedOfConcat DEF Clean
<1>3. QED
  BY <1>1, <1>2

IsOccurrenceRun(f) ==
  LET ids == InOrder(rows)
  IN  /\ f \in [0..Len(ids) -> Clean]
      /\ f[0] = << >>
      /\ \A k \in 1..Len(ids) : f[k] = f[k - 1] \o Occurrences(ids[k])
      /\ AllOccurrences = f[Len(ids)]

LEMMA OccurrencesRun ==
  ASSUME Persisted
  PROVE  \E f : IsOccurrenceRun(f)
<1> DEFINE ids == InOrder(rows)
           m == Len(ids)
           step == [p \in Clean \X (1..m) |-> p[1] \o Occurrences(ids[p[2]])]
           body(f) == [k \in 0..m |-> IF k = 0 THEN << >> ELSE f[k - 1] \o Occurrences(ids[k])]
           upTo == CHOOSE f : f = body(f)
<1>1. m \in Nat /\ \A k \in 1..m : ids[k] \in DOMAIN rows
  <2>1. ids \in Seq(DOMAIN rows)
    BY InOrderIsAll DEF Persisted
  <2> HIDE DEF ids
  <2>2. QED
    BY <2>1
<1>2. << >> \in Clean
  BY DeletedOfNone DEF Clean
<1>3. \A u \in Clean, k \in 1..m : u \o Occurrences(ids[k]) \in Clean
  BY <1>1, OccurrencesClean
<1> HIDE DEF ids, m
<1>4. step \in [Clean \X (1..m) -> Clean]
  BY <1>3
<1>5. \A u \in Clean, k \in 1..m : step[<<u, k>>] = u \o Occurrences(ids[k])
  OBVIOUS
<1> HIDE DEF step
<1>6. PICK f : IsRun(Clean, << >>, m, step, f)
  BY <1>1, <1>2, <1>4, Recursion
<1>7. /\ f \in [0..m -> Clean] /\ f[0] = << >>
      /\ \A k \in 1..m : f[k] = step[<<f[k - 1], k>>]
  BY <1>6 DEF IsRun
<1>8. \A k \in 1..m : f[k] = f[k - 1] \o Occurrences(ids[k])
  <2> SUFFICES ASSUME NEW k \in 1..m PROVE f[k] = f[k - 1] \o Occurrences(ids[k])
    OBVIOUS
  <2>1. k - 1 \in 0..m
    BY <1>1
  <2>2. f[k - 1] \in Clean /\ f[k] = step[<<f[k - 1], k>>]
    BY <1>7, <2>1
  <2>3. QED
    BY <1>5, <2>2
<1>9. f = body(f)
  <2>1. \A k \in 0..m : k = 0 \/ k \in 1..m
    BY <1>1
  <2>2. \A k \in 0..m : f[k] = IF k = 0 THEN << >> ELSE f[k - 1] \o Occurrences(ids[k])
    BY <1>7, <1>8, <2>1
  <2>3. DOMAIN f = 0..m /\ f = [k \in 0..m |-> f[k]]
    BY <1>7
  <2>4. QED
    BY <2>2, <2>3
<1>10. upTo = body(upTo)
  BY <1>9
<1> HIDE DEF upTo
<1>11. \A k \in 0..m : upTo[k] = IF k = 0 THEN << >> ELSE upTo[k - 1] \o Occurrences(ids[k])
  BY <1>10
<1> DEFINE T == {k \in 0..m : upTo[k] \in Clean}
<1>12. 0 \in T
  <2>1. 0 \in 0..m
    BY <1>1
  <2>2. upTo[0] = << >>
    BY <1>11, <2>1
  <2>3. QED
    BY <1>2, <2>1, <2>2
<1>13. ASSUME NEW k \in T, k < m PROVE k + 1 \in T
  <2>1. k + 1 \in 1..m /\ k + 1 \in 0..m /\ k + 1 # 0 /\ (k + 1) - 1 = k /\ upTo[k] \in Clean
    BY <1>1, <1>13
  <2>2. upTo[k + 1] = upTo[k] \o Occurrences(ids[k + 1])
    BY <1>11, <2>1
  <2>3. QED
    BY <1>3, <2>1, <2>2
<1>14. T \in SUBSET (0..m)
  OBVIOUS
<1> HIDE DEF T
<1>15. T = 0..m
  BY <1>1, <1>12, <1>13, <1>14, EveryNumber
<1>16. upTo \in [0..m -> Clean]
  <2>1. \A k \in 0..m : upTo[k] \in Clean
    BY <1>15 DEF T
  <2>2. DOMAIN upTo = 0..m /\ upTo = [k \in 0..m |-> upTo[k]]
    BY <1>10, Zenon
  <2>3. QED
    BY <2>1, <2>2
<1>17. AllOccurrences = upTo[m]
  BY DEF AllOccurrences, upTo, m, ids
<1>18. upTo[0] = << >> /\ \A k \in 1..m : upTo[k] = upTo[k - 1] \o Occurrences(ids[k])
  <2>1. 0 \in 0..m /\ \A k \in 1..m : k \in 0..m /\ k # 0
    BY <1>1
  <2>2. QED
    BY <1>11, <2>1
<1>19. IsOccurrenceRun(upTo)
  BY <1>16, <1>17, <1>18 DEF IsOccurrenceRun, m, ids
<1>20. QED
  BY <1>19

LEMMA AllOccurrencesClean ==
  ASSUME Persisted
  PROVE  AllOccurrences \in Clean
<1>1. PICK f : IsOccurrenceRun(f)
  BY OccurrencesRun
<1>2. PICK ids \in Seq(DOMAIN rows) : ids = InOrder(rows)
  BY InOrderIsAll DEF Persisted
<1>3. Len(ids) \in 0..Len(ids)
  OBVIOUS
<1>4. QED
  BY <1>1, <1>2, <1>3 DEF IsOccurrenceRun

LEMMA ChangedTable ==
  ASSUME NEW rs, NEW next, Table(rs, next), NEW i \in DOMAIN rs, NEW r \in Row,
         ~Collides([rs EXCEPT ![i] = r], i)
  PROVE  Table([rs EXCEPT ![i] = r], next)
<1> DEFINE q == [rs EXCEPT ![i] = r]
<1>1. next \in Nat \ {0} /\ rs \in [DOMAIN rs -> Row] /\ DOMAIN rs \subseteq 1..(next - 1)
  BY DEF Table
<1>2. /\ DOMAIN q = DOMAIN rs /\ q \in [DOMAIN q -> Row]
      /\ \A j \in DOMAIN rs \ {i} : q[j] = rs[j]
  BY <1>1
<1>3. ~Collides(q, i)
  OBVIOUS
<1> HIDE DEF q
<1>4. ASSUME NEW j \in DOMAIN q PROVE ~Collides(q, j)
  <2> SUFFICES ASSUME NEW k \in DOMAIN q \ {j},
                      \/ q[k].form = q[j].form
                      \/ q[k].order = q[j].order
                      \/ q[k].primary /\ q[j].primary
               PROVE  FALSE
    BY DEF Collides
  <2>1. CASE j = i \/ k = i
    BY <1>3, <2>1 DEF Collides
  <2>2. CASE j # i /\ k # i
    BY <1>2, <2>2, TableKeys
  <2>3. QED
    BY <2>1, <2>2
<1>5. QED
  BY <1>1, <1>2, <1>4 DEF Table, q

(* A clip touches no key of the table.                                     *)
LEMMA ClippedTable ==
  ASSUME NEW rs, NEW next, Table(rs, next), NEW i \in DOMAIN rs, NEW b \in BOOLEAN
  PROVE  LET q == [rs EXCEPT ![i] = [rs[i] EXCEPT !.clip = b]]
         IN  /\ Table(q, next) /\ DOMAIN q = DOMAIN rs
             /\ \A j \in DOMAIN rs : q[j].order = rs[j].order
<1> DEFINE r == [rs[i] EXCEPT !.clip = b]
           q == [rs EXCEPT ![i] = r]
<1>1. rs \in [DOMAIN rs -> Row]
  BY DEF Table
<1>2. r \in Row /\ r.form = rs[i].form /\ r.order = rs[i].order /\ r.primary = rs[i].primary
  <2>1. rs[i] \in Row
    BY <1>1
  <2>2. QED
    BY <2>1 DEF Row
<1> HIDE DEF r
<1>3. DOMAIN q = DOMAIN rs /\ q[i] = r /\ \A j \in DOMAIN rs \ {i} : q[j] = rs[j]
  BY <1>1
<1> HIDE DEF q
<1>4. ~Collides(q, i)
  BY <1>2, <1>3, TableKeys DEF Collides
<1>5. Table(q, next)
  BY <1>2, <1>4, ChangedTable DEF q
<1>6. \A j \in DOMAIN rs : q[j].order = rs[j].order
  BY <1>2, <1>3
<1>7. QED
  BY <1>3, <1>5, <1>6 DEF q, r

(* The scripts at work leave the table as it should be, and the statements *)
(* they have left delete not every row of the word.                        *)
Stages == AtRest \cup {"reconcile", "rank", "occur", "refused"}
CatInv ==
  /\ Persisted
  /\ seed \in [stage : Stages, todo : Seq(Statements)]
  /\ DOMAIN rows # {} => \E i \in DOMAIN rows : i \notin Deleted(seed.todo)

LEMMA RestingIsIdle ==
  ASSUME NEW s \in Stages
  PROVE  /\ Resting(s) \in [stage : Stages, todo : Seq(Statements)]
         /\ Deleted(Resting(s).todo) = {}
<1>1. << >> \in Seq(Statements) /\ Deleted(<< >>) = {}
  BY DeletedOfNone
<1>2. Resting(s).todo = << >>
  BY DEF Resting
<1>3. Resting(s) \in [stage : Stages, todo : Seq(Statements)]
  BY <1>1 DEF Resting
<1>4. QED
  BY <1>1, <1>2, <1>3

LEMMA StageNames ==
  /\ AtRest \subseteq Stages
  /\ \A s \in {"idle", "loaded", "valid", "invalid", "reconcile", "rank", "occur", "refused"} :
       s \in Stages
BY DEF Stages, AtRest

(* The tables and nothing a script has left.                               *)
LEMMA RestKeepsCatInv ==
  ASSUME Persisted', NEW s \in Stages, seed' = Resting(s)
  PROVE  CatInv'
<1>1. /\ seed' \in [stage : Stages, todo : Seq(Statements)]
      /\ Deleted(seed'.todo) = {}
  BY RestingIsIdle
<1>2. QED
  BY <1>1 DEF CatInv

LEMMA CatalogueStarts == CatalogueInit => CatInv
<1> SUFFICES ASSUME CatalogueInit PROVE CatInv
  OBVIOUS
<1>1. PICK e \in Earlier : rows = LeftRows(e)
  BY DEF CatalogueInit
<1>2. e \in Seq(Forms) /\ IsInjective(e)
  BY CatalogueAssumption
<1>3. PICK n \in Nat : n = Len(e) /\ DOMAIN e = 1..n
  BY <1>2
<1>4. DOMAIN rows = 1..n /\ \A i \in 1..n : rows[i] = EntryRow(e, i)
  BY <1>1, <1>3 DEF LeftRows
<1>5. \A i \in 1..n : rows[i] \in Row /\ ReadingOf(rows[i], e, i)
  BY <1>2, <1>3, <1>4, EntryRowFacts
<1>6. nextId = n + 1
  <2>1. Cardinality(1..n) = n
    <3>1. Cardinality(1..n) = IF 1 > n THEN 0 ELSE n - 1 + 1
      BY FS_Interval
    <3>2. QED
      BY <3>1
  <2>2. nextId = Cardinality(DOMAIN rows) + 1
    BY DEF CatalogueInit
  <2>3. QED
    BY <1>4, <2>1, <2>2
<1>7. rows \in [DOMAIN rows -> Row]
  BY <1>1, <1>3, <1>4, <1>5 DEF LeftRows
<1>8. ASSUME NEW i \in DOMAIN rows PROVE ~Collides(rows, i)
  <2> SUFFICES ASSUME NEW j \in DOMAIN rows \ {i},
                      \/ rows[j].form = rows[i].form
                      \/ rows[j].order = rows[i].order
                      \/ rows[j].primary /\ rows[i].primary
               PROVE  FALSE
    BY DEF Collides
  <2>1. ReadingOf(rows[i], e, i) /\ ReadingOf(rows[j], e, j) /\ i # j
    BY <1>4, <1>5
  <2>2. e[i] # e[j]
    BY <1>2, <1>3, <1>4, <2>1 DEF IsInjective
  <2>3. i \in Nat /\ j \in Nat
    BY <1>4
  <2>4. QED
    BY <2>1, <2>2, <2>3 DEF ReadingOf
<1>9. Table(rows, nextId)
  BY <1>4, <1>6, <1>7, <1>8 DEF Table
<1>10. \A i \in DOMAIN rows : rows[i].order \in Nat
  BY <1>4, <1>5 DEF ReadingOf
<1>11. release \in Releases
  BY CatalogueAssumption DEF CatalogueInit, Releases
<1>12. seed = Resting("idle") /\ "idle" \in Stages
  BY StageNames DEF CatalogueInit
<1>13. seed \in [stage : Stages, todo : Seq(Statements)] /\ Deleted(seed.todo) = {}
  BY <1>12, RestingIsIdle
<1>14. QED
  BY <1>9, <1>10, <1>11, <1>13 DEF CatInv, Persisted

(* A load leaves the entry, whatever the word had: when a unique key is    *)
(* met the transaction is rolled back and the stage is not "loaded".       *)
LEMMA LoadLeavesTheEntry ==
  ASSUME CatInv, NEW e \in Entries, LoadEntry(e)
  PROVE  /\ CatInv'
         /\ seed'.stage = "loaded" => IsLoaded(rows, e, rows')
         /\ DOMAIN rows # {} => DOMAIN rows' # {}
<1> DEFINE t == Written(rows, nextId, e)
           kept == {i \in DOMAIN t.rows : t.rows[i].form \in ToSet(e)}
<1>1. e \in Seq(Forms) /\ IsInjective(e) /\ e # << >>
  BY CatalogueAssumption
<1>2. Persisted /\ Table(rows, nextId)
  BY DEF CatInv, Persisted
<1>3. t \in Works /\ WrittenTo(rows, e, Len(e), t)
  BY <1>1, <1>2, WrittenFacts
<1>4. /\ IF t.ok THEN /\ rows' = Keep(t.rows, kept) /\ nextId' = t.next
                      /\ seed' = Resting("loaded")
                 ELSE seed' = Resting("idle") /\ rows' = rows /\ nextId' = nextId
      /\ release' = release
  BY DEF LoadEntry
<1> HIDE DEF t
<1>5. CASE t.ok
  <2>1. IsLoaded(rows, e, Keep(t.rows, kept)) /\ \A i \in DOMAIN Keep(t.rows, kept) : Keep(t.rows, kept)[i].order \in Nat
    BY <1>1, <1>3, <1>5, LoadedRows
  <2>2. Table(t.rows, t.next)
    BY <1>3, <1>5 DEF WrittenTo
  <2>3. Table(Keep(t.rows, kept), t.next)
    BY <2>2, KeepTable
  <2>4. Persisted'
    BY <1>2, <1>4, <1>5, <2>1, <2>3 DEF Persisted, Releases
  <2>5. CatInv'
    BY <1>4, <1>5, <2>4, RestKeepsCatInv, StageNames
  <2>6. IsLoaded(rows, e, rows')
    BY <1>4, <1>5, <2>1
  <2>7. e[1] \in ToSet(e)
    BY <1>1 DEF ToSet
  <2>8. DOMAIN rows' # {}
    BY <2>6, <2>7 DEF IsLoaded
  <2>9. QED
    BY <2>5, <2>6, <2>8
<1>6. CASE ~t.ok
  <2>1. Persisted'
    BY <1>2, <1>4, <1>6 DEF Persisted, Releases
  <2>2. CatInv'
    BY <1>4, <1>6, <2>1, RestKeepsCatInv, StageNames
  <2>3. seed'.stage = "idle"
    BY <1>4, <1>6 DEF Resting
  <2>4. QED
    BY <1>4, <1>6, <2>2, <2>3
<1>7. QED
  BY <1>5, <1>6

LEMMA ReconcileSparesARow ==
  ASSUME CatInv, ReconcilePronunciations
  PROVE  CatInv'
<1>1. /\ rows' = rows /\ nextId' = nextId /\ release' = release
      /\ seed' = [stage |-> "reconcile", todo |-> IF Blocked THEN << >> ELSE Decisions]
  BY DEF ReconcilePronunciations
<1>2. Persisted /\ Persisted'
  BY <1>1 DEF CatInv, Persisted, Releases
<1>3. "reconcile" \in Stages
  BY StageNames
<1>4. CASE Blocked
  <2>1. << >> \in Seq(Statements) /\ Deleted(<< >>) = {}
    BY DeletedOfNone
  <2>2. seed' = [stage |-> "reconcile", todo |-> << >>]
    BY <1>1, <1>4
  <2>3. QED
    BY <1>2, <1>3, <2>1, <2>2 DEF CatInv
<1>5. CASE ~Blocked
  <2>1. Decisions \in Seq(Statements) /\ \E i \in DOMAIN rows : i \notin Deleted(Decisions)
    BY <1>2, <1>5, DecisionsSpare
  <2>2. seed' = [stage |-> "reconcile", todo |-> Decisions]
    BY <1>1, <1>5
  <2>3. QED
    BY <1>1, <1>2, <1>3, <2>1, <2>2 DEF CatInv
<1>6. QED
  BY <1>4, <1>5

(* A statement keeps the keys of the table and the rows it does not delete.*)
LEMMA StatementKeepsTable ==
  ASSUME CatInv, RunStatement
  PROVE  /\ Persisted'
         /\ DOMAIN rows' = IF Head(seed.todo).op = "delete"
                             THEN DOMAIN rows \ {Head(seed.todo).id} ELSE DOMAIN rows
<1> DEFINE s == Head(seed.todo)
<1>0. /\ Persisted /\ Table(rows, nextId) /\ rows \in [DOMAIN rows -> Row]
      /\ \A i \in DOMAIN rows : rows[i].order \in Nat
  BY DEF CatInv, Persisted, Table
<1>1. s \in Statements
  BY DeletedOfRest DEF CatInv, RunStatement
<1>2. /\ rows' = CASE s.op = "delete" -> Keep(rows, DOMAIN rows \ {s.id})
                   [] s.op = "rename" /\ ~Collides(Renamed(s.id, s.arg), s.id) ->
                        Renamed(s.id, s.arg)
                   [] s.op = "promote" /\ ~Collides(Promoted(s.id), s.id) -> Promoted(s.id)
                   [] OTHER -> rows
      /\ nextId' = nextId /\ release' = release
  BY DEF RunStatement
<1> HIDE DEF s
<1>3. SUFFICES /\ Table(rows', nextId)
               /\ DOMAIN rows' = IF s.op = "delete" THEN DOMAIN rows \ {s.id} ELSE DOMAIN rows
               /\ \A i \in DOMAIN rows' : rows'[i].order \in Nat
  <2>1. ASSUME Table(rows', nextId), \A i \in DOMAIN rows' : rows'[i].order \in Nat
        PROVE  Persisted'
    <3>1. nextId' = nextId /\ release' = release
      BY <1>2
    <3>2. QED
      BY <1>0, <2>1, <3>1 DEF Persisted, Releases
  <2>2. QED
    BY <2>1 DEF s
<1>4. CASE s.op = "delete"
  <2>1. rows' = Keep(rows, DOMAIN rows \ {s.id})
    BY <1>2, <1>4
  <2>2. DOMAIN rows' = DOMAIN rows \ {s.id} /\ \A i \in DOMAIN rows' : rows'[i] = rows[i]
    BY <2>1 DEF Keep
  <2>3. Table(rows', nextId)
    BY <1>0, <2>1, KeepTable
  <2>4. QED
    BY <1>0, <1>4, <2>2, <2>3
<1>5. CASE s.op = "rename" /\ ~Collides(Renamed(s.id, s.arg), s.id)
  <2>1. rows' = Renamed(s.id, s.arg)
    BY <1>2, <1>5
  <2>2. CASE s.id \notin DOMAIN rows
    <3>1. rows' = rows
      BY <1>0, <2>1, <2>2 DEF Renamed
    <3>2. QED
      BY <1>0, <1>5, <3>1
  <2>3. CASE s.id \in DOMAIN rows
    <3> DEFINE r == [rows[s.id] EXCEPT !.form = s.arg]
    <3>1. s.arg \in Forms /\ rows[s.id] \in Row
      BY <1>0, <1>1, <1>5, <2>3 DEF Statements
    <3>2. r \in Row /\ r.order = rows[s.id].order
      BY <3>1 DEF Row
    <3>3. rows' = [rows EXCEPT ![s.id] = r]
      BY <2>1 DEF Renamed
    <3> HIDE DEF r
    <3>4. ~Collides([rows EXCEPT ![s.id] = r], s.id)
      BY <1>5, <2>1, <3>3
    <3>5. Table(rows', nextId)
      BY <1>0, <2>3, <3>2, <3>3, <3>4, ChangedTable
    <3>6. DOMAIN rows' = DOMAIN rows /\ \A i \in DOMAIN rows' : rows'[i].order = rows[i].order
      BY <1>0, <2>3, <3>2, <3>3
    <3>7. QED
      BY <1>0, <1>5, <3>5, <3>6
  <2>4. QED
    BY <2>2, <2>3
<1>6. CASE s.op = "promote" /\ ~Collides(Promoted(s.id), s.id)
  <2>1. PICK b \in BOOLEAN : b = TRUE
    OBVIOUS
  <2>2. rows' = Promoted(s.id) /\ Promoted(s.id) = [rows EXCEPT ![s.id].primary = b]
    BY <1>2, <1>6, <2>1 DEF Promoted
  <2>3. CASE s.id \notin DOMAIN rows
    <3>1. rows' = rows
      BY <1>0, <2>2, <2>3
    <3>2. QED
      BY <1>0, <1>6, <3>1
  <2>4. CASE s.id \in DOMAIN rows
    <3> DEFINE r == [rows[s.id] EXCEPT !.primary = b]
    <3>1. r \in Row /\ r.order = rows[s.id].order
      BY <1>0, <2>4 DEF Row
    <3>2. rows' = [rows EXCEPT ![s.id] = r]
      BY <2>2
    <3> HIDE DEF r
    <3>3. ~Collides([rows EXCEPT ![s.id] = r], s.id)
      BY <1>6, <2>2, <3>2
    <3>4. Table(rows', nextId)
      BY <1>0, <2>4, <3>1, <3>2, <3>3, ChangedTable
    <3>5. DOMAIN rows' = DOMAIN rows /\ \A i \in DOMAIN rows' : rows'[i].order = rows[i].order
      BY <1>0, <2>4, <3>1, <3>2
    <3>6. QED
      BY <1>0, <1>6, <3>4, <3>5
  <2>5. QED
    BY <2>3, <2>4
<1>7. CASE /\ s.op # "delete"
           /\ ~(s.op = "rename" /\ ~Collides(Renamed(s.id, s.arg), s.id))
           /\ ~(s.op = "promote" /\ ~Collides(Promoted(s.id), s.id))
  <2>1. rows' = rows
    BY <1>2, <1>7
  <2>2. QED
    BY <1>0, <1>7, <2>1
<1>8. QED
  BY <1>4, <1>5, <1>6, <1>7

LEMMA StatementSparesARow ==
  ASSUME CatInv, RunStatement
  PROVE  CatInv' /\ (DOMAIN rows # {} => DOMAIN rows' # {})
<1> DEFINE s == Head(seed.todo)
           D == DOMAIN rows
<1>1. /\ seed \in [stage : Stages, todo : Seq(Statements)] /\ seed.todo # << >>
      /\ \/ seed' = Resting("idle")
         \/ seed' = [seed EXCEPT !.todo = Tail(@)]
  BY DEF CatInv, RunStatement
<1>2. seed.todo \in Seq(Statements) /\ seed.stage \in Stages
  BY <1>1
<1>3. /\ s \in Statements /\ Tail(seed.todo) \in Seq(Statements)
      /\ Deleted(Tail(seed.todo)) \subseteq Deleted(seed.todo)
      /\ s.op = "delete" => s.id \in Deleted(seed.todo)
  BY <1>1, <1>2, DeletedOfRest
<1>4. /\ Persisted'
      /\ DOMAIN rows' = IF s.op = "delete" THEN D \ {s.id} ELSE D
  BY StatementKeepsTable
<1> HIDE DEF s
<1>5. D # {} => \E i \in DOMAIN rows' : i \notin Deleted(seed.todo)
  <2>1. D # {} => \E i \in D : i \notin Deleted(seed.todo)
    BY DEF CatInv
  <2>2. QED
    BY <1>3, <1>4, <2>1
<1>6. DOMAIN rows' # {} => D # {}
  BY <1>4
<1>7. CatInv'
  <2>1. CASE seed' = Resting("idle")
    BY <1>4, <2>1, RestKeepsCatInv, StageNames
  <2>2. CASE seed' = [seed EXCEPT !.todo = Tail(@)]
    <3>1. seed'.todo = Tail(seed.todo) /\ seed' \in [stage : Stages, todo : Seq(Statements)]
      BY <1>1, <1>3, <2>2
    <3>2. QED
      BY <1>3, <1>4, <1>5, <1>6, <3>1 DEF CatInv
  <2>3. QED
    BY <1>1, <2>1, <2>2
<1>8. QED
  BY <1>5, <1>7

(* A step that writes no row and leaves a seed of the same kind.           *)
LEMMA QuietStep ==
  ASSUME CatInv, rows' = rows, nextId' = nextId, release' \in Releases,
         seed' \in [stage : Stages, todo : Seq(Statements)],
         Deleted(seed'.todo) \subseteq Deleted(seed.todo)
  PROVE  CatInv'
<1>1. Persisted'
  BY DEF CatInv, Persisted, Releases
<1>2. QED
  BY <1>1 DEF CatInv

LEMMA RankingWritesNoRow ==
  ASSUME CatInv, SeedPhonemes
  PROVE  CatInv' /\ rows' = rows /\ seed'.stage # "loaded"
<1>1. /\ rows' = rows /\ nextId' = nextId /\ release' = release
      /\ \/ seed' = [seed EXCEPT !.stage = "rank"]
         \/ seed' = [seed EXCEPT !.stage = "refused"]
  BY Zenon DEF SeedPhonemes
<1>2. seed \in [stage : Stages, todo : Seq(Statements)] /\ release \in Releases
  BY DEF CatInv, Persisted
<1>3. "rank" \in Stages /\ "refused" \in Stages
  BY StageNames
<1>4. /\ seed' \in [stage : Stages, todo : Seq(Statements)] /\ seed'.todo = seed.todo
      /\ seed'.stage # "loaded"
  BY <1>1, <1>2, <1>3
<1>5. QED
  BY <1>1, <1>2, <1>4, QuietStep

LEMMA OccurrencesWriteNoRow ==
  ASSUME CatInv, PopulateOccurrences
  PROVE  CatInv' /\ rows' = rows /\ seed'.stage # "loaded"
<1>1. /\ rows' = rows /\ nextId' = nextId /\ release' = release
      /\ seed' = [stage |-> "occur", todo |-> AllOccurrences]
  BY DEF PopulateOccurrences
<1>2. AllOccurrences \in Clean
  BY AllOccurrencesClean DEF CatInv
<1>3. seed' \in [stage : Stages, todo : Seq(Statements)] /\ Deleted(seed'.todo) = {}
  BY <1>1, <1>2, StageNames DEF Clean
<1>4. seed'.stage # "loaded" /\ release' \in Releases
  BY <1>1 DEF CatInv, Persisted
<1>5. QED
  BY <1>1, <1>3, <1>4, QuietStep

LEMMA ClipKeepsTheKeys ==
  ASSUME CatInv, AttachWordClip
  PROVE  CatInv' /\ DOMAIN rows' = DOMAIN rows
<1>1. PICK i \in DOMAIN rows : rows' = [rows EXCEPT ![i].clip = TRUE]
  BY DEF AttachWordClip
<1>2. PICK b \in BOOLEAN : b = TRUE
  OBVIOUS
<1>3. rows' = [rows EXCEPT ![i] = [rows[i] EXCEPT !.clip = b]]
  BY <1>1, <1>2
<1>4. Table(rows, nextId) /\ nextId' = nextId /\ release' = release /\ seed' = seed
  BY DEF CatInv, Persisted, AttachWordClip
<1>5. /\ Table(rows', nextId) /\ DOMAIN rows' = DOMAIN rows
      /\ \A j \in DOMAIN rows : rows'[j].order = rows[j].order
  BY <1>3, <1>4, ClippedTable, ZenonT(30)
<1>6. Persisted'
  BY <1>4, <1>5 DEF CatInv, Persisted, Releases
<1>7. CatInv'
  BY <1>4, <1>5, <1>6 DEF CatInv
<1>8. QED
  BY <1>5, <1>7

(* The next release, a script that is stopped, and the verdict on a seed.  *)
LEMMA RestingWritesNoRow ==
  ASSUME CatInv, NEW s \in Stages, s # "loaded", seed' = Resting(s),
         rows' = rows, nextId' = nextId, release' \in Releases
  PROVE  CatInv' /\ seed'.stage # "loaded"
<1>1. Persisted'
  BY DEF CatInv, Persisted, Releases
<1>2. CatInv'
  BY <1>1, RestKeepsCatInv
<1>3. QED
  BY <1>2 DEF Resting

LEMMA CatalogueSteps ==
  ASSUME CatInv, [CatalogueNext]_catVars
  PROVE  CatInv' /\ (DOMAIN rows # {} => DOMAIN rows' # {})
<1>0. release \in Releases
  BY DEF CatInv, Persisted
<1>1. CASE SeedWordsScript
  <2>1. PICK e \in Entries : LoadEntry(e)
    BY <1>1 DEF SeedWordsScript
  <2>2. QED
    BY <2>1, LoadLeavesTheEntry
<1>2. CASE ReconcilePronunciations
  <2>1. rows' = rows
    BY <1>2 DEF ReconcilePronunciations
  <2>2. QED
    BY <1>2, <2>1, ReconcileSparesARow
<1>3. CASE RunStatement
  BY <1>3, StatementSparesARow
<1>4. CASE SeedPhonemes
  BY <1>4, RankingWritesNoRow
<1>5. CASE PopulateOccurrences
  BY <1>5, OccurrencesWriteNoRow
<1>6. CASE ValidateSeed
  <2>1. PICK s \in {"valid", "invalid"} : seed' = Resting(s)
    BY <1>6 DEF ValidateSeed
  <2>2. rows' = rows /\ nextId' = nextId /\ release' = release /\ s \in Stages /\ s # "loaded"
    BY <1>6, StageNames DEF ValidateSeed
  <2>3. QED
    BY <1>0, <2>1, <2>2, RestingWritesNoRow
<1>7. CASE StopSeed
  <2>1. /\ seed' = Resting("idle") /\ "idle" \in Stages
        /\ rows' = rows /\ nextId' = nextId /\ release' = release
    BY <1>7, StageNames DEF StopSeed
  <2>2. QED
    BY <1>0, <2>1, RestingWritesNoRow
<1>8. CASE AttachWordClip
  BY <1>8, ClipKeepsTheKeys
<1>9. CASE NextRelease
  <2>1. /\ seed' = Resting("idle") /\ "idle" \in Stages
        /\ rows' = rows /\ nextId' = nextId /\ release' \in Releases
    BY <1>9, StageNames DEF NextRelease
  <2>2. QED
    BY <2>1, RestingWritesNoRow
<1>10. CASE UNCHANGED catVars
  <2>1. rows' = rows /\ nextId' = nextId /\ release' = release /\ seed' = seed
    BY <1>10 DEF catVars
  <2>2. QED
    BY <1>0, <2>1, QuietStep DEF CatInv
<1>11. \/ SeedWordsScript \/ SeedPhonemesScript \/ StopSeed
       \/ AttachWordClip \/ NextRelease \/ UNCHANGED catVars
  BY Zenon DEF CatalogueNext
<1>12. CASE SeedPhonemesScript
  BY <1>2, <1>3, <1>4, <1>5, <1>6, <1>12, Zenon DEF SeedPhonemesScript
<1>13. QED
  BY <1>1, <1>7, <1>8, <1>9, <1>10, <1>11, <1>12, Zenon

(* The domain of the rows tells whether the word has one.                  *)
LEMMA SomeRow ==
  ASSUME Persisted
  PROVE  rows # << >> <=> DOMAIN rows # {}
<1>1. rows \in [DOMAIN rows -> Row]
  BY DEF Persisted, Table
<1>2. DOMAIN rows = {} => rows = << >>
  BY <1>1
<1>3. DOMAIN rows # {} => rows # << >>
  OBVIOUS
<1>4. QED
  BY <1>2, <1>3

(* loadEntry: whatever rows the word had, a load that commits leaves the   *)
(* forms of the entry and nothing else, in its order and with its first    *)
(* form primary, and a row whose form the entry names keeps its id and its *)
(* clip.                                                                   *)
THEOREM LoadsAreAsGiven == CatalogueSpec => LoadedAsGiven
<1>1. CatInv /\ [CatalogueNext]_catVars => CatInv'
  BY CatalogueSteps
<1>2. ASSUME CatInv, NEW e \in Entries, seed'.stage = "loaded", LoadEntry(e)
      PROVE  IsLoaded(rows, e, rows')
  BY <1>2, LoadLeavesTheEntry
<1>3. CatInv /\ [CatalogueNext]_catVars =>
        [\A e \in Entries : seed'.stage = "loaded" /\ LoadEntry(e) =>
             /\ {rows'[i].form : i \in DOMAIN rows'} = ToSet(e)
             /\ \A i \in DOMAIN rows' :
                  /\ rows'[i].form = e[rows'[i].order + 1]
                  /\ rows'[i].primary <=> rows'[i].order = 0
             /\ \A i \in DOMAIN rows : rows[i].form \in ToSet(e) =>
                  /\ i \in DOMAIN rows'
                  /\ rows'[i].form = rows[i].form /\ rows'[i].clip = rows[i].clip]_catVars
  BY <1>2, Zenon DEF IsLoaded
<1>4. QED
  BY <1>1, <1>3, CatalogueStarts, PTL DEF CatalogueSpec, LoadedAsGiven

(* The word keeps a reading: neither a load nor any one statement of a     *)
(* reconciliation, wherever it is stopped, takes the last row it has.      *)
THEOREM WordsKeepAReading == CatalogueSpec => WordKeepsAReading
<1>1. CatInv /\ [CatalogueNext]_catVars =>
        CatInv' /\ [rows # << >> => rows' # << >>]_catVars
  <2> SUFFICES ASSUME CatInv, [CatalogueNext]_catVars
               PROVE  CatInv' /\ [rows # << >> => rows' # << >>]_catVars
    OBVIOUS
  <2>1. CatInv' /\ (DOMAIN rows # {} => DOMAIN rows' # {})
    BY CatalogueSteps
  <2>2. rows # << >> => DOMAIN rows # {}
    BY SomeRow DEF CatInv
  <2>3. DOMAIN rows' # {} => rows' # << >>
    OBVIOUS
  <2>4. QED
    BY <2>1, <2>2, <2>3
<1>2. QED
  BY <1>1, CatalogueStarts, PTL DEF CatalogueSpec, WordKeepsAReading

(* The ranks.  A statement that meets no other unit's rank is accepted.    *)
RankWorks == [ranks : [Units -> Int], ok : BOOLEAN]

LEMMA RankSetType ==
  ASSUME NEW t \in RankWorks, NEW u \in Units, NEW n \in Int
  PROVE  RankSet(t, u, n) \in RankWorks
<1>1. PICK b \in BOOLEAN : b = FALSE
  OBVIOUS
<1>2. [t EXCEPT !.ok = b] \in RankWorks
  BY DEF RankWorks
<1>3. [t EXCEPT !.ranks[u] = n] \in RankWorks
  BY DEF RankWorks
<1>4. RankSet(t, u, n) = [t EXCEPT !.ok = b] \/ RankSet(t, u, n) = [t EXCEPT !.ranks[u] = n]
  BY <1>1 DEF RankSet
<1>5. QED
  BY <1>2, <1>3, <1>4

LEMMA RankSetAccepts ==
  ASSUME NEW t \in RankWorks, t.ok, NEW u \in Units, NEW n \in Int,
         \A v \in Units \ {u} : t.ranks[v] # n
  PROVE  /\ RankSet(t, u, n).ok
         /\ \A v \in Units : RankSet(t, u, n).ranks[v] = IF v = u THEN n ELSE t.ranks[v]
<1>1. RankSet(t, u, n) = [t EXCEPT !.ranks[u] = n]
  BY DEF RankSet
<1>2. [t EXCEPT !.ranks[u] = n].ok = t.ok
  BY DEF RankWorks
<1>3. \A v \in Units : [t EXCEPT !.ranks[u] = n].ranks[v] = IF v = u THEN n ELSE t.ranks[v]
  BY DEF RankWorks
<1>4. QED
  BY <1>1, <1>2, <1>3

ListedUnits == ToSet(Inventory[release])

(* The units of S have been given their rank and no other unit has.        *)
Assigned(t, rank, S, q) ==
  /\ q \in RankWorks /\ q.ok
  /\ \A u \in Units : q.ranks[u] = IF u \in S THEN rank[u] ELSE t.ranks[u]

LEMMA AssignOneMore ==
  ASSUME NEW t \in RankWorks, NEW rank \in [ListedUnits -> Int],
         \A u, v \in ListedUnits : u # v => rank[u] # rank[v],
         \A u \in ListedUnits, v \in Units : rank[u] # t.ranks[v],
         NEW S \in SUBSET ListedUnits, NEW x \in ListedUnits, x \in Units,
         NEW q, Assigned(t, rank, S, q)
  PROVE  Assigned(t, rank, S \cup {x}, RankSet(q, x, rank[x]))
<1>1. \A v \in Units \ {x} : q.ranks[v] # rank[x]
  BY DEF Assigned
<1>2. q \in RankWorks /\ q.ok /\ rank[x] \in Int
  BY DEF Assigned
<1>3. RankSet(q, x, rank[x]) \in RankWorks
  BY <1>2, RankSetType
<1>4. /\ RankSet(q, x, rank[x]).ok
      /\ \A v \in Units : RankSet(q, x, rank[x]).ranks[v] = IF v = x THEN rank[x] ELSE q.ranks[v]
  BY <1>1, <1>2, RankSetAccepts
<1>5. QED
  BY <1>3, <1>4 DEF Assigned

(* Given a rank of its own for each unit that no unit has so far, the      *)
(* whole inventory is ranked as asked, and no other unit is touched.       *)
LEMMA RankingAssigns ==
  ASSUME release \in Releases, NEW t \in RankWorks, t.ok, NEW rank \in [ListedUnits -> Int],
         \A u, v \in ListedUnits : u # v => rank[u] # rank[v],
         \A u \in ListedUnits, v \in Units : rank[u] # t.ranks[v]
  PROVE  /\ Ranking(t, rank) \in RankWorks /\ Ranking(t, rank).ok
         /\ \A u \in Units : Ranking(t, rank).ranks[u] = IF u \in ListedUnits THEN rank[u] ELSE t.ranks[u]
<1> DEFINE inv == Inventory[release]
           m == Len(inv)
           step == [p \in RankWorks \X (1..m) |-> RankSet(p[1], inv[p[2]], rank[inv[p[2]]])]
           body(f) == [k \in 0..m |-> IF k = 0 THEN t ELSE RankSet(f[k - 1], inv[k], rank[inv[k]])]
           upTo == CHOOSE f : f = body(f)
<1>0. inv \in Seq(Units)
  BY CatalogueAssumption DEF Releases
<1>1. /\ m \in Nat /\ DOMAIN inv = 1..m /\ \A k \in 1..m : inv[k] \in Units /\ inv[k] \in ListedUnits
      /\ ListedUnits = {inv[k] : k \in 1..m}
  <2> HIDE DEF inv
  <2>1. m \in Nat /\ DOMAIN inv = 1..m /\ \A k \in 1..m : inv[k] \in Units
    BY <1>0
  <2>2. ListedUnits = {inv[k] : k \in DOMAIN inv}
    BY DEF ListedUnits, ToSet, inv
  <2>3. QED
    BY <2>1, <2>2
<1> HIDE DEF inv, m
<1>2. \A k \in 1..m : rank[inv[k]] \in Int
  BY <1>1
<1>3. step \in [RankWorks \X (1..m) -> RankWorks]
  BY <1>1, <1>2, RankSetType
<1>4. \A u \in RankWorks, k \in 1..m : step[<<u, k>>] = RankSet(u, inv[k], rank[inv[k]])
  OBVIOUS
<1> HIDE DEF step
<1>5. PICK f : IsRun(RankWorks, t, m, step, f)
  BY <1>1, <1>3, Recursion
<1>6. /\ f \in [0..m -> RankWorks] /\ f[0] = t
      /\ \A k \in 1..m : f[k] = step[<<f[k - 1], k>>]
  BY <1>5 DEF IsRun
<1>7. \A k \in 1..m : f[k] = RankSet(f[k - 1], inv[k], rank[inv[k]])
  <2> SUFFICES ASSUME NEW k \in 1..m PROVE f[k] = RankSet(f[k - 1], inv[k], rank[inv[k]])
    OBVIOUS
  <2>1. k - 1 \in 0..m
    BY <1>1
  <2>2. f[k - 1] \in RankWorks /\ f[k] = step[<<f[k - 1], k>>]
    BY <1>6, <2>1
  <2>3. QED
    BY <1>4, <2>2
<1>8. f = body(f)
  <2>1. \A k \in 0..m : k = 0 \/ k \in 1..m
    BY <1>1
  <2>2. \A k \in 0..m : f[k] = IF k = 0 THEN t ELSE RankSet(f[k - 1], inv[k], rank[inv[k]])
    BY <1>6, <1>7, <2>1
  <2>3. DOMAIN f = 0..m /\ f = [k \in 0..m |-> f[k]]
    BY <1>6
  <2>4. QED
    BY <2>2, <2>3
<1>9. upTo = body(upTo)
  BY <1>8
<1> HIDE DEF upTo
<1>10. \A k \in 0..m : upTo[k] = IF k = 0 THEN t ELSE RankSet(upTo[k - 1], inv[k], rank[inv[k]])
  BY <1>9
<1> DEFINE Seen(k) == {inv[j] : j \in 1..k}
           T == {k \in 0..m : Assigned(t, rank, Seen(k), upTo[k])}
<1>11. 0 \in T
  <2>1. 0 \in 0..m /\ Seen(0) = {}
    BY <1>1
  <2>2. upTo[0] = t
    BY <1>10, <2>1
  <2>3. QED
    BY <2>1, <2>2 DEF Assigned
<1>12. ASSUME NEW k \in T, k < m PROVE k + 1 \in T
  <2> DEFINE x == inv[k + 1]
  <2>0. k \in 0..m /\ Assigned(t, rank, Seen(k), upTo[k])
    OBVIOUS
  <2> HIDE DEF T
  <2>1. k + 1 \in 1..m /\ k + 1 \in 0..m /\ k + 1 # 0 /\ (k + 1) - 1 = k /\ k \in Nat
    BY <1>1, <1>12, <2>0
  <2>2. upTo[k + 1] = RankSet(upTo[k], x, rank[x])
    BY <1>10, <2>1
  <2>3. x \in Units /\ x \in ListedUnits
    BY <1>1, <2>1
  <2>4. Seen(k) \subseteq ListedUnits /\ Seen(k + 1) = Seen(k) \cup {x}
    <3>1. \A j \in 1..(k + 1) : j \in 1..k \/ j = k + 1
      BY <2>1
    <3>2. \A j \in 1..k : j \in 1..(k + 1) /\ j \in 1..m
      BY <1>1, <2>1
    <3>3. k + 1 \in 1..(k + 1)
      BY <2>1
    <3>4. QED
      BY <1>1, <3>1, <3>2, <3>3
  <2> HIDE DEF Seen, x
  <2>5. Assigned(t, rank, Seen(k) \cup {x}, RankSet(upTo[k], x, rank[x]))
    BY <2>0, <2>3, <2>4, AssignOneMore
  <2>6. QED
    BY <2>1, <2>2, <2>4, <2>5 DEF T
<1>13. T \in SUBSET (0..m)
  OBVIOUS
<1> HIDE DEF T
<1>14. T = 0..m
  BY <1>1, <1>11, <1>12, <1>13, EveryNumber
<1>15. Assigned(t, rank, Seen(m), upTo[m]) /\ Seen(m) = ListedUnits
  <2>1. m \in T
    BY <1>1, <1>14
  <2>2. QED
    BY <1>1, <2>1 DEF T
<1>16. Ranking(t, rank) = upTo[m]
  BY DEF Ranking, upTo, m, inv
<1>17. QED
  BY <1>15, <1>16 DEF Assigned

LEMMA ListedFinite ==
  ASSUME release \in Releases
  PROVE  /\ ListedUnits \in SUBSET Units /\ IsFiniteSet(ListedUnits)
         /\ Cardinality(ListedUnits) \in Nat /\ Len(Inventory[release]) \in Nat
         /\ Cardinality(ListedUnits) <= Len(Inventory[release])
<1> DEFINE inv == Inventory[release]
           m == Len(inv)
<1>1. inv \in Seq(Units)
  BY CatalogueAssumption DEF Releases
<1>2. m \in Nat /\ DOMAIN inv = 1..m /\ inv \in [1..m -> Units] /\ ListedUnits = {inv[k] : k \in 1..m}
  <2>1. ListedUnits = {inv[k] : k \in DOMAIN inv}
    BY DEF ListedUnits, ToSet
  <2> HIDE DEF inv
  <2>2. m \in Nat /\ DOMAIN inv = 1..m /\ inv \in [1..m -> Units]
    BY <1>1
  <2>3. QED
    BY <2>1, <2>2
<1> HIDE DEF inv, m
<1>3. IsFiniteSet(1..m) /\ Cardinality(1..m) = m
  <2>1. IsFiniteSet(1..m) /\ Cardinality(1..m) = IF 1 > m THEN 0 ELSE m - 1 + 1
    BY <1>2, FS_Interval
  <2>2. QED
    BY <1>2, <2>1
<1>4. inv \in Surjection(1..m, ListedUnits)
  BY <1>2 DEF Surjection
<1>5. IsFiniteSet(ListedUnits) /\ Cardinality(ListedUnits) <= Cardinality(1..m)
  BY <1>3, <1>4, FS_Surjection
<1>6. Cardinality(ListedUnits) \in Nat
  BY <1>5, FS_CardinalityType
<1>7. ListedUnits \in SUBSET Units
  BY <1>2
<1>8. QED
  BY <1>2, <1>3, <1>5, <1>6, <1>7 DEF m, inv

LEMMA OrderOfListed ==
  ASSUME release \in Releases, NEW u \in ListedUnits
  PROVE  OrderOf(u) \in 1..Len(Inventory[release]) /\ Inventory[release][OrderOf(u)] = u
<1> DEFINE inv == Inventory[release]
<1>1. inv \in Seq(Units)
  BY CatalogueAssumption DEF Releases
<1>2. \E k \in DOMAIN inv : inv[k] = u
  BY DEF ListedUnits, ToSet
<1>3. OrderOf(u) = CHOOSE k \in DOMAIN inv : inv[k] = u
  BY DEF OrderOf
<1> HIDE DEF inv
<1>4. OrderOf(u) \in DOMAIN inv /\ inv[OrderOf(u)] = u
  BY <1>2, <1>3
<1>5. DOMAIN inv = 1..Len(inv)
  BY <1>1
<1>6. QED
  BY <1>4, <1>5 DEF inv

(* deriveFrequencyRanks: ranks 1..N that follow the counts, none twice.    *)
LEMMA RankedFacts ==
  ASSUME release \in Releases, NEW counts \in [ListedUnits -> Nat]
  PROVE  /\ Ranked(counts) \in [ListedUnits -> 1..Cardinality(ListedUnits)]
         /\ \A u, v \in ListedUnits : u # v => Ranked(counts)[u] # Ranked(counts)[v]
         /\ \A u, v \in ListedUnits : counts[u] > counts[v] => Ranked(counts)[u] < Ranked(counts)[v]
<1> DEFINE n == Cardinality(ListedUnits)
           before(u) == {v \in ListedUnits : Ahead(counts, v, u)}
<1>1. IsFiniteSet(ListedUnits) /\ n \in Nat
  BY ListedFinite
<1>2. \A u \in ListedUnits : Ranked(counts)[u] = Cardinality(before(u)) + 1
  BY DEF Ranked, ListedUnits
<1>3. \A u \in ListedUnits : counts[u] \in Nat /\ OrderOf(u) \in Nat
  <2> SUFFICES ASSUME NEW u \in ListedUnits PROVE OrderOf(u) \in Nat
    OBVIOUS
  <2>1. PICK l \in Nat : l = Len(Inventory[release])
    BY ListedFinite
  <2>2. QED
    BY <2>1, OrderOfListed
<1>4. \A u, v \in ListedUnits : u # v => OrderOf(u) # OrderOf(v)
  BY OrderOfListed
<1>5. \A u, v \in ListedUnits : u # v => Ahead(counts, u, v) \/ Ahead(counts, v, u)
  BY <1>3, <1>4 DEF Ahead
<1>6. \A u \in ListedUnits : ~Ahead(counts, u, u)
  BY <1>3 DEF Ahead
<1>7. \A u, v, w \in ListedUnits : Ahead(counts, u, v) /\ Ahead(counts, v, w) => Ahead(counts, u, w)
  BY <1>3 DEF Ahead
<1>8. ASSUME NEW u \in ListedUnits
      PROVE  IsFiniteSet(before(u)) /\ Cardinality(before(u)) \in Nat
  <2>1. before(u) \in SUBSET ListedUnits
    OBVIOUS
  <2> HIDE DEF before
  <2>2. IsFiniteSet(before(u))
    BY <1>1, <2>1, FS_Subset
  <2>3. QED
    BY <2>2, FS_CardinalityType
<1>9. ASSUME NEW u \in ListedUnits, NEW S, IsFiniteSet(S), before(u) \cup {u} \subseteq S
      PROVE  Cardinality(before(u)) + 1 <= Cardinality(S)
  <2>1. u \notin before(u)
    BY <1>6
  <2> HIDE DEF before
  <2>2. Cardinality(before(u) \cup {u}) = Cardinality(before(u)) + 1
    BY <1>8, <2>1, FS_AddElement
  <2>3. before(u) \cup {u} \in SUBSET S
    BY <1>9
  <2>4. Cardinality(before(u) \cup {u}) <= Cardinality(S)
    BY <1>9, <2>3, FS_Subset
  <2>5. QED
    BY <2>2, <2>4
<1>10. ASSUME NEW u \in ListedUnits, NEW v \in ListedUnits, Ahead(counts, u, v)
       PROVE  Ranked(counts)[u] < Ranked(counts)[v]
  <2>1. before(u) \cup {u} \subseteq before(v)
    BY <1>7, <1>10
  <2> HIDE DEF before
  <2>2. Cardinality(before(u)) + 1 <= Cardinality(before(v))
    BY <1>8, <1>9, <2>1
  <2>3. QED
    BY <1>2, <1>8, <2>2
<1>11. ASSUME NEW u \in ListedUnits PROVE Ranked(counts)[u] \in 1..n
  <2>1. before(u) \cup {u} \subseteq ListedUnits
    OBVIOUS
  <2> HIDE DEF before
  <2>2. Cardinality(before(u)) + 1 <= n
    BY <1>1, <1>9, <2>1
  <2>3. QED
    BY <1>1, <1>2, <1>8, <2>2
<1>12. Ranked(counts) \in [ListedUnits -> 1..n]
  <2>1. DOMAIN Ranked(counts) = ListedUnits /\ Ranked(counts) = [u \in ListedUnits |-> Ranked(counts)[u]]
    BY DEF Ranked, ListedUnits
  <2>2. QED
    BY <1>11, <2>1
<1> HIDE DEF before, n
<1>13. \A u, v \in ListedUnits : u # v => Ranked(counts)[u] # Ranked(counts)[v]
  <2> SUFFICES ASSUME NEW u \in ListedUnits, NEW v \in ListedUnits, u # v
               PROVE  Ranked(counts)[u] # Ranked(counts)[v]
    OBVIOUS
  <2>1. Ranked(counts)[u] < Ranked(counts)[v] \/ Ranked(counts)[v] < Ranked(counts)[u]
    BY <1>5, <1>10
  <2>2. Ranked(counts)[u] \in Int /\ Ranked(counts)[v] \in Int
    BY <1>1, <1>11 DEF n
  <2>3. QED
    BY <2>1, <2>2
<1>14. \A u, v \in ListedUnits : counts[u] > counts[v] => Ahead(counts, u, v)
  BY DEF Ahead
<1>15. QED
  BY <1>10, <1>12, <1>13, <1>14 DEF n

UnitsOfRow(i) == UnitsOf[release][CanonicalOf(rows[i].form)]

LEMMA CountsAreNumbers ==
  ASSUME Persisted, NEW u
  PROVE  CountOf(u) \in Nat
<1> DEFINE read == {i \in DOMAIN rows : Tokenises(rows[i].form)}
           places(i) == {<<i, k>> : k \in {k \in DOMAIN UnitsOfRow(i) : UnitsOfRow(i)[k] = u}}
           S == {places(i) : i \in read}
           f == [i \in read |-> places(i)]
<1>1. IsFiniteSet(read)
  <2>1. IsFiniteSet(DOMAIN rows)
    BY TableFinite DEF Persisted
  <2>2. read \in SUBSET (DOMAIN rows)
    OBVIOUS
  <2> HIDE DEF read
  <2>3. QED
    BY <2>1, <2>2, FS_Subset
<1>2. ASSUME NEW i \in read PROVE IsFiniteSet(places(i))
  <2>1. UnitsOfRow(i) \in Seq(Units)
    BY CanonicalIsForm DEF UnitsOfRow
  <2> HIDE DEF read
  <2>2. PICK us \in Seq(Units) : us = UnitsOfRow(i)
    BY <2>1
  <2>3. Len(us) \in Nat /\ DOMAIN us = 1..Len(us)
    BY <2>2
  <2>4. PICK l \in Nat : DOMAIN us = 1..l
    BY <2>3, Zenon
  <2>5. IsFiniteSet(1..l) /\ IsFiniteSet({i})
    <3>1. IsFiniteSet(1..l)
      BY FS_Interval
    <3>2. IsFiniteSet({i})
      BY FS_Singleton
    <3>3. QED
      BY <3>1, <3>2
  <2>6. IsFiniteSet({i} \X (1..l))
    BY <2>5, FS_Product
  <2>7. places(i) \in SUBSET ({i} \X (1..l))
    BY <2>2, <2>4
  <2> HIDE DEF places
  <2>8. QED
    BY <2>6, <2>7, FS_Subset
<1>3. f \in Surjection(read, S)
  BY DEF Surjection
<1>4. CountOf(u) = Cardinality(UNION S)
  BY DEF CountOf, UnitsOfRow
<1>5. \A T \in S : IsFiniteSet(T)
  BY <1>2
<1> HIDE DEF f, S, read, places
<1>6. IsFiniteSet(S)
  BY <1>1, <1>3, FS_Surjection
<1>7. IsFiniteSet(UNION S)
  BY <1>5, <1>6, FS_UNION
<1>8. QED
  BY <1>4, <1>7, FS_CardinalityType

(* Outside a transaction every unit of the inventory has a rank within it, *)
(* or none yet, and no other unit has one.                                 *)
RanksListed ==
  /\ ranks \in [Units -> Nat]
  /\ \A u \in Units : ranks[u] <= Cardinality(ListedUnits) /\ (u \notin ListedUnits => ranks[u] = 0)

RanksFollow ==
  /\ \A u \in ListedUnits : ranks[u] # 0
  /\ \A u, v \in ListedUnits : CountOf(u) > CountOf(v) => ranks[u] < ranks[v]

(* The park, the upserts and the ranks never meet UNIQUE (variant_id,      *)
(* frequency_rank), whatever ranks the units had.                          *)
LEMMA RankingSucceeds ==
  ASSUME Persisted, RanksListed, SeedPhonemes
  PROVE  RanksListed' /\ RanksFollow' /\ seed' = [seed EXCEPT !.stage = "rank"]
<1> DEFINE N == Len(Inventory[release])
           n == Cardinality(ListedUnits)
           parked == [ranks |-> ParkedRanks, ok |-> TRUE]
           counts == [u \in ListedUnits |-> CountOf(u)]
           rank == Ranked(counts)
           upserted == Ranking(parked, Vacated)
           ranked == Ranking(upserted, rank)
<1>0. release \in Releases
  BY DEF Persisted
<1>1. n \in Nat /\ N \in Nat /\ n <= N /\ ListedUnits \in SUBSET Units
  BY <1>0, ListedFinite
<1>2. /\ ParkedRanks \in [Units -> Int]
      /\ \A u \in Units : -n <= ParkedRanks[u] /\ ParkedRanks[u] <= 0
      /\ \A u \in Units \ ListedUnits : ParkedRanks[u] = 0
  BY <1>1 DEF ParkedRanks, RanksListed
<1>3. /\ Vacated \in [ListedUnits -> Int]
      /\ \A u \in ListedUnits : Vacated[u] = -(OrderOf(u) + N) /\ OrderOf(u) \in 1..N
  <2>1. \A u \in ListedUnits : OrderOf(u) \in 1..N
    BY <1>0, OrderOfListed
  <2>2. Vacated = [u \in ListedUnits |-> -(OrderOf(u) + N)]
    BY DEF Vacated, ListedUnits
  <2> HIDE DEF N
  <2>3. QED
    BY <1>1, <2>1, <2>2
<1>4. counts \in [ListedUnits -> Nat]
  BY CountsAreNumbers
<1> HIDE DEF counts
<1>5. /\ rank \in [ListedUnits -> 1..n]
      /\ \A u, v \in ListedUnits : u # v => rank[u] # rank[v]
      /\ \A u, v \in ListedUnits : counts[u] > counts[v] => rank[u] < rank[v]
  BY <1>0, <1>4, RankedFacts
<1> HIDE DEF rank, N, n
<1>6. parked \in RankWorks /\ parked.ok /\ parked.ranks = ParkedRanks
  <2>1. PICK b \in BOOLEAN : b = TRUE
    OBVIOUS
  <2>2. parked = [ranks |-> ParkedRanks, ok |-> b]
    BY <2>1
  <2>3. QED
    BY <1>2, <2>1, <2>2 DEF RankWorks
<1> HIDE DEF parked
<1>7. /\ upserted \in RankWorks /\ upserted.ok
      /\ \A u \in Units : upserted.ranks[u] = IF u \in ListedUnits THEN Vacated[u] ELSE parked.ranks[u]
  <2>1. \A u, v \in ListedUnits : u # v => Vacated[u] # Vacated[v]
    <3> SUFFICES ASSUME NEW u \in ListedUnits, NEW v \in ListedUnits, u # v PROVE Vacated[u] # Vacated[v]
      OBVIOUS
    <3>1. OrderOf(u) # OrderOf(v)
      BY <1>0, OrderOfListed
    <3>2. QED
      BY <1>1, <1>3, <3>1
  <2>2. \A u \in ListedUnits, v \in Units : Vacated[u] # parked.ranks[v]
    BY <1>1, <1>2, <1>3, <1>6
  <2>3. QED
    BY <1>0, <1>3, <1>6, <2>1, <2>2, RankingAssigns
<1>8. /\ ranked \in RankWorks /\ ranked.ok
      /\ \A u \in Units : ranked.ranks[u] = IF u \in ListedUnits THEN rank[u] ELSE upserted.ranks[u]
  <2> HIDE DEF upserted
  <2>1. rank \in [ListedUnits -> Int]
    BY <1>1, <1>5
  <2>2. ASSUME NEW u \in ListedUnits, NEW v \in Units PROVE rank[u] # upserted.ranks[v]
    <3>1. upserted.ranks[v] <= 0 /\ upserted.ranks[v] \in Int
      <4>1. CASE v \in ListedUnits
        BY <1>1, <1>3, <1>7, <4>1
      <4>2. CASE v \notin ListedUnits
        BY <1>2, <1>6, <1>7, <4>2
      <4>3. QED
        BY <4>1, <4>2
    <3>2. rank[u] \in Int /\ rank[u] >= 1
      BY <1>1, <1>5
    <3>3. QED
      BY <3>1, <3>2
  <2>3. QED
    BY <1>0, <1>5, <1>7, <2>1, <2>2, RankingAssigns
<1>9. ranks' = ranked.ranks /\ seed' = [seed EXCEPT !.stage = "rank"] /\ release' = release /\ rows' = rows
  <2>1. /\ IF ranked.ok
             THEN ranks' = ranked.ranks /\ seed' = [seed EXCEPT !.stage = "rank"]
             ELSE ranks' = ranks /\ seed' = [seed EXCEPT !.stage = "refused"]
        /\ release' = release /\ rows' = rows
    BY Zenon DEF SeedPhonemes, ranked, upserted, rank, counts, parked, ListedUnits
  <2> HIDE DEF ranked
  <2>2. QED
    BY <1>8, <2>1
<1> HIDE DEF ranked, upserted
<1>10. \A u \in Units : ranks'[u] = IF u \in ListedUnits THEN rank[u] ELSE 0
  BY <1>2, <1>6, <1>7, <1>8, <1>9
<1>11. ranks' \in [Units -> Int] /\ ListedUnits' = ListedUnits /\ Cardinality(ListedUnits) = n
  BY <1>8, <1>9 DEF RankWorks, ListedUnits, n
<1>12. RanksListed'
  <2>1. \A u \in Units : ranks'[u] \in Nat /\ ranks'[u] <= n /\ (u \notin ListedUnits => ranks'[u] = 0)
    BY <1>1, <1>5, <1>10
  <2>2. ranks' \in [Units -> Nat]
    BY <1>11, <2>1
  <2>3. QED
    BY <1>11, <2>1, <2>2 DEF RanksListed
<1>13. ASSUME NEW u \in ListedUnits PROVE CountOf(u)' = counts[u]
  <2>1. CountOf(u)' = CountOf(u)
    BY <1>9 DEF CountOf, CanonicalOf, Tokenises
  <2>2. QED
    BY <2>1 DEF counts
<1>14. RanksFollow'
  <2>1. \A u \in ListedUnits : ranks'[u] # 0
    BY <1>1, <1>5, <1>10
  <2>2. ASSUME NEW u \in ListedUnits, NEW v \in ListedUnits, CountOf(u)' > CountOf(v)'
        PROVE  ranks'[u] < ranks'[v]
    <3>1. rank[u] < rank[v]
      BY <1>5, <1>13, <2>2
    <3>2. QED
      BY <1>1, <1>10, <3>1
  <2>3. QED
    BY <1>11, <2>1, <2>2 DEF RanksFollow
<1>15. QED
  BY <1>9, <1>12, <1>14

(* The statements of a script, as a set.                                   *)
LEMMA StatementsOfConcat ==
  ASSUME NEW a \in Seq(Statements), NEW b \in Seq(Statements)
  PROVE  a \o b \in Seq(Statements) /\ ToSet(a \o b) = ToSet(a) \cup ToSet(b)
<1> DEFINE q == a \o b
<1>1. /\ q \in Seq(Statements) /\ Len(a) \in Nat /\ Len(b) \in Nat
      /\ DOMAIN a = 1..Len(a) /\ DOMAIN b = 1..Len(b) /\ DOMAIN q = 1..(Len(a) + Len(b))
      /\ \A n \in 1..Len(a) : q[n] = a[n]
      /\ \A n \in 1..Len(b) : q[Len(a) + n] = b[n]
  OBVIOUS
<1> HIDE DEF q
<1>2. \A n \in DOMAIN q : \/ n \in 1..Len(a) /\ q[n] = a[n]
                          \/ n - Len(a) \in 1..Len(b) /\ q[n] = b[n - Len(a)]
  <2> SUFFICES ASSUME NEW n \in DOMAIN q, n \notin 1..Len(a)
               PROVE  n - Len(a) \in 1..Len(b) /\ q[n] = b[n - Len(a)]
    BY <1>1
  <2>1. n - Len(a) \in 1..Len(b) /\ Len(a) + (n - Len(a)) = n
    BY <1>1
  <2>2. QED
    BY <1>1, <2>1
<1>3. ASSUME NEW x \in ToSet(q) PROVE x \in ToSet(a) \cup ToSet(b)
  BY <1>1, <1>2 DEF ToSet
<1>4. ASSUME NEW x \in ToSet(a) PROVE x \in ToSet(q)
  <2>1. \A n \in DOMAIN a : n \in DOMAIN q /\ q[n] = a[n]
    BY <1>1
  <2>2. QED
    BY <2>1 DEF ToSet
<1>5. ASSUME NEW x \in ToSet(b) PROVE x \in ToSet(q)
  <2>1. \A n \in DOMAIN b : Len(a) + n \in DOMAIN q /\ q[Len(a) + n] = b[n]
    BY <1>1
  <2>2. QED
    BY <2>1 DEF ToSet
<1>6. QED
  BY <1>1, <1>3, <1>4, <1>5 DEF q

LEMMA StatementsOfRest ==
  ASSUME NEW todo \in Seq(Statements), todo # << >>
  PROVE  /\ Head(todo) \in ToSet(todo) /\ ToSet(Tail(todo)) \subseteq ToSet(todo)
         /\ \A s \in ToSet(todo) : s = Head(todo) \/ s \in ToSet(Tail(todo))
<1>1. /\ Len(todo) \in Nat /\ Len(todo) >= 1 /\ DOMAIN todo = 1..Len(todo) /\ Head(todo) = todo[1]
  OBVIOUS
<1>2. /\ DOMAIN Tail(todo) = 1..(Len(todo) - 1)
      /\ \A n \in 1..(Len(todo) - 1) : Tail(todo)[n] = todo[n + 1]
  OBVIOUS
<1>3. \A n \in DOMAIN Tail(todo) : n + 1 \in DOMAIN todo /\ Tail(todo)[n] = todo[n + 1]
  BY <1>1, <1>2
<1>4. \A n \in DOMAIN todo : n = 1 \/ (n - 1 \in DOMAIN Tail(todo) /\ Tail(todo)[n - 1] = todo[n])
  BY <1>1, <1>2
<1>5. 1 \in DOMAIN todo
  BY <1>1
<1>6. Head(todo) \in ToSet(todo)
  BY <1>1, <1>5, Zenon DEF ToSet
<1>7. ToSet(Tail(todo)) \subseteq ToSet(todo)
  BY <1>3, Zenon DEF ToSet
<1>8. \A s \in ToSet(todo) : s = Head(todo) \/ s \in ToSet(Tail(todo))
  BY <1>1, <1>4, Zenon DEF ToSet
<1>9. QED
  BY <1>6, <1>7, <1>8

LEMMA StatementsOfOne ==
  ASSUME NEW s \in Statements
  PROVE  <<s>> \in Seq(Statements) /\ ToSet(<<s>>) = {s}
BY DEF ToSet

LEMMA StatementsOfNone == << >> \in Seq(Statements) /\ ToSet(<< >>) = {}
BY DEF ToSet

LEMMA DeletingStatements ==
  ASSUME NEW i \in Nat
  PROVE  /\ Deleting(i) \in Seq(Statements)
         /\ \A s \in ToSet(Deleting(i)) : s.op # "rename"
         /\ \E s \in ToSet(Deleting(i)) : s.id = i /\ s.op = "delete"
<1> DEFINE a == Statement("clear", i, 0)
           b == Statement("delete", i, 0)
<1>1. IsStatement(a, "clear", i) /\ IsStatement(b, "delete", i)
  BY BareStatement
<1> HIDE DEF a, b
<1>2. a \in Statements /\ a.op # "rename" /\ b \in Statements /\ b.op = "delete" /\ b.id = i
  BY <1>1 DEF IsStatement
<1>3. <<a, b>> \in Seq(Statements) /\ ToSet(<<a, b>>) = {a, b}
  BY <1>2 DEF ToSet
<1>4. Deleting(i) = <<a, b>>
  BY DEF Deleting, a, b
<1>5. QED
  BY <1>2, <1>3, <1>4

(* The reconciliation ends a row when it deletes it or renames it to its   *)
(* canonical form.                                                         *)
Settled(f) == Tokenises(f) => CanonicalOf(f) = f
Ends(todo, i) == \E s \in ToSet(todo) : s.id = i /\ s.op \in {"delete", "rename"}
Straight(todo) == \A s \in ToSet(todo) : s.op = "rename" => CanonicalOf(s.arg) = s.arg

Settling(t) == Straight(t.todo) /\ \A j \in t.consumed : Ends(t.todo, j)

LEMMA CanonicalIsCanonical ==
  ASSUME Persisted, NEW i \in DOMAIN rows, Tokenises(rows[i].form)
  PROVE  CanonicalOf(CanonicalOf(rows[i].form)) = CanonicalOf(rows[i].form)
<1>1. rows[i].form \in Forms
  BY DEF Persisted, Table, Row
<1>2. QED
  BY <1>1, CatalogueAssumption DEF Persisted, Releases, Tokenises, CanonicalOf

LEMMA EndsStay ==
  ASSUME NEW a \in Seq(Statements), NEW b \in Seq(Statements), NEW i
  PROVE  Ends(a, i) \/ Ends(b, i) <=> Ends(a \o b, i)
<1>1. ToSet(a \o b) = ToSet(a) \cup ToSet(b)
  BY StatementsOfConcat
<1>2. QED
  BY <1>1 DEF Ends

LEMMA StraightStays ==
  ASSUME NEW a \in Seq(Statements), NEW b \in Seq(Statements), Straight(a), Straight(b)
  PROVE  Straight(a \o b)
<1>1. ToSet(a \o b) = ToSet(a) \cup ToSet(b)
  BY StatementsOfConcat
<1>2. QED
  BY <1>1 DEF Straight

(* What the decision on row i makes of the statements.                     *)
Settles(t, u, i) ==
  /\ Settling(u)
  /\ \A j : Ends(t.todo, j) => Ends(u.todo, j)
  /\ Settled(rows[i].form) \/ Ends(u.todo, i)

LEMMA DecidedSettles ==
  ASSUME Persisted, NEW t \in Deciding, Settling(t), NEW i \in DOMAIN rows
  PROVE  Settles(t, Decided(t, i), i)
<1> DEFINE canonical == CanonicalOf(rows[i].form)
           siblings == {j \in DOMAIN rows \ {i} :
                          j \notin t.consumed /\ CanonicalOf(rows[j].form) = canonical}
           first == CHOOSE s \in siblings : \A j \in siblings : rows[s].order <= rows[j].order
           rename == Statement("rename", i, canonical)
           promote == IF rows[first].primary /\ ~rows[i].primary
                        THEN <<Statement("promote", i, 0)>> ELSE << >>
<1>0. /\ t.consumed \in SUBSET (DOMAIN rows) /\ t.todo \in Seq(Statements)
      /\ t = [consumed |-> t.consumed, todo |-> t.todo]
      /\ DOMAIN rows \subseteq Nat /\ i \in Nat
      /\ Straight(t.todo) /\ \A j \in t.consumed : Ends(t.todo, j)
  <2>1. DOMAIN rows \subseteq Nat
    BY DEF Persisted, Table
  <2>2. QED
    BY <2>1 DEF Deciding, Settling
<1>1. Decided(t, i) =
        IF i \in t.consumed \/ canonical = rows[i].form THEN t
        ELSE IF canonical = Rejected THEN [t EXCEPT !.todo = @ \o Deleting(i)]
        ELSE IF siblings = {} THEN [t EXCEPT !.todo = @ \o <<rename>>]
        ELSE [consumed |-> t.consumed \cup {first},
              todo |-> t.todo \o Deleting(first) \o <<rename>> \o promote]
  BY DEF Decided
<1>2. siblings # {} => first \in DOMAIN rows
  <2>1. siblings \in SUBSET (DOMAIN rows)
    OBVIOUS
  <2> HIDE DEF siblings
  <2>2. QED
    BY <2>1, FirstOfSome
<1>3. canonical # Rejected =>
        <<rename>> \in Seq(Statements) /\ Straight(<<rename>>) /\ Ends(<<rename>>, i)
  <2> SUFFICES ASSUME canonical # Rejected
               PROVE  <<rename>> \in Seq(Statements) /\ Straight(<<rename>>) /\ Ends(<<rename>>, i)
    OBVIOUS
  <2>1. Tokenises(rows[i].form)
    BY DEF Tokenises
  <2>2. canonical \in Forms /\ CanonicalOf(canonical) = canonical
    BY <2>1, CanonicalIsForm, CanonicalIsCanonical
  <2>3. "rename" \in Ops /\ canonical \in Forms \cup {0} \cup (Nat \X Units)
    BY <2>2 DEF Ops
  <2>4. rename.arg = canonical
    BY DEF Statement
  <2> HIDE DEF canonical
  <2>5. IsStatement(rename, "rename", i)
    BY <1>0, <2>2, <2>3, StatementIn
  <2> HIDE DEF rename
  <2>6. rename \in Statements /\ rename.op = "rename" /\ rename.id = i
    BY <2>5 DEF IsStatement
  <2>7. <<rename>> \in Seq(Statements) /\ ToSet(<<rename>>) = {rename}
    BY <2>6, StatementsOfOne
  <2>8. QED
    BY <2>2, <2>4, <2>6, <2>7 DEF Straight, Ends
<1>4. promote \in Seq(Statements) /\ Straight(promote)
  <2> DEFINE p == Statement("promote", i, 0)
  <2>1. IsStatement(p, "promote", i)
    BY <1>0, BareStatement
  <2> HIDE DEF p
  <2>2. p \in Statements /\ p.op # "rename"
    BY <2>1 DEF IsStatement
  <2>3. <<p>> \in Seq(Statements) /\ ToSet(<<p>>) = {p}
    BY <2>2, StatementsOfOne
  <2>4. promote = <<p>> \/ promote = << >>
    BY DEF p
  <2>5. QED
    BY <2>2, <2>3, <2>4, StatementsOfNone DEF Straight
<1>5. \A k \in Nat : /\ Deleting(k) \in Seq(Statements) /\ Straight(Deleting(k))
                     /\ Ends(Deleting(k), k)
  BY DeletingStatements DEF Straight, Ends
<1>6. canonical = rows[i].form \/ canonical = Rejected => Settled(rows[i].form)
  BY DEF Settled, Tokenises
<1> HIDE DEF canonical, siblings, first, rename, promote
<1>7. CASE i \in t.consumed \/ canonical = rows[i].form
  <2>1. Decided(t, i) = t
    BY <1>1, <1>7
  <2>2. QED
    BY <1>0, <1>6, <1>7, <2>1 DEF Settles
<1>8. CASE /\ ~(i \in t.consumed \/ canonical = rows[i].form)
           /\ canonical = Rejected
  <2> DEFINE a == t.todo \o Deleting(i)
  <2>1. Decided(t, i) = [consumed |-> t.consumed, todo |-> a]
    BY <1>0, <1>1, <1>8
  <2>2. Straight(a) /\ \A j : Ends(t.todo, j) => Ends(a, j)
    BY <1>0, <1>5, StraightStays, EndsStay
  <2> HIDE DEF a
  <2>3. QED
    BY <1>0, <1>6, <1>8, <2>1, <2>2 DEF Settles, Settling
<1>9. CASE /\ ~(i \in t.consumed \/ canonical = rows[i].form)
           /\ canonical # Rejected /\ siblings = {}
  <2> DEFINE a == t.todo \o <<rename>>
  <2>1. Decided(t, i) = [consumed |-> t.consumed, todo |-> a]
    BY <1>0, <1>1, <1>9
  <2>2. Straight(a)
    BY <1>0, <1>3, <1>9, StraightStays
  <2>3. \A j : Ends(t.todo, j) \/ Ends(<<rename>>, j) => Ends(a, j)
    BY <1>0, <1>3, <1>9, EndsStay
  <2> HIDE DEF a
  <2>4. QED
    BY <1>0, <1>3, <1>9, <2>1, <2>2, <2>3 DEF Settles, Settling
<1>10. CASE /\ ~(i \in t.consumed \/ canonical = rows[i].form)
            /\ canonical # Rejected /\ siblings # {}
  <2> DEFINE a == t.todo \o Deleting(first)
             b == a \o <<rename>>
             c == b \o promote
  <2>1. Decided(t, i) = [consumed |-> t.consumed \cup {first}, todo |-> c]
    BY <1>1, <1>10
  <2>2. first \in Nat
    BY <1>0, <1>2, <1>10
  <2>3. a \in Seq(Statements) /\ Straight(a)
    BY <1>0, <1>5, <2>2, StatementsOfConcat, StraightStays
  <2>4. \A j : Ends(t.todo, j) \/ Ends(Deleting(first), j) => Ends(a, j)
    BY <1>0, <1>5, <2>2, EndsStay
  <2> HIDE DEF a
  <2>5. b \in Seq(Statements) /\ Straight(b)
    BY <1>3, <1>10, <2>3, StatementsOfConcat, StraightStays
  <2>6. \A j : Ends(a, j) \/ Ends(<<rename>>, j) => Ends(b, j)
    BY <1>3, <1>10, <2>3, EndsStay
  <2> HIDE DEF b
  <2>7. Straight(c)
    BY <1>4, <2>5, StraightStays
  <2>8. \A j : Ends(b, j) => Ends(c, j)
    BY <1>4, <2>5, EndsStay
  <2> HIDE DEF c
  <2>9. Ends(c, first) /\ Ends(c, i) /\ \A j : Ends(t.todo, j) => Ends(c, j)
    BY <1>3, <1>5, <1>10, <2>2, <2>4, <2>6, <2>8
  <2>10. QED
    BY <1>0, <2>1, <2>7, <2>9 DEF Settles, Settling
<1>11. QED
  BY <1>7, <1>8, <1>9, <1>10

(* Once its statements are run, a reconciliation leaves each row canonical *)
(* or, in a word it could not read at all, as it was.                      *)
Reconciling(todo) ==
  Straight(todo) /\ \A i \in DOMAIN rows : Settled(rows[i].form) \/ Ends(todo, i)

LEMMA BlockedIsSettled == Persisted /\ Blocked => Reconciling(<< >>)
BY StatementsOfNone DEF Blocked, Reconciling, Straight, Settled

LEMMA DecisionsSettle ==
  ASSUME Persisted, ~Blocked
  PROVE  Reconciling(Decisions)
<1>1. PICK f : IsDecisionRun(f)
  BY DecisionsRun
<1>2. PICK ids \in Seq(DOMAIN rows) : ids = InOrder(rows) /\ ToSet(ids) = DOMAIN rows
  BY InOrderIsAll DEF Persisted
<1>3. PICK m \in Nat : m = Len(ids)
  OBVIOUS
<1>4. DOMAIN ids = 1..m /\ \A k \in 1..m : ids[k] \in DOMAIN rows
  BY <1>3
<1>5. /\ f \in [0..m -> Deciding]
      /\ f[0] = [consumed |-> {}, todo |-> << >>]
      /\ \A k \in 1..m : f[k] = Decided(f[k - 1], ids[k])
      /\ Decisions = f[m].todo
  BY <1>1, <1>2, <1>3 DEF IsDecisionRun
<1> DEFINE Done(k) == /\ Settling(f[k])
                      /\ \A j \in 1..k : Settled(rows[ids[j]].form) \/ Ends(f[k].todo, ids[j])
           T == {k \in 0..m : Done(k)}
<1>6. 0 \in T
  <2>1. 0 \in 0..m
    OBVIOUS
  <2>2. Settling(f[0])
    BY <1>5, StatementsOfNone DEF Settling, Straight
  <2>3. QED
    BY <2>1, <2>2
<1>7. ASSUME NEW k \in T, k < m PROVE k + 1 \in T
  <2>0. k \in 0..m /\ Done(k)
    OBVIOUS
  <2> HIDE DEF T
  <2>1. k + 1 \in 1..m /\ k + 1 \in 0..m /\ (k + 1) - 1 = k /\ k \in Nat
    BY <1>7, <2>0
  <2>2. f[k + 1] = Decided(f[k], ids[k + 1]) /\ f[k] \in Deciding /\ ids[k + 1] \in DOMAIN rows
    BY <1>4, <1>5, <2>0, <2>1
  <2>3. Settles(f[k], f[k + 1], ids[k + 1])
    BY <2>0, <2>2, DecidedSettles
  <2>4. ASSUME NEW j \in 1..(k + 1)
        PROVE  Settled(rows[ids[j]].form) \/ Ends(f[k + 1].todo, ids[j])
    <3>1. j \in 1..k \/ j = k + 1
      BY <2>1
    <3>2. QED
      BY <2>0, <2>3, <3>1 DEF Settles
  <2>5. QED
    BY <2>1, <2>3, <2>4 DEF Settles, T
<1>8. T \in SUBSET (0..m)
  OBVIOUS
<1> HIDE DEF T
<1>9. T = 0..m
  BY <1>6, <1>7, <1>8, EveryNumber
<1>10. Done(m)
  <2>1. m \in T
    BY <1>9
  <2>2. QED
    BY <2>1 DEF T
<1>11. \A i \in DOMAIN rows : \E j \in 1..m : i = ids[j]
  BY <1>2, <1>4 DEF ToSet
<1>12. QED
  BY <1>5, <1>10, <1>11 DEF Reconciling, Settling

(* What a statement makes of the forms and of the rows that have           *)
(* occurrences; the script ends when it meets a unique key.                *)
AfterStatement(s) ==
  /\ ranks' = ranks /\ release' = release
  /\ DOMAIN occurs' = IF s.op = "delete" THEN DOMAIN occurs \ {s.id} ELSE DOMAIN occurs
  /\ \/ seed' = Resting("idle")
     \/ /\ seed' = [seed EXCEPT !.todo = Tail(@)]
        /\ \A i \in DOMAIN rows' :
             rows'[i].form = IF s.op = "rename" /\ i = s.id THEN s.arg ELSE rows[i].form

LEMMA StatementFacts ==
  ASSUME CatInv, RunStatement
  PROVE  AfterStatement(Head(seed.todo))
<1> DEFINE s == Head(seed.todo)
<1>1. /\ rows' = CASE s.op = "delete" -> Keep(rows, DOMAIN rows \ {s.id})
                   [] s.op = "rename" /\ ~Collides(Renamed(s.id, s.arg), s.id) ->
                        Renamed(s.id, s.arg)
                   [] s.op = "promote" /\ ~Collides(Promoted(s.id), s.id) -> Promoted(s.id)
                   [] OTHER -> rows
      /\ occurs' = CASE s.op = "clear" -> [occurs EXCEPT ![s.id] = << >>]
                     [] s.op = "delete" -> Keep(occurs, DOMAIN occurs \ {s.id})
                     [] s.op = "occur" -> [occurs EXCEPT ![s.id] = Placed(@, s)]
                     [] OTHER -> occurs
      /\ seed' = IF \/ s.op = "rename" /\ Collides(Renamed(s.id, s.arg), s.id)
                    \/ s.op = "promote" /\ Collides(Promoted(s.id), s.id)
                   THEN Resting("idle")
                   ELSE [seed EXCEPT !.todo = Tail(@)]
      /\ ranks' = ranks /\ release' = release
  BY DEF RunStatement
<1>2. rows \in [DOMAIN rows -> Row]
  BY DEF CatInv, Persisted, Table
<1> HIDE DEF s
<1>3. DOMAIN occurs' = IF s.op = "delete" THEN DOMAIN occurs \ {s.id} ELSE DOMAIN occurs
  <2>1. CASE s.op = "clear"
    <3>1. occurs' = [occurs EXCEPT ![s.id] = << >>]
      BY <1>1, <2>1
    <3>2. QED
      BY <2>1, <3>1
  <2>2. CASE s.op = "delete"
    <3>1. occurs' = Keep(occurs, DOMAIN occurs \ {s.id})
      BY <1>1, <2>2
    <3>2. QED
      BY <2>2, <3>1 DEF Keep
  <2>3. CASE s.op = "occur"
    <3>1. occurs' = [occurs EXCEPT ![s.id] = Placed(occurs[s.id], s)]
      BY <1>1, <2>3
    <3>2. QED
      BY <2>3, <3>1
  <2>4. CASE s.op \notin {"clear", "delete", "occur"}
    BY <1>1, <2>4
  <2>5. QED
    BY <2>1, <2>2, <2>3, <2>4
<1>4. ASSUME seed' # Resting("idle"), NEW i \in DOMAIN rows'
      PROVE  rows'[i].form = IF s.op = "rename" /\ i = s.id THEN s.arg ELSE rows[i].form
  <2>1. CASE s.op = "delete"
    <3>1. rows' = Keep(rows, DOMAIN rows \ {s.id})
      BY <1>1, <2>1
    <3>2. QED
      BY <2>1, <3>1 DEF Keep
  <2>2. CASE s.op = "rename"
    <3>1. rows' = Renamed(s.id, s.arg)
      BY <1>1, <1>4, <2>2
    <3>2. rows' = [rows EXCEPT ![s.id].form = s.arg] /\ DOMAIN rows' = DOMAIN rows
      BY <3>1 DEF Renamed
    <3>3. rows[i] \in Row
      BY <1>2, <3>2
    <3>4. QED
      BY <2>2, <3>2, <3>3 DEF Row
  <2>3. CASE s.op = "promote"
    <3>1. PICK b \in BOOLEAN : b = TRUE
      OBVIOUS
    <3>2. rows' = Promoted(s.id)
      BY <1>1, <1>4, <2>3
    <3>3. rows' = [rows EXCEPT ![s.id].primary = b] /\ DOMAIN rows' = DOMAIN rows
      BY <3>1, <3>2 DEF Promoted
    <3>4. rows[i] \in Row
      BY <1>2, <3>3
    <3>5. QED
      BY <2>3, <3>3, <3>4 DEF Row
  <2>4. CASE s.op \notin {"delete", "rename", "promote"}
    <3>1. rows' = rows
      BY <1>1, <2>4
    <3>2. QED
      BY <2>4, <3>1
  <2>5. QED
    BY <2>1, <2>2, <2>3, <2>4
<1>5. seed' = Resting("idle") \/ seed' = [seed EXCEPT !.todo = Tail(@)]
  BY <1>1
<1>6. QED
  BY <1>1, <1>3, <1>4, <1>5 DEF AfterStatement, s

(* A statement of a reconciliation that does not end it leaves the rest of *)
(* the rows to the rest of the statements.                                 *)
LEMMA StatementReconciles ==
  ASSUME CatInv, RunStatement, Reconciling(seed.todo), seed' # Resting("idle")
  PROVE  Reconciling(seed.todo)'
<1> DEFINE s == Head(seed.todo)
           rest == Tail(seed.todo)
<1>1. AfterStatement(s)
  BY StatementFacts
<1>2. /\ DOMAIN rows' = IF s.op = "delete" THEN DOMAIN rows \ {s.id} ELSE DOMAIN rows
  BY StatementKeepsTable
<1>3. /\ seed.todo \in Seq(Statements) /\ seed.todo # << >>
      /\ seed \in [stage : Stages, todo : Seq(Statements)]
  BY DEF CatInv, RunStatement
<1>4. /\ s \in ToSet(seed.todo) /\ ToSet(rest) \subseteq ToSet(seed.todo)
      /\ \A x \in ToSet(seed.todo) : x = s \/ x \in ToSet(rest)
  BY <1>3, StatementsOfRest
<1>5. Straight(seed.todo) /\ \A i \in DOMAIN rows : Settled(rows[i].form) \/ Ends(seed.todo, i)
  BY DEF Reconciling
<1> HIDE DEF s, rest
<1>6. /\ seed'.todo = rest /\ release' = release
      /\ \A i \in DOMAIN rows' :
           rows'[i].form = IF s.op = "rename" /\ i = s.id THEN s.arg ELSE rows[i].form
  <2>1. seed' = [seed EXCEPT !.todo = Tail(@)]
    BY <1>1 DEF AfterStatement
  <2>2. QED
    BY <1>1, <1>3, <2>1 DEF AfterStatement, rest
<1>7. Straight(rest)
  BY <1>4, <1>5 DEF Straight
<1>8. \A f : Settled(f)' <=> Settled(f)
  BY <1>6 DEF Settled, Tokenises, CanonicalOf
<1>9. ASSUME NEW i \in DOMAIN rows' PROVE Settled(rows'[i].form) \/ Ends(rest, i)
  <2>1. i \in DOMAIN rows
    BY <1>2
  <2>2. CASE s.op = "rename" /\ i = s.id
    <3>1. CanonicalOf(s.arg) = s.arg /\ rows'[i].form = s.arg
      BY <1>4, <1>5, <1>6, <2>2 DEF Straight
    <3>2. QED
      BY <3>1 DEF Settled
  <2>3. CASE ~(s.op = "rename" /\ i = s.id)
    <3>1. rows'[i].form = rows[i].form
      BY <1>6, <2>3
    <3>2. ~(s.op = "delete" /\ i = s.id)
      BY <1>2
    <3>3. Ends(seed.todo, i) => Ends(rest, i)
      BY <1>4, <2>3, <3>2 DEF Ends
    <3>4. QED
      BY <1>5, <2>1, <3>1, <3>3
  <2>4. QED
    BY <2>2, <2>3
<1>10. Straight(seed.todo)'
  BY <1>6, <1>7 DEF Straight, CanonicalOf
<1>11. ASSUME NEW i \in DOMAIN rows' PROVE Settled(rows[i].form)' \/ Ends(seed.todo, i)'
  <2>1. Settled(rows[i].form)' <=> Settled(rows'[i].form)
    BY <1>6 DEF Settled, Tokenises, CanonicalOf
  <2>2. Ends(seed.todo, i)' <=> Ends(rest, i)
    BY <1>6 DEF Ends
  <2>3. QED
    BY <1>9, <2>1, <2>2
<1>12. QED
  BY <1>10, <1>11 DEF Reconciling

(* The statements that fill in row i: a clear at place n, then an occur    *)
(* for each unit, and no other statement about the row; those at a place   *)
(* before the first have been run.                                         *)
FillsFrom(todo, i, us, n) ==
  /\ n >= 1 => n \in DOMAIN todo /\ todo[n] = Statement("clear", i, 0)
  /\ \A q \in DOMAIN us : n + q >= 1 =>
       n + q \in DOMAIN todo /\ todo[n + q] = Statement("occur", i, <<q, us[q]>>)
  /\ \A m \in DOMAIN todo : todo[m].id = i => n <= m /\ m <= n + Len(us)

LEMMA ReplacingFills ==
  ASSUME NEW i \in Nat, NEW us \in Seq(Units)
  PROVE  /\ Replacing(i, us) \in Seq(Statements) /\ FillsFrom(Replacing(i, us), i, us, 1)
         /\ Len(Replacing(i, us)) = Len(us) + 1
         /\ \A m \in DOMAIN Replacing(i, us) :
              Replacing(i, us)[m].id = i /\ Replacing(i, us)[m].op \in {"clear", "occur"}
<1> DEFINE a == Statement("clear", i, 0)
           c(k) == Statement("occur", i, <<k, us[k]>>)
           b == [k \in DOMAIN us |-> c(k)]
           r == Replacing(i, us)
<1>1. r \in Seq(Statements)
  BY ReplacingDeletesNone
<1>2. a.id = i /\ a.op \in {"clear", "occur"}
  BY DEF Statement
<1>3. \A k \in DOMAIN us : c(k).id = i /\ c(k).op \in {"clear", "occur"}
  BY DEF Statement
<1>4. r = <<a>> \o b
  BY DEF Replacing
<1> HIDE DEF a, c
<1>5. PICK l \in Nat : l = Len(us) /\ DOMAIN us = 1..l
  OBVIOUS
<1>6. DOMAIN b = 1..l /\ \A k \in 1..l : b[k] = c(k)
  BY <1>5
<1>7. Len(b) = l /\ b \in Seq({c(k) : k \in 1..l})
  BY <1>5, <1>6
<1> HIDE DEF b
<1>8. /\ DOMAIN r = 1..(l + 1) /\ Len(r) = l + 1 /\ r[1] = a
      /\ \A k \in 1..l : r[1 + k] = c(k)
  <2>1. /\ Len(<<a>> \o b) = Len(<<a>>) + Len(b) /\ Len(<<a>>) = 1
        /\ (<<a>> \o b)[1] = a
        /\ \A k \in 1..Len(b) : (<<a>> \o b)[1 + k] = b[k]
    BY <1>7
  <2>2. DOMAIN r = 1..Len(r)
    BY <1>1
  <2>3. Len(r) = l + 1
    BY <1>4, <1>7, <2>1
  <2>4. QED
    BY <1>4, <1>6, <1>7, <2>1, <2>2, <2>3
<1> HIDE DEF r
<1>9. \A m \in 1..(l + 1) : m = 1 \/ (m - 1 \in 1..l /\ r[m] = c(m - 1))
  <2> SUFFICES ASSUME NEW m \in 1..(l + 1), m # 1 PROVE m - 1 \in 1..l /\ r[m] = c(m - 1)
    OBVIOUS
  <2>1. m - 1 \in 1..l /\ 1 + (m - 1) = m
    OBVIOUS
  <2>2. QED
    BY <1>8, <2>1
<1>10. \A m \in DOMAIN r : r[m].id = i /\ r[m].op \in {"clear", "occur"}
  BY <1>2, <1>3, <1>5, <1>8, <1>9, SMTT(30)
<1>11. FillsFrom(r, i, us, 1)
  <2>1. 1 \in DOMAIN r /\ r[1] = Statement("clear", i, 0)
    BY <1>8 DEF a
  <2>2. \A q \in DOMAIN us : 1 + q \in DOMAIN r /\ r[1 + q] = Statement("occur", i, <<q, us[q]>>)
    BY <1>5, <1>8 DEF c
  <2>3. \A m \in DOMAIN r : 1 <= m /\ m <= 1 + Len(us)
    BY <1>5, <1>8
  <2>4. QED
    BY <2>1, <2>2, <2>3 DEF FillsFrom
<1>12. QED
  BY <1>1, <1>5, <1>8, <1>10, <1>11 DEF r

LEMMA FillsStay ==
  ASSUME NEW a \in Seq(Statements), NEW b \in Seq(Statements), NEW i, NEW us \in Seq(Units),
         NEW n \in Nat \ {0}
  PROVE  /\ FillsFrom(a, i, us, n) /\ (\A m \in DOMAIN b : b[m].id # i) =>
              FillsFrom(a \o b, i, us, n)
         /\ FillsFrom(b, i, us, n) /\ (\A m \in DOMAIN a : a[m].id # i) =>
              FillsFrom(a \o b, i, us, Len(a) + n)
<1> DEFINE q == a \o b
<1>1. PICK la, lb \in Nat : la = Len(a) /\ lb = Len(b)
  OBVIOUS
<1>2. /\ DOMAIN a = 1..la /\ DOMAIN b = 1..lb /\ DOMAIN q = 1..(la + lb)
      /\ \A m \in 1..la : q[m] = a[m]
      /\ \A m \in 1..lb : q[la + m] = b[m]
  BY <1>1
<1> HIDE DEF q
<1>3. \A m \in DOMAIN q : m \in 1..la \/ (m - la \in 1..lb /\ q[m] = b[m - la])
  <2> SUFFICES ASSUME NEW m \in DOMAIN q, m \notin 1..la PROVE m - la \in 1..lb /\ q[m] = b[m - la]
    OBVIOUS
  <2>1. m - la \in 1..lb /\ la + (m - la) = m
    BY <1>2
  <2>2. QED
    BY <1>2, <2>1
<1>4. PICK l \in Nat : l = Len(us) /\ DOMAIN us = 1..l
  OBVIOUS
<1>5. ASSUME FillsFrom(a, i, us, n), \A m \in DOMAIN b : b[m].id # i
      PROVE  FillsFrom(q, i, us, n)
  <2>1. n \in DOMAIN q /\ q[n] = Statement("clear", i, 0)
    BY <1>2, <1>5 DEF FillsFrom
  <2>2. \A k \in DOMAIN us :
          n + k \in DOMAIN q /\ q[n + k] = Statement("occur", i, <<k, us[k]>>)
    BY <1>2, <1>4, <1>5, SMTT(30) DEF FillsFrom
  <2>3. \A m \in DOMAIN q : q[m].id = i => n <= m /\ m <= n + Len(us)
    BY <1>2, <1>3, <1>5 DEF FillsFrom
  <2>4. QED
    BY <2>1, <2>2, <2>3 DEF FillsFrom
<1>6. ASSUME FillsFrom(b, i, us, n), \A m \in DOMAIN a : a[m].id # i
      PROVE  FillsFrom(q, i, us, la + n)
  <2>1. la + n \in DOMAIN q /\ q[la + n] = Statement("clear", i, 0)
    BY <1>2, <1>6 DEF FillsFrom
  <2>2. ASSUME NEW k \in DOMAIN us
        PROVE  (la + n) + k \in DOMAIN q /\ q[(la + n) + k] = Statement("occur", i, <<k, us[k]>>)
    <3>1. n + k \in 1..lb /\ b[n + k] = Statement("occur", i, <<k, us[k]>>)
      BY <1>2, <1>4, <1>6 DEF FillsFrom
    <3>2. (la + n) + k = la + (n + k)
      BY <1>4
    <3>3. QED
      BY <1>2, <3>1, <3>2
  <2>3. ASSUME NEW m \in DOMAIN q, q[m].id = i
        PROVE  la + n <= m /\ m <= (la + n) + Len(us)
    <3>1. m - la \in 1..lb /\ q[m] = b[m - la]
      BY <1>2, <1>3, <1>6, <2>3
    <3>2. n <= m - la /\ m - la <= n + l
      BY <1>2, <1>4, <1>6, <2>3, <3>1 DEF FillsFrom
    <3>3. m \in Int
      BY <1>2
    <3>4. QED
      BY <1>4, <3>2, <3>3
  <2>4. QED
    BY <2>1, <2>2, <2>3 DEF FillsFrom
<1>7. QED
  BY <1>1, <1>5, <1>6 DEF q

(* One statement less.                                                     *)
LEMMA FillsRest ==
  ASSUME NEW todo \in Seq(Statements), todo # << >>, NEW i, NEW us \in Seq(Units),
         NEW n \in Int, -Len(us) <= n, FillsFrom(todo, i, us, n)
  PROVE  /\ n > 1 \/ n = -Len(us) => Head(todo).id # i
         /\ n = 1 => Head(todo) = Statement("clear", i, 0)
         /\ n < 1 /\ n # -Len(us) =>
              1 - n \in DOMAIN us /\ Head(todo) = Statement("occur", i, <<1 - n, us[1 - n]>>)
         /\ n = -Len(us) => FillsFrom(Tail(todo), i, us, n)
         /\ n # -Len(us) => FillsFrom(Tail(todo), i, us, n - 1)
<1> DEFINE rest == Tail(todo)
<1>1. PICK l, m \in Nat : l = Len(us) /\ DOMAIN us = 1..l /\ m = Len(todo) /\ DOMAIN todo = 1..m /\ m >= 1
  OBVIOUS
<1>2. Head(todo) = todo[1] /\ DOMAIN rest = 1..(m - 1) /\ \A k \in 1..(m - 1) : rest[k] = todo[k + 1]
  BY <1>1
<1> HIDE DEF rest
<1>3. \A k \in 2..m : k - 1 \in DOMAIN rest /\ rest[k - 1] = todo[k]
  <2> SUFFICES ASSUME NEW k \in 2..m PROVE k - 1 \in DOMAIN rest /\ rest[k - 1] = todo[k]
    OBVIOUS
  <2>1. k - 1 \in 1..(m - 1) /\ (k - 1) + 1 = k
    BY <1>1
  <2>2. QED
    BY <1>2, <2>1
<1>4. \A k \in DOMAIN rest : k \in Int /\ k >= 1 /\ k + 1 \in 1..m /\ rest[k] = todo[k + 1]
  BY <1>1, <1>2
<1>5. /\ n >= 1 => n \in 1..m /\ todo[n] = Statement("clear", i, 0)
      /\ \A q \in 1..l : n + q >= 1 =>
           n + q \in 1..m /\ todo[n + q] = Statement("occur", i, <<q, us[q]>>)
      /\ \A k \in 1..m : todo[k].id = i => n <= k /\ k <= n + l
  BY <1>1 DEF FillsFrom
<1>6. n > 1 \/ n = -l => Head(todo).id # i
  <2>1. 1 \in 1..m
    BY <1>1
  <2>2. QED
    BY <1>1, <1>2, <1>5, <2>1
<1>7. n = 1 => Head(todo) = Statement("clear", i, 0)
  BY <1>2, <1>5
<1>8. ASSUME n < 1, n # -l
      PROVE  1 - n \in DOMAIN us /\ Head(todo) = Statement("occur", i, <<1 - n, us[1 - n]>>)
  <2>1. 1 - n \in 1..l /\ n + (1 - n) = 1
    BY <1>1, <1>8
  <2>2. QED
    BY <1>1, <1>2, <1>5, <2>1
<1>9. ASSUME n = -l PROVE FillsFrom(rest, i, us, n)
  <2>1. ~(n >= 1) /\ \A q \in 1..l : ~(n + q >= 1)
    BY <1>1, <1>9
  <2>2. \A k \in DOMAIN rest : ~(rest[k].id = i)
    BY <1>1, <1>4, <1>5, <1>9
  <2>3. QED
    BY <1>1, <2>1, <2>2 DEF FillsFrom
<1>10. ASSUME n # -l PROVE FillsFrom(rest, i, us, n - 1)
  <2>1. n - 1 >= 1 => n - 1 \in DOMAIN rest /\ rest[n - 1] = Statement("clear", i, 0)
    <3>1. n - 1 >= 1 => n \in 2..m /\ todo[n] = Statement("clear", i, 0)
      BY <1>1, <1>5
    <3>2. QED
      BY <1>3, <3>1
  <2>2. ASSUME NEW q \in 1..l, (n - 1) + q >= 1
        PROVE  (n - 1) + q \in DOMAIN rest /\ rest[(n - 1) + q] = Statement("occur", i, <<q, us[q]>>)
    <3>1. n + q \in 2..m /\ todo[n + q] = Statement("occur", i, <<q, us[q]>>)
      BY <1>1, <1>5, <2>2
    <3>2. (n + q) - 1 = (n - 1) + q
      OBVIOUS
    <3>3. QED
      BY <1>3, <3>1, <3>2
  <2>3. ASSUME NEW k \in DOMAIN rest, rest[k].id = i
        PROVE  n - 1 <= k /\ k <= (n - 1) + l
    <3>1. k \in Int /\ k + 1 \in 1..m /\ todo[k + 1].id = i
      BY <1>4, <2>3
    <3>2. n <= k + 1 /\ k + 1 <= n + l
      BY <1>5, <3>1
    <3>3. QED
      BY <1>1, <3>1, <3>2
  <2>4. QED
    BY <1>1, <2>1, <2>2, <2>3 DEF FillsFrom
<1>11. QED
  BY <1>1, <1>6, <1>7, <1>8, <1>9, <1>10 DEF rest

Opening(us, m) == [k \in 1..m |-> us[k]]

LEMMA OpeningGrows ==
  ASSUME NEW us \in Seq(Units), NEW m \in Nat, m + 1 \in DOMAIN us
  PROVE  /\ Opening(us, 0) = << >> /\ Opening(us, m) \in Seq(Units) /\ Len(Opening(us, m)) = m
         /\ Append(Opening(us, m), us[m + 1]) = Opening(us, m + 1)
         /\ Opening(us, Len(us)) = us
<1> DEFINE a == Opening(us, m)
           b == Opening(us, m + 1)
<1>1. PICK l \in Nat : l = Len(us) /\ DOMAIN us = 1..l /\ us \in [1..l -> Units]
  OBVIOUS
<1>2. \A k \in 1..(m + 1) : us[k] \in Units
  BY <1>1
<1>3. a \in [1..m -> Units] /\ b \in [1..(m + 1) -> Units]
  BY <1>2 DEF Opening
<1>4. /\ a \in Seq(Units) /\ Len(a) = m /\ b \in Seq(Units) /\ Len(b) = m + 1
      /\ \A k \in 1..m : a[k] = us[k]
      /\ \A k \in 1..(m + 1) : b[k] = us[k]
  BY <1>3 DEF Opening
<1> HIDE DEF a, b
<1>5. PICK x \in Units : x = us[m + 1]
  BY <1>2
<1>6. /\ Append(a, x) \in Seq(Units) /\ Len(Append(a, x)) = m + 1
      /\ \A k \in 1..(m + 1) : Append(a, x)[k] = IF k = m + 1 THEN x ELSE a[k]
  BY <1>4
<1>7. \A k \in 1..(m + 1) : Append(a, x)[k] = b[k]
  <2> SUFFICES ASSUME NEW k \in 1..(m + 1) PROVE Append(a, x)[k] = b[k]
    OBVIOUS
  <2>1. k = m + 1 \/ k \in 1..m
    OBVIOUS
  <2>2. QED
    BY <1>4, <1>5, <1>6, <2>1
<1>8. Append(a, x) = b
  BY <1>4, <1>6, <1>7, SeqEqual
<1>9. Opening(us, l) = us
  BY <1>1 DEF Opening
<1>10. Opening(us, 0) = << >>
  BY DEF Opening
<1>11. QED
  BY <1>1, <1>4, <1>5, <1>8, <1>9, <1>10 DEF a, b

(* Row i has the units the statements run so far have given it.            *)
Refilled(todo, i) ==
  LET us == UnitsOfRow(i)
  IN  \E n \in Int : /\ -Len(us) <= n /\ FillsFrom(todo, i, us, n)
                     /\ n < 1 => occurs[i] = Opening(us, -n)

Refilling(todo) ==
  /\ \A m \in DOMAIN todo : todo[m].op \in {"clear", "occur"}
  /\ \A i \in DOMAIN rows : Tokenises(rows[i].form) => Refilled(todo, i)

(* The statements of the rows in S, as they are queued.                    *)
Filling(todo, S) ==
  /\ \A m \in DOMAIN todo : todo[m].op \in {"clear", "occur"} /\ todo[m].id \in S
  /\ \A i \in S : Tokenises(rows[i].form) =>
       \E n \in Nat \ {0} : FillsFrom(todo, i, UnitsOfRow(i), n)

LEMMA UnitsAreListed ==
  ASSUME Persisted, NEW i \in DOMAIN rows, Tokenises(rows[i].form)
  PROVE  UnitsOfRow(i) \in Seq(Units) /\ \A k \in DOMAIN UnitsOfRow(i) : UnitsOfRow(i)[k] \in ListedUnits
<1>1. rows[i].form \in Forms
  BY DEF Persisted, Table, Row
<1>2. /\ UnitsOfRow(i) \in Seq(Units)
      /\ ToSet(UnitsOfRow(i)) \subseteq ListedUnits
  BY <1>1, CatalogueAssumption
  DEF Persisted, Releases, Tokenises, CanonicalOf, UnitsOfRow, ListedUnits
<1>3. QED
  BY <1>2 DEF ToSet

LEMMA FillOneMore ==
  ASSUME Persisted, RanksFollow, NEW todo \in Clean, NEW S \in SUBSET (DOMAIN rows),
         NEW x \in DOMAIN rows, x \notin S, Filling(todo, S)
  PROVE  Filling(todo \o Occurrences(x), S \cup {x})
<1> DEFINE more == Occurrences(x)
           all == todo \o more
<1>1. todo \in Seq(Statements) /\ DOMAIN rows \subseteq Nat
  BY DEF Clean, Persisted, Table
<1>2. /\ more \in Seq(Statements)
      /\ \A m \in DOMAIN more : more[m].id = x /\ more[m].op \in {"clear", "occur"}
      /\ Tokenises(rows[x].form) => FillsFrom(more, x, UnitsOfRow(x), 1)
  <2>1. CASE Tokenises(rows[x].form)
    <3>1. PICK us \in Seq(Units) : us = UnitsOfRow(x) /\ \A k \in DOMAIN us : us[k] \in ListedUnits
      BY <2>1, UnitsAreListed
    <3>2. \A k \in DOMAIN us : ranks[us[k]] # 0
      BY <3>1 DEF RanksFollow
    <3>3. more = Replacing(x, us)
      BY <2>1, <3>1, <3>2 DEF Occurrences, UnitsOfRow
    <3>4. QED
      BY <1>1, <3>1, <3>3, ReplacingFills
  <2>2. CASE ~Tokenises(rows[x].form)
    <3>1. more = << >>
      BY <2>2 DEF Occurrences
    <3>2. QED
      BY <2>2, <3>1
  <2>3. QED
    BY <2>1, <2>2
<1> HIDE DEF more
<1>3. \A m \in DOMAIN todo : todo[m].id # x
  BY DEF Filling
<1>4. ASSUME NEW i \in S \cup {x}, Tokenises(rows[i].form)
      PROVE  \E n \in Nat \ {0} : FillsFrom(all, i, UnitsOfRow(i), n)
  <2>1. UnitsOfRow(i) \in Seq(Units)
    BY <1>4, UnitsAreListed
  <2>2. CASE i = x
    <3>1. FillsFrom(all, i, UnitsOfRow(i), Len(todo) + 1)
      BY <1>1, <1>2, <1>3, <1>4, <2>1, <2>2, FillsStay
    <3>2. Len(todo) + 1 \in Nat \ {0}
      BY <1>1
    <3>3. QED
      BY <3>1, <3>2
  <2>3. CASE i # x
    <3>1. PICK n \in Nat \ {0} : FillsFrom(todo, i, UnitsOfRow(i), n)
      BY <1>4, <2>3 DEF Filling
    <3>2. \A m \in DOMAIN more : more[m].id # i
      BY <1>2, <2>3
    <3>3. FillsFrom(all, i, UnitsOfRow(i), n)
      BY <1>1, <1>2, <2>1, <3>1, <3>2, FillsStay
    <3>4. QED
      BY <3>3
  <2>4. QED
    BY <2>2, <2>3
<1>5. ASSUME NEW m \in DOMAIN all
      PROVE  all[m].op \in {"clear", "occur"} /\ all[m].id \in S \cup {x}
  <2>1. all \in Seq(Statements) /\ all[m] \in ToSet(all) /\ ToSet(all) = ToSet(todo) \cup ToSet(more)
    BY <1>1, <1>2, StatementsOfConcat DEF ToSet
  <2>2. (\E k \in DOMAIN todo : all[m] = todo[k]) \/ (\E k \in DOMAIN more : all[m] = more[k])
    BY <2>1 DEF ToSet
  <2>3. QED
    BY <1>2, <2>2 DEF Filling
<1>6. QED
  BY <1>4, <1>5 DEF Filling, more

LEMMA PopulatingRefills ==
  ASSUME Persisted, RanksFollow
  PROVE  Refilling(AllOccurrences)
<1>1. PICK f : IsOccurrenceRun(f)
  BY OccurrencesRun
<1>2. PICK ids \in Seq(DOMAIN rows) :
        ids = InOrder(rows) /\ ToSet(ids) = DOMAIN rows /\ IsInjective(ids)
  BY InOrderIsAll DEF Persisted
<1>3. PICK m \in Nat : m = Len(ids)
  OBVIOUS
<1>4. DOMAIN ids = 1..m /\ \A k \in 1..m : ids[k] \in DOMAIN rows
  BY <1>3
<1>5. /\ f \in [0..m -> Clean]
      /\ f[0] = << >>
      /\ \A k \in 1..m : f[k] = f[k - 1] \o Occurrences(ids[k])
      /\ AllOccurrences = f[m]
  BY <1>1, <1>2, <1>3 DEF IsOccurrenceRun
<1> DEFINE Seen(k) == {ids[j] : j \in 1..k}
           T == {k \in 0..m : Filling(f[k], Seen(k))}
<1>6. 0 \in T
  <2>1. 0 \in 0..m /\ Seen(0) = {} /\ DOMAIN f[0] = {}
    BY <1>5
  <2> HIDE DEF Seen
  <2>2. Filling(f[0], Seen(0))
    BY <2>1 DEF Filling
  <2>3. QED
    BY <2>1, <2>2
<1>7. ASSUME NEW k \in T, k < m PROVE k + 1 \in T
  <2>0. k \in 0..m /\ Filling(f[k], Seen(k))
    OBVIOUS
  <2> HIDE DEF T
  <2>1. k + 1 \in 1..m /\ k + 1 \in 0..m /\ (k + 1) - 1 = k /\ k \in Nat
    BY <1>7, <2>0
  <2>2. f[k + 1] = f[k] \o Occurrences(ids[k + 1]) /\ f[k] \in Clean /\ ids[k + 1] \in DOMAIN rows
    BY <1>4, <1>5, <2>0, <2>1
  <2>3. Seen(k) \in SUBSET (DOMAIN rows) /\ Seen(k + 1) = Seen(k) \cup {ids[k + 1]}
    <3>1. \A j \in 1..(k + 1) : j \in 1..k \/ j = k + 1
      BY <2>1
    <3>2. \A j \in 1..k : j \in 1..(k + 1) /\ j \in 1..m
      BY <2>1
    <3>3. k + 1 \in 1..(k + 1)
      BY <2>1
    <3>4. QED
      BY <1>4, <3>1, <3>2, <3>3
  <2>4. ids[k + 1] \notin Seen(k)
    <3>1. \A j \in 1..k : j # k + 1 /\ j \in 1..m
      BY <2>1
    <3>2. QED
      BY <1>2, <1>4, <2>1, <3>1 DEF IsInjective
  <2> HIDE DEF Seen
  <2>5. Filling(f[k + 1], Seen(k + 1))
    BY <2>0, <2>2, <2>3, <2>4, FillOneMore
  <2>6. QED
    BY <2>1, <2>5 DEF T
<1>8. T \in SUBSET (0..m)
  OBVIOUS
<1> HIDE DEF T
<1>9. T = 0..m
  BY <1>6, <1>7, <1>8, EveryNumber
<1>10. Filling(AllOccurrences, Seen(m)) /\ Seen(m) = DOMAIN rows
  <2>1. m \in T
    BY <1>9
  <2>2. Seen(m) = ToSet(ids)
    BY <1>4 DEF ToSet
  <2>3. QED
    BY <1>2, <1>5, <2>1, <2>2 DEF T
<1> HIDE DEF Seen
<1>11. ASSUME NEW i \in DOMAIN rows, Tokenises(rows[i].form) PROVE Refilled(AllOccurrences, i)
  <2>1. PICK n \in Nat \ {0} : FillsFrom(AllOccurrences, i, UnitsOfRow(i), n)
    BY <1>10, <1>11 DEF Filling
  <2>2. PICK l \in Nat : l = Len(UnitsOfRow(i))
    BY <1>11, UnitsAreListed
  <2>3. n \in Int /\ -Len(UnitsOfRow(i)) <= n /\ ~(n < 1)
    BY <2>2
  <2>4. QED
    BY <2>1, <2>3 DEF Refilled
<1>12. QED
  BY <1>10, <1>11 DEF Refilling, Filling

(* One statement of the population: the row it is about has its next unit, *)
(* the others are as they were.                                            *)
LEMMA StatementRefills ==
  ASSUME CatInv, DOMAIN occurs = DOMAIN rows, RunStatement, Refilling(seed.todo)
  PROVE  /\ seed' = [seed EXCEPT !.todo = Tail(@)] /\ rows' = rows
         /\ Refilling(seed.todo)'
<1> DEFINE s == Head(seed.todo)
           rest == Tail(seed.todo)
<1>1. /\ seed \in [stage : Stages, todo : Seq(Statements)]
      /\ seed.todo \in Seq(Statements) /\ seed.todo # << >>
  BY DEF CatInv, RunStatement
<1>2. s \in Statements /\ s.op \in {"clear", "occur"}
  <2>1. 1 \in DOMAIN seed.todo /\ s = seed.todo[1] /\ s \in Statements
    BY <1>1
  <2>2. QED
    BY <2>1 DEF Refilling
<1>3. /\ rows' = CASE s.op = "delete" -> Keep(rows, DOMAIN rows \ {s.id})
                   [] s.op = "rename" /\ ~Collides(Renamed(s.id, s.arg), s.id) ->
                        Renamed(s.id, s.arg)
                   [] s.op = "promote" /\ ~Collides(Promoted(s.id), s.id) -> Promoted(s.id)
                   [] OTHER -> rows
      /\ occurs' = CASE s.op = "clear" -> [occurs EXCEPT ![s.id] = << >>]
                     [] s.op = "delete" -> Keep(occurs, DOMAIN occurs \ {s.id})
                     [] s.op = "occur" -> [occurs EXCEPT ![s.id] = Placed(@, s)]
                     [] OTHER -> occurs
      /\ seed' = IF \/ s.op = "rename" /\ Collides(Renamed(s.id, s.arg), s.id)
                    \/ s.op = "promote" /\ Collides(Promoted(s.id), s.id)
                   THEN Resting("idle")
                   ELSE [seed EXCEPT !.todo = Tail(@)]
      /\ release' = release
  BY DEF RunStatement
<1>4. /\ s.op # "delete" /\ s.op # "rename" /\ s.op # "promote"
  BY <1>2
<1>5. rows' = rows
  BY <1>3, <1>4
<1>6. seed' = [seed EXCEPT !.todo = Tail(@)]
  BY <1>3, <1>4
<1>7. seed'.todo = rest
  BY <1>1, <1>6
<1>8. s.op = "clear" => occurs' = [occurs EXCEPT ![s.id] = << >>]
  BY <1>3
<1>9. s.op = "occur" => occurs' = [occurs EXCEPT ![s.id] = Placed(occurs[s.id], s)]
  BY <1>3, <1>4
<1>10. \A m \in DOMAIN rest : rest[m].op \in {"clear", "occur"}
  <2>1. \A x \in ToSet(seed.todo) : x.op \in {"clear", "occur"}
    BY DEF Refilling, ToSet
  <2>2. ToSet(rest) \subseteq ToSet(seed.todo)
    BY <1>1, StatementsOfRest
  <2> HIDE DEF s, rest
  <2>3. QED
    BY <2>1, <2>2, Zenon DEF ToSet
<1>11. \A i : /\ UnitsOfRow(i)' = UnitsOfRow(i)
              /\ Tokenises(rows[i].form)' <=> Tokenises(rows[i].form)
  <2>1. release' = release
    BY <1>3
  <2>2. QED
    BY <1>5, <2>1 DEF UnitsOfRow, Tokenises, CanonicalOf
<1>12. ASSUME NEW i \in DOMAIN rows, Tokenises(rows[i].form)
       PROVE  \E n \in Int : /\ -Len(UnitsOfRow(i)) <= n /\ FillsFrom(rest, i, UnitsOfRow(i), n)
                             /\ n < 1 => occurs'[i] = Opening(UnitsOfRow(i), -n)
  <2>1. PICK us \in Seq(Units) : us = UnitsOfRow(i)
    BY <1>12, UnitsAreListed DEF CatInv
  <2>2. PICK l \in Nat : l = Len(us) /\ DOMAIN us = 1..l
    OBVIOUS
  <2>3. PICK n \in Int : /\ -l <= n /\ FillsFrom(seed.todo, i, us, n)
                         /\ n < 1 => occurs[i] = Opening(us, -n)
    BY <1>12, <2>1, <2>2 DEF Refilling, Refilled
  <2>4. /\ n > 1 \/ n = -l => s.id # i
        /\ n = 1 => s = Statement("clear", i, 0)
        /\ n < 1 /\ n # -l =>
             1 - n \in DOMAIN us /\ s = Statement("occur", i, <<1 - n, us[1 - n]>>)
        /\ n = -l => FillsFrom(rest, i, us, n)
        /\ n # -l => FillsFrom(rest, i, us, n - 1)
    <3>1. /\ n > 1 \/ n = -Len(us) => s.id # i
          /\ n = 1 => s = Statement("clear", i, 0)
          /\ n < 1 /\ n # -Len(us) =>
               1 - n \in DOMAIN us /\ s = Statement("occur", i, <<1 - n, us[1 - n]>>)
          /\ n = -Len(us) => FillsFrom(rest, i, us, n)
          /\ n # -Len(us) => FillsFrom(rest, i, us, n - 1)
      <4>1. -Len(us) <= n /\ FillsFrom(seed.todo, i, us, n)
        BY <2>2, <2>3
      <4>2. QED
        BY <1>1, <4>1, FillsRest
    <3> HIDE DEF s, rest
    <3>2. QED
      BY <2>2, <3>1
  <2> HIDE DEF s, rest
  <2>5. i # s.id => occurs'[i] = occurs[i]
    BY <1>2, <1>8, <1>9, <1>12
  <2>6. CASE n > 1
    <3>1. n - 1 \in Int /\ -l <= n - 1 /\ ~(n - 1 < 1) /\ n # -l
      BY <2>2, <2>6
    <3>2. QED
      BY <2>1, <2>2, <2>4, <3>1
  <2>7. CASE n = 1
    <3>1. s.op = "clear" /\ s.id = i
      BY <2>4, <2>7 DEF Statement
    <3>2. occurs'[i] = << >>
      BY <1>8, <1>12, <3>1
    <3>3. Opening(us, 0) = << >>
      BY DEF Opening
    <3>4. 0 \in Int /\ -l <= 0 /\ FillsFrom(rest, i, us, 0)
      <4>1. n - 1 = 0 /\ n # -l /\ -l <= 0
        BY <2>2, <2>7
      <4>2. QED
        BY <2>4, <4>1
    <3>5. -0 = 0
      <4>1. -0 \in Int /\ -0 <= 0 /\ -0 >= 0
        OBVIOUS
      <4>2. \A z \in Int : z <= 0 /\ z >= 0 => z = 0
        OBVIOUS
      <4>3. QED
        BY <4>1, <4>2, Zenon
    <3>6. QED
      BY <2>1, <2>2, <3>2, <3>3, <3>4, <3>5
  <2>8. CASE n < 1 /\ n # -l
    <3>0. -n \in Nat /\ 1 - n = -n + 1
      BY <2>8
    <3>1. PICK m \in Nat : m = -n /\ m + 1 = 1 - n /\ m + 1 \in DOMAIN us
      <4>1. 1 - n \in DOMAIN us
        BY <2>4, <2>8
      <4>2. QED
        BY <3>0, <4>1
    <3>2. s = Statement("occur", i, <<m + 1, us[m + 1]>>)
      BY <2>4, <2>8, <3>1
    <3>3. s.op = "occur" /\ s.id = i /\ s.arg[1] = m + 1 /\ s.arg[2] = us[m + 1]
      BY <3>2 DEF Statement
    <3>4. occurs[i] = Opening(us, m)
      BY <2>3, <2>8, <3>1
    <3>5. /\ Len(Opening(us, m)) = m
          /\ Append(Opening(us, m), us[m + 1]) = Opening(us, m + 1)
      BY <3>1, OpeningGrows
    <3>6. ~(m + 1 <= m)
      OBVIOUS
    <3>7. Placed(occurs[i], s) = Opening(us, m + 1)
      BY <3>3, <3>4, <3>5, <3>6 DEF Placed
    <3>8. occurs'[i] = Opening(us, m + 1)
      BY <1>9, <1>12, <3>3, <3>7
    <3>9. n - 1 \in Int /\ -(n - 1) = m + 1 /\ -l <= n - 1
      BY <2>2, <2>3, <2>8, <3>1
    <3>10. QED
      BY <2>1, <2>2, <2>4, <2>8, <3>8, <3>9
  <2>9. CASE n = -l
    BY <2>1, <2>2, <2>3, <2>4, <2>5, <2>9
  <2>10. QED
    BY <2>6, <2>7, <2>8, <2>9
<1> HIDE DEF s, rest
<1>13. ASSUME NEW i \in DOMAIN rows', Tokenises(rows[i].form)' PROVE Refilled(seed.todo, i)'
  <2>1. i \in DOMAIN rows /\ Tokenises(rows[i].form)
    BY <1>5, <1>11, <1>13 DEF Tokenises, CanonicalOf
  <2>2. UnitsOfRow(i)' = UnitsOfRow(i)
    BY <1>11
  <2>3. QED
    BY <1>7, <1>12, <2>1, <2>2 DEF Refilled
<1>14. Refilling(seed.todo)'
  BY <1>7, <1>10, <1>13 DEF Refilling
<1>15. QED
  BY <1>5, <1>6, <1>14

(* With nothing left to run, the rows that tokenise have their units.      *)
LEMMA RefilledAtLast ==
  ASSUME Persisted, Refilling(<< >>), NEW i \in DOMAIN rows, Tokenises(rows[i].form)
  PROVE  occurs[i] = UnitsOfRow(i)
<1>1. PICK us \in Seq(Units) : us = UnitsOfRow(i)
  BY UnitsAreListed
<1>2. PICK l \in Nat : l = Len(us) /\ DOMAIN us = 1..l
  OBVIOUS
<1>3. PICK n \in Int : /\ -l <= n /\ FillsFrom(<< >>, i, us, n)
                       /\ n < 1 => occurs[i] = Opening(us, -n)
  BY <1>1, <1>2 DEF Refilling, Refilled
<1>4. n < 1 /\ \A q \in 1..l : n + q < 1
  BY <1>2, <1>3 DEF FillsFrom
<1>5. n = -l
  BY <1>2, <1>3, <1>4
<1>6. Opening(us, l) = us
  BY <1>2 DEF Opening
<1>7. QED
  BY <1>1, <1>2, <1>3, <1>4, <1>5, <1>6

AllSettled == \A i \in DOMAIN rows : Settled(rows[i].form)
Populated == \A i \in DOMAIN rows : Tokenises(rows[i].form) /\ occurs[i] = UnitsOfRow(i)

(* Where the seed stands, stage by stage: a reconciliation brings the rows *)
(* to their canonical forms, the ranks then follow the counts, and the     *)
(* population, once validated, has given the rows their units.             *)
SeedInv ==
  /\ DOMAIN occurs = DOMAIN rows
  /\ RanksListed
  /\ seed.stage # "refused"
  /\ seed.stage \in AtRest \cup {"rank"} => seed.todo = << >>
  /\ seed.stage = "reconcile" => Reconciling(seed.todo)
  /\ seed.stage \in {"rank", "occur", "valid"} => RanksFollow /\ AllSettled
  /\ seed.stage = "occur" => Refilling(seed.todo)
  /\ seed.stage = "valid" => Populated

(* A script at rest that promises nothing about the rows.                  *)
AtEase ==
  /\ DOMAIN occurs = DOMAIN rows /\ RanksListed
  /\ \E s \in {"idle", "loaded", "invalid"} : seed = Resting(s)

LEMMA AtEaseIsSound == AtEase => SeedInv
<1> SUFFICES ASSUME AtEase PROVE SeedInv
  OBVIOUS
<1>1. PICK s \in {"idle", "loaded", "invalid"} : seed = Resting(s)
  BY DEF AtEase
<1>2. seed.stage \in {"idle", "loaded", "invalid"} /\ seed.todo = << >>
  BY <1>1 DEF Resting
<1>3. QED
  BY <1>2 DEF AtEase, SeedInv

LEMMA AtEaseNext == AtEase' => SeedInv'
BY AtEaseIsSound, PTL

(* What depends on the forms of the rows alone.                            *)
SameForms ==
  /\ release' = release /\ DOMAIN rows' = DOMAIN rows
  /\ \A i \in DOMAIN rows : rows'[i].form = rows[i].form

LEMMA FormsDecide ==
  ASSUME SameForms, NEW i \in DOMAIN rows
  PROVE  /\ UnitsOfRow(i)' = UnitsOfRow(i)
         /\ Tokenises(rows[i].form)' <=> Tokenises(rows[i].form)
         /\ Settled(rows[i].form)' <=> Settled(rows[i].form)
BY DEF SameForms, UnitsOfRow, Tokenises, Settled, CanonicalOf

LEMMA FormsCount ==
  ASSUME SameForms, NEW u
  PROVE  CountOf(u)' = CountOf(u)
<1> DEFINE read == {i \in DOMAIN rows : Tokenises(rows[i].form)}
           read2 == {i \in DOMAIN rows' : Tokenises(rows[i].form)'}
           places(i) == {<<i, k>> : k \in {k \in DOMAIN UnitsOfRow(i) : UnitsOfRow(i)[k] = u}}
           places2(i) == {<<i, k>> : k \in {k \in DOMAIN UnitsOfRow(i)' : UnitsOfRow(i)'[k] = u}}
<1>1. CountOf(u) = Cardinality(UNION {places(i) : i \in read})
  BY DEF CountOf, UnitsOfRow
<1>2. CountOf(u)' = Cardinality(UNION {places2(i) : i \in read2})
  BY DEF CountOf, UnitsOfRow
<1>3. DOMAIN rows' = DOMAIN rows
  BY DEF SameForms
<1>4. read2 = read
  BY <1>3, FormsDecide
<1>5. \A i \in read : places2(i) = places(i)
  <2> SUFFICES ASSUME NEW i \in DOMAIN rows PROVE places2(i) = places(i)
    OBVIOUS
  <2>1. UnitsOfRow(i)' = UnitsOfRow(i)
    BY FormsDecide
  <2>2. QED
    BY <2>1
<1> HIDE DEF read, read2, places, places2
<1>6. {places2(i) : i \in read2} = {places(i) : i \in read}
  BY <1>4, <1>5
<1>7. QED
  BY <1>1, <1>2, <1>6

LEMMA FormsKeep ==
  ASSUME SameForms, ranks' = ranks
  PROVE  /\ RanksListed => RanksListed'
         /\ RanksFollow => RanksFollow'
         /\ AllSettled => AllSettled'
<1>1. ListedUnits' = ListedUnits /\ release' = release /\ DOMAIN rows' = DOMAIN rows
  BY DEF ListedUnits, SameForms
<1>2. RanksListed => RanksListed'
  BY <1>1 DEF RanksListed
<1>3. RanksFollow => RanksFollow'
  <2> SUFFICES ASSUME RanksFollow PROVE RanksFollow'
    OBVIOUS
  <2>1. \A u \in ListedUnits' : ranks'[u] # 0
    BY <1>1 DEF RanksFollow
  <2>2. \A u, v \in ListedUnits : CountOf(u)' > CountOf(v)' => ranks'[u] < ranks'[v]
    BY FormsCount DEF RanksFollow
  <2>3. QED
    BY <1>1, <2>1, <2>2 DEF RanksFollow
<1>4. AllSettled => AllSettled'
  BY <1>1, FormsDecide DEF AllSettled
<1>5. QED
  BY <1>2, <1>3, <1>4

LEMMA PopulatedKeeps ==
  ASSUME SameForms, occurs' = occurs
  PROVE  Populated => Populated'
<1>1. DOMAIN rows' = DOMAIN rows
  BY DEF SameForms
<1>2. QED
  BY <1>1, FormsDecide DEF Populated

LEMMA SameRows == rows' = rows /\ release' = release => SameForms
BY DEF SameForms

LEMMA SeedStarts == CatalogueInit => SeedInv
<1> SUFFICES ASSUME CatalogueInit PROVE AtEase
  BY AtEaseIsSound
<1>1. release \in Releases
  BY CatalogueStarts DEF CatInv, Persisted
<1>2. Cardinality(ListedUnits) \in Nat
  BY <1>1, ListedFinite
<1>3. ranks = [u \in Units |-> 0]
  BY DEF CatalogueInit
<1>4. RanksListed
  BY <1>2, <1>3 DEF RanksListed
<1>5. DOMAIN occurs = DOMAIN rows /\ seed = Resting("idle")
  BY DEF CatalogueInit
<1>6. QED
  BY <1>4, <1>5 DEF AtEase

LEMMA LoadSeeds ==
  ASSUME CatInv, SeedInv, NEW e \in Entries, LoadEntry(e)
  PROVE  SeedInv'
<1> DEFINE t == Written(rows, nextId, e)
           kept == {i \in DOMAIN t.rows : t.rows[i].form \in ToSet(e)}
<1>1. /\ \/ /\ rows' = Keep(t.rows, kept)
            /\ occurs' = [i \in kept |-> IF i \in DOMAIN occurs THEN occurs[i] ELSE << >>]
            /\ seed' = Resting("loaded")
         \/ seed' = Resting("idle") /\ rows' = rows /\ occurs' = occurs
      /\ release' = release /\ ranks' = ranks
  BY DEF LoadEntry
<1>2. kept \subseteq DOMAIN t.rows
  OBVIOUS
<1> HIDE DEF t, kept
<1>3. DOMAIN occurs' = DOMAIN rows'
  <2>1. CASE /\ rows' = Keep(t.rows, kept)
             /\ occurs' = [i \in kept |-> IF i \in DOMAIN occurs THEN occurs[i] ELSE << >>]
    <3>1. DOMAIN rows' = kept
      BY <1>2, <2>1 DEF Keep
    <3>2. DOMAIN occurs' = kept
      BY <2>1
    <3>3. QED
      BY <3>1, <3>2
  <2>2. CASE rows' = rows /\ occurs' = occurs
    BY <2>2 DEF SeedInv
  <2>3. QED
    BY <1>1, <2>1, <2>2
<1>4. RanksListed'
  BY <1>1 DEF SeedInv, RanksListed, ListedUnits
<1>5. seed' = Resting("loaded") \/ seed' = Resting("idle")
  BY <1>1
<1>6. AtEase'
  BY <1>3, <1>4, <1>5 DEF AtEase, Resting
<1>7. QED
  BY <1>6, AtEaseNext

LEMMA ReconcileSeeds ==
  ASSUME CatInv, SeedInv, ReconcilePronunciations
  PROVE  SeedInv'
<1> DEFINE x == IF Blocked THEN << >> ELSE Decisions
<1>1. /\ rows' = rows /\ release' = release /\ occurs' = occurs /\ ranks' = ranks
      /\ seed' = [stage |-> "reconcile", todo |-> x]
  BY DEF ReconcilePronunciations
<1>2. Reconciling(x)
  BY BlockedIsSettled, DecisionsSettle DEF CatInv
<1> HIDE DEF x
<1>3. SameForms /\ seed'.stage = "reconcile" /\ seed'.todo = x
  BY <1>1, SameRows
<1>4. RanksListed'
  BY <1>1, <1>3, FormsKeep DEF SeedInv
<1>5. Straight(seed.todo)'
  BY <1>1, <1>2, <1>3 DEF Reconciling, Straight, CanonicalOf
<1>6. ASSUME NEW i \in DOMAIN rows PROVE Settled(rows[i].form)' \/ Ends(seed.todo, i)'
  <2>1. Ends(x, i) => Ends(seed.todo, i)'
    BY <1>3 DEF Ends
  <2>2. QED
    BY <1>2, <1>3, <2>1, FormsDecide DEF Reconciling
<1>7. Reconciling(seed.todo)'
  BY <1>1, <1>5, <1>6 DEF Reconciling
<1>8. seed'.stage \notin AtRest
  BY <1>3 DEF AtRest
<1>9. DOMAIN occurs' = DOMAIN rows'
  BY <1>1 DEF SeedInv
<1>10. QED
  BY <1>3, <1>4, <1>7, <1>8, <1>9 DEF SeedInv

InRelease == release \in Releases
FinitelyListed == IsFiniteSet(ListedUnits) /\ Cardinality(ListedUnits) \in Nat

LEMMA ReleaseLists == InRelease => FinitelyListed
BY ListedFinite DEF InRelease, FinitelyListed

LEMMA ReleaseListsNext == InRelease' => FinitelyListed'
BY ReleaseLists, PTL

LEMMA StatementSeeds ==
  ASSUME CatInv, SeedInv, RunStatement
  PROVE  SeedInv'
<1>1. /\ seed \in [stage : Stages, todo : Seq(Statements)] /\ seed.todo # << >>
  BY DEF CatInv, RunStatement
<1>2. seed.stage = "reconcile" \/ seed.stage = "occur"
  <2>1. /\ seed.stage \in AtRest \cup {"reconcile", "rank", "occur", "refused"}
        /\ seed.stage \notin AtRest \cup {"rank"} /\ seed.stage # "refused"
    BY <1>1 DEF SeedInv, Stages
  <2>2. QED
    BY <2>1
<1>3. AfterStatement(Head(seed.todo))
  BY StatementFacts
<1>4. DOMAIN occurs' = DOMAIN rows'
  <2>1. DOMAIN rows' = IF Head(seed.todo).op = "delete"
                         THEN DOMAIN rows \ {Head(seed.todo).id} ELSE DOMAIN rows
    BY StatementKeepsTable
  <2>2. QED
    BY <1>3, <2>1 DEF AfterStatement, SeedInv
<1>5. RanksListed'
  BY <1>3 DEF AfterStatement, SeedInv, RanksListed, ListedUnits
<1>6. CASE seed' = Resting("idle")
  <2>1. AtEase'
    BY <1>4, <1>5, <1>6 DEF AtEase, Resting
  <2>2. QED
    BY <2>1, AtEaseNext
<1>7. CASE seed' # Resting("idle") /\ seed.stage = "reconcile"
  <2>1. seed' = [seed EXCEPT !.todo = Tail(@)]
    BY <1>3, <1>7 DEF AfterStatement
  <2>2. seed'.stage = "reconcile" /\ seed'.stage \notin AtRest
    BY <1>1, <1>7, <2>1 DEF AtRest
  <2>3. Reconciling(seed.todo)'
    BY <1>7, StatementReconciles DEF SeedInv
  <2>4. QED
    BY <1>4, <1>5, <2>2, <2>3 DEF SeedInv
<1>8. CASE seed.stage = "occur"
  <2>1. /\ seed' = [seed EXCEPT !.todo = Tail(@)] /\ rows' = rows
        /\ Refilling(seed.todo)'
    BY <1>8, StatementRefills DEF SeedInv
  <2>2. seed'.stage = "occur" /\ seed'.stage \notin AtRest
    BY <1>1, <1>8, <2>1 DEF AtRest
  <2>3. SameForms /\ ranks' = ranks
    BY <1>3, <2>1, SameRows DEF AfterStatement
  <2>4. RanksFollow' /\ AllSettled'
    BY <1>8, <2>3, FormsKeep DEF SeedInv
  <2>5. QED
    BY <1>4, <1>5, <2>1, <2>2, <2>4 DEF SeedInv
<1>9. QED
  BY <1>2, <1>6, <1>7, <1>8

LEMMA RankingSeeds ==
  ASSUME CatInv, SeedInv, SeedPhonemes
  PROVE  SeedInv'
<1>1. /\ seed.stage = "reconcile" /\ seed.todo = << >>
      /\ release' = release /\ rows' = rows /\ occurs' = occurs
  BY DEF SeedPhonemes
<1>2. RanksListed' /\ RanksFollow' /\ seed' = [seed EXCEPT !.stage = "rank"]
  BY RankingSucceeds DEF CatInv, SeedInv
<1>3. AllSettled
  <2>1. \A i \in DOMAIN rows : Settled(rows[i].form) \/ Ends(<< >>, i)
    BY <1>1 DEF SeedInv, Reconciling
  <2>2. \A i : ~Ends(<< >>, i)
    BY StatementsOfNone DEF Ends
  <2>3. QED
    BY <2>1, <2>2 DEF AllSettled
<1>4. AllSettled'
  <2>1. SameForms
    BY <1>1, SameRows
  <2>2. QED
    BY <1>1, <1>3, <2>1, FormsDecide DEF AllSettled
<1>5. seed'.stage = "rank" /\ seed'.todo = << >>
  <2>1. seed \in [stage : Stages, todo : Seq(Statements)]
    BY DEF CatInv
  <2>2. QED
    BY <1>1, <1>2, <2>1
<1>6. DOMAIN occurs' = DOMAIN rows'
  BY <1>1 DEF SeedInv
<1>7. QED
  BY <1>2, <1>4, <1>5, <1>6 DEF SeedInv

LEMMA PopulateSeeds ==
  ASSUME CatInv, SeedInv, PopulateOccurrences
  PROVE  SeedInv'
<1> DEFINE x == AllOccurrences
<1>1. /\ seed.stage = "rank" /\ seed' = [stage |-> "occur", todo |-> x]
      /\ release' = release /\ rows' = rows /\ occurs' = occurs /\ ranks' = ranks
  BY DEF PopulateOccurrences
<1>2. RanksListed /\ RanksFollow /\ AllSettled
  BY <1>1 DEF SeedInv
<1>3. Refilling(x)
  BY <1>2, PopulatingRefills DEF CatInv
<1> HIDE DEF x
<1>4. seed'.stage = "occur" /\ seed'.todo = x /\ seed'.stage \notin AtRest
  BY <1>1 DEF AtRest
<1>5. SameForms
  BY <1>1, SameRows
<1>6. RanksListed' /\ RanksFollow' /\ AllSettled'
  BY <1>1, <1>2, <1>5, FormsKeep
<1>7. ASSUME NEW i \in DOMAIN rows, Tokenises(rows[i].form)'
      PROVE  Refilled(seed.todo, i)'
  <2>1. Tokenises(rows[i].form) /\ UnitsOfRow(i)' = UnitsOfRow(i)
    BY <1>5, <1>7, FormsDecide
  <2>2. Refilled(x, i)
    BY <1>3, <2>1 DEF Refilling
  <2>3. QED
    BY <1>1, <1>4, <2>1, <2>2 DEF Refilled
<1>8. Refilling(seed.todo)'
  BY <1>1, <1>3, <1>4, <1>7 DEF Refilling
<1>9. DOMAIN occurs' = DOMAIN rows'
  BY <1>1 DEF SeedInv
<1>10. QED
  BY <1>4, <1>6, <1>8, <1>9 DEF SeedInv

LEMMA ValidateSeeds ==
  ASSUME CatInv, SeedInv, ValidateSeed
  PROVE  SeedInv'
<1>1. /\ seed.stage = "occur" /\ seed.todo = << >>
      /\ seed' = Resting(IF SeedProblems THEN "invalid" ELSE "valid")
      /\ release' = release /\ rows' = rows /\ occurs' = occurs /\ ranks' = ranks
  BY DEF ValidateSeed
<1>2. /\ DOMAIN occurs' = DOMAIN rows' /\ SameForms
      /\ RanksListed /\ RanksFollow /\ AllSettled /\ Refilling(<< >>)
  BY <1>1, SameRows DEF SeedInv
<1>3. RanksListed' /\ RanksFollow' /\ AllSettled'
  BY <1>1, <1>2, FormsKeep
<1>4. CASE SeedProblems
  <2>1. seed' = Resting("invalid")
    BY <1>1, <1>4
  <2>2. AtEase'
    BY <1>2, <1>3, <2>1 DEF AtEase, Resting
  <2>3. QED
    BY <2>2, AtEaseNext
<1>5. CASE ~SeedProblems
  <2>1. seed' = Resting("valid")
    BY <1>1, <1>5
  <2>2. seed'.stage = "valid" /\ seed'.todo = << >>
    BY <2>1 DEF Resting
  <2>3. \A i \in DOMAIN rows : Tokenises(rows[i].form)
    BY <1>5 DEF SeedProblems
  <2>4. Populated
    BY <1>2, <2>3, RefilledAtLast DEF CatInv, Populated
  <2>5. Populated'
    BY <1>1, <1>2, <2>4, PopulatedKeeps
  <2>6. QED
    BY <1>2, <1>3, <2>2, <2>5 DEF SeedInv
<1>6. QED
  BY <1>4, <1>5

LEMMA ClipSeeds ==
  ASSUME CatInv, SeedInv, AttachWordClip
  PROVE  SeedInv'
<1>1. PICK i \in DOMAIN rows : rows' = [rows EXCEPT ![i].clip = TRUE]
  BY DEF AttachWordClip
<1>2. PICK b \in BOOLEAN : b = TRUE
  OBVIOUS
<1>3. rows' = [rows EXCEPT ![i] = [rows[i] EXCEPT !.clip = b]] /\ rows[i] \in Row
  BY <1>1, <1>2 DEF CatInv, Persisted, Table
<1>4. /\ seed.stage \in AtRest /\ seed' = seed
      /\ release' = release /\ occurs' = occurs /\ ranks' = ranks
  BY DEF AttachWordClip
<1>5. SameForms
  BY <1>3, <1>4 DEF SameForms, Row
<1>6. /\ DOMAIN occurs' = DOMAIN rows' /\ RanksListed'
      /\ RanksFollow => RanksFollow'
      /\ AllSettled => AllSettled'
      /\ Populated => Populated'
  BY <1>4, <1>5, FormsKeep, PopulatedKeeps DEF SeedInv, SameForms
<1>7. seed.stage \notin {"reconcile", "occur"}
  BY <1>4 DEF AtRest
<1>8. QED
  BY <1>4, <1>6, <1>7 DEF SeedInv

LEMMA ReleaseSeeds ==
  ASSUME CatInv, SeedInv, NextRelease
  PROVE  SeedInv'
<1>1. /\ release + 1 \in Releases /\ release' = release + 1 /\ seed' = Resting("idle")
      /\ rows' = rows /\ occurs' = occurs /\ ranks' = ranks
  BY DEF NextRelease
<1>2. release \in Releases /\ release' \in Releases
  BY <1>1 DEF CatInv, Persisted
<1>3. ListedUnits \in SUBSET (ListedUnits')
  BY <1>1, <1>2, CatalogueAssumption DEF Releases, ListedUnits
<1>4. IsFiniteSet(ListedUnits') /\ Cardinality(ListedUnits') \in Nat
  <2>1. InRelease'
    BY <1>2 DEF InRelease, Releases
  <2>2. QED
    BY <2>1, ReleaseListsNext DEF FinitelyListed
<1>5. Cardinality(ListedUnits) <= Cardinality(ListedUnits') /\ Cardinality(ListedUnits) \in Nat
  <2>1. Cardinality(ListedUnits) <= Cardinality(ListedUnits')
    BY <1>3, <1>4, FS_Subset
  <2>2. QED
    BY <1>2, <2>1, ListedFinite
<1>6. RanksListed'
  <2>1. \A u \in Units : ranks[u] \in Nat /\ ranks[u] <= Cardinality(ListedUnits)
    BY DEF SeedInv, RanksListed
  <2>2. \A u \in Units : ranks[u] <= Cardinality(ListedUnits') /\ (u \notin ListedUnits' => ranks[u] = 0)
    BY <1>3, <1>4, <1>5, <2>1 DEF SeedInv, RanksListed
  <2>3. QED
    BY <1>1, <2>2 DEF SeedInv, RanksListed
<1>7. AtEase'
  BY <1>1, <1>6 DEF SeedInv, AtEase, Resting
<1>8. QED
  BY <1>7, AtEaseNext

LEMMA SeedSteps ==
  ASSUME CatInv, SeedInv, [CatalogueNext]_catVars
  PROVE  SeedInv'
<1>1. CASE SeedWordsScript
  <2>1. PICK e \in Entries : LoadEntry(e)
    BY <1>1 DEF SeedWordsScript
  <2>2. QED
    BY <2>1, LoadSeeds
<1>2. CASE StopSeed
  <2>1. /\ seed' = Resting("idle")
        /\ rows' = rows /\ occurs' = occurs /\ ranks' = ranks /\ release' = release
    BY <1>2 DEF StopSeed
  <2>2. RanksListed'
    BY <2>1 DEF SeedInv, RanksListed, ListedUnits
  <2>3. AtEase'
    BY <2>1, <2>2 DEF SeedInv, AtEase, Resting
  <2>4. QED
    BY <2>3, AtEaseNext
<1>3. CASE UNCHANGED catVars
  <2>1. /\ seed' = seed
        /\ rows' = rows /\ occurs' = occurs /\ ranks' = ranks /\ release' = release
    BY <1>3 DEF catVars
  <2>2. SameForms
    BY <2>1, SameRows
  <2>3. /\ RanksListed'
        /\ RanksFollow => RanksFollow'
        /\ AllSettled => AllSettled'
        /\ Populated => Populated'
    BY <2>1, <2>2, FormsKeep, PopulatedKeeps DEF SeedInv
  <2>4. Reconciling(seed.todo) => Reconciling(seed.todo)'
    BY <2>1 DEF Reconciling, Straight, Settled, Ends, Tokenises, CanonicalOf
  <2>5. Refilling(seed.todo) => Refilling(seed.todo)'
    BY <2>1 DEF Refilling, Refilled, UnitsOfRow, Tokenises, CanonicalOf
  <2>6. DOMAIN occurs' = DOMAIN rows'
    BY <2>1 DEF SeedInv
  <2>7. QED
    BY <2>1, <2>3, <2>4, <2>5, <2>6 DEF SeedInv
<1>4. \/ SeedWordsScript \/ SeedPhonemesScript \/ StopSeed
      \/ AttachWordClip \/ NextRelease \/ UNCHANGED catVars
  BY Zenon DEF CatalogueNext
<1>5. CASE SeedPhonemesScript
  <2>1. \/ ReconcilePronunciations \/ RunStatement
        \/ SeedPhonemes \/ PopulateOccurrences \/ ValidateSeed
    BY <1>5, Zenon DEF SeedPhonemesScript
  <2>2. QED
    BY <2>1, ReconcileSeeds, StatementSeeds, RankingSeeds, PopulateSeeds, ValidateSeeds, Zenon
<1>6. CASE AttachWordClip
  BY <1>6, ClipSeeds
<1>7. CASE NextRelease
  BY <1>7, ReleaseSeeds
<1>8. QED
  BY <1>1, <1>2, <1>3, <1>4, <1>5, <1>6, <1>7, Zenon

(* validateSeed: when it passes, each row has its canonical form, no two   *)
(* rows the same, and as its occurrences the units of that form, and the   *)
(* ranks follow the counts; and ranking never meets UNIQUE (variant_id,    *)
(* frequency_rank), whatever ranks the units had before. This holds for    *)
(* every content an earlier release left and every point at which a script *)
(* was stopped.                                                            *)
THEOREM ValidSeedsAreSound == CatalogueSpec => []ValidSeedIsSound
<1>1. CatalogueInit => CatInv /\ SeedInv
  BY CatalogueStarts, SeedStarts
<1>2. CatInv /\ SeedInv /\ [CatalogueNext]_catVars => CatInv' /\ SeedInv'
  BY CatalogueSteps, SeedSteps
<1>3. CatInv /\ SeedInv => ValidSeedIsSound
  <2> SUFFICES ASSUME CatInv, SeedInv PROVE ValidSeedIsSound
    OBVIOUS
  <2>1. ASSUME seed.stage = "valid", NEW i \in DOMAIN rows
        PROVE  /\ CanonicalOf(rows[i].form) = rows[i].form
               /\ occurs[i] = UnitsOf[release][rows[i].form]
               /\ \A j \in DOMAIN rows \ {i} : rows[j].form # rows[i].form
    <3>1. Tokenises(rows[i].form) /\ occurs[i] = UnitsOfRow(i)
      BY <2>1 DEF SeedInv, Populated
    <3>2. Settled(rows[i].form)
      BY <2>1 DEF SeedInv, AllSettled
    <3>3. CanonicalOf(rows[i].form) = rows[i].form
      BY <3>1, <3>2 DEF Settled
    <3>4. \A j \in DOMAIN rows \ {i} : rows[j].form # rows[i].form
      BY TableKeys DEF CatInv, Persisted
    <3>5. QED
      BY <3>1, <3>3, <3>4 DEF UnitsOfRow
  <2>2. ASSUME seed.stage = "valid"
        PROVE  \A u, v \in ToSet(Inventory[release]) :
                 CountOf(u) > CountOf(v) => ranks[u] < ranks[v]
    BY <2>2 DEF SeedInv, RanksFollow, ListedUnits
  <2>3. seed.stage # "refused"
    BY DEF SeedInv
  <2>4. QED
    BY <2>1, <2>2, <2>3 DEF ValidSeedIsSound
<1>4. QED
  BY <1>1, <1>2, <1>3, PTL DEF CatalogueSpec

------------------------------------------------------------------------------
(* WordSearch. The two loops of optimalStringAlignment are one grid of     *)
(* distances between the beginnings of two words.                          *)

RowsOf(b) == [0..Len(b) -> Nat]

TwoAgo(g, i) == IF i = 1 THEN g[0] ELSE g[i - 2]

IsGrid(a, b, g) ==
  /\ g \in [0..Len(a) -> RowsOf(b)]
  /\ \A j \in 0..Len(b) : g[0][j] = j
  /\ \A i \in 1..Len(a) : g[i][0] = i
  /\ \A i \in 1..Len(a), j \in 1..Len(b) :
       g[i][j] = Cell(a, b, i, j, g[i][j - 1], g[i - 1], TwoAgo(g, i))

LEMMA CellType ==
  ASSUME NEW a, NEW b, Len(b) \in Nat, NEW i \in Nat, NEW j \in 1..Len(b), NEW left \in Nat,
         NEW previous \in RowsOf(b), NEW twoAgo \in RowsOf(b)
  PROVE  Cell(a, b, i, j, left, previous, twoAgo) \in Nat
<1>1. j \in 0..Len(b) /\ j - 1 \in 0..Len(b) /\ (j > 1 => j - 2 \in 0..Len(b))
  OBVIOUS
<1>2. previous[j] \in Nat /\ previous[j - 1] \in Nat /\ (j > 1 => twoAgo[j - 2] \in Nat)
  BY <1>1 DEF RowsOf
<1>3. \A m, n \in Nat : Lesser(m, n) \in Nat
  BY DEF Lesser
<1> DEFINE edited == Lesser(Lesser(left, previous[j]) + 1,
                           previous[j - 1] + IF a[i] = b[j] THEN 0 ELSE 1)
<1>4. edited \in Nat
  <2>0. Lesser(left, previous[j]) \in Nat
    BY <1>2, <1>3
  <2>1. Lesser(left, previous[j]) + 1 \in Nat
    BY <2>0
  <2>2. previous[j - 1] + (IF a[i] = b[j] THEN 0 ELSE 1) \in Nat
    BY <1>2
  <2>3. QED
    BY <1>3, <2>1, <2>2
<1> HIDE DEF edited
<1>5. ASSUME j > 1 PROVE Lesser(edited, twoAgo[j - 2] + 1) \in Nat
  <2>1. twoAgo[j - 2] + 1 \in Nat
    BY <1>2, <1>5
  <2>2. QED
    BY <1>3, <1>4, <2>1
<1>6. Cell(a, b, i, j, left, previous, twoAgo) =
        IF i > 1 /\ j > 1 /\ a[i] = b[j - 1] /\ a[i - 1] = b[j]
          THEN Lesser(edited, twoAgo[j - 2] + 1) ELSE edited
  BY DEF Cell, edited
<1>7. QED
  BY <1>4, <1>5, <1>6

LEMMA NextRowFacts ==
  ASSUME NEW a, NEW b, Len(b) \in Nat, NEW i \in Nat,
         NEW previous \in RowsOf(b), NEW twoAgo \in RowsOf(b)
  PROVE  LET row == NextRow(a, b, i, previous, twoAgo)
         IN  /\ row \in RowsOf(b) /\ row[0] = i
             /\ \A j \in 1..Len(b) : row[j] = Cell(a, b, i, j, row[j - 1], previous, twoAgo)
<1> DEFINE m == Len(b)
           Next2(v, j) == Cell(a, b, i, j, v, previous, twoAgo)
           step == [p \in Nat \X (1..m) |-> Next2(p[1], p[2])]
           body(f) == [j \in 0..m |-> IF j = 0 THEN i ELSE Next2(f[j - 1], j)]
           upTo == CHOOSE f : f = body(f)
<1>1. m \in Nat
  OBVIOUS
<1>2. \A v \in Nat, j \in 1..m : Next2(v, j) \in Nat
  BY CellType
<1>3. NextRow(a, b, i, previous, twoAgo) = upTo
  BY DEF NextRow
<1> HIDE DEF m, Next2
<1>4. step \in [Nat \X (1..m) -> Nat]
  BY <1>2
<1>5. \A v \in Nat, j \in 1..m : step[<<v, j>>] = Next2(v, j)
  OBVIOUS
<1> HIDE DEF step
<1>6. PICK f : IsRun(Nat, i, m, step, f)
  BY <1>1, <1>4, Recursion
<1>7. /\ f \in [0..m -> Nat] /\ f[0] = i
      /\ \A j \in 1..m : f[j] = step[<<f[j - 1], j>>]
  BY <1>6 DEF IsRun
<1>8. \A j \in 1..m : f[j] = Next2(f[j - 1], j)
  <2> SUFFICES ASSUME NEW j \in 1..m PROVE f[j] = Next2(f[j - 1], j)
    OBVIOUS
  <2>1. j - 1 \in 0..m
    BY <1>1
  <2>2. f[j - 1] \in Nat /\ f[j] = step[<<f[j - 1], j>>]
    BY <1>7, <2>1
  <2>3. QED
    BY <1>5, <2>2
<1>9. f = body(f)
  <2>1. \A j \in 0..m : j = 0 \/ j \in 1..m
    BY <1>1
  <2>2. \A j \in 0..m : f[j] = IF j = 0 THEN i ELSE Next2(f[j - 1], j)
    BY <1>7, <1>8, <2>1
  <2>3. DOMAIN f = 0..m /\ f = [j \in 0..m |-> f[j]]
    BY <1>7
  <2>4. QED
    BY <2>2, <2>3
<1>10. upTo = body(upTo)
  BY <1>9
<1> HIDE DEF upTo
<1>11. \A j \in 0..m : upTo[j] = IF j = 0 THEN i ELSE Next2(upTo[j - 1], j)
  BY <1>10
<1> DEFINE T == {j \in 0..m : upTo[j] \in Nat}
<1>12. 0 \in T
  BY <1>1, <1>11
<1>13. ASSUME NEW j \in T, j < m PROVE j + 1 \in T
  <2>1. j + 1 \in 1..m /\ j + 1 \in 0..m /\ j + 1 # 0 /\ (j + 1) - 1 = j /\ upTo[j] \in Nat
    BY <1>1, <1>13
  <2>2. upTo[j + 1] = Next2(upTo[j], j + 1)
    BY <1>11, <2>1
  <2>3. QED
    BY <1>2, <2>1, <2>2
<1>14. T \in SUBSET (0..m)
  OBVIOUS
<1> HIDE DEF T
<1>15. T = 0..m
  BY <1>1, <1>12, <1>13, <1>14, EveryNumber
<1>16. upTo \in [0..m -> Nat]
  <2>1. \A j \in 0..m : upTo[j] \in Nat
    BY <1>15 DEF T
  <2>2. DOMAIN upTo = 0..m /\ upTo = [j \in 0..m |-> upTo[j]]
    BY <1>10
  <2>3. QED
    BY <2>1, <2>2
<1>17. upTo[0] = i /\ \A j \in 1..m : upTo[j] = Next2(upTo[j - 1], j)
  BY <1>1, <1>11
<1>18. QED
  BY <1>3, <1>16, <1>17 DEF m, Next2, RowsOf

LEMMA GridExists ==
  ASSUME NEW S, NEW a \in Seq(S), NEW b \in Seq(S)
  PROVE  \E g : IsGrid(a, b, g) /\ OptimalStringAlignment(a, b) = g[Len(a)][Len(b)]
<1> DEFINE m == Len(a)
           U == [previous : RowsOf(b), twoAgo : RowsOf(b)]
           first == [j \in 0..Len(b) |-> j]
           c == [previous |-> first, twoAgo |-> first]
           Below(u, i) == [previous |-> NextRow(a, b, i, u.previous, u.twoAgo),
                           twoAgo |-> u.previous]
           step == [p \in U \X (1..m) |-> Below(p[1], p[2])]
           body(f) == [i \in 0..m |-> IF i = 0 THEN c ELSE Below(f[i - 1], i)]
           upTo == CHOOSE f : f = body(f)
<1>1. m \in Nat /\ Len(b) \in Nat
  OBVIOUS
<1>2. first \in RowsOf(b) /\ c \in U
  BY <1>1 DEF RowsOf
<1>3. \A u \in U, i \in 1..m :
        /\ NextRow(a, b, i, u.previous, u.twoAgo) \in RowsOf(b)
        /\ NextRow(a, b, i, u.previous, u.twoAgo)[0] = i
        /\ \A j \in 1..Len(b) :
             NextRow(a, b, i, u.previous, u.twoAgo)[j] =
               Cell(a, b, i, j, NextRow(a, b, i, u.previous, u.twoAgo)[j - 1], u.previous, u.twoAgo)
  <2> SUFFICES ASSUME NEW u \in U, NEW i \in 1..m
               PROVE  /\ NextRow(a, b, i, u.previous, u.twoAgo) \in RowsOf(b)
                      /\ NextRow(a, b, i, u.previous, u.twoAgo)[0] = i
                      /\ \A j \in 1..Len(b) :
                           NextRow(a, b, i, u.previous, u.twoAgo)[j] =
                             Cell(a, b, i, j, NextRow(a, b, i, u.previous, u.twoAgo)[j - 1],
                                  u.previous, u.twoAgo)
    BY Zenon
  <2>1. u.previous \in RowsOf(b) /\ u.twoAgo \in RowsOf(b) /\ i \in Nat
    OBVIOUS
  <2>2. QED
    BY <1>1, <2>1, NextRowFacts
<1>4. \A u \in U, i \in 1..m : Below(u, i) \in U
  BY <1>3
<1>5. OptimalStringAlignment(a, b) = upTo[m].previous[Len(b)]
  BY DEF OptimalStringAlignment
<1>6. \A u \in U, i \in 1..m : /\ Below(u, i).previous = NextRow(a, b, i, u.previous, u.twoAgo)
                               /\ Below(u, i).twoAgo = u.previous
  OBVIOUS
<1>7. c.previous = first /\ c.twoAgo = first /\ \A j \in 0..Len(b) : first[j] = j
  OBVIOUS
<1> HIDE DEF m, c, first, Below
<1>8. step \in [U \X (1..m) -> U]
  BY <1>4
<1>9. \A u \in U, i \in 1..m : step[<<u, i>>] = Below(u, i)
  OBVIOUS
<1> HIDE DEF step, U
<1>10. PICK f : IsRun(U, c, m, step, f)
  BY <1>1, <1>2, <1>8, Recursion
<1>11. /\ f \in [0..m -> U] /\ f[0] = c
       /\ \A i \in 1..m : f[i] = step[<<f[i - 1], i>>]
  BY <1>10 DEF IsRun
<1>12. \A i \in 1..m : f[i] = Below(f[i - 1], i)
  <2> SUFFICES ASSUME NEW i \in 1..m PROVE f[i] = Below(f[i - 1], i)
    OBVIOUS
  <2>1. i - 1 \in 0..m
    BY <1>1
  <2>2. f[i - 1] \in U /\ f[i] = step[<<f[i - 1], i>>]
    BY <1>11, <2>1
  <2>3. QED
    BY <1>9, <2>2
<1>13. f = body(f)
  <2>1. \A i \in 0..m : i = 0 \/ i \in 1..m
    BY <1>1
  <2>2. \A i \in 0..m : f[i] = IF i = 0 THEN c ELSE Below(f[i - 1], i)
    BY <1>11, <1>12, <2>1
  <2>3. DOMAIN f = 0..m /\ f = [i \in 0..m |-> f[i]]
    BY <1>11
  <2>4. QED
    BY <2>2, <2>3
<1>14. upTo = body(upTo)
  BY <1>13
<1> HIDE DEF upTo
<1>15. \A i \in 0..m : upTo[i] = IF i = 0 THEN c ELSE Below(upTo[i - 1], i)
  BY <1>14
<1> DEFINE T == {i \in 0..m : upTo[i] \in U}
<1>16. 0 \in T
  BY <1>1, <1>2, <1>15
<1>17. ASSUME NEW i \in T, i < m PROVE i + 1 \in T
  <2>1. i + 1 \in 1..m /\ i + 1 \in 0..m /\ i + 1 # 0 /\ (i + 1) - 1 = i /\ upTo[i] \in U
    BY <1>1, <1>17
  <2>2. upTo[i + 1] = Below(upTo[i], i + 1)
    BY <1>15, <2>1
  <2>3. QED
    BY <1>4, <2>1, <2>2
<1>18. T \in SUBSET (0..m)
  OBVIOUS
<1> HIDE DEF T
<1>19. T = 0..m
  BY <1>1, <1>16, <1>17, <1>18, EveryNumber
<1>20. \A i \in 0..m : upTo[i] \in U
  BY <1>19 DEF T
<1> DEFINE g == [i \in 0..m |-> upTo[i].previous]
<1>21. \A i \in 0..m : upTo[i].previous \in RowsOf(b) /\ g[i] = upTo[i].previous
  BY <1>20 DEF U
<1>22. g \in [0..m -> RowsOf(b)]
  BY <1>21
<1>23. \A j \in 0..Len(b) : g[0][j] = j
  BY <1>1, <1>7, <1>15, <1>21
<1> HIDE DEF g
<1>24. ASSUME NEW i \in 1..m
       PROVE  /\ g[i] = NextRow(a, b, i, g[i - 1], TwoAgo(g, i))
              /\ upTo[i - 1] \in U /\ g[i - 1] = upTo[i - 1].previous
              /\ TwoAgo(g, i) = upTo[i - 1].twoAgo
  <2>1. i \in 0..m /\ i - 1 \in 0..m /\ i # 0 /\ i \in Nat
    BY <1>1
  <2>2. upTo[i - 1] \in U /\ upTo[i] = Below(upTo[i - 1], i)
    BY <1>15, <1>20, <2>1
  <2>3. TwoAgo(g, i) = upTo[i - 1].twoAgo
    <3>1. CASE i = 1
      <4>1. i - 1 = 0 /\ upTo[0] = c /\ g[0] = c.previous
        BY <1>1, <1>15, <1>21, <3>1
      <4>2. QED
        BY <1>7, <3>1, <4>1 DEF TwoAgo
    <3>2. CASE i # 1
      <4>1. i - 2 \in 0..m /\ i - 1 \in 1..m /\ (i - 1) - 1 = i - 2 /\ i - 1 # 0
        BY <1>1, <3>2
      <4>2. upTo[i - 2] \in U /\ upTo[i - 1] = Below(upTo[i - 2], i - 1)
        BY <1>15, <1>20, <4>1
      <4>3. upTo[i - 1].twoAgo = upTo[i - 2].previous
        BY <1>6, <4>1, <4>2
      <4>4. QED
        BY <1>21, <3>2, <4>1, <4>3 DEF TwoAgo
    <3>3. QED
      BY <3>1, <3>2
  <2>4. g[i] = NextRow(a, b, i, upTo[i - 1].previous, upTo[i - 1].twoAgo)
    BY <1>6, <1>21, <2>1, <2>2
  <2>5. g[i - 1] = upTo[i - 1].previous
    BY <1>21, <2>1
  <2>6. QED
    BY <2>2, <2>3, <2>4, <2>5
<1>25. ASSUME NEW i \in 1..m
       PROVE  /\ g[i][0] = i
              /\ \A j \in 1..Len(b) :
                   g[i][j] = Cell(a, b, i, j, g[i][j - 1], g[i - 1], TwoAgo(g, i))
  <2>1. /\ g[i] = NextRow(a, b, i, g[i - 1], TwoAgo(g, i))
        /\ upTo[i - 1] \in U /\ g[i - 1] = upTo[i - 1].previous
        /\ TwoAgo(g, i) = upTo[i - 1].twoAgo
    BY <1>24
  <2>2. g[i] = NextRow(a, b, i, upTo[i - 1].previous, upTo[i - 1].twoAgo)
    BY <2>1
  <2>3. QED
    BY <1>3, <2>1, <2>2
<1>26. IsGrid(a, b, g)
  BY <1>22, <1>23, <1>25 DEF IsGrid, m
<1>27. OptimalStringAlignment(a, b) = g[Len(a)][Len(b)]
  <2>1. m \in 0..m
    BY <1>1
  <2>2. QED
    BY <1>5, <1>21, <2>1 DEF m
<1>28. QED
  BY <1>26, <1>27

(* The last letters of the two beginnings changed places.                  *)
Swapped(a, b, i, j) == i > 1 /\ j > 1 /\ a[i] = b[j - 1] /\ a[i - 1] = b[j]

(* d is one step from what is to its left, above it, and diagonally behind *)
(* it by one and by two.                                                   *)
CellFits(a, b, i, j, d, left, above, behind, two) ==
  /\ left \in Nat /\ above \in Nat /\ behind \in Nat
  /\ Swapped(a, b, i, j) => two \in Nat
  /\ d = LET edited == Lesser(Lesser(left, above) + 1, behind + IF a[i] = b[j] THEN 0 ELSE 1)
         IN  IF Swapped(a, b, i, j) THEN Lesser(edited, two + 1) ELSE edited

LEMMA CellZero ==
  ASSUME NEW a, NEW b, NEW i, NEW j, NEW d, NEW left, NEW above, NEW behind, NEW two,
         CellFits(a, b, i, j, d, left, above, behind, two)
  PROVE  d = 0 <=> behind = 0 /\ a[i] = b[j]
BY DEF CellFits, Lesser

LEMMA CellOne ==
  ASSUME NEW a, NEW b, NEW i, NEW j, NEW d, NEW left, NEW above, NEW behind, NEW two,
         CellFits(a, b, i, j, d, left, above, behind, two)
  PROVE  d = 1 <=> /\ d # 0
                   /\ \/ above = 0 \/ left = 0
                      \/ a[i] # b[j] /\ behind = 0
                      \/ Swapped(a, b, i, j) /\ two = 0
                      \/ a[i] = b[j] /\ behind = 1
BY DEF CellFits, Lesser

LEMMA CellMirrored ==
  ASSUME NEW a, NEW b, NEW i, NEW j, NEW d, NEW e, NEW left, NEW above, NEW behind, NEW two,
         CellFits(a, b, i, j, d, left, above, behind, two),
         CellFits(b, a, j, i, e, above, left, behind, two)
  PROVE  d = e
<1>1. Swapped(a, b, i, j) <=> Swapped(b, a, j, i)
  BY DEF Swapped
<1>2. /\ left \in Nat /\ above \in Nat /\ behind \in Nat
      /\ Swapped(a, b, i, j) => two \in Nat
  BY DEF CellFits
<1>3. Lesser(left, above) = Lesser(above, left)
  BY <1>2 DEF Lesser
<1>4. (IF a[i] = b[j] THEN 0 ELSE 1) = (IF b[j] = a[i] THEN 0 ELSE 1)
  OBVIOUS
<1>5. QED
  BY <1>1, <1>3, <1>4 DEF CellFits

LEMMA GridCell ==
  ASSUME NEW S, NEW a \in Seq(S), NEW b \in Seq(S), NEW g, IsGrid(a, b, g),
         NEW i \in 1..Len(a), NEW j \in 1..Len(b)
  PROVE  CellFits(a, b, i, j, g[i][j], g[i][j - 1], g[i - 1][j], g[i - 1][j - 1],
                  g[i - 2][j - 2])
<1>1. Len(a) \in Nat /\ Len(b) \in Nat
  OBVIOUS
<1>2. \A x \in 0..Len(a), y \in 0..Len(b) : g[x][y] \in Nat
  BY DEF IsGrid, RowsOf
<1>3. /\ i \in 0..Len(a) /\ i - 1 \in 0..Len(a) /\ j \in 0..Len(b) /\ j - 1 \in 0..Len(b)
      /\ i > 1 => i - 2 \in 0..Len(a)
      /\ j > 1 => j - 2 \in 0..Len(b)
  BY <1>1
<1>4. g[i][j] = Cell(a, b, i, j, g[i][j - 1], g[i - 1], TwoAgo(g, i))
  BY DEF IsGrid
<1>5. i > 1 => TwoAgo(g, i) = g[i - 2]
  BY <1>1 DEF TwoAgo
<1>6. /\ g[i][j - 1] \in Nat /\ g[i - 1][j] \in Nat /\ g[i - 1][j - 1] \in Nat
      /\ Swapped(a, b, i, j) => g[i - 2][j - 2] \in Nat
  BY <1>2, <1>3 DEF Swapped
<1>7. g[i][j] =
        LET edited == Lesser(Lesser(g[i][j - 1], g[i - 1][j]) + 1,
                             g[i - 1][j - 1] + IF a[i] = b[j] THEN 0 ELSE 1)
        IN  IF Swapped(a, b, i, j) THEN Lesser(edited, g[i - 2][j - 2] + 1) ELSE edited
  BY <1>4, <1>5 DEF Cell, Swapped
<1>8. QED
  BY <1>6, <1>7 DEF CellFits

LEMMA GridNumbers ==
  ASSUME NEW S, NEW a \in Seq(S), NEW b \in Seq(S), NEW g, IsGrid(a, b, g),
         NEW i \in 0..Len(a), NEW j \in 0..Len(b)
  PROVE  g[i][j] \in Nat /\ (i = 0 => g[i][j] = j) /\ (j = 0 => g[i][j] = i)
<1>1. Len(a) \in Nat /\ Len(b) \in Nat
  OBVIOUS
<1>2. g[i][j] \in Nat
  BY DEF IsGrid, RowsOf
<1>3. i = 0 => g[i][j] = j
  BY DEF IsGrid
<1>4. ASSUME j = 0, i # 0 PROVE g[i][j] = i
  <2>1. i \in 1..Len(a)
    BY <1>1, <1>4
  <2>2. QED
    BY <1>4, <2>1 DEF IsGrid
<1>5. QED
  BY <1>2, <1>3, <1>4

LEMMA GridSymmetric ==
  ASSUME NEW S, NEW a \in Seq(S), NEW b \in Seq(S), NEW g, IsGrid(a, b, g),
         NEW h, IsGrid(b, a, h)
  PROVE  \A i \in 0..Len(a), j \in 0..Len(b) : g[i][j] = h[j][i]
<1> DEFINE m == Len(a)
           n == Len(b)
           T == {s \in 0..(m + n) : \A i \in 0..m, j \in 0..n : i + j <= s => g[i][j] = h[j][i]}
<1>1. m \in Nat /\ n \in Nat
  OBVIOUS
<1>2. ASSUME NEW i \in 0..m, NEW j \in 0..n, i = 0 \/ j = 0
      PROVE  g[i][j] = h[j][i]
  <2>1. (i = 0 => g[i][j] = j) /\ (j = 0 => g[i][j] = i)
    BY GridNumbers
  <2>2. (j = 0 => h[j][i] = i) /\ (i = 0 => h[j][i] = j)
    BY GridNumbers
  <2>3. QED
    BY <1>2, <2>1, <2>2
<1>3. ASSUME NEW i \in 1..m, NEW j \in 1..n,
             g[i][j - 1] = h[j - 1][i], g[i - 1][j] = h[j][i - 1],
             g[i - 1][j - 1] = h[j - 1][i - 1],
             i > 1 /\ j > 1 => g[i - 2][j - 2] = h[j - 2][i - 2]
      PROVE  g[i][j] = h[j][i]
  <2>1. CellFits(a, b, i, j, g[i][j], g[i][j - 1], g[i - 1][j], g[i - 1][j - 1],
                 g[i - 2][j - 2])
    BY GridCell
  <2>2. CellFits(b, a, j, i, h[j][i], h[j][i - 1], h[j - 1][i], h[j - 1][i - 1],
                 h[j - 2][i - 2])
    BY GridCell
  <2>3. CASE Swapped(a, b, i, j)
    <3>1. g[i - 2][j - 2] = h[j - 2][i - 2]
      BY <1>3, <2>3 DEF Swapped
    <3>2. QED
      BY <1>3, <2>1, <2>2, <3>1, CellMirrored
  <2>4. CASE ~Swapped(a, b, i, j)
    <3>1. ~Swapped(b, a, j, i)
      BY <2>4 DEF Swapped
    <3>2. CellFits(b, a, j, i, h[j][i], h[j][i - 1], h[j - 1][i], h[j - 1][i - 1],
                   g[i - 2][j - 2])
      BY <2>2, <3>1 DEF CellFits
    <3>3. QED
      BY <1>3, <2>1, <3>2, CellMirrored
  <2>5. QED
    BY <2>3, <2>4
<1> HIDE DEF m, n
<1>4. 0 \in T
  <2>1. ASSUME NEW i \in 0..m, NEW j \in 0..n, i + j <= 0 PROVE g[i][j] = h[j][i]
    <3>1. i = 0
      BY <1>1, <2>1
    <3>2. QED
      BY <1>2, <3>1
  <2>2. 0 \in 0..(m + n)
    BY <1>1
  <2>3. QED
    BY <2>1, <2>2
<1>5. ASSUME NEW s \in T, s < m + n PROVE s + 1 \in T
  <2>1. s + 1 \in 0..(m + n) /\ s \in Nat
    BY <1>1, <1>5
  <2>2. \A i \in 0..m, j \in 0..n : i + j <= s => g[i][j] = h[j][i]
    OBVIOUS
  <2>3. ASSUME NEW i \in 0..m, NEW j \in 0..n, i + j <= s + 1 PROVE g[i][j] = h[j][i]
    <3>1. CASE i = 0 \/ j = 0
      BY <1>2, <3>1
    <3>2. CASE ~(i = 0 \/ j = 0)
      <4>1. /\ i \in 1..m /\ j \in 1..n /\ i - 1 \in 0..m /\ j - 1 \in 0..n
            /\ i + (j - 1) <= s /\ (i - 1) + j <= s /\ (i - 1) + (j - 1) <= s
        BY <1>1, <2>1, <2>3, <3>2
      <4>2. i > 1 /\ j > 1 => i - 2 \in 0..m /\ j - 2 \in 0..n /\ (i - 2) + (j - 2) <= s
        BY <1>1, <2>1, <2>3
      <4>3. g[i][j - 1] = h[j - 1][i] /\ g[i - 1][j] = h[j][i - 1] /\ g[i - 1][j - 1] = h[j - 1][i - 1]
        BY <2>2, <4>1
      <4>4. i > 1 /\ j > 1 => g[i - 2][j - 2] = h[j - 2][i - 2]
        BY <2>2, <4>2
      <4>5. QED
        BY <1>3, <4>1, <4>3, <4>4
    <3>3. QED
      BY <3>1, <3>2
  <2>4. QED
    BY <2>1, <2>3
<1>6. T \in SUBSET (0..(m + n))
  OBVIOUS
<1> HIDE DEF T
<1>7. m + n \in Nat
  BY <1>1
<1>8. T = 0..(m + n)
  BY <1>4, <1>5, <1>6, <1>7, EveryNumber
<1>9. \A i \in 0..m, j \in 0..n : g[i][j] = h[j][i]
  <2> SUFFICES ASSUME NEW i \in 0..m, NEW j \in 0..n PROVE g[i][j] = h[j][i]
    OBVIOUS
  <2>1. m + n \in T /\ i + j <= m + n
    BY <1>1, <1>8
  <2>2. QED
    BY <2>1 DEF T
<1>10. QED
  BY <1>9 DEF m, n

(* The distance does not depend on which of the two words is the slip.     *)
LEMMA AlignmentSymmetric ==
  ASSUME NEW S, NEW a \in Seq(S), NEW b \in Seq(S)
  PROVE  OptimalStringAlignment(a, b) = OptimalStringAlignment(b, a)
<1>1. PICK g : IsGrid(a, b, g) /\ OptimalStringAlignment(a, b) = g[Len(a)][Len(b)]
  BY GridExists
<1>2. PICK h : IsGrid(b, a, h) /\ OptimalStringAlignment(b, a) = h[Len(b)][Len(a)]
  BY GridExists
<1>3. \A i \in 0..Len(a), j \in 0..Len(b) : g[i][j] = h[j][i]
  BY <1>1, <1>2, GridSymmetric
<1>4. Len(a) \in 0..Len(a) /\ Len(b) \in 0..Len(b)
  OBVIOUS
<1>5. QED
  BY <1>1, <1>2, <1>3, <1>4

(* The beginnings of a and b of lengths i and j are one word.              *)
Agree(a, b, i, j) == i = j /\ \A k \in 1..i : a[k] = b[k]

LEMMA AgreeNext ==
  ASSUME NEW a, NEW b, NEW i \in Nat \ {0}, NEW j \in Nat \ {0}
  PROVE  Agree(a, b, i, j) <=> Agree(a, b, i - 1, j - 1) /\ a[i] = b[j]
<1>1. ASSUME Agree(a, b, i, j) PROVE Agree(a, b, i - 1, j - 1) /\ a[i] = b[j]
  BY <1>1 DEF Agree
<1>2. ASSUME Agree(a, b, i - 1, j - 1), a[i] = b[j] PROVE Agree(a, b, i, j)
  <2>1. i = j /\ \A k \in 1..i : k \in 1..(i - 1) \/ k = i
    BY <1>2 DEF Agree
  <2>2. QED
    BY <1>2, <2>1 DEF Agree
<1>3. QED
  BY <1>1, <1>2

LEMMA GridZero ==
  ASSUME NEW S, NEW a \in Seq(S), NEW b \in Seq(S), NEW g, IsGrid(a, b, g)
  PROVE  \A i \in 0..Len(a), j \in 0..Len(b) : g[i][j] = 0 <=> Agree(a, b, i, j)
<1> DEFINE m == Len(a)
           n == Len(b)
           T == {i \in 0..m : \A j \in 0..n : g[i][j] = 0 <=> Agree(a, b, i, j)}
<1>1. m \in Nat /\ n \in Nat
  OBVIOUS
<1>2. ASSUME NEW i \in 0..m, NEW j \in 0..n, i = 0 \/ j = 0
      PROVE  g[i][j] = 0 <=> Agree(a, b, i, j)
  <2>1. (i = 0 => g[i][j] = j) /\ (j = 0 => g[i][j] = i)
    BY GridNumbers
  <2>2. QED
    BY <1>1, <1>2, <2>1 DEF Agree
<1>3. ASSUME NEW i \in 1..m, NEW j \in 1..n
      PROVE  g[i][j] = 0 <=> g[i - 1][j - 1] = 0 /\ a[i] = b[j]
  BY GridCell, CellZero
<1>3a. ASSUME NEW i \in 1..m, NEW j \in 1..n
       PROVE  Agree(a, b, i, j) <=> Agree(a, b, i - 1, j - 1) /\ a[i] = b[j]
  <2>1. i \in Nat \ {0} /\ j \in Nat \ {0}
    BY <1>1
  <2>2. QED
    BY <2>1, AgreeNext
<1> HIDE DEF m, n
<1>4. 0 \in T
  BY <1>1, <1>2
<1>5. ASSUME NEW i \in T, i < m PROVE i + 1 \in T
  <2>1. i + 1 \in 0..m /\ i + 1 \in 1..m /\ (i + 1) - 1 = i /\ i \in Nat
    BY <1>1, <1>5
  <2>2. \A j \in 0..n : g[i][j] = 0 <=> Agree(a, b, i, j)
    OBVIOUS
  <2>3. ASSUME NEW j \in 0..n PROVE g[i + 1][j] = 0 <=> Agree(a, b, i + 1, j)
    <3>1. CASE j = 0
      BY <1>2, <2>1, <3>1
    <3>2. CASE j # 0
      <4>1. j \in 1..n /\ j - 1 \in 0..n /\ j \in Nat
        BY <1>1, <3>2
      <4>2. g[i + 1][j] = 0 <=> g[i][j - 1] = 0 /\ a[i + 1] = b[j]
        BY <1>3, <2>1, <4>1
      <4>3. Agree(a, b, i + 1, j) <=> Agree(a, b, i, j - 1) /\ a[i + 1] = b[j]
        BY <1>3a, <2>1, <4>1
      <4>4. QED
        BY <2>2, <4>1, <4>2, <4>3
    <3>3. QED
      BY <3>1, <3>2
  <2>4. QED
    BY <2>1, <2>3
<1>6. T \in SUBSET (0..m)
  OBVIOUS
<1> HIDE DEF T
<1>7. T = 0..m
  BY <1>1, <1>4, <1>5, <1>6, EveryNumber
<1>8. QED
  BY <1>7 DEF T, m, n

LEMMA AlignmentZero ==
  ASSUME NEW S, NEW a \in Seq(S), NEW b \in Seq(S)
  PROVE  OptimalStringAlignment(a, b) = 0 <=> a = b
<1>1. PICK g : IsGrid(a, b, g) /\ OptimalStringAlignment(a, b) = g[Len(a)][Len(b)]
  BY GridExists
<1>2. Len(a) \in 0..Len(a) /\ Len(b) \in 0..Len(b)
  OBVIOUS
<1>3. g[Len(a)][Len(b)] = 0 <=> Agree(a, b, Len(a), Len(b))
  BY <1>1, <1>2, GridZero
<1>4. Agree(a, b, Len(a), Len(b)) <=> a = b
  <2>1. DOMAIN a = 1..Len(a) /\ DOMAIN b = 1..Len(b) /\ a \in [1..Len(a) -> S] /\ b \in [1..Len(b) -> S]
    OBVIOUS
  <2>2. ASSUME Agree(a, b, Len(a), Len(b)) PROVE a = b
    <3>1. Len(a) = Len(b) /\ \A k \in 1..Len(a) : a[k] = b[k]
      BY <2>2 DEF Agree
    <3>2. QED
      BY <2>1, <3>1
  <2>3. a = b => Agree(a, b, Len(a), Len(b))
    BY DEF Agree
  <2>4. QED
    BY <2>2, <2>3
<1>5. QED
  BY <1>1, <1>3, <1>4

(* One slip between the beginnings of a and b of lengths i and j: a letter *)
(* of a that b lacks, another letter, two neighbours the other way round.  *)
Dropped(a, b, i, j) ==
  /\ i = j + 1
  /\ \E k \in 1..i : /\ \A x \in 1..(k - 1) : a[x] = b[x]
                     /\ \A x \in k..j : a[x + 1] = b[x]
Changed(a, b, i, j) ==
  /\ i = j
  /\ \E k \in 1..i : a[k] # b[k] /\ \A x \in (1..i) \ {k} : a[x] = b[x]
Crossed(a, b, i, j) ==
  /\ i = j
  /\ \E k \in 1..(i - 1) : /\ a[k] # a[k + 1] /\ b[k] = a[k + 1] /\ b[k + 1] = a[k]
                           /\ \A x \in (1..i) \ {k, k + 1} : a[x] = b[x]
Slip(a, b, i, j) ==
  Dropped(a, b, i, j) \/ Dropped(b, a, j, i) \/ Changed(a, b, i, j) \/ Crossed(a, b, i, j)

LEMMA DroppedNext ==
  ASSUME NEW a, NEW b, NEW i \in Nat \ {0}, NEW j \in Nat \ {0}
  PROVE  /\ Dropped(a, b, i, j) => ~Agree(a, b, i, j)
         /\ Dropped(a, b, i, j) =>
              Agree(a, b, i - 1, j) \/ (a[i] = b[j] /\ Dropped(a, b, i - 1, j - 1))
         /\ Agree(a, b, i - 1, j) => Dropped(a, b, i, j)
         /\ a[i] = b[j] /\ Dropped(a, b, i - 1, j - 1) => Dropped(a, b, i, j)
<1>1. Dropped(a, b, i, j) => ~Agree(a, b, i, j)
  BY DEF Dropped, Agree
<1>2. ASSUME Dropped(a, b, i, j)
      PROVE  Agree(a, b, i - 1, j) \/ (a[i] = b[j] /\ Dropped(a, b, i - 1, j - 1))
  <2>1. i = j + 1
    BY <1>2 DEF Dropped
  <2>2. PICK k \in 1..i : /\ \A x \in 1..(k - 1) : a[x] = b[x]
                          /\ \A x \in k..j : a[x + 1] = b[x]
    BY <1>2 DEF Dropped
  <2>3. CASE k = i
    <3>1. i - 1 = j
      BY <2>1
    <3>2. \A x \in 1..(i - 1) : a[x] = b[x]
      BY <2>2, <2>3
    <3>3. QED
      BY <3>1, <3>2 DEF Agree
  <2>4. CASE k # i
    <3>1. k \in 1..(i - 1) /\ j \in k..j /\ i - 1 = (j - 1) + 1
      BY <2>1, <2>4
    <3>2. a[j + 1] = b[j]
      BY <2>2, <3>1
    <3>3. \A x \in k..(j - 1) : a[x + 1] = b[x]
      BY <2>2
    <3>4. Dropped(a, b, i - 1, j - 1)
      BY <2>2, <3>1, <3>3 DEF Dropped
    <3>5. QED
      BY <2>1, <3>2, <3>4
  <2>5. QED
    BY <2>3, <2>4
<1>3. ASSUME Agree(a, b, i - 1, j) PROVE Dropped(a, b, i, j)
  <2>1. i = j + 1 /\ i \in 1..i /\ \A x \in 1..(i - 1) : a[x] = b[x]
    BY <1>3 DEF Agree
  <2>2. \A x \in i..j : a[x + 1] = b[x]
    BY <2>1
  <2>3. QED
    BY <2>1, <2>2 DEF Dropped
<1>4. ASSUME a[i] = b[j], Dropped(a, b, i - 1, j - 1) PROVE Dropped(a, b, i, j)
  <2>1. i - 1 = (j - 1) + 1 /\ i = j + 1
    BY <1>4 DEF Dropped
  <2>2. PICK k \in 1..(i - 1) : /\ \A x \in 1..(k - 1) : a[x] = b[x]
                                /\ \A x \in k..(j - 1) : a[x + 1] = b[x]
    BY <1>4 DEF Dropped
  <2>3. \A x \in k..j : x \in k..(j - 1) \/ x = j
    BY <2>1
  <2>4. \A x \in k..j : a[x + 1] = b[x]
    BY <1>4, <2>1, <2>2, <2>3
  <2>5. k \in 1..i
    OBVIOUS
  <2>6. QED
    BY <2>1, <2>2, <2>4, <2>5 DEF Dropped
<1>5. QED
  BY <1>1, <1>2, <1>3, <1>4

LEMMA ChangedNext ==
  ASSUME NEW a, NEW b, NEW i \in Nat \ {0}, NEW j \in Nat \ {0}
  PROVE  /\ Changed(a, b, i, j) => ~Agree(a, b, i, j)
         /\ Changed(a, b, i, j) =>
              \/ a[i] # b[j] /\ Agree(a, b, i - 1, j - 1)
              \/ a[i] = b[j] /\ Changed(a, b, i - 1, j - 1)
         /\ a[i] # b[j] /\ Agree(a, b, i - 1, j - 1) => Changed(a, b, i, j)
         /\ a[i] = b[j] /\ Changed(a, b, i - 1, j - 1) => Changed(a, b, i, j)
<1>1. Changed(a, b, i, j) => ~Agree(a, b, i, j)
  BY DEF Changed, Agree
<1>2. ASSUME Changed(a, b, i, j)
      PROVE  \/ a[i] # b[j] /\ Agree(a, b, i - 1, j - 1)
             \/ a[i] = b[j] /\ Changed(a, b, i - 1, j - 1)
  <2>1. i = j /\ i - 1 = j - 1
    BY <1>2 DEF Changed
  <2>2. PICK k \in 1..i : a[k] # b[k] /\ \A x \in (1..i) \ {k} : a[x] = b[x]
    BY <1>2 DEF Changed
  <2>3. CASE k = i
    <3>1. \A x \in 1..(i - 1) : a[x] = b[x]
      BY <2>2, <2>3
    <3>2. QED
      BY <2>1, <2>2, <2>3, <3>1 DEF Agree
  <2>4. CASE k # i
    <3>1. k \in 1..(i - 1) /\ a[i] = b[i] /\ \A x \in (1..(i - 1)) \ {k} : a[x] = b[x]
      BY <2>2, <2>4
    <3>2. Changed(a, b, i - 1, j - 1)
      BY <2>1, <2>2, <3>1 DEF Changed
    <3>3. QED
      BY <2>1, <3>1, <3>2
  <2>5. QED
    BY <2>3, <2>4
<1>3. ASSUME a[i] # b[j], Agree(a, b, i - 1, j - 1) PROVE Changed(a, b, i, j)
  <2>1. i = j /\ i \in 1..i /\ \A x \in 1..(i - 1) : a[x] = b[x]
    BY <1>3 DEF Agree
  <2>2. \A x \in (1..i) \ {i} : a[x] = b[x]
    BY <2>1
  <2>3. QED
    BY <1>3, <2>1, <2>2 DEF Changed
<1>4. ASSUME a[i] = b[j], Changed(a, b, i - 1, j - 1) PROVE Changed(a, b, i, j)
  <2>1. i = j
    BY <1>4 DEF Changed
  <2>2. PICK k \in 1..(i - 1) : a[k] # b[k] /\ \A x \in (1..(i - 1)) \ {k} : a[x] = b[x]
    BY <1>4 DEF Changed
  <2>3. \A x \in (1..i) \ {k} : x \in (1..(i - 1)) \ {k} \/ x = i
    OBVIOUS
  <2>4. \A x \in (1..i) \ {k} : a[x] = b[x]
    BY <1>4, <2>1, <2>2, <2>3
  <2>5. k \in 1..i
    OBVIOUS
  <2>6. QED
    BY <2>1, <2>2, <2>4, <2>5 DEF Changed
<1>5. QED
  BY <1>1, <1>2, <1>3, <1>4

LEMMA CrossedNext ==
  ASSUME NEW a, NEW b, NEW i \in Nat \ {0}, NEW j \in Nat \ {0}
  PROVE  /\ Crossed(a, b, i, j) => ~Agree(a, b, i, j)
         /\ Crossed(a, b, i, j) =>
              \/ Swapped(a, b, i, j) /\ Agree(a, b, i - 2, j - 2)
              \/ a[i] = b[j] /\ Crossed(a, b, i - 1, j - 1)
         /\ Swapped(a, b, i, j) /\ Agree(a, b, i - 2, j - 2) =>
              Crossed(a, b, i, j) \/ Agree(a, b, i, j)
         /\ a[i] = b[j] /\ Crossed(a, b, i - 1, j - 1) => Crossed(a, b, i, j)
<1>1. ASSUME Crossed(a, b, i, j), Agree(a, b, i, j) PROVE FALSE
  <2>1. PICK k \in 1..(i - 1) : a[k] # a[k + 1] /\ b[k] = a[k + 1] /\ b[k + 1] = a[k]
    BY <1>1 DEF Crossed
  <2>2. a[k] = b[k]
    BY <1>1 DEF Agree
  <2>3. QED
    BY <2>1, <2>2
<1>2. ASSUME Crossed(a, b, i, j)
      PROVE  \/ Swapped(a, b, i, j) /\ Agree(a, b, i - 2, j - 2)
             \/ a[i] = b[j] /\ Crossed(a, b, i - 1, j - 1)
  <2>1. i = j
    BY <1>2 DEF Crossed
  <2>2. PICK k \in 1..(i - 1) : /\ a[k] # a[k + 1] /\ b[k] = a[k + 1] /\ b[k + 1] = a[k]
                                /\ \A x \in (1..i) \ {k, k + 1} : a[x] = b[x]
    BY <1>2 DEF Crossed
  <2>3. CASE k = i - 1
    <3>1. i > 1 /\ k + 1 = i
      BY <2>3
    <3>2. Swapped(a, b, i, j)
      BY <2>1, <2>2, <2>3, <3>1 DEF Swapped
    <3>3. \A x \in 1..(i - 2) : a[x] = b[x]
      BY <2>2, <2>3
    <3>4. QED
      BY <2>1, <3>2, <3>3 DEF Agree
  <2>4. CASE k # i - 1
    <3>1. k \in 1..((i - 1) - 1) /\ i \in (1..i) \ {k, k + 1}
      BY <2>4
    <3>2. a[i] = b[i] /\ \A x \in (1..(i - 1)) \ {k, k + 1} : a[x] = b[x]
      BY <2>2, <3>1
    <3>3. Crossed(a, b, i - 1, j - 1)
      BY <2>1, <2>2, <3>1, <3>2 DEF Crossed
    <3>4. QED
      BY <2>1, <3>2, <3>3
  <2>5. QED
    BY <2>3, <2>4
<1>3. ASSUME Swapped(a, b, i, j), Agree(a, b, i - 2, j - 2)
      PROVE  Crossed(a, b, i, j) \/ Agree(a, b, i, j)
  <2>1. /\ i = j /\ i > 1 /\ a[i] = b[i - 1] /\ a[i - 1] = b[i]
        /\ \A x \in 1..(i - 2) : a[x] = b[x]
    BY <1>3 DEF Swapped, Agree
  <2>2. \A x \in 1..i : x \in 1..(i - 2) \/ x = i - 1 \/ x = i
    OBVIOUS
  <2>3. CASE a[i - 1] = a[i]
    <3>1. \A x \in 1..i : a[x] = b[x]
      BY <2>1, <2>2, <2>3
    <3>2. QED
      BY <2>1, <3>1 DEF Agree
  <2>4. CASE a[i - 1] # a[i]
    <3>1. i - 1 \in 1..(i - 1) /\ (i - 1) + 1 = i
      BY <2>1
    <3>2. \A x \in (1..i) \ {i - 1, (i - 1) + 1} : a[x] = b[x]
      BY <2>1, <2>2, <3>1
    <3>3. a[i - 1] # a[(i - 1) + 1] /\ b[i - 1] = a[(i - 1) + 1] /\ b[(i - 1) + 1] = a[i - 1]
      BY <2>1, <2>4, <3>1
    <3>4. QED
      BY <2>1, <3>1, <3>2, <3>3 DEF Crossed
  <2>5. QED
    BY <2>3, <2>4
<1>4. ASSUME a[i] = b[j], Crossed(a, b, i - 1, j - 1) PROVE Crossed(a, b, i, j)
  <2>1. i = j
    BY <1>4 DEF Crossed
  <2>2. PICK k \in 1..((i - 1) - 1) :
          /\ a[k] # a[k + 1] /\ b[k] = a[k + 1] /\ b[k + 1] = a[k]
          /\ \A x \in (1..(i - 1)) \ {k, k + 1} : a[x] = b[x]
    BY <1>4 DEF Crossed
  <2>3. \A x \in (1..i) \ {k, k + 1} : x \in (1..(i - 1)) \ {k, k + 1} \/ x = i
    OBVIOUS
  <2>4. \A x \in (1..i) \ {k, k + 1} : a[x] = b[x]
    BY <1>4, <2>1, <2>2, <2>3
  <2>5. k \in 1..(i - 1)
    OBVIOUS
  <2>6. QED
    BY <2>1, <2>2, <2>4, <2>5 DEF Crossed
<1>5. QED
  BY <1>1, <1>2, <1>3, <1>4

(* A slip is in the last letters, or in what comes before the last letter, *)
(* which the two have in common.                                           *)
LEMMA SlipNext ==
  ASSUME NEW a, NEW b, NEW i \in Nat \ {0}, NEW j \in Nat \ {0}
  PROVE  Slip(a, b, i, j) <=>
           /\ ~Agree(a, b, i, j)
           /\ \/ Agree(a, b, i - 1, j) \/ Agree(a, b, i, j - 1)
              \/ a[i] # b[j] /\ Agree(a, b, i - 1, j - 1)
              \/ Swapped(a, b, i, j) /\ Agree(a, b, i - 2, j - 2)
              \/ a[i] = b[j] /\ Slip(a, b, i - 1, j - 1)
<1>1. \A x, y \in Int : Agree(a, b, x, y) <=> Agree(b, a, y, x)
  BY DEF Agree
<1>2. /\ i \in Int /\ j \in Int /\ i - 1 \in Int /\ j - 1 \in Int
  OBVIOUS
<1>3. (Agree(a, b, i, j) <=> Agree(b, a, j, i)) /\ (Agree(a, b, i, j - 1) <=> Agree(b, a, j - 1, i))
  BY <1>1, <1>2
<1>4. ASSUME Slip(a, b, i, j)
      PROVE  /\ ~Agree(a, b, i, j)
             /\ \/ Agree(a, b, i - 1, j) \/ Agree(a, b, i, j - 1)
                \/ a[i] # b[j] /\ Agree(a, b, i - 1, j - 1)
                \/ Swapped(a, b, i, j) /\ Agree(a, b, i - 2, j - 2)
                \/ a[i] = b[j] /\ Slip(a, b, i - 1, j - 1)
  <2>1. CASE Dropped(a, b, i, j)
    <3>1. ~Agree(a, b, i, j) /\ (Agree(a, b, i - 1, j) \/ (a[i] = b[j] /\ Dropped(a, b, i - 1, j - 1)))
      BY <2>1, DroppedNext
    <3>2. QED
      BY <3>1 DEF Slip
  <2>2. CASE Dropped(b, a, j, i)
    <3>1. ~Agree(b, a, j, i) /\ (Agree(b, a, j - 1, i) \/ (b[j] = a[i] /\ Dropped(b, a, j - 1, i - 1)))
      BY <2>2, DroppedNext
    <3>2. QED
      BY <1>3, <3>1 DEF Slip
  <2>3. CASE Changed(a, b, i, j)
    <3>1. /\ ~Agree(a, b, i, j)
          /\ \/ a[i] # b[j] /\ Agree(a, b, i - 1, j - 1)
             \/ a[i] = b[j] /\ Changed(a, b, i - 1, j - 1)
      BY <2>3, ChangedNext
    <3>2. QED
      BY <3>1 DEF Slip
  <2>4. CASE Crossed(a, b, i, j)
    <3>1. /\ ~Agree(a, b, i, j)
          /\ \/ Swapped(a, b, i, j) /\ Agree(a, b, i - 2, j - 2)
             \/ a[i] = b[j] /\ Crossed(a, b, i - 1, j - 1)
      BY <2>4, CrossedNext
    <3>2. QED
      BY <3>1 DEF Slip
  <2>5. QED
    BY <1>4, <2>1, <2>2, <2>3, <2>4 DEF Slip
<1>5. ASSUME ~Agree(a, b, i, j),
             \/ Agree(a, b, i - 1, j) \/ Agree(a, b, i, j - 1)
             \/ a[i] # b[j] /\ Agree(a, b, i - 1, j - 1)
             \/ Swapped(a, b, i, j) /\ Agree(a, b, i - 2, j - 2)
             \/ a[i] = b[j] /\ Slip(a, b, i - 1, j - 1)
      PROVE  Slip(a, b, i, j)
  <2>1. CASE Agree(a, b, i - 1, j)
    BY <2>1, DroppedNext DEF Slip
  <2>2. CASE Agree(a, b, i, j - 1)
    <3>1. Dropped(b, a, j, i)
      BY <1>3, <2>2, DroppedNext
    <3>2. QED
      BY <3>1 DEF Slip
  <2>3. CASE a[i] # b[j] /\ Agree(a, b, i - 1, j - 1)
    BY <2>3, ChangedNext DEF Slip
  <2>4. CASE Swapped(a, b, i, j) /\ Agree(a, b, i - 2, j - 2)
    BY <1>5, <2>4, CrossedNext DEF Slip
  <2>5. CASE a[i] = b[j] /\ Slip(a, b, i - 1, j - 1)
    <3>1. CASE Dropped(a, b, i - 1, j - 1)
      BY <2>5, <3>1, DroppedNext DEF Slip
    <3>2. CASE Dropped(b, a, j - 1, i - 1)
      <4>1. Dropped(b, a, j, i)
        BY <2>5, <3>2, DroppedNext
      <4>2. QED
        BY <4>1 DEF Slip
    <3>3. CASE Changed(a, b, i - 1, j - 1)
      BY <2>5, <3>3, ChangedNext DEF Slip
    <3>4. CASE Crossed(a, b, i - 1, j - 1)
      BY <2>5, <3>4, CrossedNext DEF Slip
    <3>5. QED
      BY <2>5, <3>1, <3>2, <3>3, <3>4 DEF Slip
  <2>6. QED
    BY <1>5, <2>1, <2>2, <2>3, <2>4, <2>5
<1>6. QED
  BY <1>4, <1>5

LEMMA GridOne ==
  ASSUME NEW S, NEW a \in Seq(S), NEW b \in Seq(S), NEW g, IsGrid(a, b, g)
  PROVE  \A i \in 0..Len(a), j \in 0..Len(b) : g[i][j] = 1 <=> Slip(a, b, i, j)
<1> DEFINE m == Len(a)
           n == Len(b)
           T == {i \in 0..m : \A j \in 0..n : g[i][j] = 1 <=> Slip(a, b, i, j)}
<1>1. m \in Nat /\ n \in Nat
  OBVIOUS
<1>2. ASSUME NEW i \in 0..m, NEW j \in 0..n, i = 0 \/ j = 0
      PROVE  g[i][j] = 1 <=> Slip(a, b, i, j)
  <2>1. (i = 0 => g[i][j] = j) /\ (j = 0 => g[i][j] = i)
    BY GridNumbers
  <2>2. CASE i = 0
    <3>1. ~Dropped(a, b, i, j) /\ ~Changed(a, b, i, j) /\ ~Crossed(a, b, i, j)
      BY <1>1, <2>2 DEF Dropped, Changed, Crossed
    <3>2. Dropped(b, a, j, i) <=> j = 1
      <4>1. Dropped(b, a, j, i) => j = 1
        BY <1>1, <2>2 DEF Dropped
      <4>2. ASSUME j = 1 PROVE Dropped(b, a, j, i)
        <5>1. j = i + 1 /\ 1 \in 1..j /\ \A x \in 1..(1 - 1) : b[x] = a[x]
          BY <2>2, <4>2
        <5>2. \A x \in 1..i : b[x + 1] = a[x]
          BY <2>2
        <5>3. QED
          BY <5>1, <5>2 DEF Dropped
      <4>3. QED
        BY <4>1, <4>2
    <3>3. QED
      BY <2>1, <2>2, <3>1, <3>2 DEF Slip
  <2>3. CASE j = 0
    <3>1. ~Dropped(b, a, j, i) /\ ~Changed(a, b, i, j) /\ ~Crossed(a, b, i, j)
      BY <1>1, <2>3 DEF Dropped, Changed, Crossed
    <3>2. Dropped(a, b, i, j) <=> i = 1
      <4>1. Dropped(a, b, i, j) => i = 1
        BY <1>1, <2>3 DEF Dropped
      <4>2. ASSUME i = 1 PROVE Dropped(a, b, i, j)
        <5>1. i = j + 1 /\ 1 \in 1..i /\ \A x \in 1..(1 - 1) : a[x] = b[x]
          BY <2>3, <4>2
        <5>2. \A x \in 1..j : a[x + 1] = b[x]
          BY <2>3
        <5>3. QED
          BY <5>1, <5>2 DEF Dropped
      <4>3. QED
        BY <4>1, <4>2
    <3>3. QED
      BY <2>1, <2>3, <3>1, <3>2 DEF Slip
  <2>4. QED
    BY <1>2, <2>2, <2>3
<1>3. ASSUME NEW i \in 1..m, NEW j \in 1..n
      PROVE  g[i][j] = 1 <=>
               /\ g[i][j] # 0
               /\ \/ g[i - 1][j] = 0 \/ g[i][j - 1] = 0
                  \/ a[i] # b[j] /\ g[i - 1][j - 1] = 0
                  \/ Swapped(a, b, i, j) /\ g[i - 2][j - 2] = 0
                  \/ a[i] = b[j] /\ g[i - 1][j - 1] = 1
  BY GridCell, CellOne
<1>4. \A i \in 0..m, j \in 0..n : g[i][j] = 0 <=> Agree(a, b, i, j)
  BY GridZero
<1>5. ASSUME NEW i \in 1..m, NEW j \in 1..n, g[i - 1][j - 1] = 1 <=> Slip(a, b, i - 1, j - 1)
      PROVE  g[i][j] = 1 <=> Slip(a, b, i, j)
  <2>1. /\ i \in 0..m /\ j \in 0..n /\ i - 1 \in 0..m /\ j - 1 \in 0..n
        /\ i \in Nat \ {0} /\ j \in Nat \ {0}
    BY <1>1
  <2>2. Swapped(a, b, i, j) => i - 2 \in 0..m /\ j - 2 \in 0..n
    BY <1>1 DEF Swapped
  <2>3. /\ g[i][j] = 0 <=> Agree(a, b, i, j)
        /\ g[i - 1][j] = 0 <=> Agree(a, b, i - 1, j)
        /\ g[i][j - 1] = 0 <=> Agree(a, b, i, j - 1)
        /\ g[i - 1][j - 1] = 0 <=> Agree(a, b, i - 1, j - 1)
    BY <1>4, <2>1
  <2>4. Swapped(a, b, i, j) => (g[i - 2][j - 2] = 0 <=> Agree(a, b, i - 2, j - 2))
    BY <1>4, <2>2
  <2>5. Slip(a, b, i, j) <=>
          /\ ~Agree(a, b, i, j)
          /\ \/ Agree(a, b, i - 1, j) \/ Agree(a, b, i, j - 1)
             \/ a[i] # b[j] /\ Agree(a, b, i - 1, j - 1)
             \/ Swapped(a, b, i, j) /\ Agree(a, b, i - 2, j - 2)
             \/ a[i] = b[j] /\ Slip(a, b, i - 1, j - 1)
    BY <2>1, SlipNext
  <2>6. QED
    BY <1>3, <1>5, <2>3, <2>4, <2>5, Zenon
<1> HIDE DEF m, n
<1>6. 0 \in T
  BY <1>1, <1>2
<1>7. ASSUME NEW i \in T, i < m PROVE i + 1 \in T
  <2>1. i + 1 \in 0..m /\ i + 1 \in 1..m /\ (i + 1) - 1 = i /\ i \in Nat
    BY <1>1, <1>7
  <2>2. \A j \in 0..n : g[i][j] = 1 <=> Slip(a, b, i, j)
    OBVIOUS
  <2>3. ASSUME NEW j \in 0..n PROVE g[i + 1][j] = 1 <=> Slip(a, b, i + 1, j)
    <3>1. CASE j = 0
      BY <1>2, <2>1, <3>1
    <3>2. CASE j # 0
      <4>1. j \in 1..n /\ j - 1 \in 0..n
        BY <1>1, <3>2
      <4>2. g[i][j - 1] = 1 <=> Slip(a, b, i, j - 1)
        BY <2>2, <4>1
      <4>3. g[(i + 1) - 1][j - 1] = 1 <=> Slip(a, b, (i + 1) - 1, j - 1)
        BY <2>1, <4>2
      <4>4. QED
        BY <1>5, <2>1, <4>1, <4>3
    <3>3. QED
      BY <3>1, <3>2
  <2>4. QED
    BY <2>1, <2>3
<1>8. T \in SUBSET (0..m)
  OBVIOUS
<1> HIDE DEF T
<1>9. T = 0..m
  BY <1>1, <1>6, <1>7, <1>8, EveryNumber
<1>10. QED
  BY <1>9 DEF T, m, n

(* What is left of a word without one of its letters.                      *)
LEMMA RemovedFacts ==
  ASSUME NEW S, NEW a \in Seq(S), NEW k \in 1..Len(a)
  PROVE  /\ RemoveAt(a, k) \in Seq(S) /\ Len(RemoveAt(a, k)) = Len(a) - 1
         /\ \A x \in 1..(Len(a) - 1) : RemoveAt(a, k)[x] = IF x < k THEN a[x] ELSE a[x + 1]
<1> DEFINE front == SubSeq(a, 1, k - 1)
           back == SubSeq(a, k + 1, Len(a))
           whole == front \o back
<1>1. front \in Seq(S) /\ Len(front) = k - 1 /\ \A x \in 1..(k - 1) : front[x] = a[x]
  OBVIOUS
<1>2. back \in Seq(S) /\ Len(back) = Len(a) - k /\ \A x \in 1..(Len(a) - k) : back[x] = a[x + k]
  OBVIOUS
<1> HIDE DEF front, back
<1>3. /\ whole \in Seq(S) /\ Len(whole) = Len(front) + Len(back)
      /\ \A x \in 1..(Len(front) + Len(back)) :
           whole[x] = IF x <= Len(front) THEN front[x] ELSE back[x - Len(front)]
  BY <1>1, <1>2, ConcatProperties
<1> HIDE DEF whole
<1>4. ASSUME NEW x \in 1..(Len(a) - 1) PROVE whole[x] = IF x < k THEN a[x] ELSE a[x + 1]
  <2>1. x \in 1..(Len(front) + Len(back)) /\ k \in Int /\ Len(a) \in Int
    BY <1>1, <1>2
  <2>2. CASE x < k
    <3>1. x <= Len(front) /\ x \in 1..(k - 1)
      BY <1>1, <2>1, <2>2
    <3>2. QED
      BY <1>1, <1>3, <2>1, <2>2, <3>1
  <2>3. CASE ~(x < k)
    <3>1. ~(x <= Len(front)) /\ x - Len(front) \in 1..(Len(a) - k) /\ (x - Len(front)) + k = x + 1
      BY <1>1, <2>1, <2>3
    <3>2. QED
      BY <1>2, <1>3, <2>1, <2>3, <3>1
  <2>4. QED
    BY <2>2, <2>3
<1>5. Len(whole) = Len(a) - 1
  BY <1>1, <1>2, <1>3
<1>6. RemoveAt(a, k) = whole
  BY DEF RemoveAt, whole, front, back
<1>7. QED
  BY <1>3, <1>4, <1>5, <1>6

LEMMA RemovedIsDropped ==
  ASSUME NEW S, NEW a \in Seq(S), NEW b \in Seq(S)
  PROVE  (\E k \in DOMAIN a : RemoveAt(a, k) = b) <=> Dropped(a, b, Len(a), Len(b))
<1>1. Len(a) \in Nat /\ Len(b) \in Nat /\ DOMAIN a = 1..Len(a) /\ DOMAIN b = 1..Len(b)
  OBVIOUS
<1>2. ASSUME NEW k \in 1..Len(a), RemoveAt(a, k) = b PROVE Dropped(a, b, Len(a), Len(b))
  <2>1. Len(b) = Len(a) - 1 /\ \A x \in 1..(Len(a) - 1) : b[x] = IF x < k THEN a[x] ELSE a[x + 1]
    BY <1>2, RemovedFacts
  <2>2. \A x \in 1..(k - 1) : a[x] = b[x]
    BY <1>1, <2>1
  <2>3. \A x \in k..Len(b) : a[x + 1] = b[x]
    BY <1>1, <2>1
  <2>4. Len(a) = Len(b) + 1
    BY <1>1, <2>1
  <2>5. QED
    BY <2>2, <2>3, <2>4 DEF Dropped
<1>3. ASSUME Dropped(a, b, Len(a), Len(b)) PROVE \E k \in DOMAIN a : RemoveAt(a, k) = b
  <2>1. Len(a) = Len(b) + 1
    BY <1>3 DEF Dropped
  <2>2. PICK k \in 1..Len(a) : /\ \A x \in 1..(k - 1) : a[x] = b[x]
                               /\ \A x \in k..Len(b) : a[x + 1] = b[x]
    BY <1>3 DEF Dropped
  <2>3. /\ RemoveAt(a, k) \in Seq(S) /\ Len(RemoveAt(a, k)) = Len(a) - 1
        /\ \A x \in 1..(Len(a) - 1) : RemoveAt(a, k)[x] = IF x < k THEN a[x] ELSE a[x + 1]
    BY RemovedFacts
  <2>4. \A x \in 1..Len(b) : RemoveAt(a, k)[x] = b[x]
    <3> SUFFICES ASSUME NEW x \in 1..Len(b) PROVE RemoveAt(a, k)[x] = b[x]
      OBVIOUS
    <3>1. x \in 1..(Len(a) - 1) /\ (x < k => x \in 1..(k - 1)) /\ (~(x < k) => x \in k..Len(b))
      BY <1>1, <2>1
    <3>2. QED
      BY <2>2, <2>3, <3>1
  <2>5. PICK c \in Seq(S) : c = RemoveAt(a, k)
    BY <2>3
  <2>6. Len(c) = Len(b) /\ \A x \in 1..Len(b) : c[x] = b[x]
    BY <1>1, <2>1, <2>3, <2>4, <2>5
  <2>7. c = b
    BY <2>6
  <2>8. QED
    BY <1>1, <2>5, <2>7
<1>4. QED
  BY <1>1, <1>2, <1>3

LEMMA DifferenceIsChanged ==
  ASSUME NEW S, NEW a \in Seq(S), NEW b \in Seq(S)
  PROVE  (Len(a) = Len(b) /\ Cardinality({k \in DOMAIN a : a[k] # b[k]}) = 1)
           <=> Changed(a, b, Len(a), Len(b))
<1> DEFINE differ == {k \in DOMAIN a : a[k] # b[k]}
<1>1. Len(a) \in Nat /\ DOMAIN a = 1..Len(a)
  OBVIOUS
<1>2. IsFiniteSet(differ)
  <2>1. IsFiniteSet(1..Len(a)) /\ differ \in SUBSET (1..Len(a))
    BY <1>1, FS_Interval
  <2>2. QED
    BY <2>1, FS_Subset
<1>3. Cardinality(differ) = 1 <=> \E k : differ = {k}
  <2> HIDE DEF differ
  <2>1. QED
    BY <1>2, FS_Singleton
<1>4. (\E k : differ = {k}) <=>
        \E k \in 1..Len(a) : a[k] # b[k] /\ \A x \in (1..Len(a)) \ {k} : a[x] = b[x]
  <2>1. ASSUME NEW k, differ = {k}
        PROVE  k \in 1..Len(a) /\ a[k] # b[k] /\ \A x \in (1..Len(a)) \ {k} : a[x] = b[x]
    <3>1. k \in differ /\ \A x \in DOMAIN a : x # k => x \notin differ
      BY <2>1
    <3>2. QED
      BY <1>1, <3>1
  <2>2. ASSUME NEW k \in 1..Len(a), a[k] # b[k], \A x \in (1..Len(a)) \ {k} : a[x] = b[x]
        PROVE  differ = {k}
    BY <1>1, <2>2
  <2>3. QED
    BY <2>1, <2>2
<1>5. QED
  BY <1>3, <1>4 DEF Changed

LEMMA SameInterval ==
  ASSUME NEW m \in Nat, NEW n \in Nat, 1..m = 1..n
  PROVE  m = n
<1>1. ASSUME NEW p \in Nat, NEW q \in Nat, 1..p = 1..q, q < p PROVE FALSE
  <2>1. p \in 1..p /\ p \notin 1..q
    BY <1>1
  <2>2. QED
    BY <1>1, <2>1
<1>2. ~(m < n) /\ ~(n < m)
  BY <1>1
<1>3. QED
  BY <1>2

LEMMA TranspositionIsCrossed ==
  ASSUME NEW S, NEW a \in Seq(S), NEW b \in Seq(S)
  PROVE  (\E k \in 1..(Len(a) - 1) : a # b /\ b = [a EXCEPT ![k] = a[k + 1], ![k + 1] = a[k]])
           <=> Crossed(a, b, Len(a), Len(b))
<1>1. /\ Len(a) \in Nat /\ DOMAIN a = 1..Len(a) /\ Len(b) \in Nat /\ DOMAIN b = 1..Len(b)
      /\ a \in [1..Len(a) -> S] /\ b \in [1..Len(b) -> S]
  OBVIOUS
<1>2. ASSUME NEW k \in 1..(Len(a) - 1), a # b,
             b = [a EXCEPT ![k] = a[k + 1], ![k + 1] = a[k]]
      PROVE  Crossed(a, b, Len(a), Len(b))
  <2>1. k \in 1..Len(a) /\ k + 1 \in 1..Len(a) /\ k # k + 1
    BY <1>1
  <2>2. /\ DOMAIN b = 1..Len(a) /\ b[k] = a[k + 1] /\ b[k + 1] = a[k]
        /\ \A x \in (1..Len(a)) \ {k, k + 1} : a[x] = b[x]
    BY <1>1, <1>2, <2>1
  <2>3. Len(a) = Len(b)
    <3>1. 1..Len(a) = 1..Len(b)
      BY <1>1, <2>2
    <3>2. QED
      BY <1>1, <3>1, SameInterval
  <2>4. a[k] # a[k + 1]
    <3> SUFFICES ASSUME a[k] = a[k + 1] PROVE a = b
      BY <1>2
    <3>1. \A x \in 1..Len(a) : a[x] = b[x]
      BY <2>2
    <3>2. QED
      BY <1>1, <2>3, <3>1
  <2>5. QED
    BY <2>2, <2>3, <2>4 DEF Crossed
<1>3. ASSUME Crossed(a, b, Len(a), Len(b))
      PROVE  \E k \in 1..(Len(a) - 1) : a # b /\ b = [a EXCEPT ![k] = a[k + 1], ![k + 1] = a[k]]
  <2>1. Len(a) = Len(b)
    BY <1>3 DEF Crossed
  <2>2. PICK k \in 1..(Len(a) - 1) :
          /\ a[k] # a[k + 1] /\ b[k] = a[k + 1] /\ b[k + 1] = a[k]
          /\ \A x \in (1..Len(a)) \ {k, k + 1} : a[x] = b[x]
    BY <1>3 DEF Crossed
  <2>3. k \in 1..Len(a) /\ k + 1 \in 1..Len(a) /\ k # k + 1
    BY <1>1
  <2> DEFINE c == [a EXCEPT ![k] = a[k + 1], ![k + 1] = a[k]]
  <2>4. /\ DOMAIN c = 1..Len(a) /\ c[k] = a[k + 1] /\ c[k + 1] = a[k]
        /\ \A x \in (1..Len(a)) \ {k, k + 1} : c[x] = a[x]
        /\ c = [x \in 1..Len(a) |-> c[x]]
    BY <1>1, <2>3
  <2> HIDE DEF c
  <2>5. \A x \in 1..Len(a) : c[x] = b[x]
    BY <2>2, <2>4
  <2>6. c = b
    BY <1>1, <2>1, <2>4, <2>5
  <2>7. a # b
    BY <2>2
  <2>8. QED
    BY <2>6, <2>7 DEF c
<1>4. QED
  BY <1>2, <1>3

(* One slip of the typist, a transposition too, is one edit, and one edit  *)
(* is one slip.                                                            *)
LEMMA AlignmentOne ==
  ASSUME NEW S, NEW a \in Seq(S), NEW b \in Seq(S)
  PROVE  OptimalStringAlignment(a, b) = 1 <=> OneSlip(a, b)
<1>1. PICK g : IsGrid(a, b, g) /\ OptimalStringAlignment(a, b) = g[Len(a)][Len(b)]
  BY GridExists
<1>2. Len(a) \in 0..Len(a) /\ Len(b) \in 0..Len(b)
  OBVIOUS
<1>3. g[Len(a)][Len(b)] = 1 <=> Slip(a, b, Len(a), Len(b))
  BY <1>1, <1>2, GridOne
<1>4. (\E k \in DOMAIN a : RemoveAt(a, k) = b) <=> Dropped(a, b, Len(a), Len(b))
  BY RemovedIsDropped
<1>5. (\E k \in DOMAIN b : RemoveAt(b, k) = a) <=> Dropped(b, a, Len(b), Len(a))
  BY RemovedIsDropped
<1>6. (Len(a) = Len(b) /\ Cardinality({k \in DOMAIN a : a[k] # b[k]}) = 1)
        <=> Changed(a, b, Len(a), Len(b))
  BY DifferenceIsChanged
<1>7. (\E k \in 1..(Len(a) - 1) : a # b /\ b = [a EXCEPT ![k] = a[k + 1], ![k + 1] = a[k]])
        <=> Crossed(a, b, Len(a), Len(b))
  BY TranspositionIsCrossed
<1>8. OneSlip(a, b) <=> Slip(a, b, Len(a), Len(b))
  BY <1>4, <1>5, <1>6, <1>7, Zenon DEF OneSlip, Slip
<1>9. QED
  BY <1>1, <1>3, <1>8

LEMMA OneSlipLengths ==
  ASSUME NEW S, NEW a \in Seq(S), NEW b \in Seq(S), OneSlip(a, b)
  PROVE  Len(a) <= Len(b) + 1 /\ Len(b) <= Len(a) + 1
<1>1. Len(a) \in Nat /\ Len(b) \in Nat
  OBVIOUS
<1>2. \/ Dropped(a, b, Len(a), Len(b)) \/ Dropped(b, a, Len(b), Len(a))
      \/ Changed(a, b, Len(a), Len(b)) \/ Crossed(a, b, Len(a), Len(b))
  BY RemovedIsDropped, DifferenceIsChanged, TranspositionIsCrossed, Zenon DEF OneSlip
<1>3. QED
  BY <1>1, <1>2 DEF Dropped, Changed, Crossed

LEMMA AlignmentType ==
  ASSUME NEW S, NEW a \in Seq(S), NEW b \in Seq(S)
  PROVE  OptimalStringAlignment(a, b) \in Nat
<1>1. PICK g : IsGrid(a, b, g) /\ OptimalStringAlignment(a, b) = g[Len(a)][Len(b)]
  BY GridExists
<1>2. Len(a) \in 0..Len(a) /\ Len(b) \in 0..Len(b)
  OBVIOUS
<1>3. QED
  BY <1>1, <1>2, GridNumbers

(* rankSuggestions.                                                        *)
Scored == [slug : Seq(Letters), rank : Int, at : Int, score : Int]

Positions(near) == [s \in near |-> Cardinality({t \in near : Closer(t, s)})]

(* Closeness, frequency and the headword put any suggestions in one order, *)
(* each with a position of its own.                                        *)
LEMMA PositionsFacts ==
  ASSUME NEW near \in SUBSET Scored, IsFiniteSet(near),
         \A s, t \in near : s.at = t.at => s = t
  PROVE  /\ Positions(near) \in [near -> 0..(Cardinality(near) - 1)]
         /\ \A s, t \in near : Closer(s, t) => Positions(near)[s] < Positions(near)[t]
         /\ \A s, t \in near : s # t => Closer(s, t) \/ Closer(t, s)
         /\ \A p \in 0..(Cardinality(near) - 1) : \E s \in near : Positions(near)[s] = p
<1> DEFINE n == Cardinality(near)
           before(s) == {t \in near : Closer(t, s)}
           pos == Positions(near)
<1>1. n \in Nat
  BY FS_CardinalityType
<1>2. \A s \in near : s.score \in Int /\ s.rank \in Int /\ s.at \in Int
  BY DEF Scored
<1>3. \A s, t \in near : s # t => Closer(s, t) \/ Closer(t, s)
  BY <1>2 DEF Closer
<1>4. \A s \in near : ~Closer(s, s)
  BY <1>2 DEF Closer
<1>5. \A s, t, u \in near : Closer(s, t) /\ Closer(t, u) => Closer(s, u)
  BY <1>2 DEF Closer
<1>6. \A s \in near : pos[s] = Cardinality(before(s))
  BY DEF Positions
<1>7. pos = [s \in near |-> pos[s]]
  BY DEF Positions
<1> HIDE DEF pos
<1>8. ASSUME NEW s \in near
      PROVE  IsFiniteSet(before(s)) /\ Cardinality(before(s)) \in Nat
  <2>1. before(s) \in SUBSET near
    OBVIOUS
  <2> HIDE DEF before
  <2>2. IsFiniteSet(before(s))
    BY <2>1, FS_Subset
  <2>3. QED
    BY <2>2, FS_CardinalityType
<1>9. ASSUME NEW s \in near, NEW B, IsFiniteSet(B), before(s) \cup {s} \subseteq B
      PROVE  Cardinality(before(s)) + 1 <= Cardinality(B)
  <2>1. s \notin before(s)
    BY <1>4
  <2> HIDE DEF before
  <2>2. Cardinality(before(s) \cup {s}) = Cardinality(before(s)) + 1
    BY <1>8, <2>1, FS_AddElement
  <2>3. before(s) \cup {s} \in SUBSET B
    BY <1>9
  <2>4. Cardinality(before(s) \cup {s}) <= Cardinality(B)
    BY <1>9, <2>3, FS_Subset
  <2>5. QED
    BY <2>2, <2>4
<1>10. ASSUME NEW s \in near, NEW t \in near, Closer(s, t) PROVE pos[s] < pos[t]
  <2>1. before(s) \cup {s} \subseteq before(t)
    BY <1>5, <1>10
  <2> HIDE DEF before
  <2>2. Cardinality(before(s)) + 1 <= Cardinality(before(t))
    BY <1>8, <1>9, <2>1
  <2>3. QED
    BY <1>6, <1>8, <2>2
<1>11. ASSUME NEW s \in near PROVE pos[s] \in 0..(n - 1)
  <2>1. before(s) \cup {s} \subseteq near
    OBVIOUS
  <2> HIDE DEF before
  <2>2. Cardinality(before(s)) + 1 <= n
    BY <1>9, <2>1
  <2>3. QED
    BY <1>1, <1>6, <1>8, <2>2
<1>12. pos \in [near -> 0..(n - 1)]
  BY <1>7, <1>11
<1> HIDE DEF before
<1>13. pos \in Injection(near, 0..(n - 1))
  <2>1. ASSUME NEW s \in near, NEW t \in near, pos[s] = pos[t] PROVE s = t
    <3>1. pos[s] \in Int /\ pos[t] \in Int
      BY <1>11
    <3>2. ~Closer(s, t) /\ ~Closer(t, s)
      BY <1>10, <2>1, <3>1
    <3>3. QED
      BY <1>3, <3>2
  <2>2. QED
    BY <1>12, <2>1 DEF Injection, IsInjective
<1>14. pos \in Surjection(near, 0..(n - 1))
  <2>1. IsFiniteSet(0..(n - 1)) /\ Cardinality(0..(n - 1)) = n
    <3>1. 0 \in Int /\ n - 1 \in Int
      BY <1>1
    <3>2. /\ IsFiniteSet(0..(n - 1))
          /\ Cardinality(0..(n - 1)) = IF 0 > n - 1 THEN 0 ELSE n - 1 - 0 + 1
      BY <3>1, FS_Interval
    <3>3. QED
      BY <1>1, <3>2
  <2>2. QED
    BY <1>13, <2>1, FS_Injection
<1>15. \A p \in 0..(n - 1) : \E s \in near : pos[s] = p
  BY <1>14 DEF Surjection
<1>16. QED
  BY <1>3, <1>10, <1>12, <1>15 DEF pos, n

ListedWith(slug, list) ==
  {[slug |-> list[i].slug, rank |-> list[i].rank, at |-> i, score |-> Score(slug, list[i].slug)] :
     i \in {j \in DOMAIN list : Candidate(slug, list[j].slug)}}

NearTo(slug, list) == {s \in ListedWith(slug, list) : s.score <= 10}

IsHeadwords(list) ==
  /\ list \in Seq([slug : Seq(Letters), rank : Nat])
  /\ \A i, j \in DOMAIN list : list[i].slug = list[j].slug => i = j

LEMMA HeadwordsAreWords ==
  ASSUME NEW list, IsHeadwords(list)
  PROVE  /\ DOMAIN list = 1..Len(list) /\ Len(list) \in Nat
         /\ \A i \in DOMAIN list : list[i].slug \in Seq(Letters) /\ list[i].rank \in Nat
<1> DEFINE R == [slug : Seq(Letters), rank : Nat]
<1>1. \A r \in R : r.slug \in Seq(Letters) /\ r.rank \in Nat
  OBVIOUS
<1>2. list \in Seq(R)
  BY DEF IsHeadwords
<1> HIDE DEF R
<1>3. \A i \in DOMAIN list : list[i] \in R
  BY <1>2
<1>4. DOMAIN list = 1..Len(list) /\ Len(list) \in Nat
  BY <1>2
<1>5. QED
  BY <1>1, <1>3, <1>4

LEMMA BonusType == \A v, w : Bonus(v, w) \in 0..6
BY DEF Bonus, PhoneticBonus

(* A word that would be suggested, and its place in the list.              *)
LEMMA NearFacts ==
  ASSUME NEW S, Letters \subseteq S, NEW slug \in Seq(S), NEW list, IsHeadwords(list)
  PROVE  /\ NearTo(slug, list) \in SUBSET Scored /\ IsFiniteSet(NearTo(slug, list))
         /\ \A s \in NearTo(slug, list) :
              s.at \in DOMAIN list /\ s.slug = list[s.at].slug /\ s.score = Score(slug, s.slug)
         /\ \A s, t \in NearTo(slug, list) : s.at = t.at => s = t
         /\ \A s, t \in NearTo(slug, list) : s.slug = t.slug => s = t
         /\ \A i \in DOMAIN list :
              Candidate(slug, list[i].slug) /\ Score(slug, list[i].slug) <= 10 =>
                \E s \in NearTo(slug, list) : s.slug = list[i].slug
<1> DEFINE D == {j \in DOMAIN list : Candidate(slug, list[j].slug)}
           entry(i) == [slug |-> list[i].slug, rank |-> list[i].rank, at |-> i,
                        score |-> Score(slug, list[i].slug)]
           near == NearTo(slug, list)
<1>1. DOMAIN list = 1..Len(list) /\ Len(list) \in Nat
  BY HeadwordsAreWords
<1>2. \A i \in DOMAIN list : list[i].slug \in Seq(Letters) /\ list[i].rank \in Nat
  BY HeadwordsAreWords
<1>3. ASSUME NEW i \in DOMAIN list PROVE Score(slug, list[i].slug) \in Int
  <2>1. list[i].slug \in Seq(S)
    BY <1>2
  <2>2. OptimalStringAlignment(slug, list[i].slug) \in Nat
    BY <2>1, AlignmentType
  <2>3. Bonus(slug, list[i].slug) \in 0..6
    BY BonusType
  <2>4. QED
    BY <2>2, <2>3 DEF Score
<1>4. ASSUME NEW i \in DOMAIN list
      PROVE  /\ entry(i) \in Scored /\ entry(i).at = i
             /\ entry(i).slug = list[i].slug
             /\ entry(i).score = Score(slug, list[i].slug)
  <2>1. i \in Int /\ list[i].slug \in Seq(Letters) /\ list[i].rank \in Int
    BY <1>1, <1>2
  <2>2. Score(slug, list[i].slug) \in Int
    BY <1>3
  <2>3. entry(i) \in Scored
    BY <2>1, <2>2 DEF Scored
  <2>4. QED
    BY <2>3
<1>5. near = {s \in {entry(i) : i \in D} : s.score <= 10}
  BY DEF NearTo, ListedWith
<1> HIDE DEF entry, near
<1>6. \A s \in near : \E i \in DOMAIN list : s = entry(i)
  BY <1>5
<1>7. IsFiniteSet(near)
  <2> DEFINE at == [s \in near |-> s.at]
  <2>1. at \in [near -> 1..Len(list)]
    BY <1>1, <1>4, <1>6
  <2>2. ASSUME NEW s \in near, NEW t \in near, at[s] = at[t] PROVE s = t
    BY <1>4, <1>6, <2>2
  <2>3. at \in Injection(near, 1..Len(list))
    <3> HIDE DEF at
    <3>1. QED
      BY <2>1, <2>2 DEF Injection, IsInjective
  <2>4. IsFiniteSet(1..Len(list))
    BY <1>1, FS_Interval
  <2> HIDE DEF at
  <2>5. QED
    BY <2>3, <2>4, FS_Injection
<1>8. near \in SUBSET Scored
  BY <1>4, <1>6
<1>9. \A s \in near :
        s.at \in DOMAIN list /\ s.slug = list[s.at].slug /\ s.score = Score(slug, s.slug)
  BY <1>4, <1>6
<1>10. \A s, t \in near : s.at = t.at => s = t
  BY <1>4, <1>6
<1>11. \A s, t \in near : s.slug = t.slug => s = t
  <2>1. \A i, j \in DOMAIN list : list[i].slug = list[j].slug => i = j
    BY DEF IsHeadwords
  <2>2. QED
    BY <1>9, <1>10, <2>1
<1>12. ASSUME NEW i \in DOMAIN list, Candidate(slug, list[i].slug),
              Score(slug, list[i].slug) <= 10
       PROVE  \E s \in near : s.slug = list[i].slug
  <2>1. entry(i) \in near
    BY <1>4, <1>5, <1>12
  <2>2. QED
    BY <1>4, <2>1
<1>13. QED
  BY <1>7, <1>8, <1>9, <1>10, <1>11, <1>12 DEF near

LEMMA RankingFacts ==
  ASSUME NEW S, Letters \subseteq S, NEW slug \in Seq(S), NEW list, IsHeadwords(list)
  PROVE  LET near == NearTo(slug, list)
             ranked == RankSuggestions(slug, list)
             n == Lesser(MaxSuggestions, Cardinality(near))
         IN  /\ Cardinality(near) \in Nat /\ n \in Nat
             /\ ranked \in [1..n -> near] /\ Len(ranked) = n
             /\ \A k \in 1..n : Positions(near)[ranked[k]] = k - 1
<1> DEFINE near == NearTo(slug, list)
           ranked == RankSuggestions(slug, list)
           c == Cardinality(near)
           n == Lesser(MaxSuggestions, c)
<1>1. /\ near \in SUBSET Scored /\ IsFiniteSet(near) /\ \A s, t \in near : s.at = t.at => s = t
  BY NearFacts
<1>2. ranked = [k \in 1..n |->
        CHOOSE s \in near : Cardinality({t \in near : Closer(t, s)}) = k - 1]
  BY DEF RankSuggestions, NearTo, ListedWith
<1> HIDE DEF near, ranked
<1>3. c \in Nat /\ n \in Nat /\ n <= c
  BY <1>1, FS_CardinalityType, WordSearchAssumption DEF Lesser
<1>4. /\ Positions(near) \in [near -> 0..(c - 1)]
      /\ \A p \in 0..(c - 1) : \E s \in near : Positions(near)[s] = p
  BY <1>1, PositionsFacts
<1>5. \A s \in near : Positions(near)[s] = Cardinality({t \in near : Closer(t, s)})
  BY DEF Positions
<1> HIDE DEF c, n
<1>6. ASSUME NEW k \in 1..n PROVE ranked[k] \in near /\ Positions(near)[ranked[k]] = k - 1
  <2>1. k - 1 \in 0..(c - 1)
    BY <1>3
  <2>2. PICK s \in near : Positions(near)[s] = k - 1
    BY <1>4, <2>1
  <2>3. \E t \in near : Cardinality({u \in near : Closer(u, t)}) = k - 1
    BY <1>5, <2>2
  <2>4. /\ ranked[k] \in near
        /\ Cardinality({u \in near : Closer(u, ranked[k])}) = k - 1
    BY <1>2, <2>3
  <2>5. QED
    BY <1>5, <2>4
<1>7. ranked \in [1..n -> near]
  BY <1>2, <1>6
<1>8. Len(ranked) = n
  BY <1>3, <1>7
<1>9. QED
  BY <1>3, <1>6, <1>7, <1>8 DEF near, ranked, n, c

(* What rankSuggestions returns: closer words first, the more common of    *)
(* two that are as close, none twice; and whatever is near but missing     *)
(* gave way to so many that are no further away.                           *)
LEMMA SuggestionsFacts ==
  ASSUME NEW S, Letters \subseteq S, NEW slug \in Seq(S), NEW list, IsHeadwords(list)
  PROVE  LET ranked == RankSuggestions(slug, list)
         IN  /\ \A i, j \in DOMAIN ranked :
                  i < j => /\ ranked[i].slug # ranked[j].slug
                           /\ \/ ranked[i].score < ranked[j].score
                              \/ /\ ranked[i].score = ranked[j].score
                                 /\ ranked[i].rank <= ranked[j].rank
             /\ \A i \in DOMAIN ranked : \E k \in DOMAIN list : ranked[i].slug = list[k].slug
             /\ \A s \in NearTo(slug, list) :
                  \/ \E i \in DOMAIN ranked : ranked[i].slug = s.slug
                  \/ /\ Len(ranked) = MaxSuggestions
                     /\ \A i \in DOMAIN ranked : ranked[i].score <= s.score
<1> DEFINE near == NearTo(slug, list)
           ranked == RankSuggestions(slug, list)
           c == Cardinality(near)
           n == Lesser(MaxSuggestions, c)
           pos == Positions(near)
<1>1. /\ near \in SUBSET Scored /\ IsFiniteSet(near)
      /\ \A s, t \in near : s.at = t.at => s = t
      /\ \A s, t \in near : s.slug = t.slug => s = t
      /\ \A s \in near : s.at \in DOMAIN list /\ s.slug = list[s.at].slug
  BY NearFacts
<1>2. /\ c \in Nat /\ n \in Nat /\ ranked \in [1..n -> near] /\ Len(ranked) = n
      /\ \A k \in 1..n : pos[ranked[k]] = k - 1
  BY RankingFacts
<1>3. /\ pos \in [near -> 0..(c - 1)]
      /\ \A s, t \in near : Closer(s, t) => pos[s] < pos[t]
      /\ \A s, t \in near : s # t => Closer(s, t) \/ Closer(t, s)
  <2> HIDE DEF near
  <2>1. QED
    BY <1>1, PositionsFacts
<1>4. n = IF MaxSuggestions < c THEN MaxSuggestions ELSE c
  BY DEF Lesser
<1> HIDE DEF near, ranked, c, n, pos
<1>5. \A s, t \in near : pos[s] < pos[t] => Closer(s, t)
  <2> SUFFICES ASSUME NEW s \in near, NEW t \in near, pos[s] < pos[t] PROVE Closer(s, t)
    OBVIOUS
  <2>1. pos[s] \in Int /\ pos[t] \in Int
    BY <1>3
  <2>2. s # t /\ ~Closer(t, s)
    BY <1>3, <2>1
  <2>3. QED
    BY <1>3, <2>2
<1>6. \A s, t \in near :
        Closer(s, t) => s.score < t.score \/ (s.score = t.score /\ s.rank <= t.rank)
  BY <1>1 DEF Closer, Scored
<1>7. \A s \in near : s.score \in Int
  BY <1>1 DEF Scored
<1>8. DOMAIN ranked = 1..n /\ \A i \in 1..n : ranked[i] \in near
  BY <1>2
<1>9. ASSUME NEW i \in 1..n, NEW j \in 1..n, i < j
      PROVE  /\ ranked[i].slug # ranked[j].slug
             /\ \/ ranked[i].score < ranked[j].score
                \/ ranked[i].score = ranked[j].score /\ ranked[i].rank <= ranked[j].rank
  <2>1. pos[ranked[i]] = i - 1 /\ pos[ranked[j]] = j - 1 /\ i \in Int /\ j \in Int
    BY <1>2
  <2>2. pos[ranked[i]] < pos[ranked[j]] /\ ranked[i] # ranked[j]
    BY <1>9, <2>1
  <2>3. Closer(ranked[i], ranked[j]) /\ ranked[i].slug # ranked[j].slug
    BY <1>1, <1>5, <1>8, <2>2
  <2>4. QED
    BY <1>6, <1>8, <2>3
<1>10. \A i \in 1..n : \E k \in DOMAIN list : ranked[i].slug = list[k].slug
  BY <1>1, <1>8
<1>11. ASSUME NEW s \in near
       PROVE  \/ \E i \in 1..n : ranked[i].slug = s.slug
              \/ n = MaxSuggestions /\ \A i \in 1..n : ranked[i].score <= s.score
  <2>1. pos[s] \in 0..(c - 1)
    BY <1>3
  <2>2. CASE pos[s] < n
    <3>1. pos[s] + 1 \in 1..n /\ (pos[s] + 1) - 1 = pos[s]
      BY <1>2, <2>1, <2>2
    <3>2. PICK i \in 1..n : i - 1 = pos[s]
      BY <3>1
    <3>3. ranked[i] \in near /\ pos[ranked[i]] = pos[s]
      BY <1>2, <1>8, <3>2
    <3>4. ~(pos[ranked[i]] < pos[s]) /\ ~(pos[s] < pos[ranked[i]])
      BY <2>1, <3>3
    <3>5. ranked[i] = s
      BY <1>3, <3>3, <3>4
    <3>6. QED
      BY <3>5
  <2>3. CASE ~(pos[s] < n)
    <3>1. n = MaxSuggestions
      BY <1>2, <1>4, <2>1, <2>3
    <3>2. ASSUME NEW i \in 1..n PROVE ranked[i].score <= s.score
      <4>1. ranked[i] \in near /\ pos[ranked[i]] = i - 1
        BY <1>2, <1>8
      <4>2. pos[ranked[i]] < pos[s]
        BY <1>2, <2>1, <2>3, <4>1
      <4>3. Closer(ranked[i], s) /\ ranked[i].score \in Int /\ s.score \in Int
        BY <1>5, <1>7, <4>1, <4>2
      <4>4. QED
        BY <1>6, <4>1, <4>3
    <3>3. QED
      BY <3>1, <3>2
  <2>4. QED
    BY <2>2, <2>3
<1>12. QED
  BY <1>2, <1>8, <1>9, <1>10, <1>11 DEF near, ranked

------------------------------------------------------------------------------
(* What is typed, and the invariant of the search.                         *)
Typable == Letters \cup DOMAIN SmallLetter \cup {Space}
Characters == Typable \cup {SmallLetter[c] : c \in DOMAIN SmallLetter}
Lowered(c) == IF c \in DOMAIN SmallLetter THEN SmallLetter[c] ELSE c
Trimmed(w) ==
  LET solid == {i \in DOMAIN w : w[i] # Space}
  IN  IF solid = {} THEN << >> ELSE SubSeq(w, Min(solid), Max(solid))

(* What canonicaliseSlug has nothing to do to.                             *)
IsCanonical(w) ==
  /\ w \in Seq(Characters) /\ \A i \in DOMAIN w : w[i] \notin DOMAIN SmallLetter
  /\ Len(w) > 0 => w[1] # Space /\ w[Len(w)] # Space

LEMMA TrimmedFacts ==
  ASSUME NEW w \in Seq(Characters)
  PROVE  /\ Trimmed(w) \in Seq(Characters)
         /\ Len(Trimmed(w)) > 0 => Trimmed(w)[1] # Space /\ Trimmed(w)[Len(Trimmed(w))] # Space
         /\ Len(w) > 0 /\ w[1] # Space /\ w[Len(w)] # Space => Trimmed(w) = w
         /\ Len(w) = 0 => Trimmed(w) = << >>
<1> DEFINE solid == {i \in DOMAIN w : w[i] # Space}
<1>1. Len(w) \in Nat /\ DOMAIN w = 1..Len(w) /\ \A i \in 1..Len(w) : w[i] \in Characters
  OBVIOUS
<1>2. CASE solid = {}
  <2>1. Trimmed(w) = << >>
    BY <1>2 DEF Trimmed
  <2>2. Len(w) > 0 => w[1] = Space
    BY <1>1, <1>2
  <2>3. QED
    BY <2>1, <2>2
<1>3. CASE solid # {}
  <2>1. solid \in SUBSET (0..Len(w)) /\ solid \in SUBSET Nat
    BY <1>1
  <2>2. Trimmed(w) = SubSeq(w, Min(solid), Max(solid))
    BY <1>3 DEF Trimmed
  <2>3. \A i \in solid : i \in 1..Len(w) /\ w[i] # Space
    BY <1>1
  <2>4. Len(w) > 0 /\ w[1] # Space /\ w[Len(w)] # Space => 1 \in solid /\ Len(w) \in solid
    BY <1>1
  <2> HIDE DEF solid
  <2>5. \E x \in solid : \A y \in solid : x <= y
    BY <1>3, <2>1, LeastNumber
  <2>6. Min(solid) \in solid /\ \A y \in solid : Min(solid) <= y
    BY <2>5 DEF Min
  <2>7. \E x \in solid : \A y \in solid : y <= x
    BY <1>1, <1>3, <2>1, GreatestNumber
  <2>8. \E x \in solid : \A y \in solid : x >= y
    BY <2>1, <2>7
  <2>9. Max(solid) \in solid /\ \A y \in solid : Max(solid) >= y
    BY <2>8 DEF Max
  <2>10. PICK p \in 1..Len(w) : p = Min(solid) /\ w[p] # Space
    BY <2>3, <2>6
  <2>11. PICK q \in 1..Len(w) : q = Max(solid) /\ w[q] # Space
    BY <2>3, <2>9
  <2>12. p <= q
    BY <2>6, <2>9, <2>10, <2>11
  <2>13. PICK t : t = SubSeq(w, p, q)
    OBVIOUS
  <2>14. /\ t \in Seq(Characters) /\ Len(t) = q - p + 1
         /\ \A i \in 1..(q - p + 1) : t[i] = w[p + i - 1]
    BY <1>1, <2>12, <2>13
  <2>15. t[1] = w[p] /\ t[Len(t)] = w[q]
    <3>1. 1 \in 1..(q - p + 1) /\ q - p + 1 \in 1..(q - p + 1) /\ p + 1 - 1 = p
          /\ p + (q - p + 1) - 1 = q
      BY <2>12
    <3>2. QED
      BY <2>14, <3>1
  <2>16. Len(w) > 0 /\ w[1] # Space /\ w[Len(w)] # Space => t = w
    <3> SUFFICES ASSUME Len(w) > 0, w[1] # Space, w[Len(w)] # Space PROVE t = w
      OBVIOUS
    <3>1. p = 1 /\ q = Len(w)
      BY <1>1, <2>4, <2>6, <2>9, <2>10, <2>11
    <3>2. Len(t) = Len(w) /\ \A i \in 1..Len(w) : t[i] = w[i]
      BY <1>1, <2>14, <3>1
    <3>3. QED
      BY <2>14, <3>2
  <2>17. Trimmed(w) = t /\ Len(w) # 0
    BY <1>1, <2>2, <2>10, <2>11, <2>13
  <2>18. QED
    BY <2>10, <2>11, <2>14, <2>15, <2>16, <2>17
<1>4. QED
  BY <1>2, <1>3

LEMMA CanonicaliseIs ==
  ASSUME NEW w \in Seq(Characters)
  PROVE  CanonicaliseSlug(w) = [i \in DOMAIN Trimmed(w) |-> Lowered(Trimmed(w)[i])]
BY DEF CanonicaliseSlug, Trimmed, Lowered

LEMMA LoweredFacts ==
  ASSUME NEW c \in Characters
  PROVE  /\ Lowered(c) \in Characters /\ Lowered(c) \notin DOMAIN SmallLetter
         /\ c # Space => Lowered(c) # Space
         /\ c \notin DOMAIN SmallLetter => Lowered(c) = c
BY WordSearchAssumption DEF Lowered, Characters

LEMMA CanonicaliseFacts ==
  ASSUME NEW w \in Seq(Characters)
  PROVE  /\ IsCanonical(CanonicaliseSlug(w))
         /\ IsCanonical(w) => CanonicaliseSlug(w) = w
<1>1. PICK t \in Seq(Characters) : t = Trimmed(w)
  BY TrimmedFacts
<1>2. /\ Len(t) > 0 => t[1] # Space /\ t[Len(t)] # Space
      /\ Len(w) > 0 /\ w[1] # Space /\ w[Len(w)] # Space => t = w
      /\ Len(w) = 0 => t = << >>
  BY <1>1, TrimmedFacts
<1> DEFINE u == [i \in DOMAIN t |-> Lowered(t[i])]
<1>3. CanonicaliseSlug(w) = u
  BY <1>1, CanonicaliseIs
<1>4. DOMAIN t = 1..Len(t) /\ Len(t) \in Nat /\ \A i \in 1..Len(t) : t[i] \in Characters
  OBVIOUS
<1>5. \A i \in 1..Len(t) : u[i] = Lowered(t[i]) /\ u[i] \in Characters
  BY <1>4, LoweredFacts
<1>6. u \in Seq(Characters) /\ Len(u) = Len(t) /\ DOMAIN u = 1..Len(t)
  <2>1. u \in [1..Len(t) -> Characters]
    BY <1>4, <1>5
  <2> HIDE DEF u
  <2>2. QED
    BY <1>4, <2>1
<1> HIDE DEF u
<1>7. \A i \in DOMAIN u : u[i] \notin DOMAIN SmallLetter
  BY <1>4, <1>5, <1>6, LoweredFacts
<1>8. Len(u) > 0 => u[1] # Space /\ u[Len(u)] # Space
  <2> SUFFICES ASSUME Len(u) > 0 PROVE u[1] # Space /\ u[Len(u)] # Space
    OBVIOUS
  <2>1. 1 \in 1..Len(t) /\ Len(t) \in 1..Len(t)
    BY <1>4, <1>6
  <2>2. u[1] = Lowered(t[1]) /\ u[Len(t)] = Lowered(t[Len(t)])
    BY <1>5, <2>1
  <2>3. t[1] # Space /\ t[Len(t)] # Space /\ t[1] \in Characters /\ t[Len(t)] \in Characters
    BY <1>2, <1>4, <1>6, <2>1
  <2>4. QED
    BY <1>6, <2>2, <2>3, LoweredFacts
<1>9. IsCanonical(u)
  BY <1>6, <1>7, <1>8 DEF IsCanonical
<1>10. ASSUME IsCanonical(w) PROVE u = w
  <2>1. t = w
    <3>1. Len(w) \in Nat
      OBVIOUS
    <3>2. CASE Len(w) > 0
      BY <1>2, <1>10, <3>2 DEF IsCanonical
    <3>3. CASE Len(w) = 0
      BY <1>2, <3>3
    <3>4. QED
      BY <3>1, <3>2, <3>3
  <2>2. \A i \in 1..Len(t) : t[i] \notin DOMAIN SmallLetter
    BY <1>4, <1>10, <2>1 DEF IsCanonical
  <2>3. \A i \in 1..Len(t) : u[i] = t[i]
    BY <1>4, <1>5, <2>2, LoweredFacts
  <2>4. u = t
    BY <1>4, <1>6, <2>3
  <2>5. QED
    BY <2>1, <2>4
<1>11. QED
  BY <1>3, <1>9, <1>10

Rankings == {Artifact, NoRanks}

LEMMA ListIsHeadwords ==
  ASSUME NEW r \in DOMAIN Headwords, NEW rank \in Rankings
  PROVE  /\ IsHeadwords(List(r, rank))
         /\ \A i \in DOMAIN List(r, rank) : List(r, rank)[i].slug \in ToSet(Headwords[r])
<1>1. PICK hs \in Seq(Seq(Letters)) : hs = Headwords[r] /\ IsInjective(hs)
  BY WordSearchAssumption
<1>2. DOMAIN hs = 1..Len(hs) /\ Len(hs) \in Nat /\ \A i \in 1..Len(hs) : hs[i] \in Seq(Letters)
  OBVIOUS
<1>3. Unranked \in Nat
  BY WordSearchAssumption, FS_CardinalityType DEF Unranked
<1>4. ASSUME NEW h \in DOMAIN rank PROVE rank[h] \in Nat
  BY WordSearchAssumption, <1>4 DEF Rankings, NoRanks
<1> DEFINE l == List(r, rank)
           place(i) == IF hs[i] \in DOMAIN rank THEN rank[hs[i]] ELSE Unranked
<1>5. l = [i \in 1..Len(hs) |-> [slug |-> hs[i], rank |-> place(i)]]
  BY <1>1, <1>2 DEF List
<1>6. \A i \in 1..Len(hs) : place(i) \in Nat
  BY <1>3, <1>4
<1> HIDE DEF l, place
<1>7. l \in [1..Len(hs) -> [slug : Seq(Letters), rank : Nat]]
  BY <1>2, <1>5, <1>6
<1>8. l \in Seq([slug : Seq(Letters), rank : Nat]) /\ DOMAIN l = 1..Len(hs)
  <2> DEFINE R == [slug : Seq(Letters), rank : Nat]
  <2>1. l \in [1..Len(hs) -> R]
    BY <1>7
  <2> HIDE DEF R
  <2>2. PICK n \in Nat : n = Len(hs)
    BY <1>2
  <2>3. l \in [1..n -> R]
    BY <2>1, <2>2
  <2>4. l \in Seq(R)
    BY ONLY n \in Nat, <2>3
  <2>5. DOMAIN l = 1..n
    BY <2>3
  <2>6. QED
    BY <2>2, <2>4, <2>5 DEF R
<1>9. \A i \in 1..Len(hs) : l[i].slug = hs[i]
  BY <1>5
<1>10. \A i, j \in DOMAIN l : l[i].slug = l[j].slug => i = j
  BY <1>1, <1>2, <1>8, <1>9 DEF IsInjective
<1>11. \A i \in DOMAIN l : l[i].slug \in ToSet(Headwords[r])
  BY <1>1, <1>2, <1>8, <1>9 DEF ToSet
<1>12. QED
  BY <1>8, <1>10, <1>11 DEF IsHeadwords, l

(* The seed only adds words.                                               *)
LEMMA HeadwordsGrow ==
  ASSUME NEW e \in DOMAIN Headwords, NEW r \in 1..e
  PROVE  r \in DOMAIN Headwords /\ ToSet(Headwords[r]) \subseteq ToSet(Headwords[e])
<1> DEFINE m == e - r
           T == {k \in 0..m : ToSet(Headwords[r]) \subseteq ToSet(Headwords[r + k])}
<1>1. DOMAIN Headwords = 1..Len(Headwords) /\ Len(Headwords) \in Nat
  BY WordSearchAssumption
<1>2. m \in Nat /\ r + m = e
  BY <1>1
<1>3. \A k \in 0..m : r + k \in DOMAIN Headwords
  BY <1>1
<1> HIDE DEF m
<1>4. 0 \in T
  <2>1. 0 \in 0..m /\ r + 0 = r
    BY <1>1, <1>2
  <2>2. QED
    BY <2>1
<1>5. ASSUME NEW k \in T, k < m PROVE k + 1 \in T
  <2>1. k \in 0..m /\ k + 1 \in 0..m /\ r + (k + 1) = (r + k) + 1
    BY <1>1, <1>2, <1>5
  <2>2. r + k \in DOMAIN Headwords /\ (r + k) + 1 \in DOMAIN Headwords
    BY <1>3, <2>1
  <2>3. ToSet(Headwords[r + k]) \subseteq ToSet(Headwords[(r + k) + 1])
    BY <2>2, WordSearchAssumption
  <2>4. QED
    BY <2>1, <2>3
<1>6. T \in SUBSET (0..m)
  OBVIOUS
<1> HIDE DEF T
<1>7. T = 0..m
  BY <1>2, <1>4, <1>5, <1>6, EveryNumber
<1>8. m \in T
  BY <1>2, <1>7
<1>9. ToSet(Headwords[r]) \subseteq ToSet(Headwords[e])
  BY <1>2, <1>8 DEF T
<1>10. QED
  BY <1>1, <1>9

Waiting == {"typing", "empty", "invalid", "redirected", "word", "missed"}

KeptList ==
  \E r \in 1..edition, rank \in ToSet(frequencies) : cached = List(r, rank)

(* What a reader was given is what the list that is kept gives for what    *)
(* was typed; no list is read again while it is shown.                     *)
SearchInv ==
  /\ typed \in Seq(Typable) /\ Len(typed) <= MaxTyped
  /\ inBox \in BOOLEAN /\ edition \in DOMAIN Headwords
  /\ frequencies \in {<< >>, <<Artifact>>, <<NoRanks>>}
  /\ cached = NoList \/ KeptList
  /\ \/ found \in [kind : Waiting]
     \/ cached # NoList /\ found = [kind |-> "suggestions", list |-> RankSuggestions(Query, cached)]
  /\ found.kind = "redirected" => ~inBox

LEMMA KeptStays ==
  ASSUME KeptList, SearchInv, edition' \in Int, edition' >= edition,
         frequencies' = frequencies, cached' = cached
  PROVE  KeptList'
<1>1. PICK r \in 1..edition, rank \in ToSet(frequencies) : cached = List(r, rank)
  BY DEF KeptList
<1>2. edition \in Int
  BY WordSearchAssumption DEF SearchInv
<1>3. r \in 1..edition' /\ rank \in ToSet(frequencies') /\ cached' = List(r, rank)
  BY <1>1, <1>2
<1>4. QED
  BY <1>3 DEF KeptList

LEMMA EditionIsNumber ==
  ASSUME SearchInv
  PROVE  edition \in 1..Len(Headwords) /\ Len(Headwords) \in Nat
BY WordSearchAssumption DEF SearchInv

LEMMA TypeKeeps ==
  ASSUME SearchInv, NEW c \in Typable, Type(c)
  PROVE  SearchInv'
<1>1. /\ typed' = Append(typed, c) /\ Len(typed) < MaxTyped /\ found.kind = "typing"
      /\ inBox' = inBox /\ edition' = edition /\ frequencies' = frequencies
      /\ cached' = cached /\ found' = found
  BY DEF Type
<1>2. typed \in Seq(Typable) /\ MaxTyped \in Nat
  BY WordSearchAssumption DEF SearchInv
<1>3. typed' \in Seq(Typable) /\ Len(typed') <= MaxTyped
  BY <1>1, <1>2
<1>4. found \in [kind : Waiting]
  BY <1>1 DEF SearchInv
<1>5. cached' = NoList \/ KeptList'
  BY <1>1 DEF SearchInv, KeptList
<1>6. QED
  BY <1>1, <1>3, <1>4, <1>5 DEF SearchInv

LEMMA LookUpKeeps ==
  ASSUME SearchInv, LookUp
  PROVE  SearchInv'
<1>1. /\ typed' = typed /\ inBox' = inBox /\ edition' = edition /\ frequencies' = frequencies
      /\ cached' = cached
  BY DEF LookUp
<1>2. found' \in [kind : Waiting] /\ (found'.kind = "redirected" => ~inBox)
  <2> DEFINE kind == CASE inBox /\ Query = <<>> -> "empty"
                       [] ~inBox /\ ~Allowed(Query) -> "invalid"
                       [] ~inBox /\ Query # typed -> "redirected"
                       [] Query \in Listed(edition) -> "word"
                       [] OTHER -> "missed"
  <2>1. found' = [kind |-> kind]
    BY DEF LookUp
  <2>2. kind \in Waiting /\ (kind = "redirected" => ~inBox)
    BY DEF Waiting
  <2> HIDE DEF kind
  <2>3. QED
    BY <2>1, <2>2
<1>3. cached' = NoList \/ KeptList'
  BY <1>1 DEF SearchInv, KeptList
<1>4. QED
  BY <1>1, <1>2, <1>3 DEF SearchInv

LEMMA ReadHeadwordsKeeps ==
  ASSUME SearchInv, ReadHeadwords
  PROVE  SearchInv'
<1>1. /\ typed' = typed /\ inBox' = inBox /\ edition' = edition /\ found' = found
      /\ found.kind = "missed" /\ cached' = List(edition, Head(frequencies'))
      /\ IF frequencies = << >> THEN frequencies' \in {<<Artifact>>, <<NoRanks>>}
         ELSE frequencies' = frequencies
  BY DEF ReadHeadwords
<1>2. frequencies' \in {<<Artifact>>, <<NoRanks>>}
  BY <1>1 DEF SearchInv
<1>3. Head(frequencies') \in ToSet(frequencies')
  BY <1>2 DEF ToSet
<1>4. edition \in 1..edition'
  BY <1>1, EditionIsNumber
<1>5. KeptList'
  BY <1>1, <1>3, <1>4 DEF KeptList
<1>6. found \in [kind : Waiting]
  BY <1>1 DEF SearchInv
<1>7. QED
  BY <1>1, <1>2, <1>5, <1>6 DEF SearchInv

LEMMA SuggestKeeps ==
  ASSUME SearchInv, Suggest
  PROVE  SearchInv'
<1>1. /\ typed' = typed /\ inBox' = inBox /\ edition' = edition /\ frequencies' = frequencies
      /\ cached' = cached /\ cached # NoList
      /\ found' = [kind |-> "suggestions", list |-> RankSuggestions(Query, cached)]
  BY DEF Suggest
<1>2. Query' = Query
  BY <1>1 DEF Query
<1>3. cached' = NoList \/ KeptList'
  BY <1>1 DEF SearchInv, KeptList
<1>4. found' = [kind |-> "suggestions", list |-> RankSuggestions(Query', cached')]
  BY <1>1, <1>2
<1>5. found'.kind # "redirected"
  BY <1>1
<1>6. QED
  BY <1>1, <1>3, <1>4, <1>5 DEF SearchInv

LEMMA SeedWordsKeeps ==
  ASSUME SearchInv, SeedWords
  PROVE  SearchInv'
<1>1. /\ typed' = typed /\ inBox' = inBox /\ frequencies' = frequencies
      /\ cached' = cached /\ found' = found /\ edition < Len(Headwords) /\ edition' = edition + 1
  BY DEF SeedWords
<1>2. edition \in 1..Len(Headwords) /\ Len(Headwords) \in Nat
  BY EditionIsNumber
<1>3. edition' \in DOMAIN Headwords /\ edition' \in Int /\ edition' >= edition
  BY <1>1, <1>2, WordSearchAssumption
<1>4. cached' = NoList \/ KeptList'
  BY <1>1, <1>3, KeptStays DEF SearchInv
<1>5. Query' = Query
  BY <1>1 DEF Query
<1>6. \/ found' \in [kind : Waiting]
      \/ /\ cached' # NoList
         /\ found' = [kind |-> "suggestions", list |-> RankSuggestions(Query', cached')]
  BY <1>1, <1>5 DEF SearchInv
<1>7. QED
  BY <1>1, <1>3, <1>4, <1>6 DEF SearchInv

LEMMA SearchRests ==
  ASSUME SearchInv, UNCHANGED searchVars
  PROVE  SearchInv'
<1>1. /\ typed' = typed /\ inBox' = inBox /\ edition' = edition /\ frequencies' = frequencies
      /\ cached' = cached /\ found' = found
  BY DEF searchVars
<1>2. Query' = Query /\ (KeptList' <=> KeptList)
  BY <1>1 DEF Query, KeptList
<1>3. QED
  BY <1>1, <1>2 DEF SearchInv

LEMMA SearchBegins ==
  ASSUME WordSearchInit
  PROVE  SearchInv
<1>1. /\ typed = << >> /\ inBox \in BOOLEAN /\ edition \in DOMAIN Headwords
      /\ frequencies \in {<< >>, <<Artifact>>, <<NoRanks>>} /\ found = [kind |-> "typing"]
  BY DEF WordSearchInit
<1>2. cached = NoList \/ KeptList
  BY DEF WordSearchInit, KeptList
<1>3. typed \in Seq(Typable) /\ Len(typed) <= MaxTyped
  BY <1>1, WordSearchAssumption
<1>4. found \in [kind : Waiting] /\ found.kind # "redirected"
  BY <1>1 DEF Waiting
<1>5. QED
  BY <1>1, <1>2, <1>3, <1>4 DEF SearchInv

(* Whatever is typed, cached, expired or seeded meanwhile (LookUp,         *)
(* ReadHeadwords, Suggest, SeedWords), what is shown belongs to it.        *)
THEOREM SearchInductive == WordSearchSpec => []SearchInv
<1>1. WordSearchInit => SearchInv
  BY SearchBegins
<1>2. SearchInv /\ [WordSearchNext]_searchVars => SearchInv'
  <2> SUFFICES ASSUME SearchInv, [WordSearchNext]_searchVars PROVE SearchInv'
    OBVIOUS
  <2>1. ASSUME NEW c \in Letters \cup DOMAIN SmallLetter \cup {Space}, Type(c) PROVE SearchInv'
    BY <2>1, TypeKeeps DEF Typable
  <2>2. CASE LookUp
    BY <2>2, LookUpKeeps
  <2>3. CASE ReadHeadwords
    BY <2>3, ReadHeadwordsKeeps
  <2>4. CASE Suggest
    BY <2>4, SuggestKeeps
  <2>5. CASE SeedWords
    BY <2>5, SeedWordsKeeps
  <2>6. CASE UNCHANGED searchVars
    BY <2>6, SearchRests
  <2>7. QED
    BY <2>1, <2>2, <2>3, <2>4, <2>5, <2>6, Zenon DEF WordSearchNext
<1>3. QED
  BY <1>1, <1>2, PTL DEF WordSearchSpec

LEMMA QueryIsWord ==
  ASSUME SearchInv
  PROVE  Query \in Seq(Characters) /\ (~inBox => CanonicaliseSlug(Query) = Query)
<1>1. typed \in Seq(Characters)
  BY DEF SearchInv, Characters
<1>2. IsCanonical(CanonicaliseSlug(typed))
  BY <1>1, CanonicaliseFacts
<1>3. PICK w \in Seq(Characters) : w = CanonicaliseSlug(typed)
  BY <1>2 DEF IsCanonical
<1>4. CanonicaliseSlug(w) = w
  BY <1>2, <1>3, CanonicaliseFacts
<1>5. NormaliseQuery(typed) \in Seq(Characters)
  <2>1. Only(w, Letters) \in Seq(Characters \cap Letters)
    BY OnlyFacts
  <2>2. QED
    BY <1>3, <2>1 DEF NormaliseQuery
<1>6. QED
  BY <1>3, <1>4, <1>5 DEF Query

LEMMA OneEditIsOneSlip ==
  ASSUME NEW S, NEW a \in Seq(S), NEW b \in Seq(S)
  PROVE  /\ (OptimalStringAlignment(a, b) = 1) = OneSlip(a, b)
         /\ (OptimalStringAlignment(a, b) = 0) = (a = b)
<1>1. OneSlip(a, b) \in BOOLEAN
  BY DEF OneSlip
<1>2. OptimalStringAlignment(a, b) = 1 <=> OneSlip(a, b)
  BY AlignmentOne
<1>3. OptimalStringAlignment(a, b) = 0 <=> a = b
  BY AlignmentZero
<1>4. QED
  BY <1>1, <1>2, <1>3

(* A word one edit away that begins with the same letter, or sounds like   *)
(* what was typed, is a candidate, and near enough to be suggested.        *)
LEMMA OneEditIsNear ==
  ASSUME NEW S, NEW slug \in Seq(S), NEW h \in Seq(S),
         OptimalStringAlignment(slug, h) <= 1, Head(h) = Head(slug) \/ Bonus(slug, h) > 0
  PROVE  Candidate(slug, h) /\ Score(slug, h) <= 10
<1>1. OptimalStringAlignment(slug, h) \in Nat /\ Bonus(slug, h) \in 0..6
  BY AlignmentType, BonusType
<1>2. Score(slug, h) <= 10
  BY <1>1 DEF Score
<1>3. Len(slug) \in Nat /\ Len(h) \in Nat
  OBVIOUS
<1>4. Len(slug) <= Len(h) + 1 /\ Len(h) <= Len(slug) + 1
  <2>1. CASE OptimalStringAlignment(slug, h) = 0
    <3>1. slug = h
      BY <2>1, AlignmentZero
    <3>2. QED
      BY <1>3, <3>1
  <2>2. CASE OptimalStringAlignment(slug, h) = 1
    <3>1. OneSlip(slug, h)
      BY <2>2, AlignmentOne
    <3>2. QED
      BY <3>1, OneSlipLengths
  <2>3. QED
    BY <1>1, <2>1, <2>2
<1>5. Apart(Len(h), Len(slug)) <= 3
  BY <1>3, <1>4 DEF Apart
<1>6. QED
  BY <1>2, <1>5 DEF Candidate

LEMMA SuggestedNow ==
  ASSUME SearchInv
  PROVE  SuggestionsAreClosest
<1>1. ASSUME found.kind = "redirected" PROVE CanonicaliseSlug(Query) = Query
  BY <1>1, QueryIsWord DEF SearchInv
<1>2. ASSUME found.kind = "suggestions"
      PROVE  /\ \A i, j \in DOMAIN found.list :
                  i < j => /\ found.list[i].slug # found.list[j].slug
                           /\ \/ found.list[i].score < found.list[j].score
                              \/ /\ found.list[i].score = found.list[j].score
                                 /\ found.list[i].rank <= found.list[j].rank
             /\ \A i \in DOMAIN found.list : found.list[i].slug \in Listed(edition)
             /\ \A e \in ToSet(cached) :
                  LET d == OptimalStringAlignment(Query, e.slug)
                  IN  /\ d = OptimalStringAlignment(e.slug, Query)
                      /\ (d = 1) = OneSlip(Query, e.slug)
                      /\ (d = 0) = (Query = e.slug)
                      /\ /\ d <= 1
                         /\ Head(e.slug) = Head(Query) \/ Bonus(Query, e.slug) > 0
                         => SuggestedOrCrowdedOut(e.slug)
  <2>1. cached # NoList /\ found.list = RankSuggestions(Query, cached) /\ KeptList
    <3>1. found \notin [kind : Waiting]
      BY <1>2 DEF Waiting
    <3>2. QED
      BY <3>1 DEF SearchInv
  <2>2. PICK r \in 1..edition, rank \in ToSet(frequencies) : cached = List(r, rank)
    BY <2>1 DEF KeptList
  <2>3. rank \in Rankings
    BY <2>2 DEF SearchInv, ToSet, Rankings
  <2>4. r \in DOMAIN Headwords /\ ToSet(Headwords[r]) \subseteq ToSet(Headwords[edition])
    BY HeadwordsGrow DEF SearchInv
  <2>5. /\ IsHeadwords(cached)
        /\ \A i \in DOMAIN cached : cached[i].slug \in ToSet(Headwords[r])
    BY <2>2, <2>3, <2>4, ListIsHeadwords
  <2>6. Query \in Seq(Characters) /\ Letters \subseteq Characters
    BY QueryIsWord DEF Characters, Typable
  <2>7. PICK list : list = RankSuggestions(Query, cached) /\ found.list = list
    BY <2>1
  <2>8. /\ \A i, j \in DOMAIN list :
             i < j => /\ list[i].slug # list[j].slug
                      /\ \/ list[i].score < list[j].score
                         \/ list[i].score = list[j].score /\ list[i].rank <= list[j].rank
        /\ \A i \in DOMAIN list : \E k \in DOMAIN cached : list[i].slug = cached[k].slug
        /\ \A s \in NearTo(Query, cached) :
             \/ \E i \in DOMAIN list : list[i].slug = s.slug
             \/ Len(list) = MaxSuggestions /\ \A i \in DOMAIN list : list[i].score <= s.score
    BY <2>5, <2>6, <2>7, SuggestionsFacts
  <2>9. \A i \in DOMAIN list : list[i].slug \in Listed(edition)
    BY <2>4, <2>5, <2>8 DEF Listed
  <2>10. ASSUME NEW e \in ToSet(cached)
         PROVE  /\ OptimalStringAlignment(Query, e.slug) = OptimalStringAlignment(e.slug, Query)
                /\ (OptimalStringAlignment(Query, e.slug) = 1) = OneSlip(Query, e.slug)
                /\ (OptimalStringAlignment(Query, e.slug) = 0) = (Query = e.slug)
                /\ /\ OptimalStringAlignment(Query, e.slug) <= 1
                   /\ Head(e.slug) = Head(Query) \/ Bonus(Query, e.slug) > 0
                   => SuggestedOrCrowdedOut(e.slug)
    <3>1. PICK k \in DOMAIN cached : e = cached[k]
      BY DEF ToSet
    <3>2. e.slug \in Seq(Characters)
      <4>1. cached[k].slug \in Seq(Letters)
        BY <2>5, <3>1, HeadwordsAreWords
      <4>2. QED
        BY <2>6, <3>1, <4>1
    <3>3. ASSUME OptimalStringAlignment(Query, e.slug) <= 1,
                 Head(e.slug) = Head(Query) \/ Bonus(Query, e.slug) > 0
          PROVE  SuggestedOrCrowdedOut(e.slug)
      <4>1. Candidate(Query, cached[k].slug) /\ Score(Query, cached[k].slug) <= 10
        BY <2>6, <3>1, <3>2, <3>3, OneEditIsNear
      <4>2. PICK s \in NearTo(Query, cached) : s.slug = cached[k].slug
        BY <2>5, <2>6, <4>1, NearFacts
      <4>3. s.score = Score(Query, s.slug)
        BY <2>5, <2>6, NearFacts
      <4>4. QED
        BY <2>7, <2>8, <3>1, <4>2, <4>3 DEF SuggestedOrCrowdedOut
    <3>4. OptimalStringAlignment(Query, e.slug) = OptimalStringAlignment(e.slug, Query)
      BY <2>6, <3>2, AlignmentSymmetric
    <3>5. /\ (OptimalStringAlignment(Query, e.slug) = 1) = OneSlip(Query, e.slug)
          /\ (OptimalStringAlignment(Query, e.slug) = 0) = (Query = e.slug)
      BY <2>6, <3>2, OneEditIsOneSlip
    <3>6. QED
      BY <3>3, <3>4, <3>5
  <2>11. QED
    BY <2>7, <2>8, <2>9, <2>10
<1>3. QED
  BY <1>1, <1>2 DEF SuggestionsAreClosest

(* One slip of the typist is one edit, and a word that begins with the same*)
(* letter, or sounds the same, is then not crowded out by what is further  *)
(* away; suggestions are words, closest first, the more common first of two*)
(* that are as close; a redirect leads no further (rankSuggestions).       *)
THEOREM SuggestionsStayClosest == WordSearchSpec => []SuggestionsAreClosest
<1>1. SearchInv => SuggestionsAreClosest
  BY SuggestedNow
<1>2. QED
  BY <1>1, SearchInductive, PTL

LEMMA SearchTypesNow ==
  ASSUME SearchInv
  PROVE  WordSearchTypeOK
<1>1. typed \in BoundedSeq(Letters \cup DOMAIN SmallLetter \cup {Space}, MaxTyped)
  <2>1. PICK n \in Nat : n = Len(typed) /\ typed \in [1..n -> Typable] /\ n <= MaxTyped
    BY DEF SearchInv
  <2>2. n \in 0..MaxTyped
    BY <2>1, WordSearchAssumption
  <2>3. QED
    BY <2>1, <2>2 DEF BoundedSeq, SeqOf, Typable
<1>2. /\ inBox \in BOOLEAN /\ edition \in DOMAIN Headwords
      /\ frequencies \in {<< >>, <<Artifact>>, <<NoRanks>>}
      /\ cached = NoList \/ \E r \in 1..edition, rank \in ToSet(frequencies) : cached = List(r, rank)
  BY DEF SearchInv, KeptList
<1>3. found.kind \in Waiting \cup {"suggestions"}
  BY DEF SearchInv
<1>4. ASSUME found.kind = "suggestions"
      PROVE  ToSet([i \in DOMAIN found.list |-> found.list[i].slug]) \subseteq Listed(edition)
  <2>1. \A i \in DOMAIN found.list : found.list[i].slug \in Listed(edition)
    BY <1>4, SuggestedNow DEF SuggestionsAreClosest
  <2>2. QED
    BY <2>1 DEF ToSet
<1>5. QED
  BY <1>1, <1>2, <1>3, <1>4 DEF WordSearchTypeOK, Waiting

(* The types of the search; every suggestion is a word of the database,    *)
(* though the list it was taken from may be an edition old.                *)
THEOREM SearchTypes == WordSearchSpec => []WordSearchTypeOK
<1>1. SearchInv => WordSearchTypeOK
  BY SearchTypesNow
<1>2. QED
  BY <1>1, SearchInductive, PTL
==============================================================================
