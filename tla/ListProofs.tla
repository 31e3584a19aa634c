----------------------------- MODULE ListProofs -----------------------------
(***************************************************************************)
(* Facts the proofs about several components rest on: induction, and what  *)
(* becomes of a list that holds an element at most once.                   *)
(*                                                                         *)
(* No operator stands for an induction hypothesis (the provers cannot      *)
(* instantiate one): it is a set, of numbers or of sets, and a least       *)
(* element outside it is refuted.                                          *)
(***************************************************************************)
EXTENDS Lists, FiniteSets, FiniteSetTheorems, WellFoundedInduction, SequenceTheorems, TLAPS

----------------------------------------------------------------------------
(***************************************************************************)
(* Induction.                                                              *)
(***************************************************************************)

\* A set of numbers that is not empty has a least one.
LEMMA LeastNumber ==
    ASSUME NEW T \in SUBSET Nat, T # {}
    PROVE  \E n \in T : \A m \in T : n <= m
<1>1. IsWellFoundedOn(OpToRel(<, Nat), Nat) BY NatLessThanWellFounded
<1>2. \A x, y \in Nat : x < y => <<x, y>> \in OpToRel(<, Nat) BY DEF OpToRel
<1>3. \E R : IsWellFoundedOn(R, Nat) /\ \A x, y \in Nat : x < y => <<x, y>> \in R
  BY <1>1, <1>2, Zenon
<1>4. PICK R : IsWellFoundedOn(R, Nat) /\ \A x, y \in Nat : x < y => <<x, y>> \in R
  BY <1>3
<1>5. T \subseteq Nat /\ T # {} /\ IsWellFoundedOn(R, Nat) BY <1>4
<1>6. PICK x \in T : \A y \in T : ~(<<y, x>> \in R) BY <1>5, WFMin, Zenon
<1>7. x \in Nat /\ \A m \in T : m \in Nat OBVIOUS
<1>8. \A m \in T : ~(m < x) BY <1>4, <1>6, <1>7
<1> QED BY <1>7, <1>8

\* Induction on the numbers: a set that holds 0 and with a number the next.
LEMMA NumberInduction ==
    ASSUME NEW N \in SUBSET Nat, 0 \in N, \A n \in N : n + 1 \in N
    PROVE  N = Nat
<1> SUFFICES ASSUME Nat \ N # {} PROVE FALSE OBVIOUS
<1>1. Nat \ N \in SUBSET Nat OBVIOUS
<1>2. PICK n \in Nat \ N : \A m \in Nat \ N : n <= m BY <1>1, LeastNumber
<1>3. n - 1 \in Nat /\ n - 1 < n BY <1>2
<1>4. n - 1 \in N BY <1>2, <1>3
<1>5. (n - 1) + 1 = n BY <1>2
<1> QED BY <1>2, <1>4, <1>5

\* Induction on a finite set, one element at a time.
LEMMA SetInduction ==
    ASSUME NEW S, IsFiniteSet(S), NEW Good \in SUBSET SUBSET S, {} \in Good,
           \A T \in Good : \A x \in S \ T : T \cup {x} \in Good
    PROVE  S \in Good
<1> DEFINE N == {n \in Nat : \A T \in SUBSET S : Cardinality(T) = n => T \in Good}
<1>1. \A T \in SUBSET S : IsFiniteSet(T) /\ Cardinality(T) \in Nat
  BY FS_Subset, FS_CardinalityType
<1>2. 0 \in N
  <2>1. \A T \in SUBSET S : Cardinality(T) = 0 => T = {} BY <1>1, FS_EmptySet
  <2> QED BY <2>1
<1>3. ASSUME NEW n \in N PROVE n + 1 \in N
  <2> SUFFICES ASSUME NEW T \in SUBSET S, Cardinality(T) = n + 1 PROVE T \in Good
    OBVIOUS
  <2>1. n \in Nat OBVIOUS
  <2>2. T # {} BY <2>1, FS_EmptySet
  <2>3. PICK x \in T : TRUE BY <2>2
  <2>4. Cardinality(T \ {x}) = n BY <1>1, <2>1, FS_RemoveElement, SMTT(20)
  <2>5. T \ {x} \in Good BY <2>4
  <2>6. (T \ {x}) \cup {x} \in Good BY <2>5
  <2>7. (T \ {x}) \cup {x} = T OBVIOUS
  <2> QED BY <2>6, <2>7
<1> HIDE DEF N
<1>4. N = Nat
  <2>1. N \in SUBSET Nat BY DEF N
  <2> QED BY <1>2, <1>3, <2>1, NumberInduction
<1>5. S \in SUBSET S /\ Cardinality(S) \in N BY <1>1, <1>4
<1> QED BY <1>5 DEF N

----------------------------------------------------------------------------
(***************************************************************************)
(* Lists that hold an element at most once.                                *)
(***************************************************************************)

\* r is q with what was behind place i moved one place forward.
ClosesUp(q, i, r) ==
    /\ Len(r) = Len(q) - 1
    /\ \A k \in 1..Len(r) : r[k] = IF k < i THEN q[k] ELSE q[k + 1]

\* What removing an element does to its list.
LEMMA WithoutIs ==
    ASSUME NEW S, NEW q \in Seq(S), NEW t, NEW i \in DOMAIN q, Distinct(q), q[i] = t
    PROVE  Without(q, t) \in Seq(S) /\ ClosesUp(q, i, Without(q, t))
<1>1. DOMAIN q = 1..Len(q) /\ Len(q) \in Nat BY LenProperties
<1> DEFINE r == Without(q, t)
           front == SubSeq(q, 1, i - 1)
           back == SubSeq(q, i + 1, Len(q))
<1>2. i = CHOOSE k \in DOMAIN q : q[k] = t BY DEF Distinct
<1>3. r = front \o back BY <1>2 DEF Without
<1>4. i \in 1..Len(q) BY <1>1
<1>5. \A k \in 1..Len(q) : q[k] \in S BY ElementOfSeq
<1>6. /\ i - 1 \in Int /\ i + 1 \in Int /\ Len(q) \in Int
      /\ \A k \in 1 .. i - 1 : q[k] \in S
      /\ \A k \in i + 1 .. Len(q) : q[k] \in S
  BY <1>1, <1>4, <1>5
<1>7. /\ front \in Seq(S)
      /\ Len(front) = IF 1 <= i - 1 THEN (i - 1) - 1 + 1 ELSE 0
      /\ \A k \in 1 .. (i - 1) - 1 + 1 : front[k] = q[1 + k - 1]
  BY <1>6, SubSeqProperties
<1>8. /\ back \in Seq(S)
      /\ Len(back) = IF i + 1 <= Len(q) THEN Len(q) - (i + 1) + 1 ELSE 0
      /\ \A k \in 1 .. Len(q) - (i + 1) + 1 : back[k] = q[(i + 1) + k - 1]
  BY <1>6, SubSeqProperties
<1> HIDE DEF front, back
<1>9. /\ Len(front) = i - 1 /\ Len(back) = Len(q) - i
      /\ \A k \in 1 .. i - 1 : front[k] = q[k]
      /\ \A k \in 1 .. Len(q) - i : back[k] = q[i + k]
  <2>1. Len(front) = i - 1 /\ Len(back) = Len(q) - i
    <3>1. /\ Len(front) = IF 1 <= i - 1 THEN (i - 1) - 1 + 1 ELSE 0
          /\ Len(back) = IF i + 1 <= Len(q) THEN Len(q) - (i + 1) + 1 ELSE 0
      BY <1>7, <1>8
    <3>2. i \in Int /\ 1 <= i /\ i <= Len(q) /\ Len(q) \in Int BY <1>1, <1>4
    <3> QED BY <3>1, <3>2
  <2>2. (i - 1) - 1 + 1 = i - 1 /\ Len(q) - (i + 1) + 1 = Len(q) - i BY <1>1, <1>4
  <2>3. ASSUME NEW k \in 1 .. i - 1 PROVE front[k] = q[k]
    <3>1. 1 + k - 1 = k BY <1>4
    <3> QED BY <1>7, <2>2, <3>1
  <2>4. ASSUME NEW k \in 1 .. Len(q) - i PROVE back[k] = q[i + k]
    <3>1. (i + 1) + k - 1 = i + k BY <1>4
    <3> QED BY <1>8, <2>2, <3>1
  <2> QED BY <2>1, <2>3, <2>4
<1> DEFINE both == front \o back
<1>10. /\ both \in Seq(S)
       /\ Len(both) = Len(front) + Len(back)
       /\ \A k \in 1 .. Len(front) + Len(back) :
             both[k] = IF k <= Len(front) THEN front[k] ELSE back[k - Len(front)]
  BY <1>7, <1>8, ConcatProperties
<1>11. r = both BY <1>3
<1> HIDE DEF both, r
<1>12. Len(both) = Len(q) - 1 BY <1>1, <1>4, <1>9, <1>10
<1>13. ASSUME NEW k \in 1..Len(both) PROVE both[k] = IF k < i THEN q[k] ELSE q[k + 1]
  <2>1. CASE k < i
    <3>1. k \in 1 .. i - 1 /\ k <= Len(front) BY <1>1, <1>4, <1>9, <2>1
    <3> QED BY <1>9, <1>10, <1>12, <2>1, <3>1
  <2>2. CASE ~(k < i)
    <3>1. /\ ~(k <= Len(front)) /\ k - Len(front) \in 1 .. Len(q) - i
          /\ i + (k - Len(front)) = k + 1
      BY <1>1, <1>4, <1>9, <1>12, <2>2
    <3>2. both[k] = back[k - Len(front)] BY <1>10, <1>12, <3>1
    <3>3. back[k - Len(front)] = q[i + (k - Len(front))] BY <1>9, <3>1
    <3> QED BY <2>2, <3>1, <3>2, <3>3
  <2> QED BY <2>1, <2>2
<1>14. r \in Seq(S) /\ ClosesUp(q, i, r) BY <1>10, <1>11, <1>12, <1>13 DEF ClosesUp
<1> QED BY <1>14 DEF r

\* The others stay, still once each.
LEMMA WithoutHolds ==
    ASSUME NEW S, NEW q \in Seq(S), NEW t, Distinct(q)
    PROVE  /\ Without(q, t) \in Seq(S)
           /\ Distinct(Without(q, t))
           /\ Held(Without(q, t)) = Held(q) \ {t}
<1>1. DOMAIN q = 1..Len(q) /\ Len(q) \in Nat BY LenProperties
<1>2. CASE ~\E i \in DOMAIN q : q[i] = t
  <2>1. Without(q, t) = q BY <1>2 DEF Without
  <2>2. Held(q) \ {t} = Held(q) BY <1>2 DEF Held
  <2> QED BY <2>1, <2>2
<1>3. CASE \E i \in DOMAIN q : q[i] = t
  <2>1. PICK i \in 1..Len(q) : q[i] = t BY <1>1, <1>3
  <2> DEFINE r == Without(q, t)
  <2>2. i \in DOMAIN q BY <1>1, <2>1
  <2>3. /\ r \in Seq(S) /\ Len(r) = Len(q) - 1
        /\ \A k \in 1..Len(r) : r[k] = IF k < i THEN q[k] ELSE q[k + 1]
    <3>1. r \in Seq(S) /\ ClosesUp(q, i, r) BY <2>1, <2>2, WithoutIs
    <3> QED BY <3>1 DEF ClosesUp
  <2> HIDE DEF r
  <2>4. DOMAIN r = 1..Len(r) /\ Len(r) \in Nat BY <2>3, LenProperties
  <2>5. ASSUME NEW k \in 1..Len(r), NEW l \in 1..Len(r), r[k] = r[l] PROVE k = l
    <3>1. PICK m \in {k, k + 1} : r[k] = q[m] /\ (m = k <=> k < i) BY <2>3
    <3>2. PICK n \in {l, l + 1} : r[l] = q[n] /\ (n = l <=> l < i) BY <2>3
    <3>3. m \in DOMAIN q /\ n \in DOMAIN q BY <1>1, <2>3, <2>4
    <3>4. m = n BY <2>5, <3>1, <3>2, <3>3 DEF Distinct
    <3> QED BY <2>1, <2>4, <3>1, <3>2, <3>4
  <2>6. Distinct(r) BY <2>4, <2>5 DEF Distinct
  <2>7. ASSUME NEW k \in 1..Len(r) PROVE r[k] \in Held(q) \ {t}
    <3>1. PICK m \in {k, k + 1} : r[k] = q[m] /\ (m = k <=> k < i) BY <2>3
    <3>2. m \in DOMAIN q /\ m # i BY <1>1, <2>1, <2>3, <2>4, <3>1
    <3> QED BY <2>1, <2>2, <3>1, <3>2 DEF Held, Distinct
  <2>8. ASSUME NEW l \in 1..Len(q), q[l] # t PROVE \E k \in 1..Len(r) : r[k] = q[l]
    <3>1. CASE l < i
      <4>1. l \in 1..Len(r) BY <1>1, <2>1, <2>3, <3>1
      <4> QED BY <2>3, <3>1, <4>1
    <3>2. CASE l > i
      <4>1. l - 1 \in 1..Len(r) /\ ~(l - 1 < i) /\ (l - 1) + 1 = l BY <1>1, <2>1, <2>3, <3>2
      <4> QED BY <2>3, <4>1
    <3> QED BY <2>1, <2>8, <3>1, <3>2
  <2>9. Held(r) = Held(q) \ {t}
    <3>1. Held(r) \subseteq Held(q) \ {t} BY <2>4, <2>7 DEF Held
    <3>2. Held(q) \ {t} \subseteq Held(r) BY <1>1, <2>4, <2>8 DEF Held
    <3> QED BY <3>1, <3>2
  <2> QED BY <2>3, <2>6, <2>9 DEF r
<1> QED BY <1>2, <1>3

\* The list r begins with t, and otherwise holds what q holds.
PutFirst(r, q, t) ==
    /\ Distinct(r) /\ Held(r) = Held(q) \cup {t}
    /\ Len(r) \in Nat \ {0} /\ r[1] = t

\* An element moved to the front, or put there.
LEMMA FrontHolds ==
    ASSUME NEW S, NEW q \in Seq(S), NEW t \in S, Distinct(q),
           NEW r, r = <<t>> \o Without(q, t)
    PROVE  r \in Seq(S) /\ PutFirst(r, q, t)
<1> DEFINE w == Without(q, t)
           b == <<t>> \o w
<1>1. w \in Seq(S) /\ Distinct(w) /\ Held(w) = Held(q) \ {t} BY WithoutHolds
<1> HIDE DEF w
<1>2. DOMAIN w = 1..Len(w) /\ Len(w) \in Nat BY <1>1, LenProperties
<1>3. <<t>> \in Seq(S) /\ Len(<<t>>) = 1 /\ <<t>>[1] = t OBVIOUS
<1>4. /\ b \in Seq(S)
      /\ Len(b) = Len(<<t>>) + Len(w)
      /\ \A k \in 1 .. Len(<<t>>) + Len(w) :
            b[k] = IF k <= Len(<<t>>) THEN <<t>>[k] ELSE w[k - Len(<<t>>)]
  BY <1>1, <1>3, ConcatProperties
<1> HIDE DEF b
<1>5. /\ Len(b) = 1 + Len(w) /\ b[1] = t
      /\ \A k \in 2 .. Len(w) + 1 : b[k] = w[k - 1]
  <2>1. 1 \in 1 .. 1 + Len(w) BY <1>2
  <2>2. b[1] = t BY <1>3, <1>4, <2>1
  <2>3. ASSUME NEW k \in 2 .. Len(w) + 1 PROVE b[k] = w[k - 1]
    <3>1. k \in 1 .. 1 + Len(w) /\ ~(k <= 1) BY <1>2
    <3> QED BY <1>3, <1>4, <3>1
  <2> QED BY <1>3, <1>4, <2>2, <2>3
<1>6. DOMAIN b = 1 .. Len(w) + 1 BY <1>2, <1>4, <1>5, LenProperties
<1>7. \A k \in 2 .. Len(w) + 1 : k - 1 \in DOMAIN w /\ b[k] # t
  <2>1. \A i \in DOMAIN w : w[i] # t BY <1>1 DEF Held
  <2>2. \A k \in 2 .. Len(w) + 1 : k - 1 \in DOMAIN w BY <1>2
  <2> QED BY <1>5, <2>1, <2>2
<1>8. Distinct(b)
  <2> SUFFICES ASSUME NEW k \in DOMAIN b, NEW l \in DOMAIN b, b[k] = b[l] PROVE k = l
    BY DEF Distinct
  <2>1. CASE k = 1 \/ l = 1 BY <1>2, <1>5, <1>6, <1>7, <2>1
  <2>2. CASE k # 1 /\ l # 1
    <3>1. k \in 2 .. Len(w) + 1 /\ l \in 2 .. Len(w) + 1 BY <1>2, <1>6, <2>2
    <3>2. k - 1 = l - 1 BY <1>1, <1>5, <1>7, <3>1 DEF Distinct
    <3> QED BY <3>1, <3>2
  <2> QED BY <2>1, <2>2
<1>9. Held(b) = Held(q) \cup {t}
  <2>1. ASSUME NEW k \in DOMAIN b PROVE b[k] \in Held(w) \cup {t}
    <3>1. k = 1 \/ k \in 2 .. Len(w) + 1 BY <1>2, <1>6
    <3> QED BY <1>5, <1>7, <3>1 DEF Held
  <2>2. ASSUME NEW k \in DOMAIN w PROVE w[k] \in Held(b)
    <3>1. k + 1 \in 2 .. Len(w) + 1 /\ (k + 1) - 1 = k BY <1>2
    <3>2. k + 1 \in DOMAIN b /\ b[k + 1] = w[k] BY <1>2, <1>5, <1>6, <3>1
    <3> QED BY <3>2 DEF Held
  <2>3. 1 \in DOMAIN b BY <1>2, <1>6
  <2>4. t \in Held(b) BY <1>5, <2>3 DEF Held
  <2>5. Held(b) \subseteq Held(w) \cup {t} BY <2>1 DEF Held
  <2>6. Held(w) \subseteq Held(b) BY <2>2 DEF Held
  <2> QED BY <1>1, <2>4, <2>5, <2>6
<1>10. r = b BY DEF b, w
<1>11. Len(b) \in Nat \ {0} BY <1>2, <1>5
<1> QED BY <1>4, <1>5, <1>8, <1>9, <1>10, <1>11 DEF PutFirst

\* The list r is q but for the elements behind the first k.
CutOff(r, q, k, behind) ==
    /\ Distinct(r) /\ Len(r) = k
    /\ Held(r) = Held(q) \ behind
    /\ behind \subseteq Held(q) /\ q[1] \notin behind

\* The first k elements, and those behind them.
LEMMA FirstHold ==
    ASSUME NEW S, NEW q \in Seq(S), Distinct(q), NEW k \in 1..Len(q),
           NEW behind, behind = {q[i] : i \in k + 1 .. Len(q)}
    PROVE  SubSeq(q, 1, k) \in Seq(S) /\ CutOff(SubSeq(q, 1, k), q, k, behind)
<1>1. DOMAIN q = 1..Len(q) /\ Len(q) \in Nat BY LenProperties
<1>2. \A i \in 1..Len(q) : q[i] \in S BY ElementOfSeq
<1> DEFINE b == SubSeq(q, 1, k)
<1>3. 1 \in Int /\ k \in Int /\ \A i \in 1..k : q[i] \in S BY <1>1, <1>2
<1>4. /\ b \in Seq(S)
      /\ Len(b) = IF 1 <= k THEN k - 1 + 1 ELSE 0
      /\ \A i \in 1 .. k - 1 + 1 : b[i] = q[1 + i - 1]
  BY <1>3, SubSeqProperties
<1> HIDE DEF b
<1>5. Len(b) = k /\ \A i \in 1..k : b[i] = q[i]
  <2>1. 1 <= k /\ k - 1 + 1 = k BY <1>1
  <2>2. ASSUME NEW i \in 1..k PROVE b[i] = q[i]
    <3>1. 1 + i - 1 = i OBVIOUS
    <3> QED BY <1>4, <2>1, <3>1
  <2> QED BY <1>4, <2>1, <2>2
<1>6. DOMAIN b = 1..k BY <1>4, <1>5, LenProperties
<1>7. Distinct(b) BY <1>1, <1>5, <1>6 DEF Distinct
<1>8. ASSUME NEW i \in 1..k, NEW j \in k + 1 .. Len(q) PROVE q[i] # q[j]
  BY <1>1 DEF Distinct
<1>9. Held(b) = Held(q) \ behind
  <2>1. \A i \in 1..k : q[i] \in Held(q) \ behind BY <1>1, <1>8 DEF Held
  <2>2. \A i \in 1..Len(q) : i \in 1..k \/ i \in k + 1 .. Len(q) BY <1>1
  <2>3. Held(b) \subseteq Held(q) \ behind BY <1>5, <1>6, <2>1 DEF Held
  <2>4. Held(q) \ behind \subseteq Held(b)
    <3> SUFFICES ASSUME NEW i \in 1..Len(q), q[i] \notin behind PROVE q[i] \in Held(b)
      BY <1>1 DEF Held
    <3>1. i \in 1..k BY <2>2
    <3> QED BY <1>5, <1>6, <3>1 DEF Held
  <2> QED BY <2>3, <2>4
<1>10. behind \subseteq Held(q) BY <1>1 DEF Held
<1>11. q[1] \notin behind
  <2>1. 1 \in 1..k BY <1>1
  <2> QED BY <1>8, <2>1
<1>12. SubSeq(q, 1, k) = b BY DEF b
<1> QED BY <1>4, <1>5, <1>7, <1>9, <1>10, <1>11, <1>12 DEF CutOff

\* Such a list is as long as what it holds is large.
LEMMA LengthIsCardinality ==
    ASSUME NEW S, NEW q \in Seq(S), Distinct(q)
    PROVE  IsFiniteSet(Held(q)) /\ Cardinality(Held(q)) = Len(q)
<1>1. DOMAIN q = 1..Len(q) /\ Len(q) \in Nat BY LenProperties
<1>2. IsFiniteSet(1..Len(q)) /\ Cardinality(1..Len(q)) = Len(q)
  <2>1. 1 \in Int /\ Len(q) \in Int BY <1>1
  <2>2. /\ IsFiniteSet(1..Len(q))
        /\ Cardinality(1..Len(q)) = IF 1 > Len(q) THEN 0 ELSE Len(q) - 1 + 1
    BY <2>1, FS_Interval
  <2> QED BY <1>1, <2>2
<1> DEFINE f == [i \in 1..Len(q) |-> q[i]]
<1>3. f \in Bijection(1..Len(q), Held(q))
  <2>1. \A i, k \in 1..Len(q) : f[i] = f[k] => i = k BY <1>1 DEF Distinct
  <2>2. f \in [1..Len(q) -> Held(q)] BY <1>1 DEF Held
  <2>3. \A t \in Held(q) : \E i \in 1..Len(q) : f[i] = t BY <1>1 DEF Held
  <2>4. DOMAIN f = 1..Len(q) OBVIOUS
  <2> HIDE DEF f
  <2>5. IsInjective(f) BY <2>1, <2>4 DEF IsInjective
  <2> QED BY <2>2, <2>3, <2>5 DEF Bijection, Injection, Surjection
<1>4. ExistsBijection(1..Len(q), Held(q)) BY <1>3 DEF ExistsBijection
<1> QED BY <1>2, <1>4, FS_Bijection
\* Two lists one after the other.
LEMMA JoinHolds ==
    ASSUME NEW S, NEW q \in Seq(S), NEW r \in Seq(S)
    PROVE  /\ q \o r \in Seq(S)
           /\ Held(q \o r) = Held(q) \cup Held(r)
           /\ (Distinct(q) /\ Distinct(r) /\ Held(q) \cap Held(r) = {}) => Distinct(q \o r)
<1> DEFINE b == q \o r
           m == Len(q)
           n == Len(r)
<1>1. DOMAIN q = 1..m /\ m \in Nat /\ DOMAIN r = 1..n /\ n \in Nat BY LenProperties
<1>2. /\ b \in Seq(S) /\ Len(b) = m + n
      /\ \A k \in 1 .. m + n : b[k] = IF k <= m THEN q[k] ELSE r[k - m]
  BY ConcatProperties
<1> HIDE DEF b, m, n
<1>3. DOMAIN b = 1 .. m + n BY <1>2, LenProperties
<1>4. /\ \A k \in 1 .. m : b[k] = q[k]
      /\ \A k \in m + 1 .. m + n : b[k] = r[k - m] /\ k - m \in 1 .. n
      /\ \A k \in 1 .. n : b[k + m] = r[k] /\ k + m \in DOMAIN b
  <2>1. \A k \in 1 .. m : b[k] = q[k] BY <1>1, <1>2
  <2>2. \A k \in m + 1 .. m + n : b[k] = r[k - m] /\ k - m \in 1 .. n BY <1>1, <1>2
  <2>3. ASSUME NEW k \in 1 .. n PROVE b[k + m] = r[k] /\ k + m \in DOMAIN b
    <3>1. k + m \in m + 1 .. m + n /\ (k + m) - m = k BY <1>1
    <3> QED BY <1>1, <1>3, <2>2, <3>1
  <2> QED BY <2>1, <2>2, <2>3
<1>5. \A k \in DOMAIN b : k \in 1 .. m \/ k \in m + 1 .. m + n BY <1>1, <1>3
<1>6. Held(b) = Held(q) \cup Held(r)
  <2>1. Held(b) \subseteq Held(q) \cup Held(r) BY <1>1, <1>4, <1>5 DEF Held
  <2>2. Held(q) \subseteq Held(b)
    <3>1. \A k \in 1 .. m : k \in DOMAIN b BY <1>1, <1>3
    <3> QED BY <1>1, <1>4, <3>1 DEF Held
  <2>3. Held(r) \subseteq Held(b)
    <3> SUFFICES ASSUME NEW k \in 1 .. n PROVE r[k] \in Held(b) BY <1>1 DEF Held
    <3>1. b[k + m] = r[k] /\ k + m \in DOMAIN b BY <1>4
    <3> QED BY <3>1 DEF Held
  <2> QED BY <2>1, <2>2, <2>3
<1>7. ASSUME Distinct(q), Distinct(r), Held(q) \cap Held(r) = {} PROVE Distinct(b)
  <2> SUFFICES ASSUME NEW k \in DOMAIN b, NEW l \in DOMAIN b, b[k] = b[l] PROVE k = l
    BY DEF Distinct
  <2>1. ASSUME NEW i \in 1 .. m, NEW j \in m + 1 .. m + n PROVE b[i] # b[j]
    <3>1. b[i] \in Held(q) /\ b[j] \in Held(r) BY <1>1, <1>4 DEF Held
    <3> QED BY <1>7, <3>1
  <2>2. CASE k \in 1 .. m /\ l \in 1 .. m BY <1>1, <1>4, <1>7, <2>2 DEF Distinct
  <2>3. CASE k \in m + 1 .. m + n /\ l \in m + 1 .. m + n
    <3>1. k - m = l - m BY <1>1, <1>4, <1>7, <2>3 DEF Distinct
    <3> QED BY <1>1, <2>3, <3>1
  <2> QED BY <1>5, <2>1, <2>2, <2>3
<1> QED BY <1>2, <1>6, <1>7 DEF b

\* A list of one.
LEMMA SingleHolds ==
    ASSUME NEW S, NEW t \in S
    PROVE  <<t>> \in Seq(S) /\ Distinct(<<t>>) /\ Held(<<t>>) = {t}
BY DEF Distinct, Held

\* A stretch of a list.
LEMMA StretchHolds ==
    ASSUME NEW S, NEW q \in Seq(S), NEW i \in 1 .. Len(q) + 1, NEW j \in 0 .. Len(q)
    PROVE  /\ SubSeq(q, i, j) \in Seq(S)
           /\ Held(SubSeq(q, i, j)) = {q[k] : k \in i .. j}
           /\ Distinct(q) => Distinct(SubSeq(q, i, j))
<1> DEFINE b == SubSeq(q, i, j)
<1>1. DOMAIN q = 1..Len(q) /\ Len(q) \in Nat BY LenProperties
<1>2. i \in Int /\ j \in Int /\ \A k \in i .. j : k \in DOMAIN q /\ q[k] \in S
  <2>1. \A k \in i .. j : k \in 1..Len(q) BY <1>1
  <2> QED BY <1>1, <2>1, ElementOfSeq
<1>3. /\ b \in Seq(S)
      /\ Len(b) = IF i <= j THEN j - i + 1 ELSE 0
      /\ \A k \in 1 .. j - i + 1 : b[k] = q[i + k - 1]
  BY <1>2, SubSeqProperties
<1> HIDE DEF b
<1>4. DOMAIN b = 1 .. j - i + 1
  <2>1. DOMAIN b = 1..Len(b) BY <1>3, LenProperties
  <2>2. CASE i <= j BY <1>3, <2>1, <2>2
  <2>3. CASE ~(i <= j)
    <3>1. DOMAIN b = {} BY <1>3, <2>1, <2>3
    <3>2. 1 .. j - i + 1 = {} BY <1>1, <2>3
    <3> QED BY <3>1, <3>2
  <2> QED BY <2>2, <2>3
<1>5. \A k \in DOMAIN b : i + k - 1 \in i .. j BY <1>1, <1>4
<1>6. Held(b) = {q[k] : k \in i .. j}
  <2>1. ASSUME NEW k \in i .. j PROVE q[k] \in Held(b)
    <3>1. k - i + 1 \in DOMAIN b /\ i + (k - i + 1) - 1 = k BY <1>1, <1>4
    <3>2. b[k - i + 1] = q[k] BY <1>3, <1>4, <3>1
    <3> QED BY <3>1, <3>2 DEF Held
  <2>2. ASSUME NEW k \in DOMAIN b PROVE b[k] \in {q[l] : l \in i .. j}
    BY <1>3, <1>4, <1>5
  <2> QED BY <2>1, <2>2 DEF Held
<1>7. ASSUME Distinct(q) PROVE Distinct(b)
  <2> SUFFICES ASSUME NEW k \in DOMAIN b, NEW l \in DOMAIN b, b[k] = b[l] PROVE k = l
    BY DEF Distinct
  <2>1. i + k - 1 \in DOMAIN q /\ i + l - 1 \in DOMAIN q BY <1>2, <1>5
  <2>2. q[i + k - 1] = q[i + l - 1] BY <1>3, <1>4
  <2>3. i + k - 1 = i + l - 1 BY <1>7, <2>1, <2>2 DEF Distinct
  <2> QED BY <1>1, <1>4, <2>3
<1> QED BY <1>3, <1>6, <1>7 DEF b

\* What a list holds decides whose list it is.
LEMMA ListOf ==
    ASSUME NEW S, NEW q \in Seq(S), NEW T
    PROVE  Held(q) \subseteq S /\ (Held(q) \subseteq T => q \in Seq(T))
<1>1. DOMAIN q = 1..Len(q) /\ Len(q) \in Nat /\ q \in [1..Len(q) -> S] BY LenProperties
<1>2. Held(q) \subseteq S BY <1>1 DEF Held
<1>3. ASSUME Held(q) \subseteq T PROVE q \in Seq(T)
  <2>1. \A k \in 1..Len(q) : q[k] \in T BY <1>1, <1>3 DEF Held
  <2>2. q \in [1..Len(q) -> T] BY <1>1, <2>1
  <2> QED BY <1>1, <2>2
<1> QED BY <1>2, <1>3
============================================================================
