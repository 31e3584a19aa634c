------------------------- MODULE WebPlaylistsProofs -------------------------
(***************************************************************************)
(* That the playlists stay a tree, that no list gets a track twice, that   *)
(* smart rules are written where they belong, and that a dialog acts on    *)
(* what it named, for any number of playlists and of requests under way.   *)
(*                                                                         *)
(* That the folders form a tree is said of walks up the parents; what is   *)
(* carried through the steps is that no set of entries holds all its       *)
(* parents.  Of a request the invariant says what the handler that sent it *)
(* saw to: whose rules it carries, and that its tracks are there once.     *)
(***************************************************************************)
EXTENDS WebPlaylists, ListProofs

Node == [kind: Kinds, parent: Ids \cup {Root}, rules: Rules \cup {None},
         tracks: Seq(Tracks \cup {NoTrack})]

IsTable(t) == DOMAIN t \subseteq Ids /\ \A n \in DOMAIN t : t[n] \in Node

\* No entries are under each other: a set that holds the parent of each of its
\* members is empty.
Grounded(t) == \A S \in SUBSET DOMAIN t : (\A n \in S : t[n].parent \in S) => S = {}

IsTree(t) ==
    /\ IsTable(t)
    /\ \A n \in DOMAIN t : CanHold(t, t[n].parent)
    /\ Grounded(t)

----------------------------------------------------------------------------
(***************************************************************************)
(* The walk up.                                                            *)
(***************************************************************************)

Above(t, n) == IF n \in DOMAIN t THEN t[n].parent ELSE Root

\* The walk u starts at n and goes up h times.
Climbs(u, t, n, h) ==
    u = [k \in 0 .. h |-> IF k = 0 THEN n ELSE Above(t, u[k - 1])]

\* A table holds finitely many entries.
LEMMA TableIsFinite ==
    ASSUME NEW t, IsTable(t)
    PROVE  /\ IsFiniteSet(DOMAIN t) /\ Cardinality(DOMAIN t) \in Nat
           /\ \A S \in SUBSET DOMAIN t : IsFiniteSet(S) /\ Cardinality(S) \in Nat
           /\ DOMAIN t # {} => Cardinality(DOMAIN t) >= 1
           /\ Root \notin DOMAIN t
<1>1. 1 \in Int /\ MaxID \in Int BY MaxIDAssumption
<1>2. IsFiniteSet(1 .. MaxID) BY <1>1, FS_Interval
<1>3. DOMAIN t \in SUBSET (1 .. MaxID) BY DEF IsTable, Ids
<1>4. IsFiniteSet(DOMAIN t) BY <1>2, <1>3, FS_Subset
<1>5. \A S \in SUBSET DOMAIN t : IsFiniteSet(S) /\ Cardinality(S) \in Nat
  BY <1>4, FS_Subset, FS_CardinalityType
<1>6. Cardinality(DOMAIN t) = 0 <=> DOMAIN t = {} BY <1>4, FS_EmptySet
<1>7. Root \notin DOMAIN t BY <1>3 DEF Root
<1> QED BY <1>4, <1>5, <1>6, <1>7

\* There is such a walk, of every height.
LEMMA ClimbExists ==
    ASSUME NEW t, NEW n, NEW h \in Nat
    PROVE  \E u : Climbs(u, t, n, h)
<1> DEFINE N == {g \in Nat : \E u : Climbs(u, t, n, g)}
<1>1. 0 \in N
  <2> DEFINE u == [k \in 0 .. 0 |-> n]
  <2>1. u = [k \in 0 .. 0 |-> IF k = 0 THEN n ELSE Above(t, u[k - 1])] OBVIOUS
  <2> QED BY <2>1 DEF Climbs
<1>2. ASSUME NEW g \in N PROVE g + 1 \in N
  <2>1. g \in Nat OBVIOUS
  <2>2. PICK u : Climbs(u, t, n, g) OBVIOUS
  <2>3. \A k \in 0 .. g : u[k] = IF k = 0 THEN n ELSE Above(t, u[k - 1])
    BY <2>2 DEF Climbs
  <2> DEFINE w == [k \in 0 .. g + 1 |-> IF k = 0 THEN n ELSE Above(t, u[k - 1])]
  <2>4. \A k \in 0 .. g : w[k] = u[k] BY <2>1, <2>3
  <2>5. \A k \in 0 .. g + 1 : k # 0 => w[k - 1] = u[k - 1]
    <3> HIDE DEF w
    <3>1. \A k \in 0 .. g + 1 : k # 0 => k - 1 \in 0 .. g BY <2>1
    <3> QED BY <2>4, <3>1
  <2>6. w = [k \in 0 .. g + 1 |-> IF k = 0 THEN n ELSE Above(t, w[k - 1])] BY <2>5
  <2>7. Climbs(w, t, n, g + 1) BY <2>6 DEF Climbs
  <2> HIDE DEF w
  <2> QED BY <2>1, <2>7
<1>3. N \in SUBSET Nat OBVIOUS
<1> HIDE DEF N
<1>4. N = Nat BY <1>1, <1>2, <1>3, NumberInduction
<1> QED BY <1>4 DEF N

\* Up is the walk as high as the table is large.
LEMMA UpClimbs ==
    ASSUME NEW t, IsTable(t), NEW n
    PROVE  Climbs(Up(t, n), t, n, Cardinality(DOMAIN t))
<1> DEFINE h == Cardinality(DOMAIN t)
<1>1. h \in Nat BY TableIsFinite
<1>2. \E u : Climbs(u, t, n, h) BY <1>1, ClimbExists
<1>3. Climbs(CHOOSE u : Climbs(u, t, n, h), t, n, h) BY <1>2
<1>4. Up(t, n) = CHOOSE u : Climbs(u, t, n, h) BY DEF Up, Climbs, Above
<1> QED BY <1>3, <1>4

\* Its steps.
LEMMA UpSteps ==
    ASSUME NEW t, IsTable(t), NEW n, NEW u, u = Up(t, n)
    PROVE  /\ u[0] = n
           /\ \A k \in 1 .. Cardinality(DOMAIN t) : u[k] = Above(t, u[k - 1])
<1> DEFINE h == Cardinality(DOMAIN t)
<1>1. h \in Nat BY TableIsFinite
<1>2. Climbs(u, t, n, h) BY UpClimbs
<1> HIDE DEF h
<1>3. \A k \in 0 .. h : u[k] = IF k = 0 THEN n ELSE Above(t, u[k - 1])
  BY <1>2 DEF Climbs
<1> QED BY <1>1, <1>3 DEF h

\* The walk from n goes on as the one from its parent.
LEMMA UpFromParent ==
    ASSUME NEW t, IsTable(t), NEW n, NEW u, u = Up(t, n), NEW w, w = Up(t, Above(t, n))
    PROVE  \A k \in 1 .. Cardinality(DOMAIN t) : u[k] = w[k - 1]
<1> DEFINE h == Cardinality(DOMAIN t)
           N == {k \in Nat : k + 1 <= h => u[k + 1] = w[k]}
<1>1. h \in Nat BY TableIsFinite
<1>2. /\ u[0] = n /\ w[0] = Above(t, n)
      /\ \A k \in 1 .. h : u[k] = Above(t, u[k - 1])
      /\ \A k \in 1 .. h : w[k] = Above(t, w[k - 1])
  <2>1. Climbs(u, t, n, h) /\ Climbs(w, t, Above(t, n), h) BY UpClimbs
  <2> HIDE DEF h
  <2>2. /\ \A k \in 0 .. h : u[k] = IF k = 0 THEN n ELSE Above(t, u[k - 1])
        /\ \A k \in 0 .. h : w[k] = IF k = 0 THEN Above(t, n) ELSE Above(t, w[k - 1])
    BY <2>1 DEF Climbs
  <2> QED BY <1>1, <2>2
<1> HIDE DEF h
<1>3. 0 \in N
  <2> SUFFICES ASSUME 1 <= h PROVE u[1] = w[0] OBVIOUS
  <2>1. 1 \in 1 .. h BY <1>1
  <2>2. u[1] = Above(t, u[1 - 1]) BY <1>2, <2>1
  <2> QED BY <1>2, <2>2
<1>4. ASSUME NEW k \in N PROVE k + 1 \in N
  <2> SUFFICES ASSUME k + 2 <= h PROVE u[k + 2] = w[k + 1] OBVIOUS
  <2>1. k \in Nat OBVIOUS
  <2>2. k + 2 \in 1 .. h /\ k + 1 \in 1 .. h /\ (k + 2) - 1 = k + 1 /\ (k + 1) - 1 = k
    BY <1>1, <2>1
  <2>3. u[k + 2] = Above(t, u[k + 1]) BY <1>2, <2>2
  <2>4. w[k + 1] = Above(t, w[k]) BY <1>2, <2>2
  <2>5. u[k + 1] = w[k] BY <1>1, <2>1
  <2> QED BY <2>3, <2>4, <2>5
<1>5. N \in SUBSET Nat OBVIOUS
<1> HIDE DEF N
<1>6. N = Nat BY <1>3, <1>4, <1>5, NumberInduction
<1> SUFFICES ASSUME NEW k \in 1 .. h PROVE u[k] = w[k - 1] BY DEF h
<1>7. k - 1 \in N /\ (k - 1) + 1 = k BY <1>1, <1>6
<1> QED BY <1>1, <1>7 DEF N

\* From n the walk reaches the root.
Reaches(t, n) == \E k \in 0 .. Cardinality(DOMAIN t) : Up(t, n)[k] = Root

\* One step from the parent's.
LEMMA ReachesFromParent ==
    ASSUME NEW t, IsTable(t), NEW n, NEW j \in Nat, j + 1 <= Cardinality(DOMAIN t),
           Up(t, Above(t, n))[j] = Root
    PROVE  Up(t, n)[j + 1] = Root
<1>1. Cardinality(DOMAIN t) \in Nat BY TableIsFinite
<1> DEFINE u == Up(t, n)
           w == Up(t, Above(t, n))
<1>2. w[j] = Root OBVIOUS
<1> HIDE DEF u, w
<1>3. \A k \in 1 .. Cardinality(DOMAIN t) : u[k] = w[k - 1] BY UpFromParent DEF u, w
<1>4. j + 1 \in 1 .. Cardinality(DOMAIN t) /\ (j + 1) - 1 = j BY <1>1
<1>5. u[j + 1] = Root BY <1>2, <1>3, <1>4
<1> QED BY <1>5 DEF u

\* In a tree every walk does: with each step up, more of the entries are on one
\* that has reached it.
LEMMA TreeReaches ==
    ASSUME NEW t, IsTree(t), NEW n \in DOMAIN t
    PROVE  Reaches(t, n)
<1> DEFINE D == DOMAIN t
           h == Cardinality(D)
           L(k) == {m \in D : \E j \in 0 .. h : j <= k /\ Up(t, m)[j] = Root}
           N == {k \in Nat : L(k) = D \/ Cardinality(L(k)) >= k}
<1>1. IsTable(t) /\ Grounded(t) /\ \A m \in D : CanHold(t, t[m].parent) BY DEF IsTree
<1>2. /\ IsFiniteSet(D) /\ h \in Nat /\ Root \notin D
      /\ \A S \in SUBSET D : IsFiniteSet(S) /\ Cardinality(S) \in Nat
  BY <1>1, TableIsFinite
<1>3. 0 \in N
  <2>1. L(0) \in SUBSET D OBVIOUS
  <2>2. Cardinality(L(0)) \in Nat BY <1>2, <2>1
  <2> QED BY <2>2
<1>4. ASSUME NEW k \in N PROVE k + 1 \in N
  <2>1. k \in Nat /\ (L(k) = D \/ Cardinality(L(k)) >= k) OBVIOUS
  <2>2. L(k) \subseteq L(k + 1) BY <1>2, <2>1
  <2>3. CASE L(k) = D
    <3>1. L(k + 1) = D BY <2>2, <2>3
    <3> QED BY <2>1, <3>1
  <2>4. CASE L(k) # D
    <3>1. Cardinality(L(k)) >= k BY <2>1, <2>4
    <3>2. L(k) \in SUBSET D /\ IsFiniteSet(L(k)) /\ Cardinality(L(k)) \in Nat BY <1>2
    <3>3. k < h
      <4>1. Cardinality(L(k)) <= h /\ Cardinality(L(k)) # h
        BY <1>2, <2>4, <3>2, FS_Subset
      <4> QED BY <1>2, <2>1, <3>1, <3>2, <4>1
    <3> DEFINE S == D \ L(k)
    <3>4. S \in SUBSET D /\ S # {} BY <2>4
    <3> HIDE DEF S
    <3>5. PICK m \in S : t[m].parent \notin S BY <1>1, <3>4 DEF Grounded
    <3>6. m \in D /\ m \notin L(k) BY <3>5 DEF S
    <3>7. Above(t, m) = t[m].parent BY <3>6 DEF Above
    <3>8. PICK j \in Nat : j <= k /\ Up(t, Above(t, m))[j] = Root
      <4>1. CASE t[m].parent = Root
        <5>1. Up(t, Root)[0] = Root BY <1>1, UpSteps
        <5> QED BY <2>1, <3>7, <4>1, <5>1
      <4>2. CASE t[m].parent # Root
        <5>1. t[m].parent \in D BY <1>1, <3>6, <4>2 DEF CanHold, IsFolder
        <5>2. t[m].parent \in L(k) BY <3>5, <5>1 DEF S
        <5> QED BY <1>2, <3>7, <5>2
      <4> QED BY <4>1, <4>2
    <3>9. j + 1 <= h /\ j + 1 \in 0 .. h /\ j + 1 <= k + 1 BY <1>2, <2>1, <3>3, <3>8
    <3>10. Up(t, m)[j + 1] = Root BY <1>1, <3>8, <3>9, ReachesFromParent
    <3>11. m \in L(k + 1) BY <3>6, <3>9, <3>10
    <3> DEFINE M == L(k) \cup {m}
    <3>12. M \in SUBSET L(k + 1) /\ L(k + 1) \in SUBSET D BY <2>2, <3>11
    <3>13. Cardinality(M) = Cardinality(L(k)) + 1 BY <3>2, <3>6, FS_AddElement
    <3>14. IsFiniteSet(L(k + 1)) /\ Cardinality(L(k + 1)) \in Nat BY <1>2, <3>12
    <3>15. Cardinality(M) <= Cardinality(L(k + 1)) BY <3>12, <3>14, FS_Subset
    <3>16. Cardinality(L(k + 1)) >= k + 1
      BY <2>1, <3>1, <3>2, <3>13, <3>14, <3>15
    <3> QED BY <2>1, <3>16
  <2> QED BY <2>3, <2>4
<1>5. N \in SUBSET Nat OBVIOUS
<1> HIDE DEF N
<1>6. N = Nat BY <1>3, <1>4, <1>5, NumberInduction
<1>7. L(h) = D \/ Cardinality(L(h)) >= h BY <1>2, <1>6 DEF N
<1>8. L(h) = D
  <2>1. L(h) \in SUBSET D OBVIOUS
  <2>2. Cardinality(L(h)) <= h /\ Cardinality(L(h)) \in Nat BY <1>2, <2>1, FS_Subset
  <2>3. CASE Cardinality(L(h)) >= h
    <3>1. Cardinality(L(h)) = h BY <1>2, <2>2, <2>3
    <3> QED BY <1>2, <2>1, <3>1, FS_Subset
  <2> QED BY <1>7, <2>3
<1>9. n \in L(h) BY <1>8
<1> QED BY <1>9 DEF Reaches

\* Where every walk reaches the root, no set of entries holds all its parents:
\* a walk from one of them would never leave it.
LEMMA ReachedIsGrounded ==
    ASSUME NEW t, IsTable(t), \A n \in DOMAIN t : Reaches(t, n)
    PROVE  Grounded(t)
<1> SUFFICES ASSUME NEW S \in SUBSET DOMAIN t, \A m \in S : t[m].parent \in S,
                    NEW n \in S
             PROVE  FALSE
  BY DEF Grounded
<1> DEFINE h == Cardinality(DOMAIN t)
           u == Up(t, n)
           N == {k \in Nat : k <= h => u[k] \in S}
<1>1. h \in Nat /\ Root \notin DOMAIN t BY TableIsFinite
<1>2. u[0] = n /\ \A k \in 1 .. h : u[k] = Above(t, u[k - 1]) BY UpSteps
<1>3. PICK k \in 0 .. h : u[k] = Root BY DEF Reaches
<1> HIDE DEF h, u
<1>4. 0 \in N BY <1>2
<1>5. ASSUME NEW i \in N PROVE i + 1 \in N
  <2> SUFFICES ASSUME i + 1 <= h PROVE u[i + 1] \in S OBVIOUS
  <2>1. i + 1 \in 1 .. h /\ (i + 1) - 1 = i /\ u[i] \in S BY <1>1
  <2>2. u[i + 1] = Above(t, u[i]) BY <1>2, <2>1
  <2> QED BY <2>1, <2>2 DEF Above
<1>6. N \in SUBSET Nat OBVIOUS
<1> HIDE DEF N
<1>7. N = Nat BY <1>4, <1>5, <1>6, NumberInduction
<1>8. k \in N /\ k <= h BY <1>1, <1>7
<1>9. u[k] \in S BY <1>8 DEF N
<1> QED BY <1>1, <1>3, <1>9
----------------------------------------------------------------------------
(***************************************************************************)
(* What is made of a tree is one.                                          *)
(***************************************************************************)

\* The entries of u are some of t's, but for where they hang.
FewerOrMoved(u, t) ==
    /\ DOMAIN u \subseteq DOMAIN t
    /\ \A n \in DOMAIN u : /\ u[n].kind = t[n].kind /\ u[n].rules = t[n].rules
                           /\ u[n].tracks = t[n].tracks

\* The entries of u are t's, where they hang in t.
InPlace(u, t) ==
    /\ DOMAIN u = DOMAIN t
    /\ \A n \in DOMAIN t : u[n].kind = t[n].kind /\ u[n].parent = t[n].parent

\* Entries whose rules or tracks change stay where they are.
LEMMA InPlaceIsTree ==
    ASSUME NEW t, IsTree(t), NEW u, IsTable(u), InPlace(u, t)
    PROVE  IsTree(u)
<1>1. Grounded(u) BY DEF IsTree, Grounded, InPlace
<1>2. \A n \in DOMAIN u : CanHold(u, u[n].parent) BY DEF IsTree, InPlace, CanHold, IsFolder
<1> QED BY <1>1, <1>2 DEF IsTree

\* Move: were there entries under each other now, the new parent's walk to the
\* root would be one among them.
LEMMA MovedIsTree ==
    ASSUME NEW t, IsTree(t), NEW n, NEW p, CanMove(t, n, p)
    PROVE  IsTree(Moved(t, n, p)) /\ FewerOrMoved(Moved(t, n, p), t)
<1> DEFINE u == Moved(t, n, p)
           h == Cardinality(DOMAIN t)
<1>1. IsTable(t) /\ Grounded(t) /\ \A m \in DOMAIN t : CanHold(t, t[m].parent) BY DEF IsTree
<1>2. n \in DOMAIN t /\ p # n /\ CanHold(t, p) BY DEF CanMove
<1>3. /\ DOMAIN u = DOMAIN t
      /\ \A m \in DOMAIN t \ {n} : u[m] = t[m]
      /\ u[n] = [t[n] EXCEPT !.parent = p]
  BY <1>2 DEF Moved
<1> HIDE DEF u
<1>4. p \in Ids \cup {Root} BY <1>1, <1>2 DEF CanHold, IsFolder, IsTable
<1>5. t[n] \in Node BY <1>1, <1>2 DEF IsTable
<1>6. /\ u[n] \in Node /\ u[n].parent = p
      /\ u[n].kind = t[n].kind /\ u[n].rules = t[n].rules /\ u[n].tracks = t[n].tracks
  BY <1>3, <1>4, <1>5 DEF Node
<1>7. IsTable(u) BY <1>1, <1>3, <1>6 DEF IsTable
<1>8. FewerOrMoved(u, t) BY <1>3, <1>6 DEF FewerOrMoved
<1>9. \A m \in DOMAIN u : CanHold(u, u[m].parent)
  <2>1. \A q : CanHold(t, q) => CanHold(u, q) BY <1>3, <1>6 DEF CanHold, IsFolder
  <2> QED BY <1>1, <1>2, <1>3, <1>6, <2>1
<1>10. Grounded(u)
  <2> SUFFICES ASSUME NEW S \in SUBSET DOMAIN t, \A m \in S : u[m].parent \in S, S # {}
               PROVE  FALSE
    BY <1>3 DEF Grounded
  <2>1. n \in S
    <3> SUFFICES ASSUME n \notin S PROVE FALSE OBVIOUS
    <3>1. \A m \in S : t[m].parent \in S BY <1>3
    <3> QED BY <1>1, <3>1 DEF Grounded
  <2>2. p \in S BY <1>6, <2>1
  <2>3. h \in Nat /\ Root \notin DOMAIN t BY <1>1, TableIsFinite
  <2>4. p \in DOMAIN t /\ p # Root BY <2>2, <2>3
  <2>5. ~IsDescendant(t, p, n) BY <2>4 DEF CanMove
  <2> DEFINE w == Up(t, p)
             N == {k \in Nat : k <= h => w[k] \in S}
  <2>6. w[0] = p /\ \A k \in 1 .. h : w[k] = Above(t, w[k - 1]) BY <1>1, UpSteps
  <2>7. PICK k \in 0 .. h : w[k] = Root BY <2>4, TreeReaches DEF Reaches
  <2>8. \A i \in 0 .. h : w[i] # n
    <3>1. \A i \in 1 .. h : w[i] # n BY <2>5 DEF IsDescendant
    <3> QED BY <1>2, <2>3, <2>6, <3>1
  <2> HIDE DEF h, w
  <2>9. 0 \in N BY <2>2, <2>6
  <2>10. ASSUME NEW i \in N PROVE i + 1 \in N
    <3> SUFFICES ASSUME i + 1 <= h PROVE w[i + 1] \in S OBVIOUS
    <3>1. i + 1 \in 1 .. h /\ i \in 0 .. h /\ (i + 1) - 1 = i /\ w[i] \in S BY <2>3
    <3>2. w[i + 1] = Above(t, w[i]) BY <2>6, <3>1
    <3>3. w[i] \in DOMAIN t \ {n} BY <2>8, <3>1
    <3>4. w[i + 1] = u[w[i]].parent BY <1>3, <3>2, <3>3 DEF Above
    <3> QED BY <3>1, <3>4
  <2>11. N \in SUBSET Nat OBVIOUS
  <2> HIDE DEF N
  <2>12. N = Nat BY <2>9, <2>10, <2>11, NumberInduction
  <2>13. k \in N /\ k <= h BY <2>3, <2>12
  <2>14. w[k] \in S BY <2>13 DEF N
  <2> QED BY <2>3, <2>7, <2>14
<1>11. IsTree(u) BY <1>7, <1>9, <1>10 DEF IsTree
<1> QED BY <1>8, <1>11 DEF u

\* Delete leaves no entry behind whose folder it takes.
LEMMA DeletedIsTree ==
    ASSUME NEW t, IsTree(t), NEW n \in DOMAIN t
    PROVE  IsTree(Deleted(t, n)) /\ FewerOrMoved(Deleted(t, n), t)
<1> DEFINE u == Deleted(t, n)
           h == Cardinality(DOMAIN t)
<1>1. IsTable(t) /\ Grounded(t) /\ \A m \in DOMAIN t : CanHold(t, t[m].parent) BY DEF IsTree
<1>2. /\ DOMAIN u = {m \in DOMAIN t : m # n /\ ~IsDescendant(t, m, n)}
      /\ \A m \in DOMAIN u : u[m] = t[m]
  BY DEF Deleted
<1> HIDE DEF u
<1>3. DOMAIN u \subseteq DOMAIN t BY <1>2
<1>4. IsTable(u) BY <1>1, <1>2, <1>3 DEF IsTable
<1>5. FewerOrMoved(u, t) BY <1>2, <1>3 DEF FewerOrMoved
<1>6. Grounded(u)
  <2> SUFFICES ASSUME NEW S \in SUBSET DOMAIN u, \A m \in S : u[m].parent \in S
               PROVE  S = {}
    BY DEF Grounded
  <2>1. S \in SUBSET DOMAIN t /\ \A m \in S : t[m].parent \in S BY <1>2
  <2> QED BY <1>1, <2>1 DEF Grounded
<1>7. h \in Nat /\ h >= 1 /\ Root \notin DOMAIN t BY <1>1, TableIsFinite
<1>8. ASSUME NEW m \in DOMAIN u, NEW q \in DOMAIN t, t[m].parent = q PROVE q \in DOMAIN u
  <2>1. m \in DOMAIN t /\ ~IsDescendant(t, m, n) BY <1>2
  <2> DEFINE w == Up(t, m)
             v == Up(t, q)
  <2>2. Above(t, m) = q BY <1>8, <2>1 DEF Above
  <2>3. \A k \in 1 .. h : w[k] # n BY <2>1 DEF IsDescendant
  <2>4. \A k \in 1 .. h : w[k] = v[k - 1] BY <1>1, <2>2, UpFromParent
  <2>5. v[0] = q /\ \A k \in 1 .. h : v[k] = Above(t, v[k - 1]) BY <1>1, UpSteps
  <2>6. PICK k \in 0 .. h : v[k] = Root BY TreeReaches DEF Reaches
  <2> HIDE DEF h, w, v
  <2>7. q # n
    <3>1. 1 \in 1 .. h /\ 1 - 1 = 0 BY <1>7
    <3> QED BY <2>3, <2>4, <2>5, <3>1
  <2>8. ASSUME NEW i \in 1 .. h PROVE v[i] # n
    <3>1. CASE i + 1 <= h
      <4>1. i + 1 \in 1 .. h /\ (i + 1) - 1 = i BY <1>7, <3>1
      <4> QED BY <2>3, <2>4, <4>1
    <3>2. CASE i = h
      <4> DEFINE N == {j \in Nat : k <= j /\ j <= h => v[j] = Root}
      <4>1. 0 \in N
        <5>1. k <= 0 => k = 0 BY <1>7
        <5> QED BY <2>6, <5>1
      <4>2. ASSUME NEW j \in N PROVE j + 1 \in N
        <5> SUFFICES ASSUME k <= j + 1, j + 1 <= h PROVE v[j + 1] = Root OBVIOUS
        <5>1. CASE k = j + 1 BY <2>6, <5>1
        <5>2. CASE k # j + 1
          <6>1. k <= j /\ j <= h /\ j + 1 \in 1 .. h /\ (j + 1) - 1 = j BY <1>7, <5>2
          <6>2. v[j] = Root BY <6>1
          <6>3. v[j + 1] = Above(t, v[j]) BY <2>5, <6>1
          <6> QED BY <1>7, <6>2, <6>3 DEF Above
        <5> QED BY <5>1, <5>2
      <4>3. N \in SUBSET Nat OBVIOUS
      <4> HIDE DEF N
      <4>4. N = Nat BY <4>1, <4>2, <4>3, NumberInduction
      <4>5. h \in N /\ k <= h BY <1>7, <4>4
      <4>6. v[h] = Root BY <1>7, <4>5 DEF N
      <4> QED BY <1>7, <3>2, <4>6
    <3> QED BY <1>7, <3>1, <3>2
  <2>9. ~IsDescendant(t, q, n) BY <2>8 DEF IsDescendant, h, v
  <2> QED BY <1>2, <2>7, <2>9
<1>9. \A m \in DOMAIN u : CanHold(u, u[m].parent)
  <2> SUFFICES ASSUME NEW m \in DOMAIN u PROVE CanHold(u, t[m].parent) BY <1>2
  <2>1. CanHold(t, t[m].parent) BY <1>1, <1>3
  <2>2. CASE t[m].parent = Root BY <2>2 DEF CanHold
  <2>3. CASE t[m].parent # Root
    <3>1. t[m].parent \in DOMAIN t /\ t[t[m].parent].kind = "folder"
      BY <2>1, <2>3 DEF CanHold, IsFolder
    <3>2. t[m].parent \in DOMAIN u BY <1>8, <3>1
    <3> QED BY <1>2, <3>1, <3>2 DEF CanHold, IsFolder
  <2> QED BY <2>2, <2>3
<1>10. IsTree(u) BY <1>4, <1>6, <1>9 DEF IsTree
<1> QED BY <1>5, <1>10 DEF u

\* A new entry under a folder of the tree.
LEMMA CreatedIsTree ==
    ASSUME NEW t, IsTree(t), NEW n \in Ids \ DOMAIN t, NEW e \in Node, CanHold(t, e.parent)
    PROVE  IsTree(With(t, n, e))
<1> DEFINE u == With(t, n, e)
<1>1. IsTable(t) /\ Grounded(t) /\ \A m \in DOMAIN t : CanHold(t, t[m].parent) BY DEF IsTree
<1>2. DOMAIN u = DOMAIN t \cup {n} /\ u[n] = e /\ \A m \in DOMAIN t : u[m] = t[m]
  BY DEF With
<1> HIDE DEF u
<1>3. IsTable(u) BY <1>1, <1>2 DEF IsTable
<1>4. \A q : CanHold(t, q) => CanHold(u, q) BY <1>2 DEF CanHold, IsFolder
<1>5. \A m \in DOMAIN u : CanHold(u, u[m].parent) BY <1>1, <1>2, <1>4
<1>6. Root \notin DOMAIN t /\ n # Root BY <1>1, TableIsFinite DEF Ids, Root
<1>7. \A q : CanHold(t, q) => q # n BY <1>6 DEF CanHold, IsFolder
<1>8. Grounded(u)
  <2> SUFFICES ASSUME NEW S \in SUBSET DOMAIN u, \A m \in S : u[m].parent \in S
               PROVE  S = {}
    BY DEF Grounded
  <2> DEFINE R == S \ {n}
  <2>1. R \in SUBSET DOMAIN t BY <1>2
  <2>2. \A m \in R : t[m].parent \in R BY <1>1, <1>2, <1>7, <2>1
  <2>3. R = {} BY <1>1, <2>1, <2>2 DEF Grounded
  <2>4. n \notin S
    <3> SUFFICES ASSUME n \in S PROVE FALSE OBVIOUS
    <3>1. e.parent \in S BY <1>2
    <3>2. e.parent \in R BY <1>7, <3>1
    <3> QED BY <2>3, <3>2
  <2> QED BY <2>3, <2>4
<1>9. IsTree(u) BY <1>3, <1>5, <1>8 DEF IsTree
<1> QED BY <1>9 DEF u
----------------------------------------------------------------------------
(***************************************************************************)
(* Lists of tracks.                                                        *)
(***************************************************************************)

\* What WithoutAll keeps of the first entries.
Keeps(f, s, gone, h) ==
    f = [i \in 0 .. h |->
            IF i = 0 THEN <<>> ELSE IF s[i] \in gone THEN f[i - 1] ELSE Append(f[i - 1], s[i])]

\* There is such a function.
LEMMA KeepsExists ==
    ASSUME NEW s, NEW gone, NEW h \in Nat
    PROVE  \E f : Keeps(f, s, gone, h)
<1> DEFINE N == {g \in Nat : \E f : Keeps(f, s, gone, g)}
<1>1. 0 \in N
  <2> DEFINE f == [i \in 0 .. 0 |-> <<>>]
  <2>1. f = [i \in 0 .. 0 |->
          IF i = 0 THEN <<>> ELSE IF s[i] \in gone THEN f[i - 1] ELSE Append(f[i - 1], s[i])]
    OBVIOUS
  <2> QED BY <2>1 DEF Keeps
<1>2. ASSUME NEW g \in N PROVE g + 1 \in N
  <2>1. g \in Nat OBVIOUS
  <2>2. PICK f : Keeps(f, s, gone, g) OBVIOUS
  <2>3. \A i \in 0 .. g : f[i] = IF i = 0 THEN <<>> ELSE IF s[i] \in gone THEN f[i - 1]
                                 ELSE Append(f[i - 1], s[i])
    BY <2>2 DEF Keeps
  <2> DEFINE e == [i \in 0 .. g + 1 |-> IF i = 0 THEN <<>> ELSE IF s[i] \in gone THEN f[i - 1]
                                        ELSE Append(f[i - 1], s[i])]
  <2>4. \A i \in 0 .. g : e[i] = f[i] BY <2>1, <2>3
  <2>5. \A i \in 0 .. g + 1 : i # 0 => e[i - 1] = f[i - 1] BY <2>1, <2>4
  <2>6. e = [i \in 0 .. g + 1 |-> IF i = 0 THEN <<>> ELSE IF s[i] \in gone THEN e[i - 1]
                                  ELSE Append(e[i - 1], s[i])]
    BY <2>5
  <2>7. Keeps(e, s, gone, g + 1) BY <2>6 DEF Keeps
  <2> HIDE DEF e
  <2> QED BY <2>1, <2>7
<1>3. N \in SUBSET Nat OBVIOUS
<1> HIDE DEF N
<1>4. N = Nat BY <1>1, <1>2, <1>3, NumberInduction
<1> QED BY <1>4 DEF N

\* WithoutAll takes out what is to go, and nothing else.
LEMMA WithoutAllHolds ==
    ASSUME NEW S, NEW s \in Seq(S), NEW gone
    PROVE  /\ WithoutAll(s, gone) \in Seq(S)
           /\ Held(WithoutAll(s, gone)) = Held(s) \ gone
           /\ Distinct(s) => Distinct(WithoutAll(s, gone))
<1> DEFINE h == Len(s)
           f == CHOOSE f : Keeps(f, s, gone, h)
<1>1. DOMAIN s = 1..h /\ h \in Nat /\ \A i \in 1..h : s[i] \in S
  BY LenProperties, ElementOfSeq
<1>2. WithoutAll(s, gone) = f[h] BY DEF WithoutAll, Keeps
<1>3. \E e : Keeps(e, s, gone, h) BY <1>1, KeepsExists
<1>4. Keeps(f, s, gone, h) BY <1>3
<1> HIDE DEF f, h
<1>5. /\ f[0] = <<>>
      /\ \A i \in 1 .. h : f[i] = IF s[i] \in gone THEN f[i - 1] ELSE Append(f[i - 1], s[i])
  <2>1. \A i \in 0 .. h : f[i] = IF i = 0 THEN <<>> ELSE IF s[i] \in gone THEN f[i - 1]
                                 ELSE Append(f[i - 1], s[i])
    BY <1>4 DEF Keeps
  <2>2. 0 \in 0 .. h /\ \A i \in 1 .. h : i \in 0 .. h /\ i # 0 BY <1>1
  <2> QED BY <2>1, <2>2
<1> DEFINE Right(i) == /\ f[i] \in Seq(S)
                       /\ Held(f[i]) = {s[k] : k \in 1 .. i} \ gone
                       /\ Distinct(s) => Distinct(f[i])
           N == {i \in Nat : i <= h => Right(i)}
<1>6. 0 \in N
  <2>1. f[0] \in Seq(S) /\ Held(f[0]) = {} /\ Distinct(f[0])
    BY <1>5, EmptySeq DEF Held, Distinct
  <2> QED BY <2>1
<1>7. ASSUME NEW i \in N PROVE i + 1 \in N
  <2> HIDE DEF Right
  <2> SUFFICES ASSUME i + 1 <= h PROVE Right(i + 1) OBVIOUS
  <2> DEFINE j == i + 1
             p == f[i]
             n == f[j]
  <2> SUFFICES /\ n \in Seq(S)
               /\ Held(n) = {s[k] : k \in 1 .. j} \ gone
               /\ Distinct(s) => Distinct(n)
    BY DEF Right
  <2>1. i \in Nat /\ j \in 1 .. h /\ j - 1 = i BY <1>1
  <2>2. n = IF s[j] \in gone THEN p ELSE Append(p, s[j]) BY <1>5, <2>1
  <2>3. /\ p \in Seq(S) /\ Held(p) = {s[k] : k \in 1 .. i} \ gone
        /\ Distinct(s) => Distinct(p)
    <3>1. i <= h BY <1>1, <2>1
    <3>2. Right(i) BY <3>1
    <3> QED BY <3>2 DEF Right
  <2>4. {s[k] : k \in 1 .. j} = {s[k] : k \in 1 .. i} \cup {s[j]}
    <3>1. \A k \in 1 .. j : k \in 1 .. i \/ k = j BY <2>1
    <3>2. \A k \in 1 .. i : k \in 1 .. j BY <2>1
    <3> QED BY <2>1, <3>1, <3>2
  <2>5. s[j] \in S BY <1>1, <2>1
  <2>6. CASE s[j] \in gone BY <2>2, <2>3, <2>4, <2>6
  <2>7. CASE s[j] \notin gone
    <3> DEFINE x == s[j]
               b == <<x>>
    <3>1. p \in Seq(S) /\ x \in S BY <2>3, <2>5
    <3>2. n = p \o b BY <2>2, <2>7, <3>1, AppendIsConcat
    <3>3. b \in Seq(S) /\ Distinct(b) /\ Held(b) = {x} BY <3>1, SingleHolds
    <3> HIDE DEF n, p, x, b
    <3>4. /\ p \o b \in Seq(S) /\ Held(p \o b) = Held(p) \cup Held(b)
          /\ (Distinct(p) /\ Distinct(b) /\ Held(p) \cap Held(b) = {}) => Distinct(p \o b)
      BY <3>1, <3>3, JoinHolds
    <3>5. /\ n \in Seq(S) /\ Held(n) = Held(p) \cup {x}
          /\ Distinct(p) /\ x \notin Held(p) => Distinct(n)
      BY <3>2, <3>3, <3>4
    <3>6. ASSUME Distinct(s) PROVE s[j] \notin Held(p)
      <4>1. \A k \in 1 .. i : k \in DOMAIN s /\ k # j BY <1>1, <2>1
      <4>2. j \in DOMAIN s BY <1>1, <2>1
      <4>3. \A k \in 1 .. i : s[k] # s[j] BY <3>6, <4>1, <4>2 DEF Distinct
      <4> QED BY <2>3, <4>3
    <3> QED BY <2>3, <2>4, <2>7, <3>5, <3>6 DEF x
  <2> QED BY <2>6, <2>7
<1>8. N \in SUBSET Nat OBVIOUS
<1> HIDE DEF N
<1>9. N = Nat BY <1>6, <1>7, <1>8, NumberInduction
<1>10. /\ f[h] \in Seq(S) /\ Held(f[h]) = {s[k] : k \in 1 .. h} \ gone
       /\ Distinct(s) => Distinct(f[h])
  <2>1. h \in N /\ h <= h BY <1>1, <1>9
  <2>2. Right(h)
    <3> HIDE DEF Right
    <3> QED BY <2>1 DEF N
  <2> QED BY <2>2
<1>11. Held(s) = {s[k] : k \in 1 .. h} BY <1>1 DEF Held
<1> QED BY <1>2, <1>10, <1>11

\* What a smart playlist matches: every track, once.
LEMMA EverythingIsOnce ==
    /\ Everything \in Seq(Tracks) /\ Distinct(Everything) /\ Held(Everything) = Tracks
<1> DEFINE n == Cardinality(Tracks)
           All == {s \in [1 .. n -> Tracks] : Held(s) = Tracks}
<1>1. IsFiniteSet(Tracks) BY TracksAssumption
<1>2. n \in Nat /\ ExistsBijection(1 .. n, Tracks) BY <1>1, FS_CardinalityType
<1>3. PICK s \in Bijection(1 .. n, Tracks) : TRUE BY <1>2 DEF ExistsBijection
<1>4. s \in [1 .. n -> Tracks] /\ Held(s) = Tracks
  BY <1>3 DEF Bijection, Injection, Surjection, Held
<1>5. Everything \in [1 .. n -> Tracks] /\ Held(Everything) = Tracks
  <2>1. Everything = CHOOSE q \in [1 .. n -> Tracks] : Held(q) = Tracks BY DEF Everything
  <2> HIDE DEF n
  <2> QED BY <1>4, <2>1
<1>6. Everything \in Surjection(1 .. n, Tracks) BY <1>5 DEF Surjection, Held
<1>7. IsFiniteSet(1 .. n) /\ Cardinality(1 .. n) = n
  <2>1. 1 \in Int /\ n \in Int BY <1>2
  <2>2. IsFiniteSet(1 .. n) /\ Cardinality(1 .. n) = IF 1 > n THEN 0 ELSE n - 1 + 1
    BY <2>1, FS_Interval
  <2> QED BY <1>2, <2>2
<1>8. Everything \in Injection(1 .. n, Tracks)
  BY <1>6, <1>7, FS_SurjSameCardinalityImpliesInj
<1>9. Distinct(Everything) BY <1>5, <1>8 DEF Injection, IsInjective, Distinct
<1>10. Everything \in Seq(Tracks) BY <1>2, <1>5
<1> QED BY <1>5, <1>9, <1>10

\* The tracks of a set, once.
LEMMA InOrderIsOnce ==
    ASSUME NEW S
    PROVE  InOrder(S) \in Seq(Tracks) /\ Distinct(InOrder(S))
BY EverythingIsOnce, WithoutAllHolds DEF InOrder

\* Tracks are added to a list once, if they come once.
LEMMA EditedIsOnce ==
    ASSUME NEW S, NEW list \in Seq(S), Distinct(list), NEW mode,
           NEW tracks \in Seq(S), Distinct(tracks)
    PROVE  Edited(list, mode, tracks) \in Seq(S) /\ Distinct(Edited(list, mode, tracks))
<1>1. Added(list, tracks) \in Seq(S) /\ Distinct(Added(list, tracks))
  <2> DEFINE r == WithoutAll(tracks, Held(list))
  <2>1. r \in Seq(S) /\ Held(r) = Held(tracks) \ Held(list) /\ Distinct(r) BY WithoutAllHolds
  <2> HIDE DEF r
  <2>2. Held(list) \cap Held(r) = {} BY <2>1
  <2>3. list \o r \in Seq(S) /\ Distinct(list \o r) BY <2>1, <2>2, JoinHolds
  <2> QED BY <2>3 DEF Added, r
<1>2. Removed(list, tracks) \in Seq(S) /\ Distinct(Removed(list, tracks))
  BY WithoutAllHolds DEF Removed
<1> QED BY <1>1, <1>2 DEF Edited

\* A playlist's rows: tracks, once.
LEMMA RowsAreOnce ==
    ASSUME NEW t, IsTable(t), \A n \in DOMAIN t : Distinct(t[n].tracks), NEW n
    PROVE  TracksFor(t, n) \in Seq(Tracks) /\ Distinct(TracksFor(t, n))
<1>1. CASE IsList(t, n)
  <2> DEFINE q == t[n].tracks
             r == WithoutAll(q, {NoTrack})
  <2>1. n \in DOMAIN t BY <1>1 DEF IsList
  <2>2. q \in Seq(Tracks \cup {NoTrack}) /\ Distinct(q) BY <2>1 DEF IsTable, Node
  <2> HIDE DEF q
  <2>3. r \in Seq(Tracks \cup {NoTrack}) /\ Held(r) = Held(q) \ {NoTrack} /\ Distinct(r)
    BY <2>2, WithoutAllHolds
  <2> HIDE DEF r
  <2>4. Held(q) \subseteq Tracks \cup {NoTrack} BY <2>2, ListOf
  <2>5. r \in Seq(Tracks) BY <2>3, <2>4, ListOf
  <2>6. TracksFor(t, n) = r BY <1>1 DEF TracksFor, IsList, r, q
  <2> QED BY <2>3, <2>5, <2>6
<1>2. CASE n \in DOMAIN t /\ t[n].kind = "smart"
  <2>1. TracksFor(t, n) = Everything BY <1>2 DEF TracksFor, IsList
  <2> QED BY <2>1, EverythingIsOnce
<1>3. CASE ~IsList(t, n) /\ ~(n \in DOMAIN t /\ t[n].kind = "smart")
  <2>1. TracksFor(t, n) = <<>> BY <1>3 DEF TracksFor, IsList
  <2> QED BY <2>1, EmptySeq DEF Distinct
<1> QED BY <1>1, <1>2, <1>3

\* A list that the entry at i is taken out of, if there is one.
LEMMA TakenOutIsOnce ==
    ASSUME NEW S, NEW s \in Seq(S), Distinct(s), NEW i \in Nat \ {0}
    PROVE  /\ TakenOut(s, i) \in Seq(S) /\ Distinct(TakenOut(s, i))
           /\ Held(TakenOut(s, i)) = IF i <= Len(s) THEN Held(s) \ {s[i]} ELSE Held(s)
<1>1. DOMAIN s = 1..Len(s) /\ Len(s) \in Nat BY LenProperties
<1>2. CASE i <= Len(s)
  <2>1. i \in DOMAIN s BY <1>1, <1>2
  <2>2. (CHOOSE k \in DOMAIN s : s[k] = s[i]) = i BY <2>1 DEF Distinct
  <2>3. Without(s, s[i]) = SubSeq(s, 1, i - 1) \o SubSeq(s, i + 1, Len(s))
    BY <2>1, <2>2 DEF Without
  <2>4. Smaller(i - 1, Len(s)) = i - 1 BY <1>1, <1>2 DEF Smaller
  <2>5. TakenOut(s, i) = Without(s, s[i]) BY <2>3, <2>4 DEF TakenOut
  <2> QED BY <1>2, <2>5, WithoutHolds
<1>3. CASE ~(i <= Len(s))
  <2>1. Smaller(i - 1, Len(s)) = Len(s) BY <1>1, <1>3 DEF Smaller
  <2>2. i + 1 \in Int /\ Len(s) \in Int /\ Len(s) < i + 1 BY <1>1, <1>3
  <2>3. SubSeq(s, i + 1, Len(s)) = <<>> BY <2>2, SubSeqEmpty
  <2>4. SubSeq(s, 1, Len(s)) = s BY SubSeqFull
  <2>5. TakenOut(s, i) = s \o <<>> BY <2>1, <2>3, <2>4 DEF TakenOut
  <2>6. TakenOut(s, i) = s BY <2>5, ConcatEmptySeq
  <2> QED BY <1>3, <2>6
<1> QED BY <1>2, <1>3

\* A list that a new entry is put into behind the first k.
LEMMA InsertedIsOnce ==
    ASSUME NEW S, NEW s \in Seq(S), Distinct(s), NEW k \in 0 .. Len(s), NEW t \in S \ Held(s)
    PROVE  Inserted(s, k, t) \in Seq(S) /\ Distinct(Inserted(s, k, t))
<1> DEFINE a == SubSeq(s, 1, k)
           b == <<t>>
           c == SubSeq(s, k + 1, Len(s))
<1>1. DOMAIN s = 1..Len(s) /\ Len(s) \in Nat BY LenProperties
<1>2. a \in Seq(S) /\ Distinct(a) /\ Held(a) = {s[i] : i \in 1 .. k}
  <2>1. 1 \in 1 .. Len(s) + 1 BY <1>1
  <2> QED BY <2>1, StretchHolds
<1>3. c \in Seq(S) /\ Distinct(c) /\ Held(c) = {s[i] : i \in k + 1 .. Len(s)}
  <2>1. k + 1 \in 1 .. Len(s) + 1 /\ Len(s) \in 0 .. Len(s) BY <1>1
  <2> QED BY <2>1, StretchHolds
<1>4. b \in Seq(S) /\ Distinct(b) /\ Held(b) = {t} BY SingleHolds
<1> HIDE DEF a, b, c
<1>5. Held(a) \subseteq Held(s) /\ Held(c) \subseteq Held(s)
  <2>1. (\A i \in 1 .. k : i \in DOMAIN s) /\ \A i \in k + 1 .. Len(s) : i \in DOMAIN s
    BY <1>1
  <2> QED BY <1>2, <1>3, <2>1 DEF Held
<1>6. Held(a) \cap Held(c) = {}
  <2> SUFFICES ASSUME NEW i \in 1 .. k, NEW j \in k + 1 .. Len(s) PROVE s[i] # s[j]
    BY <1>2, <1>3
  <2>1. i \in DOMAIN s /\ j \in DOMAIN s /\ i # j BY <1>1
  <2> QED BY <2>1 DEF Distinct
<1>7. Held(a) \cap Held(b) = {} /\ Held(b) \cap Held(c) = {} BY <1>4, <1>5
<1>8. a \o b \in Seq(S) /\ Held(a \o b) = Held(a) \cup Held(b) /\ Distinct(a \o b)
  BY <1>2, <1>4, <1>7, JoinHolds
<1> DEFINE d == a \o b
<1>9. d \in Seq(S) /\ Distinct(d) /\ Held(d) \cap Held(c) = {} BY <1>6, <1>7, <1>8
<1> HIDE DEF d
<1>10. d \o c \in Seq(S) /\ Distinct(d \o c) BY <1>3, <1>9, JoinHolds
<1> QED BY <1>10 DEF Inserted, a, b, c, d
----------------------------------------------------------------------------
(***************************************************************************)
(* The invariant: the server, the editor, the page, and the requests.      *)
(***************************************************************************)

\* The server's table is a tree, its lists hold a track once, an ID is given
\* once, and rules are where they belong.
Served ==
    /\ IsTree(tree)
    /\ NoTrackTwice
    /\ nextID \in 1 .. MaxID + 1
    /\ \A n \in DOMAIN tree \cup DOMAIN Start : n < nextID
    /\ \A n \in DOMAIN tree : tree[n].kind = "smart" => tree[n].rules \in Rules
    /\ RulesStayTheirOwn
    /\ banks \subseteq Banks

\* Every state of the editor, and what it shows.
Drafted ==
    /\ drafts \in Seq(Draft)
    /\ smartEditorState \in 0 .. Len(drafts)
    /\ preview \in Values \cup {None}
    /\ PreviewIsOfRules

IsListing(c) == DOMAIN c \subseteq Ids /\ \A n \in DOMAIN c : c[n] \in Copies

\* Tracks, each once, and entries of a list.
IsRows(q, S) == q \in Seq(S) /\ Distinct(q)

\* A dialog that renames or deletes is about the playlist that is selected,
\* unless none is any more.
DialogHolds(d, n) == d # None /\ d.what \in {"rename", "delete"} => n \in {d.id, None}

\* The page: its copies, its selection, its table.
Paged ==
    /\ IsListing(playlistsCache) /\ IsListing(sidebar) /\ hcbCache \subseteq Banks
    /\ selectedSource \in {Collection} \cup Ids \cup Banks
    /\ SelectionAgrees
    /\ IsRows(plSelectedTracks, Tracks)
    /\ shown \in Table
    /\ bulkSelectedIDs \subseteq Tracks
    /\ DialogHolds(dialog, plSelectedID)

\* What the handler that sent r, and the server that answered it, saw to.  The
\* editor's states are d.
Asked(r, d) ==
    /\ {"what", "state", "answer"} \subseteq DOMAIN r
    /\ r.what = "list" /\ r.state = "answered" => IsListing(r.answer)
    /\ r.what = "tracks" =>
           /\ "then" \in DOMAIN r /\ r.then \in {"show", "banks", "list"}
           /\ r.state = "answered" => IsRows(r.answer, Tracks)
    /\ r.what = "banks" /\ r.state = "answered" => r.answer \subseteq Banks
    /\ r.what = "bank" => "bank" \in DOMAIN r /\ r.bank \in Banks
    /\ r.what = "tags" => "id" \in DOMAIN r /\ r.id \in Ids \cup {None}
    /\ r.what = "create" =>
           /\ {"kind", "rules"} \subseteq DOMAIN r
           /\ r.kind \in Kinds /\ r.rules \in Rules \cup {None}
           /\ r.kind = "smart" => r.rules \in Rules /\ r.rules.of = New
    /\ r.what \in {"rename", "delete", "export"} =>
           {"id", "named"} \subseteq DOMAIN r /\ r.id \in {r.named, None}
    /\ r.what = "name" => "draft" \in DOMAIN r /\ r.draft \in DOMAIN d /\ d[r.draft].id \in Ids
    /\ r.what = "rules" =>
           /\ {"id", "rules"} \subseteq DOMAIN r
           /\ r.id \in Ids /\ r.rules \in Rules /\ r.rules.of = r.id
    /\ r.what = "edit" => "tracks" \in DOMAIN r /\ IsRows(r.tracks, Tracks)
    /\ r.what = "post" => "tracks" \in DOMAIN r /\ IsRows(r.tracks, Tracks \cup {NoTrack})

AllAsked(q, d) == DOMAIN q \subseteq 1 .. MaxRequests /\ \A s \in DOMAIN q : Asked(q[s], d)

Pending == AllAsked(requests, drafts)

PagesInv == Served /\ Drafted /\ Paged /\ Pending /\ events \in 0 .. MaxEvents
\* What the page draws is a table.
LEMMA ViewIsTable ==
    ASSUME NEW source, NEW cache, IsListing(cache), NEW rows \in Seq(Tracks)
    PROVE  View(source, cache, rows) \in Table
<1>1. Collection \notin DOMAIN cache \cup Banks /\ Banks \cap DOMAIN cache = {}
  BY PageAssumption DEF IsListing
<1>2. Held(rows) \in SUBSET Tracks BY ListOf
<1>3. \A n \in DOMAIN cache : cache[n].kind \in Kinds BY DEF IsListing, Copies
<1> DEFINE v == View(source, cache, rows)
           made(S, kind) == [tracks |-> S, kind |-> kind]
<1>4. ASSUME NEW S \in SUBSET Tracks, NEW kind \in Kinds \cup {"collection", "bank", "gone"}
      PROVE  made(S, kind) \in Table
  BY DEF Table
<1>5. CASE source = Collection
  <2>1. v = made(Tracks, "collection") BY <1>1, <1>5 DEF View, IsFolder
  <2> QED BY <1>4, <2>1
<1>6. CASE source # Collection /\ source \in Banks
  <2>1. v = made({}, "bank") BY <1>1, <1>6 DEF View, IsFolder
  <2> QED BY <1>4, <2>1
<1>7. CASE source # Collection /\ source \notin Banks /\ IsFolder(cache, source)
  <2>1. v = made({}, "folder") BY <1>7 DEF View
  <2> QED BY <1>4, <2>1 DEF Kinds
<1>8. CASE source # Collection /\ source \notin Banks /\ ~IsFolder(cache, source)
           /\ source \in DOMAIN cache
  <2>1. v = made(Held(rows), cache[source].kind) BY <1>8 DEF View
  <2> QED BY <1>2, <1>3, <1>4, <1>8, <2>1
<1>9. CASE source # Collection /\ source \notin Banks /\ ~IsFolder(cache, source)
           /\ source \notin DOMAIN cache
  <2>1. v = made(Held(rows), "gone") BY <1>9 DEF View
  <2> QED BY <1>2, <1>4, <2>1
<1> QED BY <1>5, <1>6, <1>7, <1>8, <1>9

\* What is listed of a tree is what the page may keep.
LEMMA ListedIsListing ==
    ASSUME NEW t, IsTable(t)
    PROVE  IsListing(Listed(t))
BY DEF IsTable, IsListing, Listed, Node, Copies

\* The table there is at first.
LEMMA StartIsServed ==
    /\ IsTree(Start)
    /\ \A n \in DOMAIN Start : /\ Distinct(Start[n].tracks)
                               /\ n < Cardinality(DOMAIN Start) + 1
                               /\ Start[n].kind = "smart" =>
                                      Start[n].rules \in Rules /\ Start[n].rules.of = n
    /\ Cardinality(DOMAIN Start) + 1 \in 1 .. MaxID + 1
<1>1. PICK k \in 0 .. MaxID : DOMAIN Start = 1 .. k BY StartAssumption
<1>2. k \in Nat /\ MaxID \in Nat BY <1>1, MaxIDAssumption
<1>3. Cardinality(DOMAIN Start) = k
  <2>1. Cardinality(1 .. k) = IF 1 > k THEN 0 ELSE k - 1 + 1 BY <1>2, FS_Interval
  <2> QED BY <1>1, <1>2, <2>1
<1>4. \A n \in DOMAIN Start : Start[n] \in Node BY StartAssumption DEF Node
<1>5. IsTable(Start) BY <1>1, <1>2, <1>4 DEF IsTable, Ids
<1>6. \A n \in DOMAIN Start : Reaches(Start, n) BY StartAssumption DEF Reaches
<1>7. Grounded(Start) BY <1>5, <1>6, ReachedIsGrounded
<1>8. IsTree(Start) BY <1>5, <1>7, StartAssumption DEF IsTree
<1>9. \A n \in DOMAIN Start : n < Cardinality(DOMAIN Start) + 1 BY <1>1, <1>2, <1>3
<1> QED BY <1>1, <1>2, <1>3, <1>8, <1>9, StartAssumption

\* It holds when the page has been loaded.
LEMMA PagesInit == Init => PagesInv
<1> SUFFICES ASSUME Init PROVE PagesInv OBVIOUS
<1>1. IsTree(Start) BY StartIsServed
<1>2. IsTable(Start) /\ \A n \in DOMAIN Start : Distinct(Start[n].tracks)
  BY <1>1, StartIsServed DEF IsTree
<1>3. Served
  <2>1. NoTrackTwice BY StartIsServed DEF Init, NoTrackTwice
  <2>2. RulesStayTheirOwn BY StartIsServed DEF Init, RulesStayTheirOwn
  <2> QED BY <2>1, <2>2, StartIsServed DEF Init, Served
<1>4. Drafted
  <2>1. drafts \in Seq(Draft) /\ Len(drafts) = 0 BY EmptySeq DEF Init
  <2> QED BY <2>1 DEF Init, Drafted, PreviewIsOfRules
<1>5. Paged
  <2>1. IsListing(playlistsCache) /\ IsListing(sidebar)
    BY <1>2, ListedIsListing DEF Init
  <2>2. PICK n \in DOMAIN Start \cup {None} :
            /\ selectedSource = IF n = None THEN Collection ELSE n
            /\ plSelectedID = n
            /\ plSelectedTracks = TracksFor(Start, n)
            /\ shown = View(selectedSource, playlistsCache, plSelectedTracks)
    BY DEF Init
  <2>3. IsRows(plSelectedTracks, Tracks) BY <1>2, <2>2, RowsAreOnce DEF IsRows
  <2>4. shown \in Table BY <2>1, <2>2, <2>3, ViewIsTable DEF IsRows
  <2>5. n # None => n \in Ids BY <1>2 DEF IsTable
  <2>6. None \notin Ids /\ Collection \notin Ids
    BY NoneAssumption, MaxIDAssumption, PageAssumption DEF Ids
  <2>7. SelectionAgrees BY <2>2, <2>5, <2>6 DEF SelectionAgrees
  <2>8. selectedSource \in {Collection} \cup Ids \cup Banks BY <2>2, <2>5
  <2> QED BY <2>1, <2>3, <2>4, <2>7, <2>8 DEF Init, Paged, DialogHolds
<1>6. Pending BY DEF Init, Pending, AllAsked
<1>7. events \in 0 .. MaxEvents BY PageAssumption DEF Init
<1> QED BY <1>3, <1>4, <1>5, <1>6, <1>7 DEF PagesInv
----------------------------------------------------------------------------
(***************************************************************************)
(* What the server does.                                                   *)
(***************************************************************************)

\* Entries taken out, or moved: what is left keeps its tracks and its rules.
LEMMA FewerServed ==
    ASSUME Served, IsTree(tree'), FewerOrMoved(tree', tree), nextID' = nextID, banks' \subseteq Banks
    PROVE  Served'
<1>1. NoTrackTwice' BY DEF Served, NoTrackTwice, FewerOrMoved
<1>2. RulesStayTheirOwn' BY DEF Served, RulesStayTheirOwn, FewerOrMoved
<1> QED BY <1>1, <1>2 DEF Served, FewerOrMoved

\* The tracks of one entry become others, each of them once.
LEMMA ListedServed ==
    ASSUME Served, NEW n \in DOMAIN tree, NEW q, IsRows(q, Tracks \cup {NoTrack}),
           tree' = [tree EXCEPT ![n].tracks = q], nextID' = nextID, banks' = banks
    PROVE  Served'
<1>1. IsTree(tree) /\ IsTable(tree) BY DEF Served, IsTree
<1>2. /\ DOMAIN tree' = DOMAIN tree
      /\ \A m \in DOMAIN tree \ {n} : tree'[m] = tree[m]
      /\ tree'[n] = [tree[n] EXCEPT !.tracks = q]
  OBVIOUS
<1>3. tree[n] \in Node BY <1>1 DEF IsTable
<1>4. /\ tree'[n] \in Node /\ tree'[n].tracks = q /\ tree'[n].kind = tree[n].kind
      /\ tree'[n].parent = tree[n].parent /\ tree'[n].rules = tree[n].rules
  BY <1>2, <1>3 DEF Node, IsRows
<1>5. IsTable(tree') BY <1>1, <1>2, <1>4 DEF IsTable
<1>6. InPlace(tree', tree) BY <1>2, <1>4 DEF InPlace
<1>7. IsTree(tree') BY <1>1, <1>5, <1>6, InPlaceIsTree
<1>8. NoTrackTwice' BY <1>2, <1>4 DEF Served, NoTrackTwice, IsRows
<1>9. RulesStayTheirOwn' BY <1>2, <1>4 DEF Served, RulesStayTheirOwn
<1>10. \A m \in DOMAIN tree' : tree'[m].kind = "smart" => tree'[m].rules \in Rules
  BY <1>2, <1>4 DEF Served
<1> QED BY <1>2, <1>7, <1>8, <1>9, <1>10 DEF Served

\* A smart playlist gets rules of its own.
LEMMA RuledServed ==
    ASSUME Served, NEW n \in DOMAIN tree, NEW r \in Rules, r.of = n,
           tree' = [tree EXCEPT ![n].rules = r], nextID' = nextID, banks' = banks
    PROVE  Served'
<1>1. IsTree(tree) /\ IsTable(tree) BY DEF Served, IsTree
<1>2. /\ DOMAIN tree' = DOMAIN tree
      /\ \A m \in DOMAIN tree \ {n} : tree'[m] = tree[m]
      /\ tree'[n] = [tree[n] EXCEPT !.rules = r]
  OBVIOUS
<1>3. tree[n] \in Node BY <1>1 DEF IsTable
<1>4. /\ tree'[n] \in Node /\ tree'[n].rules = r /\ tree'[n].kind = tree[n].kind
      /\ tree'[n].parent = tree[n].parent /\ tree'[n].tracks = tree[n].tracks
  BY <1>2, <1>3 DEF Node
<1>5. IsTable(tree') BY <1>1, <1>2, <1>4 DEF IsTable
<1>6. InPlace(tree', tree) BY <1>2, <1>4 DEF InPlace
<1>7. IsTree(tree') BY <1>1, <1>5, <1>6, InPlaceIsTree
<1>8. NoTrackTwice' BY <1>2, <1>4 DEF Served, NoTrackTwice
<1>9. RulesStayTheirOwn' BY <1>2, <1>4 DEF Served, RulesStayTheirOwn
<1>10. \A m \in DOMAIN tree' : tree'[m].kind = "smart" => tree'[m].rules \in Rules
  BY <1>2, <1>4 DEF Served
<1> QED BY <1>2, <1>7, <1>8, <1>9, <1>10 DEF Served

\* A new entry, without tracks; if smart, with rules that await its ID.
LEMMA CreatedServed ==
    ASSUME Served, nextID <= MaxID, NEW e \in Node, CanHold(tree, e.parent), Distinct(e.tracks),
           e.kind = "smart" => e.rules \in Rules /\ e.rules.of = New,
           tree' = With(tree, nextID, e), nextID' = nextID + 1, banks' = banks
    PROVE  Served'
<1>1. IsTree(tree) /\ nextID \in 1 .. MaxID + 1 /\ MaxID \in Nat
      /\ \A n \in DOMAIN tree \cup DOMAIN Start : n < nextID /\ n \in Int
  <2>1. \A n \in DOMAIN tree \cup DOMAIN Start : n \in Ids
    BY StartIsServed DEF Served, IsTree, IsTable
  <2> QED BY <2>1, MaxIDAssumption DEF Served, Ids
<1>2. nextID \in Ids \ DOMAIN tree /\ nextID \notin DOMAIN Start BY <1>1 DEF Ids
<1>3. DOMAIN tree' = DOMAIN tree \cup {nextID} /\ tree'[nextID] = e
      /\ \A m \in DOMAIN tree : tree'[m] = tree[m]
  BY <1>2 DEF With
<1>4. IsTree(tree') BY <1>1, <1>2, CreatedIsTree
<1>5. NoTrackTwice' BY <1>3 DEF Served, NoTrackTwice
<1>6. RulesStayTheirOwn' BY <1>2, <1>3 DEF Served, RulesStayTheirOwn
<1>7. \A m \in DOMAIN tree' : tree'[m].kind = "smart" => tree'[m].rules \in Rules
  BY <1>3 DEF Served
<1>8. nextID' \in 1 .. MaxID + 1 /\ \A n \in DOMAIN tree' \cup DOMAIN Start : n < nextID'
  BY <1>1, <1>3
<1> QED BY <1>4, <1>5, <1>6, <1>7, <1>8 DEF Served
\* Rows of tracks will do as entries of a list.
LEMMA RowsAreEntries ==
    ASSUME NEW q, IsRows(q, Tracks)
    PROVE  IsRows(q, Tracks \cup {NoTrack})
<1>1. Held(q) \in SUBSET Tracks BY ListOf DEF IsRows
<1> QED BY <1>1, ListOf DEF IsRows

\* A list that is edited holds its tracks once.
LEMMA EditedIsRows ==
    ASSUME Served, NEW n \in DOMAIN tree, NEW mode, NEW tracks, IsRows(tracks, Tracks)
    PROVE  IsRows(Edited(tree[n].tracks, mode, tracks), Tracks \cup {NoTrack})
<1> DEFINE S == Tracks \cup {NoTrack}
           list == tree[n].tracks
<1>1. list \in Seq(S) /\ Distinct(list)
  BY DEF Served, IsTree, IsTable, Node, NoTrackTwice
<1>2. tracks \in Seq(S) /\ Distinct(tracks) BY RowsAreEntries DEF IsRows
<1> HIDE DEF S, list
<1>3. Edited(list, mode, tracks) \in Seq(S) /\ Distinct(Edited(list, mode, tracks))
  BY <1>1, <1>2, EditedIsOnce
<1> QED BY <1>3 DEF IsRows, S, list

\* A change that is applied.
LEMMA AppliedServed ==
    ASSUME Served, NEW s \in DOMAIN requests, Asked(requests[s], drafts), ServeChange(s), banks' = banks
    PROVE  Served'
<1> DEFINE r == requests[s]
<1>1. IsTree(tree) /\ IsTable(tree) BY DEF Served, IsTree
<1>2. Asked(r, drafts) OBVIOUS
<1>3. CASE tree' = tree /\ nextID' = nextID
  BY <1>3 DEF Served, NoTrackTwice, RulesStayTheirOwn
<1>4. CASE r.what = "move" /\ CanMove(tree, r.id, r.parent)
           /\ tree' = Moved(tree, r.id, r.parent) /\ nextID' = nextID
  <2>1. IsTree(tree') /\ FewerOrMoved(tree', tree) BY <1>1, <1>4, MovedIsTree
  <2> QED BY <1>4, <2>1, FewerServed DEF Served
<1>5. CASE r.what = "delete" /\ r.id \in DOMAIN tree
           /\ tree' = Deleted(tree, r.id) /\ nextID' = nextID
  <2>1. IsTree(tree') /\ FewerOrMoved(tree', tree) BY <1>1, <1>5, DeletedIsTree
  <2> QED BY <1>5, <2>1, FewerServed DEF Served
<1>6. ASSUME NEW kind \in Kinds, NEW parent, NEW rules \in Rules \cup {None},
             kind = "smart" => rules \in Rules /\ rules.of = New,
             Creates(s, kind, parent, rules)
      PROVE  Served'
  <2> DEFINE e == [kind |-> kind, parent |-> parent, rules |-> rules, tracks |-> <<>>]
  <2>1. SUFFICES ASSUME CanHold(tree, parent), nextID <= MaxID,
                        tree' = With(tree, nextID, e), nextID' = nextID + 1
                 PROVE  Served'
    BY <1>3, <1>6 DEF Creates
  <2>2. parent \in Ids \cup {Root} BY <1>1, <2>1 DEF CanHold, IsFolder, IsTable
  <2>3. <<>> \in Seq(Tracks \cup {NoTrack}) /\ Distinct(<<>>) BY EmptySeq DEF Distinct
  <2>4. /\ e \in Node /\ CanHold(tree, e.parent) /\ Distinct(e.tracks)
        /\ e.kind = "smart" => e.rules \in Rules /\ e.rules.of = New
    BY <1>6, <2>1, <2>2, <2>3 DEF Node
  <2> HIDE DEF e
  <2> QED BY <2>1, <2>4, CreatedServed
<1>7. CASE r.what = "create" /\ Creates(s, r.kind, r.parent, r.rules)
  BY <1>2, <1>6, <1>7 DEF Asked
<1>8. CASE r.what = "import" /\ Creates(s, "list", Root, None) BY <1>6, <1>8 DEF Kinds
<1>9. CASE r.what = "rules" /\ r.id \in DOMAIN tree
           /\ tree' = [tree EXCEPT ![r.id].rules = r.rules] /\ nextID' = nextID
  <2>1. r.rules \in Rules /\ r.rules.of = r.id BY <1>2, <1>9 DEF Asked
  <2> HIDE DEF r
  <2> QED BY <1>9, <2>1, RuledServed
<1>10. ASSUME NEW q, IsList(tree, r.id), IsRows(q, Tracks \cup {NoTrack}),
              tree' = [tree EXCEPT ![r.id].tracks = q], nextID' = nextID
       PROVE  Served'
  BY <1>10, ListedServed DEF IsList
<1>11. CASE r.what = "edit" /\ IsList(tree, r.id) /\ nextID' = nextID
            /\ tree' = [tree EXCEPT ![r.id].tracks =
                                        Edited(tree[r.id].tracks, r.mode, r.tracks)]
  <2>1. r.id \in DOMAIN tree /\ IsRows(r.tracks, Tracks) BY <1>2, <1>11 DEF Asked, IsList
  <2> DEFINE q == Edited(tree[r.id].tracks, r.mode, r.tracks)
  <2>2. IsRows(q, Tracks \cup {NoTrack}) BY <2>1, EditedIsRows
  <2>3. tree' = [tree EXCEPT ![r.id].tracks = q] BY <1>11
  <2> HIDE DEF q
  <2> QED BY <1>10, <1>11, <2>2, <2>3
<1>12. CASE r.what = "post" /\ IsList(tree, r.id) /\ nextID' = nextID
            /\ tree' = [tree EXCEPT ![r.id].tracks = r.tracks]
  <2>1. IsRows(r.tracks, Tracks \cup {NoTrack}) BY <1>2, <1>12 DEF Asked
  <2> QED BY <1>10, <1>12, <2>1
<1> QED
  BY <1>3, <1>4, <1>5, <1>7, <1>8, <1>9, <1>11, <1>12 DEF ServeChange, Applies
\* A change of the other client.
LEMMA OtherServed ==
    ASSUME Served, OtherChange
    PROVE  Served'
<1>1. IsTree(tree) /\ IsTable(tree) BY DEF Served, IsTree
<1>2. nextID' = nextID BY DEF OtherChange
<1>3. CASE \E n \in DOMAIN tree, p \in Ids \cup {Root} :
               CanMove(tree, n, p) /\ tree' = Moved(tree, n, p) /\ UNCHANGED banks
  <2>1. PICK n \in DOMAIN tree, p \in Ids \cup {Root} :
            CanMove(tree, n, p) /\ tree' = Moved(tree, n, p) /\ UNCHANGED banks
    BY <1>3
  <2>2. IsTree(tree') /\ FewerOrMoved(tree', tree) BY <1>1, <2>1, MovedIsTree
  <2> QED BY <1>2, <2>1, <2>2, FewerServed DEF Served
<1>4. CASE \E n \in DOMAIN tree : tree' = Deleted(tree, n) /\ UNCHANGED banks
  <2>1. PICK n \in DOMAIN tree : tree' = Deleted(tree, n) /\ UNCHANGED banks BY <1>4
  <2>2. IsTree(tree') /\ FewerOrMoved(tree', tree) BY <1>1, <2>1, DeletedIsTree
  <2> QED BY <1>2, <2>1, <2>2, FewerServed DEF Served
<1>5. ASSUME NEW n \in DOMAIN tree, NEW mode, NEW t \in Tracks,
             tree' = [tree EXCEPT ![n].tracks = Edited(@, mode, <<t>>)], UNCHANGED banks
      PROVE  Served'
  <2> DEFINE a == <<t>>
             q == Edited(tree[n].tracks, mode, a)
  <2>1. IsRows(a, Tracks) BY SingleHolds DEF IsRows
  <2>2. tree' = [tree EXCEPT ![n].tracks = q] BY <1>5
  <2> HIDE DEF a
  <2>3. IsRows(q, Tracks \cup {NoTrack}) BY <2>1, EditedIsRows
  <2> HIDE DEF q
  <2> QED BY <1>2, <1>5, <2>2, <2>3, ListedServed
<1>6. CASE \E b \in banks : banks' = banks \ {b} /\ UNCHANGED tree
  BY <1>2, <1>6 DEF Served, NoTrackTwice, RulesStayTheirOwn
<1> QED BY <1>3, <1>4, <1>5, <1>6 DEF OtherChange

\* The page changes nothing on the server but by its requests.
LEMMA OnlyServed ==
    ASSUME [Next]_vars
    PROVE  \/ UNCHANGED serverVars
           \/ OtherChange
           \/ \E s \in DOMAIN requests : ServeChange(s) /\ banks' = banks
<1>1. CASE UNCHANGED vars BY <1>1 DEF vars
<1>2. CASE Browse
  BY <1>2 DEF Browse, SelectCollection, Redraw, ClickNode, ClickBank, CheckTracks, ClearChecked
<1>3. CASE Change
  BY <1>3 DEF Change, DropNode, BulkAdd, DropTrack, BulkRemove, RemoveRow, PickTrack, MoveRow, Asks
<1>4. CASE UseDialog
  BY <1>4 DEF UseDialog, AskAbout, OpenCreate, OpenExport, OpenImport, OpenAddPicker, TypeFilter, CancelDialog,
              Confirm, OpenDialog
<1>5. CASE UseSmartEditor
  BY <1>5 DEF UseSmartEditor, OpenSmartEditor, EditRules, TypeJson, SwitchSmartView,
              CancelSmartEditor, SaveSmartEditor, Asks, EditorOnly
<1>6. ASSUME NEW s \in DOMAIN requests, Serve(s)
      PROVE  UNCHANGED serverVars \/ (ServeChange(s) /\ banks' = banks)
  BY <1>6 DEF Serve, ServeRead, serverVars
<1>7. ASSUME NEW s \in DOMAIN requests, Lose(s) PROVE UNCHANGED serverVars BY <1>7 DEF Lose
<1>8. ASSUME NEW s \in DOMAIN requests, Answer(s) PROVE UNCHANGED serverVars
  BY <1>8 DEF Answer, GotList, GotTracks, GotBanks, GotBank, GotTags, GotChanged,
              GotDeleted, GotName, GotEdited, GotPosted
<1> QED BY <1>1, <1>2, <1>3, <1>4, <1>5, <1>6, <1>7, <1>8 DEF Next

\* The server's part of the invariant.
LEMMA ServedStep == PagesInv /\ [Next]_vars => Served'
<1> SUFFICES ASSUME PagesInv, [Next]_vars PROVE Served' OBVIOUS
<1>1. Served BY DEF PagesInv
<1>2. CASE UNCHANGED serverVars
  BY <1>1, <1>2 DEF Served, NoTrackTwice, RulesStayTheirOwn, serverVars
<1>3. CASE OtherChange BY <1>1, <1>3, OtherServed
<1>4. ASSUME NEW s \in DOMAIN requests, ServeChange(s), banks' = banks PROVE Served'
  <2>1. Asked(requests[s], drafts) BY DEF PagesInv, Pending, AllAsked
  <2> QED BY <1>1, <1>4, <2>1, AppliedServed
<1> QED BY <1>2, <1>3, <1>4, OnlyServed
----------------------------------------------------------------------------
(***************************************************************************)
(* What the smart editor does.                                             *)
(***************************************************************************)

\* The editor's states stay those of the playlists they were opened for.
DraftsStay ==
    /\ DOMAIN drafts \subseteq DOMAIN drafts'
    /\ \A i \in DOMAIN drafts : drafts'[i].id = drafts[i].id

\* The page changes them only in the editor, or when it opens and closes.
LEMMA OnlyDrafted ==
    ASSUME [Next]_vars
    PROVE  \/ UNCHANGED editorVars
           \/ \E v \in Values : EditRules(v) \/ TypeJson(v)
           \/ SwitchSmartView \/ CloseSmartEditor
           \/ \E s \in DOMAIN requests : GotTags(s)
<1>1. CASE UNCHANGED vars BY <1>1 DEF vars
<1>2. CASE Browse
  BY <1>2 DEF Browse, SelectCollection, Redraw, ClickNode, ClickBank, CheckTracks, ClearChecked
<1>3. CASE Change
  BY <1>3 DEF Change, DropNode, BulkAdd, DropTrack, BulkRemove, RemoveRow, PickTrack, MoveRow, Asks
<1>4. CASE UseDialog
  BY <1>4 DEF UseDialog, AskAbout, OpenCreate, OpenExport, OpenImport, OpenAddPicker, TypeFilter, CancelDialog,
              Confirm, OpenDialog
<1>5. CASE UseSmartEditor
  BY <1>5 DEF UseSmartEditor, OpenSmartEditor, CancelSmartEditor, SaveSmartEditor, Asks
<1>6. CASE OtherChange BY <1>6 DEF OtherChange
<1>7. ASSUME NEW s \in DOMAIN requests, Serve(s) \/ Lose(s) PROVE UNCHANGED editorVars
  BY <1>7 DEF Serve, Lose
<1>8. ASSUME NEW s \in DOMAIN requests, Answer(s)
      PROVE  UNCHANGED editorVars \/ CloseSmartEditor \/ GotTags(s)
  BY <1>8 DEF Answer, GotList, GotTracks, GotBanks, GotBank, GotChanged,
              GotDeleted, GotName, GotEdited, GotPosted
<1> QED BY <1>1, <1>2, <1>3, <1>4, <1>5, <1>6, <1>7, <1>8 DEF Next

\* The state that is shown becomes d, and the count follows.
LEMMA EditedDrafted ==
    ASSUME Drafted, smartEditorState # 0, NEW d \in Draft, d.id = Current.id, Edits(d),
           smartEditorState' = smartEditorState, preview' = d.value
    PROVE  Drafted' /\ DraftsStay
<1>1. smartEditorState \in DOMAIN drafts /\ DOMAIN drafts = 1 .. Len(drafts)
  BY LenProperties DEF Drafted
<1>2. drafts' \in Seq(Draft) /\ DOMAIN drafts' = DOMAIN drafts /\ Len(drafts') = Len(drafts)
  BY <1>1, ExceptSeq DEF Drafted, Edits
<1>3. /\ drafts'[smartEditorState] = d
      /\ \A i \in DOMAIN drafts \ {smartEditorState} : drafts'[i] = drafts[i]
  BY <1>1 DEF Edits
<1>4. PreviewIsOfRules' BY <1>3 DEF PreviewIsOfRules, Current
<1>5. preview' \in Values BY DEF Draft
<1>6. DraftsStay BY <1>2, <1>3 DEF DraftsStay, Current
<1> QED BY <1>2, <1>4, <1>5, <1>6 DEF Drafted

\* What is shown is one of the states there are, and so is its rules' value.
LEMMA CurrentIsDraft ==
    ASSUME Drafted, smartEditorState # 0
    PROVE  smartEditorState \in DOMAIN drafts /\ Current \in Draft
<1>1. smartEditorState \in DOMAIN drafts BY LenProperties DEF Drafted
<1> QED BY <1>1, ElementOfSeq, LenProperties DEF Drafted, Current

\* The editor closes; the state it showed is on its form again.
LEMMA ClosedDrafted ==
    ASSUME Drafted, CloseSmartEditor
    PROVE  Drafted' /\ DraftsStay
<1>1. CASE smartEditorState = 0
  BY <1>1 DEF CloseSmartEditor, Drafted, PreviewIsOfRules, DraftsStay
<1>2. CASE smartEditorState # 0
  <2> DEFINE i == smartEditorState
             d == [drafts[i] EXCEPT !.view = "form", !.bad = FALSE]
  <2>1. i \in DOMAIN drafts /\ drafts[i] \in Draft BY <1>2, CurrentIsDraft DEF Current
  <2>2. d \in Draft /\ d.id = drafts[i].id BY <2>1 DEF Draft
  <2>3. drafts' = [drafts EXCEPT ![i] = d] BY <1>2, <2>1 DEF CloseSmartEditor
  <2> HIDE DEF d
  <2>4. drafts' \in Seq(Draft) /\ DOMAIN drafts' = DOMAIN drafts /\ Len(drafts') = Len(drafts)
    BY <2>1, <2>2, <2>3, ExceptSeq DEF Drafted
  <2>5. \A k \in DOMAIN drafts : drafts'[k].id = drafts[k].id BY <2>1, <2>2, <2>3
  <2>6. Len(drafts) \in Nat BY LenProperties DEF Drafted
  <2>7. Drafted' BY <2>4, <2>6 DEF CloseSmartEditor, Drafted, PreviewIsOfRules
  <2> QED BY <2>4, <2>5, <2>7 DEF DraftsStay
<1> QED BY <1>1, <1>2

\* The editor opens, on a new state.
LEMMA OpenedDrafted ==
    ASSUME Drafted, Paged, NEW s \in DOMAIN requests, Asked(requests[s], drafts), GotTags(s)
    PROVE  Drafted' /\ DraftsStay
<1> DEFINE n == requests[s].id
           value == IF n \in DOMAIN playlistsCache /\ playlistsCache[n].rules # None
                    THEN playlistsCache[n].rules.value ELSE Default
           d == [id |-> n, value |-> value, view |-> "form", bad |-> FALSE]
<1>1. n \in Ids \cup {None} BY DEF GotTags, Asked
<1>2. value \in Values
  <2>1. CASE n \in DOMAIN playlistsCache /\ playlistsCache[n].rules # None
    <3>1. playlistsCache[n].rules \in Rules BY <2>1 DEF Paged, IsListing, Copies
    <3> QED BY <2>1, <3>1 DEF Rules
  <2>2. CASE ~(n \in DOMAIN playlistsCache /\ playlistsCache[n].rules # None)
    BY <2>2, PageAssumption
  <2> QED BY <2>1, <2>2
<1>3. d \in Draft BY <1>1, <1>2 DEF Draft
<1>4. d.value = value OBVIOUS
<1>5. drafts' = Append(drafts, d) /\ smartEditorState' = Len(drafts) + 1 /\ preview' = value
  BY DEF GotTags, RefreshSmartPreview
<1> HIDE DEF d, value
<1>6. /\ drafts' \in Seq(Draft) /\ Len(drafts') = Len(drafts) + 1
      /\ drafts'[Len(drafts) + 1] = d
      /\ \A i \in 1 .. Len(drafts) : drafts'[i] = drafts[i]
  BY <1>3, <1>5, AppendProperties DEF Drafted
<1>7. /\ DOMAIN drafts = 1 .. Len(drafts) /\ DOMAIN drafts' = 1 .. Len(drafts')
      /\ Len(drafts) \in Nat
  BY <1>6, LenProperties DEF Drafted
<1>8. DraftsStay BY <1>6, <1>7 DEF DraftsStay
<1>9. PreviewIsOfRules' BY <1>4, <1>5, <1>6 DEF PreviewIsOfRules, Current
<1>10. Drafted' BY <1>2, <1>5, <1>6, <1>7, <1>9 DEF Drafted
<1> QED BY <1>8, <1>10

\* The editor's part of the invariant.
LEMMA DraftedStep == PagesInv /\ [Next]_vars => Drafted' /\ DraftsStay
<1> SUFFICES ASSUME PagesInv, [Next]_vars PROVE Drafted' /\ DraftsStay OBVIOUS
<1>1. Drafted /\ Paged BY DEF PagesInv
<1>2. CASE UNCHANGED editorVars
  BY <1>1, <1>2 DEF Drafted, PreviewIsOfRules, Current, DraftsStay, editorVars
<1>3. ASSUME NEW v \in Values, EditRules(v) PROVE Drafted' /\ DraftsStay
  <2> DEFINE d == [Current EXCEPT !.value = v]
  <2>1. smartEditorState # 0 /\ Current \in Draft BY <1>1, <1>3, CurrentIsDraft DEF EditRules, InEditor
  <2>2. d \in Draft /\ d.id = Current.id /\ d.value = v BY <2>1 DEF Draft
  <2>3. Edits(d) /\ smartEditorState' = smartEditorState /\ preview' = v
    BY <1>3 DEF EditRules, EditorOnly, RefreshSmartPreview
  <2> HIDE DEF d
  <2> QED BY <1>1, <2>1, <2>2, <2>3, EditedDrafted
<1>4. ASSUME NEW v \in Values, TypeJson(v) PROVE Drafted' /\ DraftsStay
  <2>1. smartEditorState # 0 /\ Current \in Draft BY <1>1, <1>4, CurrentIsDraft DEF TypeJson, InEditor
  <2>2. smartEditorState' = smartEditorState BY <1>4 DEF TypeJson, EditorOnly
  <2>3. CASE Edits([Current EXCEPT !.value = v, !.bad = FALSE]) /\ RefreshSmartPreview(v)
    <3> DEFINE d == [Current EXCEPT !.value = v, !.bad = FALSE]
    <3>1. d \in Draft /\ d.id = Current.id /\ d.value = v BY <2>1 DEF Draft
    <3>2. Edits(d) /\ preview' = v BY <2>3 DEF RefreshSmartPreview
    <3> HIDE DEF d
    <3> QED BY <1>1, <2>1, <2>2, <3>1, <3>2, EditedDrafted
  <2>4. CASE Edits([Current EXCEPT !.bad = TRUE]) /\ UNCHANGED preview
    <3> DEFINE d == [Current EXCEPT !.bad = TRUE]
    <3>1. d \in Draft /\ d.id = Current.id /\ d.value = Current.value BY <2>1 DEF Draft
    <3>2. Edits(d) /\ preview' = Current.value
      BY <1>1, <2>1, <2>4 DEF Drafted, PreviewIsOfRules
    <3> HIDE DEF d
    <3> QED BY <1>1, <2>1, <2>2, <3>1, <3>2, EditedDrafted
  <2> QED BY <1>4, <2>3, <2>4 DEF TypeJson
<1>5. CASE SwitchSmartView
  <2> DEFINE d == [Current EXCEPT !.view = IF @ = "form" THEN "json" ELSE "form"]
  <2>1. smartEditorState # 0 /\ Current \in Draft
    BY <1>1, <1>5, CurrentIsDraft DEF SwitchSmartView, InEditor
  <2>2. d \in Draft /\ d.id = Current.id /\ d.value = Current.value BY <2>1 DEF Draft
  <2>3. Edits(d) /\ smartEditorState' = smartEditorState /\ preview' = Current.value
    BY <1>5 DEF SwitchSmartView, EditorOnly, RefreshSmartPreview
  <2> HIDE DEF d
  <2> QED BY <1>1, <2>1, <2>2, <2>3, EditedDrafted
<1>6. CASE CloseSmartEditor BY <1>1, <1>6, ClosedDrafted
<1>7. ASSUME NEW s \in DOMAIN requests, GotTags(s) PROVE Drafted' /\ DraftsStay
  <2>1. Asked(requests[s], drafts) BY DEF PagesInv, Pending, AllAsked
  <2> QED BY <1>1, <1>7, <2>1, OpenedDrafted
<1> QED BY <1>2, <1>3, <1>4, <1>5, <1>6, <1>7, OnlyDrafted
----------------------------------------------------------------------------
(***************************************************************************)
(* What the page does.                                                     *)
(***************************************************************************)

pageVars == <<cacheVars, selectionVars, shown, bulkSelectedIDs, dialog>>

\* The actions that change what the page shows or has selected.
LEMMA OnlyPaged ==
    ASSUME [Next]_vars
    PROVE  \/ UNCHANGED pageVars
           \/ SelectCollection \/ Redraw \/ ClearChecked
           \/ \E n \in DOMAIN sidebar : ClickNode(n)
           \/ \E S \in SUBSET shown.tracks : CheckTracks(S)
           \/ \E what \in {"rename", "delete"} : AskAbout(what)
           \/ \E d : OpenDialog(d) /\ d.what \notin {"rename", "delete"}
           \/ TypeFilter \/ CancelDialog \/ Confirm
           \/ \E s \in DOMAIN requests : Refused(s) /\ UNCHANGED <<cacheVars, selectionVars, shown>>
           \/ \E s \in DOMAIN requests :
                  GotList(s) \/ GotTracks(s) \/ GotBanks(s) \/ GotBank(s) \/ GotDeleted(s)
<1>1. CASE UNCHANGED vars BY <1>1 DEF vars, pageVars
<1>2. CASE Browse
  BY <1>2 DEF Browse, ClickBank, pageVars
<1>3. CASE Change
  BY <1>3 DEF Change, DropNode, BulkAdd, DropTrack, BulkRemove, RemoveRow, PickTrack, MoveRow, Asks,
              pageVars
<1>4. CASE UseDialog
  <2>1. ASSUME NEW what \in {"list", "folder", "export", "import", "pick"}, NEW n
        PROVE  Dialog(what, n).what \notin {"rename", "delete"}
    BY DEF Dialog
  <2>4. Picker.what \notin {"rename", "delete"} BY DEF Picker
  <2>2. ASSUME NEW kind \in {"list", "folder"}, OpenCreate(kind)
        PROVE  \E d : OpenDialog(d) /\ d.what \notin {"rename", "delete"}
    BY <2>1, <2>2 DEF OpenCreate
  <2>3. ASSUME OpenExport \/ OpenImport \/ OpenAddPicker
        PROVE  \E d : OpenDialog(d) /\ d.what \notin {"rename", "delete"}
    BY <2>1, <2>3, <2>4 DEF OpenExport, OpenImport, OpenAddPicker
  <2> QED BY <1>4, <2>2, <2>3 DEF UseDialog
<1>5. CASE UseSmartEditor
  BY <1>5 DEF UseSmartEditor, OpenSmartEditor, EditRules, TypeJson, SwitchSmartView,
              CancelSmartEditor, SaveSmartEditor, Asks, EditorOnly, pageVars
<1>6. CASE OtherChange BY <1>6 DEF OtherChange, pageVars
<1>7. ASSUME NEW s \in DOMAIN requests, Serve(s) \/ Lose(s)
      PROVE  UNCHANGED pageVars \/ (Refused(s) /\ UNCHANGED <<cacheVars, selectionVars, shown>>)
  <2>1. UNCHANGED <<cacheVars, selectionVars, shown>> BY <1>7 DEF Serve, Lose
  <2>2. CASE Lose(s) BY <2>1, <2>2 DEF Lose
  <2>3. CASE Serve(s)
    <3>1. Refused(s) \/ UNCHANGED <<bulkSelectedIDs, dialog>>
      BY <2>3 DEF Serve, ServeRead, ServeChange, Applies, Creates, Answered
    <3> QED BY <2>1, <3>1 DEF pageVars
  <2> QED BY <1>7, <2>2, <2>3
<1>8. ASSUME NEW s \in DOMAIN requests, Answer(s)
      PROVE  \/ UNCHANGED pageVars
             \/ GotList(s) \/ GotTracks(s) \/ GotBanks(s) \/ GotBank(s) \/ GotDeleted(s)
  BY <1>8 DEF Answer, GotTags, GotChanged, GotName, GotEdited, GotPosted, pageVars
<1> QED BY <1>1, <1>2, <1>3, <1>4, <1>5, <1>6, <1>7, <1>8 DEF Next, Browse

\* No rows.
LEMMA NoRows == \A S : IsRows(<<>>, S)
BY EmptySeq DEF IsRows, Distinct

\* Neither the collection nor a bank is a playlist.
LEMMA SourcesDiffer ==
    Collection \notin Ids \cup Banks /\ Banks \cap Ids = {} /\ None \notin Ids
BY PageAssumption, NoneAssumption, MaxIDAssumption DEF Ids

\* Drawing the picker again leaves every other dialog, and the picker names no
\* playlist.
LEMMA DrawnHolds ==
    ASSUME NEW draw, NEW n, DialogHolds(dialog, n), DrawPicker(draw)
    PROVE  DialogHolds(dialog', n)
<1>1. dialog' = dialog \/ dialog' = Picker BY DEF DrawPicker
<1>2. DialogHolds(Picker, n) BY DEF DialogHolds, Picker
<1> QED BY <1>1, <1>2

\* What a handler does at the end of its chain, done or refused.
LEMMA EndsHolds ==
    ASSUME bulkSelectedIDs \subseteq Tracks, NEW n, DialogHolds(dialog, n),
           \/ \E after : Ends(after)
           \/ \E s : Refused(s)
    PROVE  bulkSelectedIDs' \subseteq Tracks /\ DialogHolds(dialog', n)
<1>1. ASSUME NEW after, Ends(after)
      PROVE  bulkSelectedIDs' \subseteq Tracks /\ DialogHolds(dialog', n)
  <2>1. bulkSelectedIDs' \subseteq Tracks /\ DrawPicker(after.draw) BY <1>1 DEF Ends
  <2> QED BY <2>1, DrawnHolds
<1>2. ASSUME NEW s, Refused(s)
      PROVE  bulkSelectedIDs' \subseteq Tracks /\ DialogHolds(dialog', n)
  <2>1. \/ UNCHANGED <<bulkSelectedIDs, dialog>>
        \/ \E after : Ends(after)
        \/ UNCHANGED bulkSelectedIDs /\ \E draw : DrawPicker(draw)
    BY <1>2 DEF Refused
  <2> QED BY <1>1, <2>1, DrawnHolds
<1> QED BY <1>1, <1>2

\* The page's part of the invariant.
LEMMA PagedStep == PagesInv /\ [Next]_vars => Paged'
<1> SUFFICES ASSUME PagesInv, [Next]_vars PROVE Paged' OBVIOUS
<1>1. Paged /\ banks \subseteq Banks BY DEF PagesInv, Served
<1>2. /\ IsListing(playlistsCache) /\ IsListing(sidebar) /\ hcbCache \subseteq Banks
      /\ selectedSource \in {Collection} \cup Ids \cup Banks
      /\ SelectionAgrees /\ IsRows(plSelectedTracks, Tracks) /\ shown \in Table
      /\ bulkSelectedIDs \subseteq Tracks /\ DialogHolds(dialog, plSelectedID)
  BY <1>1 DEF Paged
<1>3. \A s \in DOMAIN requests : Asked(requests[s], drafts) BY DEF PagesInv, Pending, AllAsked
<1>4. shown.tracks \in SUBSET Tracks BY <1>2 DEF Table
<1>5. IsRows(<<>>, Tracks) BY NoRows
<1>6. ASSUME NEW source, NEW rows, IsRows(rows, Tracks)
      PROVE  View(source, playlistsCache, rows) \in Table
  BY <1>2, <1>6, ViewIsTable DEF IsRows
<1>7. CASE UNCHANGED pageVars
  BY <1>1, <1>7 DEF pageVars, cacheVars, selectionVars, Paged, SelectionAgrees
<1>8. CASE SelectCollection
  <2>1. shown' \in Table BY <1>5, <1>6, <1>8 DEF SelectCollection
  <2>2. SelectionAgrees' BY <1>8, SourcesDiffer DEF SelectCollection, SelectionAgrees
  <2> QED BY <1>2, <1>5, <1>8, <2>1, <2>2
          DEF SelectCollection, Paged, cacheVars, Acts, AtPage, DialogHolds
<1>9. CASE Redraw
  <2>1. shown' \in Table BY <1>2, <1>6, <1>9 DEF Redraw
  <2> QED BY <1>2, <1>9, <2>1 DEF Redraw, Paged, cacheVars, selectionVars, SelectionAgrees
<1>10. CASE ClearChecked
  BY <1>2, <1>10 DEF ClearChecked, Paged, cacheVars, selectionVars, SelectionAgrees
<1>11. ASSUME NEW n \in DOMAIN sidebar, ClickNode(n) PROVE Paged'
  <2>1. n \in Ids BY <1>2 DEF IsListing
  <2>2. IsRows(plSelectedTracks', Tracks) /\ shown' \in Table
    BY <1>2, <1>5, <1>6, <1>11 DEF ClickNode
  <2>3. SelectionAgrees' BY <1>11, <2>1 DEF ClickNode, SelectionAgrees
  <2> QED BY <1>2, <1>11, <2>1, <2>2, <2>3 DEF ClickNode, Paged, cacheVars, Acts, AtPage, DialogHolds
<1>12. ASSUME NEW S \in SUBSET shown.tracks, CheckTracks(S) PROVE Paged'
  BY <1>2, <1>4, <1>12 DEF CheckTracks, Paged, cacheVars, selectionVars, SelectionAgrees
<1>13. ASSUME NEW d, OpenDialog(d), DialogHolds(d, plSelectedID) PROVE Paged'
  BY <1>2, <1>13 DEF OpenDialog, Paged, cacheVars, selectionVars, SelectionAgrees
<1>14. ASSUME NEW what \in {"rename", "delete"}, AskAbout(what) PROVE Paged'
  <2>1. DialogHolds(Dialog(what, plSelectedID), plSelectedID) BY DEF DialogHolds, Dialog
  <2> QED BY <1>13, <1>14, <2>1 DEF AskAbout
<1>15. ASSUME NEW d, OpenDialog(d), d.what \notin {"rename", "delete"} PROVE Paged'
  BY <1>13, <1>15 DEF DialogHolds
<1>16. CASE CancelDialog \/ Confirm
  BY <1>2, <1>16 DEF CancelDialog, Confirm, Paged, cacheVars, selectionVars, SelectionAgrees,
                     DialogHolds
<1>17. ASSUME NEW s \in DOMAIN requests, GotList(s) PROVE Paged'
  <2>1. IsListing(playlistsCache') BY <1>3, <1>17 DEF GotList, Has, Asked
  <2>2. CASE selectedSource' = Collection /\ plSelectedID' = None /\ plSelectedTracks' = <<>>
    <3>1. SelectionAgrees' BY <2>2, SourcesDiffer DEF SelectionAgrees
    <3> QED BY <1>2, <1>5, <1>17, <2>1, <2>2, <3>1 DEF GotList, Paged, DialogHolds
  <2>3. CASE UNCHANGED selectionVars
    BY <1>2, <1>17, <2>1, <2>3 DEF GotList, Paged, selectionVars, SelectionAgrees
  <2> QED BY <1>17, <2>2, <2>3 DEF GotList
<1>18. ASSUME NEW s \in DOMAIN requests, GotTracks(s) PROVE Paged'
  <2>1. requests[s].what = "tracks" BY <1>18 DEF GotTracks, Has
  <2>2. /\ requests[s].state = "answered" => IsRows(requests[s].answer, Tracks)
        /\ requests[s].then \in {"show", "banks", "list"}
    BY <1>3, <2>1 DEF Asked
  <2>3. IsRows(plSelectedTracks', Tracks) BY <1>5, <1>18, <2>2 DEF GotTracks
  <2>4. View(selectedSource, playlistsCache, plSelectedTracks') \in Table BY <1>6, <2>3
  <2>5. shown' \in Table BY <1>2, <1>18, <2>2, <2>4 DEF GotTracks
  <2> QED BY <1>2, <1>18, <2>3, <2>5 DEF GotTracks, Paged, cacheVars, SelectionAgrees
<1>19. ASSUME NEW s \in DOMAIN requests, GotBanks(s) PROVE Paged'
  <2>1. hcbCache' \subseteq Banks /\ sidebar' = playlistsCache
        /\ selectedSource' \in {Collection} \cup Ids \cup Banks
    BY <1>2, <1>3, <1>19 DEF GotBanks, Has, Asked
  <2>6. bulkSelectedIDs' \subseteq Tracks /\ DialogHolds(dialog', plSelectedID)
    BY <1>2, <1>19, EndsHolds DEF GotBanks
  <2>2. selectedSource' = selectedSource
        \/ (selectedSource' = Collection /\ selectedSource \in Banks)
    BY <1>19 DEF GotBanks
  <2>3. plSelectedID' = plSelectedID /\ plSelectedTracks' = plSelectedTracks BY <1>19 DEF GotBanks
  <2>4. SelectionAgrees' BY <1>2, <2>2, <2>3, SourcesDiffer DEF SelectionAgrees
  <2>5. shown' \in Table BY <1>2, <1>6, <1>19 DEF GotBanks
  <2> QED BY <1>2, <1>19, <2>1, <2>3, <2>4, <2>5, <2>6 DEF GotBanks, Paged
<1>20. ASSUME NEW s \in DOMAIN requests, GotBank(s) PROVE Paged'
  <2>1. selectedSource' \in Banks BY <1>3, <1>20 DEF GotBank, Has, Asked
  <2>2. SelectionAgrees' BY <1>20, <2>1, SourcesDiffer DEF GotBank, SelectionAgrees
  <2>3. shown' \in Table BY <1>5, <1>6, <1>20 DEF GotBank
  <2> QED BY <1>2, <1>5, <1>20, <2>1, <2>2, <2>3 DEF GotBank, Paged, cacheVars, DialogHolds
<1>21. ASSUME NEW s \in DOMAIN requests, GotDeleted(s) PROVE Paged'
  <2>1. SelectionAgrees' BY <1>21, SourcesDiffer DEF GotDeleted, SelectionAgrees
  <2> QED BY <1>2, <1>5, <1>21, <2>1 DEF GotDeleted, Paged, cacheVars, DialogHolds
<1>22. CASE TypeFilter
  <2>1. DialogHolds(dialog', plSelectedID) BY <1>2, <1>22, DrawnHolds DEF TypeFilter
  <2> QED BY <1>2, <1>22, <2>1 DEF TypeFilter, Paged, cacheVars, selectionVars, SelectionAgrees
<1>23. ASSUME NEW s \in DOMAIN requests, Refused(s), UNCHANGED <<cacheVars, selectionVars, shown>>
       PROVE  Paged'
  <2>1. bulkSelectedIDs' \subseteq Tracks /\ DialogHolds(dialog', plSelectedID)
    BY <1>2, <1>23, EndsHolds
  <2> QED BY <1>2, <1>23, <2>1 DEF Paged, cacheVars, selectionVars, SelectionAgrees
<1> QED
  BY <1>7, <1>8, <1>9, <1>10, <1>11, <1>12, <1>14, <1>15, <1>16, <1>17, <1>18, <1>19, <1>20, <1>21,
     <1>22, <1>23, OnlyPaged
----------------------------------------------------------------------------
(***************************************************************************)
(* Requests.                                                               *)
(***************************************************************************)

\* The reads that follow a change or another read.
LEMMA GetsAsked ==
    ASSUME NEW d, NEW x, NEW n
    PROVE  /\ \A k : Asked(ListGet(k, x), d)
           /\ \A then \in {"show", "banks", "list"} : Asked(TracksGet(n, then, x), d)
           /\ Asked(BanksGet(x), d)
<1>1. ASSUME NEW k PROVE Asked(ListGet(k, x), d)
  BY DEF ListGet, Request, Asked
<1>2. ASSUME NEW then \in {"show", "banks", "list"} PROVE Asked(TracksGet(n, then, x), d)
  BY DEF TracksGet, Request, Asked
<1>3. Asked(BanksGet(x), d) BY DEF BanksGet, Request, Asked
<1> QED BY <1>1, <1>2, <1>3

\* What the user asks for.
LEMMA ChangesAsked ==
    ASSUME NEW d, NEW n
    PROVE  /\ \A p : Asked(Request([what |-> "move", id |-> n, parent |-> p]), d)
           /\ \A b \in Banks : Asked(Request([what |-> "bank", bank |-> b]), d)
           /\ Asked(Request([what |-> "import"]), d)
           /\ \A mode, q, by, x : IsRows(q, Tracks) => Asked(Edit(n, mode, q, by, x), d)
           /\ \A q : IsRows(q, Tracks \cup {NoTrack}) => Asked(Post(n, q), d)
<1>1. ASSUME NEW p PROVE Asked(Request([what |-> "move", id |-> n, parent |-> p]), d)
  BY DEF Request, Asked
<1>2. ASSUME NEW b \in Banks PROVE Asked(Request([what |-> "bank", bank |-> b]), d) BY DEF Request, Asked
<1>3. Asked(Request([what |-> "import"]), d) BY DEF Request, Asked
<1>4. ASSUME NEW mode, NEW q, NEW by, NEW x, IsRows(q, Tracks)
      PROVE  Asked(Edit(n, mode, q, by, x), d)
  BY <1>4 DEF Edit, Request, Asked
<1>5. ASSUME NEW q, IsRows(q, Tracks \cup {NoTrack}) PROVE Asked(Post(n, q), d)
  BY <1>5 DEF Post, Request, Asked
<1> QED BY <1>1, <1>2, <1>3, <1>4, <1>5

\* What a dialog or the editor asks for.
LEMMA DialogsAsked ==
    ASSUME NEW d
    PROVE  /\ \A n \in Ids \cup {None} : Asked(Request([what |-> "tags", id |-> n]), d)
           /\ \A what \in {"rename", "delete", "export"} : \A n, m : n \in {m, None} =>
                  Asked(Request([what |-> what, id |-> n, named |-> m]), d)
           /\ \A kind \in {"list", "folder"} : Asked(Create(kind, None), d)
           /\ \A rules \in Rules : rules.of = New => Asked(Create("smart", rules), d)
<1>1. ASSUME NEW n \in Ids \cup {None} PROVE Asked(Request([what |-> "tags", id |-> n]), d)
  BY DEF Request, Asked
<1>2. ASSUME NEW what \in {"rename", "delete", "export"}, NEW n, NEW m, n \in {m, None}
      PROVE  Asked(Request([what |-> what, id |-> n, named |-> m]), d)
  <2> DEFINE r == Request([what |-> what, id |-> n, named |-> m])
  <2>1. /\ {"what", "state", "answer", "id", "named"} \subseteq DOMAIN r
        /\ r.what = what /\ r.id = n /\ r.named = m
    BY DEF Request
  <2> HIDE DEF r
  <2>2. Asked(r, d) BY <1>2, <2>1 DEF Asked
  <2> QED BY <2>2 DEF r
<1>3. ASSUME NEW kind \in Kinds, NEW rules \in Rules \cup {None},
             kind = "smart" => rules \in Rules /\ rules.of = New
      PROVE  Asked(Create(kind, rules), d)
  BY <1>3 DEF Create, Request, Asked
<1>4. \A kind \in {"list", "folder"} : Asked(Create(kind, None), d) BY <1>3 DEF Kinds
<1>5. \A rules \in Rules : rules.of = New => Asked(Create("smart", rules), d) BY <1>3 DEF Kinds
<1> QED BY <1>1, <1>2, <1>4, <1>5

\* The requests of a SAVE, for a playlist there was when the editor opened.
LEMMA SavesAsked ==
    ASSUME NEW i \in DOMAIN drafts, drafts[i] \in Draft, DraftsStay
    PROVE  /\ RulesOf(i) \in Rules
           /\ drafts[i].id = None => RulesOf(i).of = New
           /\ drafts[i].id # None =>
                  /\ Asked(PutRules(i), drafts')
                  /\ Asked(Request([what |-> "name", id |-> drafts[i].id, draft |-> i]), drafts')
<1>1. drafts[i].id \in Ids \cup {None} /\ drafts[i].value \in Values BY DEF Draft
<1>2. RulesOf(i) \in Rules BY <1>1 DEF RulesOf, Rules
<1>3. RulesOf(i).of = IF drafts[i].id = None THEN New ELSE drafts[i].id BY DEF RulesOf
<1>4. ASSUME drafts[i].id # None PROVE Asked(PutRules(i), drafts')
  BY <1>1, <1>2, <1>3, <1>4 DEF PutRules, Request, Asked
<1>5. ASSUME drafts[i].id # None
      PROVE  Asked(Request([what |-> "name", id |-> drafts[i].id, draft |-> i]), drafts')
  <2>1. i \in DOMAIN drafts' /\ drafts'[i].id \in Ids BY <1>1, <1>5 DEF DraftsStay
  <2> QED BY <2>1 DEF Request, Asked
<1> QED BY <1>2, <1>3, <1>4, <1>5

\* A request is answered; a read that fails goes on with what there is.
LEMMA AnswersAsked ==
    ASSUME NEW r, NEW d, Asked(r, d)
    PROVE  /\ \A a : /\ r.what = "list" => IsListing(a)
                     /\ r.what = "tracks" => IsRows(a, Tracks)
                     /\ r.what = "banks" => a \subseteq Banks
                     => Asked([r EXCEPT !.state = "answered", !.answer = a], d)
           /\ r.what \in {"tracks", "banks"} =>
                  Asked([r EXCEPT !.state = "failed", !.answer = <<>>], d)
<1>1. ASSUME NEW a, r.what = "list" => IsListing(a), r.what = "tracks" => IsRows(a, Tracks),
             r.what = "banks" => a \subseteq Banks
      PROVE  Asked([r EXCEPT !.state = "answered", !.answer = a], d)
  BY <1>1 DEF Asked
<1>2. ASSUME r.what \in {"tracks", "banks"}
      PROVE  Asked([r EXCEPT !.state = "failed", !.answer = <<>>], d)
  BY <1>2 DEF Asked
<1> QED BY <1>1, <1>2

\* The editor's states stay, and so does what the requests say of them.
LEMMA StaysAsked ==
    ASSUME Pending, DraftsStay
    PROVE  AllAsked(requests, drafts')
BY DEF Pending, AllAsked, Asked, DraftsStay

\* One more request.
LEMMA AskAsked ==
    ASSUME AllAsked(requests, drafts'), NEW r, Asked(r, drafts'), Ask(r)
    PROVE  Pending'
<1> DEFINE s == CHOOSE s \in Free : \A x \in Free : s <= x
<1>1. Free \in SUBSET Nat /\ Free # {} BY DEF Ask, Free
<1>2. \E n \in Free : \A x \in Free : n <= x BY <1>1, LeastNumber
<1>3. s \in Free BY <1>2
<1>4. requests' = With(requests, s, r) BY DEF Ask
<1> HIDE DEF s
<1> QED BY <1>3, <1>4 DEF Pending, AllAsked, With, Free

\* One goes on as another.
LEMMA FollowAsked ==
    ASSUME AllAsked(requests, drafts'), NEW s \in DOMAIN requests, NEW r, Asked(r, drafts'),
           Follow(s, r)
    PROVE  Pending'
BY DEF Follow, Pending, AllAsked

\* One ends.
LEMMA FinishAsked ==
    ASSUME AllAsked(requests, drafts'), NEW s \in DOMAIN requests, Finish(s)
    PROVE  Pending'
BY DEF Finish, Pending, AllAsked

\* One is answered.
LEMMA AnsweredAsked ==
    ASSUME AllAsked(requests, drafts'), NEW s \in DOMAIN requests, NEW a,
           requests[s].what = "list" => IsListing(a),
           requests[s].what = "tracks" => IsRows(a, Tracks),
           requests[s].what = "banks" => a \subseteq Banks, Answered(s, a)
    PROVE  Pending'
<1> DEFINE r == [requests[s] EXCEPT !.state = "answered", !.answer = a]
<1>1. Asked(requests[s], drafts') BY DEF AllAsked
<1>2. Asked(r, drafts') BY <1>1, AnswersAsked
<1>3. Follow(s, r) BY DEF Answered
<1> HIDE DEF r
<1> QED BY <1>2, <1>3, FollowAsked

\* One is refused.
LEMMA RefusedAsked ==
    ASSUME AllAsked(requests, drafts'), NEW s \in DOMAIN requests, Refused(s)
    PROVE  Pending'
<1> DEFINE r == [requests[s] EXCEPT !.state = "failed", !.answer = <<>>]
<1>1. Asked(requests[s], drafts') BY DEF AllAsked
<1>2. CASE requests[s].what \in {"tracks", "banks"}
  <2>1. Asked(r, drafts') BY <1>1, <1>2, AnswersAsked
  <2>2. Follow(s, r) BY <1>2 DEF Refused
  <2> HIDE DEF r
  <2> QED BY <2>1, <2>2, FollowAsked
<1>3. CASE requests[s].what \notin {"tracks", "banks"}
  BY <1>3, FinishAsked DEF Refused
<1> QED BY <1>2, <1>3
\* What the user does on the page.
LEMMA ChangePending ==
    ASSUME PagesInv, DraftsStay, Change
    PROVE  Pending'
<1>1. AllAsked(requests, drafts') BY StaysAsked DEF PagesInv
<1>2. IsRows(plSelectedTracks, Tracks) /\ shown.tracks \in SUBSET Tracks
  BY DEF PagesInv, Paged, Table
<1>3. plSelectedTracks \in Seq(Tracks) /\ Distinct(plSelectedTracks)
      /\ DOMAIN plSelectedTracks = 1 .. Len(plSelectedTracks) /\ Len(plSelectedTracks) \in Nat
  BY <1>2, LenProperties DEF IsRows
<1>4. \A S : IsRows(InOrder(S), Tracks) BY InOrderIsOnce DEF IsRows
<1>5. ASSUME NEW t \in Tracks PROVE IsRows(<<t>>, Tracks) BY SingleHolds DEF IsRows
<1>6. ASSUME NEW n, NEW target, DropNode(n, target) PROVE Pending'
  <2> DEFINE r == Request([what |-> "move", id |-> n, parent |-> target])
  <2>1. Asked(r, drafts') BY ChangesAsked
  <2>2. Ask(r) BY <1>6 DEF DropNode, Asks
  <2> HIDE DEF r
  <2> QED BY <1>1, <2>1, <2>2, AskAsked
<1>7. ASSUME NEW n, NEW q, NEW mode, NEW by, NEW drop, IsRows(q, Tracks),
             Ask(Edit(n, mode, q, by, drop))
      PROVE  Pending'
  <2>1. Asked(Edit(n, mode, q, by, drop), drafts') BY <1>7, ChangesAsked
  <2> QED BY <1>1, <1>7, <2>1, AskAsked
<1>8. ASSUME NEW n, NEW q, IsRows(q, Tracks \cup {NoTrack}), Ask(Post(n, q))
      PROVE  Pending'
  <2>1. Asked(Post(n, q), drafts') BY <1>8, ChangesAsked
  <2> QED BY <1>1, <1>8, <2>1, AskAsked
<1>9. ASSUME NEW n, BulkAdd(n) PROVE Pending' BY <1>4, <1>7, <1>9 DEF BulkAdd, Asks
<1>10. ASSUME NEW n, NEW t \in Tracks, DropTrack(n, t) PROVE Pending'
  <2> DEFINE q == <<t>>
  <2>1. IsRows(q, Tracks) BY <1>5
  <2>2. Ask(Edit(n, "add", q, "append", Nothing)) BY <1>10 DEF DropTrack, Asks
  <2> HIDE DEF q
  <2> QED BY <1>7, <2>1, <2>2
<1>11. CASE BulkRemove BY <1>4, <1>7, <1>11 DEF BulkRemove, Asks
<1>12. ASSUME NEW t \in Tracks, RemoveRow(t) PROVE Pending'
  <2> DEFINE at == {i \in DOMAIN plSelectedTracks : plSelectedTracks[i] = t}
             i == CHOOSE i \in at : \A j \in at : i <= j
             q == TakenOut(plSelectedTracks, i)
  <2>1. at \in SUBSET Nat /\ at # {} BY <1>3, <1>12 DEF RemoveRow
  <2>2. \E k \in at : \A j \in at : k <= j BY <2>1, LeastNumber
  <2>3. i \in at BY <2>2
  <2>4. i \in DOMAIN plSelectedTracks BY <2>3
  <2>5. Ask(Post(plSelectedID, q)) BY <1>12 DEF RemoveRow, Asks
  <2> HIDE DEF i, at
  <2>6. i \in Nat \ {0} BY <1>3, <2>4
  <2>7. IsRows(q, Tracks) BY <1>3, <2>6, TakenOutIsOnce DEF IsRows
  <2>8. IsRows(q, Tracks \cup {NoTrack}) BY <2>7, RowsAreEntries
  <2> HIDE DEF q
  <2> QED BY <1>8, <2>5, <2>8
<1>13. ASSUME NEW t \in Tracks, PickTrack(t) PROVE Pending'
  <2> DEFINE q == <<t>>
  <2>1. IsRows(q, Tracks) BY <1>5
  <2>2. Ask(Edit(plSelectedID, "add", q, "pick", Draws)) BY <1>13 DEF PickTrack
  <2> HIDE DEF q
  <2> QED BY <1>7, <2>1, <2>2
<1>14. ASSUME NEW i \in 1 .. Cardinality(shown.tracks), NEW k \in 0 .. Cardinality(shown.tracks),
              MoveRow(i, k)
       PROVE  Pending'
  <2> DEFINE s == plSelectedTracks
             S == Tracks \cup {NoTrack}
             t == IF i <= Len(s) THEN s[i] ELSE NoTrack
             rest == TakenOut(s, i)
             at == Smaller(IF i <= k THEN k - 1 ELSE k, Len(rest))
             q == Inserted(rest, at, t)
  <2>1. Ask(Post(plSelectedID, q)) BY <1>14 DEF MoveRow, Asks
  <2>2. i \in Nat \ {0} /\ k \in Nat OBVIOUS
  <2>3. s \in Seq(S) /\ Distinct(s) BY <1>2, RowsAreEntries DEF IsRows
  <2>4. Held(s) \subseteq Tracks BY <1>3, ListOf
  <2>5. i <= Len(s) => s[i] \in Tracks
    <3>1. i <= Len(s) => i \in DOMAIN s BY <1>3, <2>2
    <3> QED BY <2>4, <3>1 DEF Held
  <2> HIDE DEF s, S
  <2>6. /\ rest \in Seq(S) /\ Distinct(rest)
        /\ Held(rest) = IF i <= Len(s) THEN Held(s) \ {s[i]} ELSE Held(s)
    BY <2>2, <2>3, TakenOutIsOnce
  <2>7. t \in S \ Held(rest)
    BY <2>4, <2>5, <2>6, NoTrackAssumption DEF S
  <2>8. at \in 0 .. Len(rest)
    <3>1. Len(rest) \in Nat BY <2>6, LenProperties
    <3> QED BY <2>2, <3>1 DEF Smaller
  <2> HIDE DEF at, rest, t
  <2>9. IsRows(q, S) BY <2>6, <2>7, <2>8, InsertedIsOnce DEF IsRows
  <2> HIDE DEF q
  <2> QED BY <1>8, <2>1, <2>9 DEF S
<1> QED BY <1>6, <1>9, <1>10, <1>11, <1>12, <1>13, <1>14 DEF Change
\* What a dialog's OK button and the smart editor send.
LEMMA ConfirmPending ==
    ASSUME PagesInv, DraftsStay, Confirm
    PROVE  Pending'
<1>1. AllAsked(requests, drafts') BY StaysAsked DEF PagesInv
<1>2. DialogHolds(dialog, plSelectedID) BY DEF PagesInv, Paged
<1>3. ASSUME NEW what \in {"rename", "delete", "export"}, NEW n, NEW m, n \in {m, None},
             Ask(Request([what |-> what, id |-> n, named |-> m]))
      PROVE  Pending'
  <2> DEFINE r == Request([what |-> what, id |-> n, named |-> m])
  <2>1. Asked(r, drafts') BY <1>3, DialogsAsked
  <2>2. Ask(r) BY <1>3
  <2> HIDE DEF r
  <2> QED BY <1>1, <2>1, <2>2, AskAsked
<1>4. CASE dialog.what \in {"rename", "delete"}
  <2>1. Ask(Request([what |-> dialog.what, id |-> plSelectedID, named |-> dialog.id]))
    BY <1>4 DEF Confirm
  <2>2. plSelectedID \in {dialog.id, None} BY <1>2, <1>4 DEF Confirm, DialogHolds
  <2> QED BY <1>3, <1>4, <2>1, <2>2
<1>5. CASE dialog.what = "export"
  <2>1. Ask(Request([what |-> "export", id |-> dialog.id, named |-> dialog.id]))
    BY <1>5 DEF Confirm
  <2> QED BY <1>3, <2>1
<1>6. CASE dialog.what = "import"
  <2> DEFINE r == Request([what |-> "import"])
  <2>1. Asked(r, drafts') BY ChangesAsked
  <2>2. Ask(r) BY <1>6 DEF Confirm
  <2> HIDE DEF r
  <2> QED BY <1>1, <2>1, <2>2, AskAsked
<1>7. CASE dialog.what \in {"list", "folder"}
  <2>1. Asked(Create(dialog.what, None), drafts') BY <1>7, DialogsAsked
  <2>2. Ask(Create(dialog.what, None)) BY <1>7 DEF Confirm
  <2> QED BY <1>1, <2>1, <2>2, AskAsked
<1> QED BY <1>4, <1>5, <1>6, <1>7 DEF Confirm

\* The editor asks for the tags when it opens, and sends what it shows.
LEMMA EditorPending ==
    ASSUME PagesInv, DraftsStay, UseSmartEditor
    PROVE  Pending'
<1>1. AllAsked(requests, drafts') BY StaysAsked DEF PagesInv
<1>2. CASE UNCHANGED requests BY <1>1, <1>2 DEF Pending
<1>3. ASSUME NEW n \in {None, plSelectedID}, OpenSmartEditor(n) PROVE Pending'
  <2> DEFINE r == Request([what |-> "tags", id |-> n])
  <2>1. n \in Ids \cup {None} BY DEF PagesInv, Paged, SelectionAgrees
  <2>2. Asked(r, drafts') BY <2>1, DialogsAsked
  <2>3. Ask(r) BY <1>3 DEF OpenSmartEditor, Asks
  <2> HIDE DEF r
  <2> QED BY <1>1, <2>2, <2>3, AskAsked
<1>4. ASSUME NEW renamed, SaveSmartEditor(renamed) PROVE Pending'
  <2> DEFINE i == smartEditorState
  <2>1. Drafted /\ i # 0 BY <1>4 DEF PagesInv, SaveSmartEditor, InEditor
  <2>2. i \in DOMAIN drafts /\ drafts[i] \in Draft BY <2>1, CurrentIsDraft DEF Current
  <2>3. /\ RulesOf(i) \in Rules
        /\ drafts[i].id = None => RulesOf(i).of = New
        /\ drafts[i].id # None =>
               /\ Asked(PutRules(i), drafts')
               /\ Asked(Request([what |-> "name", id |-> drafts[i].id, draft |-> i]), drafts')
    BY <2>2, SavesAsked
  <2>4. CASE drafts[i].id = None
    <3>1. Asked(Create("smart", RulesOf(i)), drafts') BY <2>3, <2>4, DialogsAsked
    <3>2. Ask(Create("smart", RulesOf(i))) BY <1>4, <2>4 DEF SaveSmartEditor, Current
    <3> QED BY <1>1, <3>1, <3>2, AskAsked
  <2>5. CASE drafts[i].id # None /\ renamed
    <3> DEFINE r == Request([what |-> "name", id |-> drafts[i].id, draft |-> i])
    <3>1. Asked(r, drafts') BY <2>3, <2>5
    <3>2. Ask(r) BY <1>4, <2>5 DEF SaveSmartEditor, Current
    <3> HIDE DEF r
    <3> QED BY <1>1, <3>1, <3>2, AskAsked
  <2>6. CASE drafts[i].id # None /\ ~renamed
    <3>1. Asked(PutRules(i), drafts') BY <2>3, <2>6
    <3>2. Ask(PutRules(i)) BY <1>4, <2>6 DEF SaveSmartEditor, Current
    <3> QED BY <1>1, <3>1, <3>2, AskAsked
  <2> QED BY <2>4, <2>5, <2>6
<1>5. ASSUME NEW v, EditRules(v) \/ TypeJson(v) PROVE UNCHANGED requests
  BY <1>5 DEF EditRules, TypeJson, EditorOnly
<1>6. ASSUME SwitchSmartView \/ CancelSmartEditor PROVE UNCHANGED requests
  BY <1>6 DEF SwitchSmartView, CancelSmartEditor, EditorOnly
<1> QED BY <1>2, <1>3, <1>4, <1>5, <1>6 DEF UseSmartEditor

\* What the server answers, or the network loses.
LEMMA ServePending ==
    ASSUME PagesInv, DraftsStay, NEW s \in DOMAIN requests, Serve(s) \/ Lose(s)
    PROVE  Pending'
<1> DEFINE r == requests[s]
<1>1. AllAsked(requests, drafts') BY StaysAsked DEF PagesInv
<1>2. IsTree(tree) /\ IsTable(tree) /\ \A n \in DOMAIN tree : Distinct(tree[n].tracks)
  BY DEF PagesInv, Served, IsTree, NoTrackTwice
<1>3. CASE Refused(s) BY <1>1, <1>3, RefusedAsked
<1>4. ASSUME NEW a, Answered(s, a), r.what \notin {"list", "tracks", "banks"} PROVE Pending'
  BY <1>1, <1>4, AnsweredAsked
<1>5. CASE ServeRead(s)
  <2>1. CASE r.what = "list" /\ Answered(s, Listed(tree))
    <3>1. IsListing(Listed(tree)) BY <1>2, ListedIsListing
    <3> QED BY <1>1, <2>1, <3>1, AnsweredAsked
  <2>2. CASE r.what = "tracks" /\ Answered(s, TracksFor(tree, r.id))
    <3>1. IsRows(TracksFor(tree, r.id), Tracks) BY <1>2, RowsAreOnce DEF IsRows
    <3> QED BY <1>1, <2>2, <3>1, AnsweredAsked
  <2>3. CASE Finish(s) BY <1>1, <2>3, FinishAsked
  <2>4. CASE r.what = "banks" /\ Answered(s, banks)
    <3>1. banks \subseteq Banks BY DEF PagesInv, Served
    <3> QED BY <1>1, <2>4, <3>1, AnsweredAsked
  <2>5. CASE r.what = "bank" /\ Answered(s, <<>>) BY <1>4, <2>5
  <2> QED BY <1>3, <1>5, <2>1, <2>2, <2>3, <2>4, <2>5 DEF ServeRead
<1>6. ASSUME NEW allowed, NEW changed, NEW a, Applies(s, allowed, changed, a),
             r.what \notin {"list", "tracks", "banks"}
      PROVE  Pending'
  BY <1>3, <1>4, <1>6 DEF Applies
<1>7. ASSUME NEW kind, NEW parent, NEW rules, Creates(s, kind, parent, rules),
             r.what \notin {"list", "tracks", "banks"}
      PROVE  Pending'
  BY <1>3, <1>4, <1>7 DEF Creates
<1>8. CASE ServeChange(s) BY <1>6, <1>7, <1>8 DEF ServeChange
<1> QED BY <1>3, <1>5, <1>8 DEF Serve, Lose
\* What the handlers of answers send next.
LEMMA AnswerPending ==
    ASSUME PagesInv, DraftsStay, NEW s \in DOMAIN requests, Answer(s)
    PROVE  Pending'
<1> DEFINE r == requests[s]
<1>1. AllAsked(requests, drafts') BY StaysAsked DEF PagesInv
<1>2. Asked(r, drafts) BY DEF PagesInv, Pending, AllAsked
<1>3. CASE Finish(s) BY <1>1, <1>3, FinishAsked
<1>4. ASSUME NEW k, NEW x, Follow(s, ListGet(k, x)) PROVE Pending'
  <2>1. Asked(ListGet(k, x), drafts') BY GetsAsked
  <2> QED BY <1>1, <1>4, <2>1, FollowAsked
<1>5. ASSUME NEW n, NEW then \in {"show", "banks", "list"}, NEW x, Follow(s, TracksGet(n, then, x))
      PROVE  Pending'
  <2>1. Asked(TracksGet(n, then, x), drafts') BY GetsAsked
  <2> QED BY <1>1, <1>5, <2>1, FollowAsked
<1>6. ASSUME NEW x, Follow(s, BanksGet(x)) PROVE Pending'
  <2>1. Asked(BanksGet(x), drafts') BY GetsAsked
  <2> QED BY <1>1, <1>6, <2>1, FollowAsked
<1>7. CASE GotList(s)
  <2> DEFINE kept == r.keep /\ selectedSource \in Ids
  <2>1. CASE Follow(s, BanksGet(r.after)) BY <1>6, <2>1
  <2>2. CASE Follow(s, TracksGet(selectedSource, "banks", r.after)) BY <1>5, <2>2
  <2>3. Follow(s, BanksGet(r.after)) \/ Follow(s, TracksGet(selectedSource, "banks", r.after))
    <3>1. CASE kept /\ selectedSource \notin DOMAIN r.answer BY <1>7, <3>1 DEF GotList
    <3>2. CASE ~(kept /\ selectedSource \notin DOMAIN r.answer)
               /\ kept /\ ~IsFolder(r.answer, selectedSource)
      BY <1>7, <3>2 DEF GotList
    <3>3. CASE ~(kept /\ selectedSource \notin DOMAIN r.answer)
               /\ ~(kept /\ ~IsFolder(r.answer, selectedSource))
      BY <1>7, <3>3 DEF GotList
    <3> QED BY <3>1, <3>2, <3>3
  <2> QED BY <2>1, <2>2, <2>3
<1>8. CASE GotTracks(s)
  <2>1. r.then \in {"show", "banks", "list"} BY <1>2, <1>8 DEF GotTracks, Has, Asked
  <2>2. CASE r.then = "show" BY <1>3, <1>8, <2>2 DEF GotTracks
  <2>3. CASE r.then = "banks" BY <1>6, <1>8, <2>3 DEF GotTracks
  <2>4. CASE r.then = "list" BY <1>4, <1>8, <2>4 DEF GotTracks
  <2> QED BY <2>1, <2>2, <2>3, <2>4
<1>9. CASE GotBanks(s) \/ GotBank(s) \/ GotTags(s)
  BY <1>3, <1>9 DEF GotBanks, GotBank, GotTags
<1>10. CASE GotChanged(s) \/ GotDeleted(s) BY <1>4, <1>10 DEF GotChanged, GotDeleted
<1>11. CASE GotName(s)
  <2>1. r.draft \in DOMAIN drafts /\ drafts[r.draft].id \in Ids
    BY <1>2, <1>11 DEF GotName, Has, Asked
  <2>2. drafts[r.draft] \in Draft /\ drafts[r.draft].id # None
    <3>1. drafts \in Seq(Draft) BY DEF PagesInv, Drafted
    <3> QED BY <2>1, <3>1, ElementOfSeq, LenProperties, SourcesDiffer
  <2>3. Asked(PutRules(r.draft), drafts') BY <2>1, <2>2, SavesAsked
  <2>4. Follow(s, PutRules(r.draft)) BY <1>11 DEF GotName
  <2> QED BY <1>1, <2>3, <2>4, FollowAsked
<1>12. CASE GotEdited(s)
  <2>1. CASE r.by = "append" /\ r.answer BY <1>4, <1>12, <2>1 DEF GotEdited
  <2>2. CASE r.by = "append" /\ ~r.answer BY <1>3, <1>12, <2>2 DEF GotEdited
  <2>3. CASE r.by = "bulk" /\ r.mode = "add" BY <1>4, <1>12, <2>3 DEF GotEdited
  <2>4. CASE r.by # "append" /\ ~(r.by = "bulk" /\ r.mode = "add")
    BY <1>5, <1>12, <2>4 DEF GotEdited
  <2> QED BY <2>1, <2>2, <2>3, <2>4
<1>13. CASE GotPosted(s) BY <1>5, <1>13 DEF GotPosted
<1> QED BY <1>7, <1>8, <1>9, <1>10, <1>11, <1>12, <1>13 DEF Answer

\* The requests' part of the invariant.
LEMMA PendingStep == PagesInv /\ [Next]_vars => Pending'
<1> SUFFICES ASSUME PagesInv, [Next]_vars PROVE Pending' OBVIOUS
<1>1. DraftsStay BY DraftedStep
<1>2. AllAsked(requests, drafts') BY <1>1, StaysAsked DEF PagesInv
<1>3. CASE UNCHANGED requests BY <1>2, <1>3 DEF Pending
<1>4. CASE Browse
  <2>1. ASSUME NEW n, ClickNode(n) PROVE Pending'
    <3>1. Asked(TracksGet(n, "show", Nothing), drafts') BY GetsAsked
    <3>2. CASE Ask(TracksGet(n, "show", Nothing)) BY <1>2, <3>1, <3>2, AskAsked
    <3> QED BY <1>3, <2>1, <3>2 DEF ClickNode
  <2>2. ASSUME NEW b \in hcbCache, ClickBank(b) PROVE Pending'
    <3> DEFINE r == Request([what |-> "bank", bank |-> b])
    <3>1. b \in Banks BY DEF PagesInv, Paged
    <3>3. Asked(r, drafts') BY <3>1, ChangesAsked
    <3>2. Ask(r) BY <2>2 DEF ClickBank
    <3> HIDE DEF r
    <3> QED BY <1>2, <3>2, <3>3, AskAsked
  <2>3. ASSUME NEW S, CheckTracks(S) PROVE UNCHANGED requests BY <2>3 DEF CheckTracks
  <2>4. SelectCollection \/ Redraw \/ ClearChecked => UNCHANGED requests
    BY DEF SelectCollection, Redraw, ClearChecked
  <2> QED BY <1>3, <1>4, <2>1, <2>2, <2>3, <2>4 DEF Browse
<1>5. CASE Change BY <1>1, <1>5, ChangePending
<1>6. CASE UseDialog
  <2>1. CASE Confirm BY <1>1, <2>1, ConfirmPending
  <2>2. UseDialog => Confirm \/ UNCHANGED requests
    BY DEF UseDialog, AskAbout, OpenCreate, OpenExport, OpenImport, OpenAddPicker, TypeFilter, CancelDialog,
           OpenDialog
  <2> QED BY <1>3, <1>6, <2>1, <2>2
<1>7. CASE UseSmartEditor BY <1>1, <1>7, EditorPending
<1>8. CASE OtherChange BY <1>3, <1>8 DEF OtherChange
<1>9. ASSUME NEW s \in DOMAIN requests, Serve(s) \/ Lose(s) PROVE Pending'
  BY <1>1, <1>9, ServePending
<1>10. ASSUME NEW s \in DOMAIN requests, Answer(s) PROVE Pending' BY <1>1, <1>10, AnswerPending
<1>11. CASE UNCHANGED vars BY <1>3, <1>11 DEF vars
<1> QED BY <1>4, <1>5, <1>6, <1>7, <1>8, <1>9, <1>10, <1>11 DEF Next

\* The bound on events.
LEMMA EventsStep ==
    ASSUME events \in 0 .. MaxEvents, [Next]_vars
    PROVE  events' \in 0 .. MaxEvents
<1>1. MaxEvents \in Nat BY PageAssumption
<1>2. CASE Happens BY <1>1, <1>2 DEF Happens
<1>3. Happens \/ UNCHANGED events
  BY DEF Next, vars, Browse, SelectCollection, Redraw, ClickNode, ClickBank, CheckTracks,
         ClearChecked, Change, DropNode, BulkAdd, DropTrack, BulkRemove, RemoveRow, PickTrack,
         MoveRow, UseDialog, AskAbout, OpenCreate, OpenExport, OpenImport, OpenAddPicker,
         OpenDialog, TypeFilter, CancelDialog, Confirm, UseSmartEditor, OpenSmartEditor, EditRules, TypeJson,
         SwitchSmartView, CancelSmartEditor, SaveSmartEditor, EditorOnly, OtherChange, Serve, Lose,
         Answer, GotList, GotTracks, GotBanks, GotBank, GotTags, GotChanged,
         GotDeleted, GotName, GotEdited, GotPosted, Acts
<1> QED BY <1>2, <1>3

\* Every step keeps it.
LEMMA PagesStep == PagesInv /\ [Next]_vars => PagesInv'
BY ServedStep, DraftedStep, PagedStep, PendingStep, EventsStep DEF PagesInv
----------------------------------------------------------------------------
(***************************************************************************)
(* The theorems.                                                           *)
(***************************************************************************)

\* What the invariant says of the server, the page and the requests implies
\* the types.
LEMMA PagesTypes == PagesInv => TypeOK
<1> SUFFICES ASSUME PagesInv PROVE TypeOK OBVIOUS
<1>1. Served /\ Drafted /\ Paged /\ Pending BY DEF PagesInv
<1>2. DOMAIN tree \subseteq Ids /\ \A n \in DOMAIN tree : tree[n] \in Node
  BY <1>1 DEF Served, IsTree, IsTable
<1>3. \A n \in DOMAIN tree :
          /\ tree[n] \in [kind: Kinds, parent: Ids \cup {Root}, rules: Rules \cup {None},
                          tracks: {tree[n].tracks}]
          /\ Held(tree[n].tracks) \subseteq Tracks \cup {NoTrack}
  <2> SUFFICES ASSUME NEW n \in DOMAIN tree
               PROVE  /\ tree[n] \in [kind: Kinds, parent: Ids \cup {Root},
                                      rules: Rules \cup {None}, tracks: {tree[n].tracks}]
                      /\ Held(tree[n].tracks) \subseteq Tracks \cup {NoTrack}
    OBVIOUS
  <2>1. tree[n] \in Node BY <1>2
  <2>2. tree[n].tracks \in Seq(Tracks \cup {NoTrack}) BY <2>1 DEF Node
  <2>3. Held(tree[n].tracks) \subseteq Tracks \cup {NoTrack} BY <2>2, ListOf
  <2> QED BY <2>1, <2>3 DEF Node
<1>4. \A c \in {playlistsCache, sidebar} :
          DOMAIN c \subseteq Ids /\ \A n \in DOMAIN c : c[n] \in Copies
  BY <1>1 DEF Paged, IsListing
<1>5. Held(plSelectedTracks) \subseteq Tracks BY <1>1, ListOf DEF Paged, IsRows
<1>6. \A i \in DOMAIN drafts : drafts[i] \in Draft
  BY <1>1, ElementOfSeq, LenProperties DEF Drafted
<1>7. /\ nextID \in 1 .. MaxID + 1
      /\ banks \subseteq Banks /\ hcbCache \subseteq Banks
      /\ selectedSource \in {Collection} \cup Ids \cup Banks
      /\ SelectionAgrees
      /\ shown \in Table
      /\ bulkSelectedIDs \subseteq Tracks
      /\ smartEditorState \in 0 .. Len(drafts)
      /\ preview \in Values \cup {None}
      /\ DOMAIN requests \subseteq 1 .. MaxRequests
      /\ events \in 0 .. MaxEvents
  BY <1>1 DEF PagesInv, Served, Drafted, Paged, Pending, AllAsked
<1> QED BY <1>2, <1>3, <1>4, <1>5, <1>6, <1>7 DEF TypeOK

\* The invariant of the playlists page: what the server holds, what the editor
\* and the page show, and what each request under way says, whatever order the
\* answers come in and whatever the other client does.
THEOREM PagesInvariance == Spec => []PagesInv
<1> QED BY PagesInit, PagesStep, PTL DEF Spec

\* The types; and the two variables of the selection, written by different
\* handlers (tags-playlists.js, export.js, filter.js), agree.
THEOREM PagesTypeCorrect == Spec => []TypeOK
<1> QED BY PagesInvariance, PagesTypes, PTL

\* What a confirmation deletes, renames or exports is what its dialog named, or
\* nothing: deleteSelectedPlaylist and its like take plSelectedID once more
\* when the dialog is answered, and loads may have changed it meanwhile.
THEOREM ConfirmsWhatItNamed == Spec => []ActsOnWhatItNamed
<1>1. PagesInv => ActsOnWhatItNamed
  BY DEF PagesInv, Pending, AllAsked, Asked, ActsOnWhatItNamed
<1> QED BY <1>1, PagesInvariance, PTL

\* The folders stay a tree: Move (playliststore.go) refuses a folder's own
\* descendants, and Delete takes all of them, whatever the page's copy says.
THEOREM FoldersStayATree == Spec => []FoldersFormATree
<1>1. PagesInv => FoldersFormATree
  <2> SUFFICES ASSUME PagesInv, NEW n \in DOMAIN tree
               PROVE  CanHold(tree, tree[n].parent) /\ Reaches(tree, n)
    BY DEF FoldersFormATree, Reaches
  <2>1. IsTree(tree) BY DEF PagesInv, Served
  <2> QED BY <2>1, TreeReaches DEF IsTree
<1> QED BY <1>1, PagesInvariance, PTL

\* A smart playlist's rules were written by an editor opened for it, or for a
\* new one: a SAVE (smart-playlists.js) renames first, and writes the rules when
\* the answer has come, with another editor open perhaps.
THEOREM RulesAreTheirOwn == Spec => []RulesStayTheirOwn
<1>1. PagesInv => RulesStayTheirOwn BY DEF PagesInv, Served
<1> QED BY <1>1, PagesInvariance, PTL

\* The count of matching tracks that the editor shows is of the rules that SAVE
\* would write: every control of the form and of the JSON tab takes it again.
THEOREM PreviewFollowsRules == Spec => []PreviewIsOfRules
<1>1. PagesInv => PreviewIsOfRules BY DEF PagesInv, Drafted
<1> QED BY <1>1, PagesInvariance, PTL

\* No list ever holds a track twice: EditTracks (playliststore.go) adds only
\* what is missing, and a list written whole is made of rows without one of
\* them, however old these are.
THEOREM TracksStayOnce == Spec => []NoTrackTwice
<1>1. PagesInv => NoTrackTwice BY DEF PagesInv, Served
<1> QED BY <1>1, PagesInvariance, PTL
============================================================================
