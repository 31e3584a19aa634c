--------------------- MODULE AnalysisQueueOrderProofs ---------------------
(***************************************************************************)
(* That the queues, the map of jobs and the counters of the analysis queue *)
(* stay in step, and that nothing waiting in a queue is overtaken.         *)
(*                                                                         *)
(* Every step is one of two: it prepares a map of jobs, queues and counters *)
(* and hands them to dispatchLocked, or it prepares them and leaves them.  *)
(* So what holds of the prepared ones, and survives dispatchLocked, holds. *)
(***************************************************************************)
EXTENDS AnalysisQueueProofs, ListProofs

----------------------------------------------------------------------------
(***************************************************************************)
(* Queues that hold a track at most once.                                  *)
(***************************************************************************)

\* What of queue s is in queue r keeps its place: it was not overtaken.
KeepsOrder(s, r) == \A t, u \in Tracks :
    (t # u /\ Ahead(s, t, u) /\ InQueue(r, t)) => Ahead(r, t, u)

\* In such a queue a track's position is the index it is found at.
LEMMA PositionIs ==
    ASSUME NEW q, Distinct(q), NEW i \in DOMAIN q
    PROVE  Position(q, q[i]) = i
<1>1. \E k \in DOMAIN q : q[k] = q[i] OBVIOUS
<1> DEFINE k == CHOOSE k \in DOMAIN q : q[k] = q[i]
<1>2. k \in DOMAIN q /\ q[k] = q[i] BY <1>1
<1>3. k = Position(q, q[i]) BY DEF Position
<1> HIDE DEF k
<1> QED BY <1>2, <1>3 DEF Distinct

\* What keeps the order of the indices keeps the order of the tracks.
LEMMA OrderByIndex ==
    ASSUME NEW s \in Seq(Tracks), NEW r \in Seq(Tracks), Distinct(s), Distinct(r),
           NEW f \in [1..Len(r) -> Nat],
           \A i \in 1..Len(r) : f[i] \in 1..Len(s) + 1,
           \A i \in 1..Len(r) : f[i] <= Len(s) => r[i] = s[f[i]],
           \A i \in 1..Len(r) : f[i] > Len(s) => r[i] \notin Held(s),
           \A i, k \in 1..Len(r) : i < k => f[i] < f[k]
    PROVE  KeepsOrder(s, r)
<1> SUFFICES ASSUME NEW t \in Tracks, NEW u \in Tracks, t # u, Ahead(s, t, u), InQueue(r, t)
             PROVE  Ahead(r, t, u)
  BY DEF KeepsOrder
<1>1. /\ DOMAIN s = 1..Len(s) /\ DOMAIN r = 1..Len(r)
      /\ Len(s) \in Nat /\ Len(r) \in Nat
  BY LenProperties
<1>2. PICK i \in 1..Len(r) : r[i] = t BY <1>1 DEF InQueue
<1>3. t \in Held(s) BY <1>1 DEF Ahead, InQueue, Held
<1>4. f[i] \in 1..Len(s) /\ s[f[i]] = t BY <1>1, <1>2, <1>3
<1>5. SUFFICES ASSUME InQueue(r, u) PROVE Position(r, t) < Position(r, u)
  BY DEF Ahead
<1>6. PICK k \in 1..Len(r) : r[k] = u BY <1>1, <1>5 DEF InQueue
<1>7. Position(r, t) = i /\ Position(r, u) = k BY <1>1, <1>2, <1>6, PositionIs
<1>8. Position(s, t) = f[i] BY <1>1, <1>4, PositionIs
<1>9. ASSUME k < i PROVE FALSE
  <2>1. f[k] < f[i] BY <1>9
  <2>2. f[k] \in 1..Len(s) /\ s[f[k]] = u BY <1>1, <1>4, <1>6, <2>1
  <2>3. InQueue(s, u) /\ Position(s, u) = f[k] BY <1>1, <2>2, PositionIs DEF InQueue
  <2>4. f[i] < f[k] BY <1>8, <2>3 DEF Ahead
  <2> QED BY <1>4, <2>1, <2>2, <2>4
<1> QED BY <1>2, <1>6, <1>7, <1>9

\* A track appended to a queue that does not hold it.
LEMMA AppendedAtEnd ==
    ASSUME NEW q \in Seq(Tracks), Distinct(q), NEW t \in Tracks, t \notin Held(q)
    PROVE  /\ Distinct(Append(q, t))
           /\ Held(Append(q, t)) = Held(q) \cup {t}
           /\ KeepsOrder(q, Append(q, t))
<1> DEFINE r == Append(q, t)
<1>1. /\ r \in Seq(Tracks) /\ Len(r) = Len(q) + 1
      /\ \A i \in 1..Len(q) : r[i] = q[i]
      /\ r[Len(q) + 1] = t
  BY AppendProperties
<1>2. DOMAIN q = 1..Len(q) /\ DOMAIN r = 1..Len(r) /\ Len(q) \in Nat /\ Len(r) \in Nat
  BY <1>1, LenProperties
<1> HIDE DEF r
<1>3. Distinct(r)
  <2> SUFFICES ASSUME NEW i \in 1..Len(r), NEW k \in 1..Len(r), r[i] = r[k] PROVE i = k
    BY <1>2 DEF Distinct
  <2>1. \A j \in 1..Len(q) : q[j] # t BY <1>2 DEF Held
  <2> QED BY <1>1, <1>2, <2>1 DEF Distinct
<1>4. Held(r) = Held(q) \cup {t}
  <2>1. \A j \in 1..Len(r) : j \in 1..Len(q) \/ j = Len(q) + 1 BY <1>1, <1>2
  <2>2. 1..Len(q) \subseteq 1..Len(r) /\ Len(q) + 1 \in 1..Len(r) BY <1>1, <1>2
  <2> QED BY <1>1, <1>2, <2>1, <2>2 DEF Held
<1>5. KeepsOrder(q, r)
  <2> DEFINE f == [i \in 1..Len(r) |-> i]
  <2>1. f \in [1..Len(r) -> Nat] BY <1>2
  <2>2. \A i \in 1..Len(r) : f[i] = i OBVIOUS
  <2> HIDE DEF f
  <2>3. \A i \in 1..Len(r) : f[i] \in 1..Len(q) + 1 BY <1>1, <1>2, <2>2
  <2>4. \A i \in 1..Len(r) : f[i] <= Len(q) => r[i] = q[f[i]] BY <1>1, <1>2, <2>2
  <2>5. \A i \in 1..Len(r) : f[i] > Len(q) => r[i] \notin Held(q) BY <1>1, <1>2, <2>2
  <2>6. \A i, k \in 1..Len(r) : i < k => f[i] < f[k] BY <2>2
  <2> QED BY <1>1, <1>3, <2>1, <2>3, <2>4, <2>5, <2>6, OrderByIndex
<1> QED BY <1>3, <1>4, <1>5 DEF r

\* A track taken out of a queue.
LEMMA TakenOut ==
    ASSUME NEW q \in Seq(Tracks), Distinct(q), NEW t \in Tracks
    PROVE  /\ Distinct(Without(q, t))
           /\ Held(Without(q, t)) = Held(q) \ {t}
           /\ KeepsOrder(q, Without(q, t))
<1>1. DOMAIN q = 1..Len(q) /\ Len(q) \in Nat BY LenProperties
<1>2. CASE ~\E i \in DOMAIN q : q[i] = t
  <2>1. Without(q, t) = q BY <1>2 DEF Without
  <2>2. Held(q) \ {t} = Held(q) BY <1>2 DEF Held
  <2>3. KeepsOrder(q, q) BY DEF KeepsOrder
  <2> QED BY <2>1, <2>2, <2>3
<1>3. CASE \E i \in DOMAIN q : q[i] = t
  <2>1. PICK i \in 1..Len(q) : q[i] = t BY <1>1, <1>3
  <2> DEFINE r == Without(q, t)
  <2>2. /\ r \in Seq(Tracks) /\ Len(r) = Len(q) - 1
        /\ \A k \in 1..Len(r) : r[k] = IF k < i THEN q[k] ELSE q[k + 1]
    <3>1. i \in DOMAIN q /\ q[i] = t BY <1>1, <2>1
    <3>2. r \in Seq(Tracks) /\ ClosesUp(q, i, r) BY <3>1, WithoutIs
    <3> QED BY <3>2 DEF ClosesUp
  <2>3. Distinct(r) /\ Held(r) = Held(q) \ {t} BY WithoutHolds
  <2> HIDE DEF r
  <2>4. DOMAIN r = 1..Len(r) /\ Len(r) \in Nat BY <2>2, LenProperties
  <2> DEFINE f == [k \in 1..Len(r) |-> IF k < i THEN k ELSE k + 1]
  <2>5. /\ f \in [1..Len(r) -> Nat]
        /\ \A k \in 1..Len(r) : f[k] = IF k < i THEN k ELSE k + 1
    BY <1>1, <2>1, <2>2, <2>4
  <2> HIDE DEF f
  <2>6. \A k \in 1..Len(r) : f[k] \in 1..Len(q) /\ r[k] = q[f[k]]
    BY <1>1, <2>1, <2>2, <2>4, <2>5
  <2>7. \A k, l \in 1..Len(r) : k < l => f[k] < f[l] BY <2>1, <2>4, <2>5
  <2>8. KeepsOrder(q, r)
    <3>1. \A k \in 1..Len(r) : f[k] \in 1..Len(q) + 1 /\ ~(f[k] > Len(q))
      BY <1>1, <2>6
    <3> QED BY <2>2, <2>3, <2>5, <2>6, <2>7, <3>1, OrderByIndex
  <2> QED BY <2>3, <2>8 DEF r
<1> QED BY <1>2, <1>3

\* The queue the loop of dispatchLocked leaves when it has taken n tracks.
LEMMA TakenFromFront ==
    ASSUME NEW q \in Seq(Tracks), Distinct(q), NEW n \in 0..Len(q)
    PROVE  LET r == SubSeq(q, n + 1, Len(q))
               taken == {q[i] : i \in 1..n}
           IN  /\ Distinct(r)
               /\ Held(r) = Held(q) \ taken
               /\ KeepsOrder(q, r)
               /\ \A t \in Held(r), u \in taken : ~Ahead(q, t, u)
               /\ IsFiniteSet(taken) /\ Cardinality(taken) = n
<1> DEFINE r == SubSeq(q, n + 1, Len(q))
           taken == {q[i] : i \in 1..n}
<1>1. DOMAIN q = 1..Len(q) /\ Len(q) \in Nat /\ n \in Nat /\ n <= Len(q)
  BY LenProperties
<1>2. \A k \in 1..Len(q) : q[k] \in Tracks BY ElementOfSeq
<1>3. /\ n + 1 \in Int /\ Len(q) \in Int
      /\ \A k \in n + 1 .. Len(q) : q[k] \in Tracks
  BY <1>1, <1>2
<1>4. /\ r \in Seq(Tracks)
      /\ Len(r) = IF n + 1 <= Len(q) THEN Len(q) - (n + 1) + 1 ELSE 0
      /\ \A k \in 1 .. Len(q) - (n + 1) + 1 : r[k] = q[(n + 1) + k - 1]
  BY <1>3, SubSeqProperties
<1> HIDE DEF r
<1>5. /\ Len(r) = Len(q) - n /\ Len(r) \in Nat /\ DOMAIN r = 1..Len(r)
      /\ \A k \in 1..Len(r) : n + k \in 1..Len(q) /\ r[k] = q[n + k]
  <2>1. Len(r) = Len(q) - n /\ Len(q) - (n + 1) + 1 = Len(q) - n BY <1>1, <1>4
  <2>2. DOMAIN r = 1..Len(r) /\ Len(r) \in Nat BY <1>4, LenProperties
  <2>3. ASSUME NEW k \in 1..Len(r) PROVE n + k \in 1..Len(q) /\ r[k] = q[n + k]
    <3>1. (n + 1) + k - 1 = n + k /\ n + k \in 1..Len(q) BY <1>1, <2>1, <2>2
    <3> QED BY <1>4, <2>1, <3>1
  <2> QED BY <2>1, <2>2, <2>3
<1>6. Distinct(r)
  <2> SUFFICES ASSUME NEW k \in 1..Len(r), NEW l \in 1..Len(r), r[k] = r[l] PROVE k = l
    BY <1>5 DEF Distinct
  <2>1. n + k = n + l BY <1>1, <1>5 DEF Distinct
  <2> QED BY <1>1, <1>5, <2>1
<1>7. Held(r) = Held(q) \ taken
  <2>1. ASSUME NEW k \in 1..Len(r) PROVE r[k] \in Held(q) \ taken
    <3>1. r[k] = q[n + k] /\ n + k \in 1..Len(q) BY <1>5
    <3>2. \A i \in 1..n : q[i] # r[k] BY <1>1, <1>5, <3>1 DEF Distinct
    <3> QED BY <1>1, <3>1, <3>2 DEF Held
  <2>2. ASSUME NEW i \in 1..Len(q), q[i] \notin taken PROVE \E k \in 1..Len(r) : r[k] = q[i]
    <3>1. i > n BY <1>1, <2>2
    <3>2. i - n \in 1..Len(r) /\ n + (i - n) = i BY <1>1, <1>5, <3>1
    <3> QED BY <1>5, <3>2
  <2> HIDE DEF taken
  <2> QED BY <1>1, <1>5, <2>1, <2>2 DEF Held
<1>8. KeepsOrder(q, r)
  <2> DEFINE f == [k \in 1..Len(r) |-> n + k]
  <2>1. f \in [1..Len(r) -> Nat] /\ \A k \in 1..Len(r) : f[k] = n + k BY <1>1, <1>5
  <2> HIDE DEF f
  <2>2. \A k \in 1..Len(r) : f[k] \in 1..Len(q) + 1 /\ ~(f[k] > Len(q)) /\ r[k] = q[f[k]]
    BY <1>1, <1>5, <2>1
  <2>3. \A k, l \in 1..Len(r) : k < l => f[k] < f[l] BY <1>1, <1>5, <2>1
  <2> QED BY <1>4, <1>6, <2>1, <2>2, <2>3, OrderByIndex
<1>9. ASSUME NEW t \in Held(r), NEW u \in taken, Ahead(q, t, u) PROVE FALSE
  <2>1. PICK k \in 1..Len(r) : r[k] = t BY <1>5 DEF Held
  <2>2. PICK i \in 1..n : q[i] = u OBVIOUS
  <2>3. i \in 1..Len(q) /\ n + k \in 1..Len(q) /\ q[n + k] = t /\ i <= n /\ n < n + k
    BY <1>1, <1>5, <2>1, <2>2
  <2>4. Position(q, u) = i /\ Position(q, t) = n + k BY <1>1, <2>2, <2>3, PositionIs
  <2>5. InQueue(q, u) BY <1>1, <2>2, <2>3 DEF InQueue
  <2> QED BY <1>1, <1>9, <2>3, <2>4, <2>5 DEF Ahead
<1>10. IsFiniteSet(taken) /\ Cardinality(taken) = n
  <2> DEFINE g == [i \in 1..n |-> q[i]]
  <2>1. g \in [1..n -> taken] OBVIOUS
  <2>2. \A i, k \in 1..n : g[i] = g[k] => i = k BY <1>1 DEF Distinct
  <2>3. \A t \in taken : \E i \in 1..n : g[i] = t OBVIOUS
  <2> HIDE DEF g, taken
  <2>4. g \in Bijection(1..n, taken)
    BY <2>1, <2>2, <2>3 DEF Bijection, Injection, Surjection, IsInjective
  <2>5. ExistsBijection(1..n, taken) BY <2>4 DEF ExistsBijection
  <2> QED BY <1>1, <2>5, FS_NatBijection, FS_CountingElements
<1> QED BY <1>6, <1>7, <1>8, <1>9, <1>10 DEF r

----------------------------------------------------------------------------
(***************************************************************************)
(* dispatchLocked on queues and counters that agree with the jobs.         *)
(***************************************************************************)

QueuedAs(j, p)  == {t \in Tracks : j[t].phase = "queued" /\ j[t].prio = p}
StartedAs(j, p) == {t \in Tracks : j[t].phase \in RunPhases /\ j[t].slot = p}

\* The queues hold exactly the queued jobs, each once; the counters count the
\* started ones.
Matched(j, q) == \A p \in Priority : Distinct(q[p]) /\ Held(q[p]) = QueuedAs(j, p)
Counted(j, r) == \A p \in Priority : r[p] = Cardinality(StartedAs(j, p))

\* What a handler has made of the jobs, the queues and the counters when it
\* calls dispatchLocked, or instead of calling it: they agree, nothing has been
\* overtaken and no job started.
Prepared(j, q, r) ==
    /\ j \in [Tracks -> Job] /\ q \in [Priority -> Seq(Tracks)]
    /\ r \in [Priority -> Int] /\ Limited(r)
    /\ Matched(j, q) /\ Counted(j, r)
    /\ \A p \in Priority : KeepsOrder(waiting[p], q[p])
    /\ \A t \in Tracks : j[t].phase \in RunPhases => IsRunning(t)

\* What the loop takes from the front of the queues.
Taken(q, n, p) == {q[p][i] : i \in 1..n[p]}

\* Background work is taken only when no Foreground job is left waiting.
LEMMA ForegroundFirst ==
    ASSUME NEW q \in [Priority -> Seq(Tracks)], NEW r \in [Priority -> Int],
           Limited(r), Take(q, r)[Background] > 0
    PROVE  Take(q, r)[Foreground] = Len(q[Foreground])
<1> DEFINE lB == Len(q[Background])
           lF == Len(q[Foreground])
           rB == r[Background]
           rF == r[Foreground]
           nF == Least(lF, maxRunning - (rB + rF))
           nB == Least(lB, Least(maxRunning - (rB + rF) - nF, maxBackground - rB))
<1>1. Background \in Priority /\ Foreground \in Priority /\ Background # Foreground
  BY DEF Priority, Background, Foreground
<1>2. lB \in Nat /\ lF \in Nat /\ rB \in Int /\ rF \in Int BY <1>1, LenProperties
<1>3. maxRunning \in Nat /\ maxBackground \in Nat BY SlotsAssumption
<1>4. Take(q, r)[Foreground] = nF /\ Take(q, r)[Background] = nB
  BY <1>1 DEF Take, TakeForeground, TakeBackground
<1>5. nB > 0 BY <1>4
<1> HIDE DEF lB, lF, rB, rF
<1>6. nF = lF BY <1>2, <1>3, <1>5 DEF Least
<1> QED BY <1>4, <1>6 DEF lF

\* dispatchLocked starts exactly what it takes from the queues, each job under
\* its own priority.
LEMMA DispatchStarts ==
    ASSUME NEW j \in [Tracks -> Job], NEW q \in [Priority -> Seq(Tracks)],
           NEW r \in [Priority -> Int], Limited(r), Matched(j, q),
           DispatchLocked(j, q, r), NEW n, n = Take(q, r)
    PROVE  \A p \in Priority :
              /\ n[p] \in 0..Len(q[p])
              /\ Taken(q, n, p) \subseteq QueuedAs(j, p)
              /\ QueuedAs(job', p) = QueuedAs(j, p) \ Taken(q, n, p)
              /\ StartedAs(job', p) = StartedAs(j, p) \cup Taken(q, n, p)
<1> DEFINE started == UNION {Taken(q, n, p) : p \in Priority}
<1>1. Background \in Priority /\ Foreground \in Priority
  BY DEF Priority, Background, Foreground
<1>2. \A p \in Priority : n[p] \in 0..Len(q[p]) BY TakeFits DEF Priority
<1>3. job' = [t \in Tracks |-> IF t \in started THEN Started(j[t]) ELSE j[t]]
  BY DEF DispatchLocked, Taken
<1>4. ASSUME NEW p \in Priority PROVE Taken(q, n, p) \subseteq QueuedAs(j, p)
  <2>1. q[p] \in Seq(Tracks) OBVIOUS
  <2>2. DOMAIN q[p] = 1..Len(q[p]) /\ Len(q[p]) \in Nat BY <2>1, LenProperties
  <2>3. 1..n[p] \subseteq 1..Len(q[p]) BY <1>2, <2>2
  <2>4. Taken(q, n, p) \subseteq Held(q[p]) BY <2>2, <2>3 DEF Taken, Held
  <2> QED BY <2>4 DEF Matched
<1>5. ASSUME NEW t \in Tracks, NEW p \in Priority, t \in Taken(q, n, p)
      PROVE  /\ job'[t].phase = "look" /\ job'[t].slot = p
             /\ j[t].phase = "queued" /\ j[t].prio = p
  <2>1. j[t].phase = "queued" /\ j[t].prio = p BY <1>4, <1>5 DEF QueuedAs
  <2>2. job'[t] = Started(j[t]) BY <1>3, <1>5
  <2>3. j[t] \in Job OBVIOUS
  <2>4. Started(j[t]).phase = "look" /\ Started(j[t]).slot = j[t].prio
    BY <2>3 DEF Started, Job
  <2> QED BY <2>1, <2>2, <2>4
<1>6. \A t \in Tracks : t \notin started => job'[t] = j[t] BY <1>3
<1>7. \A t \in started : \E p \in Priority : t \in Taken(q, n, p) OBVIOUS
<1> HIDE DEF started
<1>8. ASSUME NEW p \in Priority
      PROVE  /\ QueuedAs(job', p) = QueuedAs(j, p) \ Taken(q, n, p)
             /\ StartedAs(job', p) = StartedAs(j, p) \cup Taken(q, n, p)
  <2>1. "look" \in RunPhases /\ "queued" \notin RunPhases BY DEF RunPhases
  <2>2. \A t \in Tracks : t \in Taken(q, n, p) => t \in started BY DEF started
  <2>3. ASSUME NEW t \in Tracks
        PROVE  t \in QueuedAs(job', p) <=> t \in QueuedAs(j, p) \ Taken(q, n, p)
    <3>1. CASE t \in started
      <4>1. PICK o \in Priority : t \in Taken(q, n, o) BY <1>7, <3>1
      <4>2. job'[t].phase = "look" /\ j[t].phase = "queued" /\ j[t].prio = o BY <1>5, <4>1
      <4> QED BY <4>1, <4>2 DEF QueuedAs
    <3>2. CASE t \notin started BY <1>6, <2>2, <3>2 DEF QueuedAs
    <3> QED BY <3>1, <3>2
  <2>4. \A t \in Tracks : t \in StartedAs(job', p)
                            <=> t \in StartedAs(j, p) \cup Taken(q, n, p)
    BY <1>5, <1>6, <1>7, <2>1, <2>2, SMTT(20) DEF StartedAs
  <2>5. Taken(q, n, p) \subseteq Tracks BY <1>4 DEF QueuedAs
  <2> QED BY <2>3, <2>4, <2>5 DEF QueuedAs, StartedAs
<1> QED BY <1>2, <1>4, <1>8

\* What NoOvertaking says of a step.
NobodyOvertakes ==
    /\ \A p \in Priority : \A t, u \in Tracks :
          (t # u /\ Ahead(waiting[p], t, u) /\ InQueue(waiting'[p], t))
          => /\ StartedNow(u) => job'[u].slot # p
             /\ Ahead(waiting'[p], t, u)
    /\ (\E t \in Tracks : StartedNow(t) /\ job'[t].slot = Background)
          => waiting'[Foreground] = <<>>

InStep == Matched(job, waiting) /\ Counted(job, running)

\* The order is kept through a queue in between, which still holds what the
\* last one holds.
LEMMA OrderThrough ==
    ASSUME NEW s, NEW q, NEW r, KeepsOrder(s, q), KeepsOrder(q, r), Held(r) \subseteq Held(q)
    PROVE  KeepsOrder(s, r)
<1> SUFFICES ASSUME NEW t \in Tracks, NEW u \in Tracks, t # u, Ahead(s, t, u), InQueue(r, t)
             PROVE  Ahead(r, t, u)
  BY DEF KeepsOrder
<1>1. InQueue(q, t) BY DEF InQueue, Held
<1>2. Ahead(q, t, u) BY <1>1 DEF KeepsOrder
<1> QED BY <1>2 DEF KeepsOrder

\* A handler that leaves what it prepared has started nothing.
LEMMA LeftAsPrepared ==
    ASSUME NEW j, NEW q, NEW r, Prepared(j, q, r), job' = j, waiting' = q, running' = r
    PROVE  InStep' /\ NobodyOvertakes
<1>1. InStep' BY DEF Prepared, InStep
<1>2. \A t \in Tracks : ~StartedNow(t) BY DEF Prepared, StartedNow, IsRunning
<1>3. \A p \in Priority : KeepsOrder(waiting[p], waiting'[p]) BY DEF Prepared
<1> QED BY <1>1, <1>2, <1>3 DEF NobodyOvertakes, KeepsOrder

\* dispatchLocked keeps queues, jobs and counters in step, and starts the head
\* of each queue only.
LEMMA DispatchKeepsStep ==
    ASSUME NEW j, NEW q, NEW r, Prepared(j, q, r), DispatchLocked(j, q, r)
    PROVE  InStep' /\ NobodyOvertakes
<1> DEFINE n == Take(q, r)
<1>1. /\ j \in [Tracks -> Job] /\ q \in [Priority -> Seq(Tracks)]
      /\ r \in [Priority -> Int] /\ Limited(r)
      /\ Matched(j, q) /\ Counted(j, r)
  BY DEF Prepared
<1>2. Background \in Priority /\ Foreground \in Priority
  BY DEF Priority, Background, Foreground
<1>n. n = Take(q, r) OBVIOUS
<1> HIDE DEF n
<1>3. \A p \in Priority :
         /\ n[p] \in 0..Len(q[p])
         /\ waiting'[p] = SubSeq(q[p], n[p] + 1, Len(q[p]))
         /\ running'[p] = r[p] + n[p]
         /\ Taken(q, n, p) \subseteq QueuedAs(j, p)
         /\ QueuedAs(job', p) = QueuedAs(j, p) \ Taken(q, n, p)
         /\ StartedAs(job', p) = StartedAs(j, p) \cup Taken(q, n, p)
  <2>1. /\ waiting' = [p \in Priority |-> SubSeq(q[p], n[p] + 1, Len(q[p]))]
        /\ running' = [p \in Priority |-> r[p] + n[p]]
    BY <1>n DEF DispatchLocked
  <2>2. \A p \in Priority :
           /\ n[p] \in 0..Len(q[p])
           /\ Taken(q, n, p) \subseteq QueuedAs(j, p)
           /\ QueuedAs(job', p) = QueuedAs(j, p) \ Taken(q, n, p)
           /\ StartedAs(job', p) = StartedAs(j, p) \cup Taken(q, n, p)
    <3>1. j \in [Tracks -> Job] BY <1>1
    <3>2. q \in [Priority -> Seq(Tracks)] BY <1>1
    <3>3. r \in [Priority -> Int] BY <1>1
    <3>4. Limited(r) BY <1>1
    <3>5. Matched(j, q) BY <1>1
    <3>6. DispatchLocked(j, q, r) OBVIOUS
    <3> QED BY ONLY <1>n, <3>1, <3>2, <3>3, <3>4, <3>5, <3>6, DispatchStarts, ZenonT(40)
  <2> QED BY <2>1, <2>2
<1>4. n[Background] > 0 => n[Foreground] = Len(q[Foreground])
  BY <1>n, <1>1, ForegroundFirst
<1>5. ASSUME NEW p \in Priority
      PROVE  /\ Distinct(waiting'[p])
             /\ Held(waiting'[p]) = Held(q[p]) \ Taken(q, n, p)
             /\ KeepsOrder(q[p], waiting'[p])
             /\ \A t \in Held(waiting'[p]), u \in Taken(q, n, p) : ~Ahead(q[p], t, u)
             /\ IsFiniteSet(Taken(q, n, p)) /\ Cardinality(Taken(q, n, p)) = n[p]
  <2>1. q[p] \in Seq(Tracks) /\ Distinct(q[p]) /\ n[p] \in 0..Len(q[p])
    BY <1>1, <1>3 DEF Matched
  <2>2. waiting'[p] = SubSeq(q[p], n[p] + 1, Len(q[p])) BY <1>3
  <2>3. Taken(q, n, p) = {q[p][i] : i \in 1..n[p]} BY DEF Taken
  <2> QED BY <2>1, <2>2, <2>3, TakenFromFront
<1>6. Matched(job', waiting')
  BY <1>1, <1>3, <1>5 DEF Matched
<1>7. Counted(job', running')
  <2> SUFFICES ASSUME NEW p \in Priority
               PROVE  running'[p] = Cardinality(StartedAs(job', p))
    BY DEF Counted
  <2>1. StartedAs(j, p) \in SUBSET Tracks BY DEF StartedAs
  <2>2. IsFiniteSet(StartedAs(j, p)) BY <2>1, FS_Subset, TracksAssumption
  <2>3. StartedAs(j, p) \cap Taken(q, n, p) = {}
    BY <1>3 DEF QueuedAs, StartedAs, RunPhases
  <2>4. Cardinality(StartedAs(j, p) \cup Taken(q, n, p))
           = Cardinality(StartedAs(j, p)) + Cardinality(Taken(q, n, p))
             - Cardinality(StartedAs(j, p) \cap Taken(q, n, p))
    BY <1>5, <2>2, FS_Union
  <2>5. Cardinality(StartedAs(j, p)) \in Nat BY <2>2, FS_CardinalityType
  <2>6. Cardinality(Taken(q, n, p)) = n[p] BY <1>5
  <2>7. n[p] \in Int BY <1>3
  <2>8. Cardinality(StartedAs(j, p) \cup Taken(q, n, p))
           = Cardinality(StartedAs(j, p)) + n[p]
    BY <2>3, <2>4, <2>5, <2>6, <2>7, FS_EmptySet
  <2>9. running'[p] = r[p] + n[p] /\ r[p] = Cardinality(StartedAs(j, p))
    BY <1>1, <1>3 DEF Counted
  <2>10. StartedAs(job', p) = StartedAs(j, p) \cup Taken(q, n, p) BY <1>3
  <2> QED BY <2>8, <2>9, <2>10
<1>8. ASSUME NEW p \in Priority PROVE KeepsOrder(waiting[p], waiting'[p])
  BY <1>5, OrderThrough DEF Prepared
<1>9. ASSUME NEW u \in Tracks, StartedNow(u), NEW p \in Priority, job'[u].slot = p
      PROVE  u \in Taken(q, n, p)
  <2>1. u \in StartedAs(job', p) BY <1>9 DEF StartedNow, IsRunning, StartedAs
  <2>2. u \notin StartedAs(j, p) BY <1>9 DEF StartedNow, Prepared, StartedAs
  <2> QED BY <1>3, <2>1, <2>2
<1>10. ASSUME NEW p \in Priority, NEW t \in Tracks, NEW u \in Tracks, t # u,
              Ahead(waiting[p], t, u), InQueue(waiting'[p], t)
       PROVE  /\ StartedNow(u) => job'[u].slot # p
              /\ Ahead(waiting'[p], t, u)
  <2>1. Ahead(waiting'[p], t, u) BY <1>8, <1>10 DEF KeepsOrder
  <2>2. t \in Held(waiting'[p]) BY <1>10 DEF Held, InQueue
  <2>3. InQueue(q[p], t)
    <3>1. t \in Held(q[p]) BY <1>5, <2>2
    <3> QED BY <3>1 DEF Held, InQueue
  <2>4. Ahead(q[p], t, u) BY <1>10, <2>3 DEF Prepared, KeepsOrder
  <2>5. u \notin Taken(q, n, p) BY <1>5, <2>2, <2>4
  <2> QED BY <1>9, <2>1, <2>5
<1>11. ASSUME NEW t \in Tracks, StartedNow(t), job'[t].slot = Background
       PROVE  waiting'[Foreground] = <<>>
  <2>1. t \in Taken(q, n, Background) BY <1>2, <1>9, <1>11
  <2>2. n[Background] \in Nat BY <1>2, <1>3
  <2>3. n[Background] > 0 BY <2>1, <2>2 DEF Taken
  <2>4. n[Foreground] = Len(q[Foreground]) BY <1>4, <2>3
  <2>5. Len(q[Foreground]) \in Nat BY <1>1, <1>2, LenProperties
  <2>6. SubSeq(q[Foreground], Len(q[Foreground]) + 1, Len(q[Foreground])) = <<>>
    BY <2>5, SubSeqEmpty
  <2> QED BY <1>2, <1>3, <2>4, <2>6
<1> QED BY <1>6, <1>7, <1>10, <1>11 DEF InStep, NobodyOvertakes

----------------------------------------------------------------------------
(***************************************************************************)
(* Every handler prepares queues, jobs and counters that agree.            *)
(***************************************************************************)

\* A handler that changes one job and the queues it is in: the queues hold the
\* track where the job now says, and it neither starts nor ends.
LEMMA OneJobChanged ==
    ASSUME QInv, InStep, NEW t \in Tracks, NEW jt \in Job,
           NEW q \in [Priority -> Seq(Tracks)],
           jt.phase \in RunPhases <=> IsRunning(t),
           IsRunning(t) => jt.slot = job[t].slot,
           \A p \in Priority :
              /\ Distinct(q[p]) /\ KeepsOrder(waiting[p], q[p])
              /\ Held(q[p]) = (Held(waiting[p]) \ {t})
                                 \cup {u \in {t} : jt.phase = "queued" /\ jt.prio = p}
    PROVE  Prepared([job EXCEPT ![t] = jt], q, running)
<1> DEFINE j == [job EXCEPT ![t] = jt]
<1>1. j \in [Tracks -> Job] /\ \A u \in Tracks : j[u] = IF u = t THEN jt ELSE job[u]
  BY DEF QInv, TypeOK
<1> HIDE DEF j
<1>2. running \in [Priority -> Int] /\ Limited(running)
  BY DEF QInv, TypeOK, WithinLimits, Limited
<1>3. ASSUME NEW p \in Priority PROVE Held(q[p]) = QueuedAs(j, p)
  <2>1. Held(waiting[p]) = QueuedAs(job, p) BY DEF InStep, Matched
  <2>2. \A u \in Tracks : u \in QueuedAs(j, p)
           <=> \/ u # t /\ u \in QueuedAs(job, p)
               \/ u = t /\ jt.phase = "queued" /\ jt.prio = p
    BY <1>1 DEF QueuedAs
  <2> QED BY <2>1, <2>2 DEF QueuedAs
<1>4. ASSUME NEW p \in Priority PROVE StartedAs(j, p) = StartedAs(job, p)
  BY <1>1 DEF StartedAs, IsRunning
<1>5. \A u \in Tracks : j[u].phase \in RunPhases => IsRunning(u)
  BY <1>1 DEF IsRunning
<1> QED BY <1>1, <1>2, <1>3, <1>4, <1>5 DEF Prepared, Matched, Counted, InStep, j

\* One that changes a job and leaves the queues, for the job is queued as before.
LEMMA OneJobInPlace ==
    ASSUME QInv, InStep, NEW t \in Tracks, NEW jt \in Job,
           jt.phase \in RunPhases <=> IsRunning(t),
           IsRunning(t) => jt.slot = job[t].slot,
           jt.phase = "queued" <=> IsQueued(t),
           IsQueued(t) => jt.prio = job[t].prio
    PROVE  Prepared([job EXCEPT ![t] = jt], waiting, running)
<1>1. waiting \in [Priority -> Seq(Tracks)] BY DEF QInv, TypeOK
<1>2. ASSUME NEW p \in Priority
      PROVE  /\ Distinct(waiting[p]) /\ KeepsOrder(waiting[p], waiting[p])
             /\ Held(waiting[p]) = (Held(waiting[p]) \ {t})
                                  \cup {u \in {t} : jt.phase = "queued" /\ jt.prio = p}
  <2>1. Distinct(waiting[p]) /\ Held(waiting[p]) = QueuedAs(job, p)
    BY DEF InStep, Matched
  <2>2. KeepsOrder(waiting[p], waiting[p]) BY DEF KeepsOrder
  <2>3. t \in QueuedAs(job, p) <=> jt.phase = "queued" /\ jt.prio = p
    BY DEF QueuedAs, IsQueued
  <2> QED BY <2>1, <2>2, <2>3
<1> QED BY <1>1, <1>2, OneJobChanged

\* A request adds a track at the end of a queue, moves it there, or joins.
LEMMA RequestInStep ==
    ASSUME QInv, InStep, NEW t \in Tracks, NEW p \in Priority, NEW ws \in SUBSET Waiters,
           Enqueue(t, p, ws) \/ MoveUp(t, p, ws) \/ Join(t, p, ws)
    PROVE  InStep' /\ NobodyOvertakes
<1>1. /\ job \in [Tracks -> Job] /\ job[t] \in Job
      /\ waiting \in [Priority -> Seq(Tracks)]
  BY DEF QInv, TypeOK
<1>2. \A o \in Priority :
         /\ waiting[o] \in Seq(Tracks) /\ Distinct(waiting[o])
         /\ t \in Held(waiting[o]) <=> IsQueued(t) /\ job[t].prio = o
         /\ KeepsOrder(waiting[o], waiting[o])
  BY <1>1 DEF InStep, Matched, QueuedAs, IsQueued, KeepsOrder
<1>3. CASE Enqueue(t, p, ws)
  <2> DEFINE q == [waiting EXCEPT ![p] = Append(waiting[p], t)]
             jt == NewJob(p, ws)
  <2>1. jt \in Job /\ jt.phase = "queued" /\ jt.prio = p BY JobTypes DEF NewJob
  <2>2. ~IsQueued(t) /\ ~IsRunning(t) /\ jt.phase \notin RunPhases
    BY <1>3, <2>1 DEF Enqueue, IsQueued, IsRunning, RunPhases
  <2> HIDE DEF jt
  <2>3. Append(waiting[p], t) \in Seq(Tracks) BY <1>2, AppendProperties
  <2>4. /\ q \in [Priority -> Seq(Tracks)]
        /\ \A o \in Priority : q[o] = IF o = p THEN Append(waiting[p], t) ELSE waiting[o]
    BY <1>1, <2>3
  <2> HIDE DEF q
  <2>5. /\ Distinct(q[p]) /\ KeepsOrder(waiting[p], q[p])
        /\ Held(q[p]) = Held(waiting[p]) \cup {t}
    <3>1. /\ waiting[p] \in Seq(Tracks) /\ Distinct(waiting[p])
          /\ t \notin Held(waiting[p]) /\ q[p] = Append(waiting[p], t)
      BY <1>2, <2>2, <2>4
    <3> QED BY <3>1, AppendedAtEnd
  <2>6. \A o \in Priority :
           /\ Distinct(q[o]) /\ KeepsOrder(waiting[o], q[o])
           /\ Held(q[o]) = (Held(waiting[o]) \ {t})
                              \cup {u \in {t} : jt.phase = "queued" /\ jt.prio = o}
    BY <1>2, <2>1, <2>2, <2>4, <2>5
  <2>7. Prepared([job EXCEPT ![t] = jt], q, running)
    BY <2>1, <2>2, <2>4, <2>6, OneJobChanged
  <2>8. DispatchLocked([job EXCEPT ![t] = jt], q, running) BY <1>3 DEF Enqueue, jt, q
  <2> QED BY <2>7, <2>8, DispatchKeepsStep
<1>4. CASE MoveUp(t, p, ws)
  <2> DEFINE from == job[t].prio
             jt == [job[t] EXCEPT !.prio = p, !.waiters = @ \cup ws]
             q == [waiting EXCEPT ![from] = Without(waiting[from], t),
                                  ![p] = Append(waiting[p], t)]
  <2>1. from \in Priority /\ from # p /\ IsQueued(t)
    BY <1>1, <1>4 DEF MoveUp, Job, Priority, Background, Foreground
  <2>2. jt \in Job BY <1>1, JobTypes
  <2>3. jt.phase = "queued" /\ jt.prio = p BY <1>1, <2>1 DEF IsQueued, Job
  <2>4. ~IsRunning(t) /\ jt.phase \notin RunPhases
    BY <2>1, <2>3 DEF IsQueued, IsRunning, RunPhases
  <2>5. job[t].prio = from OBVIOUS
  <2>6. [job EXCEPT ![t].prio = p, ![t].waiters = @ \cup ws] = [job EXCEPT ![t] = jt]
    BY <1>1
  <2>7. DispatchLocked([job EXCEPT ![t] = jt], q, running) BY <1>4, <2>6 DEF MoveUp
  <2> HIDE DEF jt, from
  <2>8. /\ Append(waiting[p], t) \in Seq(Tracks)
        /\ Without(waiting[from], t) \in Seq(Tracks)
    BY <1>2, <2>1, AppendProperties, WithoutType
  <2>9. /\ q \in [Priority -> Seq(Tracks)]
        /\ \A o \in Priority : q[o] = IF o = p THEN Append(waiting[p], t)
                                      ELSE IF o = from THEN Without(waiting[from], t)
                                      ELSE waiting[o]
    BY <1>1, <2>1, <2>8
  <2> HIDE DEF q
  <2>10. /\ Distinct(q[p]) /\ KeepsOrder(waiting[p], q[p])
         /\ Held(q[p]) = Held(waiting[p]) \cup {t}
         /\ t \notin Held(waiting[p])
    <3>1. /\ waiting[p] \in Seq(Tracks) /\ Distinct(waiting[p])
          /\ t \notin Held(waiting[p]) /\ q[p] = Append(waiting[p], t)
      BY <1>2, <2>1, <2>5, <2>9
    <3> QED BY <3>1, AppendedAtEnd
  <2>11. /\ Distinct(q[from]) /\ KeepsOrder(waiting[from], q[from])
         /\ Held(q[from]) = Held(waiting[from]) \ {t}
    BY <1>2, <2>1, <2>9, TakenOut
  <2>12. \A o \in Priority : o = p \/ o = from
    BY <2>1 DEF Priority, Background, Foreground
  <2>13. \A o \in Priority :
            /\ Distinct(q[o]) /\ KeepsOrder(waiting[o], q[o])
            /\ Held(q[o]) = (Held(waiting[o]) \ {t})
                               \cup {u \in {t} : jt.phase = "queued" /\ jt.prio = o}
    BY <2>1, <2>3, <2>10, <2>11, <2>12
  <2>14. Prepared([job EXCEPT ![t] = jt], q, running)
    BY <2>2, <2>4, <2>9, <2>13, OneJobChanged
  <2> QED BY <2>7, <2>14, DispatchKeepsStep
<1>5. CASE Join(t, p, ws)
  <2> DEFINE jt == [job[t] EXCEPT !.waiters = @ \cup ws]
  <2>1. jt \in Job BY <1>1, JobTypes
  <2>2. jt.phase = job[t].phase /\ jt.prio = job[t].prio /\ jt.slot = job[t].slot
    BY <1>1 DEF Job
  <2>3. [job EXCEPT ![t].waiters = @ \cup ws] = [job EXCEPT ![t] = jt] BY <1>1
  <2>4. DispatchLocked([job EXCEPT ![t] = jt], waiting, running) BY <1>5, <2>3 DEF Join
  <2> HIDE DEF jt
  <2>5. Prepared([job EXCEPT ![t] = jt], waiting, running)
    BY <2>1, <2>2, OneJobInPlace DEF IsRunning, IsQueued
  <2> QED BY <2>4, <2>5, DispatchKeepsStep
<1> QED BY <1>3, <1>4, <1>5

\* A step that leaves jobs, queues and counters alone.
LEMMA UntouchedInStep ==
    ASSUME QInv, InStep, UNCHANGED <<job, waiting, running>>
    PROVE  InStep' /\ NobodyOvertakes
<1>1. InStep' BY DEF InStep
<1>2. NobodyOvertakes BY DEF NobodyOvertakes, StartedNow, IsRunning
<1> QED BY <1>1, <1>2

\* A run short of its end goes on; at its end its job leaves the map and its
\* slot is free.
LEMMA RunInStep ==
    ASSUME QInv, InStep, NEW t \in Tracks, RunStep(t)
    PROVE  InStep' /\ NobodyOvertakes
<1>1. /\ job \in [Tracks -> Job] /\ job[t] \in Job
      /\ waiting \in [Priority -> Seq(Tracks)]
      /\ running \in [Priority -> Int] /\ Limited(running)
      /\ stored[t] \in Results \cup {None} /\ job[t].res \in Results \cup {None}
  BY DEF QInv, TypeOK, WithinLimits, Limited, Job
<1>2. IsRunning(t) /\ ~IsQueued(t)
  BY DEF RunStep, Look, Import, Analyzed, Stopped, Failed, Keep, Reread, Finish,
         IsRunning, IsQueued, RunPhases
<1>3. CASE \/ Look(t) \/ Import(t) \/ Analyzed(t) \/ Stopped(t)
           \/ Failed(t) \/ Keep(t) \/ Reread(t)
  <2>1. PICK ph \in RunPhases, r \in Results \cup {None} : Advance(t, ph, r)
    BY <1>1, <1>3 DEF Look, Import, Analyzed, Stopped, Failed, Keep, Reread, RunPhases, Results
  <2> DEFINE jt == [job[t] EXCEPT !.phase = ph, !.res = r]
  <2>2. jt \in Job BY <1>1, <2>1, JobTypes
  <2>3. jt.phase = ph /\ jt.slot = job[t].slot BY <1>1 DEF Job
  <2>4. job' = [job EXCEPT ![t] = jt] /\ UNCHANGED <<waiting, running>>
    BY <2>1 DEF Advance
  <2> HIDE DEF jt
  <2>5. jt.phase \in RunPhases /\ jt.phase # "queued" BY <2>1, <2>3 DEF RunPhases
  <2>6. Prepared([job EXCEPT ![t] = jt], waiting, running)
    BY <1>2, <2>2, <2>3, <2>5, OneJobInPlace
  <2> QED BY <2>4, <2>6, LeftAsPrepared
<1>4. CASE Finish(t)
  <2> DEFINE j == [job EXCEPT ![t] = NoJob]
             slot == job[t].slot
             r == [running EXCEPT ![slot] = @ - 1]
  <2>1. slot \in Priority BY <1>1 DEF Job
  <2>2. NoJob \in Job /\ NoJob.phase = "none" BY JobTypes DEF NoJob, NewJob
  <2>3. \/ ~closed /\ DispatchLocked(j, waiting, r)
        \/ job' = j /\ running' = r /\ waiting' = waiting
    BY <1>4 DEF Finish
  <2>4. t \in StartedAs(job, slot) BY <1>2 DEF StartedAs, IsRunning
  <2>5. \A p \in Priority : p # slot => t \notin StartedAs(job, p) BY DEF StartedAs
  <2>6. /\ j \in [Tracks -> Job]
        /\ \A u \in Tracks : j[u] = IF u = t THEN NoJob ELSE job[u]
    BY <1>1, <2>2
  <2>7. /\ r \in [Priority -> Int]
        /\ \A p \in Priority : r[p] = IF p = slot THEN running[p] - 1 ELSE running[p]
    BY <1>1, <2>1
  <2> HIDE DEF j, r, slot
  <2>8. Limited(r)
    <3>1. running[0] \in Int /\ running[1] \in Int
      BY <1>1 DEF Priority, Background, Foreground
    <3>2. \/ r[0] = running[0] - 1 /\ r[1] = running[1]
          \/ r[0] = running[0] /\ r[1] = running[1] - 1
      BY <2>1, <2>7 DEF Priority, Background, Foreground
    <3> QED BY <1>1, <3>1, <3>2, SlotsAssumption DEF Limited, Background, Foreground
  <2>9. ASSUME NEW p \in Priority PROVE QueuedAs(j, p) = QueuedAs(job, p)
    BY <1>2, <2>2, <2>6 DEF QueuedAs, IsQueued
  <2>10. ASSUME NEW p \in Priority PROVE r[p] = Cardinality(StartedAs(j, p))
    <3>1. StartedAs(j, p) = StartedAs(job, p) \ {t}
      BY <2>2, <2>6 DEF StartedAs, RunPhases
    <3>2. StartedAs(job, p) \in SUBSET Tracks BY DEF StartedAs
    <3>3. IsFiniteSet(StartedAs(job, p)) BY <3>2, FS_Subset, TracksAssumption
    <3>4. Cardinality(StartedAs(job, p) \ {t})
             = IF t \in StartedAs(job, p) THEN Cardinality(StartedAs(job, p)) - 1
               ELSE Cardinality(StartedAs(job, p))
      BY <3>3, FS_RemoveElement
    <3>5. running[p] = Cardinality(StartedAs(job, p)) BY DEF InStep, Counted
    <3> QED BY <2>4, <2>5, <2>7, <3>1, <3>4, <3>5
  <2>11. Prepared(j, waiting, r)
    <3>1. Matched(j, waiting) BY <2>9 DEF InStep, Matched
    <3>2. \A u \in Tracks : j[u].phase \in RunPhases => IsRunning(u)
      BY <2>2, <2>6 DEF IsRunning, RunPhases
    <3>3. \A p \in Priority : KeepsOrder(waiting[p], waiting[p]) BY DEF KeepsOrder
    <3> QED BY <1>1, <2>6, <2>7, <2>8, <2>10, <3>1, <3>2, <3>3 DEF Prepared, Counted
  <2> QED BY <2>3, <2>11, DispatchKeepsStep, LeftAsPrepared
<1> QED BY <1>3, <1>4 DEF RunStep

\* Cancelling marks a run; forgetting a queued job takes it out of its queue.
LEMMA EditorsInStep ==
    ASSUME QInv, InStep, Editors
    PROVE  InStep' /\ NobodyOvertakes
<1>1. PICK t \in Tracks :
         Set(t) \/ CancelReplaced(t) \/ Invalidate(t) \/ Remove(t) \/ Forget(t)
  BY TracksAssumption DEF Editors
<1>2. /\ job \in [Tracks -> Job] /\ job[t] \in Job
      /\ waiting \in [Priority -> Seq(Tracks)]
  BY DEF QInv, TypeOK
<1>3. CASE UNCHANGED <<job, waiting, running>> BY <1>3, UntouchedInStep
<1>4. ASSUME NEW c \in BOOLEAN, job' = [job EXCEPT ![t].cancelled = c],
             UNCHANGED <<waiting, running>>
      PROVE  InStep' /\ NobodyOvertakes
  <2> DEFINE jt == [job[t] EXCEPT !.cancelled = c]
  <2>1. jt \in Job BY <1>2, JobTypes
  <2>2. jt.phase = job[t].phase /\ jt.prio = job[t].prio /\ jt.slot = job[t].slot
    BY <1>2 DEF Job
  <2>3. job' = [job EXCEPT ![t] = jt] BY <1>4
  <2> HIDE DEF jt
  <2>4. Prepared([job EXCEPT ![t] = jt], waiting, running)
    BY <2>1, <2>2, OneJobInPlace DEF IsRunning, IsQueued
  <2> QED BY <1>4, <2>3, <2>4, LeftAsPrepared
<1>5. CASE CancelReplaced(t)
  <2> DEFINE c == job[t].cancelled \/ IsRunning(t)
  <2>1. c \in BOOLEAN BY <1>2 DEF Job
  <2>2. job' = [job EXCEPT ![t].cancelled = c] BY <1>2, <1>5 DEF CancelReplaced
  <2> HIDE DEF c
  <2> QED BY <1>4, <1>5, <2>1, <2>2 DEF CancelReplaced
<1>6. CASE /\ IsQueued(t) /\ running' = running
           /\ waiting' = [waiting EXCEPT ![job[t].prio] = Without(@, t)]
           /\ job' = [job EXCEPT ![t] = NoJob]
  <2> DEFINE from == job[t].prio
             q == [waiting EXCEPT ![from] = Without(@, t)]
  <2>1. from \in Priority /\ waiting[from] \in Seq(Tracks) BY <1>2 DEF Job
  <2>2. \A o \in Priority :
           /\ waiting[o] \in Seq(Tracks) /\ Distinct(waiting[o])
           /\ KeepsOrder(waiting[o], waiting[o])
           /\ o # from => t \notin Held(waiting[o])
    BY <1>2 DEF InStep, Matched, QueuedAs, KeepsOrder
  <2>3. NoJob \in Job /\ NoJob.phase = "none" BY JobTypes DEF NoJob, NewJob
  <2>4. ~IsRunning(t) /\ NoJob.phase \notin RunPhases
    BY <1>6, <2>3 DEF IsQueued, IsRunning, RunPhases
  <2> HIDE DEF from
  <2>5. Without(waiting[from], t) \in Seq(Tracks) BY <2>1, WithoutType
  <2>6. /\ q \in [Priority -> Seq(Tracks)]
        /\ \A o \in Priority : q[o] = IF o = from THEN Without(waiting[from], t)
                                      ELSE waiting[o]
    BY <1>2, <2>1, <2>5
  <2>7. waiting' = q BY <1>6 DEF from
  <2> HIDE DEF q
  <2>8. /\ Distinct(q[from]) /\ KeepsOrder(waiting[from], q[from])
        /\ Held(q[from]) = Held(waiting[from]) \ {t}
    BY <2>1, <2>2, <2>6, TakenOut
  <2>9. \A o \in Priority :
           /\ Distinct(q[o]) /\ KeepsOrder(waiting[o], q[o])
           /\ Held(q[o]) = (Held(waiting[o]) \ {t})
                              \cup {u \in {t} : NoJob.phase = "queued" /\ NoJob.prio = o}
    BY <2>2, <2>3, <2>6, <2>8
  <2>10. Prepared([job EXCEPT ![t] = NoJob], q, running)
    BY <2>3, <2>4, <2>6, <2>9, OneJobChanged
  <2> QED BY <1>6, <2>7, <2>10, LeftAsPrepared
<1>7. CASE Forget(t) BY <1>3, <1>4, <1>6, <1>7 DEF Forget
<1> QED BY <1>1, <1>3, <1>5, <1>7 DEF Set, Invalidate, Remove

\* Close drops what is queued, from the queues and from the map.
LEMMA CloseInStep ==
    ASSUME QInv, InStep, Close
    PROVE  InStep' /\ NobodyOvertakes
<1>1. QInv' /\ \A t \in Tracks : job[t] \in Job BY CloseQ DEF QInv, TypeOK
<1>2. NoJob.phase = "none" BY DEF NoJob, NewJob
<1>3. ASSUME NEW t \in Tracks
      PROVE  /\ job'[t].phase # "queued"
             /\ job'[t].phase \in RunPhases <=> IsRunning(t)
             /\ IsRunning(t) => job'[t].slot = job[t].slot
  <2>1. CASE IsQueued(t)
    <3>1. job'[t] = NoJob BY <2>1 DEF Close
    <3> QED BY <1>2, <2>1, <3>1 DEF IsQueued, IsRunning, RunPhases
  <2>2. CASE ~IsQueued(t)
    <3>1. PICK c : job'[t] = [job[t] EXCEPT !.cancelled = c] BY <2>2 DEF Close
    <3>2. job'[t].phase = job[t].phase /\ job'[t].slot = job[t].slot
      BY <1>1, <3>1 DEF Job
    <3> QED BY <2>2, <3>2 DEF IsQueued, IsRunning
  <2> QED BY <2>1, <2>2
<1>4. \A p \in Priority : waiting'[p] = <<>> BY DEF Close
<1>5. ASSUME NEW p \in Priority
      PROVE  /\ Distinct(waiting'[p]) /\ Held(waiting'[p]) = {}
             /\ \A t : ~InQueue(waiting'[p], t)
  <2>1. DOMAIN <<>> = {} OBVIOUS
  <2> QED BY <1>4, <2>1 DEF Distinct, Held, InQueue
<1>6. \A p \in Priority : QueuedAs(job', p) = {} BY <1>3 DEF QueuedAs
<1>7. \A p \in Priority : StartedAs(job', p) = StartedAs(job, p)
  BY <1>3 DEF StartedAs, IsRunning
<1>8. InStep'
  BY <1>5, <1>6, <1>7 DEF InStep, Matched, Counted, Close
<1>9. \A t \in Tracks : ~StartedNow(t) BY <1>3 DEF StartedNow, IsRunning
<1>10. NobodyOvertakes BY <1>5, <1>9 DEF NobodyOvertakes
<1> QED BY <1>8, <1>10

\* So every step keeps them in step and lets nothing overtake.
LEMMA StepInStep == QInv /\ InStep /\ [Next]_vars
                       => InStep' /\ (NobodyOvertakes \/ UNCHANGED vars)
<1> SUFFICES ASSUME QInv, InStep, [Next]_vars
             PROVE  InStep' /\ (NobodyOvertakes \/ UNCHANGED vars)
  OBVIOUS
<1>1. CASE Callers
  <2>1. PICK t \in Tracks, ws \in Callback :
           RequestRefused(t, ws) \/ \E p \in Priority : Request(t, p, ws)
    BY <1>1 DEF Callers
  <2>2. ws \in SUBSET Waiters BY DEF Callback
  <2>3. CASE RequestRefused(t, ws) BY <2>3, UntouchedInStep DEF RequestRefused
  <2>4. ASSUME NEW p \in Priority, Request(t, p, ws) PROVE InStep' /\ NobodyOvertakes
    BY <2>2, <2>4, RequestInStep DEF Request
  <2> QED BY <2>1, <2>3, <2>4
<1>2. ASSUME NEW t \in Tracks, RunStep(t) PROVE InStep' /\ NobodyOvertakes
  BY <1>2, RunInStep
<1>3. CASE Callbacks BY <1>3, UntouchedInStep DEF Callbacks, Answer
<1>4. CASE Editors BY <1>4, EditorsInStep
<1>5. CASE Close BY <1>5, CloseInStep
<1>6. CASE UNCHANGED vars BY <1>6 DEF vars, InStep
<1> QED BY <1>1, <1>2, <1>3, <1>4, <1>5, <1>6 DEF Next

----------------------------------------------------------------------------
(***************************************************************************)
(* What follows.                                                           *)
(***************************************************************************)

\* Queues, map and counters are in step at first and after every step.
LEMMA AlwaysInStep == Spec => []InStep
<1>1. Init => InStep
  <2> SUFFICES ASSUME Init PROVE InStep OBVIOUS
  <2>1. NoJob.phase = "none" BY DEF NoJob, NewJob
  <2>2. \A p \in Priority : QueuedAs(job, p) = {} /\ StartedAs(job, p) = {}
    BY <2>1 DEF Init, QueuedAs, StartedAs, RunPhases
  <2>3. \A p \in Priority : waiting[p] = <<>> /\ running[p] = 0 BY DEF Init
  <2>4. DOMAIN <<>> = {} OBVIOUS
  <2>5. Matched(job, waiting) BY <2>2, <2>3, <2>4 DEF Matched, Distinct, Held
  <2>6. Counted(job, running) BY <2>2, <2>3, FS_EmptySet DEF Counted
  <2> QED BY <2>5, <2>6 DEF InStep
<1> QED BY <1>1, StepInStep, QueueInvariance, PTL DEF Spec

\* The queues hold exactly the queued jobs, each once and under its present
\* priority, through promotion, Forget and Close.
THEOREM QueuesHoldTheQueued == Spec => []QueuesMatchJobs
<1>1. InStep => QueuesMatchJobs
  BY DEF InStep, Matched, Distinct, Held, QueuedAs, QueuesMatchJobs, IsQueued
<1> QED BY <1>1, AlwaysInStep, PTL

\* The counters equal the number of started jobs, by the priority each started
\* under, and keep the limits: no slot leaks or is freed twice.
THEOREM SlotsAreCounted == Spec => []SlotsAccounted
<1>1. InStep /\ WithinLimits => SlotsAccounted
  BY DEF InStep, Counted, StartedAs, SlotsAccounted, IsRunning
<1> QED BY <1>1, AlwaysInStep, LimitsKept, PTL

\* What waits in a queue is not overtaken by what is behind it, and Background
\* work does not start while a Foreground job is left waiting.
THEOREM StartsInOrder == Spec => NoOvertaking
<1>1. NobodyOvertakes \/ UNCHANGED vars =>
        [/\ \A p \in Priority : \A t, u \in Tracks :
               (t # u /\ Ahead(waiting[p], t, u) /\ InQueue(waiting'[p], t))
               => /\ StartedNow(u) => job'[u].slot # p
                  /\ Ahead(waiting'[p], t, u)
         /\ (\E t \in Tracks : StartedNow(t) /\ job'[t].slot = Background)
               => waiting'[Foreground] = <<>>]_vars
  BY DEF NobodyOvertakes
<1> QED BY <1>1, StepInStep, AlwaysInStep, QueueInvariance, PTL DEF Spec, NoOvertaking
===========================================================================
