------------------------ MODULE AnalysisQueueProofs ------------------------
(***************************************************************************)
(* What the analysis queue guarantees for any set of tracks and callers    *)
(* and any slot limits.                                                    *)
(***************************************************************************)
EXTENDS AnalysisQueue, SequenceTheorems, TLAPS

----------------------------------------------------------------------------
(***************************************************************************)
(* dispatchLocked and the helpers it is built from.                        *)
(***************************************************************************)

\* Removing a track from a queue leaves a queue, and no longer one.
LEMMA WithoutType ==
    ASSUME NEW q \in Seq(Tracks), NEW t
    PROVE  Without(q, t) \in Seq(Tracks) /\ (q = <<>> => Without(q, t) = <<>>)
<1>1. CASE \E i \in DOMAIN q : q[i] = t
  <2> DEFINE i == CHOOSE i \in DOMAIN q : q[i] = t
  <2>1. i \in 1..Len(q) /\ Len(q) \in Nat BY <1>1, LenProperties
  <2>2. \A k \in 1..Len(q) : q[k] \in Tracks BY ElementOfSeq
  <2>3. Without(q, t) = SubSeq(q, 1, i - 1) \o SubSeq(q, i + 1, Len(q))
    BY <1>1 DEF Without
  <2>4. q # <<>> BY <2>1, EmptySeq
  <2> HIDE DEF i
  <2>5. /\ i - 1 \in Int /\ i + 1 \in Int /\ Len(q) \in Int
        /\ \A k \in 1 .. i - 1 : q[k] \in Tracks
        /\ \A k \in i + 1 .. Len(q) : q[k] \in Tracks
    BY <2>1, <2>2
  <2>6. SubSeq(q, 1, i - 1) \in Seq(Tracks) BY <2>5, SubSeqProperties
  <2>7. SubSeq(q, i + 1, Len(q)) \in Seq(Tracks) BY <2>5, SubSeqProperties
  <2> QED BY <2>3, <2>4, <2>6, <2>7, ConcatProperties
<1>2. CASE ~\E i \in DOMAIN q : q[i] = t BY <1>2 DEF Without
<1> QED BY <1>1, <1>2

\* What the limits say of counters r.
Limited(r) ==
    /\ r[Background] + r[Foreground] <= maxRunning
    /\ r[Background] <= maxBackground

\* From counters within the limits, the loop of dispatchLocked takes as many
\* jobs of each queue as fit: what it leaves in a queue is left for want of a
\* slot.
LEMMA TakeFits ==
    ASSUME NEW q \in [Priority -> Seq(Tracks)], NEW r \in [Priority -> Int],
           Limited(r)
    PROVE  LET n == Take(q, r)
               total == r[Background] + n[Background] + r[Foreground] + n[Foreground]
           IN  /\ n[Background] \in 0..Len(q[Background])
               /\ n[Foreground] \in 0..Len(q[Foreground])
               /\ total <= maxRunning
               /\ r[Background] + n[Background] <= maxBackground
               /\ n[Foreground] < Len(q[Foreground]) => total = maxRunning
               /\ n[Background] < Len(q[Background]) =>
                     total = maxRunning \/ r[Background] + n[Background] = maxBackground
<1> DEFINE lB == Len(q[Background])
           lF == Len(q[Foreground])
           rB == r[Background]
           rF == r[Foreground]
           nF == Least(lF, maxRunning - (rB + rF))
           nB == Least(lB, Least(maxRunning - (rB + rF) - nF, maxBackground - rB))
<1>1. Background \in Priority /\ Foreground \in Priority /\ Background # Foreground
  BY DEF Priority, Background, Foreground
<1>2. lB \in Nat /\ lF \in Nat /\ rB \in Int /\ rF \in Int BY <1>1, LenProperties
<1>3. maxRunning \in Nat /\ maxBackground \in Nat BY SlotsAssumption
<1>4. Take(q, r)[Foreground] = nF /\ Take(q, r)[Background] = nB
  BY <1>1 DEF Take, TakeForeground, TakeBackground
<1>5. rB + rF <= maxRunning /\ rB <= maxBackground BY DEF Limited
<1> HIDE DEF lB, lF, rB, rF
<1>6. /\ nF \in 0..lF /\ nB \in 0..lB
      /\ rB + nB + rF + nF <= maxRunning
      /\ rB + nB <= maxBackground
      /\ nF < lF => rB + nB + rF + nF = maxRunning
      /\ nB < lB => rB + nB + rF + nF = maxRunning \/ rB + nB = maxBackground
  BY <1>2, <1>3, <1>5 DEF Least
<1> QED BY <1>4, <1>6 DEF lB, lF, rB, rF

\* A started job is a job.
LEMMA StartedType ==
    ASSUME NEW jb \in Job
    PROVE  /\ Started(jb) \in Job
           /\ Started(jb).phase = "look"
           /\ Started(jb).waiters = jb.waiters
           /\ Started(jb).cancelled = jb.cancelled
<1> DEFINE looking == [jb EXCEPT !.phase = "look"]
<1>1. looking \in Job BY DEF Job, Phases, RunPhases
<1>2. Started(jb) = [looking EXCEPT !.slot = jb.prio] BY DEF Started
<1> QED BY <1>1, <1>2 DEF Job

\* So dispatchLocked keeps types and limits and leaves no slot idle; it starts
\* jobs and changes nothing else of them.
LEMMA Dispatch ==
    ASSUME NEW j \in [Tracks -> Job], NEW q \in [Priority -> Seq(Tracks)],
           NEW r \in [Priority -> Int], Limited(r), DispatchLocked(j, q, r)
    PROVE  /\ job' \in [Tracks -> Job]
           /\ waiting' \in [Priority -> Seq(Tracks)]
           /\ running' \in [Priority -> Int]
           /\ WithinLimits'
           /\ NoIdleSlot'
           /\ \A t \in Tracks : job'[t] \in {j[t], Started(j[t])}
<1> DEFINE n == Take(q, r)
           left(p) == SubSeq(q[p], n[p] + 1, Len(q[p]))
<1>1. Background \in Priority /\ Foreground \in Priority
  BY DEF Priority, Background, Foreground
<1>2. \A p \in Priority : n[p] \in 0..Len(q[p]) /\ Len(q[p]) \in Nat /\ r[p] \in Int
  BY TakeFits, LenProperties DEF Priority
<1>3. /\ waiting' = [p \in Priority |-> left(p)]
      /\ running' = [p \in Priority |-> r[p] + n[p]]
  BY DEF DispatchLocked
<1>4. ASSUME NEW p \in Priority
      PROVE  left(p) \in Seq(Tracks) /\ (left(p) # <<>> => n[p] < Len(q[p]))
  <2>1. n[p] \in Nat /\ Len(q[p]) \in Nat /\ n[p] <= Len(q[p]) BY <1>2
  <2>2. \A i \in n[p] + 1 .. Len(q[p]) : q[p][i] \in Tracks BY <2>1, ElementOfSeq
  <2> HIDE DEF n
  <2>3. left(p) \in Seq(Tracks) BY <2>1, <2>2, SubSeqProperties
  <2>4. n[p] = Len(q[p]) => left(p) = <<>> BY <2>1, SubSeqEmpty
  <2> QED BY <2>1, <2>3, <2>4
<1>5. \A p \in Priority : r[p] + n[p] \in Int BY <1>2
<1>6. waiting' \in [Priority -> Seq(Tracks)] /\ running' \in [Priority -> Int]
  BY <1>3, <1>4, <1>5
<1>7. /\ running'[Background] = r[Background] + n[Background]
      /\ running'[Foreground] = r[Foreground] + n[Foreground]
      /\ waiting'[Background] = left(Background)
      /\ waiting'[Foreground] = left(Foreground)
  BY <1>1, <1>3
<1>8. WithinLimits' /\ NoIdleSlot'
  <2>1. /\ r[Background] \in Int /\ r[Foreground] \in Int
        /\ n[Background] \in Int /\ n[Foreground] \in Int
    BY <1>1, <1>2
  <2>2. /\ left(Background) # <<>> => n[Background] < Len(q[Background])
        /\ left(Foreground) # <<>> => n[Foreground] < Len(q[Foreground])
    BY <1>1, <1>4
  <2>3. LET total == r[Background] + n[Background] + r[Foreground] + n[Foreground]
        IN  /\ total <= maxRunning
            /\ r[Background] + n[Background] <= maxBackground
            /\ n[Foreground] < Len(q[Foreground]) => total = maxRunning
            /\ n[Background] < Len(q[Background]) =>
                  total = maxRunning \/ r[Background] + n[Background] = maxBackground
    BY TakeFits
  <2> HIDE DEF n, left
  <2> QED BY <1>7, <2>1, <2>2, <2>3 DEF WithinLimits, NoIdleSlot
<1>9. \A t \in Tracks : job'[t] \in {j[t], Started(j[t])} BY DEF DispatchLocked
<1>10. job' \in [Tracks -> Job]
  <2>1. \A t \in Tracks : job'[t] \in Job BY <1>9, StartedType
  <2>2. job' = [t \in Tracks |-> job'[t]] BY DEF DispatchLocked
  <2> QED BY <2>1, <2>2
<1> QED BY <1>6, <1>8, <1>9, <1>10

----------------------------------------------------------------------------
(***************************************************************************)
(* The queue under its mutex.  NoIdleSlot is not inductive by itself: a    *)
(* run that ends after Close frees its slot without dispatching, which is  *)
(* right only because Close has left nothing to start.                     *)
(***************************************************************************)

\* After Close nothing is queued and everything that runs is cancelled.
ClosedIsQuiet == closed =>
    /\ \A p \in Priority : waiting[p] = <<>>
    /\ \A t \in Tracks : ~IsQueued(t) /\ (IsRunning(t) => job[t].cancelled)

QInv == TypeOK /\ WithinLimits /\ NoIdleSlot /\ ClosedIsQuiet

\* New and absent jobs are jobs, and so is a job one of whose fields changes.
LEMMA JobTypes ==
    /\ NoJob \in Job
    /\ \A p \in Priority, ws \in SUBSET Waiters : NewJob(p, ws) \in Job
    /\ \A jb \in Job, p \in Priority, ws \in SUBSET Waiters :
          [jb EXCEPT !.prio = p, !.waiters = @ \cup ws] \in Job
    /\ \A jb \in Job, ws \in SUBSET Waiters :
          [jb EXCEPT !.waiters = @ \cup ws] \in Job
    /\ \A jb \in Job, ph \in RunPhases, r \in Results \cup {None} :
          [jb EXCEPT !.phase = ph, !.res = r] \in Job
    /\ \A jb \in Job, c \in BOOLEAN : [jb EXCEPT !.cancelled = c] \in Job
<1>1. NewJob(Background, {}) \in Job
  BY DEF NewJob, Job, Priority, Background, Phases
<1>2. NoJob \in Job BY <1>1 DEF NoJob, Job, Phases
<1>3. \A p \in Priority, ws \in SUBSET Waiters : NewJob(p, ws) \in Job
  BY DEF NewJob, Job, Priority, Background, Phases
<1>4. ASSUME NEW jb \in Job, NEW p \in Priority, NEW ws \in SUBSET Waiters
      PROVE  [jb EXCEPT !.prio = p, !.waiters = @ \cup ws] \in Job
  <2>1. jb.waiters \cup ws \in SUBSET Waiters BY DEF Job
  <2> QED BY <2>1 DEF Job
<1>5. \A jb \in Job, ws \in SUBSET Waiters : [jb EXCEPT !.waiters = @ \cup ws] \in Job
  BY DEF Job
<1>6. \A jb \in Job, ph \in RunPhases, r \in Results \cup {None} :
         [jb EXCEPT !.phase = ph, !.res = r] \in Job
  BY DEF Job, Phases
<1>7. \A jb \in Job, c \in BOOLEAN : [jb EXCEPT !.cancelled = c] \in Job
  BY DEF Job
<1> QED BY <1>2, <1>3, <1>4, <1>5, <1>6, <1>7

\* What is owed is due.
LEMMA OweType ==
    ASSUME NEW t \in Tracks, NEW ws \in SUBSET Waiters
    PROVE  Owe(t, ws) \subseteq Due
<1>1. CASE ws = {} BY <1>1 DEF Owe
<1>2. CASE ws # {}
  <2>1. ws \in (SUBSET Waiters) \ {{}} BY <1>2
  <2>2. [track |-> t, waiters |-> ws] \in Due BY <2>1 DEF Due
  <2> QED BY <1>2, <2>2 DEF Owe
<1> QED BY <1>1, <1>2

\* An empty queue.
LEMMA InitQ == Init => QInv
<1> SUFFICES ASSUME Init PROVE QInv OBVIOUS
<1>1. TypeOK
  <2>1. job \in [Tracks -> Job] BY JobTypes DEF Init
  <2>2. waiting \in [Priority -> Seq(Tracks)] BY EmptySeq DEF Init
  <2>3. running \in [Priority -> Int] BY DEF Init
  <2>4. stored \in [Tracks -> Results \cup {None}] BY DEF Init
  <2>5. asking \in [Waiters -> Tracks \cup {NoTrack}] BY DEF Init
  <2>6. due \subseteq Due /\ replacing \subseteq Tracks /\ removing \subseteq Tracks
    BY DEF Init
  <2>7. closed \in BOOLEAN BY DEF Init
  <2> QED BY <2>1, <2>2, <2>3, <2>4, <2>5, <2>6, <2>7 DEF TypeOK
<1>2. WithinLimits BY SlotsAssumption DEF Init, WithinLimits, Priority, Background, Foreground
<1>3. NoIdleSlot BY DEF Init, NoIdleSlot, Priority, Background, Foreground
<1>4. ClosedIsQuiet BY DEF Init, ClosedIsQuiet
<1> QED BY <1>1, <1>2, <1>3, <1>4 DEF QInv

\* A caller's request, refused or not.
LEMMA CallersQ ==
    ASSUME QInv, Callers
    PROVE  QInv'
<1>1. TypeOK BY DEF QInv
<1>2. PICK t \in Tracks, ws \in Callback :
         RequestRefused(t, ws) \/ \E p \in Priority : Request(t, p, ws)
  BY DEF Callers
<1>3. ws \in SUBSET Waiters BY DEF Callback
<1>4. ASSUME Ask(t, ws) PROVE asking' \in [Waiters -> Tracks \cup {NoTrack}]
  BY <1>1, <1>4 DEF TypeOK, Ask
<1>5. CASE RequestRefused(t, ws)
  <2>1. due' \subseteq Due BY <1>1, <1>3, <1>5, OweType DEF TypeOK, RequestRefused
  <2>2. TypeOK' BY <1>1, <1>4, <1>5, <2>1 DEF TypeOK, RequestRefused
  <2> QED BY <1>5, <2>2 DEF QInv, WithinLimits, NoIdleSlot, ClosedIsQuiet, IsQueued,
                            IsRunning, RequestRefused
<1>6. ASSUME NEW p \in Priority, Request(t, p, ws) PROVE QInv'
  <2>1. PICK j \in [Tracks -> Job], q \in [Priority -> Seq(Tracks)] :
           DispatchLocked(j, q, running)
    <3>1. CASE Enqueue(t, p, ws)
      <4>1. [job EXCEPT ![t] = NewJob(p, ws)] \in [Tracks -> Job]
        BY <1>1, <1>3, JobTypes DEF TypeOK
      <4>2. Append(waiting[p], t) \in Seq(Tracks)
        BY <1>1, AppendProperties DEF TypeOK
      <4>3. [waiting EXCEPT ![p] = Append(waiting[p], t)] \in [Priority -> Seq(Tracks)]
        BY <1>1, <4>2 DEF TypeOK
      <4> QED BY <3>1, <4>1, <4>3 DEF Enqueue
    <3>2. CASE MoveUp(t, p, ws)
      <4>1. /\ job[t] \in Job
            /\ [job[t] EXCEPT !.prio = p, !.waiters = @ \cup ws] \in Job
        BY <1>1, <1>3, JobTypes DEF TypeOK
      <4>2. [job EXCEPT ![t].prio = p, ![t].waiters = @ \cup ws] \in [Tracks -> Job]
        BY <1>1, <4>1 DEF TypeOK
      <4>3. Append(waiting[p], t) \in Seq(Tracks)
        BY <1>1, AppendProperties DEF TypeOK
      <4>4. job[t].prio \in Priority BY <4>1 DEF Job
      <4>5. Without(waiting[job[t].prio], t) \in Seq(Tracks)
        BY <1>1, <4>4, WithoutType DEF TypeOK
      <4>6. [waiting EXCEPT ![job[t].prio] = Without(waiting[job[t].prio], t),
                            ![p] = Append(waiting[p], t)] \in [Priority -> Seq(Tracks)]
        BY <1>1, <4>3, <4>4, <4>5 DEF TypeOK
      <4> QED BY <3>2, <4>2, <4>6 DEF MoveUp
    <3>3. CASE Join(t, p, ws)
      <4>1. [job[t] EXCEPT !.waiters = @ \cup ws] \in Job
        BY <1>1, <1>3, JobTypes DEF TypeOK
      <4>2. [job EXCEPT ![t].waiters = @ \cup ws] \in [Tracks -> Job]
        BY <1>1, <4>1 DEF TypeOK
      <4> QED BY <1>1, <3>3, <4>2 DEF TypeOK, Join
    <3> QED BY <1>6, <3>1, <3>2, <3>3 DEF Request
  <2>2. running \in [Priority -> Int] /\ Limited(running)
    BY <1>1 DEF QInv, TypeOK, WithinLimits, Limited
  <2>3. /\ job' \in [Tracks -> Job]
        /\ waiting' \in [Priority -> Seq(Tracks)]
        /\ running' \in [Priority -> Int]
        /\ WithinLimits' /\ NoIdleSlot'
    BY <2>1, <2>2, Dispatch
  <2>4. TypeOK' BY <1>1, <1>4, <1>6, <2>3 DEF TypeOK, Request
  <2>5. ClosedIsQuiet' BY <1>6 DEF ClosedIsQuiet, Request
  <2> QED BY <2>3, <2>4, <2>5 DEF QInv
<1> QED BY <1>2, <1>5, <1>6

\* A job's goroutine: short of its end it changes only its own job, which goes
\* on running and stays cancelled if it was.
LEMMA RunStepQ ==
    ASSUME QInv, NEW t \in Tracks, RunStep(t)
    PROVE  QInv'
<1>1. TypeOK /\ job[t] \in Job BY DEF QInv, TypeOK
<1>2. CASE \/ Look(t) \/ Import(t) \/ Analyzed(t) \/ Stopped(t)
           \/ Failed(t) \/ Keep(t) \/ Reread(t)
  <2>1. stored[t] \in Results \cup {None} /\ job[t].res \in Results \cup {None}
    BY <1>1 DEF TypeOK, Job
  <2>2. PICK ph \in RunPhases, r \in Results \cup {None} : Advance(t, ph, r)
    BY <1>2, <2>1 DEF Look, Import, Analyzed, Stopped, Failed, Keep, Reread, RunPhases, Results
  <2>3. IsRunning(t)
    BY <1>2 DEF Look, Import, Analyzed, Stopped, Failed, Keep, Reread, IsRunning, RunPhases
  <2>4. job' = [job EXCEPT ![t] = [job[t] EXCEPT !.phase = ph, !.res = r]]
    BY <2>2 DEF Advance
  <2>5. [job[t] EXCEPT !.phase = ph, !.res = r] \in Job BY <1>1, <2>2, JobTypes
  <2>6. job' \in [Tracks -> Job] BY <1>1, <2>4, <2>5 DEF TypeOK
  <2>7. stored' \in [Tracks -> Results \cup {None}]
    BY <1>1, <1>2, <2>1 DEF TypeOK, Look, Import, Analyzed, Stopped, Failed, Keep, Reread
  <2>8. TypeOK' BY <1>1, <2>2, <2>6, <2>7 DEF TypeOK, Advance
  <2>9. \A u \in Tracks :
           /\ job'[u].cancelled = job[u].cancelled
           /\ IsRunning(u)' = IsRunning(u)
           /\ IsQueued(u)' = IsQueued(u)
    <3>1. /\ job'[t].phase = ph /\ job'[t].cancelled = job[t].cancelled
          /\ \A u \in Tracks : u # t => job'[u] = job[u]
      BY <1>1, <2>4 DEF TypeOK, Job
    <3> QED BY <2>2, <2>3, <3>1 DEF IsRunning, IsQueued, RunPhases
  <2>10. ClosedIsQuiet' BY <2>2, <2>9 DEF QInv, ClosedIsQuiet, Advance
  <2> QED BY <2>2, <2>8, <2>10 DEF QInv, WithinLimits, NoIdleSlot, Advance
<1>3. CASE Finish(t)
  <2> DEFINE j == [job EXCEPT ![t] = NoJob]
             r == [running EXCEPT ![job[t].slot] = @ - 1]
  <2>1. j \in [Tracks -> Job] BY <1>1, JobTypes DEF TypeOK
  <2>2. r \in [Priority -> Int] BY <1>1 DEF TypeOK, Job
  <2>3. Limited(r)
    <3>1. running[0] \in Int /\ running[1] \in Int /\ Limited(running)
      BY <1>1 DEF QInv, TypeOK, WithinLimits, Limited, Priority, Background, Foreground
    <3>2. \/ r[0] = running[0] - 1 /\ r[1] = running[1]
          \/ r[0] = running[0] /\ r[1] = running[1] - 1
      BY <1>1 DEF TypeOK, Job, Priority, Background, Foreground
    <3> HIDE DEF r
    <3> QED BY <3>1, <3>2, SlotsAssumption DEF Limited, Background, Foreground
  <2>4. due' \subseteq Due
    <3>1. job[t].waiters \in SUBSET Waiters BY <1>1 DEF Job
    <3> QED BY <1>1, <1>3, <3>1, OweType DEF TypeOK, Finish
  <2>5. CASE ~closed /\ DispatchLocked(j, waiting, r)
    <3>1. waiting \in [Priority -> Seq(Tracks)] BY <1>1 DEF TypeOK
    <3> HIDE DEF j, r
    <3>2. /\ job' \in [Tracks -> Job]
          /\ waiting' \in [Priority -> Seq(Tracks)]
          /\ running' \in [Priority -> Int]
          /\ WithinLimits' /\ NoIdleSlot'
      BY <2>1, <2>2, <2>3, <2>5, <3>1, Dispatch
    <3>3. TypeOK' BY <1>1, <1>3, <2>4, <3>2 DEF TypeOK, Finish
    <3>4. ClosedIsQuiet' BY <1>3, <2>5 DEF ClosedIsQuiet, Finish
    <3> QED BY <3>2, <3>3, <3>4 DEF QInv
  <2>6. CASE closed /\ job' = j /\ running' = r /\ UNCHANGED waiting
    <3>1. TypeOK' BY <1>1, <1>3, <2>1, <2>2, <2>4, <2>6 DEF TypeOK, Finish
    <3>2. WithinLimits' BY <2>3, <2>6 DEF WithinLimits, Limited
    <3>3. \A p \in Priority : waiting'[p] = <<>> BY <2>6 DEF QInv, ClosedIsQuiet
    <3>4. NoIdleSlot' BY <3>3 DEF NoIdleSlot, Priority
    <3>5. NoJob.phase = "none" BY JobTypes DEF NoJob, NewJob
    <3>6. \A u \in Tracks : ~IsQueued(u)' /\ (IsRunning(u)' => job'[u].cancelled)
      BY <1>1, <2>6, <3>5 DEF QInv, TypeOK, ClosedIsQuiet, IsQueued, IsRunning, RunPhases
    <3>7. ClosedIsQuiet' BY <3>3, <3>6 DEF ClosedIsQuiet
    <3> QED BY <3>1, <3>2, <3>4, <3>7 DEF QInv
  <2> QED BY <1>3, <2>5, <2>6 DEF Finish
<1> QED BY <1>2, <1>3 DEF RunStep

\* A callback made.
LEMMA AnswerQ ==
    ASSUME QInv, NEW d \in due, NEW w \in Waiters, Answer(d, w)
    PROVE  QInv'
<1>1. TypeOK BY DEF QInv
<1>2. d.track \in Tracks /\ d.waiters \ {w} \in SUBSET Waiters
  BY <1>1 DEF TypeOK, Due
<1>3. due' \subseteq Due BY <1>1, <1>2, OweType DEF TypeOK, Answer
<1>4. TypeOK' BY <1>1, <1>3 DEF TypeOK, Answer
<1> QED BY <1>4 DEF QInv, WithinLimits, NoIdleSlot, ClosedIsQuiet, IsQueued, IsRunning, Answer

\* The store's operations: those on results leave the queue alone, those on
\* jobs start none.
LEMMA EditorsQ ==
    ASSUME QInv, Editors
    PROVE  QInv'
<1>1. TypeOK BY DEF QInv
<1>2. PICK t \in Tracks :
         Set(t) \/ CancelReplaced(t) \/ Invalidate(t) \/ Remove(t) \/ Forget(t)
  BY TracksAssumption DEF Editors
<1>3. job[t] \in Job BY <1>1 DEF TypeOK
<1>4. CASE Set(t) \/ Invalidate(t) \/ Remove(t)
  <2>1. TypeOK' BY <1>1, <1>4 DEF TypeOK, Set, Invalidate, Remove, Results
  <2> QED BY <1>4, <2>1 DEF QInv, WithinLimits, NoIdleSlot, ClosedIsQuiet, IsQueued,
                            IsRunning, Set, Invalidate, Remove
<1>5. ASSUME NEW c \in BOOLEAN, job' = [job EXCEPT ![t].cancelled = c],
             job[t].cancelled => c
      PROVE  /\ job' \in [Tracks -> Job]
             /\ ClosedIsQuiet /\ UNCHANGED <<waiting, closed>> => ClosedIsQuiet'
  <2>1. job' = [job EXCEPT ![t] = [job[t] EXCEPT !.cancelled = c]] BY <1>5
  <2>2. [job[t] EXCEPT !.cancelled = c] \in Job BY <1>3, JobTypes
  <2>3. job' \in [Tracks -> Job] BY <1>1, <2>1, <2>2 DEF TypeOK
  <2>4. \A u \in Tracks : u # t => job'[u] = job[u] BY <1>1, <2>1 DEF TypeOK
  <2>5. job'[t] = [job[t] EXCEPT !.cancelled = c] BY <1>1, <2>1 DEF TypeOK
  <2>6. job'[t].phase = job[t].phase /\ job'[t].cancelled = c BY <1>3, <2>5 DEF Job
  <2>7. \A u \in Tracks :
           job'[u].phase = job[u].phase /\ (job[u].cancelled => job'[u].cancelled)
    BY <1>5, <2>4, <2>6
  <2> QED BY <2>3, <2>7 DEF ClosedIsQuiet, IsQueued, IsRunning
<1>6. CASE CancelReplaced(t)
  <2> DEFINE c == job[t].cancelled \/ IsRunning(t)
  <2>1. job' = [job EXCEPT ![t].cancelled = c]
    BY <1>1, <1>6 DEF TypeOK, CancelReplaced
  <2>2. c \in BOOLEAN /\ (job[t].cancelled => c) BY <1>3 DEF Job
  <2>3. UNCHANGED <<waiting, closed>> /\ ClosedIsQuiet
    BY <1>6 DEF QInv, CancelReplaced
  <2> HIDE DEF c
  <2>4. job' \in [Tracks -> Job] /\ ClosedIsQuiet' BY <1>5, <2>1, <2>2, <2>3
  <2>5. TypeOK' BY <1>1, <1>6, <2>4 DEF TypeOK, CancelReplaced
  <2> QED BY <1>6, <2>4, <2>5 DEF QInv, WithinLimits, NoIdleSlot, CancelReplaced
<1>7. CASE Forget(t)
  <2>1. CASE job[t].phase = "none" /\ UNCHANGED <<job, waiting, due>>
    <3>1. TypeOK' BY <1>1, <1>7, <2>1 DEF TypeOK, Forget
    <3> QED BY <1>7, <2>1, <3>1 DEF QInv, WithinLimits, NoIdleSlot, ClosedIsQuiet, IsQueued,
                                    IsRunning, Forget
  <2>2. CASE job' = [job EXCEPT ![t].cancelled = TRUE] /\ UNCHANGED <<waiting, due>>
    <3>1. job' \in [Tracks -> Job] /\ ClosedIsQuiet'
      BY <1>5, <1>7, <2>2 DEF QInv, Forget
    <3>2. TypeOK' BY <1>1, <1>7, <2>2, <3>1 DEF TypeOK, Forget
    <3> QED BY <1>7, <2>2, <3>1, <3>2 DEF QInv, WithinLimits, NoIdleSlot, Forget
  <2>3. CASE /\ IsQueued(t)
             /\ waiting' = [waiting EXCEPT ![job[t].prio] = Without(@, t)]
             /\ job' = [job EXCEPT ![t] = NoJob]
             /\ due' = due \cup Owe(t, job[t].waiters)
    <3>1. job' \in [Tracks -> Job] BY <1>1, <2>3, JobTypes DEF TypeOK
    <3>2. job[t].prio \in Priority /\ job[t].waiters \in SUBSET Waiters
      BY <1>3 DEF Job
    <3>3. /\ Without(waiting[job[t].prio], t) \in Seq(Tracks)
          /\ waiting[job[t].prio] = <<>> => Without(waiting[job[t].prio], t) = <<>>
      BY <1>1, <3>2, WithoutType DEF TypeOK
    <3>4. /\ waiting' \in [Priority -> Seq(Tracks)]
          /\ \A p \in Priority : waiting[p] = <<>> => waiting'[p] = <<>>
      BY <1>1, <2>3, <3>2, <3>3 DEF TypeOK
    <3>5. due' \subseteq Due BY <1>1, <2>3, <3>2, OweType DEF TypeOK
    <3>6. TypeOK' BY <1>1, <1>7, <3>1, <3>4, <3>5 DEF TypeOK, Forget
    <3>7. ~closed BY <2>3 DEF QInv, ClosedIsQuiet
    <3>8. WithinLimits' /\ ClosedIsQuiet'
      BY <1>7, <3>7 DEF QInv, WithinLimits, ClosedIsQuiet, Forget
    <3>9. NoIdleSlot' BY <1>7, <3>4 DEF QInv, NoIdleSlot, Forget, Priority
    <3> QED BY <3>6, <3>8, <3>9 DEF QInv
  <2> QED BY <1>7, <2>1, <2>2, <2>3 DEF Forget
<1> QED BY <1>2, <1>4, <1>6, <1>7

\* Close drops what is queued and cancels what runs, under the mutex.
LEMMA CloseQ ==
    ASSUME QInv, Close
    PROVE  QInv'
<1>1. TypeOK BY DEF QInv
<1>2. \A t \in Tracks : job[t] \in Job BY <1>1 DEF TypeOK
<1>3. \A t \in Tracks :
         /\ [job[t] EXCEPT !.cancelled = @ \/ IsRunning(t)] \in Job
         /\ [job[t] EXCEPT !.cancelled = @ \/ IsRunning(t)].phase = job[t].phase
         /\ IsRunning(t) => [job[t] EXCEPT !.cancelled = @ \/ IsRunning(t)].cancelled
  <2> SUFFICES ASSUME NEW t \in Tracks, NEW c, c = (job[t].cancelled \/ IsRunning(t))
               PROVE  /\ [job[t] EXCEPT !.cancelled = c] \in Job
                      /\ [job[t] EXCEPT !.cancelled = c].phase = job[t].phase
                      /\ IsRunning(t) => [job[t] EXCEPT !.cancelled = c].cancelled
    OBVIOUS
  <2>1. c \in BOOLEAN /\ (IsRunning(t) => c) BY <1>2 DEF Job
  <2>2. [job[t] EXCEPT !.cancelled = c] \in Job BY <1>2, <2>1, JobTypes
  <2>3. /\ [job[t] EXCEPT !.cancelled = c].phase = job[t].phase
        /\ [job[t] EXCEPT !.cancelled = c].cancelled = c
    BY <1>2 DEF Job
  <2> QED BY <2>1, <2>2, <2>3
<1>4. NoJob.phase = "none" BY DEF NoJob, NewJob
<1>5. job' \in [Tracks -> Job] BY <1>3, JobTypes DEF Close
<1>6. due' \subseteq Due
  <2>1. \A t \in Tracks : job[t].waiters \in SUBSET Waiters BY <1>2 DEF Job
  <2>2. \A t \in Tracks : Owe(t, job[t].waiters) \subseteq Due BY <2>1, OweType
  <2> QED BY <1>1, <2>2 DEF TypeOK, Close
<1>7. waiting' \in [Priority -> Seq(Tracks)] /\ \A p \in Priority : waiting'[p] = <<>>
  BY EmptySeq DEF Close
<1>8. TypeOK' BY <1>1, <1>5, <1>6, <1>7 DEF TypeOK, Close
<1>9. WithinLimits' BY DEF QInv, WithinLimits, Close
<1>10. NoIdleSlot' BY <1>7 DEF NoIdleSlot, Priority
<1>11. \A t \in Tracks : ~IsQueued(t)' /\ (IsRunning(t)' => job'[t].cancelled)
  BY <1>3, <1>4 DEF Close, IsQueued, IsRunning, RunPhases
<1>12. ClosedIsQuiet' BY <1>7, <1>11 DEF ClosedIsQuiet
<1> QED BY <1>8, <1>9, <1>10, <1>12 DEF QInv

\* Every step preserves the queue's invariant.
LEMMA StepQ == QInv /\ [Next]_vars => QInv'
<1> SUFFICES ASSUME QInv, [Next]_vars PROVE QInv' OBVIOUS
<1>1. CASE Callers BY <1>1, CallersQ
<1>2. ASSUME NEW t \in Tracks, RunStep(t) PROVE QInv' BY <1>2, RunStepQ
<1>3. CASE Callbacks BY <1>3, AnswerQ DEF Callbacks
<1>4. CASE Editors BY <1>4, EditorsQ
<1>5. CASE Close BY <1>5, CloseQ
<1>6. CASE UNCHANGED vars
  BY <1>6 DEF QInv, TypeOK, WithinLimits, NoIdleSlot, ClosedIsQuiet, IsQueued, IsRunning, vars
<1> QED BY <1>1, <1>2, <1>3, <1>4, <1>5, <1>6 DEF Next

\* So it always holds.
THEOREM QueueInvariance == Spec => []QInv
BY InitQ, StepQ, PTL DEF Spec

\* Every variable keeps its type, whatever is asked for, edited or closed.
THEOREM TypeCorrect == Spec => []TypeOK
BY QueueInvariance, PTL DEF QInv

\* No more than maxRunning analyses are counted as running, and no more than
\* maxBackground of them as Background work.
THEOREM LimitsKept == Spec => []WithinLimits
BY QueueInvariance, PTL DEF QInv

\* No slot stays free that a waiting job of its priority may use.
THEOREM NoSlotIdle == Spec => []NoIdleSlot
BY QueueInvariance, PTL DEF QInv

----------------------------------------------------------------------------
(***************************************************************************)
(* Close.                                                                  *)
(***************************************************************************)

\* After Close no step starts an analysis, and those that run stay cancelled:
\* dispatchLocked is out of reach, and nothing else starts a job.
THEOREM NothingStartsOnceClosed == Spec => NothingStartsAfterClose
<1>1. ASSUME QInv, QInv', [Next]_vars
      PROVE  [closed => /\ \A t \in Tracks : ~StartedNow(t)
                        /\ \A t \in Tracks : (IsRunning(t) /\ IsRunning(t)')
                                                 => job'[t].cancelled]_vars
  <2> SUFFICES ASSUME Next, closed
               PROVE  /\ \A t \in Tracks : ~StartedNow(t)
                      /\ \A t \in Tracks : IsRunning(t)' => job'[t].cancelled
    BY <1>1
  <2>1. TypeOK /\ \A t \in Tracks : job[t] \in Job BY <1>1 DEF QInv, TypeOK
  <2>2. NoJob.phase = "none" BY DEF NoJob, NewJob
  <2>3. closed' /\ \A t \in Tracks : IsRunning(t)' => IsRunning(t)
    <3>1. CASE Callers
      BY <2>1, <3>1 DEF Callers, RequestRefused, Request, IsRunning
    <3>2. ASSUME NEW t \in Tracks, RunStep(t)
          PROVE  closed' /\ \A u \in Tracks : IsRunning(u)' => IsRunning(u)
      <4>1. CASE Finish(t)
        BY <2>1, <2>2, <4>1 DEF TypeOK, Finish, IsRunning, RunPhases
      <4>2. CASE ~Finish(t)
        <5>1. IsRunning(t) /\ \E ph, r : Advance(t, ph, r)
          BY <3>2, <4>2 DEF RunStep, Look, Import, Analyzed, Stopped, Failed, Keep, Reread,
                            IsRunning, RunPhases
        <5>2. closed' /\ \A u \in Tracks : u # t => job'[u] = job[u]
          BY <2>1, <5>1 DEF TypeOK, Advance
        <5> QED BY <5>1, <5>2 DEF IsRunning
      <4> QED BY <4>1, <4>2
    <3>3. CASE Callbacks BY <3>3 DEF Callbacks, Answer, IsRunning
    <3>4. CASE Editors
      <4>1. PICK t \in Tracks :
               Set(t) \/ CancelReplaced(t) \/ Invalidate(t) \/ Remove(t) \/ Forget(t)
        BY <3>4, TracksAssumption DEF Editors
      <4>2. closed' = closed /\ (job' = job \/ CancelReplaced(t) \/ Forget(t))
        BY <4>1 DEF Set, CancelReplaced, Invalidate, Remove, Forget
      <4>3. \A u \in Tracks : u # t => job'[u] = job[u]
        BY <2>1, <4>2 DEF TypeOK, CancelReplaced, Forget
      <4>4. job'[t].phase = job[t].phase \/ job'[t].phase = "none"
        <5>1. CASE job' = job BY <5>1
        <5>2. CASE CancelReplaced(t) BY <2>1, <5>2 DEF TypeOK, Job, CancelReplaced
        <5>3. CASE Forget(t) BY <2>1, <2>2, <5>3 DEF TypeOK, Job, Forget
        <5> QED BY <4>2, <5>1, <5>2, <5>3
      <4> QED BY <4>2, <4>3, <4>4 DEF IsRunning, RunPhases
    <3>5. ~Close BY DEF Close
    <3> QED BY <3>1, <3>2, <3>3, <3>4, <3>5 DEF Next
  <2> QED BY <1>1, <2>3 DEF QInv, ClosedIsQuiet, StartedNow
<1> QED BY <1>1, QueueInvariance, PTL DEF Spec, NothingStartsAfterClose

----------------------------------------------------------------------------
(***************************************************************************)
(* The store.                                                              *)
(***************************************************************************)

\* A run's result never replaces one the track gained meanwhile.
THEOREM GivenIsKept == Spec => KeepsGiven
<1>1. ASSUME TypeOK, [Next]_vars
      PROVE  [\A t \in Tracks : (stored[t] # None /\ stored'[t] = Made) => stored[t] = Made]_vars
  <2> SUFFICES ASSUME Next, NEW t \in Tracks, stored[t] # None, stored'[t] # stored[t]
               PROVE  stored'[t] # Made
    BY <1>1
  <2> USE DEF Made, Given, None
  <2>1. CASE Callers BY <2>1 DEF Callers, RequestRefused, Request
  <2>2. ASSUME NEW u \in Tracks, RunStep(u) PROVE FALSE
    BY <1>1, <2>2 DEF TypeOK, RunStep, Look, Import, Analyzed, Stopped, Failed, Keep, Reread, Finish
  <2>3. CASE Callbacks BY <2>3 DEF Callbacks, Answer
  <2>4. CASE Editors
    BY <1>1, <2>4, TracksAssumption
    DEF TypeOK, Editors, Set, CancelReplaced, Invalidate, Remove, Forget
  <2>5. CASE Close BY <2>5 DEF Close
  <2> QED BY <2>1, <2>2, <2>3, <2>4, <2>5 DEF Next
<1> QED BY <1>1, TypeCorrect, PTL DEF Spec, KeepsGiven

----------------------------------------------------------------------------
(***************************************************************************)
(* Callbacks.  A step adds a waiter to a job, hands the waiters of jobs it *)
(* takes out of the map to a goroutine that calls them, calls one of them, *)
(* or leaves the waiters where they are; and a job that is not in the map  *)
(* has none.                                                               *)
(***************************************************************************)

HeldOnce(w) ==
    \/ asking[w] = NoTrack /\ InJobs(w) = {} /\ InDue(w) = {}
    \/ /\ InJobs(w) = {asking[w]} /\ InDue(w) = {}
       /\ job[asking[w]].phase # "none"
    \/ InJobs(w) = {} /\ \E d \in due : InDue(w) = {d} /\ d.track = asking[w]

NobodyWaitsForNoJob == \A t \in Tracks : job[t].phase = "none" => job[t].waiters = {}

WInv == TypeOK /\ NobodyWaitsForNoJob /\ CalledOnce

\* A step that leaves track t's waiters where they are, and its job in the map.
Undisturbed(t) ==
    /\ job'[t].waiters = job[t].waiters
    /\ job'[t].phase = "none" => job[t].phase = "none"

\* A caller that was not waiting joins the job of track t.
LEMMA JoinKeepsCalls ==
    ASSUME WInv, NEW t \in Tracks, NEW ws \in Callback, Ask(t, ws), due' = due,
           job'[t].phase # "none", job'[t].waiters = job[t].waiters \cup ws,
           \A u \in Tracks \ {t} : Undisturbed(u)
    PROVE  NobodyWaitsForNoJob' /\ CalledOnce'
<1>1. NobodyWaitsForNoJob' BY DEF WInv, NobodyWaitsForNoJob, Undisturbed
<1>2. ASSUME NEW w \in Waiters PROVE HeldOnce(w)'
  <2>1. HeldOnce(w) /\ asking[w] \in Tracks \cup {NoTrack}
    BY DEF WInv, CalledOnce, HeldOnce, TypeOK
  <2>2. InDue(w)' = InDue(w) BY DEF InDue
  <2>3. CASE w \in ws
    <3>1. asking[w] = NoTrack BY <2>3 DEF Callback
    <3>2. InJobs(w) = {} /\ InDue(w) = {}
      BY <2>1, <3>1, NoTrackAssumption DEF WInv, TypeOK, Due, HeldOnce, InJobs
    <3>3. asking'[w] = t BY <2>3 DEF Ask
    <3>4. InJobs(w)' = {t} BY <2>3, <3>2 DEF InJobs, Undisturbed
    <3> QED BY <2>2, <3>2, <3>3, <3>4 DEF HeldOnce
  <2>4. CASE w \notin ws
    <3>1. asking'[w] = asking[w] BY <2>4 DEF Ask
    <3>2. InJobs(w)' = InJobs(w) BY <2>4 DEF InJobs, Undisturbed
    <3>3. asking[w] \in Tracks /\ job[asking[w]].phase # "none" => job'[asking[w]].phase # "none"
      BY DEF Undisturbed
    <3>4. InJobs(w) \subseteq Tracks BY DEF InJobs
    <3> QED BY <2>1, <2>2, <3>1, <3>2, <3>3, <3>4 DEF HeldOnce
  <2> QED BY <2>3, <2>4
<1> QED BY <1>1, <1>2 DEF CalledOnce, HeldOnce

\* The waiters of the jobs of tracks D are handed over.
LEMMA HandOverKeepsCalls ==
    ASSUME WInv, NEW D \in SUBSET Tracks, asking' = asking,
           due' = due \cup UNION {Owe(t, job[t].waiters) : t \in D},
           \A t \in D : job'[t].waiters = {},
           \A t \in Tracks \ D : Undisturbed(t)
    PROVE  NobodyWaitsForNoJob' /\ CalledOnce'
<1>1. NobodyWaitsForNoJob' BY DEF WInv, NobodyWaitsForNoJob, Undisturbed
<1>2. ASSUME NEW w \in Waiters PROVE HeldOnce(w)'
  <2>1. HeldOnce(w) /\ asking[w] \in Tracks \cup {NoTrack}
    BY DEF WInv, CalledOnce, HeldOnce, TypeOK
  <2>2. InJobs(w)' = InJobs(w) \ D BY DEF InJobs, Undisturbed
  <2> DEFINE rec(t) == [track |-> t, waiters |-> job[t].waiters]
  <2>3. InDue(w)' = InDue(w) \cup {rec(t) : t \in InJobs(w) \cap D}
    BY DEF InDue, InJobs, Owe
  <2> HIDE DEF rec
  <2>4. CASE InJobs(w) \cap D = {}
    <3>1. InJobs(w)' = InJobs(w) /\ InDue(w)' = InDue(w) BY <2>2, <2>3, <2>4
    <3>2. \A t \in InJobs(w) : job[t].phase # "none" => job'[t].phase # "none"
      BY <2>4 DEF InJobs, Undisturbed
    <3> QED BY <2>1, <3>1, <3>2 DEF HeldOnce
  <2>5. CASE InJobs(w) \cap D # {}
    <3>1. InJobs(w) = {asking[w]} /\ InDue(w) = {} BY <2>1, <2>5 DEF HeldOnce
    <3>2. InJobs(w)' = {} BY <2>2, <2>5, <3>1
    <3>3. InDue(w)' = {rec(asking[w])} BY <2>3, <2>5, <3>1
    <3>4. rec(asking[w]) \in due' BY <3>3 DEF InDue
    <3>5. rec(asking[w]).track = asking'[w] BY DEF rec
    <3> QED BY <3>2, <3>3, <3>4, <3>5 DEF HeldOnce
  <2> QED BY <2>4, <2>5
<1> QED BY <1>1, <1>2 DEF CalledOnce, HeldOnce

\* Nobody joins and nothing is handed over.
LEMMA StillKeepsCalls ==
    ASSUME WInv, asking' = asking, due' = due, \A t \in Tracks : Undisturbed(t)
    PROVE  NobodyWaitsForNoJob' /\ CalledOnce'
<1>1. UNION {Owe(t, job[t].waiters) : t \in {}} = {} OBVIOUS
<1> QED BY <1>1, HandOverKeepsCalls

\* A goroutine makes one of the callbacks it owes.
LEMMA AnswerKeepsCalls ==
    ASSUME WInv, NEW d \in due, NEW v \in Waiters, Answer(d, v)
    PROVE  NobodyWaitsForNoJob' /\ CalledOnce'
<1>1. job' = job BY DEF Answer
<1>2. NobodyWaitsForNoJob' BY <1>1 DEF WInv, NobodyWaitsForNoJob
<1>3. d.track \in Tracks /\ d.waiters \in SUBSET Waiters /\ v \in d.waiters
  BY DEF WInv, TypeOK, Due, Answer
<1>4. ASSUME NEW w \in Waiters PROVE HeldOnce(w)'
  <2>1. HeldOnce(w) /\ asking[w] \in Tracks \cup {NoTrack}
    BY DEF WInv, CalledOnce, HeldOnce, TypeOK
  <2>2. InJobs(w)' = InJobs(w) BY <1>1 DEF InJobs
  <2>3. asking'[w] = IF w = v THEN NoTrack ELSE asking[w]
    BY DEF WInv, TypeOK, Answer
  <2> DEFINE rest == [track |-> d.track, waiters |-> d.waiters \ {v}]
  <2>4. /\ rest.track = d.track /\ rest.waiters = d.waiters \ {v}
        /\ due' = (due \ {d}) \cup (IF d.waiters \ {v} = {} THEN {} ELSE {rest})
    BY DEF Answer, Owe
  <2> HIDE DEF rest
  <2>5. CASE w \in d.waiters
    <3>1. InJobs(w) = {} /\ InDue(w) = {d} /\ d.track = asking[w]
      BY <2>1, <2>5 DEF HeldOnce, InDue
    <3>2. CASE w = v
      <4>1. InDue(w)' = {} BY <2>4, <3>1, <3>2 DEF InDue
      <4> QED BY <2>2, <2>3, <3>1, <3>2, <4>1 DEF HeldOnce
    <3>3. CASE w # v
      <4>1. InDue(w)' = {rest} /\ rest \in due' BY <2>4, <2>5, <3>1, <3>3 DEF InDue
      <4> QED BY <2>2, <2>3, <2>4, <3>1, <3>3, <4>1 DEF HeldOnce
    <3> QED BY <3>2, <3>3
  <2>6. CASE w \notin d.waiters
    <3>1. InDue(w)' = InDue(w) BY <2>4, <2>6 DEF InDue
    <3>2. asking'[w] = asking[w] BY <1>3, <2>3, <2>6
    <3>3. InDue(w) \subseteq due' BY <2>4, <2>6 DEF InDue
    <3> QED BY <1>1, <2>1, <2>2, <3>1, <3>2, <3>3 DEF HeldOnce
  <2> QED BY <2>5, <2>6
<1> QED BY <1>2, <1>4 DEF CalledOnce, HeldOnce

\* After Close a request's callback goes straight to a goroutine of its own.
LEMMA RefusalKeepsCalls ==
    ASSUME WInv, NEW t \in Tracks, NEW ws \in Callback, RequestRefused(t, ws)
    PROVE  NobodyWaitsForNoJob' /\ CalledOnce'
<1>1. job' = job BY DEF RequestRefused
<1>2. NobodyWaitsForNoJob' BY <1>1 DEF WInv, NobodyWaitsForNoJob
<1> DEFINE rec == [track |-> t, waiters |-> ws]
<1>3. rec.track = t /\ rec.waiters = ws /\ due' = due \cup {rec}
  BY DEF RequestRefused, Owe
<1> HIDE DEF rec
<1>4. ASSUME NEW w \in Waiters PROVE HeldOnce(w)'
  <2>1. HeldOnce(w) /\ asking[w] \in Tracks \cup {NoTrack}
    BY DEF WInv, CalledOnce, HeldOnce, TypeOK
  <2>2. InJobs(w)' = InJobs(w) BY <1>1 DEF InJobs
  <2>3. asking'[w] = IF w \in ws THEN t ELSE asking[w]
    BY DEF RequestRefused, Ask
  <2>4. CASE w \in ws
    <3>1. asking[w] = NoTrack BY <2>4 DEF Callback
    <3>2. InJobs(w) = {} /\ InDue(w) = {}
      BY <2>1, <3>1, NoTrackAssumption DEF WInv, TypeOK, Due, HeldOnce, InJobs
    <3>3. InDue(w)' = {rec} BY <1>3, <2>4, <3>2 DEF InDue
    <3> QED BY <1>3, <2>2, <2>3, <2>4, <3>2, <3>3 DEF HeldOnce
  <2>5. CASE w \notin ws
    <3>1. InDue(w)' = InDue(w) BY <1>3, <2>5 DEF InDue
    <3> QED BY <1>1, <1>3, <2>1, <2>2, <2>3, <2>5, <3>1 DEF HeldOnce
  <2> QED BY <2>4, <2>5
<1> QED BY <1>2, <1>4 DEF CalledOnce, HeldOnce

\* A request joins a job, new or not, or is refused.
LEMMA CallersKeepCalls ==
    ASSUME QInv, WInv, Callers
    PROVE  NobodyWaitsForNoJob' /\ CalledOnce'
<1>1. \A t \in Tracks : job[t] \in Job BY DEF WInv, TypeOK
<1>2. PICK t \in Tracks, ws \in Callback :
         RequestRefused(t, ws) \/ \E p \in Priority : Request(t, p, ws)
  BY DEF Callers
<1>3. CASE RequestRefused(t, ws) BY <1>3, RefusalKeepsCalls
<1>4. ASSUME NEW p \in Priority, Request(t, p, ws)
      PROVE  NobodyWaitsForNoJob' /\ CalledOnce'
  <2>1. ASSUME NEW j, NEW q, DispatchLocked(j, q, running), j[t] \in Job,
               j[t].phase # "none", j[t].waiters = job[t].waiters \cup ws,
               \A u \in Tracks \ {t} : j[u] = job[u]
        PROVE  NobodyWaitsForNoJob' /\ CalledOnce'
    <3>1. \A u \in Tracks : j[u] \in Job BY <1>1, <2>1
    <3>2. \A u \in Tracks : job'[u] \in {j[u], Started(j[u])}
      BY <2>1 DEF DispatchLocked
    <3>3. job'[t].phase # "none" /\ job'[t].waiters = job[t].waiters \cup ws
      BY <2>1, <3>1, <3>2, StartedType
    <3>4. \A u \in Tracks \ {t} : Undisturbed(u)
      BY <1>1, <2>1, <3>2, StartedType DEF Undisturbed
    <3>5. Ask(t, ws) /\ due' = due BY <1>4 DEF Request
    <3> QED BY <3>3, <3>4, <3>5, JoinKeepsCalls
  <2>2. ws \in SUBSET Waiters BY DEF Callback
  <2>3. CASE Enqueue(t, p, ws)
    <3> DEFINE j == [job EXCEPT ![t] = NewJob(p, ws)]
    <3>1. j[t] = NewJob(p, ws) /\ \A u \in Tracks \ {t} : j[u] = job[u]
      BY DEF WInv, TypeOK
    <3>2. NewJob(p, ws) \in Job BY <2>2, JobTypes
    <3>3. NewJob(p, ws).phase # "none" /\ NewJob(p, ws).waiters = ws BY DEF NewJob
    <3>4. job[t].waiters = {} BY <2>3 DEF WInv, NobodyWaitsForNoJob, Enqueue
    <3>5. \E q : DispatchLocked(j, q, running) BY <2>3 DEF Enqueue
    <3> HIDE DEF j
    <3> QED BY <2>1, <3>1, <3>2, <3>3, <3>4, <3>5
  <2>4. CASE MoveUp(t, p, ws)
    <3> DEFINE j == [job EXCEPT ![t].prio = p, ![t].waiters = @ \cup ws]
               jt == [job[t] EXCEPT !.prio = p, !.waiters = @ \cup ws]
    <3>1. j[t] = jt /\ \A u \in Tracks \ {t} : j[u] = job[u] BY DEF WInv, TypeOK
    <3>2. jt \in Job BY <1>1, <2>2, JobTypes
    <3>3. jt.phase = job[t].phase /\ jt.waiters = job[t].waiters \cup ws
      BY <1>1 DEF Job
    <3>4. job[t].phase # "none" BY <2>4 DEF MoveUp, IsQueued
    <3>5. \E q : DispatchLocked(j, q, running) BY <2>4 DEF MoveUp
    <3> HIDE DEF j, jt
    <3> QED BY <2>1, <3>1, <3>2, <3>3, <3>4, <3>5
  <2>5. CASE Join(t, p, ws)
    <3> DEFINE j == [job EXCEPT ![t].waiters = @ \cup ws]
               jt == [job[t] EXCEPT !.waiters = @ \cup ws]
    <3>1. j[t] = jt /\ \A u \in Tracks \ {t} : j[u] = job[u] BY DEF WInv, TypeOK
    <3>2. jt \in Job BY <1>1, <2>2, JobTypes
    <3>3. jt.phase = job[t].phase /\ jt.waiters = job[t].waiters \cup ws
      BY <1>1 DEF Job
    <3>4. job[t].phase # "none" BY <2>5 DEF Join, IsQueued, IsRunning, RunPhases
    <3>5. \E q : DispatchLocked(j, q, running) BY <2>5 DEF Join
    <3> HIDE DEF j, jt
    <3> QED BY <2>1, <3>1, <3>2, <3>3, <3>4, <3>5
  <2> QED BY <1>4, <2>3, <2>4, <2>5 DEF Request
<1> QED BY <1>2, <1>3, <1>4

\* A run's end hands its waiters over; its other steps keep them.
LEMMA RunStepKeepsCalls ==
    ASSUME QInv, WInv, NEW t \in Tracks, RunStep(t)
    PROVE  NobodyWaitsForNoJob' /\ CalledOnce'
<1>1. \A u \in Tracks : job[u] \in Job BY DEF WInv, TypeOK
<1>2. CASE Finish(t)
  <2> DEFINE j == [job EXCEPT ![t] = NoJob]
  <2>1. \A u \in Tracks : j[u] = IF u = t THEN NoJob ELSE job[u]
    BY DEF WInv, TypeOK
  <2>2. NoJob \in Job /\ NoJob.waiters = {} BY JobTypes DEF NoJob, NewJob
  <2>3. \A u \in Tracks : job'[u] \in {j[u], Started(j[u])}
    <3>1. CASE \E r : DispatchLocked(j, waiting, r) BY <3>1 DEF DispatchLocked
    <3>2. CASE job' = j BY <3>2
    <3> QED BY <1>2, <3>1, <3>2 DEF Finish
  <2> HIDE DEF j
  <2> DEFINE D == {t}
  <2>4. \A u \in D : job'[u].waiters = {} BY <2>1, <2>2, <2>3, StartedType
  <2>5. \A u \in Tracks \ D : Undisturbed(u)
    BY <1>1, <2>1, <2>3, StartedType DEF Undisturbed
  <2>6. due' = due \cup UNION {Owe(u, job[u].waiters) : u \in D}
    BY <1>2 DEF Finish
  <2>7. asking' = asking BY <1>2 DEF Finish
  <2>8. D \in SUBSET Tracks OBVIOUS
  <2> HIDE DEF D
  <2> QED BY <2>4, <2>5, <2>6, <2>7, <2>8, HandOverKeepsCalls
<1>3. CASE ~Finish(t)
  <2>1. /\ job[t].phase # "none"
        /\ \E ph \in RunPhases : \E r : Advance(t, ph, r)
    BY <1>3 DEF RunStep, Look, Import, Analyzed, Stopped, Failed, Keep, Reread, RunPhases
  <2>2. PICK ph \in RunPhases : \E r : Advance(t, ph, r) BY <2>1
  <2>3. PICK r : Advance(t, ph, r) BY <2>2
  <2>4. /\ job' = [job EXCEPT ![t] = [job[t] EXCEPT !.phase = ph, !.res = r]]
        /\ asking' = asking /\ due' = due
    BY <2>3 DEF Advance
  <2>5. job'[t].waiters = job[t].waiters /\ job'[t].phase = ph
    BY <1>1, <2>4 DEF WInv, TypeOK, Job
  <2>6. \A u \in Tracks : Undisturbed(u)
    BY <2>1, <2>2, <2>4, <2>5 DEF WInv, TypeOK, Undisturbed, RunPhases
  <2> QED BY <2>4, <2>6, StillKeepsCalls
<1> QED BY <1>2, <1>3

\* Forgetting a queued job hands its waiters over.
LEMMA EditorsKeepCalls ==
    ASSUME QInv, WInv, Editors
    PROVE  NobodyWaitsForNoJob' /\ CalledOnce'
<1>1. \A u \in Tracks : job[u] \in Job BY DEF WInv, TypeOK
<1>2. PICK t \in Tracks :
         Set(t) \/ CancelReplaced(t) \/ Invalidate(t) \/ Remove(t) \/ Forget(t)
  BY TracksAssumption DEF Editors
<1>3. asking' = asking BY <1>2 DEF Set, CancelReplaced, Invalidate, Remove, Forget
<1>4. CASE /\ due' = due
           /\ job' = job \/ \E c : job' = [job EXCEPT ![t].cancelled = c]
  <2>1. /\ \A u \in Tracks \ {t} : job'[u] = job[u]
        /\ job'[t].waiters = job[t].waiters
        /\ job'[t].phase = job[t].phase
    BY <1>1, <1>4 DEF WInv, TypeOK, Job
  <2> QED BY <1>3, <1>4, <2>1, StillKeepsCalls DEF Undisturbed
<1>5. CASE job' = [job EXCEPT ![t] = NoJob] /\ due' = due \cup Owe(t, job[t].waiters)
  <2> DEFINE D == {t}
  <2>1. \A u \in D : job'[u].waiters = {} BY <1>5 DEF WInv, TypeOK, NoJob, NewJob
  <2>2. \A u \in Tracks \ D : Undisturbed(u)
    BY <1>5 DEF WInv, TypeOK, Undisturbed
  <2>3. due' = due \cup UNION {Owe(u, job[u].waiters) : u \in D} BY <1>5
  <2>4. D \in SUBSET Tracks OBVIOUS
  <2> HIDE DEF D
  <2> QED BY <1>3, <2>1, <2>2, <2>3, <2>4, HandOverKeepsCalls
<1> QED BY <1>2, <1>4, <1>5 DEF Set, CancelReplaced, Invalidate, Remove, Forget

\* Close hands over the waiters of everything that is queued.
LEMMA CloseKeepsCalls ==
    ASSUME QInv, WInv, Close
    PROVE  NobodyWaitsForNoJob' /\ CalledOnce'
<1> DEFINE D == {u \in Tracks : IsQueued(u)}
<1>1. \A t \in D : job'[t].waiters = {} BY DEF Close, NoJob, NewJob
<1>2. ASSUME NEW t \in Tracks \ D PROVE Undisturbed(t)
  <2>1. job[t] \in Job BY DEF WInv, TypeOK
  <2>2. job'[t] = [job[t] EXCEPT !.cancelled = @ \/ IsRunning(t)] BY DEF Close
  <2> QED BY <2>1, <2>2 DEF Undisturbed, Job
<1>3. /\ asking' = asking
      /\ due' = due \cup UNION {Owe(t, job[t].waiters) : t \in D}
  BY DEF Close
<1> HIDE DEF D
<1>4. D \in SUBSET Tracks BY DEF D
<1> QED BY <1>1, <1>2, <1>3, <1>4, HandOverKeepsCalls

\* Every outstanding callback is held in one place and every other in none,
\* through promotion, cancellation, removal and shutdown: no caller is called
\* twice or forgotten.
THEOREM CallbacksCalledOnce == Spec => []CalledOnce
<1>1. Init => NobodyWaitsForNoJob /\ CalledOnce
  <2> SUFFICES ASSUME Init PROVE NobodyWaitsForNoJob /\ CalledOnce
    OBVIOUS
  <2>1. \A t \in Tracks : job[t].waiters = {} BY DEF Init, NoJob, NewJob
  <2>2. \A w \in Waiters : asking[w] = NoTrack /\ InDue(w) = {} BY DEF Init, InDue
  <2>3. \A w \in Waiters : InJobs(w) = {} BY <2>1 DEF InJobs
  <2> QED BY <2>1, <2>2, <2>3 DEF NobodyWaitsForNoJob, CalledOnce
<1>2. QInv /\ NobodyWaitsForNoJob /\ CalledOnce /\ [Next]_vars
         => NobodyWaitsForNoJob' /\ CalledOnce'
  <2> SUFFICES ASSUME QInv, NobodyWaitsForNoJob, CalledOnce, [Next]_vars
               PROVE  NobodyWaitsForNoJob' /\ CalledOnce'
    OBVIOUS
  <2>1. WInv BY DEF QInv, WInv
  <2>2. CASE Callers BY <2>1, <2>2, CallersKeepCalls
  <2>3. ASSUME NEW t \in Tracks, RunStep(t) PROVE NobodyWaitsForNoJob' /\ CalledOnce'
    BY <2>1, <2>3, RunStepKeepsCalls
  <2>4. CASE Callbacks BY <2>1, <2>4, AnswerKeepsCalls DEF Callbacks
  <2>5. CASE Editors BY <2>1, <2>5, EditorsKeepCalls
  <2>6. CASE Close BY <2>1, <2>6, CloseKeepsCalls
  <2>7. CASE UNCHANGED vars
    BY <2>1, <2>7, StillKeepsCalls DEF vars, Undisturbed
  <2> QED BY <2>2, <2>3, <2>4, <2>5, <2>6, <2>7 DEF Next
<1> QED BY <1>1, <1>2, QueueInvariance, PTL DEF Spec

----------------------------------------------------------------------------
(***************************************************************************)
(* The queue is an AnswerService, but for its promise to answer once it is *)
(* settled, which is a liveness property and stays with TLC.               *)
(***************************************************************************)

\* A step lets a caller ask, answers one that asked, settles the service or
\* leaves it alone.
THEOREM AnswersOnlyWhoAsked == Spec => Service!Init /\ [][Service!Next]_(Service!vars)
<1>1. Init => Service!Init BY DEF Init, Service!Init
<1>2. ASSUME TypeOK, CalledOnce, [Next]_vars PROVE [Service!Next]_(Service!vars)
  <2> USE DEF Service!vars
  <2>1. ASSUME NEW t \in Tracks, NEW ws \in Callback, Ask(t, ws), closed' = closed
        PROVE  [Service!Next]_(Service!vars)
    <3>1. CASE ws = {} BY <1>2, <2>1, <3>1 DEF TypeOK, Ask
    <3>2. ASSUME NEW w \in Waiters, asking[w] = NoTrack, ws = {w} PROVE Service!Ask(w, t)
      BY <1>2, <2>1, <3>2 DEF TypeOK, Ask, Service!Ask
    <3> QED BY <2>1, <3>1, <3>2 DEF Callback, Service!Next
  <2>2. CASE Callers
    BY <2>1, <2>2 DEF Callers, RequestRefused, Request
  <2>3. ASSUME NEW t \in Tracks, RunStep(t) PROVE UNCHANGED <<asking, closed>>
    BY <2>3 DEF RunStep, Look, Import, Analyzed, Stopped, Failed, Keep, Reread, Finish, Advance
  <2>4. ASSUME NEW d \in due, NEW w \in Waiters, Answer(d, w) PROVE Service!Answer(w)
    <3>1. InDue(w) # {} BY <2>4 DEF Answer, InDue
    <3>2. asking[w] # NoTrack
      BY <1>2, <3>1, NoTrackAssumption DEF CalledOnce, TypeOK, Due, InDue
    <3> QED BY <2>4, <3>2 DEF Answer, Service!Answer
  <2>5. CASE Editors
    BY <2>5 DEF Editors, Set, CancelReplaced, Invalidate, Remove, Forget
  <2>6. CASE Close BY <2>6 DEF Close, Service!Settle, Service!Next
  <2>7. CASE UNCHANGED vars BY <2>7 DEF vars
  <2> QED BY <1>2, <2>2, <2>3, <2>4, <2>5, <2>6, <2>7 DEF Next, Callbacks, Service!Next
<1> QED BY <1>1, <1>2, TypeCorrect, CallbacksCalledOnce, PTL DEF Spec
============================================================================
