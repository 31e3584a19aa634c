---------------------------- MODULE SaverProofs ----------------------------
(***************************************************************************)
(* What Saver guarantees for any number of mutators and Flush callers and  *)
(* any number of changes.                                                  *)
(*                                                                         *)
(* The argument: the store holds the changes its file held when it was     *)
(* loaded, those counted in dirty, and one for each mutator between its    *)
(* change and its Mark.  A Flush loads dirty before it takes its snapshot, *)
(* so the snapshot holds at least the changes that generation counts, and  *)
(* s.mu keeps file, saved, gen and snap from changing under it.            *)
(***************************************************************************)
EXTENDS Saver, FiniteSetTheorems, TLAPS

----------------------------------------------------------------------------
(***************************************************************************)
(* The inductive invariant.                                                *)
(***************************************************************************)

Counted == version = base + dirty + Cardinality(Uncounted)

Writing(f) == flush[f] \in {"snapshot", "write"}

\* Only the holder of s.mu is past its check, with a generation no older than
\* the one saved.
HolderWrites == \A f \in Flushers : Writing(f) =>
    /\ mu = f
    /\ saved <= gen[f]
    /\ gen[f] <= dirty

SnapshotCovers == \A f \in Flushers : flush[f] = "write" =>
    /\ base + gen[f] <= snap[f]
    /\ file <= snap[f]
    /\ snap[f] <= version

FileBetween ==
    /\ base + saved <= file
    /\ file <= version
    /\ saved <= dirty

\* Close calls Flush once it has waited for the goroutine; from then on, what
\* was marked when Close was called is covered by the generation it writes or,
\* when it is done, by the one saved.
ClosePhases ==
    /\ atClose <= dirty
    /\ closer # "flushing" => flush[Closer] = "out"
    /\ Writing(Closer) => atClose <= gen[Closer]
    /\ (closer \in {"flushing", "closed"} /\ flush[Closer] = "out" /\ ~closeErr)
          => atClose <= saved

IInv == TypeOK /\ Counted /\ HolderWrites /\ SnapshotCovers /\ FileBetween /\ ClosePhases

----------------------------------------------------------------------------

\* The number of mutators between a change and its Mark is a number, it goes
\* up with a change and down with the first step of a Mark.
LEMMA UncountedFinite ==
    ASSUME TypeOK
    PROVE  IsFiniteSet(Uncounted) /\ Cardinality(Uncounted) \in Nat
BY SaverAssumption, FS_Subset, FS_CardinalityType DEF Uncounted

\* Up with a change.
LEMMA UncountedAdd ==
    ASSUME TypeOK, NEW m \in Mutators, mark[m] # "add",
           mark' = [mark EXCEPT ![m] = "add"]
    PROVE  Cardinality(Uncounted') = Cardinality(Uncounted) + 1
<1>1. Uncounted' = Uncounted \cup {m} /\ m \notin Uncounted
  BY DEF Uncounted, TypeOK
<1> QED BY <1>1, UncountedFinite, FS_AddElement

\* Down when Mark has counted it.
LEMMA UncountedRemove ==
    ASSUME TypeOK, NEW m \in Mutators, mark[m] = "add",
           mark' = [mark EXCEPT ![m] = "start"]
    PROVE  Cardinality(Uncounted') = Cardinality(Uncounted) - 1
<1>1. Uncounted' = Uncounted \ {m} /\ m \in Uncounted
  BY DEF Uncounted, TypeOK
<1> QED BY <1>1, UncountedFinite, FS_RemoveElement

\* Every other step leaves them alone.
LEMMA UncountedSame ==
    ASSUME TypeOK, NEW m \in Mutators, NEW s \in {"out", "kick"}, mark[m] # "add",
           mark' = [mark EXCEPT ![m] = s]
    PROVE  Uncounted' = Uncounted
BY DEF Uncounted, TypeOK

----------------------------------------------------------------------------

\* The first process, over a file that holds what the store holds.
LEMMA InitInv == Init => IInv
<1> SUFFICES ASSUME Init PROVE IInv OBVIOUS
<1> USE SaverAssumption
<1>1. TypeOK
  <2>1. mark \in [Mutators -> {"out", "add", "start", "kick"}] BY DEF Init
  <2>2. flush \in [Flushers -> {"out", "lock", "snapshot", "write"}] BY DEF Init
  <2>3. 0 \in 0..MaxVersion OBVIOUS
  <2> QED BY <2>1, <2>2, <2>3 DEF Init, TypeOK
<1>2. Uncounted = {} BY DEF Init, Uncounted
<1>3. Counted BY <1>2, FS_EmptySet DEF Init, Counted
<1>4. \A f \in Flushers : flush[f] = "out" BY DEF Init
<1>5. HolderWrites /\ SnapshotCovers
  BY <1>4 DEF HolderWrites, SnapshotCovers, Writing
<1>6. FileBetween BY DEF Init, FileBetween
<1>7. ClosePhases BY <1>4 DEF Init, ClosePhases, Writing, Flushers
<1> QED BY <1>1, <1>3, <1>5, <1>6, <1>7 DEF IInv

\* A change puts the store one ahead and its mutator among the uncounted.
LEMMA ChangeInv ==
    ASSUME IInv, NEW m \in Mutators, Change(m)
    PROVE  IInv'
<1> USE DEF storeVars, markVars, runVars, flushVars, histVars
<1>1. TypeOK /\ Counted BY DEF IInv
<1>2. TypeOK'
  <2>1. version' \in 0..MaxVersion BY <1>1, SaverAssumption DEF TypeOK, Change
  <2> QED BY <1>1, <2>1 DEF TypeOK, Change
<1>3. Counted'
  <2>1. Cardinality(Uncounted') = Cardinality(Uncounted) + 1
    BY <1>1, UncountedAdd DEF Change
  <2>2. Cardinality(Uncounted) \in Nat BY <1>1, UncountedFinite
  <2>3. version \in Int /\ base \in Int /\ dirty \in Int BY <1>1 DEF TypeOK
  <2> QED BY <1>1, <2>1, <2>2, <2>3 DEF Counted, Change
<1>4. HolderWrites' BY DEF IInv, HolderWrites, Writing, Change
<1>5. SnapshotCovers' BY DEF IInv, TypeOK, SnapshotCovers, Change
<1>6. FileBetween' BY DEF IInv, TypeOK, FileBetween, Change
<1>7. ClosePhases' BY DEF IInv, ClosePhases, Writing, Change
<1> QED BY <1>2, <1>3, <1>4, <1>5, <1>6, <1>7 DEF IInv

\* Mark counts a change that is already in place.
LEMMA MarkInv ==
    ASSUME IInv, NEW m \in Mutators, Mark(m)
    PROVE  IInv'
<1> USE DEF storeVars, markVars, runVars, flushVars, histVars
<1>1. TypeOK /\ Counted BY DEF IInv
<1>2. CASE MarkAdd(m)
  <2>1. /\ Cardinality(Uncounted') = Cardinality(Uncounted) - 1
        /\ Cardinality(Uncounted) >= 1
    <3>1. m \in Uncounted BY <1>2 DEF MarkAdd, Uncounted
    <3>2. Cardinality(Uncounted) # 0 BY <1>1, <3>1, UncountedFinite, FS_EmptySet
    <3>3. Cardinality(Uncounted) \in Nat BY <1>1, UncountedFinite
    <3>4. Cardinality(Uncounted') = Cardinality(Uncounted) - 1
      BY <1>1, <1>2, UncountedRemove DEF MarkAdd
    <3> QED BY <3>2, <3>3, <3>4
  <2>2. Cardinality(Uncounted) \in Nat BY <1>1, UncountedFinite
  <2>3. /\ version \in 0..MaxVersion /\ base \in 0..MaxVersion
        /\ dirty \in 0..MaxVersion /\ MaxVersion \in Nat
    BY <1>1, SaverAssumption DEF TypeOK
  <2>4. Counted' BY <1>1, <1>2, <2>1, <2>2, <2>3 DEF Counted, MarkAdd
  <2>5. dirty' \in 0..MaxVersion
    BY <1>1, <1>2, <2>1, <2>2, <2>3 DEF Counted, MarkAdd
  <2>6. TypeOK' BY <1>1, <1>2, <2>5 DEF TypeOK, MarkAdd
  <2>7. HolderWrites' BY <1>2 DEF IInv, TypeOK, HolderWrites, Writing, MarkAdd
  <2>8. SnapshotCovers' BY <1>2 DEF IInv, SnapshotCovers, MarkAdd
  <2>9. FileBetween' BY <1>2 DEF IInv, TypeOK, FileBetween, MarkAdd
  <2>10. ClosePhases' BY <1>2 DEF IInv, TypeOK, ClosePhases, Writing, MarkAdd
  <2> QED BY <2>4, <2>6, <2>7, <2>8, <2>9, <2>10 DEF IInv
<1>3. CASE MarkStart(m) \/ MarkKick(m)
  <2>1. TypeOK'
    <3>1. CASE MarkStart(m) BY <1>1, <3>1 DEF TypeOK, MarkStart
    <3>2. CASE MarkKick(m) BY <1>1, <3>2 DEF TypeOK, MarkKick
    <3> QED BY <1>3, <3>1, <3>2
  <2>2. Uncounted' = Uncounted
    BY <1>1, <1>3, UncountedSame DEF MarkStart, MarkKick
  <2>3. Counted' BY <1>1, <1>3, <2>2 DEF Counted, MarkStart, MarkKick
  <2> QED BY <1>3, <2>1, <2>3
       DEF IInv, HolderWrites, SnapshotCovers, FileBetween, ClosePhases, Writing,
           MarkStart, MarkKick
<1> QED BY <1>2, <1>3 DEF Mark

\* A step that leaves the changes, the marks and their count alone keeps the
\* three in balance.
LEMMA SameStore ==
    ASSUME IInv, UNCHANGED <<version, base, mark, dirty>>
    PROVE  Counted'
<1>1. Uncounted' = Uncounted BY DEF Uncounted
<1> QED BY <1>1 DEF IInv, Counted

\* The end of a Flush keeps the types of what it touches.
LEMMA FlushEndType ==
    ASSUME TypeOK, NEW f \in Flushers, FlushEnd(f)
    PROVE  /\ mu' \in Flushers \cup {NoOne}
           /\ flush' \in [Flushers -> {"out", "lock", "snapshot", "write"}]
           /\ gen' \in [Flushers -> 0..MaxVersion]
           /\ snap' \in [Flushers -> 0..MaxVersion]
<1>1. 0 \in 0..MaxVersion BY SaverAssumption
<1> QED BY <1>1 DEF TypeOK, FlushEnd

\* A Flush: the lock loads a generation that is at least the one saved, the
\* snapshot holds what that generation counts, and the write records both.
LEMMA FlushInv ==
    ASSUME IInv, NEW f \in Flushers, FlushStep(f)
    PROVE  IInv'
<1> USE DEF storeVars, markVars, runVars, flushVars, histVars
<1>1. TypeOK /\ HolderWrites /\ SnapshotCovers /\ FileBetween /\ ClosePhases
  BY DEF IInv
<1>2. Counted'
  BY SameStore DEF FlushStep, FlushLock, FlushSnapshot, FlushWritten, FlushFailed
<1>3. Closer \in Flushers /\ NoOne \notin Flushers
  BY SaverAssumption DEF Flushers, Runner, Closer, NoOne
<1>4. CASE FlushLock(f)
  <2>1. TypeOK' BY <1>1, <1>4 DEF TypeOK, FlushLock
  <2>2. HolderWrites' BY <1>1, <1>3, <1>4 DEF TypeOK, HolderWrites, FileBetween, Writing, FlushLock
  <2>3. SnapshotCovers' BY <1>1, <1>3, <1>4 DEF TypeOK, SnapshotCovers, HolderWrites, Writing, FlushLock
  <2>4. FileBetween' BY <1>1, <1>4 DEF FileBetween, FlushLock
  <2>5. ClosePhases' BY <1>1, <1>3, <1>4 DEF TypeOK, ClosePhases, HolderWrites, Writing, FlushLock
  <2> QED BY <1>2, <2>1, <2>2, <2>3, <2>4, <2>5 DEF IInv
<1>5. CASE FlushSnapshot(f)
  <2>1. TypeOK' BY <1>1, <1>5 DEF TypeOK, FlushSnapshot
  <2>2. HolderWrites' BY <1>1, <1>5 DEF TypeOK, HolderWrites, Writing, FlushSnapshot
  <2>3. SnapshotCovers'
    <3>1. base + gen[f] <= version
      <4>1. Cardinality(Uncounted) \in Nat BY <1>1, UncountedFinite
      <4>2. base + dirty <= version BY <1>1, <4>1 DEF IInv, Counted, TypeOK
      <4>3. gen[f] <= dirty BY <1>1, <1>5 DEF HolderWrites, Writing, FlushSnapshot
      <4>4. gen[f] \in Nat BY <1>1 DEF TypeOK
      <4> QED BY <1>1, <4>2, <4>3, <4>4 DEF TypeOK
    <3>2. \A g \in Flushers : flush'[g] = "write" => g = f
      BY <1>1, <1>5 DEF TypeOK, HolderWrites, Writing, FlushSnapshot
    <3> QED BY <1>1, <1>5, <3>1, <3>2 DEF TypeOK, SnapshotCovers, FileBetween, FlushSnapshot
  <2>4. FileBetween' BY <1>1, <1>5 DEF FileBetween, FlushSnapshot
  <2>5. ClosePhases' BY <1>1, <1>3, <1>5 DEF TypeOK, ClosePhases, Writing, FlushSnapshot
  <2> QED BY <1>2, <2>1, <2>2, <2>3, <2>4, <2>5 DEF IInv
<1>6. CASE FlushWritten(f)
  <2>1. TypeOK'
    <3>1. file' \in 0..MaxVersion /\ saved' \in 0..MaxVersion
      BY <1>1, <1>6 DEF TypeOK, FlushWritten
    <3> QED BY <1>1, <1>6, <3>1, FlushEndType DEF TypeOK, FlushWritten
  <2>2. \A g \in Flushers : Writing(g) => g = f
    BY <1>1, <1>6 DEF HolderWrites, Writing, FlushWritten
  <2>3. \A g \in Flushers : ~Writing(g)' 
    BY <1>1, <1>6, <2>2 DEF TypeOK, Writing, FlushWritten, FlushEnd
  <2>4. HolderWrites' BY <2>3 DEF HolderWrites
  <2>5. SnapshotCovers' BY <2>3 DEF SnapshotCovers, Writing
  <2>6. FileBetween'
    BY <1>1, <1>6 DEF TypeOK, FileBetween, SnapshotCovers, HolderWrites, Writing, FlushWritten
  <2>7. ClosePhases'
    BY <1>1, <1>3, <1>6, <2>3 DEF TypeOK, ClosePhases, HolderWrites, Writing, FlushWritten, FlushEnd
  <2> QED BY <1>2, <2>1, <2>4, <2>5, <2>6, <2>7 DEF IInv
<1>7. CASE FlushFailed(f)
  <2>1. TypeOK'
    <3>1. failing' \in BOOLEAN /\ closeErr' \in BOOLEAN
      BY <1>1, <1>7 DEF TypeOK, FlushFailed
    <3> QED BY <1>1, <1>7, <3>1, FlushEndType DEF TypeOK, FlushFailed
  <2>2. \A g \in Flushers : ~Writing(g)'
    BY <1>1, <1>7 DEF TypeOK, HolderWrites, Writing, FlushFailed, FlushEnd
  <2>3. HolderWrites' BY <2>2 DEF HolderWrites
  <2>4. SnapshotCovers' BY <2>2 DEF SnapshotCovers, Writing
  <2>5. FileBetween' BY <1>1, <1>7 DEF FileBetween, FlushFailed
  <2>6. ClosePhases' BY <1>1, <1>3, <1>7, <2>2 DEF TypeOK, ClosePhases, Writing, FlushFailed, FlushEnd
  <2> QED BY <1>2, <2>1, <2>3, <2>4, <2>5, <2>6 DEF IInv
<1> QED BY <1>4, <1>5, <1>6, <1>7 DEF FlushStep

\* A call of Flush, by a caller of its own, by the goroutine or by Close, only
\* puts the caller in line for s.mu.
LEMMA CallFlushInv ==
    ASSUME IInv, NEW c \in Callers, CallFlush(c)
    PROVE  IInv'
<1> USE DEF storeVars, markVars, runVars, flushVars, histVars
<1>1. TypeOK /\ HolderWrites /\ SnapshotCovers /\ FileBetween /\ ClosePhases
  BY DEF IInv
<1>2. c \in Flushers /\ c # Closer BY SaverAssumption DEF Flushers
<1>3. TypeOK' BY <1>1, <1>2 DEF TypeOK, CallFlush
<1>4. \A f \in Flushers : Writing(f)' => Writing(f)
  BY <1>1, <1>2 DEF TypeOK, Writing, CallFlush
<1>5. \A f \in Flushers : flush'[f] = "write" => flush[f] = "write"
  BY <1>1, <1>2 DEF TypeOK, CallFlush
<1>6. Counted' BY SameStore DEF CallFlush
<1>7. HolderWrites' BY <1>1, <1>4 DEF HolderWrites, CallFlush
<1>8. SnapshotCovers' BY <1>1, <1>5 DEF SnapshotCovers, CallFlush
<1>9. FileBetween' BY <1>1 DEF FileBetween, CallFlush
<1>10. ClosePhases'
  BY <1>1, <1>2, <1>4 DEF TypeOK, ClosePhases, Flushers, CallFlush
<1> QED BY <1>3, <1>6, <1>7, <1>8, <1>9, <1>10 DEF IInv

\* The goroutine's own steps touch neither the store nor a write under way.
LEMMA RunInv ==
    ASSUME IInv, RunStep
    PROVE  IInv'
<1> USE DEF storeVars, markVars, runVars, flushVars, histVars
<1>1. TypeOK /\ HolderWrites /\ SnapshotCovers /\ FileBetween /\ ClosePhases
  BY DEF IInv
<1>2. /\ Runner \in Flushers /\ Closer \in Flushers /\ Runner # Closer
  BY DEF Flushers, Runner, Closer
<1>3. TypeOK'
  <2>1. CASE RunKicked BY <1>1, <2>1 DEF TypeOK, RunKicked
  <2>2. CASE RunSettled BY <1>1, <1>2, <2>2 DEF TypeOK, RunSettled
  <2>3. CASE RunFlushed BY <1>1, <2>3 DEF TypeOK, RunFlushed
  <2>4. CASE RunStopped BY <1>1, <2>4 DEF TypeOK, RunStopped
  <2> QED BY <2>1, <2>2, <2>3, <2>4 DEF RunStep
<1>4. /\ UNCHANGED <<storeVars, mark, dirty, closer, mu, gen, snap, saved, histVars>>
      /\ flush' = flush \/ flush' = [flush EXCEPT ![Runner] = "lock"]
  BY DEF RunStep, RunKicked, RunSettled, RunFlushed, RunStopped
<1>5. \A f \in Flushers :
        /\ Writing(f)' => Writing(f)
        /\ flush'[f] = "write" => flush[f] = "write"
  BY <1>1, <1>2, <1>4 DEF TypeOK, Writing
<1>6. flush'[Closer] = flush[Closer] BY <1>1, <1>2, <1>4 DEF TypeOK
<1>7. Counted' BY <1>4, SameStore
<1>8. HolderWrites' BY <1>1, <1>4, <1>5 DEF HolderWrites
<1>9. SnapshotCovers' BY <1>1, <1>4, <1>5 DEF SnapshotCovers
<1>10. FileBetween' BY <1>1, <1>4 DEF FileBetween
<1>11. ClosePhases' BY <1>1, <1>2, <1>4, <1>5, <1>6 DEF ClosePhases
<1> QED BY <1>3, <1>7, <1>8, <1>9, <1>10, <1>11 DEF IInv

\* Close notes what is marked before it stops anything, and calls Flush after
\* that: whatever its Flush finds to be saved covers what was marked.
LEMMA CloseInv ==
    ASSUME IInv, CloseStop \/ CloseStep
    PROVE  IInv'
<1> USE DEF storeVars, markVars, runVars, flushVars, histVars
<1>1. TypeOK /\ HolderWrites /\ SnapshotCovers /\ FileBetween /\ ClosePhases
  BY DEF IInv
<1>2. Closer \in Flushers BY DEF Flushers
<1>3. TypeOK'
  <2>1. CASE CloseStop BY <1>1, <2>1 DEF TypeOK, CloseStop
  <2>2. CASE CloseStart BY <1>1, <2>2 DEF TypeOK, CloseStart
  <2>3. CASE CloseFlush BY <1>1, <1>2, <2>3 DEF TypeOK, CloseFlush
  <2>4. CASE CloseReturn BY <1>1, <2>4 DEF TypeOK, CloseReturn
  <2> QED BY <2>1, <2>2, <2>3, <2>4 DEF CloseStep
<1>4. /\ UNCHANGED <<storeVars, mark, dirty, mu, gen, snap, saved>>
      /\ flush' = flush \/ flush' = [flush EXCEPT ![Closer] = "lock"]
  BY DEF CloseStop, CloseStep, CloseStart, CloseFlush, CloseReturn
<1>5. \A f \in Flushers :
        /\ Writing(f)' => Writing(f)
        /\ flush'[f] = "write" => flush[f] = "write"
  BY <1>1, <1>2, <1>4 DEF TypeOK, Writing
<1>6. Counted' BY <1>4, SameStore
<1>7. HolderWrites' BY <1>1, <1>4, <1>5 DEF HolderWrites
<1>8. SnapshotCovers' BY <1>1, <1>4, <1>5 DEF SnapshotCovers
<1>9. FileBetween' BY <1>1, <1>4 DEF FileBetween
<1>10. ClosePhases'
  <2>1. CASE CloseStop
    BY <1>1, <2>1 DEF TypeOK, ClosePhases, Writing, CloseStop
  <2>2. CASE CloseStart
    BY <1>1, <2>2 DEF ClosePhases, Writing, CloseStart
  <2>3. CASE CloseFlush
    BY <1>1, <1>2, <2>3 DEF TypeOK, ClosePhases, Writing, CloseFlush
  <2>4. CASE CloseReturn
    BY <1>1, <2>4 DEF ClosePhases, Writing, CloseReturn
  <2> QED BY <2>1, <2>2, <2>3, <2>4 DEF CloseStep
<1> QED BY <1>3, <1>6, <1>7, <1>8, <1>9, <1>10 DEF IInv

\* A new process starts from the file, with nothing counted and nobody in
\* Flush.
LEMMA CrashInv ==
    ASSUME IInv, Crash
    PROVE  IInv'
<1>1. TypeOK BY DEF IInv
<1>2. 0 \in 0..MaxVersion BY SaverAssumption
<1>3. NoOne \in Flushers \cup {NoOne} OBVIOUS
<1>4. TypeOK' BY <1>1, <1>2, <1>3 DEF TypeOK, Crash
<1>5. Uncounted' = {} BY DEF Uncounted, Crash
<1>6. Counted' BY <1>1, <1>5, FS_EmptySet DEF TypeOK, Counted, Crash
<1>7. \A f \in Flushers : flush'[f] = "out" BY DEF Crash
<1>8. HolderWrites' /\ SnapshotCovers'
  BY <1>7 DEF HolderWrites, SnapshotCovers, Writing
<1>9. FileBetween' BY <1>1 DEF TypeOK, FileBetween, Crash
<1>10. ClosePhases' BY <1>7 DEF ClosePhases, Writing, Flushers, Crash
<1> QED BY <1>4, <1>6, <1>8, <1>9, <1>10 DEF IInv

\* Every step preserves the invariant.
LEMMA StepInv == IInv /\ [Next]_vars => IInv'
<1> SUFFICES ASSUME IInv, [Next]_vars PROVE IInv' OBVIOUS
<1>1. ASSUME NEW m \in Mutators, Change(m) \/ Mark(m) PROVE IInv'
  BY <1>1, ChangeInv, MarkInv
<1>2. ASSUME NEW f \in Flushers, FlushStep(f) PROVE IInv'
  BY <1>2, FlushInv
<1>3. ASSUME NEW c \in Callers, CallFlush(c) PROVE IInv'
  BY <1>3, CallFlushInv
<1>4. CASE RunStep BY <1>4, RunInv
<1>5. CASE CloseStop \/ CloseStep BY <1>5, CloseInv
<1>6. CASE Crash BY <1>6, CrashInv
<1>7. CASE UNCHANGED vars
  <2> USE DEF vars, storeVars, markVars, runVars, flushVars, histVars
  <2>1. TypeOK' BY <1>7 DEF IInv, TypeOK
  <2>2. Counted' BY <1>7, SameStore
  <2> QED BY <1>7, <2>1, <2>2
       DEF IInv, HolderWrites, SnapshotCovers, FileBetween, ClosePhases, Writing
<1> QED BY <1>1, <1>2, <1>3, <1>4, <1>5, <1>6, <1>7 DEF Next

\* So it always holds.
THEOREM Invariance == Spec => []IInv
BY InitInv, StepInv, PTL DEF Spec

\* The saver's variables keep their types, and dirty never counts more than
\* the changes made.
THEOREM TypeCorrect == Spec => []TypeOK
BY Invariance, PTL DEF IInv

----------------------------------------------------------------------------
(***************************************************************************)
(* What the runs check, for every instance.                                *)
(***************************************************************************)

\* However marks, flushes, failed writes and crashes interleave, the file
\* holds every change the saver has recorded as saved.
THEOREM SavedIsAlwaysInFile == Spec => []SavedIsInFile
<1>1. IInv => SavedIsInFile
  BY DEF IInv, TypeOK, FileBetween, SavedIsInFile
<1> QED BY <1>1, Invariance, PTL

\* A saver with nothing to write has a file equal to its store, but for a
\* change that is still on its way to Mark.
THEOREM CleanIsAlwaysSaved == Spec => []CleanMeansSaved
<1>1. ASSUME IInv PROVE CleanMeansSaved
  <2> SUFFICES ASSUME dirty = saved, Uncounted = {} PROVE file = version
    BY DEF CleanMeansSaved
  <2>1. version = base + dirty + 0 BY <1>1, FS_EmptySet DEF IInv, Counted
  <2> QED BY <1>1, <2>1 DEF IInv, TypeOK, FileBetween
<1> QED BY <1>1, Invariance, PTL

\* A Close that reports no error left nothing behind that was marked before
\* it was called.
THEOREM CloseAlwaysKeepsMarked == Spec => []CloseKeepsMarked
<1>1. ASSUME IInv PROVE CloseKeepsMarked
  <2> SUFFICES ASSUME closer = "closed", ~closeErr PROVE file >= base + atClose
    BY DEF CloseKeepsMarked
  <2>1. atClose <= saved BY <1>1 DEF IInv, ClosePhases
  <2> QED BY <1>1, <2>1 DEF IInv, TypeOK, FileBetween
<1> QED BY <1>1, Invariance, PTL

----------------------------------------------------------------------------
(***************************************************************************)
(* The saver is a durable cell.                                            *)
(***************************************************************************)

\* Every step changes the cell, saves to it, loses what was not saved, or
\* leaves it alone; a write is a save because its snapshot is no older than
\* the file and no newer than the store, and a stutter when nothing changed
\* since the last one.
LEMMA StepIsCellStep ==
    ASSUME IInv, [Next]_vars
    PROVE  [Cell!Next]_Cell!vars
<1> USE DEF storeVars, markVars, runVars, flushVars, histVars, Cell!vars
<1>1. ASSUME NEW m \in Mutators, Change(m) PROVE Cell!Change
  BY <1>1 DEF Change, Cell!Change
<1>2. ASSUME NEW m \in Mutators, Mark(m) PROVE UNCHANGED <<version, file>>
  BY <1>2 DEF Mark, MarkAdd, MarkStart, MarkKick
<1>3. ASSUME NEW f \in Flushers, FlushStep(f)
      PROVE  Cell!Save \/ UNCHANGED <<version, file>>
  <2>1. CASE FlushWritten(f)
    <3>1. file <= snap[f] /\ snap[f] <= version
      BY <2>1 DEF IInv, SnapshotCovers, FlushWritten
    <3>2. snap[f] \in Int /\ file \in Int /\ version \in Int BY DEF IInv, TypeOK
    <3>3. file' = snap[f] /\ version' = version BY <2>1 DEF FlushWritten
    <3>4. CASE snap[f] = file BY <3>3, <3>4
    <3>5. CASE snap[f] # file BY <3>1, <3>2, <3>3, <3>5 DEF Cell!Save
    <3> QED BY <3>4, <3>5
  <2>2. CASE FlushLock(f) \/ FlushSnapshot(f) \/ FlushFailed(f)
    BY <2>2 DEF FlushLock, FlushSnapshot, FlushFailed
  <2> QED BY <1>3, <2>1, <2>2 DEF FlushStep
<1>4. ASSUME NEW c \in Callers, CallFlush(c) PROVE UNCHANGED <<version, file>>
  BY <1>4 DEF CallFlush
<1>5. ASSUME RunStep \/ CloseStop \/ CloseStep PROVE UNCHANGED <<version, file>>
  BY <1>5 DEF RunStep, RunKicked, RunSettled, RunFlushed, RunStopped,
              CloseStop, CloseStep, CloseStart, CloseFlush, CloseReturn
<1>6. ASSUME Crash PROVE Cell!Crash
  BY <1>6 DEF Crash, Cell!Crash
<1>7. ASSUME UNCHANGED vars PROVE UNCHANGED <<version, file>>
  BY <1>7 DEF vars
<1> QED BY <1>1, <1>2, <1>3, <1>4, <1>5, <1>6, <1>7 DEF Next, Cell!Next

\* The refinement: whatever the goroutines do, seen through its content and
\* its file the store is a durable cell, whose file only moves forward.
THEOREM SaverIsDurableCell == Spec => ImplementsDurableCell
<1>1. Init => Cell!Init BY DEF Init, Cell!Init
<1> QED BY <1>1, StepIsCellStep, Invariance, PTL
        DEF Spec, ImplementsDurableCell, Cell!Spec

----------------------------------------------------------------------------
(***************************************************************************)
(* Close and the goroutine.                                                *)
(***************************************************************************)

\* The goroutine is past its select only between calling Flush and coming back
\* from it, and Close is past its wait only once the goroutine has ended.
RunnerPhases ==
    /\ flush[Runner] # "out" => runner = "flushing"
    /\ closer \in {"flushing", "closed"} => runner = "ended"
    /\ runner # "none" => started
    /\ closer = "waiting" => started

\* Close waits for the goroutine, and nothing starts it again.
LEMMA RunnerInv == Spec => []RunnerPhases
<1>1. Init => RunnerPhases BY DEF Init, RunnerPhases, Flushers
<1>2. TypeOK /\ RunnerPhases /\ [Next]_vars => RunnerPhases'
  <2> SUFFICES ASSUME TypeOK, RunnerPhases, [Next]_vars PROVE RunnerPhases'
    OBVIOUS
  <2> USE DEF storeVars, markVars, runVars, flushVars, histVars, RunnerPhases
  <2>0. Runner \in Flushers /\ Closer \in Flushers /\ Runner # Closer /\ Runner \notin Callers
    BY SaverAssumption DEF Flushers, Runner, Closer
  <2>1. ASSUME NEW m \in Mutators, Change(m) \/ Mark(m) PROVE RunnerPhases'
    BY <2>1 DEF Change, Mark, MarkAdd, MarkStart, MarkKick
  <2>2. ASSUME NEW f \in Flushers, FlushStep(f) PROVE RunnerPhases'
    BY <2>0, <2>2 DEF TypeOK, FlushStep, FlushLock, FlushSnapshot, FlushWritten, FlushFailed, FlushEnd
  <2>3. ASSUME NEW c \in Callers, CallFlush(c) PROVE RunnerPhases'
    BY <2>0, <2>3 DEF TypeOK, CallFlush, Flushers
  <2>4. CASE RunStep
    BY <2>0, <2>4 DEF TypeOK, RunStep, RunKicked, RunSettled, RunFlushed, RunStopped
  <2>5. CASE CloseStop \/ CloseStep
    BY <2>0, <2>5 DEF TypeOK, CloseStop, CloseStep, CloseStart, CloseFlush, CloseReturn
  <2>6. CASE Crash BY <2>0, <2>6 DEF Crash
  <2>7. CASE UNCHANGED vars BY <2>7 DEF vars
  <2> QED BY <2>1, <2>2, <2>3, <2>4, <2>5, <2>6, <2>7 DEF Next
<1> QED BY <1>1, <1>2, TypeCorrect, PTL DEF Spec

\* Once Close has returned, the goroutine never calls Flush again in this
\* process: no file is written behind the caller's back.
THEOREM QuietOnceClosed == Spec => QuietAfterClose
<1>1. ASSUME TypeOK, RunnerPhases, [Next]_vars
      PROVE  [closer = "closed" /\ flush[Runner] = "out" => flush'[Runner] = "out"]_vars
  <2> SUFFICES ASSUME closer = "closed", flush[Runner] = "out", Next
               PROVE  flush'[Runner] = "out"
    BY <1>1
  <2> USE DEF storeVars, markVars, runVars, flushVars, histVars
  <2>0. Runner \in Flushers /\ Closer \in Flushers /\ Runner # Closer /\ Runner \notin Callers
    BY SaverAssumption DEF Flushers, Runner, Closer
  <2>1. runner = "ended" BY <1>1 DEF RunnerPhases
  <2>2. ASSUME NEW m \in Mutators, Change(m) \/ Mark(m) PROVE flush'[Runner] = "out"
    BY <2>2 DEF Change, Mark, MarkAdd, MarkStart, MarkKick
  <2>3. ASSUME NEW f \in Flushers, FlushStep(f) PROVE flush'[Runner] = "out"
    BY <1>1, <2>0, <2>3 DEF TypeOK, FlushStep, FlushLock, FlushSnapshot, FlushWritten, FlushFailed, FlushEnd
  <2>4. ASSUME NEW c \in Callers, CallFlush(c) PROVE flush'[Runner] = "out"
    BY <1>1, <2>0, <2>4 DEF TypeOK, CallFlush, Flushers
  <2>5. CASE RunStep
    BY <2>1, <2>5 DEF RunStep, RunKicked, RunSettled, RunFlushed, RunStopped
  <2>6. CASE CloseStop \/ CloseStep
    BY <2>6 DEF CloseStop, CloseStep, CloseStart, CloseFlush, CloseReturn
  <2>7. CASE Crash BY <2>0, <2>7 DEF Crash
  <2> QED BY <2>2, <2>3, <2>4, <2>5, <2>6, <2>7 DEF Next
<1> QED BY <1>1, TypeCorrect, RunnerInv, PTL DEF Spec, QuietAfterClose

============================================================================
