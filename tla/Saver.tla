------------------------------- MODULE Saver -------------------------------
(***************************************************************************)
(* The background writer every store shares (src/internal/saver): the      *)
(* library, the cue, tag and playlist stores and the menu configuration.   *)
(*                                                                         *)
(* A store's goroutines change it under its own lock and call Mark.  One   *)
(* background goroutine, started by the first Mark, waits for a kick, lets *)
(* a burst of changes settle for the interval and calls Flush; Flush can   *)
(* also be called directly, and Close stops the goroutine and flushes.     *)
(* The store's content is the number of changes made to it.                *)
(***************************************************************************)
EXTENDS Integers, FiniteSets

CONSTANTS
    Mutators,   \* goroutines that change the store
    Callers,    \* goroutines that call Flush themselves
    MaxVersion  \* bound: changes made to the store

Runner == "run"    \* the background goroutine, as a caller of Flush
Closer == "close"  \* the goroutine in Close, as a caller of Flush
NoOne  == "no one"

ASSUME SaverAssumption ==
    /\ IsFiniteSet(Mutators)
    /\ MaxVersion \in Nat
    /\ Mutators \cap (Callers \cup {Runner, Closer}) = {}
    /\ {Runner, Closer, NoOne} \cap Callers = {}

Flushers == Callers \cup {Runner, Closer}

VARIABLES
    version,   \* the changes in place in the store
    file,      \* the changes in the file its write function writes
    base,      \* the changes the file held when this process loaded it
    mark,      \* where each mutator is: out of the store, or in Mark
    dirty,     \* s.dirty
    started,   \* s.start has been used
    kick,      \* s.kick holds a value
    stop,      \* s.stop is closed
    runner,    \* where run is; "ended" once s.done is closed
    closer,    \* where Close is
    mu,        \* who holds s.mu
    flush,     \* where each caller of Flush is
    gen,       \* Flush's local gen, by its caller
    snap,      \* the snapshot write has taken, by its caller
    saved,     \* s.saved
    failing,   \* history: the last write failed and nothing was marked since
    atClose,   \* history: dirty when Close was called
    closeErr   \* the error Close returned

storeVars == <<version, file, base>>
markVars  == <<mark, dirty, started, kick>>
runVars   == <<stop, runner, closer>>
flushVars == <<mu, flush, gen, snap, saved>>
histVars  == <<failing, atClose, closeErr>>
vars == <<storeVars, markVars, runVars, flushVars, histVars>>

\* The types, of which the bounds matter: dirty, gen and saved never count a
\* change the store has not made.
TypeOK ==
    /\ version \in 0..MaxVersion /\ file \in 0..MaxVersion /\ base \in 0..MaxVersion
    /\ mark \in [Mutators -> {"out", "add", "start", "kick"}]
    /\ dirty \in 0..MaxVersion
    /\ started \in BOOLEAN /\ kick \in BOOLEAN /\ stop \in BOOLEAN
    /\ runner \in {"none", "waiting", "settling", "flushing", "ended"}
    /\ closer \in {"none", "stopping", "waiting", "flushing", "closed"}
    /\ mu \in Flushers \cup {NoOne}
    /\ flush \in [Flushers -> {"out", "lock", "snapshot", "write"}]
    /\ gen \in [Flushers -> 0..MaxVersion] /\ snap \in [Flushers -> 0..MaxVersion]
    /\ saved \in 0..MaxVersion
    /\ failing \in BOOLEAN /\ closeErr \in BOOLEAN
    /\ atClose \in 0..MaxVersion

\* The first process, over a file that holds no change.
Init ==
    /\ version = 0 /\ file = 0 /\ base = 0
    /\ mark = [m \in Mutators |-> "out"]
    /\ dirty = 0 /\ started = FALSE /\ kick = FALSE
    /\ stop = FALSE /\ runner = "none" /\ closer = "none"
    /\ mu = NoOne /\ flush = [f \in Flushers |-> "out"]
    /\ gen = [f \in Flushers |-> 0] /\ snap = [f \in Flushers |-> 0] /\ saved = 0
    /\ failing = FALSE /\ atClose = 0 /\ closeErr = FALSE

----------------------------------------------------------------------------
(***************************************************************************)
(* A change and its Mark: three steps, each atomic, with anything between. *)
(***************************************************************************)

Change(m) ==
    /\ mark[m] = "out"
    /\ version < MaxVersion
    /\ version' = version + 1
    /\ mark' = [mark EXCEPT ![m] = "add"]
    /\ UNCHANGED <<file, base, dirty, started, kick, runVars, flushVars, histVars>>

\* Mutant: the change is counted by the store and again by Mark.
MarkAddTwice(m) ==
    /\ mark[m] = "add"
    /\ dirty' = dirty + 2
    /\ failing' = FALSE
    /\ mark' = [mark EXCEPT ![m] = "start"]
    /\ UNCHANGED <<storeVars, started, kick, runVars, flushVars, atClose, closeErr>>

MarkAdd(m) ==
    /\ mark[m] = "add"
    /\ dirty' = dirty + 1
    /\ failing' = FALSE
    /\ mark' = [mark EXCEPT ![m] = "start"]
    /\ UNCHANGED <<storeVars, started, kick, runVars, flushVars, atClose, closeErr>>

MarkStart(m) ==
    /\ mark[m] = "start"
    /\ started' = TRUE
    /\ runner' = IF started THEN runner ELSE "waiting"
    /\ mark' = [mark EXCEPT ![m] = "kick"]
    /\ UNCHANGED <<storeVars, dirty, kick, stop, closer, flushVars, histVars>>

\* Mutant: the channel has no buffer, so a kick reaches a waiting goroutine only.
MarkKickUnbuffered(m) ==
    /\ mark[m] = "kick"
    /\ kick' = (kick \/ runner = "waiting")
    /\ mark' = [mark EXCEPT ![m] = "out"]
    /\ UNCHANGED <<storeVars, dirty, started, runVars, flushVars, histVars>>

MarkKick(m) ==
    /\ mark[m] = "kick"
    /\ kick' = TRUE
    /\ mark' = [mark EXCEPT ![m] = "out"]
    /\ UNCHANGED <<storeVars, dirty, started, runVars, flushVars, histVars>>

Mark(m) == MarkAdd(m) \/ MarkStart(m) \/ MarkKick(m)

----------------------------------------------------------------------------
(***************************************************************************)
(* Flush, by whoever calls it.                                             *)
(***************************************************************************)

\* Mutant: Flush does not take s.mu.
FlushUnlocked(f) ==
    /\ flush[f] = "lock"
    /\ \/ /\ dirty = saved
          /\ flush' = [flush EXCEPT ![f] = "out"]
          /\ UNCHANGED <<mu, gen>>
       \/ /\ dirty # saved
          /\ mu' = f
          /\ gen' = [gen EXCEPT ![f] = dirty]
          /\ flush' = [flush EXCEPT ![f] = "snapshot"]
    /\ UNCHANGED <<storeVars, markVars, runVars, snap, saved, histVars>>

\* Locks s.mu and loads the generation; nothing to do returns at once.
FlushLock(f) ==
    /\ flush[f] = "lock"
    /\ mu = NoOne
    /\ \/ /\ dirty = saved
          /\ flush' = [flush EXCEPT ![f] = "out"]
          /\ UNCHANGED <<mu, gen>>
       \/ /\ dirty # saved
          /\ mu' = f
          /\ gen' = [gen EXCEPT ![f] = dirty]
          /\ flush' = [flush EXCEPT ![f] = "snapshot"]
    /\ UNCHANGED <<storeVars, markVars, runVars, snap, saved, histVars>>

\* write takes its own snapshot, under the store's lock.
FlushSnapshot(f) ==
    /\ flush[f] = "snapshot"
    /\ snap' = [snap EXCEPT ![f] = version]
    /\ flush' = [flush EXCEPT ![f] = "write"]
    /\ UNCHANGED <<storeVars, markVars, runVars, mu, gen, saved, histVars>>

\* Flush is over, for the holder of s.mu: its locals are gone.
FlushEnd(f) ==
    /\ mu' = NoOne
    /\ flush' = [flush EXCEPT ![f] = "out"]
    /\ gen' = [gen EXCEPT ![f] = 0]
    /\ snap' = [snap EXCEPT ![f] = 0]

\* Mutant: the generation is read again after the write.
FlushWrittenLatest(f) ==
    /\ flush[f] = "write"
    /\ file' = snap[f]
    /\ saved' = dirty
    /\ FlushEnd(f)
    /\ UNCHANGED <<version, base, markVars, runVars, histVars>>

\* The file is replaced as a whole (fsutil.WriteFile renames over it).
FlushWritten(f) ==
    /\ flush[f] = "write"
    /\ file' = snap[f]
    /\ saved' = gen[f]
    /\ FlushEnd(f)
    /\ UNCHANGED <<version, base, markVars, runVars, histVars>>

\* Mutant: a failed write counts as saved.
FlushFailedSaved(f) ==
    /\ flush[f] = "write"
    /\ saved' = gen[f]
    /\ FlushEnd(f)
    /\ failing' = (dirty = gen[f])
    /\ closeErr' = (closeErr \/ f = Closer)
    /\ UNCHANGED <<storeVars, markVars, runVars, atClose>>

\* write returns an error: the file is as it was, and so is saved.
FlushFailed(f) ==
    /\ flush[f] = "write"
    /\ FlushEnd(f)
    /\ failing' = (dirty = gen[f])
    /\ closeErr' = (closeErr \/ f = Closer)
    /\ UNCHANGED <<storeVars, markVars, runVars, saved, atClose>>

FlushStep(f) == FlushLock(f) \/ FlushSnapshot(f) \/ FlushWritten(f) \/ FlushFailed(f)

CallFlush(c) ==
    /\ flush[c] = "out"
    /\ flush' = [flush EXCEPT ![c] = "lock"]
    /\ UNCHANGED <<storeVars, markVars, runVars, mu, gen, snap, saved, histVars>>

----------------------------------------------------------------------------
(***************************************************************************)
(* run, the background goroutine.                                          *)
(***************************************************************************)

RunKicked ==
    /\ runner = "waiting" /\ kick
    /\ kick' = FALSE
    /\ runner' = "settling"
    /\ UNCHANGED <<storeVars, mark, dirty, started, stop, closer, flushVars, histVars>>

RunSettled ==
    /\ runner = "settling"
    /\ runner' = "flushing"
    /\ flush' = [flush EXCEPT ![Runner] = "lock"]
    /\ UNCHANGED <<storeVars, markVars, stop, closer, mu, gen, snap, saved, histVars>>

RunFlushed ==
    /\ runner = "flushing" /\ flush[Runner] = "out"
    /\ runner' = "waiting"
    /\ UNCHANGED <<storeVars, markVars, stop, closer, flushVars, histVars>>

\* Either select of run, with stop closed.
RunStopped ==
    /\ runner \in {"waiting", "settling"} /\ stop
    /\ runner' = "ended"
    /\ UNCHANGED <<storeVars, markVars, stop, closer, flushVars, histVars>>

RunStep == RunKicked \/ RunSettled \/ RunFlushed \/ RunStopped

----------------------------------------------------------------------------
(***************************************************************************)
(* Close.                                                                  *)
(***************************************************************************)

CloseStop ==
    /\ closer = "none"
    /\ stop' = TRUE
    /\ atClose' = dirty
    /\ closer' = "stopping"
    /\ UNCHANGED <<storeVars, markVars, runner, flushVars, failing, closeErr>>

\* Mutant: Close ends a goroutine that never started without using s.start.
CloseStartUnused ==
    /\ closer = "stopping"
    /\ runner' = IF started THEN runner ELSE "ended"
    /\ closer' = "waiting"
    /\ UNCHANGED <<storeVars, markVars, stop, flushVars, histVars>>

\* Mutant: Close waits for s.done without starting anything.
CloseStartForgotten ==
    /\ closer = "stopping"
    /\ closer' = "waiting"
    /\ UNCHANGED <<storeVars, markVars, stop, runner, flushVars, histVars>>

\* A goroutine that never started cannot be waited for: s.start.Do ends it.
CloseStart ==
    /\ closer = "stopping"
    /\ started' = TRUE
    /\ runner' = IF started THEN runner ELSE "ended"
    /\ closer' = "waiting"
    /\ UNCHANGED <<storeVars, mark, dirty, kick, stop, flushVars, histVars>>

\* Mutant: Close leaves the last write to the goroutine it has stopped.
CloseNoFlush ==
    /\ closer = "waiting" /\ runner = "ended"
    /\ closer' = "flushing"
    /\ UNCHANGED <<storeVars, markVars, stop, runner, flushVars, histVars>>

CloseFlush ==
    /\ closer = "waiting" /\ runner = "ended"
    /\ closer' = "flushing"
    /\ flush' = [flush EXCEPT ![Closer] = "lock"]
    /\ UNCHANGED <<storeVars, markVars, stop, runner, mu, gen, snap, saved, histVars>>

CloseReturn ==
    /\ closer = "flushing" /\ flush[Closer] = "out"
    /\ closer' = "closed"
    /\ UNCHANGED <<storeVars, markVars, stop, runner, flushVars, histVars>>

CloseStep == CloseStart \/ CloseFlush \/ CloseReturn

----------------------------------------------------------------------------

\* The process dies, at any point, and the next one loads the file.
Crash ==
    /\ version' = file /\ base' = file
    /\ mark' = [m \in Mutators |-> "out"]
    /\ dirty' = 0 /\ started' = FALSE /\ kick' = FALSE
    /\ stop' = FALSE /\ runner' = "none" /\ closer' = "none"
    /\ mu' = NoOne /\ flush' = [f \in Flushers |-> "out"]
    /\ gen' = [f \in Flushers |-> 0] /\ snap' = [f \in Flushers |-> 0] /\ saved' = 0
    /\ failing' = FALSE /\ atClose' = 0 /\ closeErr' = FALSE
    /\ UNCHANGED file

Next ==
    \/ \E m \in Mutators : Change(m) \/ Mark(m)
    \/ \E f \in Flushers : FlushStep(f)
    \/ \E c \in Callers : CallFlush(c)
    \/ RunStep
    \/ CloseStop \/ CloseStep
    \/ Crash

Spec == Init /\ [][Next]_vars

\* A Mark and a Flush once called, the background goroutine and a Close once
\* called run on; nothing makes anyone change, flush or close.
Fairness ==
    /\ \A m \in Mutators : WF_vars(Mark(m))
    /\ \A f \in Flushers : SF_vars(FlushStep(f))
    /\ WF_vars(RunStep)
    /\ WF_vars(CloseStep)

FairSpec == Spec /\ Fairness

----------------------------------------------------------------------------
(***************************************************************************)
(* Safety.                                                                 *)
(***************************************************************************)

\* Mutators that have changed the store and not yet counted it in dirty.
Uncounted == {m \in Mutators : mark[m] = "add"}

\* The file holds every change counted by the generation recorded as saved: a
\* change marked while a write was under way is not taken for written.
SavedIsInFile == file >= base + saved

\* So once the saver believes there is nothing to write, and nobody is between
\* a change and its Mark, the file is the store.
CleanMeansSaved ==
    (dirty = saved /\ Uncounted = {}) => file = version

\* A Close that returned without an error left on disk every change marked
\* before it was called, whatever the goroutine it stopped was doing.
CloseKeepsMarked ==
    (closer = "closed" /\ ~closeErr) => file >= base + atClose

----------------------------------------------------------------------------
(***************************************************************************)
(* What a step may never do.                                               *)
(***************************************************************************)

\* The cell's memory is the store, its file the file.
Cell == INSTANCE DurableCell WITH memory <- version

\* The saver is a durable cell: whoever calls Flush, an older snapshot never
\* replaces a newer one in the file, and only a crash takes changes away.
ImplementsDurableCell == Cell!Spec

\* Once Close has returned the background goroutine writes no more.
QuietAfterClose == [][closer = "closed" /\ flush[Runner] = "out"
    => flush'[Runner] = "out"]_vars

----------------------------------------------------------------------------
(***************************************************************************)
(* Liveness.                                                               *)
(***************************************************************************)

\* In a process that does not die, what was changed reaches the file without
\* anyone calling Flush, unless the last write failed with nothing marked
\* since, or Close has stopped the background writes: no kick is lost.
EventuallySaved ==
    (<>[][~Crash]_vars) => <>[](file = version \/ failing \/ stop)

\* Close returns: it never waits for a goroutine that was not started, or
\* that waits for a kick.
CloseReturns == (closer = "stopping") ~> (closer \in {"closed", "none"})

============================================================================
