--------------------------- MODULE AnalysisStore ---------------------------
(***************************************************************************)
(* The store of analysis results (src/analysis/analysis.go, lru.go): a     *)
(* cache in memory, kept to a budget, over one file per track.             *)
(*                                                                         *)
(* Its callers (the analysis queue, decks, HTTP handlers) run in           *)
(* goroutines of their own.  The store's mutex covers its maps and the     *)
(* list of results by use; reading, writing and removing a file happen     *)
(* outside it, so every operation is a few steps with anything between.    *)
(*                                                                         *)
(* A result is its grid and what decides whether it is stale or may be     *)
(* replaced.  Each track has a path of its own, registered with SetPath    *)
(* before anything else, as the callers do.                                *)
(***************************************************************************)
EXTENDS Integers, Sequences, FiniteSets, FiniteSetsExt, Lists

CONSTANTS
    Tracks,
    Clients,         \* goroutines that call the store
    Lockable,        \* tracks the user may lock
    Importable,      \* tracks for which the Importer has something
    MaxResultBytes,  \* the budget, in units of a detected result's size
    MaxMade          \* bound: imports and grid edits made

ASSUME StoreAssumption ==
    /\ IsFiniteSet(Tracks) /\ Tracks # {}
    /\ Lockable \subseteq Tracks /\ Importable \subseteq Tracks
    /\ MaxResultBytes \in Nat
    /\ MaxMade \in Nat

None == [grid |-> -1]

Eras   == 0..1  \* cache versions: this build's and the one before it
Ranges == 0..1  \* settings of the BPM range

Result == [
    grid:     0..MaxMade,  \* the beat grid: 0 filled in, others imported or edited
    range:    Ranges,      \* TempoMinBPM, TempoMaxBPM
    fits:     BOOLEAN,     \* history: its tempo was found under that range
    era:      Eras,        \* CacheVersion
    imported: BOOLEAN,     \* isImported
    edited:   BOOLEAN]     \* GridEdited

VARIABLES
    results,   \* s.results
    order,     \* s.lru.order, most recently used first
    sizes,     \* s.lru.sizes, 0 for a track not in it
    bytes,     \* s.lru.bytes
    gridCarry, \* s.gridCarry: the grid rescued for a track, 0 for none
    file,      \* the cache files
    era,       \* cacheVersion of the running build
    range,     \* the BPM range
    sweeping,  \* the range has changed and InvalidateAll is still to come
    locked,    \* tracks whose analysis is locked
    op,        \* what each client is about to do
    made,      \* grids imported or edited so far
    chosen,    \* history: the last import or edit of each track still in force
    overtaken, \* history: clients whose track was given a result since they began
               \* to make the one that they store
    excused    \* history: tracks for which StoredIsServed claims nothing

lruVars  == <<results, order, sizes, bytes>>
envVars  == <<era, range, sweeping, locked>>
histVars == <<chosen, overtaken, excused>>
vars == <<lruVars, gridCarry, file, envVars, op, made, histVars>>

Steps == {"idle", "load", "stash", "discard", "put", "edit", "waveform", "grid", "regrid",
          "full", "refull", "fit", "stamp", "fill", "cancel", "save", "unlink"}

\* What a client does, with which result, and whether its context has ended (it
\* runs a job of the queue that a Set has cancelled).
Doing(s, t, r) == [step |-> s, track |-> t, r |-> r, stopped |-> FALSE]
Idle == Doing("idle", CHOOSE t \in Tracks : TRUE, None)

resultSize(r) == IF r.imported THEN 2 ELSE 1

Init ==
    /\ results = [t \in Tracks |-> None] /\ order = <<>>
    /\ sizes = [t \in Tracks |-> 0] /\ bytes = 0
    /\ gridCarry = [t \in Tracks |-> 0]
    /\ file = [t \in Tracks |-> None]
    /\ era = 0 /\ range = 0 /\ sweeping = FALSE /\ locked = {}
    /\ op = [c \in Clients |-> Idle]
    /\ made = 0
    /\ chosen = [t \in Tracks |-> None]
    /\ overtaken = {} /\ excused = {}

----------------------------------------------------------------------------
(***************************************************************************)
(* The results in memory.  Callers hold s.mu.                              *)
(***************************************************************************)

touchLocked(t) ==
    /\ order' = <<t>> \o Without(order, t)
    /\ UNCHANGED <<results, sizes, bytes>>

\* Mutant: a dropped result's size stays on record.
dropLockedKeepsSize(t) ==
    /\ results' = [results EXCEPT ![t] = None]
    /\ order' = Without(order, t)
    /\ bytes' = bytes - sizes[t]
    /\ UNCHANGED sizes

dropLocked(t) ==
    /\ results' = [results EXCEPT ![t] = None]
    /\ order' = Without(order, t)
    /\ sizes' = [sizes EXCEPT ![t] = 0]
    /\ bytes' = bytes - sizes[t]

dropAllLocked ==
    /\ results' = [t \in Tracks |-> None]
    /\ order' = <<>>
    /\ sizes' = [t \in Tracks |-> 0]
    /\ bytes' = 0

\* The sizes on record of some tracks, together.
SizeOf(some, size) == MapThenSumSet(LAMBDA u : size[u], some)

\* The tracks behind the first k of q, and the bytes held once they are dropped.
Behind(q, k) == {q[i] : i \in k + 1 .. Len(q)}
Left(q, k, size, total) == total - SizeOf(Behind(q, k), size)

\* Drops results from the back of q while the budget is exceeded: what stays is
\* a prefix of the list, never less than keep, its first.  (The code spares
\* results without a path; here every track has one.)
evictLocked(keep, held, q, size, total) ==
    LET k   == Max({1} \cup {n \in 1..Len(q) : Left(q, n, size, total) <= MaxResultBytes})
        out == Behind(q, k) \ {keep}
    IN  /\ results' = [u \in Tracks |-> IF u \in out THEN None ELSE held[u]]
        /\ order' = SubSeq(q, 1, k)
        /\ sizes' = [u \in Tracks |-> IF u \in out THEN 0 ELSE size[u]]
        /\ bytes' = Left(q, k, size, total)

\* Mutant: a replaced result's size stays counted.
putLockedAdds(t, r) ==
    evictLocked(t, [results EXCEPT ![t] = r], <<t>> \o Without(order, t),
                [sizes EXCEPT ![t] = resultSize(r)], bytes + resultSize(r))

\* Puts r in front, in the place of the result there was, then evicts.
putLocked(t, r) ==
    evictLocked(t, [results EXCEPT ![t] = r], <<t>> \o Without(order, t),
                [sizes EXCEPT ![t] = resultSize(r)], bytes + resultSize(r) - sizes[t])

----------------------------------------------------------------------------
(***************************************************************************)
(* History.  A track is excused, until its next import or edit, when two   *)
(* clients are at its file at once, when a write failed, when an analysis  *)
(* stores its result although the track was given one that has since been  *)
(* dropped from memory, and when a re-analysis stores the grid it took, or *)
(* found where there was none, over one that came since.                   *)
(***************************************************************************)

AtFile(o) == o.step \in {"load", "stash", "discard", "put", "cancel", "save", "unlink"}

Contended(o) == {t \in Tracks : \E c, d \in Clients :
    c # d /\ AtFile(o[c]) /\ AtFile(o[d]) /\ o[c].track = t /\ o[d].track = t}

Analyzing(t) == {d \in Clients : op[d].track = t /\ op[d].step \in {"fit", "stamp", "fill"}}

\* A result is in memory, and its file still to be written.
Unsaved(o) == o.step \in {"cancel", "save"}

\* Client c goes on to do o; more tracks are excused.
Go(c, o, more) ==
    /\ op' = [op EXCEPT ![c] = o]
    /\ excused' = (excused \cup more) \cup Contended(op')

\* An import or edit stays in force until another one, Invalidate, or a change
\* of the BPM range under an edit that is not locked.
InForce(t, r) ==
    IF (r.imported \/ r.edited) /\ (r.imported \/ r.range = range \/ t \in locked)
    THEN r ELSE None

\* Storing r puts something else in the place of the grid in force.
Replaces(t, r) ==
    /\ chosen[t] # None
    /\ \E f \in {"grid", "range", "imported", "edited"} : r[f] # chosen[t][f]

----------------------------------------------------------------------------
(***************************************************************************)
(* Get and LoadStale.                                                      *)
(***************************************************************************)

\* A result in memory is served as it is.
Hit(c, t) ==
    /\ op[c].step = "idle"
    /\ results[t] # None
    /\ touchLocked(t)
    /\ UNCHANGED <<gridCarry, file, envVars, op, made, histVars>>

Miss(c, t) ==
    /\ op[c].step = "idle"
    /\ results[t] = None
    /\ Go(c, Doing("load", t, None), {})
    /\ UNCHANGED <<lruVars, gridCarry, file, envVars, made, chosen, overtaken>>

\* A result that is made without an edit by hand.
Fresh(grid, imported, under) ==
    [grid |-> grid, range |-> under, fits |-> TRUE, era |-> era,
     imported |-> imported, edited |-> FALSE]

\* The range on record is read when the result is done, a while after the one
\* under which the tempo was found.
Stamped(r) == [r EXCEPT !.range = range, !.fits = (r.range = range)]

\* The caller of a Get that found nothing gives up (no audio file), fills in
\* what the Importer has for the track, or analyzes it: the queue runs one
\* analysis of a track at a time, which stops if its job was cancelled.
NextAfterMiss(o) ==
    {Idle}
        \cup (IF o.track \in Importable THEN {Doing("fill", o.track, Fresh(0, TRUE, 0))} ELSE {})
        \cup (IF o.stopped \/ Analyzing(o.track) # {} THEN {}
              ELSE {Doing("fit", o.track, None)})

Stale(r) == r.era # era \/ r.range # range

\* loadFromDisk: what is read, and what is to be done with it.
\* Mutant: an edited grid of an older version is discarded like any other.
LoadDiscardsEdits(c) ==
    /\ op[c].step = "load"
    /\ LET t == op[c].track
           f == file[t]
       IN  \/ f = None /\ \E o \in NextAfterMiss(op[c]) : Go(c, o, {})
           \/ /\ f # None
              /\ Go(c, [op[c] EXCEPT !.r = f,
                     !.step = IF ~Stale(f) \/ t \in locked \/ f.imported THEN "put"
                              ELSE "discard"], {})
    /\ UNCHANGED <<lruVars, gridCarry, file, envVars, made, chosen, overtaken>>

Load(c) ==
    /\ op[c].step = "load"
    /\ LET t == op[c].track
           f == file[t]
       IN  \/ f = None /\ \E o \in NextAfterMiss(op[c]) : Go(c, o, {})
           \/ /\ f # None
              /\ Go(c, [op[c] EXCEPT !.r = f,
                     !.step = IF ~Stale(f) \/ t \in locked \/ f.imported THEN "put"
                              ELSE IF f.era # era /\ f.edited THEN "stash"
                              ELSE "discard"], {})
    /\ UNCHANGED <<lruVars, gridCarry, file, envVars, made, chosen, overtaken>>

\* LoadStale reads whatever the file holds; getOrAnalyze calls it for a locked
\* track, and a partial re-analysis for any.  Where it finds nothing, Load says
\* how the first goes on, and TakeNothing the second.
LoadStale(c) ==
    /\ op[c].step = "load"
    /\ file[op[c].track] # None
    /\ Go(c, Doing("put", op[c].track, file[op[c].track]), {})
    /\ UNCHANGED <<lruVars, gridCarry, file, envVars, made, chosen, overtaken>>

\* The file stays until a re-analysis has been saved over it.
Stash(c) ==
    /\ op[c].step = "stash"
    /\ gridCarry' = [gridCarry EXCEPT ![op[c].track] = op[c].r.grid]
    /\ \E o \in NextAfterMiss(op[c]) : Go(c, o, {})
    /\ UNCHANGED <<lruVars, file, envVars, made, chosen, overtaken>>

\* os.Remove, of whatever is in the file by now.
Discard(c) ==
    /\ op[c].step = "discard"
    /\ file' = [file EXCEPT ![op[c].track] = None]
    /\ \E o \in NextAfterMiss(op[c]) : Go(c, o, {})
    /\ UNCHANGED <<lruVars, gridCarry, envVars, made, chosen, overtaken>>

Put(c) ==
    /\ op[c].step = "put"
    /\ putLocked(op[c].track, op[c].r)
    /\ Go(c, Idle, {})
    /\ overtaken' = overtaken \cup (Analyzing(op[c].track) \ {c})
    /\ UNCHANGED <<gridCarry, file, envVars, made, chosen>>

----------------------------------------------------------------------------
(***************************************************************************)
(* Set, SetIfAbsent and saveToDisk.                                        *)
(***************************************************************************)

\* Mutant: the rescued grid is forgotten.
ReappliedNever(t, r) == r

\* A grid rescued from a stale file is re-applied to a result that is not
\* edited itself.
Reapplied(t, r) ==
    IF gridCarry[t] # 0 /\ ~r.edited
    THEN [r EXCEPT !.grid = gridCarry[t], !.edited = TRUE]
    ELSE r

\* The part of set under the mutex.  The rest comes in steps of its own.
Store(c, t, given, rest, more) ==
    LET r == Reapplied(t, given)
    IN  /\ putLocked(t, r)
        /\ gridCarry' = [gridCarry EXCEPT ![t] = IF given.edited THEN @ ELSE 0]
        /\ overtaken' = overtaken \cup (Analyzing(t) \ {c})
        /\ op' = [op EXCEPT ![c] = Doing(rest, t, r)]
        /\ excused' = (more \cup Contended(op'))

Set(c, t, given, more)         == Store(c, t, given, "cancel", more)
SetIfAbsent(c, t, given, more) == Store(c, t, given, "save", more)

\* Set ends the context of the track's running job, under the queue's mutex.
\* Only a job that has yet to look at its context is told.
Cancel(c) ==
    /\ op[c].step = "cancel"
    /\ op' = [d \in Clients |->
         IF d = c THEN [op[c] EXCEPT !.step = "save"]
         ELSE IF op[d].track = op[c].track
                 /\ op[d].step \in {"load", "stash", "discard", "fit", "stamp"}
              THEN [op[d] EXCEPT !.stopped = TRUE]
              ELSE op[d]]
    /\ UNCHANGED <<lruVars, gridCarry, file, envVars, made, histVars>>

\* An import stores rekordbox's analysis; a locked track keeps its own.  (The
\* lock is looked at just before the ANLZ files are parsed; one step here.)
Import(c, t) ==
    LET r == Fresh(made + 1, TRUE, 0)
    IN  /\ op[c].step = "idle"
        /\ t \notin locked
        /\ made < MaxMade
        /\ made' = made + 1
        /\ Set(c, t, r, excused \ {t})
        /\ chosen' = [chosen EXCEPT ![t] = InForce(t, Reapplied(t, r))]
        /\ UNCHANGED <<file, envVars>>

\* handleBeatGridAdjust copies the result it is served, once it has seen the
\* track is not locked, and stores the edited copy.
CopyForEdit(c, t) ==
    /\ op[c].step = "idle"
    /\ t \notin locked
    /\ results[t] # None
    /\ made < MaxMade
    /\ touchLocked(t)
    /\ Go(c, Doing("edit", t, results[t]), {})
    /\ UNCHANGED <<gridCarry, file, envVars, made, chosen, overtaken>>

Edit(c) ==
    LET t == op[c].track
        r == [op[c].r EXCEPT !.grid = made + 1, !.edited = TRUE]
    IN  /\ op[c].step = "edit"
        /\ made < MaxMade
        /\ made' = made + 1
        /\ Set(c, t, r, excused \ {t})
        /\ chosen' = [chosen EXCEPT ![t] = InForce(t, r)]
        /\ UNCHANGED <<file, envVars>>

\* handleReanalyze for a part: it takes the result there is, stale or not, and
\* stores it again with that part redone.  A track that is locked when it starts
\* allows the waveform only, and that leaves the grid as it was taken.
TakeForRedo(c, t) ==
    /\ op[c].step = "idle"
    /\ results[t] # None
    /\ \E part \in {"waveform"} \cup (IF t \in locked THEN {} ELSE {"grid"}) :
          Go(c, Doing(part, t, results[t]), {})
    /\ UNCHANGED <<lruVars, gridCarry, file, envVars, made, chosen, overtaken>>

RedoWaveform(c) ==
    LET t == op[c].track
        r == [op[c].r EXCEPT !.era = era]
    IN  /\ op[c].step = "waveform"
        /\ Set(c, t, r, excused \cup (IF Replaces(t, Reapplied(t, r)) THEN {t} ELSE {}))
        /\ UNCHANGED <<file, envVars, made, chosen>>

\* There was nothing to take: the re-analysis of a part is a full one.
TakeNothing(c) ==
    /\ op[c].step = "load"
    /\ file[op[c].track] = None
    /\ Go(c, Doing("full", op[c].track, Fresh(0, FALSE, range)), {})
    /\ UNCHANGED <<lruVars, gridCarry, file, envVars, made, chosen, overtaken>>

\* The tempo is found under the range of that moment.
Refit(c) ==
    /\ op[c].step \in {"grid", "full"}
    /\ Go(c, Doing(IF op[c].step = "grid" THEN "regrid" ELSE "refull", op[c].track,
                   [op[c].r EXCEPT !.grid = 0, !.edited = FALSE, !.range = range, !.era = era]), {})
    /\ UNCHANGED <<lruVars, gridCarry, file, envVars, made, chosen, overtaken>>

RedoGrid(c) ==
    LET t == op[c].track
        r == Stamped(op[c].r)
    IN  /\ op[c].step = "regrid"
        /\ Set(c, t, r, excused \ {t})
        /\ chosen' = [chosen EXCEPT ![t] = None]
        /\ UNCHANGED <<file, envVars, made>>

RedoFull(c) ==
    LET t == op[c].track
        r == Stamped(op[c].r)
    IN  /\ op[c].step = "refull"
        /\ Set(c, t, r, excused \cup (IF Replaces(t, Reapplied(t, r)) THEN {t} ELSE {}))
        /\ UNCHANGED <<file, envVars, made, chosen>>

\* The queue's analysis does the same, and looks at its context between stages.
Fit(c) ==
    /\ op[c].step = "fit" /\ ~op[c].stopped
    /\ Go(c, [op[c] EXCEPT !.step = "stamp", !.r = Fresh(0, FALSE, range)], {})
    /\ UNCHANGED <<lruVars, gridCarry, file, envVars, made, chosen, overtaken>>

\* The last look comes a while after the range was recorded; nothing that
\* changes the range changes what it sees.
Stamp(c) ==
    /\ op[c].step = "stamp" /\ ~op[c].stopped
    /\ Go(c, Doing("fill", op[c].track, Stamped(op[c].r)), {})
    /\ UNCHANGED <<lruVars, gridCarry, file, envVars, made, chosen, overtaken>>

\* It fails or was cancelled; an edit turns out to change nothing, or the audio
\* cannot be decoded again.
Abandon(c) ==
    /\ op[c].step \in {"fit", "stamp", "edit", "waveform", "grid", "full"}
    /\ Go(c, Idle, {})
    /\ overtaken' = overtaken \ {c}
    /\ UNCHANGED <<lruVars, gridCarry, file, envVars, made, chosen>>

\* Mutant: the result is stored with Set.
FillAlways(c) ==
    /\ op[c].step = "fill"
    /\ LET t == op[c].track
       IN  Set(c, t, op[c].r,
               excused \cup (IF results[t] = None /\ c \in overtaken THEN {t} ELSE {}))
    /\ UNCHANGED <<file, envVars, made, chosen>>

\* keepCurrent: only the results in memory are looked at.
Fill(c) ==
    /\ op[c].step = "fill"
    /\ LET t == op[c].track
       IN  \/ /\ results[t] # None
              /\ Go(c, Idle, {})
              /\ overtaken' = overtaken \ {c}
              /\ UNCHANGED <<lruVars, gridCarry>>
           \/ /\ results[t] = None
              /\ SetIfAbsent(c, t, op[c].r, excused \cup (IF c \in overtaken THEN {t} ELSE {}))
    /\ UNCHANGED <<file, envVars, made, chosen>>

\* The file is replaced as a whole, or the write fails and is logged.
Save(c) ==
    /\ op[c].step = "save"
    /\ \/ file' = [file EXCEPT ![op[c].track] = op[c].r] /\ Go(c, Idle, {})
       \/ UNCHANGED file /\ Go(c, Idle, {op[c].track})
    /\ overtaken' = overtaken \ {c}
    /\ UNCHANGED <<lruVars, gridCarry, envVars, made, chosen>>

----------------------------------------------------------------------------
(***************************************************************************)
(* Invalidate and InvalidateAll.                                           *)
(***************************************************************************)

Invalidate(c, t) ==
    /\ op[c].step = "idle"
    /\ t \notin locked
    /\ dropLocked(t)
    /\ Go(c, Doing("unlink", t, None), {})
    /\ chosen' = [chosen EXCEPT ![t] = None]
    /\ overtaken' = overtaken \ Analyzing(t)
    /\ UNCHANGED <<gridCarry, file, envVars, made>>

Unlink(c) ==
    /\ op[c].step = "unlink"
    /\ file' = [file EXCEPT ![op[c].track] = None]
    /\ Go(c, Idle, {})
    /\ UNCHANGED <<lruVars, gridCarry, envVars, made, chosen, overtaken>>

\* syncBPMRange sets the analyzer's range, then drops what is in memory.
SetRange ==
    /\ range = 0
    /\ range' = 1
    /\ sweeping' = TRUE
    /\ chosen' = [t \in Tracks |->
         IF chosen[t] # None /\ ~chosen[t].imported /\ t \notin locked THEN None ELSE chosen[t]]
    /\ UNCHANGED <<lruVars, gridCarry, file, era, locked, op, made, overtaken, excused>>

InvalidateAll ==
    /\ sweeping
    /\ sweeping' = FALSE
    /\ dropAllLocked
    /\ UNCHANGED <<gridCarry, file, era, range, locked, op, made, histVars>>

----------------------------------------------------------------------------
(***************************************************************************)
(* The surroundings.                                                       *)
(***************************************************************************)

Lock(t) ==
    /\ t \notin locked
    /\ locked' = locked \cup {t}
    /\ UNCHANGED <<lruVars, gridCarry, file, era, range, sweeping, op, made, histVars>>

Unlock(t) ==
    /\ t \in locked
    /\ locked' = locked \ {t}
    /\ chosen' = [chosen EXCEPT ![t] =
         IF @ # None /\ ~@.imported /\ @.range # range THEN None ELSE @]
    /\ UNCHANGED <<lruVars, gridCarry, file, era, range, sweeping, op, made,
                   overtaken, excused>>

\* The daemon stops, at any point, and starts again, perhaps as a newer build
\* whose cacheVersion is higher.  A result whose file was not yet written is
\* lost, and what the file holds is in force again.
Restart ==
    /\ era' \in era..1
    /\ dropAllLocked
    /\ gridCarry' = [t \in Tracks |-> 0]
    /\ op' = [c \in Clients |-> Idle]
    /\ sweeping' = FALSE
    /\ LET pending == {op[c].track : c \in {d \in Clients : Unsaved(op[d])}}
       IN  chosen' = [t \in Tracks |->
             IF t \notin pending THEN chosen[t]
             ELSE IF file[t] = None THEN None ELSE InForce(t, file[t])]
    /\ overtaken' = {}
    /\ UNCHANGED <<file, range, locked, made, excused>>

Next ==
    \/ \E c \in Clients, t \in Tracks :
          \/ Hit(c, t) \/ Miss(c, t) \/ Import(c, t) \/ CopyForEdit(c, t) \/ TakeForRedo(c, t)
          \/ Invalidate(c, t)
    \/ \E c \in Clients :
          \/ Load(c) \/ LoadStale(c) \/ Stash(c) \/ Discard(c) \/ Put(c)
          \/ Edit(c) \/ RedoWaveform(c) \/ TakeNothing(c) \/ Refit(c) \/ RedoGrid(c)
          \/ RedoFull(c) \/ Fit(c) \/ Stamp(c) \/ Abandon(c) \/ Fill(c)
          \/ Cancel(c) \/ Save(c) \/ Unlink(c)
    \/ SetRange \/ InvalidateAll
    \/ \E t \in Lockable : Lock(t) \/ Unlock(t)
    \/ Restart

Spec == Init /\ [][Next]_vars

----------------------------------------------------------------------------

\* The types; the LRU's byte count never goes below zero, and the
\* carried grid is one that was made.
TypeOK ==
    /\ results \in [Tracks -> Result \cup {None}]
    /\ order \in Seq(Tracks)
    /\ sizes \in [Tracks -> 0..2]
    /\ bytes \in Nat
    /\ gridCarry \in [Tracks -> 0..MaxMade]
    /\ file \in [Tracks -> Result \cup {None}]
    /\ era \in Eras /\ range \in Ranges /\ sweeping \in BOOLEAN
    /\ locked \subseteq Lockable
    /\ op \in [Clients -> [step: Steps, track: Tracks, r: Result \cup {None}, stopped: BOOLEAN]]
    /\ made \in 0..MaxMade
    /\ chosen \in [Tracks -> Result \cup {None}]
    /\ overtaken \subseteq Clients /\ excused \subseteq Tracks

\* The list by use and the sizes describe exactly the results in memory, and
\* the total is theirs: if they drifted apart, the budget would be exceeded
\* for good, or everything evicted at once.
LRUMatches ==
    /\ \A t \in Tracks : sizes[t] = IF results[t] = None THEN 0 ELSE resultSize(results[t])
    /\ Held(order) = {t \in Tracks : results[t] # None}
    /\ Len(order) = Cardinality({t \in Tracks : results[t] # None})
    /\ bytes = SizeOf(Tracks, sizes)
    /\ bytes > MaxResultBytes => Len(order) = 1

\* Through eviction, reloading, re-analysis, a change of the BPM range, an
\* upgrade and a restart, a track that was given a grid on purpose, by an
\* import or by hand, is served that grid.
StoredIsServed == \A t \in Tracks \ excused :
    (results[t] # None /\ chosen[t] # None) => results[t].grid = chosen[t].grid

\* And at every moment its file holds that grid, unless it is still to be
\* written: the grid survives a crash at any point of a re-analysis.
ChosenIsInFile == \A t \in Tracks \ excused :
    (chosen[t] # None /\ \A c \in Clients : ~(Unsaved(op[c]) /\ op[c].track = t))
        => file[t] # None /\ file[t].grid = chosen[t].grid

\* What the comment on Result says of its tempo range ("record the --bpm-range
\* setting this result was analyzed under"), so that a change of the setting
\* re-analyzes what was found under the old one.  It does not hold: the range
\* is read again after the tempo has been found.
StampedAsFit == \A t \in Tracks :
    results[t] # None => results[t].fits

\* What the comment on SetIfAbsent says ("a result stored while that analysis
\* ran ... is kept instead of being overwritten"), for an analysis that was
\* not stopped, because the track was given the other result after it had
\* looked at its context for the last time.  It does not hold: only the results
\* in memory are looked at, and an import or edit may have been dropped from
\* there, having been saved; the analysis then replaces its file.
KeepsWhatWasStored == [][
    \A c \in overtaken : LET t == op[c].track IN
        /\ op[c].step = "save" /\ op'[c].step = "idle" /\ ~op[c].r.imported
        /\ chosen[t] # None /\ file[t] = chosen[t]
        => file'[t].grid = file[t].grid]_vars
============================================================================
