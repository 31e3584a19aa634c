------------------------ MODULE AnalysisStoreProofs ------------------------
(***************************************************************************)
(* That the grid a track was given on purpose is the one it is served and  *)
(* the one its file holds, for any number of tracks and of goroutines that *)
(* call the store.                                                         *)
(*                                                                         *)
(* The invariant follows that grid through the store: a client that read   *)
(* it from the file is about to put it back in memory or to rescue it, one *)
(* that analyzes the track, or fills in what the Importer has, will find   *)
(* it rescued, one that stored it is about to write it, and none is about  *)
(* to remove the file.                                                     *)
(*                                                                         *)
(* A second invariant is the cache's: the list by use holds each result in *)
(* memory once, and its total is the sum of their sizes.  The sum is over  *)
(* a set, so that a result more or less changes it by its size.            *)
(***************************************************************************)
EXTENDS AnalysisStore, ListProofs

Known == Result \cup {None}
Doings == [step: Steps, track: Tracks, r: Known, stopped: BOOLEAN]

\* TypeOK, but for the list of results by use.
Types ==
    /\ results \in [Tracks -> Known]
    /\ gridCarry \in [Tracks -> 0..MaxMade]
    /\ file \in [Tracks -> Known]
    /\ era \in Eras /\ range \in Ranges /\ sweeping \in BOOLEAN
    /\ locked \subseteq Lockable
    /\ op \in [Clients -> Doings]
    /\ made \in 0..MaxMade
    /\ chosen \in [Tracks -> Known]
    /\ overtaken \subseteq Clients /\ excused \subseteq Tracks

\* A detected grid does not count as edited, and no result is of a BPM range
\* still to come.
Sane(x) == x # None => (x.edited => x.grid # 0) /\ x.range <= range

\* What a client holds fits what it is about to do with it.
Fits(o) ==
    /\ Sane(o.r)
    /\ o.step \in Steps \ {"idle", "load", "fit", "unlink"} => o.r # None
    /\ o.step = "stash" => ~o.r.imported /\ o.r.edited
    /\ o.step = "stamp" => ~o.r.imported
    /\ o.step \in {"stamp", "fill", "regrid", "refull"} => ~o.r.edited

Sound ==
    /\ \A t \in Tracks : Sane(results[t]) /\ Sane(file[t]) /\ Sane(chosen[t])
    /\ \A c \in Clients : Fits(op[c])

\* A result that is not lost when it is read back: it keeps the grid in force
\* for t, and is neither discarded as stale nor taken for a detected one.
Carries(t, x) ==
    /\ x # None
    /\ x.grid = chosen[t].grid
    /\ x.imported \/ x.edited
    /\ chosen[t].imported => x.imported
    /\ x.imported \/ x.range \in {chosen[t].range, range}

\* What client c is about to do at t keeps the grid in force.
Harmless(c, t) == op[c].track = t =>
    /\ op[c].step \notin {"discard", "unlink"}
    /\ op[c].step \in {"cancel", "save", "put", "stash"} => Carries(t, op[c].r)
    /\ (op[c].step \in {"fit", "stamp", "fill"} /\ c \notin overtaken) =>
          /\ gridCarry[t] = chosen[t].grid
          /\ ~chosen[t].imported
          /\ op[c].step # "fit" =>
                op[c].r.imported \/ op[c].r.range \in {chosen[t].range, range}

Saving(t) == \E c \in Clients : Unsaved(op[c]) /\ op[c].track = t

Kept(t) ==
    /\ results[t] # None => results[t].grid = chosen[t].grid
    /\ ~Saving(t) => Carries(t, file[t])
    /\ \A c \in Clients : Harmless(c, t)

StillInForce == \A t \in Tracks : chosen[t] # None => InForce(t, chosen[t]) = chosen[t]

Base == Types /\ Sound /\ Contended(op) \subseteq excused /\ StillInForce

StoreInv ==
    /\ Base
    /\ \A t \in Tracks \ excused : chosen[t] # None => Kept(t)

----------------------------------------------------------------------------
(***************************************************************************)
(* The pieces the actions are made of.                                     *)
(***************************************************************************)

\* None is no result.
LEMMA NoneIsNoResult == None \notin Result
<1>1. \A x \in Result : x.grid # -1 BY StoreAssumption DEF Result
<1>2. None.grid = -1 BY DEF None
<1> QED BY <1>1, <1>2

\* An idle client holds nothing.
LEMMA IdleType == Idle \in Doings /\ Idle.step = "idle" /\ Idle.r = None
<1>1. (CHOOSE t \in Tracks : TRUE) \in Tracks BY StoreAssumption
<1> QED BY <1>1 DEF Idle, Doing, Doings, Steps, Known

\* A result is put in memory, and no other comes in with it.
LEMMA PutIsKept ==
    ASSUME NEW t \in Tracks, NEW r \in Result, results \in [Tracks -> Known], putLocked(t, r)
    PROVE  /\ results' \in [Tracks -> Known]
           /\ results'[t] = r
           /\ \A u \in Tracks \ {t} : results'[u] \in {results[u], None}
<1> DEFINE held == [results EXCEPT ![t] = r]
<1>1. held \in [Tracks -> Known] /\ held[t] = r /\ \A u \in Tracks \ {t} : held[u] = results[u]
  BY DEF Known
<1>2. PICK out : t \notin out /\ results' = [u \in Tracks |-> IF u \in out THEN None ELSE held[u]]
  BY DEF putLocked, evictLocked
<1> HIDE DEF held
<1> QED BY <1>1, <1>2 DEF Known

\* A client goes on, and the others stay where they are.
LEMMA GoesOn ==
    ASSUME NEW c \in Clients, NEW o \in Doings, NEW more \in SUBSET Tracks,
           Types, Go(c, o, more)
    PROVE  /\ op' \in [Clients -> Doings]
           /\ op'[c] = o
           /\ \A d \in Clients \ {c} : op'[d] = op[d]
           /\ excused' \subseteq Tracks
           /\ excused \subseteq excused' /\ more \subseteq excused'
           /\ Contended(op') \subseteq excused'
BY DEF Types, Go, Contended

\* Such a step, when what it leaves in memory and in the files is sane.
LEMMA GoKeepsBase ==
    ASSUME Base, NEW c \in Clients, NEW o \in Doings, Fits(o), NEW more \in SUBSET Tracks,
           Go(c, o, more), UNCHANGED <<envVars, made, chosen>>,
           results' \in [Tracks -> Known], \A t \in Tracks : Sane(results'[t]),
           file' \in [Tracks -> Known], \A t \in Tracks : Sane(file'[t]),
           gridCarry' \in [Tracks -> 0..MaxMade], overtaken' \subseteq Clients
    PROVE  Base'
<1>1. /\ op' \in [Clients -> Doings]
      /\ op'[c] = o
      /\ \A d \in Clients \ {c} : op'[d] = op[d]
      /\ excused' \subseteq Tracks
      /\ Contended(op') \subseteq excused'
  BY GoesOn DEF Base
<1>2. Types' BY <1>1 DEF Base, Types, envVars
<1>3. \A x : Sane(x)' <=> Sane(x) BY DEF Sane, envVars
<1>4. \A d \in Clients : Fits(op[d])' BY <1>1 DEF Base, Sound, Fits, Sane, envVars
<1>5. Sound' BY <1>4 DEF Base, Sound, Sane, envVars
<1>6. StillInForce' BY DEF Base, StillInForce, InForce, envVars
<1> QED BY <1>1, <1>2, <1>5, <1>6 DEF Base

Rests == {"cancel", "save"}

\* The part of set under the mutex.
LEMMA StoreDoes ==
    ASSUME Base, NEW c \in Clients, NEW t \in Tracks, NEW given \in Result, Sane(given),
           NEW rest \in Rests, NEW more \in SUBSET Tracks, Store(c, t, given, rest, more),
           NEW r, r = Reapplied(t, given)
    PROVE  /\ r \in Result /\ Sane(r)
           /\ results' \in [Tracks -> Known]
           /\ results'[t] = r
           /\ \A u \in Tracks \ {t} : results'[u] \in {results[u], None}
           /\ gridCarry' \in [Tracks -> 0..MaxMade]
           /\ \A u \in Tracks \ {t} : gridCarry'[u] = gridCarry[u]
           /\ overtaken' = overtaken \cup (Analyzing(t) \ {c})
           /\ op' \in [Clients -> Doings]
           /\ op'[c] = Doing(rest, t, r)
           /\ \A d \in Clients \ {c} : op'[d] = op[d]
           /\ excused' = more \cup Contended(op')
           /\ excused' \subseteq Tracks
<1>1. gridCarry \in [Tracks -> 0..MaxMade] /\ results \in [Tracks -> Known] BY DEF Base, Types
<1>2. r \in Result
  BY <1>1 DEF Reapplied, Result
<1>3. Sane(r)
  <2>1. CASE gridCarry[t] # 0 /\ ~given.edited
    <3>1. r = [given EXCEPT !.grid = gridCarry[t], !.edited = TRUE] BY <2>1 DEF Reapplied
    <3>2. r.grid # 0 /\ r.range = given.range BY <2>1, <3>1 DEF Result
    <3> QED BY <3>2, NoneIsNoResult DEF Sane
  <2>2. CASE ~(gridCarry[t] # 0 /\ ~given.edited) BY <2>2 DEF Reapplied
  <2> QED BY <2>1, <2>2
<1>4. putLocked(t, r) BY DEF Store
<1>5. /\ results' \in [Tracks -> Known]
      /\ results'[t] = r
      /\ \A u \in Tracks \ {t} : results'[u] \in {results[u], None}
  BY <1>1, <1>2, <1>4, PutIsKept
<1>6. gridCarry' = [gridCarry EXCEPT ![t] = IF given.edited THEN @ ELSE 0] BY DEF Store
<1>7. /\ gridCarry' \in [Tracks -> 0..MaxMade]
      /\ \A u \in Tracks \ {t} : gridCarry'[u] = gridCarry[u]
  BY <1>1, <1>6, StoreAssumption
<1>8. Doing(rest, t, r) \in Doings BY <1>2 DEF Doing, Doings, Known, Steps, Rests
<1>9. /\ op' = [op EXCEPT ![c] = Doing(rest, t, r)]
      /\ excused' = more \cup Contended(op')
      /\ overtaken' = overtaken \cup (Analyzing(t) \ {c})
  BY DEF Store
<1>10. op \in [Clients -> Doings] BY DEF Base, Types
<1>11. Contended(op') \subseteq Tracks BY DEF Contended
<1> QED BY <1>2, <1>3, <1>5, <1>7, <1>8, <1>9, <1>10, <1>11

\* After it, what a client is to save is sane, and so is everything else, if the
\* import or edit that is now in force is.
LEMMA StoreKeepsBase ==
    ASSUME Base, NEW c \in Clients, NEW t \in Tracks, NEW given \in Result, Sane(given),
           NEW rest \in Rests, NEW more \in SUBSET Tracks, Store(c, t, given, rest, more),
           UNCHANGED <<file, envVars>>,
           made' \in 0..MaxMade, chosen' \in [Tracks -> Known],
           \A u \in Tracks : Sane(chosen'[u]), StillInForce'
    PROVE  Base'
<1> DEFINE r == Reapplied(t, given)
<1>1. /\ r \in Result /\ Sane(r)
      /\ results' \in [Tracks -> Known]
      /\ results'[t] = r
      /\ \A u \in Tracks \ {t} : results'[u] \in {results[u], None}
      /\ gridCarry' \in [Tracks -> 0..MaxMade]
      /\ overtaken' = overtaken \cup (Analyzing(t) \ {c})
      /\ op' \in [Clients -> Doings]
      /\ op'[c] = Doing(rest, t, r)
      /\ \A d \in Clients \ {c} : op'[d] = op[d]
      /\ excused' = more \cup Contended(op')
      /\ excused' \subseteq Tracks
  BY StoreDoes
<1> HIDE DEF r
<1>2. overtaken' \subseteq Clients BY <1>1 DEF Base, Types, Analyzing
<1>3. Types' BY <1>1, <1>2 DEF Base, Types, envVars
<1>4. r # None BY <1>1, NoneIsNoResult
<1>5. Fits(op[c])' BY <1>1, <1>4 DEF Fits, Doing, Sane, envVars, Rests
<1>6. \A d \in Clients : Fits(op[d])' BY <1>1, <1>5 DEF Base, Sound, Fits, Sane, envVars
<1>7. \A u \in Tracks : Sane(results'[u]) BY <1>1 DEF Base, Sound, Sane
<1>8. Sound' BY <1>6, <1>7 DEF Base, Sound, Sane, envVars
<1> QED BY <1>1, <1>3, <1>8 DEF Base

----------------------------------------------------------------------------
(***************************************************************************)
(* Types and sanity.                                                       *)
(***************************************************************************)

\* A result made without an edit is one, and sane.
LEMMA FreshIsSane ==
    ASSUME Base, NEW grid \in 0..MaxMade, NEW imported \in BOOLEAN, NEW under \in {0, range}
    PROVE  /\ Fresh(grid, imported, under) \in Result
           /\ Sane(Fresh(grid, imported, under))
           /\ Fresh(grid, imported, under) # None
           /\ Fresh(grid, imported, under).imported = imported
           /\ ~Fresh(grid, imported, under).edited
           /\ Fresh(grid, imported, under).range = under
<1>1. range \in Ranges /\ era \in Eras BY DEF Base, Types
<1>2. Fresh(grid, imported, under) \in Result BY <1>1 DEF Fresh, Result, Ranges
<1>3. Sane(Fresh(grid, imported, under)) BY <1>1 DEF Fresh, Sane, Ranges
<1> QED BY <1>2, <1>3, NoneIsNoResult DEF Fresh

\* So is one that gets the range of the moment.
LEMMA StampedIsSane ==
    ASSUME Base, NEW x \in Result, ~x.edited
    PROVE  /\ Stamped(x) \in Result /\ Sane(Stamped(x)) /\ Stamped(x) # None
           /\ ~Stamped(x).edited /\ Stamped(x).range = range
<1>1. range \in Ranges BY DEF Base, Types
<1>2. /\ Stamped(x) \in Result
      /\ Stamped(x).edited = x.edited /\ Stamped(x).range = range
  BY <1>1 DEF Stamped, Result
<1>3. Sane(Stamped(x)) BY <1>1, <1>2 DEF Sane, Ranges
<1> QED BY <1>2, <1>3, NoneIsNoResult

\* What follows a Get that found nothing.
LEMMA AfterMiss ==
    ASSUME Base, NEW c \in Clients, NEW o \in NextAfterMiss(op[c])
    PROVE  /\ o \in Doings /\ Fits(o)
           /\ o.step \in {"idle", "fit", "fill"}
           /\ o.step # "idle" => o.track = op[c].track
           /\ o.step = "fill" => o.r.imported
<1> DEFINE t == op[c].track
           f == Fresh(0, TRUE, 0)
<1>1. t \in Tracks BY DEF Base, Types, Doings
<1>2. f \in Result /\ Sane(f) /\ f # None /\ f.imported /\ ~f.edited
  <2>1. 0 \in 0..MaxMade BY StoreAssumption
  <2> QED BY <2>1, FreshIsSane
<1> HIDE DEF f
<1>3. o = Idle \/ o = Doing("fit", t, None) \/ o = Doing("fill", t, f)
  BY DEF NextAfterMiss, f
<1>4. CASE o = Idle BY <1>4, IdleType DEF Fits, Sane
<1>5. CASE o = Doing("fit", t, None)
  BY <1>1, <1>5 DEF Doing, Doings, Known, Steps, Fits, Sane
<1>6. CASE o = Doing("fill", t, f)
  BY <1>1, <1>2, <1>6 DEF Doing, Doings, Known, Steps, Fits
<1> QED BY <1>3, <1>4, <1>5, <1>6

\* Only the contexts of others change when a Set cancels their jobs.
LEMMA CancelDoes ==
    ASSUME Types, NEW c \in Clients, Cancel(c)
    PROVE  /\ op' \in [Clients -> Doings]
           /\ op[c].step = "cancel" /\ op'[c].step = "save"
           /\ \A d \in Clients : op'[d].track = op[d].track /\ op'[d].r = op[d].r
           /\ \A d \in Clients \ {c} : op'[d].step = op[d].step
           /\ Contended(op') = Contended(op)
<1>1. op \in [Clients -> Doings] BY DEF Types
<1>2. /\ op[c].step = "cancel"
      /\ op' = [d \in Clients |->
           IF d = c THEN [op[c] EXCEPT !.step = "save"]
           ELSE IF op[d].track = op[c].track
                   /\ op[d].step \in {"load", "stash", "discard", "fit", "stamp"}
                THEN [op[d] EXCEPT !.stopped = TRUE]
                ELSE op[d]]
  BY DEF Cancel
<1>3. ASSUME NEW d \in Clients
      PROVE  /\ op'[d] \in Doings
             /\ op'[d].track = op[d].track /\ op'[d].r = op[d].r
             /\ op'[d].step = IF d = c THEN "save" ELSE op[d].step
  <2>1. op'[d] \in {op[d], [op[d] EXCEPT !.step = "save"], [op[d] EXCEPT !.stopped = TRUE]}
    BY <1>2
  <2>2. CASE d = c
    <3>1. op'[d] = [op[d] EXCEPT !.step = "save"] BY <1>2, <2>2
    <3> QED BY <1>1, <2>2, <3>1 DEF Doings, Steps
  <2>3. CASE d # c
    <3>1. op'[d] \in {op[d], [op[d] EXCEPT !.stopped = TRUE]} BY <1>2, <2>3
    <3> QED BY <1>1, <2>3, <3>1 DEF Doings
  <2> QED BY <2>2, <2>3
<1>4. op' \in [Clients -> Doings] BY <1>2, <1>3
<1>5. \A d \in Clients : AtFile(op'[d]) <=> AtFile(op[d]) BY <1>2, <1>3 DEF AtFile
<1>6. Contended(op') = Contended(op) BY <1>3, <1>5 DEF Contended
<1> QED BY <1>2, <1>3, <1>4, <1>6

\* A step that looks at the cache: of a caller, or of Get after it.
LEMMA ReadingKeepsBase ==
    ASSUME Base, NEW c \in Clients, NEW t \in Tracks,
           \/ Hit(c, t) \/ Miss(c, t) \/ CopyForEdit(c, t) \/ TakeForRedo(c, t)
           \/ Load(c) \/ LoadStale(c) \/ TakeNothing(c)
    PROVE  Base'
<1>1. /\ results \in [Tracks -> Known] /\ file \in [Tracks -> Known]
      /\ gridCarry \in [Tracks -> 0..MaxMade]
      /\ op \in [Clients -> Doings] /\ overtaken \subseteq Clients
      /\ op[c].track \in Tracks
  BY DEF Base, Types, Doings
<1>2. \A u \in Tracks : Sane(results[u]) /\ Sane(file[u]) BY DEF Base, Sound
<1>3. \A x : x \in Known /\ x # None => x \in Result BY DEF Known
<1>4. CASE Hit(c, t)
  BY <1>4, <1>1 DEF Hit, touchLocked, histVars, envVars, Base, Types, Sound, Sane, Fits, Contended,
     StillInForce, InForce
<1>5. CASE Miss(c, t)
  <2>1. Doing("load", t, None) \in Doings /\ Fits(Doing("load", t, None))
    BY DEF Doing, Doings, Known, Steps, Fits, Sane
  <2> QED BY <1>1, <1>2, <1>5, <2>1, GoKeepsBase DEF Miss, lruVars, envVars
<1>6. CASE CopyForEdit(c, t)
  <2>1. Doing("edit", t, results[t]) \in Doings /\ Fits(Doing("edit", t, results[t]))
    BY <1>1, <1>2, <1>6 DEF CopyForEdit, Doing, Doings, Steps, Fits
  <2> QED BY <1>1, <1>2, <1>6, <2>1, GoKeepsBase DEF CopyForEdit, touchLocked, envVars
<1>7. CASE TakeForRedo(c, t)
  <2>1. PICK part \in {"waveform", "grid"} : Go(c, Doing(part, t, results[t]), {})
    BY <1>7 DEF TakeForRedo
  <2>2. Doing(part, t, results[t]) \in Doings /\ Fits(Doing(part, t, results[t]))
    BY <1>1, <1>2, <1>7 DEF TakeForRedo, Doing, Doings, Steps, Fits
  <2> QED BY <1>1, <1>2, <1>7, <2>1, <2>2, GoKeepsBase DEF TakeForRedo, lruVars, envVars
<1>8. CASE Load(c)
  <2> DEFINE u == op[c].track
  <2>1. UNCHANGED <<results, gridCarry, file, envVars, made, chosen, overtaken>>
    BY <1>8 DEF Load, lruVars
  <2>2. CASE \E o \in NextAfterMiss(op[c]) : Go(c, o, {})
    <3>1. PICK o \in NextAfterMiss(op[c]) : Go(c, o, {}) BY <2>2
    <3>2. o \in Doings /\ Fits(o) BY AfterMiss
    <3> QED BY <1>1, <1>2, <2>1, <3>1, <3>2, GoKeepsBase
  <2>3. CASE /\ file[u] # None
             /\ Go(c, [op[c] EXCEPT !.r = file[u],
                     !.step = IF ~Stale(file[u]) \/ u \in locked \/ file[u].imported THEN "put"
                              ELSE IF file[u].era # era /\ file[u].edited THEN "stash"
                              ELSE "discard"], {})
    <3> DEFINE s == IF ~Stale(file[u]) \/ u \in locked \/ file[u].imported THEN "put"
                    ELSE IF file[u].era # era /\ file[u].edited THEN "stash"
                    ELSE "discard"
               o == [op[c] EXCEPT !.r = file[u], !.step = s]
    <3>1. s \in {"put", "stash", "discard"} OBVIOUS
    <3>2. s = "stash" => ~file[u].imported /\ file[u].edited OBVIOUS
    <3>3. Go(c, o, {}) BY <2>3
    <3> HIDE DEF s
    <3>4. o \in Doings /\ o.step = s /\ o.r = file[u]
      BY <1>1, <3>1 DEF Doings, Steps
    <3> HIDE DEF o
    <3>5. Fits(o) BY <1>1, <1>2, <2>3, <3>1, <3>2, <3>4 DEF Fits
    <3> QED BY <1>1, <1>2, <2>1, <3>3, <3>4, <3>5, GoKeepsBase
  <2> QED BY <1>8, <2>2, <2>3 DEF Load
<1>9. CASE LoadStale(c)
  <2> DEFINE u == op[c].track
  <2>1. Doing("put", u, file[u]) \in Doings /\ Fits(Doing("put", u, file[u]))
    BY <1>1, <1>2, <1>9 DEF LoadStale, Doing, Doings, Steps, Fits
  <2> QED BY <1>1, <1>2, <1>9, <2>1, GoKeepsBase DEF LoadStale, lruVars, envVars
<1>10. CASE TakeNothing(c)
  <2> DEFINE r == Fresh(0, FALSE, range)
             o == Doing("full", op[c].track, r)
  <2>1. r \in Result /\ Sane(r) /\ r # None
    <3>1. 0 \in 0..MaxMade BY StoreAssumption
    <3> QED BY <3>1, FreshIsSane
  <2>2. Go(c, o, {}) BY <1>10 DEF TakeNothing
  <2> HIDE DEF r
  <2>3. o \in Doings /\ Fits(o) BY <1>1, <2>1 DEF Doing, Doings, Known, Steps, Fits
  <2> HIDE DEF o
  <2> QED BY <1>1, <1>2, <1>10, <2>2, <2>3, GoKeepsBase DEF TakeNothing, lruVars
<1> QED BY <1>4, <1>5, <1>6, <1>7, <1>8, <1>9, <1>10

\* A step that acts on what was read, or on a result to be stored.
LEMMA ActingKeepsBase ==
    ASSUME Base, NEW c \in Clients,
           \/ Stash(c) \/ Discard(c) \/ Put(c) \/ Refit(c) \/ Fit(c) \/ Stamp(c) \/ Abandon(c)
           \/ Cancel(c) \/ Save(c) \/ Unlink(c) \/ \E t \in Tracks : Invalidate(c, t)
    PROVE  Base'
<1> DEFINE t == op[c].track
           x == op[c].r
<1>1. /\ results \in [Tracks -> Known] /\ file \in [Tracks -> Known]
      /\ gridCarry \in [Tracks -> 0..MaxMade]
      /\ op \in [Clients -> Doings] /\ overtaken \subseteq Clients
      /\ t \in Tracks /\ x \in Known
      /\ range \in Ranges /\ era \in Eras
  BY DEF Base, Types, Doings
<1>2. \A u \in Tracks : Sane(results[u]) /\ Sane(file[u]) BY DEF Base, Sound
<1>3. Fits(op[c]) BY DEF Base, Sound
<1>4. \A y : y \in Known /\ y # None => y \in Result BY DEF Known
<1>5. Sane(None) /\ None \in Known BY DEF Sane, Known
<1>6. Idle \in Doings /\ Fits(Idle) BY IdleType, <1>5 DEF Fits
<1>7. \A o \in NextAfterMiss(op[c]) : o \in Doings /\ Fits(o) BY AfterMiss
<1>8. CASE Stash(c)
  <2>1. PICK o \in NextAfterMiss(op[c]) : Go(c, o, {}) BY <1>8 DEF Stash
  <2>2. x.grid \in 0..MaxMade BY <1>1, <1>3, <1>4, <1>8 DEF Stash, Fits, Result, Steps
  <2>3. gridCarry' \in [Tracks -> 0..MaxMade] BY <1>1, <1>8, <2>2 DEF Stash
  <2>4. overtaken' \subseteq Clients BY <1>1, <1>8 DEF Stash
  <2>5. UNCHANGED <<results, file, envVars, made, chosen>> BY <1>8 DEF Stash, lruVars
  <2> QED BY <1>1, <1>2, <1>7, <2>1, <2>3, <2>4, <2>5, GoKeepsBase
<1>9. CASE Discard(c)
  <2>1. PICK o \in NextAfterMiss(op[c]) : Go(c, o, {}) BY <1>9 DEF Discard
  <2>2. file' \in [Tracks -> Known] /\ \A u \in Tracks : Sane(file'[u])
    BY <1>1, <1>2, <1>5, <1>9 DEF Discard
  <2>3. overtaken' \subseteq Clients BY <1>1, <1>9 DEF Discard
  <2>4. UNCHANGED <<results, gridCarry, envVars, made, chosen>> BY <1>9 DEF Discard, lruVars
  <2> QED BY <1>1, <1>2, <1>7, <2>1, <2>2, <2>3, <2>4, GoKeepsBase
<1>10. CASE Put(c)
  <2>1. x \in Result /\ Sane(x) BY <1>1, <1>3, <1>4, <1>10 DEF Put, Fits, Steps
  <2>2. putLocked(t, x) /\ Go(c, Idle, {}) BY <1>10 DEF Put
  <2>3. /\ results' \in [Tracks -> Known]
        /\ results'[t] = x
        /\ \A u \in Tracks \ {t} : results'[u] \in {results[u], None}
    BY <1>1, <2>1, <2>2, PutIsKept
  <2>4. \A u \in Tracks : Sane(results'[u]) BY <1>2, <1>5, <2>1, <2>3
  <2>5. overtaken' \subseteq Clients BY <1>1, <1>10 DEF Put, Analyzing
  <2>6. UNCHANGED <<gridCarry, file, envVars, made, chosen>> BY <1>10 DEF Put
  <2> QED BY <1>1, <1>2, <1>6, <2>2, <2>3, <2>4, <2>5, <2>6, GoKeepsBase
<1>11. CASE Fit(c)
  <2> DEFINE r == Fresh(0, FALSE, range)
             o == [op[c] EXCEPT !.step = "stamp", !.r = r]
  <2>1. r \in Result /\ Sane(r) /\ r # None /\ ~r.imported /\ ~r.edited
    <3>1. 0 \in 0..MaxMade BY StoreAssumption
    <3> QED BY <3>1, FreshIsSane
  <2>2. Go(c, o, {}) BY <1>11 DEF Fit
  <2> HIDE DEF r
  <2>3. o \in Doings /\ o.step = "stamp" /\ o.r = r
    BY <1>1, <2>1 DEF Doings, Known, Steps
  <2> HIDE DEF o
  <2>4. Fits(o) BY <2>1, <2>3 DEF Fits
  <2> QED BY <1>1, <1>2, <1>11, <2>2, <2>3, <2>4, GoKeepsBase DEF Fit, lruVars
<1>12. CASE Stamp(c)
  <2> DEFINE r == Stamped(x)
             o == Doing("fill", t, r)
  <2>1. x \in Result /\ ~x.edited BY <1>1, <1>3, <1>4, <1>12 DEF Stamp, Fits, Steps
  <2>2. r \in Result /\ Sane(r) /\ r # None /\ ~r.edited BY <2>1, StampedIsSane
  <2>3. Go(c, o, {}) BY <1>12 DEF Stamp
  <2> HIDE DEF r
  <2>4. o \in Doings /\ Fits(o)
    BY <1>1, <2>2 DEF Doing, Doings, Known, Steps, Fits
  <2> HIDE DEF o
  <2> QED BY <1>1, <1>2, <1>12, <2>3, <2>4, GoKeepsBase DEF Stamp, lruVars
<1>13. CASE Abandon(c)
  BY <1>1, <1>2, <1>6, <1>13, GoKeepsBase DEF Abandon, lruVars
<1>14. CASE Save(c)
  <2>1. x \in Result /\ Sane(x) BY <1>1, <1>3, <1>4, <1>14 DEF Save, Fits, Steps
  <2>2. file' \in [Tracks -> Known] /\ \A u \in Tracks : Sane(file'[u])
    BY <1>1, <1>2, <1>14, <2>1 DEF Save
  <2>3. PICK more \in {{}, {t}} : Go(c, Idle, more) BY <1>14 DEF Save
  <2>4. more \in SUBSET Tracks BY <1>1
  <2>5. UNCHANGED <<results, gridCarry, envVars, made, chosen>> /\ overtaken' \subseteq Clients
    BY <1>1, <1>14 DEF Save, lruVars
  <2> QED BY <1>1, <1>2, <1>6, <2>2, <2>3, <2>4, <2>5, GoKeepsBase
<1>15. CASE Unlink(c)
  <2>1. file' \in [Tracks -> Known] /\ \A u \in Tracks : Sane(file'[u])
    BY <1>1, <1>2, <1>5, <1>15 DEF Unlink
  <2> QED BY <1>1, <1>2, <1>6, <1>15, <2>1, GoKeepsBase DEF Unlink, lruVars
<1>16. CASE \E u \in Tracks : Invalidate(c, u)
  <2>1. PICK u \in Tracks : Invalidate(c, u) BY <1>16
  <2> DEFINE o == Doing("unlink", u, None)
  <2>2. o \in Doings /\ Fits(o) BY <1>5 DEF Doing, Doings, Steps, Fits
  <2>3. Go(c, o, {}) BY <2>1 DEF Invalidate
  <2> HIDE DEF o
  <2>4. Types BY DEF Base
  <2>5. /\ op' \in [Clients -> Doings] /\ op'[c] = o
        /\ \A d \in Clients \ {c} : op'[d] = op[d]
        /\ excused' \subseteq Tracks /\ Contended(op') \subseteq excused'
    BY <2>2, <2>3, <2>4, GoesOn
  <2>6. results' = [results EXCEPT ![u] = None] BY <2>1 DEF Invalidate, dropLocked
  <2>7. /\ chosen' = [chosen EXCEPT ![u] = None] /\ overtaken' \subseteq Clients
        /\ UNCHANGED <<gridCarry, file, envVars, made>>
    BY <1>1, <2>1 DEF Invalidate
  <2>8. Types' BY <1>5, <2>4, <2>5, <2>6, <2>7 DEF Types, envVars
  <2>9. \A d \in Clients : Fits(op[d])' BY <2>2, <2>5, <2>7 DEF Base, Sound, Fits, Sane, envVars
  <2>10. \A v \in Tracks : (Sane(results[v]) /\ Sane(file[v]) /\ Sane(chosen[v]))'
    BY <1>1, <2>4, <2>6, <2>7 DEF Base, Sound, Sane, envVars, Types
  <2>11. StillInForce' BY <2>4, <2>7 DEF Base, StillInForce, InForce, envVars, Types
  <2> QED BY <2>5, <2>8, <2>9, <2>10, <2>11 DEF Base, Sound
<1>17. CASE Refit(c)
  <2> DEFINE r == [x EXCEPT !.grid = 0, !.edited = FALSE, !.range = range, !.era = era]
             s == IF op[c].step = "grid" THEN "regrid" ELSE "refull"
             o == Doing(s, t, r)
  <2>1. x \in Result BY <1>1, <1>3, <1>4, <1>17 DEF Refit, Fits, Steps
  <2>2. r \in Result /\ ~r.edited /\ r.range = range
    <3> HIDE DEF x
    <3>1. 0 \in 0..MaxMade BY StoreAssumption
    <3> QED BY <1>1, <2>1, <3>1 DEF Result
  <2>3. Sane(r) BY <1>1, <2>2 DEF Sane, Ranges
  <2>4. s \in {"regrid", "refull"} OBVIOUS
  <2>5. Go(c, o, {}) BY <1>17 DEF Refit
  <2> HIDE DEF r, s
  <2>6. o \in Doings /\ Fits(o)
    BY <1>1, <2>2, <2>3, <2>4, NoneIsNoResult DEF Doing, Doings, Known, Steps, Fits
  <2> HIDE DEF o
  <2> QED BY <1>1, <1>2, <1>17, <2>5, <2>6, GoKeepsBase DEF Refit, lruVars
<1>18. CASE Cancel(c)
  <2>1. Types BY DEF Base
  <2>2. /\ op' \in [Clients -> Doings]
        /\ op[c].step = "cancel" /\ op'[c].step = "save"
        /\ \A d \in Clients : op'[d].track = op[d].track /\ op'[d].r = op[d].r
        /\ \A d \in Clients \ {c} : op'[d].step = op[d].step
        /\ Contended(op') = Contended(op)
    BY <1>18, <2>1, CancelDoes
  <2>3. UNCHANGED <<lruVars, gridCarry, file, envVars, made, histVars>> BY <1>18 DEF Cancel
  <2>4. Types' BY <2>1, <2>2, <2>3 DEF Types, lruVars, envVars, histVars
  <2>5. \A d \in Clients : Fits(op[d])'
    BY <2>2, <2>3 DEF Base, Sound, Fits, Sane, envVars, Steps
  <2>6. Sound' BY <2>3, <2>5 DEF Base, Sound, Sane, lruVars, envVars, histVars
  <2>7. StillInForce' BY <2>3 DEF Base, StillInForce, InForce, envVars, histVars
  <2> QED BY <2>2, <2>3, <2>4, <2>6, <2>7 DEF Base, histVars
<1> QED BY <1>8, <1>9, <1>10, <1>11, <1>12, <1>13, <1>14, <1>15, <1>16, <1>17, <1>18

\* What is put in force for a track by a step that leaves the range and the
\* locks alone.
LEMMA ForcedIsInForce ==
    ASSUME Base, NEW t \in Tracks, NEW r \in Result, Sane(r), UNCHANGED envVars,
           chosen' = [chosen EXCEPT ![t] = InForce(t, r)]
    PROVE  /\ chosen' \in [Tracks -> Known]
           /\ \A u \in Tracks : Sane(chosen'[u])
           /\ StillInForce'
<1>1. chosen \in [Tracks -> Known] /\ \A u \in Tracks : Sane(chosen[u])
  BY DEF Base, Types, Sound
<1>2. InForce(t, r) \in {r, None} BY DEF InForce
<1>3. InForce(t, r) \in Known /\ Sane(InForce(t, r)) BY <1>2 DEF Known, Sane
<1>4. chosen' \in [Tracks -> Known] /\ \A u \in Tracks : Sane(chosen'[u]) BY <1>1, <1>3
<1>5. chosen'[t] # None => chosen'[t] = r /\ InForce(t, r) = r BY <1>1, <1>2
<1>6. \A u, x : InForce(u, x)' = InForce(u, x) BY DEF InForce, envVars
<1>7. StillInForce'
  <2> SUFFICES ASSUME NEW u \in Tracks, chosen'[u] # None
               PROVE  InForce(u, chosen'[u]) = chosen'[u]
    BY <1>6 DEF StillInForce, InForce, envVars
  <2>1. CASE u = t BY <1>5, <2>1
  <2>2. CASE u # t BY <1>1, <2>2 DEF Base, StillInForce
  <2> QED BY <2>1, <2>2
<1> QED BY <1>4, <1>7

\* A step that stores a result.
LEMMA StoringKeepsBase ==
    ASSUME Base, NEW c \in Clients,
           \/ \E t \in Tracks : Import(c, t)
           \/ Edit(c) \/ RedoWaveform(c) \/ RedoGrid(c) \/ RedoFull(c) \/ Fill(c)
    PROVE  Base'
<1> DEFINE t == op[c].track
           x == op[c].r
<1>1. /\ chosen \in [Tracks -> Known] /\ op \in [Clients -> Doings]
      /\ t \in Tracks /\ x \in Known /\ excused \subseteq Tracks
      /\ range \in Ranges /\ era \in Eras /\ made \in 0..MaxMade
      /\ results \in [Tracks -> Known] /\ file \in [Tracks -> Known]
      /\ gridCarry \in [Tracks -> 0..MaxMade] /\ overtaken \subseteq Clients
  BY DEF Base, Types, Doings
<1>2. Fits(op[c]) /\ \A u \in Tracks : Sane(chosen[u]) /\ Sane(results[u]) /\ Sane(file[u])
  BY DEF Base, Sound
<1>3. op[c].step \in {"edit", "waveform", "regrid", "refull", "fill"} => x \in Result /\ Sane(x)
  BY <1>1, <1>2 DEF Fits, Known, Steps
<1>4. ASSUME UNCHANGED <<envVars, chosen>> PROVE StillInForce'
  BY <1>4 DEF Base, StillInForce, InForce, envVars
<1>5. "cancel" \in Rests /\ "save" \in Rests BY DEF Rests
<1>6. CASE \E u \in Tracks : Import(c, u)
  <2>1. PICK u \in Tracks : Import(c, u) BY <1>6
  <2> DEFINE r == Fresh(made + 1, TRUE, 0)
             given == Reapplied(u, r)
  <2>2. made < MaxMade /\ made' = made + 1 /\ UNCHANGED <<file, envVars>> BY <2>1 DEF Import
  <2>3. made + 1 \in 0..MaxMade BY <1>1, <2>2, StoreAssumption
  <2>4. r \in Result /\ Sane(r) BY <2>3, FreshIsSane
  <2>5. /\ Store(c, u, r, "cancel", excused \ {u})
        /\ chosen' = [chosen EXCEPT ![u] = InForce(u, given)]
    BY <2>1 DEF Import, Set
  <2> HIDE DEF r
  <2>6. excused \ {u} \in SUBSET Tracks BY <1>1
  <2>7. given \in Result /\ Sane(given) BY <1>5, <2>4, <2>5, <2>6, StoreDoes
  <2> HIDE DEF given
  <2>8. /\ chosen' \in [Tracks -> Known] /\ \A v \in Tracks : Sane(chosen'[v]) /\ StillInForce'
    BY <2>2, <2>5, <2>7, ForcedIsInForce
  <2>9. made' \in 0..MaxMade BY <2>2, <2>3
  <2> QED BY <1>5, <2>2, <2>4, <2>5, <2>6, <2>8, <2>9, StoreKeepsBase
<1>7. CASE Edit(c)
  <2> DEFINE r == [x EXCEPT !.grid = made + 1, !.edited = TRUE]
  <2>1. made < MaxMade /\ made' = made + 1 /\ UNCHANGED <<file, envVars>> BY <1>7 DEF Edit
  <2>2. x \in Result /\ Sane(x) BY <1>3, <1>7 DEF Edit
  <2>3. r \in Result /\ r.grid = made + 1 /\ r.range = x.range
    <3> HIDE DEF x
    <3>1. made + 1 \in 0..MaxMade BY <1>1, <2>1, StoreAssumption
    <3> QED BY <2>2, <3>1 DEF Result
  <2>4. Sane(r) BY <1>1, <2>2, <2>3, NoneIsNoResult DEF Sane
  <2>5. /\ Store(c, t, r, "cancel", excused \ {t})
        /\ chosen' = [chosen EXCEPT ![t] = InForce(t, r)]
    BY <1>7 DEF Edit, Set
  <2> HIDE DEF r
  <2>6. excused \ {t} \in SUBSET Tracks BY <1>1
  <2>7. /\ chosen' \in [Tracks -> Known] /\ \A v \in Tracks : Sane(chosen'[v]) /\ StillInForce'
    BY <1>1, <2>1, <2>3, <2>4, <2>5, ForcedIsInForce
  <2>8. made' \in 0..MaxMade BY <1>1, <2>1, StoreAssumption
  <2> QED BY <1>1, <1>5, <2>1, <2>3, <2>4, <2>5, <2>6, <2>7, <2>8, StoreKeepsBase
<1>8. CASE RedoWaveform(c)
  <2> DEFINE r == [x EXCEPT !.era = era]
             more == excused \cup (IF Replaces(t, Reapplied(t, r)) THEN {t} ELSE {})
  <2>1. x \in Result /\ Sane(x) BY <1>3, <1>8 DEF RedoWaveform
  <2>2. r \in Result /\ r.grid = x.grid /\ r.range = x.range /\ r.edited = x.edited
    BY <1>1, <2>1 DEF Result
  <2>3. Sane(r) BY <2>1, <2>2, NoneIsNoResult DEF Sane
  <2>4. Store(c, t, r, "cancel", more) /\ UNCHANGED <<file, envVars, made, chosen>>
    BY <1>8 DEF RedoWaveform, Set
  <2>5. more \in SUBSET Tracks BY <1>1
  <2> HIDE DEF r, more
  <2> QED BY <1>1, <1>2, <1>4, <1>5, <2>2, <2>3, <2>4, <2>5, StoreKeepsBase
<1>9. CASE RedoGrid(c)
  <2> DEFINE r == Stamped(x)
  <2>1. x \in Result /\ ~x.edited BY <1>2, <1>3, <1>9 DEF RedoGrid, Fits
  <2>2. r \in Result /\ Sane(r) BY <2>1, StampedIsSane
  <2>3. /\ Store(c, t, r, "cancel", excused \ {t}) /\ chosen' = [chosen EXCEPT ![t] = None]
        /\ UNCHANGED <<file, envVars, made>>
    BY <1>9 DEF RedoGrid, Set
  <2> HIDE DEF r
  <2>4. excused \ {t} \in SUBSET Tracks BY <1>1
  <2>5. chosen' \in [Tracks -> Known] /\ \A v \in Tracks : Sane(chosen'[v])
    BY <1>1, <1>2, <2>3 DEF Known, Sane
  <2>6. StillInForce' BY <1>1, <2>3 DEF Base, StillInForce, InForce, envVars
  <2> QED BY <1>1, <1>5, <2>2, <2>3, <2>4, <2>5, <2>6, StoreKeepsBase
<1>10. CASE RedoFull(c)
  <2> DEFINE r == Stamped(x)
             more == excused \cup (IF Replaces(t, Reapplied(t, r)) THEN {t} ELSE {})
  <2>1. x \in Result /\ ~x.edited BY <1>2, <1>3, <1>10 DEF RedoFull, Fits
  <2>2. r \in Result /\ Sane(r) BY <2>1, StampedIsSane
  <2>3. Store(c, t, r, "cancel", more) /\ UNCHANGED <<file, envVars, made, chosen>>
    BY <1>10 DEF RedoFull, Set
  <2>4. more \in SUBSET Tracks BY <1>1
  <2> HIDE DEF r, more
  <2> QED BY <1>1, <1>2, <1>4, <1>5, <2>2, <2>3, <2>4, StoreKeepsBase
<1>11. CASE Fill(c)
  <2> DEFINE more == excused \cup (IF c \in overtaken THEN {t} ELSE {})
  <2>1. x \in Result /\ Sane(x) BY <1>3, <1>11 DEF Fill
  <2>2. UNCHANGED <<file, envVars, made, chosen>> BY <1>11 DEF Fill
  <2>3. CASE /\ results[t] # None /\ Go(c, Idle, {}) /\ overtaken' = overtaken \ {c}
             /\ UNCHANGED <<lruVars, gridCarry>>
    <3>1. Idle \in Doings /\ Fits(Idle) BY IdleType DEF Fits, Sane
    <3>2. overtaken' \subseteq Clients BY <1>1, <2>3
    <3> QED BY <1>1, <1>2, <2>2, <2>3, <3>1, <3>2, GoKeepsBase DEF lruVars
  <2>4. CASE Store(c, t, x, "save", more)
    <3>1. more \in SUBSET Tracks BY <1>1
    <3> HIDE DEF more
    <3> QED BY <1>1, <1>2, <1>4, <1>5, <2>1, <2>2, <2>4, <3>1, StoreKeepsBase
  <2> QED BY <1>11, <2>3, <2>4 DEF Fill, SetIfAbsent
<1> QED BY <1>6, <1>7, <1>8, <1>9, <1>10, <1>11

\* A step of the surroundings.
LEMMA SurroundingsKeepBase ==
    ASSUME Base,
           \/ SetRange \/ InvalidateAll \/ Restart
           \/ \E t \in Lockable : Lock(t) \/ Unlock(t)
    PROVE  Base'
<1>1. /\ chosen \in [Tracks -> Known] /\ file \in [Tracks -> Known] /\ op \in [Clients -> Doings]
      /\ results \in [Tracks -> Known] /\ gridCarry \in [Tracks -> 0..MaxMade]
      /\ range \in Ranges /\ era \in Eras /\ locked \subseteq Lockable
      /\ Lockable \subseteq Tracks /\ excused \subseteq Tracks
  BY StoreAssumption DEF Base, Types
<1>2. None \in Known /\ Sane(None) BY DEF Known, Sane
<1>3. CASE SetRange
  <2>1. /\ range = 0 /\ range' = 1 /\ sweeping' = TRUE
        /\ chosen' = [t \in Tracks |->
             IF chosen[t] # None /\ ~chosen[t].imported /\ t \notin locked THEN None ELSE chosen[t]]
        /\ UNCHANGED <<lruVars, gridCarry, file, era, locked, op, made, overtaken, excused>>
    BY <1>3 DEF SetRange
  <2>2. Types' BY <1>1, <1>2, <2>1 DEF Base, Types, lruVars, Ranges
  <2>3. \A x \in Known : Sane(x) => Sane(x)'
    BY <2>1 DEF Sane, Known, Result, Ranges
  <2>4. \A t \in Tracks : (Sane(results[t]) /\ Sane(file[t]) /\ Sane(chosen[t]))'
    BY <1>1, <1>2, <2>1, <2>3 DEF Base, Sound, lruVars, Sane, Known, Result, Ranges
  <2>5. \A c \in Clients : op[c].r \in Known BY <1>1 DEF Doings
  <2>6. \A c \in Clients : Fits(op[c])' BY <2>1, <2>3, <2>5 DEF Base, Sound, Fits
  <2>7. StillInForce' BY <1>1, <2>1 DEF Base, StillInForce, InForce
  <2> QED BY <2>1, <2>2, <2>4, <2>6, <2>7 DEF Base, Sound
<1>4. CASE InvalidateAll
  <2>1. /\ sweeping' = FALSE /\ results' = [t \in Tracks |-> None]
        /\ UNCHANGED <<gridCarry, file, era, range, locked, op, made, histVars>>
    BY <1>4 DEF InvalidateAll, dropAllLocked
  <2>2. Types' BY <1>1, <1>2, <2>1 DEF Base, Types, histVars
  <2>3. Sound' BY <1>1, <1>2, <2>1 DEF Base, Sound, Sane, Fits, histVars
  <2>4. StillInForce' BY <2>1 DEF Base, StillInForce, InForce, histVars
  <2> QED BY <2>1, <2>2, <2>3, <2>4 DEF Base, histVars, Contended
<1>5. CASE Restart
  <2> DEFINE pending == {op[c].track : c \in {d \in Clients : Unsaved(op[d])}}
  <2>1. /\ era' \in era..1 /\ results' = [t \in Tracks |-> None]
        /\ gridCarry' = [t \in Tracks |-> 0] /\ op' = [c \in Clients |-> Idle]
        /\ sweeping' = FALSE /\ overtaken' = {} /\ UNCHANGED <<file, range, locked, made, excused>>
        /\ chosen' = [t \in Tracks |->
             IF t \notin pending THEN chosen[t]
             ELSE IF file[t] = None THEN None ELSE InForce(t, file[t])]
    BY <1>5 DEF Restart, dropAllLocked
  <2> HIDE DEF pending
  <2>2. \A t \in Tracks : chosen'[t] \in {chosen[t], file[t], None} BY <2>1 DEF InForce
  <2>3. chosen' \in [Tracks -> Known]
    <3>1. \A t \in Tracks : chosen'[t] \in Known BY <1>1, <1>2, <2>2
    <3>2. chosen' = [t \in Tracks |-> chosen'[t]] BY <2>1
    <3> QED BY <3>1, <3>2
  <2>4. Types'
    <3>1. era' \in Eras BY <1>1, <2>1 DEF Eras
    <3>2. /\ results' \in [Tracks -> Known] /\ gridCarry' \in [Tracks -> 0..MaxMade]
          /\ op' \in [Clients -> Doings]
      BY <1>2, <2>1, IdleType, StoreAssumption
    <3> QED BY <2>1, <2>3, <3>1, <3>2 DEF Base, Types
  <2>5. \A t \in Tracks : (Sane(results[t]) /\ Sane(file[t]) /\ Sane(chosen[t]))'
    BY <2>1, <2>2 DEF Base, Sound, Sane
  <2>6. \A c \in Clients : Fits(op[c])' BY <2>1, IdleType DEF Fits, Sane
  <2>7. StillInForce'
    <3> SUFFICES ASSUME NEW t \in Tracks, chosen'[t] # None
                 PROVE  InForce(t, chosen'[t]) = chosen'[t]
      BY <2>1 DEF StillInForce, InForce
    <3>1. CASE t \notin pending BY <2>1, <3>1 DEF Base, StillInForce
    <3>2. CASE t \in pending
      <4>1. chosen'[t] = InForce(t, file[t]) BY <2>1, <3>2
      <4> QED BY <4>1 DEF InForce
    <3> QED BY <3>1, <3>2
  <2>8. Contended(op') = {} BY <2>1, IdleType DEF Contended, AtFile
  <2> QED BY <2>4, <2>5, <2>6, <2>7, <2>8 DEF Base, Sound
<1>6. CASE \E t \in Lockable : Lock(t)
  <2>1. PICK t \in Lockable : Lock(t) BY <1>6
  <2>2. /\ locked' = locked \cup {t}
        /\ UNCHANGED <<lruVars, gridCarry, file, era, range, sweeping, op, made, histVars>>
    BY <2>1 DEF Lock
  <2>3. Types' BY <1>1, <2>2 DEF Base, Types, lruVars, histVars
  <2>4. Sound' BY <2>2 DEF Base, Sound, Sane, Fits, lruVars, histVars
  <2>5. StillInForce' BY <2>2 DEF Base, StillInForce, InForce, histVars
  <2> QED BY <2>2, <2>3, <2>4, <2>5 DEF Base, histVars, Contended
<1>7. CASE \E t \in Lockable : Unlock(t)
  <2>1. PICK t \in Lockable : Unlock(t) BY <1>7
  <2>2. /\ locked' = locked \ {t}
        /\ chosen' = [chosen EXCEPT ![t] =
             IF @ # None /\ ~@.imported /\ @.range # range THEN None ELSE @]
        /\ UNCHANGED <<lruVars, gridCarry, file, era, range, sweeping, op, made, overtaken, excused>>
    BY <2>1 DEF Unlock
  <2>3. \A u \in Tracks : chosen'[u] \in {chosen[u], None} BY <1>1, <2>2
  <2>4. Types' BY <1>1, <1>2, <2>2 DEF Base, Types, lruVars
  <2>5. Sound' BY <1>2, <2>2, <2>3 DEF Base, Sound, Sane, Fits, lruVars
  <2>6. StillInForce' BY <1>1, <2>2 DEF Base, StillInForce, InForce
  <2> QED BY <2>2, <2>4, <2>5, <2>6 DEF Base, Contended
<1> QED BY <1>3, <1>4, <1>5, <1>6, <1>7

\* All of it together.
LEMMA BaseStep == Base /\ [Next]_vars => Base'
<1> SUFFICES ASSUME Base, [Next]_vars PROVE Base' OBVIOUS
<1>1. CASE UNCHANGED vars
  BY <1>1 DEF vars, lruVars, envVars, histVars, Base, Types, Sound, Sane, Fits, Contended,
     StillInForce, InForce
<1>2. CASE Next
  <2>1. ASSUME NEW c \in Clients, NEW t \in Tracks,
               \/ Hit(c, t) \/ Miss(c, t) \/ CopyForEdit(c, t) \/ TakeForRedo(c, t)
        PROVE  Base'
    BY <2>1, ReadingKeepsBase
  <2>2. ASSUME NEW c \in Clients, NEW t \in Tracks, Import(c, t) \/ Invalidate(c, t)
        PROVE  Base'
    BY <2>2, ActingKeepsBase, StoringKeepsBase
  <2>3. ASSUME NEW c \in Clients, Load(c) \/ LoadStale(c) \/ TakeNothing(c)
        PROVE  Base'
    BY <2>3, ReadingKeepsBase, StoreAssumption
  <2>4. ASSUME NEW c \in Clients,
               \/ Stash(c) \/ Discard(c) \/ Put(c) \/ Refit(c) \/ Fit(c) \/ Stamp(c)
               \/ Abandon(c) \/ Cancel(c) \/ Save(c) \/ Unlink(c)
        PROVE  Base'
    BY <2>4, ActingKeepsBase
  <2>5. ASSUME NEW c \in Clients,
               Edit(c) \/ RedoWaveform(c) \/ RedoGrid(c) \/ RedoFull(c) \/ Fill(c)
        PROVE  Base'
    BY <2>5, StoringKeepsBase
  <2>6. ASSUME SetRange \/ InvalidateAll \/ Restart \/ \E t \in Lockable : Lock(t) \/ Unlock(t)
        PROVE  Base'
    BY <2>6, SurroundingsKeepBase
  <2> QED BY <1>2, <2>1, <2>2, <2>3, <2>4, <2>5, <2>6 DEF Next
<1> QED BY <1>1, <1>2

----------------------------------------------------------------------------
(***************************************************************************)
(* The grid in force.                                                      *)
(***************************************************************************)

\* A client at the file of a track that is not excused is alone there.
LEMMA AloneAtFile ==
    ASSUME Contended(op) \subseteq excused, NEW t \in Tracks \ excused,
           NEW c \in Clients, AtFile(op[c]), op[c].track = t
    PROVE  \A d \in Clients \ {c} : ~(AtFile(op[d]) /\ op[d].track = t)
BY DEF Contended

\* A client that goes on leaves the others harmless; so what counts is what it
\* leaves in memory and in the file, and what it is about to do.
LEMMA KeptAfterGo ==
    ASSUME Base, NEW t \in Tracks, Kept(t),
           NEW c \in Clients, NEW o \in Doings, NEW more \in SUBSET Tracks, Go(c, o, more),
           range' = range, chosen'[t] = chosen[t],
           gridCarry'[t] \in {gridCarry[t], chosen[t].grid},
           results'[t] # None => results'[t].grid = chosen[t].grid,
           \/ file'[t] = file[t] /\ ~(Unsaved(op[c]) /\ op[c].track = t)
           \/ Carries(t, file'[t]),
           \A d \in Clients \ {c} : (op[d].track = t /\ d \in overtaken) => d \in overtaken',
           o.track = t =>
             /\ o.step \notin {"discard", "unlink"}
             /\ o.step \in {"cancel", "save", "put", "stash"} => Carries(t, o.r)
             /\ (o.step \in {"fit", "stamp", "fill"} /\ c \notin overtaken') =>
                   /\ gridCarry'[t] = chosen[t].grid
                   /\ ~chosen[t].imported
                   /\ o.step # "fit" =>
                         o.r.imported \/ o.r.range \in {chosen[t].range, range}
    PROVE  Kept(t)'
<1>1. op'[c] = o /\ \A d \in Clients \ {c} : op'[d] = op[d] BY GoesOn DEF Base
<1>2. \A x : Carries(t, x)' <=> Carries(t, x) BY DEF Carries
<1>3. ASSUME ~Saving(t)' PROVE Carries(t, file'[t])
  <2>1. \A d \in Clients \ {c} : ~(Unsaved(op[d]) /\ op[d].track = t)
    BY <1>1, <1>3 DEF Saving
  <2> QED BY <2>1 DEF Saving, Kept
<1>4. Harmless(c, t)' BY <1>1 DEF Harmless, Carries
<1>5. \A d \in Clients \ {c} : Harmless(d, t)' BY <1>1 DEF Harmless, Carries, Kept
<1>6. ~Saving(t)' => Carries(t, file[t])' BY <1>3 DEF Carries
<1> QED BY <1>4, <1>5, <1>6 DEF Kept

\* Storing a result elsewhere.
LEMMA KeptAfterStoreElsewhere ==
    ASSUME Base, NEW t \in Tracks, Kept(t),
           NEW c \in Clients, NEW u \in Tracks \ {t}, op[c].track = u \/ op[c].step = "idle",
           NEW given \in Result, Sane(given),
           NEW rest \in Rests, NEW more \in SUBSET Tracks, Store(c, u, given, rest, more),
           range' = range, chosen'[t] = chosen[t], file' = file
    PROVE  Kept(t)'
<1> DEFINE r == Reapplied(u, given)
<1>1. /\ \A v \in Tracks \ {u} : results'[v] \in {results[v], None}
      /\ \A v \in Tracks \ {u} : gridCarry'[v] = gridCarry[v]
      /\ overtaken' = overtaken \cup (Analyzing(u) \ {c})
      /\ op'[c] = Doing(rest, u, r)
      /\ \A d \in Clients \ {c} : op'[d] = op[d]
  BY StoreDoes
<1> HIDE DEF r
<1>2. op'[c].track = u BY <1>1 DEF Doing
<1>3. results'[t] \in {results[t], None} /\ gridCarry'[t] = gridCarry[t] BY <1>1
<1>4. Harmless(c, t)' BY <1>2 DEF Harmless
<1>5. \A d \in Clients \ {c} : Harmless(d, t)' BY <1>1, <1>3 DEF Harmless, Carries, Kept
<1>6. Saving(t) => Saving(t)'
  <2> SUFFICES ASSUME NEW d \in Clients, Unsaved(op[d]), op[d].track = t PROVE Saving(t)'
    BY DEF Saving
  <2>1. d # c BY DEF Unsaved
  <2> QED BY <1>1, <2>1 DEF Saving, Unsaved
<1>7. ~Saving(t)' => Carries(t, file[t])' BY <1>6 DEF Kept, Carries
<1> QED BY <1>3, <1>4, <1>5, <1>7 DEF Kept

\* Storing the result whose grid is in force from then on: it is in memory and
\* about to be written, nobody else is at the file, and an analysis under way
\* has been overtaken.
LEMMA KeptAfterStore ==
    ASSUME Base, NEW t \in Tracks \ excused',
           NEW c \in Clients, NEW given \in Result, Sane(given),
           NEW rest \in Rests, NEW more \in SUBSET Tracks, Store(c, t, given, rest, more),
           NEW r, r = Reapplied(t, given),
           range' = range,
           r.grid = chosen'[t].grid, r.imported \/ r.edited,
           chosen'[t].imported => r.imported,
           r.imported \/ r.range \in {chosen'[t].range, range}
    PROVE  Kept(t)'
<1>1. /\ r \in Result
      /\ results'[t] = r
      /\ overtaken' = overtaken \cup (Analyzing(t) \ {c})
      /\ op'[c] = Doing(rest, t, r)
      /\ \A d \in Clients \ {c} : op'[d] = op[d]
      /\ excused' = more \cup Contended(op')
  BY StoreDoes
<1>2. op'[c].step \in {"cancel", "save"} /\ op'[c].track = t /\ op'[c].r = r
  BY <1>1 DEF Doing, Rests
<1>3. Saving(t)' BY <1>2 DEF Saving, Unsaved
<1>4. Carries(t, r)' BY <1>1, NoneIsNoResult DEF Carries
<1>5. Harmless(c, t)' BY <1>2, <1>4 DEF Harmless, Carries
<1>6. \A d \in Clients \ {c} : Harmless(d, t)'
  <2> SUFFICES ASSUME NEW d \in Clients \ {c}, op[d].track = t PROVE Harmless(d, t)'
    BY <1>1 DEF Harmless
  <2>1. ~AtFile(op[d]) BY <1>1, <1>2 DEF Contended, AtFile
  <2>2. op[d].step \in {"fit", "stamp", "fill"} => d \in overtaken' BY <1>1 DEF Analyzing
  <2> QED BY <1>1, <2>1, <2>2 DEF Harmless, AtFile
<1> QED BY <1>1, <1>3, <1>5, <1>6 DEF Kept

\* What a step that looks at the cache leaves of the grid in force.
LEMMA ReadingKeeps ==
    ASSUME StoreInv, NEW c \in Clients, NEW u \in Tracks,
           \/ Hit(c, u) \/ Miss(c, u) \/ CopyForEdit(c, u) \/ TakeForRedo(c, u)
           \/ Load(c) \/ LoadStale(c) \/ TakeNothing(c),
           NEW t \in Tracks \ excused', chosen'[t] # None
    PROVE  Kept(t)'
<1>1. UNCHANGED <<results, gridCarry, file, envVars, made, chosen>>
  BY DEF Hit, touchLocked, Miss, CopyForEdit, TakeForRedo, Load, LoadStale, TakeNothing,
     lruVars, histVars
<1>2. excused \subseteq excused'
  BY DEF Hit, histVars, Miss, CopyForEdit, TakeForRedo, Load, LoadStale, TakeNothing, Go
<1>3. t \in Tracks \ excused /\ Base /\ Kept(t) /\ range' = range /\ chosen'[t] = chosen[t]
  BY <1>1, <1>2 DEF StoreInv, envVars
<1>4. /\ results \in [Tracks -> Known] /\ file \in [Tracks -> Known]
      /\ op \in [Clients -> Doings] /\ op[c].track \in Tracks
  BY <1>3 DEF Base, Types, Doings
<1>5. results[t] # None => results[t].grid = chosen[t].grid BY <1>3 DEF Kept
<1>6. CASE Hit(c, u)
  BY <1>1, <1>3, <1>6 DEF Hit, histVars, Kept, Carries, Harmless, Saving, envVars
<1>7. ASSUME NEW o \in Doings, Go(c, o, {}), ~Unsaved(op[c]), UNCHANGED overtaken,
             o.step \in {"idle", "load", "edit", "waveform", "grid", "full"} \/ o.track # t
      PROVE  Kept(t)'
  <2>1. gridCarry'[t] = gridCarry[t] /\ results'[t] = results[t] /\ file'[t] = file[t] BY <1>1
  <2>2. \A d \in Clients \ {c} : (op[d].track = t /\ d \in overtaken) => d \in overtaken' BY <1>7
  <2> QED BY <1>3, <1>5, <1>7, <2>1, <2>2, KeptAfterGo
<1>8. CASE Miss(c, u)
  <2>1. Doing("load", u, None) \in Doings BY DEF Doing, Doings, Known, Steps
  <2> QED BY <1>7, <1>8, <2>1 DEF Miss, Doing, Unsaved
<1>9. CASE CopyForEdit(c, u)
  <2>1. Doing("edit", u, results[u]) \in Doings BY <1>4 DEF Doing, Doings, Steps
  <2> QED BY <1>7, <1>9, <2>1 DEF CopyForEdit, Doing, Unsaved
<1>10. CASE TakeForRedo(c, u)
  <2>1. PICK part \in {"waveform", "grid"} : Go(c, Doing(part, u, results[u]), {})
    BY <1>10 DEF TakeForRedo
  <2>2. Doing(part, u, results[u]) \in Doings BY <1>4 DEF Doing, Doings, Steps
  <2> QED BY <1>7, <1>10, <2>1, <2>2 DEF TakeForRedo, Doing, Unsaved
<1>11. ASSUME op[c].step = "load", op[c].track = t
       PROVE  Carries(t, file[t])
  <2>1. AtFile(op[c]) BY <1>11 DEF AtFile
  <2>2. \A d \in Clients \ {c} : ~(AtFile(op[d]) /\ op[d].track = t)
    BY <1>3, <1>11, <2>1, AloneAtFile DEF Base
  <2>3. ~Saving(t) BY <1>11, <2>2 DEF Saving, AtFile, Unsaved
  <2> QED BY <1>3, <2>3 DEF Kept
<1>12. ASSUME NEW o \in Doings, o.step \in {"put", "stash"}, o.track = op[c].track,
              o.r = file[op[c].track], op[c].step = "load", UNCHANGED overtaken, Go(c, o, {})
       PROVE  Kept(t)'
  <2>1. o.track = t => Carries(t, o.r) BY <1>11, <1>12
  <2>2. gridCarry'[t] = gridCarry[t] /\ results'[t] = results[t] /\ file'[t] = file[t] BY <1>1
  <2>3. ~Unsaved(op[c]) BY <1>12 DEF Unsaved
  <2> QED BY <1>3, <1>5, <1>12, <2>1, <2>2, <2>3, KeptAfterGo
<1>13. CASE Load(c)
  <2> DEFINE v == op[c].track
  <2>1. op[c].step = "load" /\ ~Unsaved(op[c]) /\ UNCHANGED overtaken
    BY <1>13 DEF Load, Unsaved
  <2>2. CASE file[v] = None /\ \E o \in NextAfterMiss(op[c]) : Go(c, o, {})
    <3>1. PICK o \in NextAfterMiss(op[c]) : Go(c, o, {}) BY <2>2
    <3>2. o \in Doings /\ (o.step # "idle" => o.track = v)
      BY <1>3, AfterMiss
    <3>3. v # t BY <1>11, <2>1, <2>2 DEF Carries
    <3> QED BY <1>7, <2>1, <3>1, <3>2, <3>3
  <2>3. CASE /\ file[v] # None
             /\ Go(c, [op[c] EXCEPT !.r = file[v],
                     !.step = IF ~Stale(file[v]) \/ v \in locked \/ file[v].imported THEN "put"
                              ELSE IF file[v].era # era /\ file[v].edited THEN "stash"
                              ELSE "discard"], {})
    <3> DEFINE s == IF ~Stale(file[v]) \/ v \in locked \/ file[v].imported THEN "put"
                    ELSE IF file[v].era # era /\ file[v].edited THEN "stash"
                    ELSE "discard"
               o == [op[c] EXCEPT !.r = file[v], !.step = s]
    <3>1. Go(c, o, {}) BY <2>3
    <3>4. s \in {"put", "stash", "discard"} OBVIOUS
    <3>5. s = "discard" =>
            /\ Stale(file[v]) /\ v \notin locked /\ ~file[v].imported
            /\ ~(file[v].era # era /\ file[v].edited)
      OBVIOUS
    <3> HIDE DEF s
    <3>6. o \in Doings /\ o.step = s /\ o.r = file[v] /\ o.track = v
      BY <1>4, <3>4 DEF Doings, Steps
    <3> HIDE DEF o
    <3>2. CASE s \in {"put", "stash"}
      BY <1>12, <2>1, <3>1, <3>2, <3>6
    <3>3. CASE s = "discard"
      <4>1. /\ Stale(file[v]) /\ v \notin locked /\ ~file[v].imported
            /\ ~(file[v].era # era /\ file[v].edited)
        BY <3>3, <3>5
      <4>2. v # t
        <5> SUFFICES ASSUME v = t PROVE FALSE OBVIOUS
        <5>1. Carries(t, file[t]) BY <1>11, <2>1
        <5>2. file[t].range # range BY <4>1, <5>1 DEF Carries, Stale
        <5>3. ~chosen[t].imported /\ chosen[t].range # range BY <4>1, <5>1, <5>2 DEF Carries
        <5>4. InForce(t, chosen[t]) = chosen[t] BY <1>3 DEF Base, StillInForce
        <5> QED BY <1>3, <4>1, <5>3, <5>4 DEF InForce
      <4> QED BY <1>7, <2>1, <3>1, <3>6, <4>2
    <3> QED BY <3>2, <3>3, <3>4
  <2> QED BY <1>13, <2>2, <2>3 DEF Load
<1>14. CASE LoadStale(c)
  <2> DEFINE o == Doing("put", op[c].track, file[op[c].track])
  <2>1. /\ o \in Doings /\ o.step = "put" /\ o.track = op[c].track
        /\ o.r = file[op[c].track]
    BY <1>4 DEF Doing, Doings, Steps
  <2>2. op[c].step = "load" /\ Go(c, o, {}) /\ UNCHANGED overtaken BY <1>14 DEF LoadStale
  <2> HIDE DEF o
  <2> QED BY <1>12, <2>1, <2>2
<1>15. CASE TakeNothing(c)
  <2> DEFINE r == Fresh(0, FALSE, range)
             o == Doing("full", op[c].track, r)
  <2>1. r \in Result
    <3>1. 0 \in 0..MaxMade BY StoreAssumption
    <3> QED BY <1>3, <3>1, FreshIsSane
  <2>2. ~Unsaved(op[c]) /\ Go(c, o, {}) /\ UNCHANGED overtaken
    BY <1>15 DEF TakeNothing, Unsaved
  <2> HIDE DEF r
  <2>3. o \in Doings /\ o.step = "full" BY <1>4, <2>1 DEF Doing, Doings, Known, Steps
  <2> HIDE DEF o
  <2> QED BY <1>7, <2>2, <2>3
<1> QED BY <1>6, <1>8, <1>9, <1>10, <1>13, <1>14, <1>15

\* What a step leaves of it that puts what was read in memory or rescues its
\* grid, or that is of an analysis, or that writes or removes the file.
LEMMA ActingKeeps ==
    ASSUME StoreInv, NEW c \in Clients,
           \/ Stash(c) \/ Discard(c) \/ Put(c) \/ Refit(c) \/ Fit(c) \/ Stamp(c) \/ Abandon(c)
           \/ Cancel(c) \/ Save(c) \/ Unlink(c) \/ \E u \in Tracks : Invalidate(c, u),
           NEW t \in Tracks \ excused', chosen'[t] # None
    PROVE  Kept(t)'
<1> DEFINE v == op[c].track
           x == op[c].r
<1>1. /\ results \in [Tracks -> Known] /\ file \in [Tracks -> Known]
      /\ gridCarry \in [Tracks -> 0..MaxMade] /\ chosen \in [Tracks -> Known]
      /\ op \in [Clients -> Doings] /\ v \in Tracks /\ x \in Known
      /\ range \in Ranges /\ era \in Eras
  BY DEF StoreInv, Base, Types, Doings
<1>2. excused \subseteq excused' /\ range' = range
  BY DEF Stash, Discard, Put, Refit, Fit, Stamp, Abandon, Cancel, Save, Unlink, Invalidate, Go,
     envVars, histVars
<1>3. t \in Tracks \ excused /\ Base BY <1>2 DEF StoreInv
<1>4. Fits(op[c]) BY DEF StoreInv, Base, Sound
<1>5. \A y : y \in Known /\ y # None => y \in Result BY DEF Known
<1>6. ASSUME chosen'[t] = chosen[t]
      PROVE  Kept(t) /\ (results[t] # None => results[t].grid = chosen[t].grid) /\ Harmless(c, t)
  BY <1>3, <1>6 DEF StoreInv, Kept
<1>7. CASE Stash(c)
  <2>1. PICK o \in NextAfterMiss(op[c]) : Go(c, o, {}) BY <1>7 DEF Stash
  <2>2. /\ o \in Doings /\ o.step \in {"idle", "fit", "fill"}
        /\ o.step # "idle" => o.track = v
        /\ o.step = "fill" => o.r.imported
    BY <1>3, AfterMiss
  <2>3. /\ op[c].step = "stash" /\ gridCarry' = [gridCarry EXCEPT ![v] = x.grid]
        /\ ~Unsaved(op[c]) /\ UNCHANGED <<results, file, chosen, overtaken>>
    BY <1>7 DEF Stash, lruVars, Unsaved
  <2>4. Kept(t) /\ Harmless(c, t) BY <1>6, <2>3
  <2>5. v = t => x.grid = chosen[t].grid /\ ~chosen[t].imported
    BY <1>4, <2>3, <2>4 DEF Harmless, Carries, Fits
  <2>6. gridCarry'[t] \in {gridCarry[t], chosen[t].grid} /\ (v = t => gridCarry'[t] = chosen[t].grid)
    BY <1>1, <2>3, <2>5
  <2>7. results'[t] # None => results'[t].grid = chosen[t].grid BY <1>6, <2>3
  <2>8. /\ file'[t] = file[t] /\ chosen'[t] = chosen[t]
        /\ \A d \in Clients \ {c} : (op[d].track = t /\ d \in overtaken) => d \in overtaken'
    BY <2>3
  <2> QED BY <1>2, <1>3, <2>1, <2>2, <2>3, <2>4, <2>5, <2>6, <2>7, <2>8, KeptAfterGo
<1>8. CASE Discard(c)
  <2>1. PICK o \in NextAfterMiss(op[c]) : Go(c, o, {}) BY <1>8 DEF Discard
  <2>2. /\ o \in Doings /\ o.step \in {"idle", "fit", "fill"}
        /\ o.step # "idle" => o.track = v
        /\ o.step = "fill" => o.r.imported
    BY <1>3, AfterMiss
  <2>3. /\ op[c].step = "discard" /\ file' = [file EXCEPT ![v] = None]
        /\ ~Unsaved(op[c]) /\ UNCHANGED <<results, gridCarry, chosen, overtaken>>
    BY <1>8 DEF Discard, lruVars, Unsaved
  <2>4. Kept(t) /\ v # t BY <1>6, <2>3 DEF Harmless
  <2>5. /\ file'[t] = file[t] /\ gridCarry'[t] = gridCarry[t] /\ chosen'[t] = chosen[t]
        /\ results'[t] # None => results'[t].grid = chosen[t].grid
        /\ \A d \in Clients \ {c} : (op[d].track = t /\ d \in overtaken) => d \in overtaken'
    BY <1>1, <1>6, <2>3, <2>4
  <2> QED BY <1>2, <1>3, <2>1, <2>2, <2>3, <2>4, <2>5, KeptAfterGo
<1>9. CASE Put(c)
  <2>1. /\ op[c].step = "put" /\ ~Unsaved(op[c]) /\ putLocked(v, x) /\ Go(c, Idle, {})
        /\ overtaken \subseteq overtaken' /\ UNCHANGED <<gridCarry, file, chosen>>
    BY <1>9 DEF Put, Unsaved
  <2>2. x \in Result BY <1>1, <1>4, <1>5, <2>1 DEF Fits, Steps
  <2>3. /\ results'[v] = x
        /\ \A u \in Tracks \ {v} : results'[u] \in {results[u], None}
    BY <1>1, <2>1, <2>2, PutIsKept
  <2>4. Kept(t) /\ Harmless(c, t) BY <1>6, <2>1
  <2>5. v = t => x.grid = chosen[t].grid BY <2>1, <2>4 DEF Harmless, Carries
  <2>6. results'[t] # None => results'[t].grid = chosen[t].grid BY <1>6, <2>1, <2>3, <2>5
  <2>7. /\ file'[t] = file[t] /\ gridCarry'[t] = gridCarry[t] /\ chosen'[t] = chosen[t]
        /\ \A d \in Clients \ {c} : (op[d].track = t /\ d \in overtaken) => d \in overtaken'
    BY <2>1
  <2> QED BY <1>2, <1>3, <2>1, <2>4, <2>6, <2>7, IdleType, KeptAfterGo
<1>10. ASSUME UNCHANGED <<results, gridCarry, file, chosen>>, ~Unsaved(op[c]),
              NEW o \in Doings, Go(c, o, {}),
              \/ o.step \in {"idle", "regrid", "refull"} /\ overtaken' \in {overtaken, overtaken \ {c}}
              \/ /\ o.step \in {"stamp", "fill"} /\ op[c].step \in {"fit", "stamp"}
                 /\ o.track = op[c].track /\ o.r.range = range /\ UNCHANGED overtaken
       PROVE  Kept(t)'
  <2>1. Kept(t) /\ Harmless(c, t) BY <1>6, <1>10
  <2>2. /\ file'[t] = file[t] /\ gridCarry'[t] = gridCarry[t] /\ chosen'[t] = chosen[t]
        /\ results'[t] # None => results'[t].grid = chosen[t].grid
        /\ \A d \in Clients \ {c} : (op[d].track = t /\ d \in overtaken) => d \in overtaken'
    BY <1>6, <1>10
  <2>3. o.track = t =>
             /\ o.step \notin {"discard", "unlink"}
             /\ o.step \in {"cancel", "save", "put", "stash"} => Carries(t, o.r)
             /\ (o.step \in {"fit", "stamp", "fill"} /\ c \notin overtaken') =>
                   /\ gridCarry'[t] = chosen[t].grid
                   /\ ~chosen[t].imported
                   /\ o.step # "fit" =>
                         o.r.imported \/ o.r.range \in {chosen[t].range, range}
    BY <1>10, <2>1, <2>2 DEF Harmless
  <2> QED BY <1>2, <1>3, <1>10, <2>1, <2>2, <2>3, KeptAfterGo
<1>11. CASE Fit(c)
  <2> DEFINE r == Fresh(0, FALSE, range)
             o == [op[c] EXCEPT !.step = "stamp", !.r = r]
  <2>1. r \in Known /\ r.range = range
    <3>1. 0 \in 0..MaxMade BY StoreAssumption
    <3> QED BY <1>3, <3>1, FreshIsSane DEF Known
  <2>2. Go(c, o, {}) /\ op[c].step = "fit" BY <1>11 DEF Fit
  <2> HIDE DEF r
  <2>3. o \in Doings /\ o.step = "stamp" /\ o.track = v /\ o.r.range = range
    BY <1>1, <2>1 DEF Doings, Steps
  <2> HIDE DEF o
  <2> QED BY <1>10, <1>11, <2>2, <2>3 DEF Fit, lruVars, Unsaved
<1>12. CASE Stamp(c)
  <2> DEFINE r == Stamped(x)
             o == Doing("fill", v, r)
  <2>1. x \in Result /\ ~x.edited BY <1>1, <1>4, <1>5, <1>12 DEF Stamp, Fits, Steps
  <2>2. r \in Known /\ r.range = range BY <1>3, <2>1, StampedIsSane DEF Known
  <2>3. Go(c, o, {}) /\ op[c].step = "stamp" BY <1>12 DEF Stamp
  <2> HIDE DEF r
  <2>4. o \in Doings /\ o.step = "fill" /\ o.track = v /\ o.r.range = range
    BY <1>1, <2>2 DEF Doing, Doings, Steps
  <2> HIDE DEF o
  <2> QED BY <1>10, <1>12, <2>3, <2>4 DEF Stamp, lruVars, Unsaved
<1>13. CASE Abandon(c)
  BY <1>10, <1>13, IdleType DEF Abandon, lruVars, Unsaved
<1>14. CASE Refit(c)
  <2> DEFINE r == [x EXCEPT !.grid = 0, !.edited = FALSE, !.range = range, !.era = era]
             s == IF op[c].step = "grid" THEN "regrid" ELSE "refull"
             o == Doing(s, v, r)
  <2>1. x \in Result BY <1>1, <1>4, <1>5, <1>14 DEF Refit, Fits, Steps
  <2>2. r \in Known
    <3> HIDE DEF x
    <3>1. 0 \in 0..MaxMade BY StoreAssumption
    <3> QED BY <1>1, <2>1, <3>1 DEF Known, Result
  <2>3. s \in {"regrid", "refull"} OBVIOUS
  <2>4. Go(c, o, {}) BY <1>14 DEF Refit
  <2> HIDE DEF r, s
  <2>5. o \in Doings /\ o.step \in {"regrid", "refull"}
    BY <1>1, <2>2, <2>3 DEF Doing, Doings, Steps
  <2> HIDE DEF o
  <2> QED BY <1>10, <1>14, <2>4, <2>5 DEF Refit, lruVars, Unsaved
<1>15. CASE Cancel(c)
  <2>1. UNCHANGED <<results, gridCarry, file, chosen, overtaken>>
    BY <1>15 DEF Cancel, lruVars, histVars
  <2>2. /\ op[c].step = "cancel" /\ op'[c].step = "save"
        /\ \A d \in Clients : op'[d].track = op[d].track /\ op'[d].r = op[d].r
        /\ \A d \in Clients \ {c} : op'[d].step = op[d].step
    BY <1>3, <1>15, CancelDoes DEF Base
  <2>3. Kept(t) BY <1>6, <2>1
  <2>4. \A y : Carries(t, y)' <=> Carries(t, y) BY <1>2, <2>1 DEF Carries
  <2>5. ASSUME NEW d \in Clients PROVE Harmless(d, t)'
    <3>1. Harmless(d, t) BY <2>3 DEF Kept
    <3>2. CASE d = c BY <1>2, <2>1, <2>2, <2>4, <3>1, <3>2 DEF Harmless
    <3>3. CASE d # c BY <1>2, <2>1, <2>2, <2>4, <3>1, <3>3 DEF Harmless
    <3> QED BY <3>2, <3>3
  <2>6. Saving(t) => Saving(t)' BY <2>2 DEF Saving, Unsaved
  <2>7. Carries(t, file[t])' <=> Carries(t, file[t]) BY <1>2, <2>1 DEF Carries
  <2> QED BY <2>1, <2>3, <2>5, <2>6, <2>7 DEF Kept
<1>16. CASE Save(c)
  <2>1. /\ op[c].step = "save" /\ overtaken' = overtaken \ {c}
        /\ UNCHANGED <<results, gridCarry, chosen>>
    BY <1>16 DEF Save, lruVars
  <2>2. Kept(t) /\ Harmless(c, t) BY <1>6, <2>1
  <2>3. /\ gridCarry'[t] = gridCarry[t] /\ chosen'[t] = chosen[t]
        /\ results'[t] # None => results'[t].grid = chosen[t].grid
        /\ \A d \in Clients \ {c} : (op[d].track = t /\ d \in overtaken) => d \in overtaken'
    BY <1>6, <2>1
  <2>4. CASE file' = [file EXCEPT ![v] = x] /\ Go(c, Idle, {})
    <3>1. v = t => Carries(t, file'[t]) BY <1>1, <2>1, <2>2, <2>4 DEF Harmless
    <3>2. v # t => file'[t] = file[t] BY <1>1, <2>4
    <3> QED BY <1>2, <1>3, <2>2, <2>3, <2>4, <3>1, <3>2, IdleType, KeptAfterGo
  <2>5. CASE UNCHANGED file /\ Go(c, Idle, {v})
    <3>1. v \in excused' BY <1>1, <1>3, <2>5, IdleType, GoesOn DEF Base
    <3>2. v # t BY <3>1
    <3>3. {v} \in SUBSET Tracks /\ file'[t] = file[t] BY <1>1, <2>5
    <3> QED BY <1>2, <1>3, <2>2, <2>3, <2>5, <3>2, <3>3, IdleType, KeptAfterGo
  <2> QED BY <1>16, <2>4, <2>5 DEF Save
<1>17. CASE Unlink(c)
  <2>1. /\ op[c].step = "unlink" /\ file' = [file EXCEPT ![v] = None] /\ Go(c, Idle, {})
        /\ ~Unsaved(op[c]) /\ UNCHANGED <<results, gridCarry, chosen, overtaken>>
    BY <1>17 DEF Unlink, lruVars, Unsaved
  <2>2. Kept(t) /\ v # t BY <1>6, <2>1 DEF Harmless
  <2>3. /\ file'[t] = file[t] /\ gridCarry'[t] = gridCarry[t] /\ chosen'[t] = chosen[t]
        /\ results'[t] # None => results'[t].grid = chosen[t].grid
        /\ \A d \in Clients \ {c} : (op[d].track = t /\ d \in overtaken) => d \in overtaken'
    BY <1>1, <1>6, <2>1, <2>2
  <2> QED BY <1>2, <1>3, <2>1, <2>2, <2>3, IdleType, KeptAfterGo
<1>18. CASE \E u \in Tracks : Invalidate(c, u)
  <2>1. PICK u \in Tracks : Invalidate(c, u) BY <1>18
  <2> DEFINE o == Doing("unlink", u, None)
  <2>2. /\ ~Unsaved(op[c]) /\ Go(c, o, {}) /\ results' = [results EXCEPT ![u] = None]
        /\ chosen' = [chosen EXCEPT ![u] = None] /\ overtaken' = overtaken \ Analyzing(u)
        /\ UNCHANGED <<gridCarry, file>>
    BY <2>1 DEF Invalidate, dropLocked, Unsaved
  <2>3. u # t /\ chosen'[t] = chosen[t] BY <1>1, <2>2
  <2>4. o \in Doings /\ o.track = u BY DEF Doing, Doings, Known, Steps
  <2> HIDE DEF o
  <2>5. /\ file'[t] = file[t] /\ gridCarry'[t] = gridCarry[t]
        /\ results'[t] # None => results'[t].grid = chosen[t].grid
        /\ \A d \in Clients \ {c} : (op[d].track = t /\ d \in overtaken) => d \in overtaken'
    BY <1>1, <1>6, <2>2, <2>3 DEF Analyzing
  <2> QED BY <1>2, <1>3, <1>6, <2>2, <2>3, <2>4, <2>5, KeptAfterGo
<1> QED BY <1>7, <1>8, <1>9, <1>11, <1>12, <1>13, <1>14, <1>15, <1>16, <1>17, <1>18

\* What a step leaves of it that stores a result.
LEMMA StoringKeeps ==
    ASSUME StoreInv, NEW c \in Clients,
           \/ \E u \in Tracks : Import(c, u)
           \/ Edit(c) \/ RedoWaveform(c) \/ RedoGrid(c) \/ RedoFull(c) \/ Fill(c),
           NEW t \in Tracks \ excused', chosen'[t] # None
    PROVE  Kept(t)'
<1> DEFINE v == op[c].track
           x == op[c].r
<1>1. /\ results \in [Tracks -> Known] /\ chosen \in [Tracks -> Known]
      /\ gridCarry \in [Tracks -> 0..MaxMade]
      /\ op \in [Clients -> Doings] /\ v \in Tracks /\ x \in Known
      /\ range \in Ranges /\ era \in Eras /\ made \in 0..MaxMade /\ excused \subseteq Tracks
  BY DEF StoreInv, Base, Types, Doings
<1>2. Base /\ range' = range /\ file' = file
  BY DEF StoreInv, Import, Edit, RedoWaveform, RedoGrid, RedoFull, Fill, envVars
<1>3. Fits(op[c]) BY DEF StoreInv, Base, Sound
<1>4. op[c].step \in {"edit", "waveform", "regrid", "refull", "fill"} => x \in Result /\ Sane(x)
  BY <1>1, <1>3 DEF Fits, Known, Steps
<1>5. ASSUME NEW u \in Tracks \ {t}, op[c].track = u \/ op[c].step = "idle",
             NEW given \in Result, Sane(given), NEW rest \in Rests, NEW more \in SUBSET Tracks,
             Store(c, u, given, rest, more), excused \ {u} \subseteq more, chosen'[t] = chosen[t]
      PROVE  Kept(t)'
  <2>1. t \notin excused BY <1>5 DEF Store
  <2>2. Kept(t) BY <1>5, <2>1 DEF StoreInv
  <2> QED BY <1>2, <1>5, <2>2, KeptAfterStoreElsewhere
<1>6. "cancel" \in Rests /\ "save" \in Rests BY DEF Rests
<1>7. CASE \E u \in Tracks : Import(c, u)
  <2>1. PICK u \in Tracks : Import(c, u) BY <1>7
  <2> DEFINE r == Fresh(made + 1, TRUE, 0)
             given == Reapplied(u, r)
  <2>2. made < MaxMade /\ op[c].step = "idle" BY <2>1 DEF Import
  <2>3. made + 1 \in 0..MaxMade BY <1>1, <2>2, StoreAssumption
  <2>4. r \in Result /\ Sane(r) /\ r.imported BY <1>2, <2>3, FreshIsSane
  <2>5. /\ Store(c, u, r, "cancel", excused \ {u})
        /\ chosen' = [chosen EXCEPT ![u] = InForce(u, given)]
    BY <2>1 DEF Import, Set
  <2> HIDE DEF r
  <2>6. given.imported BY <2>4 DEF Reapplied, Result
  <2>7. excused \ {u} \in SUBSET Tracks BY <1>1
  <2>8. CASE u = t
    <3>1. chosen'[t] = given BY <1>1, <2>5, <2>8 DEF InForce
    <3>2. given = Reapplied(t, r) BY <2>8
    <3> HIDE DEF given
    <3>3. given.imported /\ chosen'[t].imported BY <2>6, <3>1
    <3> QED BY <1>2, <1>6, <2>4, <2>5, <2>7, <2>8, <3>1, <3>2, <3>3, KeptAfterStore
  <2>9. CASE u # t
    <3>1. chosen'[t] = chosen[t] BY <1>1, <2>5, <2>9
    <3> QED BY <1>5, <1>6, <2>2, <2>4, <2>5, <2>7, <2>9, <3>1
  <2> QED BY <2>8, <2>9
<1>8. CASE Edit(c)
  <2> DEFINE r == [x EXCEPT !.grid = made + 1, !.edited = TRUE]
  <2>1. made < MaxMade BY <1>8 DEF Edit
  <2>2. x \in Result /\ Sane(x) BY <1>4, <1>8 DEF Edit
  <2>3. r \in Result /\ r.grid = made + 1 /\ r.range = x.range /\ r.edited
    <3> HIDE DEF x
    <3>1. made + 1 \in 0..MaxMade BY <1>1, <2>1, StoreAssumption
    <3> QED BY <2>2, <3>1 DEF Result
  <2>4. Sane(r) BY <1>1, <2>2, <2>3, NoneIsNoResult DEF Sane
  <2>5. /\ Store(c, v, r, "cancel", excused \ {v})
        /\ chosen' = [chosen EXCEPT ![v] = InForce(v, r)]
    BY <1>8 DEF Edit, Set
  <2> HIDE DEF r
  <2>6. excused \ {v} \in SUBSET Tracks BY <1>1
  <2>7. CASE v = t
    <3>1. chosen'[t] = r BY <1>1, <2>5, <2>7 DEF InForce
    <3>2. r = Reapplied(t, r) BY <2>3 DEF Reapplied
    <3> QED BY <1>2, <1>6, <2>3, <2>4, <2>5, <2>6, <2>7, <3>1, <3>2, KeptAfterStore
  <2>8. CASE v # t
    <3>1. chosen'[t] = chosen[t] BY <1>1, <2>5, <2>8
    <3> QED BY <1>1, <1>5, <1>6, <2>3, <2>4, <2>5, <2>6, <2>8, <3>1
  <2> QED BY <2>7, <2>8
<1>9. ASSUME NEW r \in Result, Sane(r), UNCHANGED chosen,
              NEW more, more = excused \cup (IF Replaces(v, Reapplied(v, r)) THEN {v} ELSE {}),
              Set(c, v, r, more)
       PROVE  Kept(t)'
  <2> DEFINE given == Reapplied(v, r)
  <2>1. more \in SUBSET Tracks /\ excused \subseteq more BY <1>1, <1>9
  <2>2. Store(c, v, r, "cancel", more) BY <1>9 DEF Set
  <2>3. CASE v = t
    <3>1. ~Replaces(t, given) BY <1>9, <2>2, <2>3 DEF Store
    <3>2. /\ given["grid"] = chosen[t]["grid"] /\ given["range"] = chosen[t]["range"]
          /\ given["imported"] = chosen[t]["imported"] /\ given["edited"] = chosen[t]["edited"]
      BY <1>9, <3>1 DEF Replaces
    <3>3. chosen[t].imported \/ chosen[t].edited
      BY <1>2, <1>9 DEF Base, StillInForce, InForce
    <3>4. given = Reapplied(t, r) BY <2>3
    <3> HIDE DEF given
    <3> QED BY <1>2, <1>6, <1>9, <2>1, <2>2, <2>3, <3>2, <3>3, <3>4, KeptAfterStore
  <2>4. CASE v # t
    <3> HIDE DEF given
    <3> QED BY <1>1, <1>5, <1>6, <1>9, <2>1, <2>2, <2>4
  <2> QED BY <2>3, <2>4
<1>10. CASE RedoWaveform(c)
  <2> DEFINE r == [x EXCEPT !.era = era]
             more == excused \cup (IF Replaces(v, Reapplied(v, r)) THEN {v} ELSE {})
  <2>1. x \in Result /\ Sane(x) BY <1>4, <1>10 DEF RedoWaveform
  <2>2. r \in Result /\ r.grid = x.grid /\ r.range = x.range /\ r.edited = x.edited
    BY <1>1, <2>1 DEF Result
  <2>3. Sane(r) BY <2>1, <2>2, NoneIsNoResult DEF Sane
  <2>4. Set(c, v, r, more) /\ UNCHANGED chosen BY <1>10 DEF RedoWaveform
  <2> HIDE DEF r
  <2> QED BY <1>9, <2>2, <2>3, <2>4
<1>11. CASE RedoFull(c)
  <2> DEFINE r == Stamped(x)
             more == excused \cup (IF Replaces(v, Reapplied(v, r)) THEN {v} ELSE {})
  <2>1. x \in Result /\ ~x.edited BY <1>3, <1>4, <1>11 DEF RedoFull, Fits
  <2>2. r \in Result /\ Sane(r) BY <1>2, <2>1, StampedIsSane
  <2>3. Set(c, v, r, more) /\ UNCHANGED chosen BY <1>11 DEF RedoFull
  <2> HIDE DEF r
  <2> QED BY <1>9, <2>2, <2>3
<1>12. CASE RedoGrid(c)
  <2> DEFINE r == Stamped(x)
  <2>1. x \in Result /\ ~x.edited BY <1>3, <1>4, <1>12 DEF RedoGrid, Fits
  <2>2. r \in Result /\ Sane(r) BY <1>2, <2>1, StampedIsSane
  <2>3. Store(c, v, r, "cancel", excused \ {v}) /\ chosen' = [chosen EXCEPT ![v] = None]
    BY <1>12 DEF RedoGrid, Set
  <2> HIDE DEF r
  <2>4. v # t /\ chosen'[t] = chosen[t] BY <1>1, <2>3
  <2>5. excused \ {v} \in SUBSET Tracks BY <1>1
  <2> QED BY <1>1, <1>5, <1>6, <2>2, <2>3, <2>4, <2>5
<1>13. CASE Fill(c)
  <2> DEFINE more == excused \cup (IF c \in overtaken THEN {v} ELSE {})
             r == Reapplied(v, x)
  <2>1. x \in Result /\ Sane(x) /\ ~x.edited BY <1>3, <1>4, <1>13 DEF Fill, Fits
  <2>2. UNCHANGED chosen /\ op[c].step = "fill" BY <1>13 DEF Fill
  <2>3. CASE Go(c, Idle, {}) /\ overtaken' = overtaken \ {c} /\ UNCHANGED <<lruVars, gridCarry>>
    <3>1. t \notin excused BY <2>3 DEF Go
    <3>2. Kept(t) /\ results'[t] = results[t] /\ gridCarry'[t] = gridCarry[t]
      BY <2>2, <2>3, <3>1 DEF StoreInv, lruVars
    <3>3. results[t] # None => results[t].grid = chosen[t].grid BY <3>2 DEF Kept
    <3>4. /\ file'[t] = file[t] /\ chosen'[t] = chosen[t]
          /\ \A d \in Clients \ {c} : (op[d].track = t /\ d \in overtaken) => d \in overtaken'
      BY <1>2, <2>2, <2>3
    <3>5. ~Unsaved(op[c]) BY <2>2 DEF Unsaved
    <3> QED BY <1>2, <2>2, <2>3, <3>2, <3>3, <3>4, <3>5, IdleType, KeptAfterGo
  <2>4. CASE Store(c, v, x, "save", more)
    <3>1. more \in SUBSET Tracks /\ excused \subseteq more BY <1>1
    <3>2. CASE v = t
      <4>1. t \notin excused /\ c \notin overtaken BY <2>4, <3>2 DEF Store
      <4>2. Kept(t) BY <2>2, <4>1 DEF StoreInv
      <4>3. /\ gridCarry[t] = chosen[t].grid /\ ~chosen[t].imported
            /\ x.imported \/ x.range \in {chosen[t].range, range}
        BY <2>2, <3>2, <4>1, <4>2 DEF Kept, Harmless
      <4>4. chosen[t].edited BY <1>2, <2>2, <4>3 DEF Base, StillInForce, InForce
      <4>5. chosen[t].grid # 0 BY <1>2, <2>2, <4>4 DEF Base, Sound, Sane
      <4>6. r = [x EXCEPT !.grid = gridCarry[t], !.edited = TRUE]
        BY <2>1, <3>2, <4>3, <4>5 DEF Reapplied
      <4>7. r.grid = gridCarry[t] /\ r.edited /\ r.range = x.range /\ r.imported = x.imported
        <5> HIDE DEF x
        <5> QED BY <2>1, <4>6 DEF Result
      <4>8. r = Reapplied(t, x) BY <3>2
      <4> HIDE DEF r, more
      <4> QED BY <1>2, <1>6, <2>1, <2>2, <2>4, <3>1, <3>2, <4>3, <4>7, <4>8, KeptAfterStore
    <3>3. CASE v # t
      <4> HIDE DEF more
      <4> QED BY <1>1, <1>5, <1>6, <2>1, <2>2, <2>4, <3>1, <3>3
    <3> QED BY <3>2, <3>3
  <2> QED BY <1>13, <2>3, <2>4 DEF Fill, SetIfAbsent
<1> QED BY <1>7, <1>8, <1>10, <1>11, <1>12, <1>13

\* What a step of the surroundings leaves of it.
LEMMA SurroundingsKeep ==
    ASSUME StoreInv,
           \/ SetRange \/ InvalidateAll \/ Restart
           \/ \E u \in Lockable : Lock(u) \/ Unlock(u),
           NEW t \in Tracks \ excused', chosen'[t] # None
    PROVE  Kept(t)'
<1>1. /\ results \in [Tracks -> Known] /\ chosen \in [Tracks -> Known]
      /\ file \in [Tracks -> Known] /\ op \in [Clients -> Doings] /\ range \in Ranges
      /\ Lockable \subseteq Tracks
  BY StoreAssumption DEF StoreInv, Base, Types
<1>2. t \in Tracks \ excused
  BY DEF SetRange, InvalidateAll, Restart, Lock, Unlock, histVars
<1>3. ASSUME UNCHANGED <<gridCarry, file, range, op, overtaken>>, chosen'[t] = chosen[t],
             results'[t] \in {results[t], None}
      PROVE  Kept(t)'
  <2>1. Kept(t) BY <1>2, <1>3 DEF StoreInv
  <2> QED BY <1>3, <2>1 DEF Kept, Harmless, Carries, Saving
<1>4. CASE SetRange
  <2>1. /\ range = 0 /\ range' = 1
        /\ chosen' = [u \in Tracks |->
             IF chosen[u] # None /\ ~chosen[u].imported /\ u \notin locked THEN None ELSE chosen[u]]
        /\ UNCHANGED <<lruVars, gridCarry, file, op, overtaken>>
    BY <1>4 DEF SetRange
  <2>2. chosen'[t] = chosen[t] BY <2>1
  <2>3. Kept(t) BY <1>2, <2>2 DEF StoreInv
  <2>4. chosen[t] \in Result /\ chosen[t].range = 0
    <3>1. chosen[t] \in Result BY <1>1, <2>2 DEF Known
    <3>2. chosen[t].range <= 0 BY <2>1, <2>2 DEF StoreInv, Base, Sound, Sane
    <3> QED BY <3>1, <3>2 DEF Result, Ranges
  <2>5. \A x : Carries(t, x) => Carries(t, x)' BY <2>1, <2>2, <2>4 DEF Carries
  <2>6. ~Saving(t)' => Carries(t, file[t])' BY <2>1, <2>3, <2>2, <2>4 DEF Kept, Saving, Carries
  <2>7. \A d \in Clients : Harmless(d, t)'
    BY <2>1, <2>2, <2>3, <2>4 DEF Kept, Harmless, Carries
  <2> QED BY <2>1, <2>2, <2>3, <2>6, <2>7 DEF Kept, lruVars
<1>5. CASE InvalidateAll
  BY <1>3, <1>5 DEF InvalidateAll, dropAllLocked, histVars
<1>6. CASE Restart
  <2> DEFINE pending == {op[c].track : c \in {d \in Clients : Unsaved(op[d])}}
  <2>1. /\ results' = [u \in Tracks |-> None] /\ op' = [c \in Clients |-> Idle]
        /\ UNCHANGED <<file, range, locked>>
        /\ chosen' = [u \in Tracks |->
             IF u \notin pending THEN chosen[u]
             ELSE IF file[u] = None THEN None ELSE InForce(u, file[u])]
    BY <1>6 DEF Restart, dropAllLocked
  <2>2. \A d \in Clients : Harmless(d, t)' BY <2>1, IdleType DEF Harmless
  <2>3. results'[t] = None BY <2>1
  <2>4. CASE t \in pending
    <3>1. file[t] # None /\ chosen'[t] = file[t] /\ (file[t].imported \/ file[t].edited)
      BY <2>1, <2>4 DEF InForce
    <3>2. Carries(t, file[t])' BY <2>1, <3>1 DEF Carries
    <3> QED BY <2>2, <2>3, <3>2 DEF Kept
  <2>5. CASE t \notin pending
    <3>1. chosen'[t] = chosen[t] /\ ~Saving(t) BY <2>1, <2>5 DEF Saving
    <3>2. Carries(t, file[t]) BY <1>2, <3>1 DEF StoreInv, Kept
    <3>3. Carries(t, file[t])' BY <2>1, <3>1, <3>2 DEF Carries
    <3> QED BY <2>2, <2>3, <3>3 DEF Kept
  <2> QED BY <2>4, <2>5
<1>7. CASE \E u \in Lockable : Lock(u)
  BY <1>3, <1>7 DEF Lock, lruVars, histVars
<1>8. CASE \E u \in Lockable : Unlock(u)
  <2>1. PICK u \in Lockable : Unlock(u) BY <1>8
  <2>2. /\ chosen' = [chosen EXCEPT ![u] =
             IF @ # None /\ ~@.imported /\ @.range # range THEN None ELSE @]
        /\ UNCHANGED <<lruVars, gridCarry, file, range, op, overtaken>>
    BY <2>1 DEF Unlock
  <2>3. chosen'[t] = chosen[t] BY <1>1, <2>2
  <2> QED BY <1>3, <2>2, <2>3 DEF lruVars
<1> QED BY <1>4, <1>5, <1>6, <1>7, <1>8

----------------------------------------------------------------------------
(***************************************************************************)
(* The invariant, and what follows from it.                                *)
(***************************************************************************)

\* Nothing is in force at the start.
LEMMA StoreInit == Init => StoreInv
<1> SUFFICES ASSUME Init PROVE StoreInv OBVIOUS
<1>1. None \in Known /\ Sane(None) BY DEF Known, Sane
<1>2. Types
  <2>1. /\ results \in [Tracks -> Known] /\ file \in [Tracks -> Known]
        /\ chosen \in [Tracks -> Known] /\ op \in [Clients -> Doings]
    BY <1>1, IdleType DEF Init
  <2>2. /\ gridCarry \in [Tracks -> 0..MaxMade] /\ made \in 0..MaxMade
        /\ era \in Eras /\ range \in Ranges
    BY StoreAssumption DEF Init, Eras, Ranges
  <2> QED BY <2>1, <2>2 DEF Init, Types
<1>3. Sound BY <1>1, IdleType DEF Init, Sound, Fits
<1>4. Contended(op) = {} BY IdleType DEF Init, Contended, AtFile
<1>5. \A t \in Tracks : chosen[t] = None BY DEF Init
<1> QED BY <1>2, <1>3, <1>4, <1>5 DEF StoreInv, Base, StillInForce

\* Every step keeps the invariant.
LEMMA StoreStep == StoreInv /\ [Next]_vars => StoreInv'
<1> SUFFICES ASSUME StoreInv, [Next]_vars PROVE StoreInv' OBVIOUS
<1>1. Base' BY BaseStep DEF StoreInv
<1>2. SUFFICES ASSUME NEW t \in Tracks \ excused', chosen'[t] # None PROVE Kept(t)'
  BY <1>1 DEF StoreInv
<1>3. CASE UNCHANGED vars
  <2>1. Kept(t) BY <1>2, <1>3 DEF StoreInv, vars, histVars
  <2> QED BY <1>3, <2>1 DEF vars, lruVars, envVars, histVars, Kept, Harmless, Carries, Saving
<1>4. CASE Next
  <2>1. ASSUME NEW c \in Clients, NEW u \in Tracks,
               \/ Hit(c, u) \/ Miss(c, u) \/ CopyForEdit(c, u) \/ TakeForRedo(c, u)
        PROVE  Kept(t)'
    BY <1>2, <2>1, ReadingKeeps
  <2>2. ASSUME NEW c \in Clients, NEW u \in Tracks, Import(c, u) \/ Invalidate(c, u)
        PROVE  Kept(t)'
    BY <1>2, <2>2, ActingKeeps, StoringKeeps
  <2>3. ASSUME NEW c \in Clients, Load(c) \/ LoadStale(c) \/ TakeNothing(c)
        PROVE  Kept(t)'
    BY <1>2, <2>3, ReadingKeeps, StoreAssumption
  <2>4. ASSUME NEW c \in Clients,
               \/ Stash(c) \/ Discard(c) \/ Put(c) \/ Refit(c) \/ Fit(c) \/ Stamp(c)
               \/ Abandon(c) \/ Cancel(c) \/ Save(c) \/ Unlink(c)
        PROVE  Kept(t)'
    BY <1>2, <2>4, ActingKeeps
  <2>5. ASSUME NEW c \in Clients,
               Edit(c) \/ RedoWaveform(c) \/ RedoGrid(c) \/ RedoFull(c) \/ Fill(c)
        PROVE  Kept(t)'
    BY <1>2, <2>5, StoringKeeps
  <2>6. ASSUME SetRange \/ InvalidateAll \/ Restart \/ \E u \in Lockable : Lock(u) \/ Unlock(u)
        PROVE  Kept(t)'
    BY <1>2, <2>6, SurroundingsKeep
  <2> QED BY <1>4, <2>1, <2>2, <2>3, <2>4, <2>5, <2>6 DEF Next
<1> QED BY <1>3, <1>4

\* The grid in force is on its way, at every moment: StoreInv is an invariant.
THEOREM StoreInvariance == Spec => []StoreInv
<1>1. Init => StoreInv BY StoreInit
<1>2. StoreInv /\ [Next]_vars => StoreInv' BY StoreStep
<1> QED BY <1>1, <1>2, PTL DEF Spec

\* A track that was given a grid on purpose is served that grid, through
\* eviction, reloading, re-analysis, a change of the BPM range, an upgrade and a
\* restart (lru.go, analysis.go).
THEOREM ChosenIsServed == Spec => []StoredIsServed
<1>1. StoreInv => StoredIsServed BY DEF StoreInv, StoredIsServed, Kept
<1> QED BY <1>1, StoreInvariance, PTL

\* And its file holds that grid at every moment at which it is not about to be
\* written, so that a crash does not lose it (loadFromDisk, saveToDisk).
THEOREM ChosenSurvivesCrash == Spec => []ChosenIsInFile
<1>1. StoreInv => ChosenIsInFile
  BY DEF StoreInv, ChosenIsInFile, Kept, Carries, Saving
<1> QED BY <1>1, StoreInvariance, PTL

----------------------------------------------------------------------------
(***************************************************************************)
(* Sums over finite sets.                                                  *)
(***************************************************************************)

First(s) == CHOOSE x \in s : TRUE

\* g sums f over every subset of D, as SizeOf does.
Sums(g, f, D) == g = [s \in SUBSET D |-> IF s = {} THEN 0 ELSE f[First(s)] + g[s \ {First(s)}]]

\* What the library's folding comes down to.
LEMMA SizeOfIsSum ==
    ASSUME NEW f, NEW S
    PROVE  SizeOf(S, f) = (CHOOSE g : Sums(g, f, S))[S]
BY DEF SizeOf, MapThenSumSet, MapThenFoldSet, Sums, First

\* Such a function exists.
LEMMA SumsExist ==
    ASSUME NEW f, NEW S, IsFiniteSet(S)
    PROVE  \E g : Sums(g, f, S)
<1> DEFINE Small(n) == {s \in SUBSET S : Cardinality(s) <= n}
           Upto(g, n) == g = [s \in Small(n) |->
                                IF s = {} THEN 0 ELSE f[First(s)] + g[s \ {First(s)}]]
           N == {n \in Nat : \E g : Upto(g, n)}
<1>1. \A s \in SUBSET S : IsFiniteSet(s) /\ Cardinality(s) \in Nat
  BY FS_Subset, FS_CardinalityType
<1>2. \A s \in SUBSET S : s # {} =>
        /\ First(s) \in s /\ s \ {First(s)} \in SUBSET S
        /\ Cardinality(s \ {First(s)}) = Cardinality(s) - 1
  <2> SUFFICES ASSUME NEW s \in SUBSET S, s # {}
               PROVE  /\ First(s) \in s /\ s \ {First(s)} \in SUBSET S
                      /\ Cardinality(s \ {First(s)}) = Cardinality(s) - 1
    OBVIOUS
  <2>1. First(s) \in s BY DEF First
  <2> QED BY <1>1, <2>1, FS_RemoveElement
<1>3. 0 \in N
  <2> DEFINE g == [s \in Small(0) |-> 0]
  <2>1. \A s \in Small(0) : s = {} BY <1>1, FS_EmptySet
  <2>2. g = [s \in Small(0) |-> IF s = {} THEN 0 ELSE f[First(s)] + g[s \ {First(s)}]]
    BY <2>1
  <2> QED BY <2>2
<1>4. ASSUME NEW n \in N PROVE n + 1 \in N
  <2>1. n \in Nat OBVIOUS
  <2>2. PICK g : Upto(g, n) OBVIOUS
  <2> DEFINE h == [s \in Small(n + 1) |-> IF s = {} THEN 0 ELSE f[First(s)] + g[s \ {First(s)}]]
  <2>3. \A s \in Small(n) : g[s] = IF s = {} THEN 0 ELSE f[First(s)] + g[s \ {First(s)}]
    BY <2>2
  <2>4. Small(n) \subseteq Small(n + 1) BY <1>1, <2>1
  <2>5. \A s \in Small(n) : h[s] = g[s] BY <2>3, <2>4
  <2>6. \A s \in Small(n + 1) : s # {} => s \ {First(s)} \in Small(n) BY <1>1, <1>2, <2>1
  <2>7. \A s \in Small(n + 1) : s # {} => h[s \ {First(s)}] = g[s \ {First(s)}]
    BY <2>5, <2>6
  <2>8. h = [s \in Small(n + 1) |-> IF s = {} THEN 0 ELSE f[First(s)] + h[s \ {First(s)}]]
    BY <2>7
  <2>9. Upto(h, n + 1) BY <2>8
  <2> HIDE DEF h, Upto
  <2> QED BY <2>1, <2>9
<1>5. N = Nat
  <2>1. N \in SUBSET Nat OBVIOUS
  <2> HIDE DEF N
  <2> QED BY <1>3, <1>4, <2>1, NumberInduction
<1>6. Cardinality(S) \in Nat BY FS_CardinalityType
<1>7. PICK g : Upto(g, Cardinality(S)) BY <1>5, <1>6
<1>8. Small(Cardinality(S)) = SUBSET S BY FS_Subset
<1> QED BY <1>7, <1>8 DEF Sums

\* The element taken out first leaves one less.
LEMMA OneLess ==
    ASSUME NEW S, IsFiniteSet(S), NEW T \in SUBSET S, T # {}
    PROVE  Cardinality(T \ {First(T)}) = Cardinality(T) - 1
<1>1. IsFiniteSet(T) BY FS_Subset
<1>2. First(T) \in T BY DEF First
<1> QED BY <1>1, <1>2, FS_RemoveElement

\* It does not matter within which set the sum is taken.
LEMMA SumsAgree ==
    ASSUME NEW f, NEW D, IsFiniteSet(D), NEW S \in SUBSET D,
           NEW g, Sums(g, f, S), NEW h, Sums(h, f, D)
    PROVE  g[S] = h[S]
<1> DEFINE N == {n \in Nat : \A T \in SUBSET S : Cardinality(T) <= n => g[T] = h[T]}
<1>1. IsFiniteSet(S) BY FS_Subset
<1>2. \A T \in SUBSET S : IsFiniteSet(T) /\ Cardinality(T) \in Nat
  BY <1>1, FS_Subset, FS_CardinalityType
<1>3. g[{}] = 0 /\ h[{}] = 0 BY DEF Sums
<1>4. 0 \in N
  <2>1. \A T \in SUBSET S : Cardinality(T) <= 0 => T = {} BY <1>2, FS_EmptySet
  <2> QED BY <1>3, <2>1
<1>5. ASSUME NEW n \in N PROVE n + 1 \in N
  <2> SUFFICES ASSUME NEW T \in SUBSET S, Cardinality(T) <= n + 1 PROVE g[T] = h[T]
    OBVIOUS
  <2>1. CASE T = {} BY <1>3, <2>1
  <2>2. CASE T # {}
    <3> DEFINE U == T \ {First(T)}
    <3>1. g[T] = f[First(T)] + g[U] /\ h[T] = f[First(T)] + h[U]
      BY <2>2 DEF Sums
    <3>2. Cardinality(U) = Cardinality(T) - 1 BY <1>1, <2>2, OneLess
    <3>3. U \in SUBSET S /\ Cardinality(U) <= n BY <1>2, <3>2
    <3> QED BY <3>1, <3>3
  <2> QED BY <2>1, <2>2
<1>6. N \in SUBSET Nat OBVIOUS
<1> HIDE DEF N
<1>7. N = Nat BY <1>4, <1>5, <1>6, NumberInduction
<1>8. S \in SUBSET S /\ Cardinality(S) \in N BY <1>2, <1>7
<1> QED BY <1>2, <1>8 DEF N

\* The sum of integers is an integer.
LEMMA SumsInt ==
    ASSUME NEW f, NEW D, IsFiniteSet(D), \A u \in D : f[u] \in Int, NEW g, Sums(g, f, D)
    PROVE  \A T \in SUBSET D : g[T] \in Int
<1> DEFINE N == {n \in Nat : \A T \in SUBSET D : Cardinality(T) <= n => g[T] \in Int}
<1>1. \A T \in SUBSET D : IsFiniteSet(T) /\ Cardinality(T) \in Nat
  BY FS_Subset, FS_CardinalityType
<1>2. g[{}] = 0 BY DEF Sums
<1>3. 0 \in N
  <2>1. \A T \in SUBSET D : Cardinality(T) <= 0 => T = {} BY <1>1, FS_EmptySet
  <2> QED BY <1>2, <2>1
<1>4. ASSUME NEW n \in N PROVE n + 1 \in N
  <2> SUFFICES ASSUME NEW T \in SUBSET D, Cardinality(T) <= n + 1 PROVE g[T] \in Int
    OBVIOUS
  <2>1. CASE T = {} BY <1>2, <2>1
  <2>2. CASE T # {}
    <3> DEFINE U == T \ {First(T)}
    <3>1. First(T) \in T /\ g[T] = f[First(T)] + g[U] BY <2>2 DEF Sums, First
    <3>2. Cardinality(U) = Cardinality(T) - 1 BY <2>2, OneLess
    <3>3. U \in SUBSET D /\ Cardinality(U) <= n BY <1>1, <3>2
    <3>4. g[U] \in Int BY <3>3
    <3> QED BY <3>1, <3>4
  <2> QED BY <2>1, <2>2
<1>5. N \in SUBSET Nat OBVIOUS
<1> HIDE DEF N
<1>6. N = Nat BY <1>3, <1>4, <1>5, NumberInduction
<1> SUFFICES ASSUME NEW T \in SUBSET D PROVE g[T] \in Int OBVIOUS
<1>7. Cardinality(T) \in N BY <1>1, <1>6
<1> QED BY <1>1, <1>7 DEF N

\* Any element may be taken out first.
LEMMA SumsRemove ==
    ASSUME NEW f, NEW D, IsFiniteSet(D), \A u \in D : f[u] \in Int, NEW g, Sums(g, f, D)
    PROVE  \A T \in SUBSET D : \A x \in T : g[T] = f[x] + g[T \ {x}]
<1> DEFINE N == {n \in Nat : \A T \in SUBSET D :
                    Cardinality(T) <= n => \A x \in T : g[T] = f[x] + g[T \ {x}]}
<1>1. \A T \in SUBSET D : IsFiniteSet(T) /\ Cardinality(T) \in Nat
  BY FS_Subset, FS_CardinalityType
<1>2. \A T \in SUBSET D : g[T] \in Int BY SumsInt
<1>3. 0 \in N
  <2>1. \A T \in SUBSET D : Cardinality(T) <= 0 => T = {} BY <1>1, FS_EmptySet
  <2> QED BY <2>1
<1>4. ASSUME NEW n \in N PROVE n + 1 \in N
  <2> SUFFICES ASSUME NEW T \in SUBSET D, Cardinality(T) <= n + 1, NEW x \in T
               PROVE  g[T] = f[x] + g[T \ {x}]
    OBVIOUS
  <2> DEFINE p == First(T)
  <2>1. p \in T /\ g[T] = f[p] + g[T \ {p}] BY DEF Sums, First
  <2>2. CASE p = x BY <2>1, <2>2
  <2>3. CASE p # x
    <3>1. /\ Cardinality(T \ {p}) = Cardinality(T) - 1
          /\ Cardinality(T \ {x}) = Cardinality(T) - 1
      BY <1>1, <2>1, FS_RemoveElement
    <3>2. /\ T \ {p} \in SUBSET D /\ Cardinality(T \ {p}) <= n /\ x \in T \ {p}
          /\ T \ {x} \in SUBSET D /\ Cardinality(T \ {x}) <= n /\ p \in T \ {x}
      BY <1>1, <2>1, <2>3, <3>1
    <3> HIDE DEF p
    <3> DEFINE a == g[T \ {p}]
               b == g[T \ {x}]
               rest == g[(T \ {x}) \ {p}]
    <3>3. a = f[x] + g[(T \ {p}) \ {x}] BY <3>2
    <3>4. b = f[p] + rest BY <3>2
    <3>5. (T \ {p}) \ {x} = (T \ {x}) \ {p} OBVIOUS
    <3>6. a = f[x] + rest BY <3>3, <3>5
    <3>7. f[x] \in Int /\ f[p] \in Int /\ rest \in Int BY <1>2, <2>1
    <3>8. g[T] = f[p] + a BY <2>1
    <3> HIDE DEF a, b, rest
    <3>9. g[T] = f[x] + b BY <3>4, <3>6, <3>7, <3>8
    <3> QED BY <3>9 DEF b
  <2> QED BY <2>2, <2>3
<1>5. N \in SUBSET Nat OBVIOUS
<1> HIDE DEF N
<1>6. N = Nat BY <1>3, <1>4, <1>5, NumberInduction
<1> SUFFICES ASSUME NEW T \in SUBSET D, NEW x \in T PROVE g[T] = f[x] + g[T \ {x}] OBVIOUS
<1>7. Cardinality(T) \in N BY <1>1, <1>6
<1> QED BY <1>1, <1>7 DEF N

\* So SizeOf is the sum: nothing for no track, an integer, and any track's size
\* apart from the others'.
LEMMA SizeOfNone == ASSUME NEW f PROVE SizeOf({}, f) = 0
<1> DEFINE g == CHOOSE g : Sums(g, f, {})
<1>1. IsFiniteSet({}) BY FS_EmptySet
<1>2. Sums(g, f, {}) BY <1>1, SumsExist
<1> HIDE DEF g
<1>3. g[{}] = 0 BY <1>2 DEF Sums
<1> QED BY <1>3, SizeOfIsSum DEF g

\* An integer, and any track's size apart from the others'.
LEMMA SizeOfRemove ==
    ASSUME NEW f, NEW S, IsFiniteSet(S), \A u \in S : f[u] \in Int
    PROVE  /\ SizeOf(S, f) \in Int
           /\ \A x \in S : SizeOf(S, f) = f[x] + SizeOf(S \ {x}, f)
<1> DEFINE g == CHOOSE g : Sums(g, f, S)
<1>1. Sums(g, f, S) BY SumsExist
<1>2. SizeOf(S, f) = g[S] BY SizeOfIsSum
<1> HIDE DEF g
<1>3. g[S] \in Int BY <1>1, SumsInt
<1>4. ASSUME NEW x \in S PROVE SizeOf(S, f) = f[x] + SizeOf(S \ {x}, f)
  <2> DEFINE R == S \ {x}
             h == CHOOSE h : Sums(h, f, R)
  <2>1. R \in SUBSET S /\ IsFiniteSet(R) BY FS_Subset
  <2>2. SizeOf(R, f) = h[R] BY SizeOfIsSum
  <2>3. Sums(h, f, R) BY <2>1, SumsExist
  <2> HIDE DEF h, R
  <2>4. h[R] = g[R] BY <1>1, <2>1, <2>3, SumsAgree
  <2>5. g[S] = f[x] + g[S \ {x}] BY <1>1, SumsRemove
  <2> QED BY <1>2, <2>2, <2>4, <2>5 DEF R
<1> QED BY <1>2, <1>3, <1>4

\* Sizes that agree on a set have the same sum there.
LEMMA SizeOfSame ==
    ASSUME NEW f, NEW h, NEW S, IsFiniteSet(S), \A u \in S : f[u] \in Int /\ h[u] = f[u]
    PROVE  SizeOf(S, h) = SizeOf(S, f)
<1> DEFINE Good == {T \in SUBSET S : SizeOf(T, h) = SizeOf(T, f)}
<1>1. {} \in Good BY SizeOfNone
<1>2. ASSUME NEW T \in Good, NEW x \in S \ T PROVE T \cup {x} \in Good
  <2> DEFINE U == T \cup {x}
  <2>1. U \in SUBSET S /\ IsFiniteSet(U) BY FS_Subset
  <2>2. U \ {x} = T /\ x \in U OBVIOUS
  <2>3. SizeOf(U, h) = h[x] + SizeOf(U \ {x}, h) BY <2>1, <2>2, SizeOfRemove
  <2>4. SizeOf(U, f) = f[x] + SizeOf(U \ {x}, f) BY <2>1, <2>2, SizeOfRemove
  <2> QED BY <2>1, <2>2, <2>3, <2>4
<1>3. Good \in SUBSET SUBSET S OBVIOUS
<1> HIDE DEF Good
<1>4. S \in Good BY <1>1, <1>2, <1>3, SetInduction
<1> QED BY <1>4 DEF Good

\* The sum of sizes is a size, and zeroes sum to zero.
LEMMA SizeOfNat ==
    ASSUME NEW f, NEW S, IsFiniteSet(S), \A u \in S : f[u] \in Nat
    PROVE  SizeOf(S, f) \in Nat /\ ((\A u \in S : f[u] = 0) => SizeOf(S, f) = 0)
<1> DEFINE Good == {T \in SUBSET S : /\ SizeOf(T, f) \in Nat
                                     /\ (\A u \in S : f[u] = 0) => SizeOf(T, f) = 0}
<1>1. {} \in Good BY SizeOfNone
<1>2. ASSUME NEW T \in Good, NEW x \in S \ T PROVE T \cup {x} \in Good
  <2> DEFINE U == T \cup {x}
  <2>1. U \in SUBSET S /\ IsFiniteSet(U) BY FS_Subset
  <2>2. U \ {x} = T /\ x \in U OBVIOUS
  <2>3. SizeOf(U, f) = f[x] + SizeOf(U \ {x}, f) BY <2>1, <2>2, SizeOfRemove
  <2> QED BY <2>1, <2>2, <2>3
<1>3. Good \in SUBSET SUBSET S OBVIOUS
<1> HIDE DEF Good
<1>4. S \in Good BY <1>1, <1>2, <1>3, SetInduction
<1> QED BY <1>4 DEF Good

\* A set's sum is that of a part and that of the rest.
LEMMA SizeOfParts ==
    ASSUME NEW f, NEW S, IsFiniteSet(S), \A u \in S : f[u] \in Int, NEW A \in SUBSET S
    PROVE  SizeOf(S, f) = SizeOf(A, f) + SizeOf(S \ A, f)
<1> DEFINE Good == {T \in SUBSET A : SizeOf(S, f) = SizeOf(T, f) + SizeOf(S \ T, f)}
<1>1. \A T \in SUBSET S : IsFiniteSet(T) /\ SizeOf(T, f) \in Int BY FS_Subset, SizeOfRemove
<1>2. {} \in Good
  <2>1. S \ {} = S OBVIOUS
  <2> QED BY <1>1, <2>1, SizeOfNone
<1>3. ASSUME NEW T \in Good, NEW x \in A \ T PROVE T \cup {x} \in Good
  <2> DEFINE U == T \cup {x}
             R == S \ T
  <2>1. U \in SUBSET S /\ U \in SUBSET A /\ x \in U /\ U \ {x} = T OBVIOUS
  <2>2. R \in SUBSET S /\ x \in R /\ R \ {x} = S \ U OBVIOUS
  <2>3. SizeOf(U, f) = f[x] + SizeOf(U \ {x}, f) BY <1>1, <2>1, SizeOfRemove
  <2>4. SizeOf(R, f) = f[x] + SizeOf(R \ {x}, f) BY <1>1, <2>2, SizeOfRemove
  <2>5. SizeOf(S, f) = SizeOf(T, f) + SizeOf(R, f) OBVIOUS
  <2>6. /\ f[x] \in Int /\ SizeOf(T, f) \in Int /\ SizeOf(S \ U, f) \in Int
        /\ SizeOf(U, f) = f[x] + SizeOf(T, f) /\ SizeOf(R, f) = f[x] + SizeOf(S \ U, f)
    BY <1>1, <2>1, <2>2, <2>3, <2>4
  <2> HIDE DEF U, R
  <2>7. SizeOf(S, f) = SizeOf(U, f) + SizeOf(S \ U, f) BY <2>5, <2>6
  <2> QED BY <2>1, <2>7 DEF U
<1>4. Good \in SUBSET SUBSET A /\ IsFiniteSet(A) BY <1>1
<1> HIDE DEF Good
<1>5. A \in Good BY <1>2, <1>3, <1>4, SetInduction
<1> QED BY <1>5 DEF Good

----------------------------------------------------------------------------
(***************************************************************************)
(* The results by use.                                                     *)
(***************************************************************************)

\* A list holds each result in memory once, and the sizes on record are theirs.
Accounts(held, q, size, total) ==
    /\ held \in [Tracks -> Known]
    /\ q \in Seq(Tracks) /\ Distinct(q)
    /\ Held(q) = {t \in Tracks : held[t] # None}
    /\ size = [t \in Tracks |-> IF held[t] = None THEN 0 ELSE resultSize(held[t])]
    /\ total = SizeOf(Tracks, size)

WithinBudget == bytes > MaxResultBytes => Len(order) = 1

\* A size is 1 or 2, and what a set of them adds up to is a number.
LEMMA SizesAdd ==
    ASSUME NEW held, NEW q, NEW size, NEW total, Accounts(held, q, size, total)
    PROVE  /\ \A t \in Tracks : size[t] \in 0..2
           /\ \A S \in SUBSET Tracks : IsFiniteSet(S) /\ SizeOf(S, size) \in Nat
           /\ total \in Nat
<1>1. \A t \in Tracks : size[t] \in 0..2 BY DEF Accounts, resultSize
<1>2. \A S \in SUBSET Tracks : IsFiniteSet(S) BY StoreAssumption, FS_Subset
<1>3. \A S \in SUBSET Tracks : SizeOf(S, size) \in Nat BY <1>1, <1>2, SizeOfNat
<1> QED BY <1>1, <1>2, <1>3 DEF Accounts

\* A bounded set of numbers has a largest one.
LEMMA LargestNumber ==
    ASSUME NEW n \in Nat, NEW T \in SUBSET (1..n), T # {}
    PROVE  Max(T) \in T /\ \A m \in T : Max(T) >= m
<1> DEFINE U == {n - m : m \in T}
<1>1. U \in SUBSET Nat /\ U # {}
  <2>1. \A m \in T : n - m \in Nat OBVIOUS
  <2> QED BY <2>1
<1>2. PICK u \in U : \A v \in U : u <= v
  <2> HIDE DEF U
  <2> QED BY <1>1, LeastNumber
<1>3. PICK x \in T : u = n - x OBVIOUS
<1>4. \A m \in T : x >= m BY <1>2, <1>3
<1>5. \E y \in T : \A m \in T : y >= m BY <1>4
<1> QED BY <1>5 DEF Max

\* What eviction leaves is accounted for, and within the budget unless it is
\* the one result just put.
LEMMA EvictionAccounts ==
    ASSUME NEW held, NEW q, NEW size, NEW total, Accounts(held, q, size, total),
           Len(q) \in Nat \ {0}, NEW keep, q[1] = keep,
           evictLocked(keep, held, q, size, total)
    PROVE  Accounts(results', order', sizes', bytes') /\ WithinBudget'
<1> DEFINE within == {n \in 1..Len(q) : Left(q, n, size, total) <= MaxResultBytes}
           k == Max({1} \cup within)
           behind == Behind(q, k)
<1>1. /\ results' = [u \in Tracks |-> IF u \in behind \ {keep} THEN None ELSE held[u]]
      /\ order' = SubSeq(q, 1, k)
      /\ sizes' = [u \in Tracks |-> IF u \in behind \ {keep} THEN 0 ELSE size[u]]
      /\ bytes' = total - SizeOf(behind, size)
  BY DEF evictLocked, Left
<1>2. {1} \cup within \in SUBSET (1..Len(q)) /\ {1} \cup within # {} OBVIOUS
<1>3. k \in {1} \cup within BY <1>2, LargestNumber
<1>4. k \in 1..Len(q) BY <1>2, <1>3
<1>5. k \in within => bytes' <= MaxResultBytes BY <1>1 DEF Left
<1> HIDE DEF within, k
<1>6. q \in Seq(Tracks) /\ Distinct(q) BY DEF Accounts
<1>7. behind = {q[i] : i \in k + 1 .. Len(q)} BY DEF Behind
<1> HIDE DEF behind
<1>8. /\ order' \in Seq(Tracks) /\ Distinct(order') /\ Len(order') = k
      /\ Held(order') = Held(q) \ behind
      /\ behind \subseteq Held(q) /\ keep \notin behind
  <2>1. SubSeq(q, 1, k) \in Seq(Tracks) /\ CutOff(SubSeq(q, 1, k), q, k, behind)
    BY <1>4, <1>6, <1>7, FirstHold
  <2> QED BY <1>1, <2>1 DEF CutOff
<1>9. /\ results' = [u \in Tracks |-> IF u \in behind THEN None ELSE held[u]]
      /\ sizes' = [u \in Tracks |-> IF u \in behind THEN 0 ELSE size[u]]
  BY <1>1, <1>8
<1>10. results' \in [Tracks -> Known] BY <1>9 DEF Accounts, Known
<1>11. Held(order') = {t \in Tracks : results'[t] # None} BY <1>8, <1>9 DEF Accounts
<1>12. sizes' = [t \in Tracks |-> IF results'[t] = None THEN 0 ELSE resultSize(results'[t])]
  <2>1. \A t \in Tracks : size[t] = IF held[t] = None THEN 0 ELSE resultSize(held[t])
    BY DEF Accounts
  <2>2. \A t \in Tracks : (IF t \in behind THEN 0 ELSE size[t])
                          = IF results'[t] = None THEN 0 ELSE resultSize(results'[t])
    BY <1>9, <2>1
  <2> QED BY <1>9, <2>2
<1>13. bytes' = SizeOf(Tracks, sizes')
  <2> DEFINE rest == Tracks \ behind
  <2>1. behind \in SUBSET Tracks BY <1>8 DEF Accounts
  <2>2. /\ rest \in SUBSET Tracks
        /\ IsFiniteSet(Tracks) /\ IsFiniteSet(behind) /\ IsFiniteSet(rest)
    BY <2>1, FS_Subset, StoreAssumption
  <2>3. /\ \A t \in Tracks : size[t] \in Int
        /\ SizeOf(behind, size) \in Int /\ SizeOf(rest, size) \in Int
    <3>1. \A t \in Tracks : size[t] \in 0..2 BY SizesAdd
    <3>2. \A S \in SUBSET Tracks : SizeOf(S, size) \in Nat BY SizesAdd
    <3> QED BY <2>1, <2>2, <3>1, <3>2
  <2>4. SizeOf(Tracks, size) = SizeOf(behind, size) + SizeOf(rest, size)
    BY <2>1, <2>2, <2>3, SizeOfParts
  <2>5. \A t \in Tracks : sizes'[t] \in Int
    BY <1>9, <2>3
  <2>6. SizeOf(Tracks, sizes') = SizeOf(behind, sizes') + SizeOf(rest, sizes')
    BY <2>1, <2>2, <2>5, SizeOfParts
  <2>7. SizeOf(behind, sizes') = 0
    <3>1. \A t \in behind : sizes'[t] = 0 BY <1>9, <2>1
    <3>2. \A t \in behind : sizes'[t] \in Nat BY <3>1
    <3> QED BY <2>2, <3>1, <3>2, SizeOfNat
  <2>8. SizeOf(rest, sizes') = SizeOf(rest, size)
    <3>1. \A t \in rest : size[t] \in Int /\ sizes'[t] = size[t] BY <1>9, <2>3
    <3> HIDE DEF rest
    <3> QED BY <2>2, <3>1, SizeOfSame
  <2>9. total = SizeOf(Tracks, size) BY DEF Accounts
  <2> HIDE DEF rest
  <2> QED BY <1>1, <2>3, <2>4, <2>6, <2>7, <2>8, <2>9
<1>14. Accounts(results', order', sizes', bytes')
  BY <1>8, <1>10, <1>11, <1>12, <1>13 DEF Accounts
<1>15. WithinBudget'
  <2>1. bytes' \in Nat BY <1>14, SizesAdd
  <2>2. k = 1 \/ bytes' <= MaxResultBytes BY <1>3, <1>5
  <2> QED BY <1>8, <2>1, <2>2, StoreAssumption DEF WithinBudget
<1> QED BY <1>14, <1>15

\* A result put in front is accounted for.
LEMMA PutAccounts ==
    ASSUME NEW t \in Tracks, NEW r \in Result, Accounts(results, order, sizes, bytes),
           putLocked(t, r)
    PROVE  Accounts(results', order', sizes', bytes') /\ WithinBudget'
<1> DEFINE held == [results EXCEPT ![t] = r]
           q == <<t>> \o Without(order, t)
           size == [sizes EXCEPT ![t] = resultSize(r)]
           total == bytes + resultSize(r) - sizes[t]
<1>1. evictLocked(t, held, q, size, total) BY DEF putLocked
<1>2. order \in Seq(Tracks) /\ Distinct(order) BY DEF Accounts
<1>3. /\ q \in Seq(Tracks) /\ Distinct(q) /\ Held(q) = Held(order) \cup {t}
      /\ Len(q) \in Nat \ {0} /\ q[1] = t
  <2>1. q \in Seq(Tracks) /\ PutFirst(q, order, t) BY <1>2, FrontHolds
  <2> QED BY <2>1 DEF PutFirst
<1> HIDE DEF q
<1>4. results \in [Tracks -> Known] BY DEF Accounts
<1>5. held \in [Tracks -> Known] /\ held[t] = r /\ \A u \in Tracks \ {t} : held[u] = results[u]
  BY <1>4 DEF Known
<1>6. r # None BY NoneIsNoResult
<1> HIDE DEF held
<1>7. Held(q) = {u \in Tracks : held[u] # None} BY <1>3, <1>5, <1>6 DEF Accounts
<1>8. sizes = [u \in Tracks |-> IF results[u] = None THEN 0 ELSE resultSize(results[u])]
  BY DEF Accounts
<1>9. size = [u \in Tracks |-> IF held[u] = None THEN 0 ELSE resultSize(held[u])]
  <2>1. /\ DOMAIN size = Tracks /\ size[t] = resultSize(r)
        /\ \A u \in Tracks \ {t} : size[u] = sizes[u]
    BY <1>8
  <2>2. size = [u \in Tracks |-> size[u]] BY <1>8
  <2>3. \A u \in Tracks : size[u] = IF held[u] = None THEN 0 ELSE resultSize(held[u])
    BY <1>5, <1>6, <1>8, <2>1
  <2> HIDE DEF size
  <2> QED BY <2>2, <2>3
<1>10. total = SizeOf(Tracks, size)
  <2> DEFINE rest == Tracks \ {t}
  <2>1. IsFiniteSet(Tracks) /\ IsFiniteSet(rest) /\ rest \in SUBSET Tracks
    BY FS_Subset, StoreAssumption
  <2>2. /\ \A u \in Tracks : sizes[u] \in 0..2
        /\ bytes \in Nat /\ SizeOf(rest, sizes) \in Nat
    BY <2>1, SizesAdd
  <2>3. SizeOf(Tracks, sizes) = sizes[t] + SizeOf(rest, sizes)
    <3>1. \A u \in Tracks : sizes[u] \in Int BY <2>2
    <3> QED BY <2>1, <3>1, SizeOfRemove
  <2>4. /\ size[t] = resultSize(r) /\ \A u \in rest : size[u] = sizes[u]
    BY <1>8
  <2>5. resultSize(r) \in Nat BY DEF resultSize
  <2>6. \A u \in Tracks : size[u] \in Int BY <2>2, <2>4, <2>5
  <2> HIDE DEF size
  <2>7. SizeOf(Tracks, size) = size[t] + SizeOf(rest, size) BY <2>1, <2>6, SizeOfRemove
  <2>8. SizeOf(rest, size) = SizeOf(rest, sizes)
    <3>1. \A u \in rest : sizes[u] \in Int /\ size[u] = sizes[u] BY <2>2, <2>4
    <3> HIDE DEF rest
    <3> QED BY <2>1, <3>1, SizeOfSame
  <2>9. bytes = SizeOf(Tracks, sizes) BY DEF Accounts
  <2> HIDE DEF rest
  <2> QED BY <2>2, <2>3, <2>4, <2>5, <2>7, <2>8, <2>9
<1> HIDE DEF size, total
<1>11. Accounts(held, q, size, total) BY <1>3, <1>5, <1>7, <1>9, <1>10 DEF Accounts
<1> QED BY <1>1, <1>3, <1>11, EvictionAccounts

LRUInv == Accounts(results, order, sizes, bytes) /\ WithinBudget

\* A result in memory that is used is moved to the front.
LEMMA TouchAccounts ==
    ASSUME LRUInv, NEW t \in Tracks, results[t] # None, touchLocked(t)
    PROVE  LRUInv'
<1>1. /\ order' = <<t>> \o Without(order, t)
      /\ results' = results /\ sizes' = sizes /\ bytes' = bytes
  BY DEF touchLocked
<1>2. order \in Seq(Tracks) /\ Distinct(order) /\ t \in Held(order) BY DEF LRUInv, Accounts
<1>3. order' \in Seq(Tracks) /\ PutFirst(order', order, t) BY <1>1, <1>2, FrontHolds
<1>4. Distinct(order') /\ Held(order') = Held(order) BY <1>2, <1>3 DEF PutFirst
<1>5. Len(order') = Len(order)
  <2>1. Cardinality(Held(order)) = Len(order) BY <1>2, LengthIsCardinality
  <2>2. Cardinality(Held(order')) = Len(order') BY <1>3, <1>4, LengthIsCardinality
  <2> QED BY <1>4, <2>1, <2>2
<1> QED BY <1>1, <1>3, <1>4, <1>5 DEF LRUInv, Accounts, WithinBudget

\* One that is dropped takes its size with it.
LEMMA DropAccounts ==
    ASSUME LRUInv, NEW t \in Tracks, dropLocked(t)
    PROVE  LRUInv'
<1>1. /\ results' = [results EXCEPT ![t] = None]
      /\ order' = Without(order, t)
      /\ sizes' = [sizes EXCEPT ![t] = 0]
      /\ bytes' = bytes - sizes[t]
  BY DEF dropLocked
<1>2. /\ results \in [Tracks -> Known]
      /\ order \in Seq(Tracks) /\ Distinct(order)
      /\ Held(order) = {u \in Tracks : results[u] # None}
      /\ sizes = [u \in Tracks |-> IF results[u] = None THEN 0 ELSE resultSize(results[u])]
      /\ bytes = SizeOf(Tracks, sizes)
  BY DEF LRUInv, Accounts
<1>3. order' \in Seq(Tracks) /\ Distinct(order') /\ Held(order') = Held(order) \ {t}
  BY <1>1, <1>2, WithoutHolds
<1>4. /\ results' \in [Tracks -> Known] /\ results'[t] = None
      /\ \A u \in Tracks \ {t} : results'[u] = results[u]
  BY <1>1, <1>2 DEF Known
<1>5. /\ sizes' = [u \in Tracks |-> sizes'[u]] /\ sizes'[t] = 0
      /\ \A u \in Tracks \ {t} : sizes'[u] = sizes[u]
  BY <1>1, <1>2
<1>6. sizes' = [u \in Tracks |-> IF results'[u] = None THEN 0 ELSE resultSize(results'[u])]
  <2>1. \A u \in Tracks : sizes'[u] = IF results'[u] = None THEN 0 ELSE resultSize(results'[u])
    BY <1>2, <1>4, <1>5
  <2> QED BY <1>5, <2>1
<1>7. /\ \A u \in Tracks : sizes[u] \in 0..2
      /\ \A S \in SUBSET Tracks : IsFiniteSet(S) /\ SizeOf(S, sizes) \in Nat
      /\ bytes \in Nat
  BY SizesAdd DEF LRUInv
<1>8. bytes' = SizeOf(Tracks, sizes')
  <2> DEFINE rest == Tracks \ {t}
  <2>1. rest \in SUBSET Tracks /\ IsFiniteSet(rest) /\ IsFiniteSet(Tracks) BY <1>7
  <2>2. SizeOf(Tracks, sizes) = sizes[t] + SizeOf(rest, sizes)
    <3>1. \A u \in Tracks : sizes[u] \in Int BY <1>7
    <3> QED BY <2>1, <3>1, SizeOfRemove
  <2>3. SizeOf(Tracks, sizes') = sizes'[t] + SizeOf(rest, sizes')
    <3>1. \A u \in Tracks : sizes'[u] \in Int BY <1>5, <1>7
    <3> QED BY <2>1, <3>1, SizeOfRemove
  <2>4. SizeOf(rest, sizes') = SizeOf(rest, sizes)
    <3>1. \A u \in rest : sizes[u] \in Int /\ sizes'[u] = sizes[u] BY <1>5, <1>7
    <3> HIDE DEF rest
    <3> QED BY <2>1, <3>1, SizeOfSame
  <2>5. SizeOf(rest, sizes) \in Nat /\ sizes[t] \in 0..2 BY <1>7, <2>1
  <2> HIDE DEF rest
  <2> QED BY <1>1, <1>2, <1>5, <2>2, <2>3, <2>4, <2>5
<1>9. Held(order') = {u \in Tracks : results'[u] # None} BY <1>2, <1>3, <1>4
<1>10. WithinBudget'
  <2> SUFFICES ASSUME bytes' > MaxResultBytes PROVE Len(order') = 1 BY DEF WithinBudget
  <2>1. bytes > MaxResultBytes BY <1>1, <1>7, StoreAssumption
  <2>2. Len(order) = 1 BY <2>1 DEF LRUInv, WithinBudget
  <2>3. IsFiniteSet(Held(order)) /\ Cardinality(Held(order)) = 1
    BY <1>2, <2>2, LengthIsCardinality
  <2>4. Cardinality(Held(order')) = Len(order') BY <1>3, LengthIsCardinality
  <2>5. t \notin Held(order)
    <3> SUFFICES ASSUME t \in Held(order) PROVE FALSE OBVIOUS
    <3>1. Held(order) = {t} BY <2>3, FS_Singleton
    <3>2. \A u \in Tracks : sizes'[u] = 0 BY <1>3, <1>6, <1>9, <3>1
    <3>3. IsFiniteSet(Tracks) /\ \A u \in Tracks : sizes'[u] \in Nat BY <1>7, <3>2
    <3>4. bytes' = 0 BY <1>8, <3>2, <3>3, SizeOfNat
    <3> QED BY <3>4, StoreAssumption
  <2>6. Held(order') = Held(order) BY <1>3, <2>5
  <2> QED BY <2>3, <2>4, <2>6
<1> QED BY <1>3, <1>4, <1>6, <1>8, <1>9, <1>10 DEF LRUInv, Accounts

\* Nothing is left when all are dropped.
LEMMA NothingAccounts ==
    ASSUME NEW held, held = [t \in Tracks |-> None], NEW q, q = <<>>,
           NEW size, size = [t \in Tracks |-> 0], NEW total, total = 0
    PROVE  Accounts(held, q, size, total) /\ total <= MaxResultBytes
<1>1. \A t \in Tracks : size[t] = 0 /\ held[t] = None OBVIOUS
<1>2. held \in [Tracks -> Known] BY DEF Known
<1>3. q \in Seq(Tracks) /\ Distinct(q) /\ Held(q) = {} BY EmptySeq DEF Distinct, Held
<1>4. SizeOf(Tracks, size) = 0
  <2>1. \A t \in Tracks : size[t] \in Nat BY <1>1
  <2> QED BY <1>1, <2>1, SizeOfNat, StoreAssumption
<1>5. size = [t \in Tracks |-> IF held[t] = None THEN 0 ELSE resultSize(held[t])] BY <1>1
<1>6. Accounts(held, q, size, total) BY <1>1, <1>2, <1>3, <1>4, <1>5 DEF Accounts
<1> QED BY <1>6, StoreAssumption

\* A step that stores a result puts one in memory, unless there was one.
LEMMA StoringPuts ==
    ASSUME Base, NEW c \in Clients,
           \/ \E t \in Tracks : Import(c, t)
           \/ Edit(c) \/ RedoWaveform(c) \/ RedoGrid(c) \/ RedoFull(c) \/ Fill(c)
    PROVE  UNCHANGED lruVars \/ \E t \in Tracks, r \in Result : putLocked(t, r)
<1> DEFINE t == op[c].track
           x == op[c].r
<1>1. /\ op \in [Clients -> Doings] /\ t \in Tracks /\ x \in Known
      /\ range \in Ranges /\ era \in Eras /\ made \in 0..MaxMade
      /\ gridCarry \in [Tracks -> 0..MaxMade]
  BY DEF Base, Types, Doings
<1>2. op[c].step \in {"edit", "waveform", "regrid", "refull", "fill"} => x \in Result
  <2>1. Fits(op[c]) BY DEF Base, Sound
  <2> QED BY <1>1, <2>1 DEF Fits, Known, Steps
<1>3. ASSUME NEW u \in Tracks, NEW given \in Result, NEW rest, NEW more,
             Store(c, u, given, rest, more)
      PROVE  \E v \in Tracks, r \in Result : putLocked(v, r)
  <2>1. Reapplied(u, given) \in Result BY <1>1 DEF Reapplied, Result
  <2> QED BY <1>3, <2>1 DEF Store
<1>4. CASE \E u \in Tracks : Import(c, u)
  <2>1. PICK u \in Tracks : Import(c, u) BY <1>4
  <2> DEFINE r == Fresh(made + 1, TRUE, 0)
  <2>2. made + 1 \in 0..MaxMade BY <1>1, <2>1, StoreAssumption DEF Import
  <2>3. r \in Result BY <2>2, FreshIsSane
  <2>4. Store(c, u, r, "cancel", excused \ {u}) BY <2>1 DEF Import, Set
  <2> HIDE DEF r
  <2> QED BY <1>3, <2>3, <2>4
<1>5. CASE Edit(c)
  <2> DEFINE r == [x EXCEPT !.grid = made + 1, !.edited = TRUE]
  <2>1. x \in Result BY <1>2, <1>5 DEF Edit
  <2>2. r \in Result
    <3> HIDE DEF x
    <3>1. made + 1 \in 0..MaxMade BY <1>1, <1>5, StoreAssumption DEF Edit
    <3> QED BY <2>1, <3>1 DEF Result
  <2>3. Store(c, t, r, "cancel", excused \ {t}) BY <1>5 DEF Edit, Set
  <2> HIDE DEF r
  <2> QED BY <1>1, <1>3, <2>2, <2>3
<1>6. CASE RedoWaveform(c)
  <2> DEFINE r == [x EXCEPT !.era = era]
             more == excused \cup (IF Replaces(t, Reapplied(t, r)) THEN {t} ELSE {})
  <2>1. x \in Result BY <1>2, <1>6 DEF RedoWaveform
  <2>2. r \in Result BY <1>1, <2>1 DEF Result
  <2>3. Store(c, t, r, "cancel", more) BY <1>6 DEF RedoWaveform, Set
  <2> HIDE DEF r, more
  <2> QED BY <1>1, <1>3, <2>2, <2>3
<1>7. CASE RedoGrid(c) \/ RedoFull(c)
  <2> DEFINE r == Stamped(x)
  <2>1. x \in Result BY <1>2, <1>7 DEF RedoGrid, RedoFull
  <2>2. r \in Result BY <1>1, <2>1 DEF Stamped, Result
  <2>3. PICK more : Store(c, t, r, "cancel", more)
    BY <1>7 DEF RedoGrid, RedoFull, Set
  <2> HIDE DEF r
  <2> QED BY <1>1, <1>3, <2>2, <2>3
<1>8. CASE Fill(c)
  <2> DEFINE more == excused \cup (IF c \in overtaken THEN {t} ELSE {})
  <2>1. x \in Result BY <1>2, <1>8 DEF Fill
  <2>2. UNCHANGED lruVars \/ Store(c, t, x, "save", more) BY <1>8 DEF Fill, SetIfAbsent
  <2> HIDE DEF more
  <2> QED BY <1>1, <1>3, <2>1, <2>2
<1> QED BY <1>4, <1>5, <1>6, <1>7, <1>8

\* Every step touches, puts or drops, or leaves the results alone.
LEMMA LRUStep == LRUInv /\ Base /\ [Next]_vars => LRUInv'
<1> SUFFICES ASSUME LRUInv, Base, [Next]_vars PROVE LRUInv' OBVIOUS
<1>1. ASSUME UNCHANGED lruVars PROVE LRUInv'
  BY <1>1 DEF lruVars, LRUInv, Accounts, WithinBudget
<1>2. ASSUME \E t \in Tracks, r \in Result : putLocked(t, r) PROVE LRUInv'
  BY <1>2, PutAccounts DEF LRUInv
<1>3. ASSUME dropAllLocked PROVE LRUInv'
  <2>1. /\ results' = [t \in Tracks |-> None] /\ order' = <<>>
        /\ sizes' = [t \in Tracks |-> 0] /\ bytes' = 0
    BY <1>3 DEF dropAllLocked
  <2>2. Accounts(results', order', sizes', bytes') /\ bytes' <= MaxResultBytes
    BY <2>1, NothingAccounts
  <2> QED BY <2>1, <2>2, StoreAssumption DEF LRUInv, WithinBudget
<1>4. CASE UNCHANGED vars BY <1>1, <1>4 DEF vars
<1>5. CASE Next
  <2>1. ASSUME NEW c \in Clients, NEW t \in Tracks, Hit(c, t) \/ CopyForEdit(c, t)
        PROVE  LRUInv'
    BY <2>1, TouchAccounts DEF Hit, CopyForEdit
  <2>2. ASSUME NEW c \in Clients, NEW t \in Tracks, Miss(c, t) \/ TakeForRedo(c, t)
        PROVE  LRUInv'
    BY <1>1, <2>2 DEF Miss, TakeForRedo
  <2>3. ASSUME NEW c \in Clients, NEW t \in Tracks, Invalidate(c, t)
        PROVE  LRUInv'
    BY <2>3, DropAccounts DEF Invalidate
  <2>4. ASSUME NEW c \in Clients, NEW t \in Tracks, Import(c, t)
        PROVE  LRUInv'
    BY <1>1, <1>2, <2>4, StoringPuts
  <2>5. ASSUME NEW c \in Clients,
               Edit(c) \/ RedoWaveform(c) \/ RedoGrid(c) \/ RedoFull(c) \/ Fill(c)
        PROVE  LRUInv'
    BY <1>1, <1>2, <2>5, StoringPuts
  <2>6. ASSUME NEW c \in Clients, Put(c)
        PROVE  LRUInv'
    <3>1. op[c].track \in Tracks /\ op[c].r \in Known /\ op[c].step = "put" /\ Fits(op[c])
      BY <2>6 DEF Put, Base, Types, Doings, Sound
    <3>2. op[c].r \in Result BY <3>1 DEF Fits, Known, Steps
    <3>3. putLocked(op[c].track, op[c].r) BY <2>6 DEF Put
    <3> QED BY <1>2, <3>1, <3>2, <3>3
  <2>7. ASSUME NEW c \in Clients,
               \/ Load(c) \/ LoadStale(c) \/ TakeNothing(c) \/ Stash(c) \/ Discard(c)
               \/ Refit(c) \/ Fit(c) \/ Stamp(c) \/ Abandon(c) \/ Cancel(c) \/ Save(c) \/ Unlink(c)
        PROVE  LRUInv'
    <3>1. UNCHANGED lruVars
      BY <2>7 DEF Load, LoadStale, TakeNothing, Stash, Discard, Refit, Fit, Stamp, Abandon, Cancel,
         Save, Unlink
    <3> QED BY <1>1, <3>1
  <2>8. ASSUME SetRange \/ \E t \in Lockable : Lock(t) \/ Unlock(t)
        PROVE  LRUInv'
    BY <1>1, <2>8 DEF SetRange, Lock, Unlock
  <2>9. ASSUME InvalidateAll \/ Restart
        PROVE  LRUInv'
    BY <1>3, <2>9 DEF InvalidateAll, Restart
  <2> QED BY <1>5, <2>1, <2>2, <2>3, <2>4, <2>5, <2>6, <2>7, <2>8, <2>9 DEF Next
<1> QED BY <1>4, <1>5

\* The list of results by use and the sizes on record describe the results in
\* memory, which are within the budget but for one that exceeds it alone.
LEMMA LRUInvariance == Spec => []LRUInv
<1>1. Init => LRUInv
  <2> SUFFICES ASSUME Init PROVE LRUInv OBVIOUS
  <2>1. /\ results = [t \in Tracks |-> None] /\ order = <<>>
        /\ sizes = [t \in Tracks |-> 0] /\ bytes = 0
    BY DEF Init
  <2>2. Accounts(results, order, sizes, bytes) /\ bytes <= MaxResultBytes
    BY <2>1, NothingAccounts
  <2> QED BY <2>1, <2>2, StoreAssumption DEF LRUInv, WithinBudget
<1>2. StoreInv => Base BY DEF StoreInv
<1>3. LRUInv /\ Base /\ [Next]_vars => LRUInv' BY LRUStep
<1> QED BY <1>1, <1>2, <1>3, StoreInvariance, PTL DEF Spec

\* The cache never loses count of what it holds (lru.go): the list by use, the
\* sizes and their total are those of the results in memory, and the budget is
\* exceeded by a single result at most.
THEOREM CacheCountsItsResults == Spec => []LRUMatches
<1>1. LRUInv => LRUMatches
  <2> SUFFICES ASSUME LRUInv PROVE LRUMatches OBVIOUS
  <2>1. \A t \in Tracks : sizes[t] = IF results[t] = None THEN 0 ELSE resultSize(results[t])
    BY DEF LRUInv, Accounts
  <2>2. order \in Seq(Tracks) /\ Distinct(order) BY DEF LRUInv, Accounts
  <2>3. Cardinality(Held(order)) = Len(order) BY <2>2, LengthIsCardinality
  <2> QED BY <2>1, <2>3 DEF LRUInv, Accounts, WithinBudget, LRUMatches
<1> QED BY <1>1, LRUInvariance, PTL

\* Every variable of the store keeps its type; the bytes counted never go below
\* zero.
THEOREM StoreTypeCorrect == Spec => []TypeOK
<1>1. LRUInv /\ StoreInv => TypeOK
  <2> SUFFICES ASSUME LRUInv, StoreInv PROVE TypeOK OBVIOUS
  <2>1. bytes \in Nat /\ \A t \in Tracks : sizes[t] \in 0..2 BY SizesAdd DEF LRUInv
  <2>2. sizes \in [Tracks -> 0..2] BY <2>1 DEF LRUInv, Accounts
  <2> QED BY <2>1, <2>2 DEF LRUInv, Accounts, StoreInv, Base, Types, TypeOK, Known, Doings
<1> QED BY <1>1, LRUInvariance, StoreInvariance, PTL
============================================================================
