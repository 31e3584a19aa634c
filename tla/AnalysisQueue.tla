--------------------------- MODULE AnalysisQueue ---------------------------
(***************************************************************************)
(* The queue that runs track analyses (src/analysis/queue.go), together    *)
(* with the part of the result store it reads and fills.                   *)
(*                                                                         *)
(* Callers (decks, HTTP handlers, the list of thumbnails) ask for a        *)
(* track's analysis and leave a callback.  Requests for one track share a  *)
(* job.  A job waits in the queue of its priority until one of maxRunning  *)
(* slots is free, runs in a goroutine of its own and hands its result to   *)
(* the callbacks that joined it.  The queue's mutex makes Request, Finish, *)
(* Forget, CancelReplaced and Close atomic; everything else, the analysis, *)
(* the callbacks and the store, interleaves with them.                     *)
(*                                                                         *)
(* The store is kept without a cache folder (NewStore), where it never     *)
(* evicts a result.                                                        *)
(***************************************************************************)
EXTENDS Integers, Sequences, FiniteSets, Lists

CONSTANTS
    Tracks,         \* the track ids that are asked for
    Waiters,        \* callers that leave a callback with their request
    maxRunning,     \* analyses at once
    maxBackground,  \* how many of them may be Background work
    Replaceable,    \* tracks an import or a grid edit may Set
    Deletable       \* tracks that may be removed from the library

ASSUME SlotsAssumption ==
    /\ maxRunning \in Nat \ {0}
    /\ maxBackground \in 0..maxRunning

ASSUME TracksAssumption ==
    /\ IsFiniteSet(Tracks)
    /\ Replaceable \subseteq Tracks
    /\ Deletable \subseteq Tracks

Background == 0
Foreground == 1
Priority   == {Background, Foreground}

\* What a track's result is, by where it came from: this queue's analysis
\* (Made) or a deliberate replacement through Set (Given).
None    == "none"
Made    == "made"
Given   == "given"
Results == {Made, Given}

\* A running job's goroutine, by the statement of run and analyze it is about
\* to execute.
RunPhases == {"look", "produce", "keep", "reread", "done"}
Phases    == {"none", "queued"} \cup RunPhases

NoTrack == "no track"
ASSUME NoTrackAssumption == NoTrack \notin Tracks

VARIABLES
    job,        \* q.jobs, by track; phase "none" where the map has no entry
    waiting,    \* q.waiting: queued tracks, oldest first, by priority
    running,    \* q.running: started jobs, by the priority they started under
    closed,     \* q.closed
    stored,     \* s.results
    due,        \* callbacks still to be made by goroutines past the mutex
    asking,     \* the track each waiter waits for, NoTrack for none
    replacing,  \* tracks whose Set has stored a result but not yet cancelled
    removing    \* tracks whose Remove has dropped the result, not the job

queueVars == <<job, waiting, running, closed>>
vars == <<job, waiting, running, closed, stored, due, asking, replacing, removing>>

Job == [phase: Phases, prio: Priority, slot: Priority, cancelled: BOOLEAN,
        res: Results \cup {None}, waiters: SUBSET Waiters]

NewJob(p, ws) == [phase |-> "queued", prio |-> p, slot |-> Background,
                  cancelled |-> FALSE, res |-> None, waiters |-> ws]

NoJob == [NewJob(Background, {}) EXCEPT !.phase = "none"]

\* The callbacks a goroutine (of run, Close, forget or a refused Request) owes
\* after it released the mutex.  A goroutine that owes none is not recorded.
Due == [track: Tracks, waiters: (SUBSET Waiters) \ {{}}]

\* Mutant: a goroutine with nobody to call is recorded too.
OweNobody(t, ws) == {[track |-> t, waiters |-> ws]}

Owe(t, ws) == IF ws = {} THEN {} ELSE {[track |-> t, waiters |-> ws]}

\* The types; a goroutine that owes callbacks (due) owes at least one.
TypeOK ==
    /\ job \in [Tracks -> Job]
    /\ waiting \in [Priority -> Seq(Tracks)]
    /\ running \in [Priority -> Int]
    /\ closed \in BOOLEAN
    /\ stored \in [Tracks -> Results \cup {None}]
    /\ due \subseteq Due
    /\ asking \in [Waiters -> Tracks \cup {NoTrack}]
    /\ replacing \subseteq Tracks
    /\ removing \subseteq Tracks

Init ==
    /\ job = [t \in Tracks |-> NoJob]
    /\ waiting = [p \in Priority |-> <<>>]
    /\ running = [p \in Priority |-> 0]
    /\ closed = FALSE
    /\ stored = [t \in Tracks |-> None]
    /\ due = {}
    /\ asking = [w \in Waiters |-> NoTrack]
    /\ replacing = {}
    /\ removing = {}

----------------------------------------------------------------------------
(***************************************************************************)
(* Helpers.                                                                *)
(***************************************************************************)

IsRunning(t) == job[t].phase \in RunPhases
IsQueued(t)  == job[t].phase = "queued"

Least(a, b) == IF a <= b THEN a ELSE b

\* How many jobs the loop of dispatchLocked takes from each queue, when it
\* starts with queues q and counters r: Foreground ones while there are slots;
\* Background ones from what is left, up to their own limit.
TakeForeground(q, r) ==
    Least(Len(q[Foreground]), maxRunning - (r[Background] + r[Foreground]))

\* Mutant: Background work may fill every slot.
TakeBackgroundUnlimited(q, r) ==
    Least(Len(q[Background]),
          maxRunning - (r[Background] + r[Foreground]) - TakeForeground(q, r))

TakeBackground(q, r) ==
    Least(Len(q[Background]),
          Least(maxRunning - (r[Background] + r[Foreground]) - TakeForeground(q, r),
                maxBackground - r[Background]))

Take(q, r) == [p \in Priority |->
    IF p = Foreground THEN TakeForeground(q, r) ELSE TakeBackground(q, r)]

\* A job the loop takes from its queue: run is started for it.
Started(jb) == [jb EXCEPT !.phase = "look", !.slot = jb.prio]

\* dispatchLocked, on the jobs j, queues q and counters r its caller has left
\* under the mutex.
DispatchLocked(j, q, r) ==
    LET n == Take(q, r)
        started == UNION {{q[p][i] : i \in 1..n[p]} : p \in Priority}
    IN  /\ job' = [t \in Tracks |->
                      IF t \in started THEN Started(j[t]) ELSE j[t]]
        /\ waiting' = [p \in Priority |-> SubSeq(q[p], n[p] + 1, Len(q[p]))]
        /\ running' = [p \in Priority |-> r[p] + n[p]]

----------------------------------------------------------------------------
(***************************************************************************)
(* Request.  ws holds the callback of a caller that is not waiting yet, or *)
(* is empty for a caller that passes none (a deck's load, a thumbnail).    *)
(***************************************************************************)

Callback == {{}} \cup {{w} : w \in {v \in Waiters : asking[v] = NoTrack}}

Ask(t, ws) == asking' = [w \in Waiters |-> IF w \in ws THEN t ELSE asking[w]]

\* After Close the callback is called at once, with nil.
RequestRefused(t, ws) ==
    /\ closed
    /\ ws # {}
    /\ Ask(t, ws)
    /\ due' = due \cup Owe(t, ws)
    /\ UNCHANGED <<job, waiting, running, closed, stored, replacing, removing>>

\* The three ways a request finds its track: without a job, with a queued job
\* of lower priority, which moves to the end of the higher queue, or with one
\* it simply joins.
\* Mutant: the newest request goes first.
EnqueueAtHead(t, p, ws) ==
    /\ job[t].phase = "none"
    /\ DispatchLocked([job EXCEPT ![t] = NewJob(p, ws)],
                      [waiting EXCEPT ![p] = <<t>> \o waiting[p]],
                      running)

Enqueue(t, p, ws) ==
    /\ job[t].phase = "none"
    /\ DispatchLocked([job EXCEPT ![t] = NewJob(p, ws)],
                      [waiting EXCEPT ![p] = Append(waiting[p], t)],
                      running)

\* Mutant: promotion leaves the job in its old queue.
MoveUpTwice(t, p, ws) ==
    /\ IsQueued(t)
    /\ p > job[t].prio
    /\ DispatchLocked([job EXCEPT ![t].prio = p, ![t].waiters = @ \cup ws],
                      [waiting EXCEPT ![p] = Append(waiting[p], t)],
                      running)

MoveUp(t, p, ws) ==
    /\ IsQueued(t)
    /\ p > job[t].prio
    /\ DispatchLocked([job EXCEPT ![t].prio = p, ![t].waiters = @ \cup ws],
                      [waiting EXCEPT ![job[t].prio] = Without(waiting[job[t].prio], t),
                                      ![p] = Append(waiting[p], t)],
                      running)

Join(t, p, ws) ==
    /\ \/ IsRunning(t)
       \/ IsQueued(t) /\ p <= job[t].prio
    /\ DispatchLocked([job EXCEPT ![t].waiters = @ \cup ws], waiting, running)

\* Mutant: Request does not look at closed.
RequestAlways(t, p, ws) ==
    /\ Ask(t, ws)
    /\ Enqueue(t, p, ws) \/ MoveUp(t, p, ws) \/ Join(t, p, ws)
    /\ UNCHANGED <<closed, stored, due, replacing, removing>>

Request(t, p, ws) ==
    /\ ~closed
    /\ Ask(t, ws)
    /\ Enqueue(t, p, ws) \/ MoveUp(t, p, ws) \/ Join(t, p, ws)
    /\ UNCHANGED <<closed, stored, due, replacing, removing>>

----------------------------------------------------------------------------
(***************************************************************************)
(* run and analyze: the goroutine of a started job.                        *)
(***************************************************************************)

Advance(t, phase, r) ==
    /\ job' = [job EXCEPT ![t].phase = phase, ![t].res = r]
    /\ UNCHANGED <<waiting, running, closed, due, asking, replacing, removing>>

\* s.Get: a result stored while the request was queued is its answer.
Look(t) ==
    /\ job[t].phase = "look"
    /\ \/ stored[t] # None /\ Advance(t, "done", stored[t])
       \/ stored[t] = None /\ Advance(t, "produce", None)
    /\ UNCHANGED stored

\* The Importer has a result; it cannot be cancelled.
Import(t) ==
    /\ job[t].phase = "produce"
    /\ Advance(t, "keep", Made)
    /\ UNCHANGED stored

\* AnalyzeTrackContext returned a result and its context has not ended.
Analyzed(t) ==
    /\ job[t].phase = "produce"
    /\ ~job[t].cancelled
    /\ Advance(t, "keep", Made)
    /\ UNCHANGED stored

\* The context ended: the result is what the store holds by then.
Stopped(t) ==
    /\ job[t].phase = "produce"
    /\ job[t].cancelled
    /\ Advance(t, "done", stored[t])
    /\ UNCHANGED stored

\* The audio file is missing, or the analysis failed.
Failed(t) ==
    /\ job[t].phase = "produce"
    /\ Advance(t, "done", None)
    /\ UNCHANGED stored

\* Mutant: the analysis is stored with Set.
KeepAlways(t) ==
    /\ job[t].phase = "keep"
    /\ stored' = [stored EXCEPT ![t] = job[t].res]
    /\ Advance(t, "done", job[t].res)

\* keepCurrent: SetIfAbsent, and if the track has a result, a second look at
\* it under a lock of its own ("removed meanwhile" gives the analysis itself).
Keep(t) ==
    /\ job[t].phase = "keep"
    /\ \/ /\ stored[t] = None
          /\ stored' = [stored EXCEPT ![t] = job[t].res]
          /\ Advance(t, "done", job[t].res)
       \/ /\ stored[t] # None
          /\ UNCHANGED stored
          /\ Advance(t, "reread", job[t].res)

Reread(t) ==
    /\ job[t].phase = "reread"
    /\ Advance(t, "done", IF stored[t] = None THEN job[t].res ELSE stored[t])
    /\ UNCHANGED stored

\* Mutant: run frees its slot without dispatching.
FinishWithoutDispatch(t) ==
    /\ job[t].phase = "done"
    /\ due' = due \cup Owe(t, job[t].waiters)
    /\ job' = [job EXCEPT ![t] = NoJob]
    /\ running' = [running EXCEPT ![job[t].slot] = @ - 1]
    /\ UNCHANGED <<waiting, closed, stored, asking, replacing, removing>>

\* The end of run: the job leaves the map, its slot is free, and the waiters
\* are taken along for the callbacks made after the mutex is released.
Finish(t) ==
    /\ job[t].phase = "done"
    /\ due' = due \cup Owe(t, job[t].waiters)
    /\ LET j == [job EXCEPT ![t] = NoJob]
           r == [running EXCEPT ![job[t].slot] = @ - 1]
       IN  \/ ~closed /\ DispatchLocked(j, waiting, r)
           \/ closed /\ job' = j /\ running' = r /\ UNCHANGED waiting
    /\ UNCHANGED <<closed, stored, asking, replacing, removing>>

RunStep(t) == Look(t) \/ Import(t) \/ Analyzed(t) \/ Stopped(t) \/ Failed(t)
              \/ Keep(t) \/ Reread(t) \/ Finish(t)

----------------------------------------------------------------------------
(***************************************************************************)
(* Callbacks.                                                              *)
(***************************************************************************)

\* One done callback of a job that has ended, was dropped or was refused.
Answer(d, w) ==
    /\ w \in d.waiters
    /\ due' = (due \ {d}) \cup Owe(d.track, d.waiters \ {w})
    /\ asking' = [asking EXCEPT ![w] = NoTrack]
    /\ UNCHANGED <<job, waiting, running, closed, stored, replacing, removing>>

----------------------------------------------------------------------------
(***************************************************************************)
(* The store's other operations, and shutdown.                             *)
(***************************************************************************)

\* Set stores a deliberate replacement under the store's mutex, and cancels
\* the track's running analysis only afterwards, under the queue's.
Set(t) ==
    /\ t \notin replacing
    /\ stored' = [stored EXCEPT ![t] = Given]
    /\ replacing' = replacing \cup {t}
    /\ UNCHANGED <<job, waiting, running, closed, due, asking, removing>>

CancelReplaced(t) ==
    /\ t \in replacing
    /\ replacing' = replacing \ {t}
    /\ job' = [job EXCEPT ![t].cancelled = @ \/ IsRunning(t)]
    /\ UNCHANGED <<waiting, running, closed, stored, due, asking, removing>>

\* Remove drops the result, then forgets the job.
Remove(t) ==
    /\ t \notin removing
    /\ stored' = [stored EXCEPT ![t] = None]
    /\ removing' = removing \cup {t}
    /\ UNCHANGED <<job, waiting, running, closed, due, asking, replacing>>

Forget(t) ==
    /\ t \in removing
    /\ removing' = removing \ {t}
    /\ \/ /\ job[t].phase = "none"
          /\ UNCHANGED <<job, waiting, due>>
       \/ /\ IsRunning(t)
          /\ job' = [job EXCEPT ![t].cancelled = TRUE]
          /\ UNCHANGED <<waiting, due>>
       \/ /\ IsQueued(t)
          /\ waiting' = [waiting EXCEPT ![job[t].prio] = Without(@, t)]
          /\ job' = [job EXCEPT ![t] = NoJob]
          /\ due' = due \cup Owe(t, job[t].waiters)
    /\ UNCHANGED <<running, closed, stored, asking, replacing>>

\* Invalidate, for a re-analysis the user asked for.
Invalidate(t) ==
    /\ stored[t] # None
    /\ stored' = [stored EXCEPT ![t] = None]
    /\ UNCHANGED <<job, waiting, running, closed, due, asking, replacing, removing>>

\* Mutant: Close empties the queues but leaves their jobs in the map.
CloseKeepsJobs ==
    /\ ~closed
    /\ closed' = TRUE
    /\ waiting' = [p \in Priority |-> <<>>]
    /\ job' = [t \in Tracks |-> [job[t] EXCEPT !.cancelled = @ \/ IsRunning(t)]]
    /\ due' = due \cup UNION {Owe(t, job[t].waiters) :
                                 t \in {u \in Tracks : IsQueued(u)}}
    /\ UNCHANGED <<running, stored, asking, replacing, removing>>

\* Mutant: Close drops the queued jobs without calling their waiters.
CloseSilently ==
    /\ ~closed
    /\ closed' = TRUE
    /\ waiting' = [p \in Priority |-> <<>>]
    /\ job' = [t \in Tracks |->
                  IF IsQueued(t) THEN NoJob
                  ELSE [job[t] EXCEPT !.cancelled = @ \/ IsRunning(t)]]
    /\ UNCHANGED <<running, due, stored, asking, replacing, removing>>

\* Close drops what is queued and cancels what runs.  Its bounded wait for
\* the runs changes nothing here.
Close ==
    /\ ~closed
    /\ closed' = TRUE
    /\ waiting' = [p \in Priority |-> <<>>]
    /\ job' = [t \in Tracks |->
                  IF IsQueued(t) THEN NoJob
                  ELSE [job[t] EXCEPT !.cancelled = @ \/ IsRunning(t)]]
    /\ due' = due \cup UNION {Owe(t, job[t].waiters) :
                                 t \in {u \in Tracks : IsQueued(u)}}
    /\ UNCHANGED <<running, stored, asking, replacing, removing>>

Callers == \E t \in Tracks, ws \in Callback :
    \/ RequestRefused(t, ws)
    \/ \E p \in Priority : Request(t, p, ws)

Editors ==
    \/ \E t \in Replaceable : Set(t) \/ CancelReplaced(t) \/ Invalidate(t)
    \/ \E t \in Deletable : Remove(t) \/ Forget(t)

Callbacks == \E d \in due, w \in Waiters : Answer(d, w)

Next ==
    \/ Callers
    \/ \E t \in Tracks : RunStep(t)
    \/ Callbacks
    \/ Editors
    \/ Close

Spec == Init /\ [][Next]_vars

\* The goroutines the code starts run to their end: an analysis terminates, and
\* every callback owed is made.  Nothing makes callers or editors act.
Fairness ==
    /\ \A t \in Tracks : WF_vars(RunStep(t))
    /\ \A w \in Waiters : WF_vars(\E d \in due : Answer(d, w))

FairSpec == Spec /\ Fairness

----------------------------------------------------------------------------
(***************************************************************************)
(* Safety.                                                                 *)
(***************************************************************************)

\* Where a waiter's callback is held: by a job still in the map, or by a
\* goroutine that is making its callbacks.
InJobs(w) == {t \in Tracks : w \in job[t].waiters}
InDue(w)  == {d \in due : w \in d.waiters}

\* Each outstanding callback is held in exactly one place, for the track it
\* was left with, and no other callback is held at all: "done is called once",
\* whatever Request, Finish, Forget and Close do to the job it joined.
CalledOnce == \A w \in Waiters :
    \/ asking[w] = NoTrack /\ InJobs(w) = {} /\ InDue(w) = {}
    \/ /\ InJobs(w) = {asking[w]} /\ InDue(w) = {}
       /\ job[asking[w]].phase # "none"
    \/ InJobs(w) = {} /\ \E d \in due : InDue(w) = {d} /\ d.track = asking[w]

\* What runs keeps both limits.
WithinLimits ==
    /\ running[Background] + running[Foreground] <= maxRunning
    /\ running[Background] <= maxBackground

\* The counters running equal the number of started jobs, by the priority they
\* started under, and keep the limits: a leaked or doubly freed slot would
\* stop the queue or let three analyses hold 1.5 GB each.
SlotsAccounted ==
    /\ \A p \in Priority :
          running[p] = Cardinality({t \in Tracks : IsRunning(t) /\ job[t].slot = p})
    /\ WithinLimits

\* The queues hold exactly the queued jobs, each once and under its present
\* priority: promotion, Forget and Close keep map and queues in step.
QueuesMatchJobs == \A p \in Priority :
    /\ \A i, j \in DOMAIN waiting[p] : waiting[p][i] = waiting[p][j] => i = j
    /\ {waiting[p][i] : i \in DOMAIN waiting[p]}
          = {t \in Tracks : IsQueued(t) /\ job[t].prio = p}

\* No slot that a queued job may use stays free: whoever frees a slot or adds
\* a job has dispatched before letting go of the mutex.
NoIdleSlot ==
    /\ waiting[Foreground] # <<>> =>
          running[Background] + running[Foreground] = maxRunning
    /\ waiting[Background] # <<>> =>
          \/ running[Background] + running[Foreground] = maxRunning
          \/ running[Background] = maxBackground

----------------------------------------------------------------------------
(***************************************************************************)
(* What a step may never do.                                               *)
(***************************************************************************)

Position(q, t) == CHOOSE i \in DOMAIN q : q[i] = t
InQueue(q, t)  == \E i \in DOMAIN q : q[i] = t

StartedNow(t) == ~IsRunning(t) /\ IsRunning(t)'

Ahead(q, t, u) ==
    InQueue(q, t) /\ (InQueue(q, u) => Position(q, t) < Position(q, u))

\* Jobs of one priority start in the order they were queued in: what waits in
\* a queue is not overtaken by what was behind it, new or promoted.  And a
\* Background job never starts while a Foreground one is left waiting.
NoOvertaking == [][
    /\ \A p \in Priority : \A t, u \in Tracks :
          (t # u /\ Ahead(waiting[p], t, u) /\ InQueue(waiting'[p], t))
          => /\ StartedNow(u) => job'[u].slot # p
             /\ Ahead(waiting'[p], t, u)
    /\ (\E t \in Tracks : StartedNow(t) /\ job'[t].slot = Background)
          => waiting'[Foreground] = <<>> ]_vars

\* A result that fills in a missing one never replaces a result the track
\* gained while the analysis ran: what a run stores, it stores over nothing.
KeepsGiven == [][\A t \in Tracks :
    (stored[t] # None /\ stored'[t] = Made) => stored[t] = Made]_vars

\* After Close no analysis starts and the ones it cancelled stay cancelled,
\* whatever is asked for while they stop.
NothingStartsAfterClose == [][closed =>
    /\ \A t \in Tracks : ~StartedNow(t)
    /\ \A t \in Tracks : (IsRunning(t) /\ IsRunning(t)') => job'[t].cancelled]_vars

\* What the comment at the head of the file says: "background work never takes
\* the last slot, so a waiting request starts at once unless other waiting
\* requests fill both".  It does not hold: dispatchLocked bounds Background
\* work by its own limit only, and starts it in the last free slot while a
\* Foreground analysis holds the other.
BackgroundLeavesASlot == [][\A t \in Tracks :
    (StartedNow(t) /\ job'[t].slot = Background)
      => running'[Background] + running'[Foreground] < maxRunning]_vars

----------------------------------------------------------------------------
(***************************************************************************)
(* Liveness.                                                               *)
(***************************************************************************)

\* A queued Foreground job is not starved, whatever else is asked for.
ForegroundServed == \A t \in Tracks :
    (IsQueued(t) /\ job[t].prio = Foreground) ~> ~(IsQueued(t) /\ job[t].prio = Foreground)

\* Callers and what they wait for are the service's, and Close settles it.
Service == INSTANCE AnswerService
    WITH Callers <- Waiters, Items <- Tracks, Nothing <- NoTrack, settled <- closed

\* The queue is an AnswerService: Request, run, Close and forget answer a caller
\* once and only when it asked, and shutdown leaves no caller waiting.
ImplementsAnswerService == Service!Spec

============================================================================
