# A TLA+ model of vynull

vynull makes a computer appear to DJ decks (CDJs) as a rekordbox library: it
announces itself on the network, answers the decks' menu queries, serves audio
over NFS and supplies the beat grids and waveforms it has computed. Its web UI is
a page served to any browser on the network. The modules here specify the parts
of that program whose correctness depends on the order of events: which goroutine
gets a lock first, what is written before a crash, what a result is compared with
while an analysis runs, which answer reaches the page last. TLC checks them on small
instances; TLAPS proves the main results for every value of the constants.

Contents: [inventory](#inventory), [plan](#plan), [modules](#modules),
[runs](#runs), [fairness](#fairness), [proofs](#proofs),
[findings](#findings), [what is not modelled](#what-is-not-modelled).

## Inventory

The state each part keeps, what changes it, and what has to be right about it.
`PROJECT.json` lists the same parts with their source files, and under
`hazards` the lines where something can go wrong that a test would hardly reach.

**Analysis queue** (`analysis/queue.go`). State: jobs by track, two waiting
lists (Foreground, Background), a count of running jobs by priority, `closed`.
Operations: `Request` and `Analyze` (decks, HTTP handlers, the thumbnail list),
`run` (a goroutine per started job), `cancel` (from `Set`), `forget` (from
`Remove`), `Close`. One mutex; analyses, callbacks and the store interleave with
it. Hard: a request joining a job that is being promoted, finished, forgotten or
closed. Correct when each callback is called once, slots are neither leaked nor
left idle, nothing starts after `Close`, and an analysis never replaces a result
the user gave the track while it ran.

**Analysis store, LRU and cache files** (`analysis/analysis.go`, `lru.go`).
State: results in memory under a byte budget, a file per audio path, a grid
"carried" from a stale file, the BPM range. Operations: `Get`, `LoadStale`,
`Set`, `SetIfAbsent`, `Invalidate`, `InvalidateAll`, `Remove`, `SetPath`,
`RenameCachedPath`; called by the queue and by the HTTP handlers that adjust,
lock, import or redo an analysis. Files are read, written and removed outside
the mutex. Hard: eviction and reload, a new `cacheVersion`, a changed range, a
crash between the two halves of a `Set`. Correct when what the user imported or
edited is what is served, and is on disk.

**Background saver** (`internal/saver`, `internal/fsutil`). State: an atomic
change count, the count last saved, a one-element kick channel, a mutex around
the write. Operations: `Mark`, `Flush`, `run`, `Close`. The library and the
cue, tag, playlist and menu stores all save through it. Hard: a change during a
write, a failed write, `Close` before or during the first `Mark`. Correct when
no marked change is taken for saved, the file only moves forward, and `Close`
returns with everything marked on disk.

**Link gate and sessions** (`device/device.go` `SetLinked`, `dbserver/server.go`
accept loops and `Unlink`, `nfs/server.go`). State: the linked flag, the open
connections. Hard: a deck accepted between the teardown and the closing of the
gate. Correct when no session outlives an UNLINK.

**Device** (`device/`: claim, keep-alives, status, peers, settings, monitor).
State: device number, peers by last sight, each deck's playing state and play
count. Timer- and packet-driven. Correct when a play is counted once and each
peer expires.

**dbserver menus** (`dbserver/handler.go`, `drilldown.go`, `recentlists.go` ...).
State per connection: the rows of the last query, waiting to be rendered. Correct
when a render returns rows of the query it follows.

**Cue store** (`dbserver/cuepoints.go`). State: cues and raw blobs by track,
the dirty set. Saves through Saver, several files per track. Hard: choosing a
free number and saving in two steps; a write failing halfway; the order of
`Close` calls at shutdown.

**NFS server and transcoder** (`nfs/server.go`, `transcode.go`). State: open
files, shared conversions with their waiting readers, predicted sizes, a byte
budget. Hard: readers waiting for bytes of a conversion that ends early, fails
or is evicted. Correct when every reader wakes and the file has one size.

**Media database fetcher and NFS client** (`mediadb/`, `nfs/client.go`). State:
databases by player and slot with their time, downloads in flight, artwork and
analyses fetched from them. Hard: media swapped during a download.

**Library** (`library/`). State: tracks, playlists, a revision count; saved by
Saver. **Smart playlist cache** (`api/smart_cache.go`): the matches of a
revision, computed outside the lock.

**Playlist, tag and menu stores** (`api/*store.go`): maps under one lock, saved
by Saver. The playlist store alone has a shape to keep: the folders are a tree.
**HTTP API** (`api/`): handlers over the above; no state of their own besides the
event stream.

**Web UI** (`api/web/js`). One JavaScript thread in each browser, so a handler is
atomic up to its next `await`; every request is answered at a moment of its own,
in any order, or fails. What the page holds lives in global variables that each
handler finds as the others left them. Three parts of it keep state long enough to
be wrong:

- *Library page* (`poll.js`, `library.js`, `filter.js`, edits in `drawer.js`).
  State: the list shown, the revision it is taken to have, the list last compared,
  a buffer of edits that override fetched lists for a while. Operations: the poll
  (once a second, overlapping), colours, ratings and tags of one or many tracks,
  deletion, adding. Hard: a list fetched before an edit and applied after it, two
  polls that end in the other order, a revision that could not be read. Correct
  when a page at the server's revision shows the server's list, and an accepted
  edit does not flicker away.
- *Track drawer* (`drawer.js`, `audio.js`, `cue-overlays.js`, `waveforms.js`).
  State: the selected track, what the body was drawn from, the tags shown and
  whether they were loaded, the waveform pane and its track, the audio's track,
  a cache of waveforms and the fetches under way. Operations: opening, closing,
  edits of tags, cues, grid, path and fields, PLAY, the colour mode. Hard: several
  openings under way, a mode changed between a request and its answer, an edit
  that is answered when another track is open. Correct when what is shown is of
  the selected track, and no failed load is taken for an empty set.
- *Playlists page* (`tags-playlists.js`, `smart-playlists.js`, `export.js`).
  State: a copy of the playlists, the selected one and its rows, what was last
  drawn of both, checked rows, a dialog, the smart editor. Never polled: read again
  after each change of its own. Hard: everything is a chain of requests, and what
  a link finds was left by others. Correct when a dialog acts on what it named, the
  folders stay a tree, an editor saves its own rules.

**History playlist** (`main.go`): a playlist read, extended and written back when
a deck starts a track.

**Stateless parts**: audio analysis (`analysis/` DSP), `dsp`, `link/prolink`,
`pdb`, `export`, `proto`, `related`, importers, tools.

Interactions that matter: decks and handlers call *queue* -> *store* -> cache
files; an edit (*API*) calls `Set`, which cancels in *queue*; *queue*'s
`OnAnalyzed` writes tempo and key back to the *library*; every mutable store calls
*saver*; the pages read and change the *library* and the stores by request, and
learn of other clients' changes by the library's revision or not at all;
`SetLinked` tears down *dbserver* and *NFS* sessions; `main` closes all of them in
reverse order.

## Plan

The order puts first what loses a user's work or hangs a deck.

1. `AnalysisQueue`, with `AnswerService` as its abstraction. **Done, proved.**
2. `Saver`, with `DurableCell` as its abstraction. **Done, proved.**
3. `AnalysisStore`: LRU, files, staleness, locks, edits. **Done, proved.**
4. The web UI. `WebLibrary` (the page against the server's revisions), `WebWaveforms`
   and on top of it `WebDrawer`; `PlaylistStore` and on top of it `WebPlaylists`.
   **Done, proved.**
5. `AnalysisWriteBack`: queue, `Set` and the library row that must show the
   tempo the decks play (`library/analysis.go:14-21`), which `run` and the
   handlers write without a common lock.
6. `LinkSession`: `SetLinked`, the accept loops, registration, `Unlink`. Abstract:
   a gate behind which no session lives. Two connections, two link changes.
7. `Transcoder`: a conversion of three blocks, two readers, two files, a budget of
   one. Every reader is answered; the size never changes once told.
8. `MediaFetcher`: one slot, two media, artwork and database downloads. Nothing
   cached for one medium is served for another.
9. `CueStore`, composed with `Saver`: per-track files, failing writes, `Close` order.
10. `SmartCache` with the library's revisions; the player monitor and the history
   playlist; NFS client retries; dbserver query and render; the settings form, whose
   every change posts the whole configuration as last read.

Every invariant and action property that a run checks is proved, too. Theorems still
worth proving are about what is planned: the safety of `LinkSession`, `Transcoder` and
`MediaFetcher`.

## Modules

| Module | What it is |
| --- | --- |
| `AnalysisQueue` | the queue, with the part of the store it reads and fills |
| `AnswerService` | what `Request` promises a caller |
| `AnalysisQueueProofs` | theorems about `AnalysisQueue`: callbacks, slots, limits |
| `AnalysisQueueOrderProofs` | theorems about its waiting lists: what they hold, and in which order |
| `Saver` | `Mark`, `Flush`, `run`, `Close`, crashes, failing writes |
| `DurableCell` | what a store that saves in the background promises |
| `SaverProofs` | theorems about `Saver` |
| `AnalysisStore` | results in memory and on disk, and the handlers that change them |
| `AnalysisStoreProofs` | theorems about `AnalysisStore` |
| `Lists` | lists that hold an element at most once |
| `ListProofs` | lemmas about them, and induction on numbers and on finite sets |
| `WebLibrary` | the library page: polls, revisions, edits and their overrides, other clients |
| `WebLibraryProofs` | theorems about `WebLibrary` |
| `WebWaveforms` | the page's waveform cache, the fetches under way, the colour mode |
| `WebDrawer` | the track drawer, over `WebWaveforms` |
| `WebDrawerProofs` | theorems about `WebDrawer` |
| `PlaylistStore` | the server's playlists: what may hold what, and what each call makes of them |
| `WebPlaylists` | the playlists page, over `PlaylistStore` |
| `WebPlaylistsProofs` | theorems about `PlaylistStore` and `WebPlaylists` |
| `MC...` | TLC instances; they add symmetry sets and a start |

Operators whose comment starts with *Mutant* are plausible bugs of the definition
that follows them. No specification uses them; putting one in the place of that
definition breaks the property that `mutants` in `PROJECT.json` names.

### AnalysisQueue

`job` is `q.jobs`: an entry is absent (`none`), `queued`, or in one of the phases
of its goroutine. `waiting` and `running` are the queue's fields. Whatever the
code does under `q.mu` is one action: `Request` with its three cases (no job, a
queued job to promote, a job to join), `Finish` (the end of `run`), `Forget`,
`CancelReplaced` (`cancel`) and `Close`. Each ends with `DispatchLocked` where the
code calls `dispatchLocked`; its loop is written as the number of jobs it takes
from the head of each list. Between them `run` goes step by step: look in the
store (`Look`), import or analyze (`Import`, `Analyzed`, `Stopped`, `Failed`),
store the result (`Keep`, and `Reread` for the second look `keepCurrent` makes
under a lock of its own).

Callbacks are made after the mutex is released: `due` holds, for every goroutine
that owes some, whom it still has to call. `asking` records which waiters have
left a callback; a waiter leaves one at a time, as `Analyze` does. `Set` and
`Remove` each touch the store first and the queue afterwards, under different
mutexes, so each is two actions.

### Saver

The store's content is the number of changes made to it. A mutator changes the
store and then runs `Mark`, whose three statements (count, start the goroutine,
kick) are three actions. `Flush` is lock-and-load, snapshot, write; the same
actions serve the background goroutine, `Close` and direct callers, each with its
own `gen` and snapshot, so that the mutex is what keeps them in order. A write
replaces the file or fails and leaves it. `Crash` ends the process anywhere and
starts the next from the file. The interval the goroutine waits for a burst to
settle is the possibility of doing nothing in `settling`. Three history variables
(`failing`, `atClose`, `closeErr`) serve only properties.

### AnalysisStore

A result is its grid (a number: 0 for a detected one, others for imports and
edits) and the fields that decide staleness: cache version, BPM range, whether it
is imported or edited. `fits` is a history field: whether the tempo was found under
that range. `results`, `order`, `sizes` and `bytes` are the store's maps and the LRU;
`putLocked` includes the eviction loop. A client's `op` is the step its call has
reached outside the mutex: reading the file (`load`), rescuing an edited grid
(`stash`), removing a stale file (`discard`), putting what was read (`put`),
cancelling the track's job and writing (`cancel`, `save`), removing (`unlink`),
analyzing (`fit`, `stamp`, `fill`), or holding a result it copied or has to make
(`edit`, `waveform`, `grid`, `full`, and `regrid` or `refull` once the tempo is found).
Every analysis finds the tempo in one step and records the range in a later one.
Locks, the range, restarts and upgrades are actions of the surroundings.

A deliberate `Set` (an import, an edit, a re-analysis) goes through `Cancel`, which
marks the track's running job `stopped`: such a job does not start or go on
(`NextAfterMiss`, `Fit`, `Stamp`) and its result is discarded, unless it has looked at
its context for the last time. `SetIfAbsent` cancels nobody. For a track in
`Importable` the queue's Importer has something to fill in, which looks at no context
(`NextAfterMiss`). A re-analysis of a part that finds no result is a full one
(`TakeNothing`, `Refit`, `RedoFull`), and stores with `Set` as well.

`chosen` is the last import or edit still in force for a track. Some sequences
lose it, and nothing in the repository promises otherwise; `excused` collects
those tracks until their next import or edit, and the two safety properties speak
of the rest:

- two clients are at the track's file at once (`Contended`);
- writing the file failed (`Save`): it is logged, and the result lives in memory only;
- an analysis, or the Importer's fill, stores its result although the track was given
  one meanwhile that was dropped from memory again (`Fill`; this is the finding of `store_fill`);
- a re-analysis stores, over a grid that came since, the one it took
  (`RedoWaveform`), or the one it detected because there was none (`RedoFull`).

Each is a hazard with its line in `PROJECT.json`. An excuse is as narrow as the
state allows: a mutant that stores a result with `Set` instead of `SetIfAbsent`
is caught in spite of them.

### WebLibrary

`allTracks`, `lastTracksRev`, `lastTracksKey`, `pollCount` and `pending`
(`pendingTrackEdits`) are the page's; `server`, `rev` and `unborn` the server's. A
poll is a record that goes through the stages of `refresh`: it has read the
revision (`rev`), waits for the cues, if they changed or it is a forced poll (`cues`),
waits for the list it asked for (`asked`), has it (`list`). The poll is counted when
the revision is in, and the revision compared with the page's once the cues are, which
is when another poll may have moved it. The revision is read when the poll starts. A read that comes later is the same as a
poll that starts later, since the timer starts one whenever it likes. `GotList` is
the whole rest of `refresh`: the revision kept, the overrides settled and laid
over, the list compared and shown. A request's `row` says how its answer finds the
rows to patch: by ID in the list shown (`lookup`), in the row object it held since
it was sent, which a poll may have replaced (`held`, then `lost`), or not at all.
`Serve` is the server's handler; `Fail` loses the request or its answer, after the
server acted or before. `version`, `blind` and `touched` serve only properties.

### WebWaveforms and WebDrawer

`WebWaveforms` has the cache and the fetches by key. A key is a kind of data and a
track; in 3band mode a track without such data falls back to the spectral ones, so
that one answer may end two fetches (`Resolved`). Its operators `FetchOK`,
`FetchFails` and `FallBack` are parts of the steps of `WebDrawer`, which deliver
what came to those who wait for it: openings (`opens`), which hold everything
`openDetail` awaits, and drawings (`draws`), the callbacks of `whenDetailWave`.

A track's data are left out, since any answer is possible; what is kept is whose
they are. So the body is a record of the tracks its parts belong to: what it was
drawn from, its heading, its grid editor (`wireBeatGridEditor` wires it again, for
the track an edit was made of), its related tracks. `detailWave` has the pane's
track and the track its wave is of, since a late wave sets only the second.
`tagsFrom` is history: the track whose load the tags shown come from. `Edit` asks
for a change of the track the code takes, which is another variable for each kind
of edit, and the `Got...` actions are what each handler does with the answer.

### PlaylistStore and WebPlaylists

`PlaylistStore` has the operators of `playliststore.go`: for a move, a new entry, a
deletion and an edit of the tracks, when it is allowed and what it makes of the tree.
`WebPlaylists` has the page and the server's tree. A chain of requests is one slot of
`requests`, whose record says which link is under way and what the handler kept since
the click: the ID it named, the rows to write, what to do next, and what the handler
does at the chain's end (`after`: unchecking the rows that it took out, drawing the
picker again). `Serve` answers a request, and a `Got...` action receives the answer;
`Refused` is the page told of a failure, after which the reads of tracks and banks go
on, and a list that did not come ends the loading but not the handler that asked for
it. The picker's dialog keeps the marks of its last drawing (`added`): it is drawn when
it opens, when the filter is typed in, and after a pick. A dialog keeps what it named when it opened, so that a property can compare it with what is acted on when it
is answered. `drafts` holds every state the smart editor was given, because a SAVE
under way still holds the one it began with. The start is a constant, a page that has
loaded it and selected one of its entries or none.

## Runs

| Run | Instance | What it shows |
| --- | --- | --- |
| `queue` | 3 tracks, 2 callers, 2 slots, 1 for Background, one removable track | no callback is lost or doubled (`CalledOnce`), counters are exact, queues and jobs agree, no slot idles, order is kept, nothing starts after `Close` |
| `queue_live` | 3 tracks, 1 caller, 1 slot, one track that is edited and invalidated | an analysis keeps what was given meanwhile; Foreground requests are served; `AnalysisQueue` implements `AnswerService` |
| `saver` | 2 mutators, 1 direct caller of `Flush`, 3 changes | every property of `Saver`, including the refinement of `DurableCell` |
| `store` | 1 client, 2 tracks, one lockable and importable, a budget of 2 | LRU bookkeeping; imports and edits survive eviction, upgrades, range changes, locks, restarts |
| `store_races` | 2 clients, 1 importable track, 2 imports or edits | the same under every interleaving but the excused ones |
| `web_library` | 1 track of 2 values, 2 polls and 1 request under way, 2 changes or failures, every second poll forced | a page at the server's revision shows its list, a saved colour stays, and in the end the page is fresh |
| `web_drawer` | 2 tracks, 1 without 3-band data, 1 tag, 2 openings and 1 edit under way, 4 user actions or failures | what the drawer shows is of the selected track; tags are never wiped; pane and wave fit track and mode; what is opened is drawn |
| `web_playlists` | 2 folders, a list, a smart playlist, a bank and 2 tracks at the start, 2 chains under way, 2 actions, 2 editors | dialogs act on what they named, folders stay a tree, editors save and preview their own rules, no track twice |
| `queue_last_slot`, `store_fill`, `store_range`, `web_drawer_tags` | the smallest instance that shows it | the [findings](#findings) |

Why the bounds are enough:

- *Queue.* Two slots and three tracks make a full queue with a waiting job; two
  callers make a shared job and a promotion by the second one. Jobs are never
  compared by anything but identity and priority, so a fourth track repeats the
  third's part. One slot is the tightest case for liveness. Symmetry (callers;
  tracks that are never edited or removed) is used in `queue` only, which has no
  liveness property.
- *Saver.* Three changes: one in the file, one in a snapshot under way, one not yet
  counted. Two mutators make two overlapping Marks; the three callers of `Flush`
  (direct, goroutine, `Close`) contend for the mutex. The proofs remove the bound.
- *Store.* A budget of two units with imports of size two makes an import evict
  everything else and two detected results fit exactly. One lock, two eras and two
  ranges are each a single change of setting, which is what decides staleness.
  `MaxMade` bounds imports and edits: one is enough to be lost, two let one
  replace another. The constraint `StillClaimed` of `store_races` cuts off the states in
  which every track is excused and no import or edit is left to end that: both its
  properties are true there of anything.
- *Library page.* Rows are only ever compared field by field, so one track with two
  values has every difference a longer list has, except that bulk edits take several
  at once; the proofs have any number. Two polls are an overtaking. Two changes are
  an edit of the page and one of another client, or an edit and its failure. Forcing
  every second poll makes both kinds of poll frequent.
- *Drawer.* Two openings of one track or of two, each in either mode, and a drawing
  left over from before are the cases in which a wave comes to the wrong one. Four
  actions are a click, a change of mode, another click and an edit or a failure.
  The proofs remove the bound.
- *Playlists.* Two folders are the least that can be moved under each other; two
  chains the least that can overtake. Two actions suffice, because each is a
  chain of up to four requests, between which the other's handlers, other clients
  and failures come; the start and what is selected in it stand for what went before.
  `MaxID` leaves room for one new entry.

Deadlock is checked in the runs of the queue, the saver and the store, and does not
occur: someone can always ask again, and a crash or a restart is always possible.
The runs of the web UI do not check it: a page on which the user has done all that
the bound allows, and on which everything was answered, has nothing left to do.

## Fairness

`AnalysisQueue`: weak fairness on each job's goroutine (`RunStep`) and on the
making of owed callbacks. The code starts both with `go` or runs them to the end
of a function, an analysis is a finite computation, and no step of theirs waits
for a caller. Nothing is assumed of callers, editors or `Close`. `ForegroundServed`
therefore says that the code alone serves a request. A Background request has no
such property: Foreground ones may keep it waiting, by design.

`Saver`: weak fairness on the steps of a `Mark`, of `run` and of `Close` once they
are under way; strong fairness on `Flush` for each caller, because Go's
`sync.Mutex` hands itself to the longest waiter after a millisecond and so starves
nobody. Nothing is assumed of mutators, direct callers, or crashes. `EventuallySaved`
is conditional on the process not crashing for ever after, and excludes a store whose
last write failed with nothing marked since (the code retries at the next change)
and one that is being closed.

`AnswerService` asks for an answer only once the service is settled. Before `Close`
a caller of a Background job may wait for ever, and a caller that asks again and
again is no obligation of its own.

`WebLibrary`: the timer (the tab is in view; a hidden tab starts no poll), each step
of the polls under way, the server and the answers, and that an override expires
after its three seconds. `EventuallyFresh` asks nothing of the user or of other
clients; it holds because one poll in ForceEvery fetches whatever the revision says,
and would not without.

`WebDrawer`: that fetches and openings are answered. `OpenedIsDrawn` excludes a
drawer closed meanwhile. Failed fetches count as answers.

`AnalysisStore` and `WebPlaylists` have no liveness property. The playlists page has
none to state: nothing reads the playlists again until the user changes something.

## Proofs

Assumptions on the constants: the tracks are a finite set that holds the replaceable
and deletable ones, `maxRunning` is positive and `maxBackground` at most that, and
"no track" is not a track (`AnalysisQueue`); mutators are finite in number and no
one plays two parts (`Saver`); the tracks are finitely many, at least one, and hold the
lockable and the importable ones, and the budget and the bound on edits are natural numbers
(`AnalysisStore`); the table the server starts with is one it may keep: a tree, with
lists that hold a track once and smart playlists that have rules of their own
(`WebPlaylists`); those of the other pages are named below. TLC evaluates them in the runs.

*AnalysisQueue.* The inductive invariant is `QInv`: types, both limits, no idle slot,
and `ClosedIsQuiet` (once closed, the waiting lists are empty and no job is queued,
and what runs is cancelled). `NoIdleSlot` is not inductive without the limits, since
dispatching counts the free slots, and closing needs `ClosedIsQuiet`, since `Finish`
no longer dispatches then. Lemma `Dispatch` carries the argument: from any queues and
counters within the limits, `DispatchLocked` re-establishes them. On top of it:

- `TypeCorrect`, `LimitsKept`, `NoSlotIdle`;
- `NothingStartsOnceClosed` and `GivenIsKept`, action properties;
- `CallbacksCalledOnce`: each step is one of four moves on callbacks (one joins a
  job, some jobs hand theirs over to a goroutine, a goroutine makes one, a refusal
  creates one), and each move keeps "held in exactly one place";
- `AnswersOnlyWhoAsked`: the safety half of the refinement of `AnswerService`.

What the waiting lists hold needs an invariant of its own (`InStep`): each list holds the
queued jobs of its priority, and each of them once; each counter is the number of the
started jobs of its priority. It is not inductive without "once", since `forget` takes one
entry out and the job is gone. From it `QueuesHoldTheQueued` and `SlotsAreCounted`, and
`StartsInOrder`, since dispatching takes a prefix of each list and the other steps keep
the order of those that stay.
The lemmas about lists without duplicates (`ListProofs`) serve the other proofs as well:
what taking out an entry, cutting a list off or joining two of them leaves, and that
the length of such a list is the number of its elements.

*Saver.* The store holds what the file held at load, what `dirty` counts, and one
change for each mutator that has not counted yet (`Counted`). `Flush` loads `dirty`
before it takes the snapshot, so the snapshot holds at least what its generation
counts (`SnapshotCovers`), and the mutex keeps everybody else away (`HolderWrites`).
`FileBetween` and `ClosePhases` follow the file and `Close`. From their conjunction
`IInv`: `SavedIsAlwaysInFile`, `CleanIsAlwaysSaved`, `CloseAlwaysKeepsMarked`, the
refinement `SaverIsDurableCell`, and, with a second small invariant on the
goroutine's life, `QuietOnceClosed`.

*AnalysisStore.* `StoredIsServed` and `ChosenIsInFile` say where a track's chosen grid
is; a client between two steps may hold the only good copy, or be about to destroy one.
The invariant `StoreInv` says of each track that is not excused (`Kept`) that a result in
memory has the grid in force, that the file carries it in a form that survives being read
back (`Carries`) unless a client is about to write it, and that what each client is about
to do keeps it (`Harmless`): it stores a result that carries the grid, or is analyzing
again, or filling in what the Importer has, and will take the grid from `gridCarry`. It is proved action by action, for any
number of clients. From it `ChosenIsServed` and `ChosenSurvivesCrash`.

`LRUMatches` is about the total of the sizes on record, a sum over the tracks. One
lemma gives what the rest needs: a sum over a set with one more element is larger by
that element's size (`SizesAdd`), by induction on finite sets. Eviction drops the tail of
the list of use, so its total is that of the front (`EvictionAccounts`), and
putting, touching and dropping a result follow. `LRUInv` adds to the property the types of
the list; from both invariants `CacheCountsItsResults` and `StoreTypeCorrect`.

*WebDrawer.* Waiting for something that may come late is made safe in the code by two
comparisons: a handler goes on only if the track is still the selected one, and only
if the mode is what it was. Half of the invariant (`Held`) is the first: selecting
another track empties the body in the same step, so what was set while a track was
shown stays that track's. The other half (`Fit`) is the second: `WaveMatchesStyle` is
inductive only with `WavesFit`, which says that everyone who waits for data waits
under the key of its track and mode (`KeyFits`), and that what an opening has got is
of that key, unless a fetch was lost (`DataFit`), so whichever of several answers
comes is the right one. From `IInv`, the conjunction of all these:
`ShownIsAlwaysSelected`, `TagsAreNeverWiped`, `PaneIsAlwaysOfShown`,
`WaveAlwaysMatchesStyle`.

*WebLibrary.* A poll reads the revision before it asks for the list, so its list is no
older than that revision, and a list of the server's present revision is the server's
(`PollsFit`); the revision kept is therefore no newer than the list it came with
(`RevisionsFit`), unless that list was fetched without one. `ShownFits` says that the
list applied last, when the server has not moved since, is the server's but for the
fields the page changed in it. These give `PageIsCaughtUp`. `PendingColourIsShown` needs
besides that the answer to a colour finds its rows by ID when it comes (`ColoursLookUp`):
a rating holds the row object instead, and for ratings the same is false.

*WebPlaylists.* `FoldersFormATree` speaks of walks up the parents, as `isDescendant` in
the code does. What steps carry through is another form of it (`Grounded`): no set of
entries holds the parents of all its members. `TreeReaches` and `ReachedIsGrounded` show
that the two are the same for a finite table, the first by counting the entries whose walk
ends within k steps. A move keeps it because the entries of such a set would be on the
walk from the new parent, which `CanMove` has seen end at the root without meeting the
moved entry (`MovedIsTree`); a deletion because it takes every entry whose walk meets
the deleted one (`DeletedIsTree`).

The invariant `PagesInv` has four parts: the server's table (`Served`), the smart
editor (`Drafted`), the page (`Paged`) and the requests (`Pending`). The last makes it
inductive. It says of each request what the handler that sent it saw to (`Asked`):
that rules are sent for the playlist their editor was opened for, that a confirmation
carries the ID its dialog named or none, that rows to be written hold a track once. The
editor that sent a request may be closed by then, so its states are kept (`drafts`), and
`DraftsStay` says that they never change owner. A dialog covers the page, so while one
that renames or deletes is open only answers change the selection, and those only to
nothing (`DialogHolds`). From it `PagesTypeCorrect`, `ConfirmsWhatItNamed`,
`FoldersStayATree`, `RulesAreTheirOwn`, `PreviewFollowsRules` and `TracksStayOnce`.

Assumptions on the constants of the pages: the flat tracks are tracks, and "no track" and
the drawer's other states are not (`WebWaveforms`, `WebDrawer`); Blank is a value and
ForceEvery positive (`WebLibrary`); the tracks are finitely many, "no track" and "none"
are neither a track nor an ID, and the collection, the banks and the playlists are
different things (`PlaylistStore`, `WebPlaylists`); the bounds are natural numbers.

Only model-checked: all liveness (`ForegroundServed`, the fairness half of
`ImplementsAnswerService`, `EventuallySaved`, `CloseReturns`, `EventuallyFresh`,
`OpenedIsDrawn`), which is out of the prover's reach, as is `ENABLED`. Where an argument
is by induction, it is made inside a proof, on the set of numbers or of subsets for which
the statement holds, or on a recursive function's own equation (`UpClimbs`,
`KeepsExists`); the four runs that expect a violation are counterexamples.

## Findings

- `queue_last_slot`. The head of `queue.go` says that background work never takes
  the last slot. It does: `dispatchLocked` limits Background work by its own count,
  so with one Foreground analysis running it starts a Background one beside it, and
  the next Foreground request has to wait.
- `store_fill`. `SetIfAbsent` is documented to keep a result stored while an analysis
  ran. It looks in memory only, so a result that has been saved and dropped from memory
  since (a range change, an eviction) does not count, and the analysis overwrites its
  file. In most of its run an analysis is safe from this, because storing a result
  with `Set` cancels it, and what a cancelled one found is discarded. What is left is a
  result stored after the analysis looked at its context for the last time, or
  just before, since `Set` cancels only after it has released the mutex. The fills
  by an Importer or `TryImport` look at no context at all; the property leaves them out.
- `store_range`. An analysis reads the BPM range when it fits the tempo and reads it
  again when it records under which range it did. A change between the two leaves a
  result that is never taken for stale. A re-analysis of the grid does the same.
- `web_drawer_tags`. `drawer.js` says that a tag edit, which writes the whole set,
  waits for a successful load. `openDetail` selects the new track without resetting
  the tags or the note that they were loaded, so in a picker that opens while the new
  track loads, an edit writes the previous track's tags to it.

The models also show behaviours that no text of the repository speaks against, so
that they are no findings. They are in the hazards of `PROJECT.json`:

- The waveform pane keeps the previous track while a new one has no waveform yet; PLAY
  and cue edits then act on the track of the pane (`PaneIsOfShown` speaks of a body
  drawn with its waveform).
- The answers to a changed path or field act on the drawer although the user has moved
  on. Analyzing again drops the spectral wave from the cache but not the 3-band one.
- A row's × or drag in the playlists page writes the rows of the playlist that was
  loaded last over the one selected now, when it is used before the new rows come.
- A list fetched when the revision could not be read may be older than the revision the
  page keeps (`blind`), until the next forced poll.
- A rating's answer patches a row object that a poll has replaced meanwhile; the
  next list shows it.

## What is not modelled

- Whatever has no state that outlives a call: DSP, the encoders, parsers, PDB export,
  menu rendering. TLC has nothing to interleave there.
- Within the modelled parts: `OnAnalyzed` (planned as `AnalysisWriteBack`), the waits
  of `Analyze` and `Close` on contexts and timers (they change no queue state),
  `Remove`, `SetPath` and `RenameCachedPath` in `AnalysisStore` (each track has one
  path there; `AnalysisQueue` has `Remove`), the grid offset, and unreadable files.
  `AnalysisQueue` uses a store without a cache folder, which never evicts;
  `AnalysisStore` has the folder, and of the queue only that it runs one analysis
  of a track at a time.
- Wall-clock behaviour: peer expiry, keep-alive intervals, the claim sequence.
- What a power loss does to an unsynced rename: a file is taken to be replaced as a
  whole or not at all.
- Of the web UI, what only draws: rows, columns, sorting, filtering, zoom, playback
  positions, the diagnosis page, forms. A chain that reads and then shows, with nothing
  kept in between, has no order to get wrong. Of the playlists page also the tags tab,
  the kinds of rules and their forms, and what an export writes.
- What a track's data say. `WebDrawer` keeps whose they are, `WebLibrary` three fields.
- The parts the plan lists as not done.
