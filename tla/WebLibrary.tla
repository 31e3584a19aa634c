----------------------------- MODULE WebLibrary -----------------------------
(***************************************************************************)
(* The library page of the web UI (src/api/web/js: poll.js, library.js,    *)
(* filter.js and the edits of drawer.js): the track list the page shows,   *)
(* the poll that keeps it up to date, and the edits the page makes of it.  *)
(*                                                                         *)
(* The page is one JavaScript thread, but every request it sends is        *)
(* answered later, and polls overlap: the timer starts one a second        *)
(* whether or not the last has ended.  A poll reads the list's revision,   *)
(* and fetches the list only when the revision moved, or once in ForceEvery*)
(* polls.  A colour or a rating is patched into the shown list when its    *)
(* answer comes, and kept in a buffer that overrides the fields of the     *)
(* lists fetched until the server is seen to agree or the entry expires.   *)
(* Tags are patched in before the request is sent.                         *)
(*                                                                         *)
(* What is drawn (rows, cards, columns, stars) follows allTracks and is    *)
(* left out; playlists are in WebPlaylists, the drawer in WebDrawer.       *)
(***************************************************************************)
EXTENDS Integers, FiniteSets

CONSTANTS
    Tracks,      \* track IDs
    Values,      \* values a field of a track takes; Blank is one of them
    Blank,       \* no colour, no stars, no tags
    ForceEvery,  \* one poll in this many fetches the list in any case
    MaxPolls,    \* bound: polls under way
    MaxRequests, \* bound: requests to change something under way
    MaxEvents    \* bound: changes tried, by the page and by others, and requests
                 \* that fail

Fields == {"color_id", "rating", "tags"}

ASSUME WebLibraryAssumption ==
    /\ Blank \in Values
    /\ ForceEvery \in Nat \ {0}
    /\ MaxPolls \in Nat
    /\ MaxRequests \in Nat
    /\ MaxEvents \in Nat

NoRev == -1  \* lastTracksRev before the first list, and a revision not got

VARIABLES
    server,          \* the rows of the server's library
    rev,             \* its revision
    unborn,          \* tracks it does not hold yet
    allTracks,       \* the list the page shows
    lastTracksRev,   \* the revision the page takes that list to have
    lastTracksKey,   \* the list, as last compared
    pending,         \* pendingTrackEdits: the edit that overrides each track
    pollCount,       \* polls so far, modulo ForceEvery
    polls,           \* the polls under way
    requests,        \* the changes asked for and not yet answered
    events,          \* changes tried and failures so far
    version,         \* history: the revision the server had when it answered
                     \* with the list taken last
    blind,           \* history: that list was fetched without a revision
    touched          \* history: the fields the page changed itself in that list

pageVars == <<allTracks, lastTracksRev, lastTracksKey, pending, pollCount>>
histVars == <<version, blind, touched>>
vars == <<server, rev, unborn, pageVars, polls, requests, events,
          histVars>>

Row == [Fields -> Values]
List == UNION {[S -> Row] : S \in SUBSET Tracks}

\* A poll waits for the revision (it has been read, and is on its way), then
\* for the cues, unless they did not change, then for the list, unless it asks
\* for none, and then has the list to apply.  forced: it is one of those that
\* fetch the list in any case.  asOf is the revision the server had when it
\* answered with the list.
Poll == [slot: 1 .. MaxPolls, stage: {"rev", "cues", "asked", "list"},
         rev: Nat \cup {NoRev}, forced: BOOLEAN,
         list: List, asOf: Nat \cup {NoRev}]

\* A request changes one field of some tracks, or deletes them.  row says how
\* the answer finds the row it patches: by its ID ("lookup"), through the
\* object found when the request was sent, still shown ("held") or replaced
\* since ("lost"), or not at all ("none").
Request == [id: Nat, what: Fields \cup {"delete"}, ids: SUBSET Tracks, value: Values,
            row: {"lookup", "held", "lost", "none"},
            answer: {"none", "ok", "failed"}]

\* The types, of which one part matters: an override is of a colour or a
\* rating only, never of tags.
TypeOK ==
    /\ server \in List
    /\ rev \in Nat
    /\ unborn \subseteq Tracks
    /\ allTracks \in List
    /\ lastTracksRev \in Nat \cup {NoRev}
    /\ lastTracksKey \in List
    /\ pending \in [Tracks -> [field: {"none", "color_id", "rating"},
                               value: Values]]
    /\ pollCount \in 0 .. ForceEvery - 1
    /\ polls \subseteq Poll
    /\ requests \subseteq Request
    /\ events \in Nat
    /\ version \in Nat \cup {NoRev}
    /\ blind \in BOOLEAN
    /\ touched \subseteq Tracks \X Fields

NoEdit == [field |-> "none", value |-> Blank]
NoList == [t \in {} |-> [f \in Fields |-> Blank]]
BlankRow == [f \in Fields |-> Blank]

Init ==
    /\ unborn \in SUBSET Tracks
    /\ server = [t \in Tracks \ unborn |-> BlankRow]
    /\ rev = 0
    /\ allTracks = NoList
    /\ lastTracksRev = NoRev
    /\ lastTracksKey = NoList
    /\ pending = [t \in Tracks |-> NoEdit]
    /\ pollCount = 0
    /\ polls = {}
    /\ requests = {}
    /\ events = 0
    /\ version = NoRev
    /\ blind = FALSE
    /\ touched = {}

----------------------------------------------------------------------------
(* Lists.                                                                  *)

\* list with the given value in one field of those of the tracks it holds.
Patched(list, ids, field, value) ==
    [t \in DOMAIN list |->
        IF t \in ids THEN [list[t] EXCEPT ![field] = value] ELSE list[t]]

\* applyPendingTrackEdits, of one row: an override that the row already
\* agrees with is forgotten; another is laid over the row.
Overrides(t, list) ==
    /\ pending[t].field # "none"
    /\ list[t][pending[t].field] # pending[t].value

\* Mutant: a fetched list is shown as it came.
NotOverlaid(list) == list

Overlaid(list) ==
    [t \in DOMAIN list |->
        IF Overrides(t, list)
        THEN [list[t] EXCEPT ![pending[t].field] = pending[t].value]
        ELSE list[t]]

StillPending(list) ==
    [t \in Tracks |->
        IF t \in DOMAIN list /\ ~Overrides(t, list) THEN NoEdit ELSE pending[t]]

\* rememberTracksSnapshot, after the page changed the list in place.
Show(list) ==
    /\ allTracks' = list
    /\ lastTracksKey' = list

----------------------------------------------------------------------------
(* The poll.                                                               *)

\* refresh sends its requests.  The revision a poll gets is one the server
\* had after the poll began: taken to be read at once, since the poll could
\* have begun later; a request that fails leaves it none.
FreeSlots == (1 .. MaxPolls) \ {p.slot : p \in polls}

StartPoll(seen) ==
    /\ \E i \in FreeSlots :
          /\ \A j \in FreeSlots : i <= j
          /\ polls' = polls \cup {[slot |-> i, stage |-> "rev", rev |-> seen, forced |-> FALSE,
                                   list |-> NoList, asOf |-> NoRev]}

Ask(seen) ==
    \/ seen = rev /\ UNCHANGED events
    \/ seen = NoRev /\ events < MaxEvents /\ events' = events + 1

\* The timer, once a second, and at once when the page is opened or the tab
\* comes back into view.  A hidden tab has no timer: no Tick happens then.
Tick ==
    /\ \E seen \in {rev, NoRev} : Ask(seen) /\ StartPoll(seen)
    /\ UNCHANGED <<server, rev, unborn, pageVars, requests, histVars>>

\* Mutant: no poll is forced.
NeverForced == FALSE

Forced == (pollCount + 1) % ForceEvery = 0
Moved(p) == p.rev = NoRev \/ p.rev # lastTracksRev

\* The poll asks for the list when the revision moved, was not got, or this
\* poll is a forced one; or it ends.
Decides(p, forced) ==
    polls' = (polls \ {p}) \cup
             (IF Moved(p) \/ forced
              THEN {[p EXCEPT !.stage = "asked", !.forced = FALSE]} ELSE {})

\* It waits for the cues first when they changed, or it is a forced one.
AsksForCues(p) ==
    polls' = (polls \ {p}) \cup {[p EXCEPT !.stage = "cues", !.forced = Forced]}

\* Mutant: the revision is kept when it comes, before the list does.
GotRevEarly(p) ==
    /\ p.stage = "rev"
    /\ pollCount' = (pollCount + 1) % ForceEvery
    /\ lastTracksRev' = IF p.rev = NoRev THEN lastTracksRev ELSE p.rev
    /\ AsksForCues(p) \/ (~Forced /\ Decides(p, FALSE))
    /\ UNCHANGED <<server, rev, unborn, allTracks, lastTracksKey, pending,
                   requests, events, histVars>>

\* The first answers are in, and the poll is counted.
GotRev(p) ==
    /\ p.stage = "rev"
    /\ pollCount' = (pollCount + 1) % ForceEvery
    /\ AsksForCues(p) \/ (~Forced /\ Decides(p, FALSE))
    /\ UNCHANGED <<server, rev, unborn, allTracks, lastTracksRev, lastTracksKey, pending,
                   requests, events, histVars>>

\* The cues have come, or failed to; the revision is compared with the one the
\* page has by now, which another poll may have moved.
GotCues(p) ==
    /\ p.stage = "cues"
    /\ Decides(p, p.forced)
    /\ UNCHANGED <<server, rev, unborn, pageVars, requests, events, histVars>>

\* The server answers with its list, or the fetch fails and the poll ends.
SendList(p) ==
    /\ p.stage = "asked"
    /\ polls' = (polls \ {p}) \cup
                {[p EXCEPT !.stage = "list", !.list = server, !.asOf = rev]}
    /\ UNCHANGED <<server, rev, unborn, pageVars, requests, events,
                   histVars>>

LoseList(p) ==
    /\ p.stage = "asked"
    /\ events < MaxEvents
    /\ events' = events + 1
    /\ polls' = polls \ {p}
    /\ UNCHANGED <<server, rev, unborn, pageVars, requests, histVars>>

\* The list is applied: overlaid with the pending edits, and shown if it is
\* not the one compared last or if the poll found new cues, which are fetched
\* as the list is.  The row objects of the old list are then replaced, and a
\* request that holds one patches a row no longer shown.
GotList(p) ==
    /\ p.stage = "list"
    /\ polls' = polls \ {p}
    /\ lastTracksRev' = IF p.rev = NoRev THEN lastTracksRev ELSE p.rev
    /\ pending' = StillPending(p.list)
    /\ \E cuesChanged \in BOOLEAN :
          IF Overlaid(p.list) # lastTracksKey \/ cuesChanged
          THEN /\ Show(Overlaid(p.list))
               /\ requests' = {[r EXCEPT !.row = IF @ = "held" THEN "lost" ELSE @] :
                                  r \in requests}
          ELSE UNCHANGED <<allTracks, lastTracksKey, requests>>
    /\ version' = p.asOf
    /\ blind' = (p.rev = NoRev)
    /\ touched' = {<<t, pending[t].field>> :
                      t \in {u \in DOMAIN p.list : Overrides(u, p.list)}}
    /\ UNCHANGED <<server, rev, unborn, pollCount, events>>

\* Files were added from the page, which forgets the revision it has and
\* polls at once, when the dialog's import is done.
Added ==
    /\ lastTracksRev # NoRev
    /\ lastTracksRev' = NoRev
    /\ \E seen \in {rev, NoRev} : Ask(seen) /\ StartPoll(seen)
    /\ UNCHANGED <<server, rev, unborn, allTracks, lastTracksKey, pending, pollCount,
                   requests, histVars>>

----------------------------------------------------------------------------
(* What the user does to the tracks.                                       *)

CanChange == events < MaxEvents /\ Cardinality(requests) < MaxRequests

Sent(what, ids, value, row) ==
    /\ CanChange
    /\ events' = events + 1
    /\ requests' = requests \cup
          {[id |-> events, what |-> what, ids |-> ids, value |-> value,
            row |-> row, answer |-> "none"]}

\* A click on a swatch of the colour picker; nothing is shown yet.
SetTrackColor(t, colour) ==
    /\ t \in DOMAIN allTracks
    /\ Sent("color_id", {t}, colour, "lookup")
    /\ UNCHANGED <<server, rev, unborn, pageVars, polls, histVars>>

\* A click on a star: on the current rating it clears it.  The row is looked
\* up now and patched when the answer comes.
SetTrackRating(t, stars) ==
    /\ t \in DOMAIN allTracks
    /\ Sent("rating", {t},
            IF allTracks[t]["rating"] = stars THEN Blank ELSE stars, "held")
    /\ UNCHANGED <<server, rev, unborn, pageVars, polls, histVars>>

\* A tag is added to or removed from the open track: its tags are patched into
\* the list first, and stay as patched when the request fails.
PatchTrackTagsLocal(t, tags) ==
    /\ t \in DOMAIN allTracks
    /\ allTracks[t]["tags"] # tags
    /\ Sent("tags", {t}, tags, "none")
    /\ Show(Patched(allTracks, {t}, "tags", tags))
    /\ touched' = touched \cup {<<t, "tags">>}
    /\ UNCHANGED <<server, rev, unborn, lastTracksRev, pending, pollCount,
                   polls, version, blind>>

\* The bar's colour, rating and tag pickers, on the tracks checked: any that
\* were ever listed, shown now or not, in the library or not.
BulkSet(ids, field, value) ==
    /\ Sent(field, ids, value, IF field = "tags" THEN "none" ELSE "lookup")
    /\ UNCHANGED <<server, rev, unborn, pageVars, polls, histVars>>

\* DELETE in the bar, confirmed, on the tracks checked when it was pressed.
BulkDelete(ids) ==
    /\ Sent("delete", ids, Blank, "none")
    /\ UNCHANGED <<server, rev, unborn, pageVars, polls, histVars>>

----------------------------------------------------------------------------
(* The server.                                                             *)

\* A change of the library moves its revision.
Changes(list) ==
    /\ server' = list
    /\ rev' = IF list = server THEN rev ELSE rev + 1

Carried(r) ==
    IF r.what = "delete"
    THEN [t \in DOMAIN server \ r.ids |-> server[t]]
    ELSE Patched(server, r.ids, r.what, r.value)

\* A request is carried out and answered.  Tracks that are gone are skipped,
\* but the request for one track's colour or rating fails then.
Serve(r) ==
    /\ r.answer = "none"
    /\ Changes(Carried(r))
    /\ \E answer \in {"ok", "failed"} :
          /\ answer = "failed" => r.what \in {"color_id", "rating"}
                                 /\ r.ids \cap DOMAIN server = {}
          /\ requests' = (requests \ {r}) \cup {[r EXCEPT !.answer = answer]}
    /\ UNCHANGED <<unborn, pageVars, polls, events, histVars>>

\* It fails: before it reaches the server, or with its answer lost.
Fail(r) ==
    /\ r.answer = "none"
    /\ events < MaxEvents
    /\ events' = events + 1
    /\ Changes(server) \/ Changes(Carried(r))
    /\ requests' = (requests \ {r}) \cup {[r EXCEPT !.answer = "failed"]}
    /\ UNCHANGED <<unborn, pageVars, polls, histVars>>

\* Another client, or an import, changes a track, deletes it or adds it.
OtherClient(t) ==
    /\ events < MaxEvents
    /\ events' = events + 1
    /\ \/ /\ t \in DOMAIN server
          /\ \/ \E f \in Fields, v \in Values : Changes(Patched(server, {t}, f, v))
             \/ Changes([u \in DOMAIN server \ {t} |-> server[u]])
          /\ UNCHANGED unborn
       \/ /\ t \in unborn
          /\ Changes([u \in DOMAIN server \cup {t} |->
                        IF u = t THEN BlankRow ELSE server[u]])
          /\ unborn' = unborn \ {t}
    /\ UNCHANGED <<pageVars, polls, requests, histVars>>

----------------------------------------------------------------------------
(* The answers.                                                            *)

Answered(r) ==
    /\ r.answer # "none"
    /\ requests' = requests \ {r}
    /\ UNCHANGED <<server, rev, unborn, lastTracksRev, pollCount, polls,
                   events, version, blind>>

\* Mutant: a tag edit is made an override too.
GotAnySaved(r) ==
    /\ Answered(r)
    /\ r.answer = "ok"
    /\ r.what # "delete"
    /\ pending' = [t \in Tracks |->
           IF t \in r.ids THEN [field |-> r.what, value |-> r.value] ELSE pending[t]]
    /\ UNCHANGED <<allTracks, lastTracksKey, touched>>

\* A colour or a rating was saved: it overrides the lists fetched from now on
\* (replacing an earlier override of the track, of either field), and is
\* patched into the list shown.
GotSaved(r) ==
    /\ Answered(r)
    /\ r.answer = "ok"
    /\ r.what \in {"color_id", "rating"}
    /\ pending' = [t \in Tracks |->
           IF t \in r.ids
           THEN [field |-> r.what, value |-> r.value]
           ELSE pending[t]]
    /\ IF r.row = "lost"
       THEN UNCHANGED <<allTracks, lastTracksKey, touched>>
       ELSE /\ Show(Patched(allTracks, r.ids, r.what, r.value))
            /\ touched' = touched \cup (r.ids \X {r.what})

\* The tracks were deleted: the list is pruned and nothing is checked.
GotDeleted(r) ==
    /\ Answered(r)
    /\ r.answer = "ok"
    /\ r.what = "delete"
    /\ Show([t \in DOMAIN allTracks \ r.ids |-> allTracks[t]])
    /\ UNCHANGED <<pending, touched>>

\* A failure is told to the user and changes nothing; nor does the answer to
\* a change of tags.
GotNothing(r) ==
    /\ Answered(r)
    /\ r.answer = "failed" \/ r.what = "tags"
    /\ UNCHANGED <<allTracks, lastTracksKey, pending, touched>>

\* PENDING_EDIT_TTL_MS pass: the override no longer counts.
Expire(t) ==
    /\ pending[t] # NoEdit
    /\ pending' = [pending EXCEPT ![t] = NoEdit]
    /\ UNCHANGED <<server, rev, unborn, allTracks, lastTracksRev, lastTracksKey,
                   pollCount, polls, requests, events, histVars>>

PollStep ==
    \E p \in polls : GotRev(p) \/ GotCues(p) \/ SendList(p) \/ LoseList(p) \/ GotList(p)

UserStep ==
    \/ Added
    \/ \E t \in Tracks, v \in Values :
          SetTrackColor(t, v) \/ SetTrackRating(t, v) \/ PatchTrackTagsLocal(t, v)
    \/ \E ids \in SUBSET (Tracks \ unborn) \ {{}} :
          BulkDelete(ids) \/ \E f \in Fields, v \in Values : BulkSet(ids, f, v)

RequestStep ==
    \E r \in requests :
        Serve(r) \/ Fail(r) \/ GotSaved(r) \/ GotDeleted(r) \/ GotNothing(r)

Next ==
    \/ Tick \/ PollStep \/ UserStep \/ RequestStep
    \/ \E t \in Tracks : OtherClient(t) \/ Expire(t)

Spec == Init /\ [][Next]_vars

\* The tab is in view from some time on, so that the timer runs; the browser
\* runs every handler, and a request is answered.  Nothing is asked of the user
\* or of other clients.
Fairness ==
    /\ WF_vars(Tick)
    /\ WF_vars(\E p \in polls : GotRev(p))
    /\ WF_vars(\E p \in polls : GotCues(p))
    /\ WF_vars(\E p \in polls : SendList(p))
    /\ WF_vars(\E p \in polls : GotList(p))
    /\ WF_vars(\E r \in requests : Serve(r))
    /\ WF_vars(\E r \in requests : GotSaved(r) \/ GotDeleted(r) \/ GotNothing(r))
    /\ \A t \in Tracks : WF_vars(Expire(t))

FairSpec == Spec /\ Fairness

----------------------------------------------------------------------------
(* Properties.                                                             *)

Differs(t, f) ==
    t \in DOMAIN allTracks /\ t \in DOMAIN server /\ allTracks[t][f] # server[t][f]

\* When the page's revision is the server's, so that no poll but a forced one
\* will fetch the list, the page shows the server's list: its very tracks,
\* and of those every field but the ones the page itself has patched since.
\* The revision must be set from what was read before the list was asked for,
\* and together with that list, whichever of two overlapping polls ends last
\* (poll.js, refresh).  The exception is a list fetched when the revision
\* could not be: it may be older than the revision the page keeps.
CaughtUp ==
    lastTracksRev = rev /\ ~blind =>
        /\ DOMAIN allTracks = DOMAIN server
        /\ \A t \in Tracks, f \in Fields : Differs(t, f) => <<t, f>> \in touched

\* A colour the user set and the server accepted stays in the list shown, in
\* spite of the lists applied meanwhile, as long as its override stands
\* (drawer.js, setTrackColor and applyPendingTrackEdits).
PendingColourShown ==
    \A t \in DOMAIN allTracks :
        pending[t].field = "color_id" =>
            allTracks[t]["color_id"] = pending[t].value

\* When nothing changes any more, a page that is looked at shows the server's
\* list in the end: after lists applied out of order, failed requests whose
\* change stayed in the page, overrides and revisions that could not be read.
\* This is what the forced refetch is for (poll.js, refresh).
EventuallyFresh == <>[](allTracks = server)
============================================================================
