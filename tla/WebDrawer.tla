----------------------------- MODULE WebDrawer ------------------------------
(***************************************************************************)
(* The track drawer of the web UI (src/api/web/js: drawer.js, audio.js,    *)
(* cue-overlays.js), over the waveforms of WebWaveforms.                   *)
(*                                                                         *)
(* openDetail names the selected track, empties the drawer and asks for    *)
(* everything the drawer shows; it is drawn when all of it has come, if    *)
(* that track is still the selected one.  Several openings, of several     *)
(* tracks or of one, may be under way.  What the drawer holds is spread    *)
(* over selected, its body, drawerTags, detailWave and the player, each    *)
(* set at another moment, and edits are asked for and answered later.      *)
(*                                                                         *)
(* A track's data (its cues, beats, fields and the server's tags) are left *)
(* out: an answer is any that the server could give.  What is kept of them *)
(* is whose they are.                                                      *)
(***************************************************************************)
EXTENDS WebWaveforms

CONSTANTS
    Tags,         \* tag IDs
    MaxOpens,     \* bound: openings under way
    MaxRequests,  \* bound: edits under way
    MaxEvents     \* bound: what the user does, and failures

None == "none"

ASSUME WebDrawerAssumption ==
    /\ Tracks \cap {None, "empty", "loading", "failed"} = {}
    /\ None \notin Tags
    /\ MaxEvents \in Nat

VARIABLES
    selected,         \* selectedTrackID
    body,             \* what the drawer's body was drawn from
    opens,            \* the openings under way
    relating,         \* the tracks whose related tracks were asked for
    drawerTags,       \* the tags shown
    drawerTagsLoaded, \* they came from the server
    allTagsCache,     \* the tags known to exist
    picker,           \* the tag picker: "closed", "asked" for, or "open"
    detailWave,       \* the waveform pane: its track, the wave, and whose it is
    draws,            \* drawings that wait for a waveform
    player,           \* the track whose audio is loaded
    requests,         \* the edits under way
    events,           \* user actions and failures so far
    tagsFrom          \* history: the track whose load the tags shown come from

paneVars == <<detailWave, draws, player>>
tagVars == <<drawerTags, drawerTagsLoaded, allTagsCache, tagsFrom>>
drawerVars == <<selected, body, opens, relating>>
vars == <<drawerVars, tagVars, picker, paneVars, requests, events, waveVars>>

\* The body: of a track, with its waveform at hand when it was drawn or not
\* (waved); the tracks its heading, its beat grid editor and its list of
\* related tracks belong to.
Body == [of: Tracks \cup {"empty", "loading", "failed"}, waved: BOOLEAN,
         head: Tracks \cup {None}, grid: Tracks \cup {None},
         related: Tracks \cup {None}]

Opening == [slot: 1 .. MaxOpens, of: Tracks, style: Styles, key: Keys,
            wave: Styles \cup {"waiting", "none"}]

\* A drawing: of a body drawn without its wave, or again in another mode.
Draw == [what: {"render", "restyle"}, of: Tracks, style: Styles, key: Keys]

\* tag is of the two steps of a new tag.  from is history, of a change of
\* tags: the track whose load the set it writes comes from.
Request == [slot: 1 .. MaxRequests,
            what: {"tags", "create", "catalog", "wave", "path", "metadata",
                   "grid", "reanalyze", "offset"},
            of: Tracks \cup {None}, tag: Tags \cup {None}, from: Tracks \cup {None}]

\* An edit names the tag, or the track, that it is of.
Named(r) ==
    /\ r.what \in {"create", "catalog"} => r.tag # None
    /\ r.what \notin {"create", "catalog", "offset"} => r.of # None

\* The types.  That an edit names its track matters: the drawer may have been
\* closed when it is made, or hold no track.
TypeOK ==
    /\ WaveTypeOK
    /\ selected \in Tracks \cup {None}
    /\ body \in Body
    /\ body.of \in Tracks => body.head # None /\ body.grid # None
    /\ opens \subseteq Opening
    /\ relating \subseteq Tracks
    /\ drawerTags \subseteq Tags
    /\ drawerTagsLoaded \in BOOLEAN
    /\ allTagsCache \subseteq Tags
    /\ picker \in {"closed", "asked", "open"}
    /\ detailWave \in [of: Tracks \cup {None}, wave: Styles \cup {"none"},
                       waveOf: Tracks \cup {None}]
    /\ draws \subseteq Draw
    /\ player \in Tracks \cup {None}
    /\ requests \subseteq Request
    /\ \A r \in requests : Named(r)
    /\ events \in 0 .. MaxEvents
    /\ tagsFrom \in Tracks \cup {None}

NoBody(of) == [of |-> of, waved |-> FALSE, head |-> None, grid |-> None, related |-> None]

Init ==
    /\ WaveInit
    /\ selected = None
    /\ body = NoBody("empty")
    /\ opens = {}
    /\ relating = {}
    /\ drawerTags = {}
    /\ drawerTagsLoaded = FALSE
    /\ allTagsCache \in SUBSET Tags
    /\ picker = "closed"
    /\ detailWave = [of |-> None, wave |-> "none", waveOf |-> None]
    /\ draws = {}
    /\ player = None
    /\ requests = {}
    /\ events = 0
    /\ tagsFrom = None

Happens == events < MaxEvents /\ events' = events + 1
Drawn == body.of \in Tracks
Clicked == picker' = IF picker = "open" THEN "closed" ELSE picker

----------------------------------------------------------------------------
(* Opening and closing.                                                    *)

Free(slots, used) == {s \in slots : \A x \in used : x.slot # s}
AnyOf(S) == CHOOSE s \in S : TRUE

\* openDetail, up to its first answer.  cache is what it finds cached.
OpenDetail(t, cache) ==
    LET free == Free(1 .. MaxOpens, opens)
        key == KeyFor(t, style)
    IN /\ free # {}
       /\ selected' = t
       /\ body' = NoBody("loading")
       /\ opens' = opens \cup
             {[slot |-> AnyOf(free), of |-> t, style |-> style, key |-> key,
               wave |-> IF key \in cache THEN DataOf(key) ELSE "waiting"]}
       /\ inflight' = IF key \in cache THEN inflight ELSE Ensured(inflight, key)
       /\ UNCHANGED relating

\* A click on a row of the library, on a related track or on a player.
Click(t) ==
    /\ Happens
    /\ OpenDetail(t, waveformCache)
    /\ Clicked
    /\ UNCHANGED <<tagVars, paneVars, requests, modeVars, waveformCache, no3Band, lost>>

\* closeDetail: by a click, or by a key that leaves the picker open.
CloseDetail ==
    /\ Happens
    /\ selected # None
    /\ selected' = None
    /\ player' = None
    /\ Clicked \/ UNCHANGED picker
    /\ UNCHANGED <<body, opens, relating, tagVars, detailWave, draws, requests, waveVars>>

\* whenDetailWave, of the selected track: at once when its data are cached.
\* A restyling sets the wave alone, whatever track the pane is of.
Pane(what, t, data) ==
    [of |-> IF what = "render" THEN t ELSE detailWave.of, wave |-> data, waveOf |-> t]

WhenDetailWave(what, t, mode) ==
    LET key == KeyFor(t, mode)
    IN IF key \in waveformCache
       THEN detailWave' = Pane(what, t, DataOf(key)) /\ UNCHANGED <<draws, inflight>>
       ELSE /\ draws' = draws \cup
                  {[what |-> what, of |-> t, style |-> mode, key |-> key]}
            /\ inflight' = Ensured(inflight, key)
            /\ UNCHANGED detailWave

\* renderDetail.  The player of another track stops; the pane is set at once,
\* or when the waveform has come.
RenderDetail(t, wave) ==
    /\ body' = [of |-> t, waved |-> wave # "none", head |-> t, grid |-> t, related |-> None]
    /\ relating' = relating \cup {t}
    /\ player' = IF player = t THEN player ELSE None
    /\ IF wave # "none"
       THEN detailWave' = Pane("render", t, wave) /\ UNCHANGED <<draws, inflight>>
       ELSE WhenDetailWave("render", t, style)

\* Mutant: nothing is drawn then.
RenderNothing ==
    UNCHANGED <<body, relating, player, detailWave, draws, inflight>>

\* A track that could not be had.
RenderFailed ==
    /\ body' = NoBody("failed")
    /\ UNCHANGED <<relating, player, detailWave, draws, inflight>>

\* Mutant: a load that failed is taken for a track without tags.
LoadTagsAnyway(t, loaded) ==
    /\ drawerTagsLoaded' = TRUE
    /\ \E tags \in SUBSET Tags : (loaded \/ tags = {}) /\ drawerTags' = tags
    /\ tagsFrom' = IF loaded THEN t ELSE None
    /\ UNCHANGED allTagsCache

\* The tags that come with it: what the server has, or none when they could
\* not be had.
LoadTags(t, loaded) ==
    /\ drawerTagsLoaded' = loaded
    /\ \E tags \in SUBSET Tags : (loaded \/ tags = {}) /\ drawerTags' = tags
    /\ tagsFrom' = IF loaded THEN t ELSE None
    /\ UNCHANGED allTagsCache

\* Mutant: it is drawn whichever track is selected by then.
GotDetailAnyway(o) ==
    /\ o.wave # "waiting"
    /\ opens' = opens \ {o}
    /\ LoadTags(o.of, TRUE)
    /\ RenderDetail(o.of, IF style = o.style THEN o.wave ELSE "none")
    /\ UNCHANGED <<selected, picker, requests, events, modeVars, waveformCache, no3Band,
                   lost>>

\* Everything an opening asked for has come.
GotDetail(o) ==
    /\ o.wave # "waiting"
    /\ selected = o.of
    /\ opens' = opens \ {o}
    /\ \E loaded, found \in BOOLEAN :
          /\ IF loaded /\ found THEN UNCHANGED events ELSE Happens
          /\ LoadTags(o.of, loaded)
          /\ IF found
             THEN RenderDetail(o.of, IF style = o.style THEN o.wave ELSE "none")
             ELSE RenderFailed
    /\ UNCHANGED <<selected, picker, requests, modeVars, waveformCache, no3Band, lost>>

\* It is dropped when the user has moved on.
Dropped(o) ==
    /\ o.wave # "waiting"
    /\ selected # o.of
    /\ opens' = opens \ {o}
    /\ UNCHANGED <<selected, body, relating, tagVars, picker, paneVars, requests, events,
                   waveVars>>

\* loadRelated is answered, or fails and leaves the list empty.
GotRelated(t) ==
    /\ t \in relating
    /\ relating' = relating \ {t}
    /\ body' = IF selected = t /\ Drawn THEN [body EXCEPT !.related = t] ELSE body
    /\ UNCHANGED <<selected, opens, tagVars, picker, paneVars, requests, events, waveVars>>

----------------------------------------------------------------------------
(* Waveforms.                                                              *)

\* Mutant: a late waveform is drawn whichever track is selected.
LateForAny(keys) ==
    {w \in draws : w.key \in keys /\ w.style = style}

\* The drawings that a fetch's data are still wanted for: the mode and the
\* track are what they were.
Late(keys) ==
    {w \in draws : w.key \in keys /\ w.style = style /\ w.of = selected}

\* The data come to everyone who waits for one of the keys.
Deliver(keys, data) ==
    /\ opens' = {IF o.wave = "waiting" /\ o.key \in keys THEN [o EXCEPT !.wave = data]
                 ELSE o : o \in opens}
    /\ draws' = {w \in draws : w.key \notin keys}
    /\ IF data = "none" \/ Late(keys) = {}
       THEN UNCHANGED detailWave
       ELSE \E w \in Late(keys) :
               /\ w.what = "render" \/ \A v \in Late(keys) : v.what = "restyle"
               /\ detailWave' = Pane(w.what, w.of, data)
    /\ UNCHANGED <<selected, body, relating, tagVars, picker, player, requests, modeVars>>

GotWave(key) ==
    /\ \/ FetchOK(key) /\ Deliver(Resolved(key), DataOf(key))
       \/ FallBack(key, FALSE) /\ Deliver(ServedAtOnce(key), "spectral")
    /\ UNCHANGED events

LoseWave(key) ==
    /\ Happens
    /\ \/ FetchFails(key) /\ Deliver(Resolved(key), "none")
       \/ FallBack(key, TRUE) /\ Deliver(ServedAtOnce(key), "spectral")

\* redrawAllWaveforms, in the given mode: of the drawer's pane.
Redraw(mode) ==
    /\ unpainted' = FALSE
    /\ IF selected = None
       THEN UNCHANGED <<detailWave, draws, inflight>>
       ELSE WhenDetailWave("restyle", selected, mode)

Other(mode) == IF mode = "3band" THEN "spectral" ELSE "3band"

\* Mutant: what was fetched so far is taken to fit the new mode.
CycleWithoutRedraw ==
    /\ Happens
    /\ style' = Other(style)
    /\ unpainted' = FALSE
    /\ Clicked
    /\ UNCHANGED <<lastDisplaySig, waveformCache, no3Band, lost, inflight, draws, detailWave,
                   drawerVars, tagVars, player, requests>>

\* A click on WAVE: the mode changes and everything is redrawn in it.
CycleWaveColor ==
    /\ Happens
    /\ style' = Other(style)
    /\ Redraw(Other(style))
    /\ Clicked
    /\ UNCHANGED <<lastDisplaySig, waveformCache, no3Band, lost, drawerVars, tagVars,
                   player, requests>>

\* The setting the mode follows is changed, in this page: nothing is redrawn
\* until the next poll.
ChangeSetting ==
    /\ Happens
    /\ style' = Other(style)
    /\ unpainted' = TRUE
    /\ Clicked
    /\ UNCHANGED <<lastDisplaySig, fetchVars, drawerVars, tagVars, paneVars, requests>>

\* The poll finds that the mode is another than at the last one.
Repaint ==
    /\ style # lastDisplaySig
    /\ lastDisplaySig' = style
    /\ Redraw(style)
    /\ UNCHANGED <<style, waveformCache, no3Band, lost, drawerVars, tagVars, picker,
                   player, requests, events>>

\* PLAY, by the button or the key: plays the track of the pane.  The key asks
\* that this be the selected track, the button asks nothing.
Play ==
    /\ Drawn
    /\ selected # None
    /\ detailWave.of # None
    /\ player # detailWave.of
    /\ Happens
    /\ player' = detailWave.of
    /\ Clicked
    /\ UNCHANGED <<drawerVars, tagVars, detailWave, draws, requests, waveVars>>

----------------------------------------------------------------------------
(* Tags.                                                                   *)

Asked(what, of, tag, from) ==
    LET free == Free(1 .. MaxRequests, requests)
    IN /\ free # {}
       /\ requests' = requests \cup
             {[slot |-> AnyOf(free), what |-> what, of |-> of, tag |-> tag, from |-> from]}

\* Mutant: sent with the drawer closed, too.
SaveAnyway == Asked("tags", selected, None, tagsFrom)

\* saveTrackTags, with the set now shown: nothing is sent with the drawer
\* closed.
SaveTrackTags ==
    IF selected = None
    THEN UNCHANGED requests
    ELSE Asked("tags", selected, None, tagsFrom)

\* The picker is asked for, from the drawer's body; it opens when the tag
\* categories have come, for whatever tags the drawer then has.
OpenTagPicker ==
    /\ Happens
    /\ Drawn /\ selected # None
    /\ picker' = "asked"
    /\ UNCHANGED <<drawerVars, tagVars, paneVars, requests, waveVars>>

ShowTagPicker ==
    /\ picker = "asked"
    /\ picker' = "open"
    /\ UNCHANGED <<drawerVars, tagVars, paneVars, requests, events, waveVars>>

CanPick == picker = "open" \/ (Drawn /\ selected # None)

\* removeTagFromCurrent: by a chip of the body, or in the picker.
RemoveTag(g) ==
    /\ CanPick
    /\ Happens
    /\ drawerTagsLoaded
    /\ g \in drawerTags
    /\ drawerTags' = drawerTags \ {g}
    /\ SaveTrackTags
    /\ UNCHANGED <<drawerVars, drawerTagsLoaded, allTagsCache, tagsFrom, picker, paneVars,
                   waveVars>>

\* addTagToCurrent.
CanAdd(g, cache) == drawerTagsLoaded /\ g \notin drawerTags /\ g \in cache

AddTag(g) ==
    /\ picker = "open"
    /\ Happens
    /\ CanAdd(g, allTagsCache)
    /\ drawerTags' = drawerTags \cup {g}
    /\ SaveTrackTags
    /\ UNCHANGED <<drawerVars, drawerTagsLoaded, allTagsCache, tagsFrom, picker, paneVars,
                   waveVars>>

\* createAndAssignTag: the tag is created, the tags that exist are fetched
\* again, and it is added to whatever the drawer then has.
CreateTag(g) ==
    /\ picker = "open"
    /\ Happens
    /\ drawerTagsLoaded
    /\ Asked("create", None, g, None)
    /\ UNCHANGED <<drawerVars, tagVars, picker, paneVars, waveVars>>

Done(r) == requests' = requests \ {r}

GotCreated(r) ==
    /\ r.what = "create"
    /\ requests' = (requests \ {r}) \cup {[r EXCEPT !.what = "catalog"]}
    /\ UNCHANGED <<drawerVars, tagVars, picker, paneVars, events, waveVars>>

GotCatalog(r) ==
    /\ r.what = "catalog"
    /\ \E cache \in {allTagsCache, allTagsCache \cup {r.tag}} :
          /\ IF r.tag \in cache THEN UNCHANGED events ELSE Happens
          /\ allTagsCache' = cache
          /\ IF CanAdd(r.tag, cache)
             THEN /\ drawerTags' = drawerTags \cup {r.tag}
                  /\ requests' = (requests \ {r}) \cup
                        (IF selected = None THEN {}
                         ELSE {[r EXCEPT !.what = "tags", !.of = selected, !.tag = None,
                                         !.from = tagsFrom]})
             ELSE Done(r) /\ UNCHANGED drawerTags
    /\ UNCHANGED <<drawerVars, drawerTagsLoaded, tagsFrom, picker, paneVars, waveVars>>

----------------------------------------------------------------------------
(* The other edits.                                                        *)

\* Asked for from the drawer's body.  A cue is saved or deleted and a downbeat
\* set for the track of the pane; a grid is edited, locked or analyzed again
\* for the track its controls were last wired to; fields and path are saved
\* for the track the body was drawn from.  The grid offset is of no track.
Edit(what) ==
    /\ Happens
    /\ selected # None /\ Drawn
    /\ \/ what = "wave" /\ detailWave.of # None /\ Asked(what, detailWave.of, None, None)
       \/ what \in {"path", "metadata"} /\ Asked(what, body.of, None, None)
       \/ what \in {"grid", "reanalyze"} /\ Asked(what, body.grid, None, None)
    /\ Clicked
    /\ UNCHANGED <<drawerVars, tagVars, paneVars, waveVars>>

ApplyGridOffset ==
    /\ Happens
    /\ Asked("offset", None, None, None)
    /\ Clicked
    /\ UNCHANGED <<drawerVars, tagVars, paneVars, waveVars>>

\* A cue was saved or deleted, or a downbeat set: the track is opened again if
\* it is still the selected one.
GotWaveEdit(r) ==
    /\ r.what = "wave"
    /\ Done(r)
    /\ IF selected = r.of THEN OpenDetail(r.of, waveformCache)
       ELSE UNCHANGED <<drawerVars, inflight>>
    /\ UNCHANGED <<tagVars, picker, paneVars, events, modeVars, waveformCache, no3Band, lost>>

\* A path was saved: its track is opened, whichever is selected.
GotPath(r) ==
    /\ r.what = "path"
    /\ Done(r)
    /\ OpenDetail(r.of, waveformCache)
    /\ UNCHANGED <<tagVars, picker, paneVars, events, modeVars, waveformCache, no3Band, lost>>

\* A field was saved: the heading is that of its track (refreshDetailHead).
GotMetadata(r) ==
    /\ r.what = "metadata"
    /\ Done(r)
    /\ body' = IF Drawn THEN [body EXCEPT !.head = r.of] ELSE body
    /\ UNCHANGED <<selected, opens, relating, tagVars, picker, paneVars, events, waveVars>>

\* A grid edit was saved, or a lock: the grid controls in the document are
\* wired to its track (wireBeatGridEditor).
GotGrid(r) ==
    /\ r.what = "grid"
    /\ Done(r)
    /\ body' = IF Drawn THEN [body EXCEPT !.grid = r.of] ELSE body
    /\ UNCHANGED <<selected, opens, relating, tagVars, picker, paneVars, events, waveVars>>

\* A track was analyzed again: its spectral wave is no longer cached, and it
\* is opened again if it is still the selected one.
GotReanalyzed(r) ==
    /\ r.what = "reanalyze"
    /\ Done(r)
    /\ waveformCache' = waveformCache \ {<<"detail", r.of>>}
    /\ IF selected = r.of THEN OpenDetail(r.of, waveformCache')
       ELSE UNCHANGED <<drawerVars, inflight>>
    /\ UNCHANGED <<tagVars, picker, paneVars, events, modeVars, no3Band, lost>>

\* The grid offset was saved: no wave is cached any more, and the selected
\* track is opened again.
GotOffset(r) ==
    /\ r.what = "offset"
    /\ Done(r)
    /\ waveformCache' = {}
    /\ IF selected # None THEN OpenDetail(selected, {})
       ELSE UNCHANGED <<drawerVars, inflight>>
    /\ UNCHANGED <<tagVars, picker, paneVars, events, modeVars, no3Band, lost>>

\* The tags were saved, or an edit failed: the user is told, and nothing else.
GotNothing(r) ==
    /\ \/ r.what = "tags" /\ UNCHANGED events
       \/ r.what \notin {"tags", "catalog"} /\ Happens
    /\ Done(r)
    /\ UNCHANGED <<drawerVars, tagVars, picker, paneVars, waveVars>>

----------------------------------------------------------------------------

UserStep ==
    \/ \E t \in Tracks : Click(t)
    \/ CloseDetail \/ CycleWaveColor \/ ChangeSetting \/ Play
    \/ OpenTagPicker \/ ApplyGridOffset
    \/ \E g \in Tags : RemoveTag(g) \/ AddTag(g) \/ CreateTag(g)
    \/ \E what \in {"wave", "path", "metadata", "grid", "reanalyze"} : Edit(what)

AnswerStep ==
    \E r \in requests :
        \/ GotCreated(r) \/ GotCatalog(r) \/ GotWaveEdit(r) \/ GotPath(r) \/ GotMetadata(r)
        \/ GotGrid(r) \/ GotReanalyzed(r) \/ GotOffset(r) \/ GotNothing(r)

Next ==
    \/ UserStep \/ AnswerStep \/ ShowTagPicker \/ Repaint
    \/ \E o \in opens : GotDetail(o) \/ Dropped(o)
    \/ \E t \in Tracks : GotRelated(t)
    \/ \E key \in Keys : GotWave(key) \/ LoseWave(key)

Spec == Init /\ [][Next]_vars

\* A request is answered and its answer handled.  Nothing is asked of the user.
Fairness ==
    /\ WF_vars(\E o \in opens : GotDetail(o))
    /\ WF_vars(\E o \in opens : Dropped(o))
    /\ \A key \in Keys : WF_vars(GotWave(key))

FairSpec == Spec /\ Fairness

----------------------------------------------------------------------------
(* Properties.                                                             *)

Shown == selected # None /\ body.of = selected

\* What the drawer shows of a track is of the selected one: its body, its
\* related tracks, and the tags it holds with it, unless they could not be
\* loaded, and are then not edited.  Whatever was opened, and however often,
\* and in whichever order the answers came (drawer.js, openDetail and
\* loadRelated).
ShownIsSelected ==
    /\ selected # None => body.of \in {"loading", "failed", selected}
    /\ Shown => /\ tagsFrom = IF drawerTagsLoaded THEN selected ELSE None
                /\ body.related \in {None, selected}

\* Every set of tags written comes from a set that was loaded, for a track if
\* not for that one, and never from the empty list that stands for a load
\* that failed (drawer.js, openDetail: "a failed load is kept apart (null)
\* from a track without tags ([])").
NeverWiped == \A r \in requests : r.what = "tags" => r.from # None

\* A body drawn with its waveform has a pane of its own track for as long as
\* it is shown: no waveform that comes late, of another opening, makes the
\* pane, and with it the cues edited and the audio played, that of another
\* track (drawer.js, renderDetail).
PaneIsOfShown ==
    Shown /\ body.waved => detailWave.of = selected /\ player \in {None, selected}

\* The wave under a body is the selected track's, in the kind of data the mode
\* asks for, or a drawing of that is on its way, whatever the mode was when
\* each of them was asked for (waveforms.js, whenDetailWave and
\* getDetailWaveCached).  Not after a fetch failed, nor after a change of the
\* setting that no poll saw.
WaveMatchesStyle ==
    Shown /\ ~lost /\ ~unpainted =>
        \/ detailWave.waveOf = selected /\ detailWave.wave = DataFor(selected, style)
        \/ \E w \in draws : w.of = selected /\ w.style = style

\* A track that was opened is drawn, or known to have failed, unless the
\* drawer is closed first (drawer.js, openDetail).
OpenedIsDrawn == body.of = "loading" ~> body.of # "loading" \/ selected = None

\* What drawer.js says of drawerTagsLoaded: "a tag edit writes the whole set,
\* so it waits for a successful load".  A set of tags is written to the track
\* it was loaded for.
TagEditsWaitForLoad == \A r \in requests : r.what = "tags" => r.from = r.of
=============================================================================
