-------------------------- MODULE WebDrawerProofs --------------------------
(***************************************************************************)
(* What WebDrawer guarantees for any tracks and tags, any number of        *)
(* openings and edits under way, and any order of the answers.             *)
(*                                                                         *)
(* The argument: an opening is drawn only while its track is the selected  *)
(* one, and selecting another track empties the body in the same step, so  *)
(* body, tags, pane and player can only fall apart in a step that sets one *)
(* of them alone; each of those compares with selected first.  For the     *)
(* waveforms, everything that waits for data under a key fits that key:    *)
(* 3-band data exist only of tracks that have them, and spectral data      *)
(* stand in for them only once the track is known to have none.            *)
(***************************************************************************)
EXTENDS WebDrawer, TLAPS

----------------------------------------------------------------------------
(***************************************************************************)
(* The inductive invariant.                                                *)
(***************************************************************************)

LoadedFromATrack == drawerTagsLoaded => tagsFrom # None

\* What is cached, or taken for good, in the 3-band kind.
CacheFits == \A t \in Tracks : <<"detail3band", t>> \in waveformCache => t \notin Flat

\* key is one that a request for t's data in the given mode can wait for.
KeyFits(key, t, mode) ==
    /\ key[2] = t
    /\ key[1] = "detail3band" => mode = "3band"
    /\ key[1] = "detail" /\ mode = "3band" => t \in no3Band

DrawsFit == \A w \in draws : KeyFits(w.key, w.of, w.style)

\* Data are those of the mode they were asked for in.
DataFit(data, t, mode) ==
    /\ data = "3band" => mode = "3band" /\ t \notin Flat
    /\ data = "spectral" /\ mode = "3band" /\ ~lost => t \in no3Band
    /\ data = "none" => lost

OpensFit ==
    \A o \in opens : KeyFits(o.key, o.of, o.style) /\ DataFit(o.wave, o.of, o.style)

FallbackKnown ==
    \A t \in Tracks : inflight[<<"detail3band", t>>] = "fallback" /\ ~lost => t \in no3Band

PaneFits == detailWave.wave = "3band" => detailWave.waveOf \in Tracks \ Flat

WavesFit == CacheFits /\ DrawsFit /\ OpensFit /\ FallbackKnown /\ PaneFits

IInv ==
    /\ TypeOK
    /\ ShownIsSelected
    /\ LoadedFromATrack /\ NeverWiped
    /\ PaneIsOfShown
    /\ WavesFit /\ WaveMatchesStyle

----------------------------------------------------------------------------
(***************************************************************************)
(* Types.                                                                  *)
(***************************************************************************)

Fetches == [Keys -> {"no", "asked", "fallback"}]
BodyOK(b) == b \in Body /\ (b.of \in Tracks => b.head # None /\ b.grid # None)
RequestsOK(S) == S \subseteq Request /\ \A r \in S : Named(r)
PaneType == [of: Tracks \cup {None}, wave: Styles \cup {"none"}, waveOf: Tracks \cup {None}]

\* The key of a track's data is a key, and what is cached under it a style.
LEMMA KeyForType ==
    ASSUME NEW t \in Tracks, NEW mode \in Styles
    PROVE  KeyFor(t, mode) \in Keys /\ DataOf(KeyFor(t, mode)) \in Styles
BY DEF KeyFor, DataOf, DataFor, Keys, Kinds, Styles

\* Asking for data keeps the fetches' type.
LEMMA EnsuredType ==
    ASSUME NEW fetches \in Fetches, NEW key \in Keys
    PROVE  Ensured(fetches, key) \in Fetches
BY DEF Ensured, Fetches

\* So does the end of any of them.
LEMMA EndedType ==
    ASSUME TypeOK, NEW keys
    PROVE  Ended(keys) \in Fetches
BY DEF Ended, Fetches, TypeOK, WaveTypeOK

\* openDetail sets what it sets to values of their types.
LEMMA OpenDetailType ==
    ASSUME TypeOK, NEW t \in Tracks, NEW cache, OpenDetail(t, cache)
    PROVE  /\ selected' \in Tracks
           /\ BodyOK(body')
           /\ opens' \subseteq Opening
           /\ relating' \subseteq Tracks
           /\ inflight' \in Fetches
<1> DEFINE key == KeyFor(t, style)
<1>1. style \in Styles /\ inflight \in Fetches
  BY DEF TypeOK, WaveTypeOK, Fetches
<1>2. key \in Keys /\ DataOf(key) \in Styles
  BY <1>1, KeyForType
<1>3. AnyOf(Free(1 .. MaxOpens, opens)) \in 1 .. MaxOpens
  BY DEF OpenDetail, Free, AnyOf
<1>4. [slot |-> AnyOf(Free(1 .. MaxOpens, opens)), of |-> t, style |-> style, key |-> key,
       wave |-> IF key \in cache THEN DataOf(key) ELSE "waiting"] \in Opening
  BY <1>1, <1>2, <1>3 DEF Opening
<1>5. opens' \subseteq Opening
  BY <1>4 DEF OpenDetail, TypeOK
<1>6. inflight' \in Fetches
  BY <1>1, <1>2, EnsuredType DEF OpenDetail
<1> QED
  BY <1>5, <1>6, WebDrawerAssumption DEF OpenDetail, TypeOK, Body, BodyOK, NoBody

\* So does a drawing that may have to wait.
LEMMA WhenDetailWaveType ==
    ASSUME TypeOK, NEW what \in {"render", "restyle"}, NEW t \in Tracks, NEW mode \in Styles,
           WhenDetailWave(what, t, mode)
    PROVE  detailWave' \in PaneType /\ draws' \subseteq Draw /\ inflight' \in Fetches
<1> DEFINE key == KeyFor(t, mode)
<1>1. inflight \in Fetches /\ detailWave \in PaneType /\ draws \subseteq Draw
  BY DEF TypeOK, WaveTypeOK, Fetches, PaneType
<1>2. key \in Keys /\ DataOf(key) \in Styles
  BY KeyForType
<1>3. CASE key \in waveformCache
  BY <1>1, <1>2, <1>3 DEF WhenDetailWave, Pane, PaneType
<1>4. CASE key \notin waveformCache
  <2>1. [what |-> what, of |-> t, style |-> mode, key |-> key] \in Draw
    BY <1>2 DEF Draw
  <2> QED
    BY <1>1, <1>2, <1>4, <2>1, EnsuredType DEF WhenDetailWave
<1> QED
  BY <1>3, <1>4

\* So does the drawing of a body.
LEMMA RenderDetailType ==
    ASSUME TypeOK, NEW t \in Tracks, NEW wave \in Styles \cup {"none"}, RenderDetail(t, wave)
    PROVE  /\ BodyOK(body')
           /\ relating' \subseteq Tracks
           /\ player' \in Tracks \cup {None}
           /\ detailWave' \in PaneType
           /\ draws' \subseteq Draw
           /\ inflight' \in Fetches
<1>1. style \in Styles
  BY DEF TypeOK, WaveTypeOK
<1>2. BodyOK(body')
  <2>1. \E waved \in BOOLEAN :
            body' = [of |-> t, waved |-> waved, head |-> t, grid |-> t, related |-> None]
    <3>1. (wave # "none") \in BOOLEAN
      OBVIOUS
    <3> QED
      BY <3>1, Zenon DEF RenderDetail
  <2> QED
    BY <2>1, WebDrawerAssumption DEF Body, BodyOK
<1>3. /\ relating' = relating \cup {t}
      /\ player' = IF player = t THEN player ELSE None
      /\ IF wave # "none"
         THEN detailWave' = Pane("render", t, wave) /\ UNCHANGED <<draws, inflight>>
         ELSE WhenDetailWave("render", t, style)
  BY Zenon DEF RenderDetail
<1>4. relating' \subseteq Tracks /\ player' \in Tracks \cup {None}
  BY <1>3 DEF TypeOK
<1>5. CASE wave # "none"
  BY <1>2, <1>3, <1>4, <1>5 DEF Pane, TypeOK, WaveTypeOK, Fetches, PaneType
<1>6. CASE wave = "none"
  BY <1>1, <1>2, <1>3, <1>4, <1>6, WhenDetailWaveType
<1> QED
  BY <1>5, <1>6

\* So does an edit that is asked for, if it names a track or is of none.
LEMMA AskedType ==
    ASSUME TypeOK,
           NEW what \in {"tags", "create", "catalog", "wave", "path", "metadata",
                         "grid", "reanalyze", "offset"},
           NEW of \in Tracks \cup {None}, NEW tag \in Tags \cup {None},
           NEW from \in Tracks \cup {None},
           what \in {"create", "catalog"} => tag # None,
           what \notin {"create", "catalog", "offset"} => of # None,
           Asked(what, of, tag, from)
    PROVE  RequestsOK(requests')
<1> DEFINE r == [slot |-> AnyOf(Free(1 .. MaxRequests, requests)), what |-> what, of |-> of,
                 tag |-> tag, from |-> from]
<1>1. r.slot \in 1 .. MaxRequests
  BY DEF Asked, Free, AnyOf
<1>2. r \in Request
  BY <1>1 DEF Request
<1>3. requests' = requests \cup {r}
  BY DEF Asked
<1> QED
  BY <1>2, <1>3 DEF TypeOK, RequestsOK, Named

\* Data that come leave the openings, the drawings and the pane of their types.
LEMMA DeliverType ==
    ASSUME TypeOK, NEW keys, NEW data \in Styles \cup {"none"}, Deliver(keys, data)
    PROVE  opens' \subseteq Opening /\ draws' \subseteq Draw /\ detailWave' \in PaneType
<1>1. opens' \subseteq Opening
  BY DEF Deliver, TypeOK, Opening
<1>2. draws' \subseteq Draw
  BY DEF Deliver, TypeOK
<1>3. CASE UNCHANGED detailWave
  BY <1>1, <1>2, <1>3 DEF TypeOK, PaneType
<1>4. ASSUME NEW w \in Late(keys), detailWave' = Pane(w.what, w.of, data), data # "none"
      PROVE  detailWave' \in PaneType
  BY <1>4 DEF Late, Pane, PaneType, TypeOK, Draw
<1> QED
  BY <1>1, <1>2, <1>3, <1>4 DEF Deliver

\* An answer to a fetch is one of a fetch under way, and keeps the types.
LEMMA FetchType ==
    ASSUME TypeOK, NEW key \in Keys,
           \/ FetchOK(key)
           \/ FetchFails(key)
           \/ \E failed \in BOOLEAN : FallBack(key, failed)
    PROVE  /\ waveformCache' \subseteq Keys
           /\ no3Band' \subseteq Flat
           /\ inflight' \in Fetches
           /\ lost' \in BOOLEAN
<1>1. CASE FetchOK(key)
  BY <1>1, EndedType DEF FetchOK, TypeOK, WaveTypeOK
<1>2. CASE FetchFails(key)
  BY <1>2, EndedType DEF FetchFails, TypeOK, WaveTypeOK
<1>3. ASSUME NEW failed \in BOOLEAN, FallBack(key, failed)
      PROVE  /\ waveformCache' \subseteq Keys
             /\ no3Band' \subseteq Flat
             /\ inflight' \in Fetches
             /\ lost' \in BOOLEAN
  <2>1. Spectral(key) \in Keys
    BY DEF Spectral, Keys, Kinds
  <2>2. [inflight EXCEPT ![key] = "fallback"] \in Fetches
    BY DEF TypeOK, WaveTypeOK, Fetches
  <2>3. inflight' \in Fetches
    BY <1>3, <2>1, <2>2, EnsuredType, EndedType DEF FallBack
  <2>4. (lost \/ failed) \in BOOLEAN
    BY DEF TypeOK, WaveTypeOK
  <2>5. lost' \in BOOLEAN
    BY <1>3, <2>4, Zenon DEF FallBack
  <2> QED
    BY <1>3, <2>3, <2>5 DEF FallBack, TypeOK, WaveTypeOK
<1> QED
  BY <1>1, <1>2, <1>3

\* The answers that open a track: the rest of the state is left alone.
LEMMA OpenedType ==
    ASSUME TypeOK, NEW cache,
           \/ \E t \in Tracks : OpenDetail(t, cache)
           \/ UNCHANGED <<drawerVars, inflight>>,
           UNCHANGED <<tagVars, picker, paneVars, modeVars, no3Band, lost>>,
           waveformCache' \subseteq Keys,
           requests' \subseteq requests,
           events' \in 0 .. MaxEvents
    PROVE  TypeOK'
<1>1. /\ selected' \in Tracks \cup {None}
      /\ BodyOK(body')
      /\ opens' \subseteq Opening
      /\ relating' \subseteq Tracks
      /\ inflight' \in Fetches
  BY OpenDetailType DEF drawerVars, TypeOK, WaveTypeOK, Fetches, BodyOK
<1> QED
  BY <1>1 DEF TypeOK, WaveTypeOK, Fetches, BodyOK, tagVars, paneVars, modeVars

\* What the user does keeps the types.
LEMMA UserTypes ==
    ASSUME TypeOK, UserStep
    PROVE  TypeOK'
<1>1. ASSUME Happens PROVE events' \in 0 .. MaxEvents
  BY <1>1, WebDrawerAssumption DEF Happens, TypeOK
<1>2. ASSUME Clicked PROVE picker' \in {"closed", "asked", "open"}
  BY <1>2 DEF Clicked, TypeOK
<1>3. ASSUME NEW t \in Tracks, Click(t) PROVE TypeOK'
  <2>1. OpenDetail(t, waveformCache)
    BY <1>3 DEF Click
  <2> QED
    BY <1>1, <1>2, <1>3, <2>1, OpenDetailType
    DEF Click, BodyOK, TypeOK, WaveTypeOK, Fetches, tagVars, paneVars, modeVars
<1>4. CASE CloseDetail
  BY <1>1, <1>2, <1>4
  DEF CloseDetail, TypeOK, WaveTypeOK, tagVars, waveVars, modeVars, fetchVars
<1>5. ASSUME NEW mode \in Styles, Redraw(mode)
      PROVE  detailWave' \in PaneType /\ draws' \subseteq Draw /\ inflight' \in Fetches
             /\ unpainted' \in BOOLEAN
  <2>1. selected \in Tracks \/ selected = None
    BY DEF TypeOK
  <2> QED
    BY <1>5, <2>1, WhenDetailWaveType
    DEF Redraw, TypeOK, WaveTypeOK, PaneType, Fetches
<1>6. CASE CycleWaveColor
  <2>1. Other(style) \in Styles
    BY DEF Other, Styles
  <2> QED
    BY <1>1, <1>2, <1>5, <1>6, <2>1
    DEF CycleWaveColor, TypeOK, WaveTypeOK, PaneType, Fetches, drawerVars, tagVars
<1>7. CASE ChangeSetting
  BY <1>1, <1>2, <1>7
  DEF ChangeSetting, Other, Styles, TypeOK, WaveTypeOK, fetchVars, drawerVars, tagVars, paneVars
<1>8. CASE Play
  BY <1>1, <1>2, <1>8
  DEF Play, TypeOK, WaveTypeOK, drawerVars, tagVars, waveVars, modeVars, fetchVars
<1>9. CASE OpenTagPicker
  BY <1>1, <1>9
  DEF OpenTagPicker, TypeOK, WaveTypeOK, drawerVars, tagVars, paneVars, waveVars, modeVars,
      fetchVars
<1>10. CASE ApplyGridOffset
  <2>1. Asked("offset", None, None, None)
    BY <1>10 DEF ApplyGridOffset
  <2>2. RequestsOK(requests')
    BY <2>1, AskedType
  <2> QED
    BY <1>1, <1>2, <1>10, <2>2
    DEF ApplyGridOffset, RequestsOK, TypeOK, WaveTypeOK, drawerVars, tagVars, paneVars, waveVars, modeVars,
        fetchVars
<1>11. ASSUME SaveTrackTags
       PROVE  RequestsOK(requests')
  <2>1. CASE selected = None
    BY <1>11, <2>1 DEF SaveTrackTags, RequestsOK, TypeOK
  <2>2. CASE selected # None
    BY <1>11, <2>2, AskedType DEF SaveTrackTags, RequestsOK, TypeOK
  <2> QED
    BY <2>1, <2>2
<1>12. ASSUME NEW g \in Tags, RemoveTag(g) \/ AddTag(g) PROVE TypeOK'
  BY <1>1, <1>11, <1>12
  DEF RemoveTag, AddTag, RequestsOK, TypeOK, WaveTypeOK, drawerVars, paneVars, waveVars, modeVars, fetchVars
<1>13. ASSUME NEW g \in Tags, CreateTag(g) PROVE TypeOK'
  <2>1. RequestsOK(requests')
    BY <1>13, AskedType, WebDrawerAssumption DEF CreateTag
  <2> QED
    BY <1>1, <1>13, <2>1
    DEF CreateTag, RequestsOK, TypeOK, WaveTypeOK, drawerVars, tagVars, paneVars, waveVars, modeVars, fetchVars
<1>14. ASSUME NEW what \in {"wave", "path", "metadata", "grid", "reanalyze"}, Edit(what)
       PROVE  TypeOK'
  <2>1. /\ detailWave.of \in Tracks \cup {None}
        /\ body.of \in Tracks => body.grid \in Tracks /\ body.grid # None
    BY DEF TypeOK, Body
  <2>2. \E of \in Tracks \ {None} : Asked(what, of, None, None)
    BY <1>14, <2>1, WebDrawerAssumption DEF Edit, Drawn
  <2>3. RequestsOK(requests')
    BY <2>2, AskedType
  <2> QED
    BY <1>1, <1>2, <1>14, <2>3
    DEF Edit, RequestsOK, TypeOK, WaveTypeOK, drawerVars, tagVars, paneVars, waveVars, modeVars, fetchVars
<1> QED
  BY <1>3, <1>4, <1>6, <1>7, <1>8, <1>9, <1>10, <1>12, <1>13, <1>14 DEF UserStep

\* So do the answers to edits.
LEMMA AnswerTypes ==
    ASSUME TypeOK, NEW r \in requests,
           \/ GotCreated(r) \/ GotCatalog(r) \/ GotWaveEdit(r) \/ GotPath(r) \/ GotMetadata(r)
           \/ GotGrid(r) \/ GotReanalyzed(r) \/ GotOffset(r) \/ GotNothing(r)
    PROVE  TypeOK'
<1>1. r \in Request /\ Named(r) /\ events \in 0 .. MaxEvents
  BY DEF TypeOK
<1>2. ASSUME Happens PROVE events' \in 0 .. MaxEvents
  BY <1>2, WebDrawerAssumption DEF Happens, TypeOK
<1>3. CASE GotCreated(r)
  <2>1. [r EXCEPT !.what = "catalog"] \in Request /\ Named([r EXCEPT !.what = "catalog"])
    BY <1>1, <1>3 DEF Request, Named, GotCreated
  <2> QED
    BY <1>3, <2>1
    DEF GotCreated, TypeOK, WaveTypeOK, drawerVars, tagVars, paneVars, waveVars, modeVars, fetchVars
<1>4. CASE GotCatalog(r)
  <2> DEFINE save == [r EXCEPT !.what = "tags", !.of = selected, !.tag = None, !.from = tagsFrom]
  <2>1. r.tag \in Tags
    BY <1>1, <1>4 DEF Request, Named, GotCatalog
  <2>2. save \in Request /\ (selected # None => Named(save))
    BY <1>1 DEF Request, TypeOK, Named
  <2>3. RequestsOK(requests') /\ drawerTags' \subseteq Tags
    BY <1>4, <2>1, <2>2 DEF GotCatalog, Done, RequestsOK, TypeOK
  <2>4. allTagsCache' \subseteq Tags /\ events' \in 0 .. MaxEvents
    BY <1>1, <1>2, <1>4, <2>1 DEF GotCatalog, TypeOK
  <2> QED
    BY <1>4, <2>3, <2>4
    DEF GotCatalog, RequestsOK, TypeOK, WaveTypeOK, drawerVars, paneVars, waveVars, modeVars,
        fetchVars
<1>5. CASE GotWaveEdit(r)
  <2>1. r.of \in Tracks
    BY <1>1, <1>5 DEF Request, Named, GotWaveEdit
  <2> QED
    BY <1>1, <1>5, <2>1, OpenedType DEF GotWaveEdit, Done, TypeOK, WaveTypeOK
<1>6. CASE GotPath(r)
  <2>1. r.of \in Tracks
    BY <1>1, <1>6 DEF Request, Named, GotPath
  <2> QED
    BY <1>1, <1>6, <2>1, OpenedType DEF GotPath, Done, TypeOK, WaveTypeOK
<1>7. CASE GotMetadata(r)
  <2>1. r.of \in Tracks /\ r.of # None
    BY <1>1, <1>7 DEF Request, Named, GotMetadata
  <2>2. BodyOK(body')
    BY <1>7, <2>1 DEF GotMetadata, BodyOK, TypeOK, Body
  <2> QED
    BY <1>7, <2>2
    DEF GotMetadata, Done, BodyOK, TypeOK, WaveTypeOK, tagVars, paneVars, waveVars, modeVars,
        fetchVars
<1>8. CASE GotGrid(r)
  <2>1. r.of \in Tracks /\ r.of # None
    BY <1>1, <1>8 DEF Request, Named, GotGrid
  <2>2. BodyOK(body')
    BY <1>8, <2>1 DEF GotGrid, BodyOK, TypeOK, Body
  <2> QED
    BY <1>8, <2>2
    DEF GotGrid, Done, BodyOK, TypeOK, WaveTypeOK, tagVars, paneVars, waveVars, modeVars,
        fetchVars
<1>9. CASE GotReanalyzed(r)
  <2>1. r.of \in Tracks
    BY <1>1, <1>9 DEF Request, Named, GotReanalyzed
  <2> QED
    BY <1>1, <1>9, <2>1, OpenedType DEF GotReanalyzed, Done, TypeOK, WaveTypeOK
<1>10. CASE GotOffset(r)
  BY <1>1, <1>10, OpenedType DEF GotOffset, Done, TypeOK, WaveTypeOK
<1>11. CASE GotNothing(r)
  BY <1>1, <1>2, <1>11
  DEF GotNothing, Done, TypeOK, WaveTypeOK, drawerVars, tagVars, paneVars, waveVars, modeVars,
      fetchVars
<1> QED
  BY <1>3, <1>4, <1>5, <1>6, <1>7, <1>8, <1>9, <1>10, <1>11

\* So do the answers to an opening, and to a request for related tracks.
LEMMA OpeningTypes ==
    ASSUME TypeOK,
           \/ \E o \in opens : GotDetail(o) \/ Dropped(o)
           \/ \E t \in Tracks : GotRelated(t)
    PROVE  TypeOK'
<1>1. ASSUME NEW o \in opens, GotDetail(o) PROVE TypeOK'
  <2>1. o.of \in Tracks /\ o.wave \in Styles \cup {"none"}
    BY <1>1 DEF GotDetail, TypeOK, Opening
  <2>2. opens' = opens \ {o}
        /\ UNCHANGED <<selected, picker, requests, modeVars, waveformCache, no3Band, lost>>
    BY <1>1 DEF GotDetail
  <2>3. PICK loaded \in BOOLEAN, found \in BOOLEAN :
           /\ IF loaded /\ found THEN UNCHANGED events ELSE Happens
           /\ LoadTags(o.of, loaded)
           /\ IF found
              THEN RenderDetail(o.of, IF style = o.style THEN o.wave ELSE "none")
              ELSE RenderFailed
    BY <1>1 DEF GotDetail
  <2>4. events' \in 0 .. MaxEvents
    BY <2>3, WebDrawerAssumption DEF Happens, TypeOK
  <2>5. drawerTagsLoaded' \in BOOLEAN /\ drawerTags' \subseteq Tags
        /\ tagsFrom' \in Tracks \cup {None} /\ allTagsCache' \subseteq Tags
    BY <2>1, <2>3 DEF LoadTags, TypeOK
  <2>6. /\ BodyOK(body')
        /\ relating' \subseteq Tracks
        /\ player' \in Tracks \cup {None}
        /\ detailWave' \in PaneType
        /\ draws' \subseteq Draw
        /\ inflight' \in Fetches
    <3>1. CASE found
      <4>1. RenderDetail(o.of, IF style = o.style THEN o.wave ELSE "none")
        BY <2>3, <3>1, Zenon
      <4>2. CASE style = o.style
        <5>1. RenderDetail(o.of, o.wave)
          BY <4>1, <4>2, Zenon
        <5> QED
          BY <2>1, <5>1, RenderDetailType
      <4>3. CASE style # o.style
        <5>1. RenderDetail(o.of, "none")
          BY <4>1, <4>3, Zenon
        <5> QED
          BY <2>1, <5>1, RenderDetailType
      <4> QED
        BY <4>2, <4>3
    <3>2. CASE ~found
      <4>1. RenderFailed
        BY <2>3, <3>2, Zenon
      <4> QED
        BY <4>1, WebDrawerAssumption
        DEF RenderFailed, NoBody, BodyOK, Body, PaneType, Fetches, TypeOK, WaveTypeOK
    <3> QED
      BY <3>1, <3>2
  <2> QED
    BY <2>2, <2>4, <2>5, <2>6
    DEF BodyOK, PaneType, Fetches, TypeOK, WaveTypeOK, modeVars
<1>2. ASSUME NEW o \in opens, Dropped(o) PROVE TypeOK'
  BY <1>2
  DEF Dropped, TypeOK, WaveTypeOK, tagVars, paneVars, waveVars, modeVars, fetchVars
<1>3. ASSUME NEW t \in Tracks, GotRelated(t) PROVE TypeOK'
  <2>1. BodyOK(body')
    BY <1>3 DEF GotRelated, BodyOK, TypeOK, Body
  <2> QED
    BY <1>3, <2>1
    DEF GotRelated, BodyOK, TypeOK, WaveTypeOK, tagVars, paneVars, waveVars, modeVars, fetchVars
<1> QED
  BY <1>1, <1>2, <1>3

\* So do the answers to a fetch of a waveform.
LEMMA WaveTypes ==
    ASSUME TypeOK, NEW key \in Keys, GotWave(key) \/ LoseWave(key)
    PROVE  TypeOK'
<1>1. events' \in 0 .. MaxEvents
  <2>1. UNCHANGED events \/ Happens
    BY Zenon DEF GotWave, LoseWave
  <2> QED
    BY <2>1, WebDrawerAssumption DEF Happens, TypeOK
<1>2. PICK keys, data : Deliver(keys, data) /\ data \in Styles \cup {"none"}
  <2>1. DataOf(key) \in Styles
    BY DEF DataOf, Styles
  <2>2. "spectral" \in Styles
    BY DEF Styles
  <2> QED
    BY <2>1, <2>2, Zenon DEF GotWave, LoseWave
<1>3. \/ FetchOK(key)
      \/ FetchFails(key)
      \/ \E failed \in BOOLEAN : FallBack(key, failed)
  <2>1. TRUE \in BOOLEAN /\ FALSE \in BOOLEAN
    OBVIOUS
  <2> QED
    BY <2>1, Zenon DEF GotWave, LoseWave
<1>4. opens' \subseteq Opening /\ draws' \subseteq Draw /\ detailWave' \in PaneType
  BY <1>2, DeliverType
<1>5. waveformCache' \subseteq Keys /\ no3Band' \subseteq Flat /\ inflight' \in Fetches
      /\ lost' \in BOOLEAN
  BY <1>3, FetchType
<1>6. UNCHANGED <<selected, body, relating, tagVars, picker, player, requests, modeVars>>
  BY <1>2 DEF Deliver
<1> QED
  BY <1>1, <1>4, <1>5, <1>6 DEF PaneType, Fetches, TypeOK, WaveTypeOK, tagVars, modeVars

\* Every step keeps the types.
LEMMA TypeStep ==
    ASSUME TypeOK, [Next]_vars
    PROVE  TypeOK'
<1>1. CASE UserStep
  BY <1>1, UserTypes
<1>2. CASE AnswerStep
  BY <1>2, AnswerTypes DEF AnswerStep
<1>3. CASE ShowTagPicker
  BY <1>3
  DEF ShowTagPicker, TypeOK, WaveTypeOK, drawerVars, tagVars, paneVars, waveVars, modeVars,
      fetchVars
<1>4. CASE Repaint
  <2>1. style \in Styles /\ (selected \in Tracks \/ selected = None)
    BY DEF TypeOK, WaveTypeOK
  <2>2. detailWave' \in PaneType /\ draws' \subseteq Draw /\ inflight' \in Fetches
    BY <1>4, <2>1, WhenDetailWaveType
    DEF Repaint, Redraw, TypeOK, WaveTypeOK, PaneType, Fetches
  <2> QED
    BY <1>4, <2>2
    DEF Repaint, Redraw, TypeOK, WaveTypeOK, PaneType, Fetches, drawerVars, tagVars
<1>5. CASE \E o \in opens : GotDetail(o) \/ Dropped(o)
  BY <1>5, OpeningTypes
<1>6. CASE \E t \in Tracks : GotRelated(t)
  BY <1>6, OpeningTypes
<1>7. CASE \E key \in Keys : GotWave(key) \/ LoseWave(key)
  BY <1>7, WaveTypes
<1>8. CASE UNCHANGED vars
  BY <1>8
  DEF vars, TypeOK, WaveTypeOK, Named, drawerVars, tagVars, paneVars, waveVars, modeVars, fetchVars
<1> QED
  BY <1>1, <1>2, <1>3, <1>4, <1>5, <1>6, <1>7, <1>8 DEF Next

----------------------------------------------------------------------------
(***************************************************************************)
(* What is shown is of the selected track.                                 *)
(***************************************************************************)

Held == ShownIsSelected /\ LoadedFromATrack /\ NeverWiped /\ PaneIsOfShown

\* An opening empties the body as it selects the track.
LEMMA OpenedHeld ==
    ASSUME TypeOK, Held, NEW cache,
           \/ \E t \in Tracks : OpenDetail(t, cache)
           \/ UNCHANGED drawerVars,
           UNCHANGED <<drawerTagsLoaded, tagsFrom, detailWave, player>>,
           requests' \subseteq requests
    PROVE  Held'
<1>1. CASE UNCHANGED drawerVars
  BY <1>1
  DEF Held, ShownIsSelected, LoadedFromATrack, NeverWiped, PaneIsOfShown, Shown, drawerVars
<1>2. CASE \E t \in Tracks : OpenDetail(t, cache)
  <2>1. selected' \in Tracks /\ body' = NoBody("loading")
    BY <1>2 DEF OpenDetail
  <2>2. body'.of = "loading" /\ body'.of # selected'
    BY <2>1, WebDrawerAssumption DEF NoBody
  <2> QED
    BY <2>2
    DEF Held, ShownIsSelected, LoadedFromATrack, NeverWiped, PaneIsOfShown, Shown
<1> QED
  BY <1>1, <1>2

\* What was loaded for a track comes from it, so what is saved was loaded.
LEMMA SavedHeld ==
    ASSUME TypeOK, Held, drawerTagsLoaded,
           UNCHANGED <<selected, body, drawerTagsLoaded, tagsFrom, detailWave, player>>,
           \A r \in requests' : r \in requests \/ r.what # "tags" \/ r.from = tagsFrom
    PROVE  Held'
BY DEF Held, ShownIsSelected, LoadedFromATrack, NeverWiped, PaneIsOfShown, Shown

\* What is asked for without the tags leaves all of it alone.
LEMMA OthersHeld ==
    ASSUME TypeOK, Held,
           UNCHANGED <<selected, body, drawerTagsLoaded, tagsFrom, detailWave>>,
           player' = player \/ player' \in {None, detailWave.of},
           \A r \in requests' : r \in requests \/ r.what # "tags"
    PROVE  Held'
BY DEF Held, ShownIsSelected, LoadedFromATrack, NeverWiped, PaneIsOfShown, Shown

\* What Asked adds is what was asked for.
LEMMA AskedAdds ==
    ASSUME NEW what, NEW of, NEW tag, NEW from, Asked(what, of, tag, from)
    PROVE  \A r \in requests' : r \in requests \/ (r.what = what /\ r.from = from)
BY DEF Asked

\* A drawing of the selected track, at once or later, leaves the pane of a body
\* drawn with its waveform on that track.
LEMMA RedrawHeld ==
    ASSUME TypeOK, Held,
           UNCHANGED <<selected, body, drawerTagsLoaded, tagsFrom, player, requests>>,
           \/ UNCHANGED detailWave
           \/ detailWave'.of = detailWave.of
           \/ selected # None /\ detailWave'.of = selected
    PROVE  Held'
BY DEF Held, ShownIsSelected, LoadedFromATrack, NeverWiped, PaneIsOfShown, Shown

\* The user's actions keep it.
LEMMA UserHeld ==
    ASSUME TypeOK, Held, UserStep
    PROVE  Held'
<1>1. ASSUME NEW t \in Tracks, Click(t) PROVE Held'
  <2>1. OpenDetail(t, waveformCache)
    BY <1>1 DEF Click
  <2> QED
    BY <1>1, <2>1, OpenedHeld DEF Click, tagVars, paneVars
<1>2. CASE CloseDetail
  BY <1>2
  DEF CloseDetail, tagVars, Held, ShownIsSelected, LoadedFromATrack, NeverWiped, PaneIsOfShown,
      Shown
<1>3. CASE CycleWaveColor
  <2>1. detailWave' = detailWave \/ detailWave'.of = detailWave.of
    BY <1>3 DEF CycleWaveColor, Redraw, WhenDetailWave, Pane
  <2> QED
    BY <1>3, <2>1, RedrawHeld DEF CycleWaveColor, drawerVars, tagVars
<1>4. CASE ChangeSetting
  BY <1>4, OthersHeld DEF ChangeSetting, drawerVars, tagVars, paneVars
<1>5. CASE Play
  BY <1>5, OthersHeld DEF Play, drawerVars, tagVars
<1>6. CASE OpenTagPicker
  BY <1>6, OthersHeld DEF OpenTagPicker, drawerVars, tagVars, paneVars
<1>7. CASE ApplyGridOffset
  <2>1. Asked("offset", None, None, None)
    BY <1>7 DEF ApplyGridOffset
  <2> QED
    BY <1>7, <2>1, AskedAdds, OthersHeld DEF ApplyGridOffset, drawerVars, tagVars, paneVars
<1>8. ASSUME SaveTrackTags
      PROVE  \A r \in requests' : r \in requests \/ r.what # "tags" \/ r.from = tagsFrom
  BY <1>8, AskedAdds DEF SaveTrackTags
<1>9. ASSUME NEW g \in Tags, RemoveTag(g) PROVE Held'
  BY <1>8, <1>9, SavedHeld DEF RemoveTag, drawerVars, paneVars
<1>10. ASSUME NEW g \in Tags, AddTag(g) PROVE Held'
  BY <1>8, <1>10, SavedHeld DEF AddTag, CanAdd, drawerVars, paneVars
<1>11. ASSUME NEW g \in Tags, CreateTag(g) PROVE Held'
  <2>1. Asked("create", None, g, None)
    BY <1>11 DEF CreateTag
  <2> QED
    BY <1>11, <2>1, AskedAdds, OthersHeld DEF CreateTag, drawerVars, tagVars, paneVars
<1>12. ASSUME NEW what \in {"wave", "path", "metadata", "grid", "reanalyze"}, Edit(what)
       PROVE  Held'
  <2>1. PICK of : Asked(what, of, None, None)
    BY <1>12 DEF Edit
  <2> QED
    BY <1>12, <2>1, AskedAdds, OthersHeld DEF Edit, drawerVars, tagVars, paneVars
<1> QED
  BY <1>1, <1>2, <1>3, <1>4, <1>5, <1>6, <1>7, <1>9, <1>10, <1>11, <1>12 DEF UserStep

\* The answers to edits keep it: an edit of tags follows another only when the
\* tags shown were loaded.
LEMMA AnswerHeld ==
    ASSUME TypeOK, Held, NEW r \in requests,
           \/ GotCreated(r) \/ GotCatalog(r) \/ GotWaveEdit(r) \/ GotPath(r) \/ GotMetadata(r)
           \/ GotGrid(r) \/ GotReanalyzed(r) \/ GotOffset(r) \/ GotNothing(r)
    PROVE  Held'
<1>1. r \in Request /\ Named(r)
  BY DEF TypeOK
<1>2. CASE GotCreated(r)
  <2>1. [r EXCEPT !.what = "catalog"].what # "tags"
    BY <1>1 DEF Request
  <2>2. \A x \in requests' : x \in requests \/ x.what # "tags"
    BY <1>2, <2>1 DEF GotCreated
  <2> QED
    BY <1>2, <2>2, OthersHeld DEF GotCreated, drawerVars, tagVars, paneVars
<1>3. CASE GotCatalog(r)
  <2> DEFINE save == [r EXCEPT !.what = "tags", !.of = selected, !.tag = None, !.from = tagsFrom]
  <2>1. UNCHANGED <<selected, body, drawerTagsLoaded, tagsFrom, detailWave, player>>
    BY <1>3 DEF GotCatalog, drawerVars, paneVars
  <2>2. save.from = tagsFrom
    BY <1>1 DEF Request
  <2>3. CASE drawerTagsLoaded
    <3>1. \A x \in requests' : x \in requests \/ x.from = tagsFrom
      BY <1>3, <2>2 DEF GotCatalog, Done
    <3> QED
      BY <2>1, <2>3, <3>1, SavedHeld
  <2>4. CASE ~drawerTagsLoaded
    <3>1. requests' \subseteq requests
      BY <1>3, <2>4 DEF GotCatalog, CanAdd, Done
    <3> QED
      BY <2>1, <3>1, OthersHeld
  <2> QED
    BY <2>3, <2>4
<1>4. CASE GotWaveEdit(r)
  <2>1. r.of \in Tracks
    BY <1>1, <1>4 DEF Request, Named, GotWaveEdit
  <2> QED
    BY <1>4, <2>1, OpenedHeld DEF GotWaveEdit, Done, tagVars, paneVars
<1>5. CASE GotPath(r)
  <2>1. r.of \in Tracks
    BY <1>1, <1>5 DEF Request, Named, GotPath
  <2> QED
    BY <1>5, <2>1, OpenedHeld DEF GotPath, Done, tagVars, paneVars
<1>6. CASE GotMetadata(r) \/ GotGrid(r)
  <2>1. body'.of = body.of /\ body'.waved = body.waved /\ body'.related = body.related
    BY <1>6 DEF GotMetadata, GotGrid, TypeOK, Body
  <2> QED
    BY <1>6, <2>1
    DEF GotMetadata, GotGrid, Done, tagVars, paneVars, Held, ShownIsSelected, LoadedFromATrack,
        NeverWiped, PaneIsOfShown, Shown
<1>7. CASE GotReanalyzed(r)
  <2>1. r.of \in Tracks
    BY <1>1, <1>7 DEF Request, Named, GotReanalyzed
  <2> QED
    BY <1>7, <2>1, OpenedHeld DEF GotReanalyzed, Done, tagVars, paneVars
<1>8. CASE GotOffset(r)
  <2>1. selected = None \/ selected \in Tracks
    BY DEF TypeOK
  <2> QED
    BY <1>8, <2>1, OpenedHeld DEF GotOffset, Done, tagVars, paneVars
<1>9. CASE GotNothing(r)
  BY <1>9, OthersHeld DEF GotNothing, Done, drawerVars, tagVars, paneVars
<1> QED
  BY <1>2, <1>3, <1>4, <1>5, <1>6, <1>7, <1>8, <1>9

\* What a drawn body is, whatever wave it is drawn with.
LEMMA RenderDetailDraws ==
    ASSUME TypeOK, NEW t \in Tracks, NEW wave \in Styles \cup {"none"}, RenderDetail(t, wave)
    PROVE  /\ body'.of = t /\ body'.related = None
           /\ player' \in {None, t}
           /\ body'.waved => detailWave'.of = t
<1>1. CASE wave = "none"
  <2>1. (wave # "none") = FALSE
    BY <1>1
  <2>2. body' = [of |-> t, waved |-> FALSE, head |-> t, grid |-> t, related |-> None]
    BY <2>1, Zenon DEF RenderDetail
  <2>3. player' = IF player = t THEN player ELSE None
    BY Zenon DEF RenderDetail
  <2> QED
    BY <2>2, <2>3
<1>2. CASE wave # "none"
  <2>1. \E waved : body' = [of |-> t, waved |-> waved, head |-> t, grid |-> t, related |-> None]
    BY Zenon DEF RenderDetail
  <2>2. player' = IF player = t THEN player ELSE None
    BY Zenon DEF RenderDetail
  <2>3. detailWave' = Pane("render", t, wave)
    BY <1>2, Zenon DEF RenderDetail
  <2> QED
    BY <2>1, <2>2, <2>3 DEF Pane
<1> QED
  BY <1>1, <1>2

\* An opening is drawn only for the track selected, and others are dropped.
LEMMA OpeningHeld ==
    ASSUME TypeOK, Held,
           \/ \E o \in opens : GotDetail(o) \/ Dropped(o)
           \/ \E t \in Tracks : GotRelated(t)
    PROVE  Held'
<1>1. ASSUME NEW o \in opens, GotDetail(o) PROVE Held'
  <2>1. o.of \in Tracks /\ o.wave \in Styles \cup {"none"} /\ selected = o.of /\ o.of # None
    BY <1>1, WebDrawerAssumption DEF GotDetail, TypeOK, Opening
  <2>2. UNCHANGED <<selected, requests>>
    BY <1>1 DEF GotDetail
  <2>3. PICK loaded \in BOOLEAN, found \in BOOLEAN :
           /\ LoadTags(o.of, loaded)
           /\ IF found
              THEN RenderDetail(o.of, IF style = o.style THEN o.wave ELSE "none")
              ELSE RenderFailed
    BY <1>1 DEF GotDetail
  <2>4. drawerTagsLoaded' = loaded /\ tagsFrom' = IF loaded THEN o.of ELSE None
    BY <2>3 DEF LoadTags
  <2>5. CASE ~found
    <3>1. RenderFailed
      BY <2>3, <2>5, Zenon
    <3>2. body'.of = "failed" /\ body'.of # selected'
      BY <2>1, <2>2, <3>1, WebDrawerAssumption DEF RenderFailed, NoBody
    <3> QED
      BY <2>1, <2>2, <2>4, <3>2
      DEF Held, ShownIsSelected, LoadedFromATrack, NeverWiped, PaneIsOfShown, Shown
  <2>6. CASE found
    <3>1. RenderDetail(o.of, IF style = o.style THEN o.wave ELSE "none")
      BY <2>3, <2>6, Zenon
    <3>2. PICK wave : wave \in Styles \cup {"none"} /\ RenderDetail(o.of, wave)
      <4>1. CASE style = o.style
        <5>1. RenderDetail(o.of, o.wave)
          BY <3>1, <4>1, Zenon
        <5> QED
          BY <2>1, <5>1, Zenon
      <4>2. CASE style # o.style
        <5>1. RenderDetail(o.of, "none")
          BY <3>1, <4>2, Zenon
        <5>2. "none" \in Styles \cup {"none"}
          OBVIOUS
        <5> QED
          BY <5>1, <5>2, Zenon
      <4> QED
        BY <4>1, <4>2
    <3>3. /\ body'.of = o.of /\ body'.related = None
          /\ player' \in {None, o.of}
          /\ body'.waved => detailWave'.of = o.of
      BY <2>1, <3>2, RenderDetailDraws
    <3> QED
      BY <2>1, <2>2, <2>4, <3>3
      DEF Held, ShownIsSelected, LoadedFromATrack, NeverWiped, PaneIsOfShown, Shown
  <2> QED
    BY <2>5, <2>6
<1>2. ASSUME NEW o \in opens, Dropped(o) PROVE Held'
  BY <1>2, OthersHeld DEF Dropped, tagVars, paneVars
<1>3. ASSUME NEW t \in Tracks, GotRelated(t) PROVE Held'
  <2>1. body'.of = body.of /\ body'.waved = body.waved
        /\ (body'.related = body.related \/ (selected = t /\ body'.related = t))
    BY <1>3 DEF GotRelated, TypeOK, Body
  <2> QED
    BY <1>3, <2>1
    DEF GotRelated, tagVars, paneVars, Held, ShownIsSelected, LoadedFromATrack, NeverWiped,
        PaneIsOfShown, Shown
<1> QED
  BY <1>1, <1>2, <1>3

\* A waveform that comes is drawn for the track selected, or not at all.
LEMMA WaveHeld ==
    ASSUME TypeOK, Held, NEW key \in Keys, GotWave(key) \/ LoseWave(key)
    PROVE  Held'
<1>1. PICK keys, data : Deliver(keys, data)
  BY Zenon DEF GotWave, LoseWave
<1>2. UNCHANGED <<selected, body, drawerTagsLoaded, tagsFrom, player, requests>>
  BY <1>1 DEF Deliver, tagVars
<1>3. UNCHANGED detailWave \/ \E w \in Late(keys) : detailWave' = Pane(w.what, w.of, data)
  BY <1>1 DEF Deliver
<1>4. ASSUME NEW w \in Late(keys), detailWave' = Pane(w.what, w.of, data)
      PROVE  detailWave'.of = detailWave.of \/ (selected # None /\ detailWave'.of = selected)
  <2>1. w.of = selected /\ w.of \in Tracks
    BY DEF Late, TypeOK, Draw
  <2> QED
    BY <1>4, <2>1, WebDrawerAssumption DEF Pane
<1> QED
  BY <1>2, <1>3, <1>4, RedrawHeld

\* Every step keeps it.
LEMMA HeldStep ==
    ASSUME TypeOK, Held, [Next]_vars
    PROVE  Held'
<1>1. CASE UserStep
  BY <1>1, UserHeld
<1>2. CASE AnswerStep
  BY <1>2, AnswerHeld DEF AnswerStep
<1>3. CASE ShowTagPicker
  BY <1>3, OthersHeld DEF ShowTagPicker, drawerVars, tagVars, paneVars
<1>4. CASE Repaint
  <2>1. detailWave' = detailWave \/ detailWave'.of = detailWave.of
    BY <1>4 DEF Repaint, Redraw, WhenDetailWave, Pane
  <2> QED
    BY <1>4, <2>1, RedrawHeld DEF Repaint, drawerVars, tagVars
<1>5. CASE \E o \in opens : GotDetail(o) \/ Dropped(o)
  BY <1>5, OpeningHeld
<1>6. CASE \E t \in Tracks : GotRelated(t)
  BY <1>6, OpeningHeld
<1>7. CASE \E key \in Keys : GotWave(key) \/ LoseWave(key)
  BY <1>7, WaveHeld
<1>8. CASE UNCHANGED vars
  BY <1>8, OthersHeld DEF vars, drawerVars, tagVars, paneVars
<1> QED
  BY <1>1, <1>2, <1>3, <1>4, <1>5, <1>6, <1>7, <1>8 DEF Next

----------------------------------------------------------------------------
(***************************************************************************)
(* What waits for data fits the data it gets.                              *)
(***************************************************************************)

Fit == WavesFit /\ WaveMatchesStyle

\* Data that fit are the ones to draw.
LEMMA FitsIsDataFor ==
    ASSUME no3Band \subseteq Flat, NEW t \in Tracks, NEW mode \in Styles,
           NEW data \in Styles \cup {"none"}, DataFit(data, t, mode), ~lost
    PROVE  data = DataFor(t, mode)
BY DEF DataFit, DataFor, Styles

\* What is cached for a track and a mode fits them.
LEMMA CachedFits ==
    ASSUME CacheFits, NEW t \in Tracks, NEW mode \in Styles
    PROVE  /\ KeyFits(KeyFor(t, mode), t, mode)
           /\ KeyFor(t, mode) \in waveformCache =>
                 /\ DataFit(DataOf(KeyFor(t, mode)), t, mode)
                 /\ DataOf(KeyFor(t, mode)) = DataFor(t, mode)
                 /\ DataOf(KeyFor(t, mode)) = "3band" => t \notin Flat
<1>1. CASE mode = "3band" /\ t \notin no3Band
  <2>1. KeyFor(t, mode) = <<"detail3band", t>> /\ DataFor(t, mode) = "3band"
    BY <1>1 DEF KeyFor, DataFor
  <2> QED
    BY <1>1, <2>1 DEF KeyFits, DataFit, DataOf, CacheFits
<1>2. CASE ~(mode = "3band" /\ t \notin no3Band)
  <2>1. KeyFor(t, mode) = <<"detail", t>> /\ DataFor(t, mode) = "spectral"
    BY <1>2 DEF KeyFor, DataFor
  <2> QED
    BY <1>2, <2>1 DEF KeyFits, DataFit, DataOf
<1> QED
  BY <1>1, <1>2

\* A fetch that is started is no fallback.
LEMMA EnsuredFallbacks ==
    ASSUME TypeOK, FallbackKnown, NEW key \in Keys,
           inflight' = Ensured(inflight, key), UNCHANGED <<no3Band, lost>>
    PROVE  FallbackKnown'
<1>1. ASSUME NEW k \in Keys, inflight'[k] = "fallback" PROVE inflight[k] = "fallback"
  BY <1>1 DEF Ensured, TypeOK, WaveTypeOK
<1>2. \A t \in Tracks : <<"detail3band", t>> \in Keys
  BY DEF Keys, Kinds
<1> QED
  BY <1>1, <1>2 DEF FallbackKnown

\* A drawing that may have to wait is done, or waits for what fits it.
LEMMA WaitFits ==
    ASSUME TypeOK, WavesFit, NEW what \in {"render", "restyle"}, NEW t \in Tracks,
           NEW mode \in Styles, WhenDetailWave(what, t, mode), UNCHANGED <<no3Band, lost>>
    PROVE  /\ DrawsFit' /\ FallbackKnown' /\ PaneFits'
           /\ \/ detailWave'.waveOf = t /\ detailWave'.wave = DataFor(t, mode)
              \/ \E w \in draws' : w.of = t /\ w.style = mode
<1> DEFINE key == KeyFor(t, mode)
<1>1. key \in Keys
  BY KeyForType
<1>2. /\ KeyFits(key, t, mode)
      /\ key \in waveformCache => /\ DataOf(key) = DataFor(t, mode)
                                  /\ DataOf(key) = "3band" => t \notin Flat
  BY CachedFits DEF WavesFit
<1>3. CASE key \in waveformCache
  <2>1. detailWave' = Pane(what, t, DataOf(key)) /\ UNCHANGED <<draws, inflight>>
    BY <1>3 DEF WhenDetailWave
  <2>2. detailWave'.waveOf = t /\ detailWave'.wave = DataOf(key)
    BY <2>1 DEF Pane
  <2> QED
    BY <1>2, <1>3, <2>1, <2>2
    DEF WavesFit, DrawsFit, KeyFits, FallbackKnown, PaneFits
<1>4. CASE key \notin waveformCache
  <2> DEFINE w == [what |-> what, of |-> t, style |-> mode, key |-> key]
  <2>1. draws' = draws \cup {w} /\ inflight' = Ensured(inflight, key) /\ UNCHANGED detailWave
    BY <1>4 DEF WhenDetailWave
  <2>2. w.of = t /\ w.style = mode /\ w.key = key
    OBVIOUS
  <2>3. DrawsFit'
    BY <1>2, <2>1, <2>2 DEF WavesFit, DrawsFit, KeyFits
  <2>4. FallbackKnown'
    BY <1>1, <2>1, EnsuredFallbacks DEF WavesFit
  <2> QED
    BY <2>1, <2>2, <2>3, <2>4 DEF WavesFit, PaneFits
<1> QED
  BY <1>3, <1>4

\* Steps that leave the waves and what waits for them alone.
LEMMA OthersFit ==
    ASSUME Fit, UNCHANGED <<waveVars, draws, detailWave>>, opens' \subseteq opens,
           Shown' => Shown /\ selected' = selected
    PROVE  Fit'
<1>1. WavesFit'
  BY DEF Fit, WavesFit, CacheFits, DrawsFit, KeyFits, OpensFit, DataFit, FallbackKnown,
         PaneFits, waveVars, modeVars, fetchVars
<1>2. WaveMatchesStyle'
  BY DEF Fit, WaveMatchesStyle, DataFor, waveVars, modeVars, fetchVars
<1> QED
  BY <1>1, <1>2 DEF Fit

\* An opening has data that fit it, or waits for them.
LEMMA OpenedFits ==
    ASSUME TypeOK, Fit, NEW cache, cache \subseteq waveformCache,
           \/ \E t \in Tracks : OpenDetail(t, cache)
           \/ UNCHANGED <<drawerVars, inflight>>,
           UNCHANGED <<detailWave, draws, modeVars, no3Band, lost>>,
           waveformCache' \subseteq waveformCache
    PROVE  Fit'
<1>1. CacheFits' /\ DrawsFit' /\ PaneFits'
  BY DEF Fit, WavesFit, CacheFits, DrawsFit, KeyFits, PaneFits
<1>2. CASE UNCHANGED <<drawerVars, inflight>>
  <2>1. OpensFit' /\ FallbackKnown'
    BY <1>2 DEF Fit, WavesFit, OpensFit, KeyFits, DataFit, FallbackKnown, drawerVars
  <2>2. WaveMatchesStyle'
    BY <1>2 DEF Fit, WaveMatchesStyle, DataFor, Shown, drawerVars, modeVars
  <2> QED
    BY <1>1, <2>1, <2>2 DEF Fit, WavesFit
<1>3. ASSUME NEW t \in Tracks, OpenDetail(t, cache) PROVE Fit'
  <2> DEFINE key == KeyFor(t, style)
             o == [slot |-> AnyOf(Free(1 .. MaxOpens, opens)), of |-> t, style |-> style,
                   key |-> key, wave |-> IF key \in cache THEN DataOf(key) ELSE "waiting"]
  <2>1. style \in Styles /\ key \in Keys
    BY KeyForType DEF TypeOK, WaveTypeOK
  <2>2. KeyFits(key, t, style) /\ (key \in waveformCache => DataFit(DataOf(key), t, style))
    BY <2>1, CachedFits DEF Fit, WavesFit
  <2>3. DataFit("waiting", t, style)
    BY DEF DataFit
  <2>4. o.of = t /\ o.style = style /\ o.key = key
        /\ o.wave = IF key \in cache THEN DataOf(key) ELSE "waiting"
    OBVIOUS
  <2>5. KeyFits(o.key, o.of, o.style) /\ DataFit(o.wave, o.of, o.style)
    BY <2>2, <2>3, <2>4
  <2>6. opens' = opens \cup {o}
    BY <1>3 DEF OpenDetail
  <2>7. OpensFit'
    BY <2>5, <2>6 DEF Fit, WavesFit, OpensFit, KeyFits, DataFit
  <2>8. FallbackKnown'
    <3>1. CASE UNCHANGED inflight
      BY <3>1 DEF Fit, WavesFit, FallbackKnown
    <3>2. CASE inflight' = Ensured(inflight, key)
      BY <2>1, <3>2, EnsuredFallbacks DEF Fit, WavesFit
    <3> QED
      BY <1>3, <3>1, <3>2 DEF OpenDetail
  <2>9. ~Shown'
    BY <1>3, WebDrawerAssumption DEF OpenDetail, Shown, NoBody
  <2> QED
    BY <1>1, <2>7, <2>8, <2>9 DEF Fit, WavesFit, WaveMatchesStyle
<1> QED
  BY <1>2, <1>3

\* A drawing again in the mode there is from now on.
LEMMA RedrawFits ==
    ASSUME TypeOK, Fit, Redraw(style'), style' \in Styles,
           UNCHANGED <<drawerVars, waveformCache, no3Band, lost>>
    PROVE  Fit'
<1>1. CacheFits' /\ OpensFit'
  BY DEF Fit, WavesFit, CacheFits, OpensFit, KeyFits, DataFit, drawerVars
<1>2. CASE selected = None
  <2>1. UNCHANGED <<detailWave, draws, inflight>>
    BY <1>2 DEF Redraw
  <2>2. ~Shown'
    BY <1>2 DEF Shown, drawerVars
  <2> QED
    BY <1>1, <2>1, <2>2
    DEF Fit, WavesFit, DrawsFit, KeyFits, FallbackKnown, PaneFits, WaveMatchesStyle
<1>3. CASE selected # None
  <2>1. selected \in Tracks /\ WhenDetailWave("restyle", selected, style')
    BY <1>3 DEF Redraw, TypeOK
  <2>2. WavesFit
    BY DEF Fit
  <2>3. /\ DrawsFit' /\ FallbackKnown' /\ PaneFits'
        /\ \/ detailWave'.waveOf = selected /\ detailWave'.wave = DataFor(selected, style')
           \/ \E w \in draws' : w.of = selected /\ w.style = style'
    BY <2>1, <2>2, WaitFits
  <2>4. WaveMatchesStyle'
    BY <2>3 DEF WaveMatchesStyle, DataFor, drawerVars
  <2> QED
    BY <1>1, <2>3, <2>4 DEF Fit, WavesFit
<1> QED
  BY <1>2, <1>3

\* A body drawn with the wave of an opening, or without one.
LEMMA RenderFits ==
    ASSUME TypeOK, Fit, NEW t \in Tracks, NEW wave \in Styles \cup {"none"},
           RenderDetail(t, wave), wave # "none" => DataFit(wave, t, style),
           opens' \subseteq opens, selected = t,
           UNCHANGED <<selected, modeVars, waveformCache, no3Band, lost>>
    PROVE  Fit'
<1>1. CacheFits' /\ OpensFit' /\ style \in Styles /\ no3Band \subseteq Flat /\ UNCHANGED style
  BY DEF Fit, WavesFit, CacheFits, OpensFit, KeyFits, DataFit, modeVars, TypeOK, WaveTypeOK
<1>2. CASE wave = "none"
  <2>1. WhenDetailWave("render", t, style)
    BY <1>2, Zenon DEF RenderDetail
  <2>2. /\ DrawsFit' /\ FallbackKnown' /\ PaneFits'
        /\ \/ detailWave'.waveOf = t /\ detailWave'.wave = DataFor(t, style)
           \/ \E w \in draws' : w.of = t /\ w.style = style
    BY <1>1, <2>1, WaitFits DEF Fit
  <2>3. WaveMatchesStyle'
    BY <1>1, <2>2 DEF WaveMatchesStyle, DataFor
  <2> QED
    BY <1>1, <2>2, <2>3 DEF Fit, WavesFit
<1>3. CASE wave # "none"
  <2>1. detailWave' = Pane("render", t, wave) /\ UNCHANGED <<draws, inflight>>
    BY <1>3, Zenon DEF RenderDetail
  <2>2. detailWave'.waveOf = t /\ detailWave'.wave = wave
    BY <2>1 DEF Pane
  <2>3. DrawsFit' /\ FallbackKnown'
    BY <2>1 DEF Fit, WavesFit, DrawsFit, KeyFits, FallbackKnown
  <2>4. PaneFits'
    BY <1>3, <2>2 DEF PaneFits, DataFit
  <2>5. ~lost => wave = DataFor(t, style)
    BY <1>1, <1>3, FitsIsDataFor
  <2>6. WaveMatchesStyle'
    BY <1>1, <2>2, <2>5 DEF WaveMatchesStyle, DataFor
  <2> QED
    BY <1>1, <2>3, <2>4, <2>6 DEF Fit, WavesFit
<1> QED
  BY <1>2, <1>3

\* An opening drawn in the mode it was asked for in has the wave of that mode;
\* in another mode its wave is not used.
LEMMA OpeningFits ==
    ASSUME TypeOK, Fit,
           \/ \E o \in opens : GotDetail(o) \/ Dropped(o)
           \/ \E t \in Tracks : GotRelated(t)
    PROVE  Fit'
<1>1. ASSUME NEW o \in opens, GotDetail(o) PROVE Fit'
  <2>1. o.of \in Tracks /\ o.wave \in Styles \cup {"none"} /\ selected = o.of
    BY <1>1 DEF GotDetail, TypeOK, Opening
  <2>2. /\ opens' \subseteq opens
        /\ UNCHANGED <<selected, modeVars, waveformCache, no3Band, lost>>
    BY <1>1 DEF GotDetail
  <2>3. PICK found \in BOOLEAN :
            IF found THEN RenderDetail(o.of, IF style = o.style THEN o.wave ELSE "none")
            ELSE RenderFailed
    BY <1>1, Zenon DEF GotDetail
  <2>4. DataFit(o.wave, o.of, o.style)
    BY DEF Fit, WavesFit, OpensFit
  <2>5. CASE found /\ style = o.style
    <3>1. RenderDetail(o.of, o.wave)
      BY <2>3, <2>5, Zenon
    <3>2. DataFit(o.wave, o.of, style)
      BY <2>4, <2>5
    <3> QED
      BY <2>1, <2>2, <3>1, <3>2, RenderFits
  <2>6. CASE found /\ style # o.style
    <3>1. RenderDetail(o.of, "none")
      BY <2>3, <2>6, Zenon
    <3> QED
      BY <2>1, <2>2, <3>1, RenderFits
  <2>7. CASE ~found
    <3>1. RenderFailed
      BY <2>3, <2>7, Zenon
    <3>2. ~Shown'
      BY <2>1, <2>2, <3>1, WebDrawerAssumption DEF RenderFailed, NoBody, Shown
    <3>3. UNCHANGED <<waveVars, draws, detailWave>>
      BY <2>2, <3>1 DEF RenderFailed, waveVars, fetchVars
    <3> QED
      BY <2>2, <3>2, <3>3, OthersFit
  <2> QED
    BY <2>5, <2>6, <2>7
<1>2. ASSUME NEW o \in opens, Dropped(o) PROVE Fit'
  BY <1>2, OthersFit DEF Dropped, paneVars, Shown
<1>3. ASSUME NEW t \in Tracks, GotRelated(t) PROVE Fit'
  <2>1. body'.of = body.of
    BY <1>3 DEF GotRelated, TypeOK, Body
  <2> QED
    BY <1>3, <2>1, OthersFit DEF GotRelated, paneVars, Shown
<1> QED
  BY <1>1, <1>2, <1>3

\* The data that an answer brings fit every request that waits for the keys it
\* is an answer to.
Brings(keys, data) ==
    \A k \in keys, t \in Tracks, mode \in Styles :
        KeyFits(k, t, mode) => DataFit(data, t, mode)'

\* What fitted before fits after an answer.
LEMMA StillFits ==
    ASSUME no3Band \subseteq no3Band', lost => lost', NEW t, NEW mode
    PROVE  /\ \A key : KeyFits(key, t, mode) => KeyFits(key, t, mode)'
           /\ \A data : DataFit(data, t, mode) => DataFit(data, t, mode)'
BY DEF KeyFits, DataFit

\* What comes fits what was asked for, and leaves all else as it fitted.
LEMMA DeliverFits ==
    ASSUME TypeOK, TypeOK', Fit, NEW keys, NEW data \in Styles \cup {"none"},
           Deliver(keys, data), Brings(keys, data),
           no3Band \subseteq no3Band', lost => lost'
    PROVE  OpensFit' /\ DrawsFit' /\ PaneFits' /\ WaveMatchesStyle'
<1>1. OpensFit'
  <2> SUFFICES ASSUME NEW n \in opens'
               PROVE  KeyFits(n.key, n.of, n.style)' /\ DataFit(n.wave, n.of, n.style)'
    BY DEF OpensFit
  <2>1. PICK o \in opens :
            n = IF o.wave = "waiting" /\ o.key \in keys THEN [o EXCEPT !.wave = data] ELSE o
    BY DEF Deliver
  <2>2. o \in Opening /\ KeyFits(o.key, o.of, o.style) /\ DataFit(o.wave, o.of, o.style)
    BY DEF TypeOK, Fit, WavesFit, OpensFit
  <2>3. n.key = o.key /\ n.of = o.of /\ n.style = o.style
        /\ (n.wave = o.wave \/ (n.wave = data /\ o.key \in keys))
    BY <2>1, <2>2 DEF Opening
  <2>4. o.of \in Tracks /\ o.style \in Styles
    BY <2>2 DEF Opening
  <2> QED
    BY <2>2, <2>3, <2>4, StillFits DEF Brings
<1>2. DrawsFit'
  <2>1. draws' \subseteq draws
    BY DEF Deliver
  <2> QED
    BY <2>1, StillFits DEF Fit, WavesFit, DrawsFit
<1>3. ASSUME NEW w \in Late(keys)
      PROVE  w.of \in Tracks /\ w.of = selected /\ DataFit(data, w.of, style)'
  <2>1. w \in draws /\ w.key \in keys /\ w.style = style /\ w.of = selected
    BY DEF Late
  <2>2. w.of \in Tracks /\ style \in Styles /\ KeyFits(w.key, w.of, style)
    BY <2>1 DEF TypeOK, WaveTypeOK, Draw, Fit, WavesFit, DrawsFit
  <2>3. UNCHANGED style
    BY DEF Deliver, modeVars
  <2>4. DataFit(data, w.of, style)'
    BY <2>1, <2>2, <2>3 DEF Brings, DataFit
  <2> QED
    BY <2>1, <2>2, <2>4
<1>4. CASE data = "none" \/ Late(keys) = {}
  <2>1. UNCHANGED detailWave
    BY <1>4 DEF Deliver
  <2>2. PaneFits'
    BY <2>1 DEF PaneFits, Fit, WavesFit
  <2>3. WaveMatchesStyle'
    <3> SUFFICES ASSUME Shown', ~lost', ~unpainted'
                 PROVE  \/ detailWave.waveOf = selected
                           /\ detailWave.wave = DataFor(selected, style)'
                        \/ \E w \in draws' : w.of = selected /\ w.style = style
      BY <2>1 DEF WaveMatchesStyle, Deliver, modeVars
    <3>1. Shown /\ ~lost /\ ~unpainted /\ selected \in Tracks /\ UNCHANGED <<selected, style>>
      BY DEF Deliver, Shown, modeVars, TypeOK
    <3>2. CASE \E w \in draws : w.of = selected /\ w.style = style
      <4>1. PICK w \in draws : w.of = selected /\ w.style = style
        BY <3>2
      <4>2. CASE w.key \notin keys
        BY <4>1, <4>2 DEF Deliver
      <4>3. CASE w.key \in keys
        <5>1. w \in Late(keys)
          BY <4>1, <4>3 DEF Late
        <5>2. data = "none"
          BY <1>4, <5>1
        <5>3. lost'
          BY <1>3, <5>1, <5>2 DEF DataFit
        <5> QED
          BY <5>3
      <4> QED
        BY <4>2, <4>3
    <3>3. CASE detailWave.waveOf = selected /\ detailWave.wave = DataFor(selected, style)
      <4>1. no3Band' \subseteq Flat
        BY DEF TypeOK, WaveTypeOK
      <4>2. DataFor(selected, style) = "3band" => selected \notin Flat
        BY <3>3 DEF Fit, WavesFit, PaneFits
      <4>3. DataFor(selected, style)' = DataFor(selected, style)
        BY <3>1, <4>1, <4>2 DEF DataFor
      <4> QED
        BY <3>3, <4>3
    <3> QED
      BY <3>1, <3>2, <3>3 DEF Fit, WaveMatchesStyle
  <2> QED
    BY <1>1, <1>2, <2>2, <2>3
<1>5. CASE data # "none" /\ Late(keys) # {}
  <2>1. PICK w \in Late(keys) : detailWave' = Pane(w.what, w.of, data)
    BY <1>5 DEF Deliver
  <2>2. detailWave'.waveOf = w.of /\ detailWave'.wave = data
    BY <2>1 DEF Pane
  <2>3. w.of \in Tracks /\ w.of = selected' /\ DataFit(data, w.of, style)'
    BY <1>3 DEF Deliver
  <2>4. PaneFits'
    BY <2>2, <2>3 DEF PaneFits, DataFit
  <2>5. ~lost' => data = DataFor(w.of, style)'
    <3>1. style' \in Styles /\ no3Band' \subseteq Flat
      BY DEF TypeOK, WaveTypeOK
    <3> QED
      BY <2>3, <3>1 DEF DataFit, DataFor, Styles
  <2>6. WaveMatchesStyle'
    BY <2>2, <2>3, <2>5 DEF WaveMatchesStyle, DataFor
  <2> QED
    BY <1>1, <1>2, <2>4, <2>6
<1> QED
  BY <1>4, <1>5

\* The parts of a key.
LEMMA KeyParts ==
    ASSUME NEW key \in Keys
    PROVE  /\ key[1] \in Kinds /\ key[2] \in Tracks
           /\ FallsBack(key) = <<"detail3band", key[2]>>
           /\ FallsBack(key) \in Keys
BY DEF Keys, Kinds, FallsBack

\* A fetch answered with data.
LEMMA FetchOKFits ==
    ASSUME TypeOK, Fit, NEW key \in Keys, FetchOK(key)
    PROVE  /\ Brings(Resolved(key), DataOf(key))
           /\ CacheFits' /\ FallbackKnown' /\ UNCHANGED <<no3Band, lost>>
<1>1. UNCHANGED <<no3Band, lost>> /\ (key[1] = "detail3band" => key[2] \notin Flat)
      /\ waveformCache' = waveformCache \cup {key} /\ inflight' = Ended(Resolved(key))
  BY DEF FetchOK
<1>2. CacheFits'
  BY <1>1 DEF CacheFits, Fit, WavesFit
<1>3. FallbackKnown'
  <2>1. \A t \in Tracks : <<"detail3band", t>> \in Keys
    BY DEF Keys, Kinds
  <2> QED
    BY <1>1, <2>1 DEF FallbackKnown, Fit, WavesFit, Ended
<1>4. Brings(Resolved(key), DataOf(key))
  <2> SUFFICES ASSUME NEW k \in Resolved(key), NEW t \in Tracks, NEW mode \in Styles,
                      KeyFits(k, t, mode)
               PROVE  DataFit(DataOf(key), t, mode)'
    BY DEF Brings
  <2>1. CASE k = key
    BY <1>1, <2>1, KeyParts DEF KeyFits, DataFit, DataOf, Kinds
  <2>2. CASE k # key
    <3>1. key[1] = "detail" /\ k = <<"detail3band", key[2]>> /\ inflight[k] = "fallback"
      BY <2>2, KeyParts DEF Resolved
    <3>2. t = key[2] /\ DataOf(key) = "spectral"
      BY <3>1 DEF KeyFits, DataOf
    <3>3. ~lost => t \in no3Band
      BY <3>1, <3>2 DEF Fit, WavesFit, FallbackKnown
    <3> QED
      BY <1>1, <3>2, <3>3 DEF DataFit
  <2> QED
    BY <2>1, <2>2
<1> QED
  BY <1>1, <1>2, <1>3, <1>4

\* A fetch that fails.
LEMMA FetchFailsFits ==
    ASSUME TypeOK, Fit, NEW key \in Keys, FetchFails(key)
    PROVE  /\ Brings(Resolved(key), "none")
           /\ CacheFits' /\ FallbackKnown' /\ UNCHANGED no3Band /\ lost'
<1>1. lost' /\ UNCHANGED <<waveformCache, no3Band>>
  BY DEF FetchFails
<1> QED
  BY <1>1 DEF Brings, DataFit, CacheFits, Fit, WavesFit, FallbackKnown

\* A fetch that falls back: the track is known to have no 3-band data, or the
\* fetch failed.
LEMMA FallBackFits ==
    ASSUME TypeOK, Fit, NEW key \in Keys, NEW failed \in BOOLEAN, FallBack(key, failed)
    PROVE  /\ Brings(ServedAtOnce(key), "spectral")
           /\ CacheFits' /\ FallbackKnown' /\ no3Band \subseteq no3Band' /\ (lost => lost')
<1>1. /\ key[1] = "detail3band"
      /\ no3Band' = IF failed THEN no3Band ELSE no3Band \cup {key[2]}
      /\ inflight' = IF ServedAtOnce(key) # {}
                     THEN Ended({key})
                     ELSE Ensured([inflight EXCEPT ![key] = "fallback"], Spectral(key))
      /\ UNCHANGED waveformCache
  BY DEF FallBack
<1>2. lost' = (lost \/ failed)
  BY Zenon DEF FallBack
<1>3. (failed => lost') /\ (lost => lost')
  BY <1>2, Zenon
<1>4. ~lost' => key[2] \in no3Band'
  BY <1>1, <1>3
<1>5. key = <<"detail3band", key[2]>> /\ key[2] \in Tracks
  BY <1>1 DEF Keys
<1>6. CacheFits' /\ no3Band \subseteq no3Band'
  BY <1>1 DEF CacheFits, Fit, WavesFit
<1>7. FallbackKnown'
  <2> SUFFICES ASSUME NEW t \in Tracks, inflight'[<<"detail3band", t>>] = "fallback", ~lost'
               PROVE  t \in no3Band'
    BY DEF FallbackKnown
  <2> DEFINE k == <<"detail3band", t>>
  <2>1. k \in Keys /\ k # Spectral(key)
    BY DEF Keys, Kinds, Spectral
  <2>2. CASE k = key
    BY <1>4, <1>5, <2>2
  <2>3. CASE k # key
    <3>1. inflight[k] = "fallback"
      BY <1>1, <2>1, <2>3 DEF Ended, Ensured, TypeOK, WaveTypeOK
    <3> QED
      BY <1>3, <1>6, <3>1 DEF Fit, WavesFit, FallbackKnown
  <2> QED
    BY <2>2, <2>3
<1>8. Brings(ServedAtOnce(key), "spectral")
  <2> SUFFICES ASSUME NEW k \in ServedAtOnce(key), NEW t \in Tracks, NEW mode \in Styles,
                      KeyFits(k, t, mode)
               PROVE  DataFit("spectral", t, mode)'
    BY DEF Brings
  <2>1. t = key[2]
    BY DEF ServedAtOnce, KeyFits
  <2> QED
    BY <1>4, <2>1 DEF DataFit
<1> QED
  BY <1>3, <1>6, <1>7, <1>8

\* The answers to fetches keep what fits.
LEMMA WaveFits ==
    ASSUME TypeOK, TypeOK', Fit, NEW key \in Keys, GotWave(key) \/ LoseWave(key)
    PROVE  Fit'
<1>1. ASSUME NEW keys, NEW data \in Styles \cup {"none"}, Deliver(keys, data),
             Brings(keys, data), CacheFits', FallbackKnown', no3Band \subseteq no3Band',
             lost => lost'
      PROVE  Fit'
  BY <1>1, DeliverFits DEF Fit, WavesFit
<1>2. CASE FetchOK(key) /\ Deliver(Resolved(key), DataOf(key))
  <2>1. DataOf(key) \in Styles
    BY DEF DataOf, Styles
  <2> QED
    BY <1>1, <1>2, <2>1, FetchOKFits
<1>3. CASE FetchFails(key) /\ Deliver(Resolved(key), "none")
  BY <1>1, <1>3, FetchFailsFits
<1>4. CASE \E failed \in BOOLEAN : FallBack(key, failed) /\ Deliver(ServedAtOnce(key), "spectral")
  <2>1. "spectral" \in Styles
    BY DEF Styles
  <2> QED
    BY <1>1, <1>4, <2>1, FallBackFits
<1>5. TRUE \in BOOLEAN /\ FALSE \in BOOLEAN
  OBVIOUS
<1> QED
  BY <1>2, <1>3, <1>4, <1>5, Zenon DEF GotWave, LoseWave

\* What the user does keeps what fits.
LEMMA UserFits ==
    ASSUME TypeOK, TypeOK', Fit, UserStep
    PROVE  Fit'
<1>1. ASSUME NEW t \in Tracks, Click(t) PROVE Fit'
  <2>1. OpenDetail(t, waveformCache)
    BY <1>1 DEF Click
  <2> QED
    BY <1>1, <2>1, OpenedFits DEF Click, paneVars
<1>2. CASE CloseDetail
  BY <1>2, OthersFit DEF CloseDetail, Shown
<1>3. CASE CycleWaveColor
  <2>1. style' \in Styles /\ Redraw(style')
    BY <1>3 DEF CycleWaveColor, Other, Styles
  <2> QED
    BY <1>3, <2>1, RedrawFits DEF CycleWaveColor
<1>4. CASE ChangeSetting
  <2>1. unpainted'
    BY <1>4 DEF ChangeSetting
  <2> QED
    BY <1>4, <2>1
    DEF ChangeSetting, Fit, WavesFit, CacheFits, DrawsFit, KeyFits, OpensFit, DataFit,
        FallbackKnown, PaneFits, WaveMatchesStyle, fetchVars, drawerVars, paneVars
<1>5. CASE Play
  BY <1>5, OthersFit DEF Play, drawerVars, Shown
<1>6. CASE OpenTagPicker
  BY <1>6, OthersFit DEF OpenTagPicker, drawerVars, paneVars, Shown
<1>7. CASE ApplyGridOffset
  BY <1>7, OthersFit DEF ApplyGridOffset, drawerVars, paneVars, Shown
<1>8. CASE \E g \in Tags : RemoveTag(g) \/ AddTag(g) \/ CreateTag(g)
  BY <1>8, OthersFit DEF RemoveTag, AddTag, CreateTag, drawerVars, paneVars, Shown
<1>9. CASE \E what \in {"wave", "path", "metadata", "grid", "reanalyze"} : Edit(what)
  BY <1>9, OthersFit DEF Edit, drawerVars, paneVars, Shown
<1> QED
  BY <1>1, <1>2, <1>3, <1>4, <1>5, <1>6, <1>7, <1>8, <1>9 DEF UserStep

\* So do the answers to edits.
LEMMA AnswerFits ==
    ASSUME TypeOK, Fit, NEW r \in requests,
           \/ GotCreated(r) \/ GotCatalog(r) \/ GotWaveEdit(r) \/ GotPath(r) \/ GotMetadata(r)
           \/ GotGrid(r) \/ GotReanalyzed(r) \/ GotOffset(r) \/ GotNothing(r)
    PROVE  Fit'
<1>1. r \in Request /\ Named(r) /\ (selected = None \/ selected \in Tracks)
  BY DEF TypeOK
<1>2. CASE GotCreated(r) \/ GotCatalog(r) \/ GotNothing(r)
  BY <1>2, OthersFit DEF GotCreated, GotCatalog, GotNothing, drawerVars, paneVars, Shown
<1>3. CASE GotWaveEdit(r) \/ GotPath(r)
  <2>1. r.of \in Tracks
    BY <1>1, <1>3 DEF Request, Named, GotWaveEdit, GotPath
  <2> QED
    BY <1>3, <2>1, OpenedFits DEF GotWaveEdit, GotPath, paneVars
<1>4. CASE GotMetadata(r) \/ GotGrid(r)
  <2>1. body'.of = body.of
    BY <1>4 DEF GotMetadata, GotGrid, TypeOK, Body
  <2> QED
    BY <1>4, <2>1, OthersFit DEF GotMetadata, GotGrid, paneVars, Shown
<1>5. CASE GotReanalyzed(r)
  <2>1. r.of \in Tracks
    BY <1>1, <1>5 DEF Request, Named, GotReanalyzed
  <2>2. waveformCache' \subseteq waveformCache
    BY <1>5 DEF GotReanalyzed
  <2> QED
    BY <1>5, <2>1, <2>2, OpenedFits DEF GotReanalyzed, paneVars
<1>6. CASE GotOffset(r)
  BY <1>1, <1>6, OpenedFits DEF GotOffset, paneVars
<1> QED
  BY <1>2, <1>3, <1>4, <1>5, <1>6

\* Every step keeps what fits.
LEMMA FitStep ==
    ASSUME TypeOK, TypeOK', Fit, [Next]_vars
    PROVE  Fit'
<1>1. CASE UserStep
  BY <1>1, UserFits
<1>2. CASE AnswerStep
  BY <1>2, AnswerFits DEF AnswerStep
<1>3. CASE ShowTagPicker
  BY <1>3, OthersFit DEF ShowTagPicker, drawerVars, paneVars, Shown
<1>4. CASE Repaint
  <2>1. style' \in Styles /\ Redraw(style')
    BY <1>4 DEF Repaint, TypeOK, WaveTypeOK
  <2> QED
    BY <1>4, <2>1, RedrawFits DEF Repaint
<1>5. CASE \E o \in opens : GotDetail(o) \/ Dropped(o)
  BY <1>5, OpeningFits
<1>6. CASE \E t \in Tracks : GotRelated(t)
  BY <1>6, OpeningFits
<1>7. CASE \E key \in Keys : GotWave(key) \/ LoseWave(key)
  BY <1>7, WaveFits
<1>8. CASE UNCHANGED vars
  BY <1>8, OthersFit DEF vars, drawerVars, paneVars, Shown
<1> QED
  BY <1>1, <1>2, <1>3, <1>4, <1>5, <1>6, <1>7, <1>8 DEF Next

----------------------------------------------------------------------------
(***************************************************************************)
(* The theorems.                                                           *)
(***************************************************************************)

\* The drawer starts closed and empty, with nothing asked for.
LEMMA InitOK == Init => TypeOK /\ Held /\ Fit
<1> SUFFICES ASSUME Init PROVE TypeOK /\ Held /\ Fit
  OBVIOUS
<1> USE DEF Init, NoBody
<1>1. WaveTypeOK
  BY DEF WaveInit, WaveTypeOK
<1>2. 0 \in 0 .. MaxEvents
  BY WebDrawerAssumption
<1>3. body \in Body /\ (body.of \in Tracks => body.head # None /\ body.grid # None)
  BY WebDrawerAssumption DEF Body
<1>4. TypeOK
  BY <1>1, <1>2, <1>3 DEF TypeOK
<1>5. Held
  BY DEF Held, ShownIsSelected, LoadedFromATrack, NeverWiped, PaneIsOfShown, Shown
<1>6. WavesFit
  <2>1. \A t \in Tracks : inflight[<<"detail3band", t>>] = "no"
    BY DEF WaveInit, Keys, Kinds
  <2> QED
    BY <2>1 DEF WavesFit, CacheFits, DrawsFit, OpensFit, FallbackKnown, PaneFits, WaveInit
<1>7. WaveMatchesStyle
  BY DEF WaveMatchesStyle, Shown
<1> QED
  BY <1>4, <1>5, <1>6, <1>7 DEF Fit

\* The invariant holds in every state of every behaviour of the drawer.
THEOREM Invariance == Spec => []IInv
<1> DEFINE Parts == TypeOK /\ Held /\ Fit
<1>1. Init => Parts
  BY InitOK
<1>2. Parts /\ [Next]_vars => Parts'
  <2> SUFFICES ASSUME Parts, [Next]_vars PROVE Parts'
    OBVIOUS
  <2>1. TypeOK'
    BY TypeStep
  <2>2. Held'
    BY HeldStep
  <2>3. Fit'
    BY <2>1, FitStep
  <2> QED
    BY <2>1, <2>2, <2>3
<1>3. Parts => IInv
  BY DEF IInv, Held, Fit
<1> QED
  BY <1>1, <1>2, <1>3, PTL DEF Spec

\* Types: what the drawer holds is of a known kind, and every edit under way
\* names the track or the tag it is of.
THEOREM TypeCorrect == Spec => []TypeOK
<1>1. IInv => TypeOK
  BY DEF IInv
<1> QED
  BY <1>1, Invariance, PTL

\* What the drawer shows of a track is of the selected one, in whatever order
\* the answers to its openings come (openDetail, loadRelated).
THEOREM ShownIsAlwaysSelected == Spec => []ShownIsSelected
<1>1. IInv => ShownIsSelected
  BY DEF IInv
<1> QED
  BY <1>1, Invariance, PTL

\* No set of tags is written that did not come from a load (saveTrackTags and
\* drawerTagsLoaded).
THEOREM TagsAreNeverWiped == Spec => []NeverWiped
<1>1. IInv => NeverWiped
  BY DEF IInv
<1> QED
  BY <1>1, Invariance, PTL

\* A body drawn with its wave keeps a pane of its own track, whatever comes
\* late (renderDetail and whenDetailWave).
THEOREM PaneIsAlwaysOfShown == Spec => []PaneIsOfShown
<1>1. IInv => PaneIsOfShown
  BY DEF IInv
<1> QED
  BY <1>1, Invariance, PTL

\* The wave under a body is the one its mode asks for, or is being drawn
\* (getDetailWaveCached, whenDetailWave and the poll's repaint).
THEOREM WaveAlwaysMatchesStyle == Spec => []WaveMatchesStyle
<1>1. IInv => WaveMatchesStyle
  BY DEF IInv
<1> QED
  BY <1>1, Invariance, PTL
=============================================================================
