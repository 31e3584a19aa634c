-------------------------- MODULE WebLibraryProofs --------------------------
(***************************************************************************)
(* What WebLibrary guarantees for any tracks and values, and any number of *)
(* polls and edits under way.                                              *)
(*                                                                         *)
(* The argument: a poll reads the revision before it asks for the list, so *)
(* what it applies is at least as new as the revision it then keeps.  The  *)
(* list applied last, if the server has not moved since, is the server's   *)
(* but for what the page changed in it; those are the fields touched, or   *)
(* tracks that are gone for good.                                          *)
(***************************************************************************)
EXTENDS WebLibrary, TLAPS

----------------------------------------------------------------------------
(***************************************************************************)
(* The inductive invariant.                                                *)
(***************************************************************************)

\* The snapshot compared last is the list shown.
SnapshotFits == lastTracksKey = allTracks

\* The page's revisions are the server's, or older; and the list applied last
\* is no older than the revision kept with it.
RevisionsFit ==
    /\ lastTracksRev <= rev
    /\ version <= rev
    /\ ~blind => lastTracksRev <= version

\* So are a poll's, and its list.
PollsFit ==
    \A p \in polls :
        /\ p.rev <= rev
        /\ p.stage = "list" =>
              /\ p.rev <= p.asOf
              /\ p.asOf <= rev
              /\ p.asOf = rev => p.list = server

\* A track that was deleted is not one still to be added.
RequestsFit ==
    /\ unborn \cap DOMAIN server = {}
    /\ \A r \in requests :
          r.what = "delete" =>
              /\ r.ids \cap unborn = {}
              /\ r.answer = "ok" => r.ids \cap DOMAIN server = {}

\* A list applied at the server's present revision is the server's.
ShownFits ==
    version = rev =>
        /\ DOMAIN allTracks = DOMAIN server
        /\ \A t \in Tracks, f \in Fields : Differs(t, f) => <<t, f>> \in touched

\* The answer to a colour finds its row by the track's ID.
ColoursLookUp == \A r \in requests : r.what = "color_id" => r.row \in {"lookup", "none"}

IInv ==
    /\ TypeOK
    /\ SnapshotFits
    /\ RevisionsFit /\ PollsFit /\ RequestsFit /\ ShownFits
    /\ ColoursLookUp /\ PendingColourShown

----------------------------------------------------------------------------
(***************************************************************************)
(* Lists.                                                                  *)
(***************************************************************************)

\* A function from some of the tracks to rows is a list,
LEMMA IsList ==
    ASSUME NEW S \in SUBSET Tracks, NEW list \in [S -> Row]
    PROVE  list \in List
BY DEF List

\* and every list is one.
LEMMA ListIs ==
    ASSUME NEW list \in List
    PROVE  DOMAIN list \in SUBSET Tracks /\ list \in [DOMAIN list -> Row]
BY DEF List

\* A row with one field replaced is a row.
LEMMA FieldSet ==
    ASSUME NEW row \in Row, NEW field \in Fields, NEW value \in Values
    PROVE  [row EXCEPT ![field] = value] \in Row
BY DEF Row

\* Patching a list gives a list of the same tracks, that differs from it in
\* the patched field of the patched tracks only.
LEMMA PatchedIs ==
    ASSUME NEW list \in List, NEW ids \in SUBSET Tracks, NEW field \in Fields, NEW value \in Values
    PROVE  /\ Patched(list, ids, field, value) \in List
           /\ DOMAIN Patched(list, ids, field, value) = DOMAIN list
           /\ \A t \in DOMAIN list, f \in Fields :
                 Patched(list, ids, field, value)[t][f] =
                     IF t \in ids /\ f = field THEN value ELSE list[t][f]
<1> DEFINE patched == Patched(list, ids, field, value)
<1>1. DOMAIN list \in SUBSET Tracks /\ \A t \in DOMAIN list : list[t] \in Row
  BY ListIs
<1>2. \A t \in DOMAIN list : [list[t] EXCEPT ![field] = value] \in Row
  BY <1>1, FieldSet
<1>3. patched \in [DOMAIN list -> Row]
  BY <1>1, <1>2 DEF Patched
<1>4. \A t \in DOMAIN list, f \in Fields :
          patched[t][f] = IF t \in ids /\ f = field THEN value ELSE list[t][f]
  BY <1>1 DEF Patched, Row
<1> QED
  BY <1>1, <1>3, <1>4, IsList

\* So it is a list, and of the same tracks.
LEMMA PatchedType ==
    \A list \in List, ids \in SUBSET Tracks, field \in Fields, value \in Values :
        /\ Patched(list, ids, field, value) \in List
        /\ DOMAIN Patched(list, ids, field, value) = DOMAIN list
BY PatchedIs

\* Laying the overrides over a list gives a list of the same tracks, that
\* differs from it in overridden fields only and has their values there.
LEMMA OverlaidIs ==
    ASSUME TypeOK, NEW list \in List
    PROVE  /\ Overlaid(list) \in List
           /\ DOMAIN Overlaid(list) = DOMAIN list
           /\ \A t \in DOMAIN list, f \in Fields :
                 Overlaid(list)[t][f] =
                     IF Overrides(t, list) /\ f = pending[t].field
                     THEN pending[t].value ELSE list[t][f]
           /\ \A t \in DOMAIN list :
                 pending[t].field # "none" =>
                     Overlaid(list)[t][pending[t].field] = pending[t].value
<1>1. DOMAIN list \in SUBSET Tracks /\ \A t \in DOMAIN list : list[t] \in Row
  BY ListIs
<1>2. \A t \in DOMAIN list :
          /\ pending[t].field \in {"none", "color_id", "rating"}
          /\ pending[t].value \in Values
  BY <1>1 DEF TypeOK
<1>3. \A t \in DOMAIN list :
          Overrides(t, list) =>
              /\ pending[t].field \in Fields
              /\ [list[t] EXCEPT ![pending[t].field] = pending[t].value] \in Row
  BY <1>1, <1>2, FieldSet DEF Overrides, Fields
<1>4. Overlaid(list) \in [DOMAIN list -> Row]
  BY <1>1, <1>3 DEF Overlaid
<1>5. \A t \in DOMAIN list, f \in Fields :
          Overlaid(list)[t][f] =
              IF Overrides(t, list) /\ f = pending[t].field
              THEN pending[t].value ELSE list[t][f]
  BY <1>1, <1>3 DEF Overlaid, Row
<1>6. ASSUME NEW t \in DOMAIN list, pending[t].field # "none"
      PROVE  Overlaid(list)[t][pending[t].field] = pending[t].value
  <2>1. pending[t].field \in Fields
    BY <1>2, <1>6 DEF Fields
  <2> QED
    BY <1>5, <1>6, <2>1 DEF Overrides
<1> QED
  BY <1>1, <1>4, <1>5, <1>6, IsList

\* A list without some tracks is a list.
LEMMA PrunedIs ==
    ASSUME NEW list \in List, NEW ids
    PROVE  [t \in DOMAIN list \ ids |-> list[t]] \in List
<1>1. [t \in DOMAIN list \ ids |-> list[t]] \in [DOMAIN list \ ids -> Row]
  BY ListIs
<1> QED
  BY <1>1, ListIs, IsList

\* A change of the library moves its revision.
LEMMA ChangesIs ==
    ASSUME TypeOK, NEW list \in List, Changes(list)
    PROVE  /\ server' \in List
           /\ rev' \in Nat
           /\ rev <= rev'
           /\ rev' = rev => server' = server
BY DEF Changes, TypeOK

\* So does a request that is carried out.
LEMMA CarriedIs ==
    ASSUME TypeOK, NEW r \in requests
    PROVE  /\ Carried(r) \in List
           /\ r.what # "delete" => DOMAIN Carried(r) = DOMAIN server
           /\ r.what = "delete" => DOMAIN Carried(r) = DOMAIN server \ r.ids
<1>1. /\ server \in List /\ r.what \in Fields \cup {"delete"}
      /\ r.ids \in SUBSET Tracks /\ r.value \in Values
  BY DEF TypeOK, Request
<1>2. CASE r.what = "delete"
  BY <1>1, <1>2, PrunedIs DEF Carried
<1>3. CASE r.what # "delete"
  <2>1. r.what \in Fields
    BY <1>1, <1>3
  <2>2. Carried(r) = Patched(server, r.ids, r.what, r.value)
    BY <1>3 DEF Carried
  <2>4. server \in List /\ r.ids \in SUBSET Tracks /\ r.value \in Values
    BY <1>1
  <2>5. Patched(server, r.ids, r.what, r.value) \in List
    BY <2>1, <2>4, PatchedType
  <2>6. DOMAIN Patched(server, r.ids, r.what, r.value) = DOMAIN server
    BY <2>1, <2>4, PatchedType
  <2> QED
    BY <1>3, <2>2, <2>5, <2>6
<1> QED
  BY <1>2, <1>3

----------------------------------------------------------------------------
(***************************************************************************)
(* Types.                                                                  *)
(***************************************************************************)

\* A poll that begins is a poll.
LEMMA StartPollType ==
    ASSUME TypeOK, NEW seen \in {rev, NoRev}, StartPoll(seen)
    PROVE  polls' \subseteq Poll
<1>1. PICK i \in FreeSlots :
          polls' = polls \cup {[slot |-> i, stage |-> "rev", rev |-> seen, forced |-> FALSE,
                                list |-> NoList, asOf |-> NoRev]}
  BY DEF StartPoll
<1>2. NoList \in List
  <2>1. NoList \in [{} -> Row]
    BY DEF NoList
  <2> QED
    BY <2>1, IsList
<1>3. [slot |-> i, stage |-> "rev", rev |-> seen, forced |-> FALSE,
       list |-> NoList, asOf |-> NoRev] \in Poll
  BY <1>2 DEF Poll, FreeSlots, TypeOK
<1> QED
  BY <1>1, <1>3 DEF TypeOK

\* A poll that goes on to the cues or to the list is a poll with its revision.
LEMMA GoesOn ==
    ASSUME TypeOK, NEW p \in polls, GotRev(p) \/ GotCues(p)
    PROVE  \A q \in polls' :
               q \in polls \/ (q \in Poll /\ q.stage # "list" /\ q.rev = p.rev)
<1>1. p \in Poll
  BY DEF TypeOK
<1>2. ASSUME NEW forced \in BOOLEAN, Decides(p, forced)
      PROVE  \A q \in polls' :
                 q \in polls \/ (q \in Poll /\ q.stage # "list" /\ q.rev = p.rev)
  BY <1>1, <1>2 DEF Decides, Poll
<1>3. CASE AsksForCues(p)
  <2>1. Forced \in BOOLEAN
    BY DEF Forced
  <2> QED
    BY <1>1, <1>3, <2>1 DEF AsksForCues, Poll
<1>4. \/ AsksForCues(p) \/ \E forced \in BOOLEAN : Decides(p, forced)
  BY <1>1 DEF GotRev, GotCues, Poll
<1> QED
  BY <1>2, <1>3, <1>4

\* A request that is sent is a request.
LEMMA SentType ==
    ASSUME TypeOK, NEW what \in Fields \cup {"delete"}, NEW ids \in SUBSET Tracks,
           NEW value \in Values, NEW row \in {"lookup", "held", "none"},
           Sent(what, ids, value, row)
    PROVE  requests' \subseteq Request /\ events' \in Nat
<1> DEFINE r == [id |-> events, what |-> what, ids |-> ids, value |-> value,
                 row |-> row, answer |-> "none"]
<1>1. r \in Request
  BY DEF Request, TypeOK
<1>2. requests' = requests \cup {r} /\ events' = events + 1
  BY DEF Sent
<1> QED
  BY <1>1, <1>2 DEF TypeOK

\* Every step of a poll, and the beginning of one, keeps the types.
LEMMA PollTypes ==
    ASSUME TypeOK, Tick \/ Added \/ PollStep
    PROVE  TypeOK'
<1> USE DEF TypeOK
<1>1. CASE Tick
  <2>1. PICK seen \in {rev, NoRev} : Ask(seen) /\ StartPoll(seen)
    BY <1>1 DEF Tick
  <2>2. polls' \subseteq Poll /\ events' \in Nat
    BY <2>1, StartPollType DEF Ask, TypeOK
  <2> QED
    BY <1>1, <2>2 DEF Tick, pageVars, histVars
<1>2. CASE Added
  <2>1. PICK seen \in {rev, NoRev} : Ask(seen) /\ StartPoll(seen)
    BY <1>2 DEF Added
  <2>2. polls' \subseteq Poll /\ events' \in Nat
    BY <2>1, StartPollType DEF Ask, TypeOK
  <2> QED
    BY <1>2, <2>2 DEF Added, histVars
<1>3. ASSUME NEW p \in polls, GotRev(p) \/ GotCues(p)
      PROVE  TypeOK'
  <2>1. pollCount' \in 0 .. ForceEvery - 1
    <3>1. pollCount \in Nat /\ ForceEvery \in Nat \ {0}
      BY WebLibraryAssumption
    <3>2. pollCount' = (pollCount + 1) % ForceEvery \/ pollCount' = pollCount
      BY <1>3, Zenon DEF GotRev, GotCues, pageVars
    <3> QED
      BY <3>1, <3>2
  <2>2. polls' \subseteq Poll
    BY <1>3, GoesOn
  <2>3. UNCHANGED <<server, rev, unborn, allTracks, lastTracksRev, lastTracksKey, pending,
                    requests, events, histVars>>
    BY <1>3 DEF GotRev, GotCues, pageVars
  <2> QED
    BY <2>1, <2>2, <2>3 DEF histVars
<1>4. ASSUME NEW p \in polls, SendList(p) \/ LoseList(p)
      PROVE  TypeOK'
  <2>1. [p EXCEPT !.stage = "list", !.list = server, !.asOf = rev] \in Poll
    BY <1>4 DEF Poll
  <2>2. polls' \subseteq Poll /\ events' \in Nat
    BY <1>4, <2>1 DEF SendList, LoseList
  <2>3. UNCHANGED <<server, rev, unborn, pageVars, requests, histVars>>
    BY <1>4 DEF SendList, LoseList
  <2> QED
    BY <2>2, <2>3 DEF pageVars, histVars
<1>5. ASSUME NEW p \in polls, GotList(p)
      PROVE  TypeOK'
  <2>1. p \in Poll /\ p.list \in List
    BY <1>5 DEF Poll
  <2>2. Overlaid(p.list) \in List
    BY <2>1, OverlaidIs
  <2>3. allTracks' \in List /\ lastTracksKey' \in List
    BY <1>5, <2>2 DEF GotList, Show
  <2>4. requests' \subseteq Request
    <3>1. \A r \in Request :
              [r EXCEPT !.row = IF @ = "held" THEN "lost" ELSE @] \in Request
      BY DEF Request
    <3> QED
      BY <1>5, <3>1 DEF GotList
  <2>5. pending' \in [Tracks -> [field: {"none", "color_id", "rating"}, value: Values]]
    BY <1>5, WebLibraryAssumption DEF GotList, StillPending, NoEdit
  <2>6. touched' \subseteq Tracks \X Fields
    <3>1. \A t \in DOMAIN p.list :
              Overrides(t, p.list) => <<t, pending[t].field>> \in Tracks \X Fields
      BY <2>1, ListIs DEF Overrides, Fields
    <3> QED
      BY <1>5, <3>1 DEF GotList
  <2>7. lastTracksRev' \in Nat \cup {NoRev} /\ version' \in Nat \cup {NoRev}
    BY <1>5, <2>1 DEF GotList, Poll
  <2>8. blind' \in BOOLEAN
    BY <1>5 DEF GotList
  <2>9. /\ polls' \subseteq polls
        /\ UNCHANGED <<server, rev, unborn, pollCount, events>>
    BY <1>5 DEF GotList
  <2> QED
    BY <2>3, <2>4, <2>5, <2>6, <2>7, <2>8, <2>9
<1> QED
  BY <1>1, <1>2, <1>3, <1>4, <1>5 DEF PollStep

\* Every edit the user makes is a request.
LEMMA UserTypes ==
    ASSUME TypeOK, UserStep, ~Added
    PROVE  TypeOK'
<1> USE DEF TypeOK
<1>1. ASSUME NEW t \in Tracks, NEW v \in Values,
             SetTrackColor(t, v) \/ SetTrackRating(t, v) \/ PatchTrackTagsLocal(t, v)
      PROVE  TypeOK'
  <2>1. {t} \in SUBSET Tracks
    OBVIOUS
  <2>2. CASE SetTrackColor(t, v)
    <3>1. Sent("color_id", {t}, v, "lookup")
      BY <2>2 DEF SetTrackColor
    <3>2. requests' \subseteq Request /\ events' \in Nat
      BY <2>1, <3>1, SentType DEF Fields
    <3> QED
      BY <2>2, <3>2 DEF SetTrackColor, pageVars, histVars
  <2>3. CASE SetTrackRating(t, v)
    <3>1. PICK value \in Values : Sent("rating", {t}, value, "held")
      BY <2>3, WebLibraryAssumption DEF SetTrackRating
    <3>2. requests' \subseteq Request /\ events' \in Nat
      BY <2>1, <3>1, SentType DEF Fields
    <3> QED
      BY <2>3, <3>2 DEF SetTrackRating, pageVars, histVars
  <2>4. CASE PatchTrackTagsLocal(t, v)
    <3>1. Sent("tags", {t}, v, "none")
      BY <2>4 DEF PatchTrackTagsLocal
    <3>2. requests' \subseteq Request /\ events' \in Nat
      BY <2>1, <3>1, SentType DEF Fields
    <3>3. Patched(allTracks, {t}, "tags", v) \in List
      BY <2>1, PatchedIs DEF Fields
    <3>4. allTracks' \in List /\ lastTracksKey' \in List
      BY <2>4, <3>3 DEF PatchTrackTagsLocal, Show
    <3>5. touched' \subseteq Tracks \X Fields
      BY <2>4 DEF PatchTrackTagsLocal, Fields
    <3> QED
      BY <2>4, <3>2, <3>4, <3>5 DEF PatchTrackTagsLocal
  <2> QED
    BY <1>1, <2>2, <2>3, <2>4
<1>2. ASSUME NEW ids \in SUBSET (Tracks \ unborn) \ {{}}, BulkDelete(ids)
      PROVE  TypeOK'
  <2>1. Sent("delete", ids, Blank, "none")
    BY <1>2 DEF BulkDelete
  <2>2. requests' \subseteq Request /\ events' \in Nat
    BY <2>1, SentType, WebLibraryAssumption
  <2> QED
    BY <1>2, <2>2 DEF BulkDelete, pageVars, histVars
<1>3. ASSUME NEW ids \in SUBSET (Tracks \ unborn) \ {{}},
             NEW f \in Fields, NEW v \in Values, BulkSet(ids, f, v)
      PROVE  TypeOK'
  <2>1. PICK row \in {"lookup", "none"} : Sent(f, ids, v, row)
    BY <1>3 DEF BulkSet
  <2>2. requests' \subseteq Request /\ events' \in Nat
    <3>1. /\ ids \in SUBSET Tracks /\ f \in Fields \cup {"delete"}
          /\ row \in {"lookup", "held", "none"}
      OBVIOUS
    <3> HIDE DEF TypeOK
    <3> QED
      BY <2>1, <3>1, SentType
  <2> QED
    BY <1>3, <2>2 DEF BulkSet, pageVars, histVars
<1> QED
  BY <1>1, <1>2, <1>3 DEF UserStep

\* What the server does, and the answers, keep the types.
LEMMA RequestTypes ==
    ASSUME TypeOK, NEW r \in requests,
           Serve(r) \/ Fail(r) \/ GotSaved(r) \/ GotDeleted(r) \/ GotNothing(r)
    PROVE  TypeOK'
<1> USE DEF TypeOK
<1>1. CASE Serve(r) \/ Fail(r)
  <2>1. server' \in List /\ rev' \in Nat
    BY <1>1, ChangesIs, CarriedIs DEF Serve, Fail
  <2>2. PICK answer \in {"ok", "failed"} :
            requests' = (requests \ {r}) \cup {[r EXCEPT !.answer = answer]}
    BY <1>1 DEF Serve, Fail
  <2>3. requests' \subseteq Request
    BY <2>2 DEF Request
  <2>4. events' \in Nat /\ UNCHANGED <<unborn, pageVars, polls, histVars>>
    BY <1>1 DEF Serve, Fail
  <2> QED
    BY <2>1, <2>3, <2>4 DEF pageVars, histVars
<1>2. CASE GotSaved(r)
  <2>1. r.ids \in SUBSET Tracks /\ r.value \in Values /\ r.what \in {"color_id", "rating"}
    BY <1>2 DEF GotSaved, Request
  <2>2. pending' \in [Tracks -> [field: {"none", "color_id", "rating"}, value: Values]]
    <3>1. [field |-> r.what, value |-> r.value] \in
              [field: {"none", "color_id", "rating"}, value: Values]
      BY <2>1
    <3> QED
      BY <1>2, <3>1 DEF GotSaved
  <2>3. Patched(allTracks, r.ids, r.what, r.value) \in List
    <3>1. r.what \in Fields /\ allTracks \in List
      BY <2>1 DEF Fields
    <3> HIDE DEF TypeOK
    <3> QED
      BY <2>1, <3>1, PatchedType
  <2>4. allTracks' \in List /\ lastTracksKey' \in List
    BY <1>2, <2>3 DEF GotSaved, Show
  <2>5. touched' \subseteq Tracks \X Fields
    BY <1>2, <2>1 DEF GotSaved, Fields
  <2> QED
    BY <1>2, <2>2, <2>4, <2>5 DEF GotSaved, Answered
<1>3. CASE GotDeleted(r)
  <2>1. allTracks' \in List /\ lastTracksKey' \in List
    BY <1>3, PrunedIs DEF GotDeleted, Show
  <2> QED
    BY <1>3, <2>1 DEF GotDeleted, Answered
<1>4. CASE GotNothing(r)
  BY <1>4 DEF GotNothing, Answered
<1> QED
  BY <1>1, <1>2, <1>3, <1>4

\* What another client does is a change of the library.
LEMMA OtherChanges ==
    ASSUME TypeOK, NEW t \in Tracks, OtherClient(t)
    PROVE  \E list \in List :
               /\ Changes(list)
               /\ DOMAIN list \subseteq DOMAIN server \cup (unborn \ unborn')
               /\ unborn' \subseteq unborn
               /\ unborn \cap DOMAIN server = {} => unborn' \cap DOMAIN list = {}
<1>1. CASE t \in DOMAIN server /\ unborn' = unborn
           /\ \E f \in Fields, v \in Values : Changes(Patched(server, {t}, f, v))
  <2>1. PICK f \in Fields, v \in Values : Changes(Patched(server, {t}, f, v))
    BY <1>1
  <2>2. /\ Patched(server, {t}, f, v) \in List
        /\ DOMAIN Patched(server, {t}, f, v) = DOMAIN server
    <3>1. server \in List /\ {t} \in SUBSET Tracks
      BY DEF TypeOK
    <3> QED
      BY <3>1, PatchedType
  <2> QED
    BY <1>1, <2>1, <2>2
<1>2. CASE /\ t \in DOMAIN server /\ unborn' = unborn
           /\ Changes([u \in DOMAIN server \ {t} |-> server[u]])
  <2>1. [u \in DOMAIN server \ {t} |-> server[u]] \in List
    BY PrunedIs DEF TypeOK
  <2> QED
    BY <1>2, <2>1
<1>3. CASE /\ t \in unborn /\ unborn' = unborn \ {t}
           /\ Changes([u \in DOMAIN server \cup {t} |->
                         IF u = t THEN BlankRow ELSE server[u]])
  <2> DEFINE list == [u \in DOMAIN server \cup {t} |->
                         IF u = t THEN BlankRow ELSE server[u]]
  <2>1. DOMAIN server \in SUBSET Tracks /\ server \in [DOMAIN server -> Row]
    BY ListIs DEF TypeOK
  <2>2. list \in [DOMAIN server \cup {t} -> Row]
    BY <2>1, WebLibraryAssumption DEF BlankRow, Row
  <2>3. list \in List
    BY <2>1, <2>2, IsList
  <2> QED
    BY <1>3, <2>3
<1> QED
  BY <1>1, <1>2, <1>3 DEF OtherClient

\* Every step keeps the types.
LEMMA TypeStep ==
    ASSUME TypeOK, [Next]_vars
    PROVE  TypeOK'
<1>1. CASE Tick \/ Added \/ PollStep
  BY <1>1, PollTypes
<1>2. CASE UserStep /\ ~Added
  BY <1>2, UserTypes
<1>3. CASE RequestStep
  BY <1>3, RequestTypes DEF RequestStep
<1>4. ASSUME NEW t \in Tracks, OtherClient(t)
      PROVE  TypeOK'
  <2>1. server' \in List /\ rev' \in Nat /\ unborn' \subseteq unborn
    BY <1>4, OtherChanges, ChangesIs
  <2>2. events' \in Nat
    BY <1>4 DEF OtherClient, TypeOK
  <2> QED
    BY <1>4, <2>1, <2>2 DEF OtherClient, TypeOK, pageVars, histVars
<1>5. ASSUME NEW t \in Tracks, Expire(t)
      PROVE  TypeOK'
  BY <1>5, WebLibraryAssumption DEF Expire, NoEdit, TypeOK, histVars
<1>6. CASE UNCHANGED vars
  BY <1>6 DEF vars, pageVars, histVars, TypeOK
<1> QED
  BY <1>1, <1>2, <1>3, <1>4, <1>5, <1>6 DEF Next

----------------------------------------------------------------------------
(***************************************************************************)
(* Revisions and requests.                                                 *)
(***************************************************************************)

Fits == RevisionsFit /\ PollsFit /\ RequestsFit

\* What a step must do to the server, to keep the page's revisions.
Moves ==
    /\ rev' \in Nat
    /\ rev <= rev'
    /\ rev' = rev => server' = server

\* The server moving on keeps the revisions of page and polls in their order.
LEMMA MovesFit ==
    ASSUME TypeOK, RevisionsFit, PollsFit, Moves,
           UNCHANGED <<lastTracksRev, version, blind>>, polls' \subseteq polls
    PROVE  RevisionsFit' /\ PollsFit'
<1>1. rev \in Nat /\ lastTracksRev \in Int /\ version \in Int
  BY DEF TypeOK, NoRev
<1>2. \A p \in polls : p.rev \in Int /\ p.asOf \in Int
  BY DEF TypeOK, Poll, NoRev
<1>3. RevisionsFit'
  BY <1>1 DEF RevisionsFit, Moves
<1>4. PollsFit'
  BY <1>1, <1>2 DEF PollsFit, Moves
<1> QED
  BY <1>3, <1>4

\* A poll that begins has a revision the server had.
LEMMA StartPollFits ==
    ASSUME TypeOK, PollsFit, NEW seen \in {rev, NoRev}, StartPoll(seen),
           UNCHANGED <<server, rev>>
    PROVE  PollsFit'
<1>1. PICK i \in FreeSlots :
          polls' = polls \cup {[slot |-> i, stage |-> "rev", rev |-> seen, forced |-> FALSE,
                                list |-> NoList, asOf |-> NoRev]}
  BY DEF StartPoll
<1>2. seen <= rev
  BY DEF TypeOK, NoRev
<1> QED
  BY <1>1, <1>2 DEF PollsFit

\* A request that is not a deletion, or is one of tracks the library has had,
\* is none that was carried out yet.
LEMMA SentFits ==
    ASSUME RequestsFit, NEW what, NEW ids, NEW value, NEW row,
           what = "delete" => ids \cap unborn = {},
           Sent(what, ids, value, row), UNCHANGED <<server, unborn>>
    PROVE  RequestsFit'
<1>1. requests' = requests \cup
          {[id |-> events, what |-> what, ids |-> ids, value |-> value,
            row |-> row, answer |-> "none"]}
  BY DEF Sent
<1> QED
  BY <1>1 DEF RequestsFit

\* The steps of a poll keep the revisions.
LEMMA PollFits ==
    ASSUME TypeOK, Fits, NEW p \in polls,
           GotRev(p) \/ GotCues(p) \/ SendList(p) \/ LoseList(p) \/ GotList(p)
    PROVE  Fits'
<1>1. /\ p.rev \in Int /\ p.asOf \in Int /\ p.rev <= rev
      /\ rev \in Nat /\ lastTracksRev \in Int /\ version \in Int
  BY DEF Fits, PollsFit, TypeOK, Poll, NoRev
<1>2. CASE GotRev(p) \/ GotCues(p)
  <2>1. UNCHANGED <<server, rev, unborn, lastTracksRev, requests, histVars>>
    BY <1>2 DEF GotRev, GotCues, pageVars
  <2>2. PollsFit'
    <3>1. \A q \in polls' : q \in polls \/ (q.stage # "list" /\ q.rev = p.rev)
      BY <1>2, GoesOn
    <3> QED
      BY <1>1, <2>1, <3>1 DEF PollsFit, Fits
  <2> QED
    BY <2>1, <2>2 DEF Fits, RevisionsFit, RequestsFit, histVars
<1>3. CASE SendList(p)
  <2>1. PollsFit'
    <3>1. \A q \in polls' :
              \/ q \in polls
              \/ q.stage = "list" /\ q.rev = p.rev /\ q.list = server /\ q.asOf = rev
      BY <1>3 DEF SendList, TypeOK, Poll
    <3> QED
      BY <1>1, <1>3, <3>1 DEF SendList, PollsFit, Fits
  <2> QED
    BY <1>3, <2>1 DEF SendList, Fits, RevisionsFit, RequestsFit, histVars, pageVars
<1>4. CASE LoseList(p)
  BY <1>4 DEF LoseList, Fits, RevisionsFit, PollsFit, RequestsFit, histVars, pageVars
<1>5. CASE GotList(p)
  <2>1. PollsFit'
    BY <1>5 DEF GotList, PollsFit, Fits
  <2>2. p.rev <= p.asOf /\ p.asOf <= rev
    BY <1>5 DEF GotList, PollsFit, Fits
  <2>3. RevisionsFit'
    <3>1. /\ version' = p.asOf /\ rev' = rev
          /\ lastTracksRev' = IF p.rev = NoRev THEN lastTracksRev ELSE p.rev
          /\ blind' = (p.rev = NoRev)
      BY <1>5 DEF GotList
    <3>2. lastTracksRev <= rev
      BY DEF Fits, RevisionsFit
    <3>3. CASE p.rev = NoRev
      BY <1>1, <2>2, <3>1, <3>2, <3>3 DEF RevisionsFit
    <3>4. CASE p.rev # NoRev
      BY <1>1, <2>2, <3>1, <3>4 DEF RevisionsFit
    <3> QED
      BY <3>3, <3>4
  <2>4. RequestsFit'
    <3>1. \A q \in requests' :
              \E r \in requests : q.ids = r.ids /\ q.what = r.what /\ q.answer = r.answer
      BY <1>5 DEF GotList, TypeOK, Request
    <3> QED
      BY <1>5, <3>1 DEF GotList, RequestsFit, Fits
  <2> QED
    BY <2>1, <2>3, <2>4 DEF Fits
<1> QED
  BY <1>2, <1>3, <1>4, <1>5

\* So do the answers, and what the server does.
LEMMA RequestFits ==
    ASSUME TypeOK, Fits, NEW r \in requests,
           Serve(r) \/ Fail(r) \/ GotSaved(r) \/ GotDeleted(r) \/ GotNothing(r)
    PROVE  Fits'
<1>1. CASE Serve(r) \/ Fail(r)
  <2>1. PICK list \in {server, Carried(r)}, answer \in {"ok", "failed"} :
            /\ Changes(list)
            /\ requests' = (requests \ {r}) \cup {[r EXCEPT !.answer = answer]}
            /\ answer = "ok" => list = Carried(r)
    BY <1>1 DEF Serve, Fail
  <2>2. UNCHANGED <<unborn, pageVars, polls, histVars>>
    BY <1>1 DEF Serve, Fail
  <2>3. server' = list /\ list \in List /\ Moves
    BY <2>1, CarriedIs, ChangesIs DEF Moves, Changes, TypeOK
  <2>4. RevisionsFit' /\ PollsFit'
    BY <2>2, <2>3, MovesFit DEF Fits, pageVars, histVars
  <2>5. DOMAIN server' \subseteq DOMAIN server
    BY <2>1, <2>3, CarriedIs
  <2>6. r.what = "delete" /\ answer = "ok" => r.ids \cap DOMAIN server' = {}
    BY <2>1, <2>3, CarriedIs
  <2>7. RequestsFit'
    <3>1. \A q \in requests' :
              \/ q \in requests
              \/ q.what = r.what /\ q.ids = r.ids /\ q.answer = answer
      BY <2>1 DEF TypeOK, Request
    <3> QED
      BY <2>2, <2>5, <2>6, <3>1 DEF RequestsFit, Fits
  <2> QED
    BY <2>4, <2>7 DEF Fits
<1>2. CASE GotSaved(r) \/ GotDeleted(r) \/ GotNothing(r)
  <2>1. Answered(r)
    BY <1>2 DEF GotSaved, GotDeleted, GotNothing
  <2> QED
    BY <2>1 DEF Answered, Fits, RevisionsFit, PollsFit, RequestsFit
<1> QED
  BY <1>1, <1>2

\* Every step keeps the revisions and the requests.
LEMMA FitsStep ==
    ASSUME TypeOK, Fits, [Next]_vars
    PROVE  Fits'
<1>1. CASE Tick \/ Added
  <2>1. PICK seen \in {rev, NoRev} : StartPoll(seen)
    BY <1>1 DEF Tick, Added
  <2>2. UNCHANGED <<server, rev, unborn, requests, histVars>>
    BY <1>1 DEF Tick, Added
  <2>3. PollsFit'
    BY <2>1, <2>2, StartPollFits DEF Fits
  <2>4. lastTracksRev' = lastTracksRev \/ lastTracksRev' = NoRev
    BY <1>1 DEF Tick, Added, pageVars
  <2>5. RevisionsFit'
    BY <2>2, <2>4 DEF Fits, RevisionsFit, TypeOK, NoRev, histVars
  <2> QED
    BY <2>2, <2>3, <2>5 DEF Fits, RequestsFit
<1>2. CASE PollStep
  BY <1>2, PollFits DEF PollStep
<1>3. CASE UserStep /\ ~Added
  <2>1. PICK what, ids, value, row :
            /\ Sent(what, ids, value, row)
            /\ what = "delete" => ids \cap unborn = {}
    <3>1. CASE \E t \in Tracks, v \in Values :
                   SetTrackColor(t, v) \/ SetTrackRating(t, v) \/ PatchTrackTagsLocal(t, v)
      <4>1. PICK what, ids, value, row :
                Sent(what, ids, value, row) /\ what \in {"color_id", "rating", "tags"}
        BY <3>1, Zenon DEF SetTrackColor, SetTrackRating, PatchTrackTagsLocal
      <4> QED
        BY <4>1
    <3>2. CASE \E ids \in SUBSET (Tracks \ unborn) \ {{}} :
                   BulkDelete(ids) \/ \E f \in Fields, v \in Values : BulkSet(ids, f, v)
      <4>1. PICK what, ids, value, row :
                /\ ids \in SUBSET (Tracks \ unborn) \ {{}}
                /\ Sent(what, ids, value, row)
        BY <3>2, Zenon DEF BulkDelete, BulkSet
      <4>2. ids \cap unborn = {}
        BY <4>1
      <4> QED
        BY <4>1, <4>2
    <3> QED
      BY <1>3, <3>1, <3>2 DEF UserStep
  <2>2. UNCHANGED <<server, rev, unborn, lastTracksRev, polls, version, blind>>
    BY <1>3 DEF UserStep, SetTrackColor, SetTrackRating, PatchTrackTagsLocal, BulkDelete,
                BulkSet, pageVars, histVars
  <2>3. RequestsFit'
    BY <2>1, <2>2, SentFits DEF Fits
  <2> QED
    BY <2>2, <2>3 DEF Fits, RevisionsFit, PollsFit
<1>4. CASE RequestStep
  BY <1>4, RequestFits DEF RequestStep
<1>5. ASSUME NEW t \in Tracks, OtherClient(t)
      PROVE  Fits'
  <2>1. PICK list \in List :
            /\ Changes(list)
            /\ DOMAIN list \subseteq DOMAIN server \cup (unborn \ unborn')
            /\ unborn' \subseteq unborn
            /\ unborn \cap DOMAIN server = {} => unborn' \cap DOMAIN list = {}
    BY <1>5, OtherChanges
  <2>2. UNCHANGED <<pageVars, polls, requests, histVars>>
    BY <1>5 DEF OtherClient
  <2>3. server' = list /\ Moves
    BY <2>1, ChangesIs DEF Moves, Changes
  <2>4. RevisionsFit' /\ PollsFit'
    BY <2>2, <2>3, MovesFit DEF Fits, pageVars, histVars
  <2>5. RequestsFit'
    BY <2>1, <2>2, <2>3 DEF Fits, RequestsFit
  <2> QED
    BY <2>4, <2>5 DEF Fits
<1>6. ASSUME NEW t \in Tracks, Expire(t)
      PROVE  Fits'
  BY <1>6 DEF Expire, Fits, RevisionsFit, PollsFit, RequestsFit, histVars
<1>7. CASE UNCHANGED vars
  BY <1>7 DEF vars, Fits, RevisionsFit, PollsFit, RequestsFit, histVars, pageVars
<1> QED
  BY <1>1, <1>2, <1>3, <1>4, <1>5, <1>6, <1>7 DEF Next

----------------------------------------------------------------------------
(***************************************************************************)
(* The list shown.                                                         *)
(***************************************************************************)

Shows == SnapshotFits /\ ShownFits /\ ColoursLookUp /\ PendingColourShown

\* The server moving on leaves the list shown of an older revision.
LEMMA MovesShow ==
    ASSUME TypeOK, RevisionsFit, Shows, Moves, UNCHANGED <<pageVars, histVars>>,
           \A q \in requests' : \E r \in requests : q.what = r.what /\ q.row = r.row
    PROVE  Shows'
<1>1. rev \in Nat /\ version \in Int /\ version <= rev
  BY DEF TypeOK, NoRev, RevisionsFit
<1>2. ShownFits'
  <2>1. version' = rev' => version = rev /\ server' = server
    BY <1>1 DEF Moves, histVars
  <2> QED
    BY <2>1 DEF Shows, ShownFits, Differs, pageVars, histVars
<1> QED
  BY <1>2 DEF Shows, SnapshotFits, ColoursLookUp, PendingColourShown, pageVars

\* Nothing changes in what is shown, but an override may be forgotten.
LEMMA OthersShow ==
    ASSUME TypeOK, Shows, UNCHANGED <<server, rev, allTracks, lastTracksKey, histVars>>,
           \A t \in DOMAIN allTracks :
               pending'[t].field = "color_id" => pending'[t] = pending[t],
           \A q \in requests' : q.what = "color_id" => q.row \in {"lookup", "none"}
    PROVE  Shows'
BY DEF Shows, SnapshotFits, ShownFits, Differs, ColoursLookUp, PendingColourShown, histVars

\* The list shown is patched, and what it then is.
Patches(ids, field, value) ==
    /\ Show(Patched(allTracks, ids, field, value))
    /\ ids \X {field} \subseteq touched'
    /\ touched \subseteq touched'

PatchedIn(ids, field, value) ==
    /\ DOMAIN allTracks' = DOMAIN allTracks
    /\ \A t \in DOMAIN allTracks, f \in Fields :
          allTracks'[t][f] = IF t \in ids /\ f = field THEN value ELSE allTracks[t][f]

\* A patch of the list shown is among the fields touched.
LEMMA PatchShows ==
    ASSUME TypeOK, Shows, UNCHANGED <<server, rev, version>>,
           NEW ids \in SUBSET Tracks, NEW field \in Fields, NEW value \in Values,
           Patches(ids, field, value)
    PROVE  SnapshotFits' /\ ShownFits' /\ PatchedIn(ids, field, value)
<1> USE DEF Patches, PatchedIn
<1>1. allTracks' = Patched(allTracks, ids, field, value) /\ lastTracksKey' = allTracks'
  BY DEF Show
<1>2. allTracks \in List
  BY DEF TypeOK
<1>3. /\ DOMAIN allTracks' = DOMAIN allTracks
      /\ \A t \in DOMAIN allTracks, f \in Fields :
            allTracks'[t][f] = IF t \in ids /\ f = field THEN value ELSE allTracks[t][f]
  BY <1>1, <1>2, PatchedIs
<1>4. ShownFits'
  <2>1. \A t \in Tracks, f \in Fields :
            Differs(t, f)' => Differs(t, f) \/ (t \in ids /\ f = field)
    BY <1>3 DEF Differs
  <2> QED
    BY <1>3, <2>1 DEF Shows, ShownFits
<1> QED
  BY <1>1, <1>3, <1>4 DEF SnapshotFits

\* A list that is applied is shown as it is overlaid.
LEMMA GotListShows ==
    ASSUME TypeOK, PollsFit, Shows, NEW p \in polls, GotList(p)
    PROVE  Shows'
<1>1. p.list \in List /\ p.stage = "list"
  BY DEF GotList, TypeOK, Poll
<1>2. allTracks' = Overlaid(p.list) /\ lastTracksKey' = allTracks'
  BY DEF GotList, Show, Shows, SnapshotFits
<1>3. DOMAIN p.list \in SUBSET Tracks
  BY <1>1, ListIs
<1>4. ShownFits'
  <2>1. /\ version' = p.asOf /\ UNCHANGED <<server, rev>>
        /\ touched' = {<<t, pending[t].field>> :
                          t \in {u \in DOMAIN p.list : Overrides(u, p.list)}}
    BY DEF GotList
  <2>2. p.asOf = rev => p.list = server
    BY <1>1 DEF PollsFit
  <2>3. /\ DOMAIN allTracks' = DOMAIN p.list
        /\ \A t \in DOMAIN p.list, f \in Fields :
              allTracks'[t][f] # p.list[t][f] => Overrides(t, p.list) /\ f = pending[t].field
    BY <1>1, <1>2, OverlaidIs
  <2>4. \A t \in DOMAIN p.list, f \in Fields :
            allTracks'[t][f] # p.list[t][f] => <<t, f>> \in touched'
    BY <2>1, <2>3
  <2> QED
    BY <2>1, <2>2, <2>3, <2>4 DEF ShownFits, Differs
<1>5. PendingColourShown'
  <2>1. \A t \in DOMAIN p.list :
            pending'[t].field = "color_id" => pending'[t] = pending[t]
    BY <1>3, WebLibraryAssumption DEF GotList, StillPending, NoEdit
  <2>2. /\ DOMAIN allTracks' = DOMAIN p.list
        /\ \A t \in DOMAIN p.list :
              pending[t].field # "none" =>
                  allTracks'[t][pending[t].field] = pending[t].value
    BY <1>1, <1>2, OverlaidIs
  <2> QED
    BY <2>1, <2>2 DEF PendingColourShown
<1>6. ColoursLookUp'
  <2>1. \A q \in requests' :
            \E r \in requests : q.what = r.what /\ (r.row # "held" => q.row = r.row)
    BY DEF GotList, TypeOK, Request
  <2> QED
    BY <2>1 DEF Shows, ColoursLookUp
<1> QED
  BY <1>2, <1>4, <1>5, <1>6 DEF Shows, SnapshotFits

\* A saved colour is shown, and nothing else of a colour's override changes.
LEMMA GotSavedShows ==
    ASSUME TypeOK, Shows, NEW r \in requests, GotSaved(r)
    PROVE  Shows'
<1>1. /\ r.ids \in SUBSET Tracks /\ r.value \in Values
      /\ r.what \in {"color_id", "rating"} /\ r.what \in Fields
  BY DEF GotSaved, TypeOK, Request, Fields
<1>2. /\ UNCHANGED <<server, rev, version, blind>> /\ requests' \subseteq requests
      /\ \A t \in Tracks :
            pending'[t] = IF t \in r.ids THEN [field |-> r.what, value |-> r.value]
                          ELSE pending[t]
  BY DEF GotSaved, Answered
<1>3. DOMAIN allTracks \in SUBSET Tracks
  BY ListIs DEF TypeOK
<1>4. ColoursLookUp'
  BY <1>2 DEF Shows, ColoursLookUp
<1>5. CASE r.row = "lost"
  <2>1. UNCHANGED <<allTracks, lastTracksKey, touched>>
    BY <1>5 DEF GotSaved
  <2>2. r.what # "color_id"
    BY <1>5 DEF Shows, ColoursLookUp
  <2>3. \A t \in DOMAIN allTracks :
            pending'[t].field = "color_id" => pending'[t] = pending[t]
    BY <1>2, <1>3, <2>2
  <2> QED
    BY <1>2, <1>4, <2>1, <2>3, OthersShow DEF histVars, ColoursLookUp
<1>6. CASE r.row # "lost"
  <2>1. /\ Show(Patched(allTracks, r.ids, r.what, r.value))
        /\ touched' = touched \cup (r.ids \X {r.what})
    BY <1>6 DEF GotSaved
  <2>2. Patches(r.ids, r.what, r.value)
    BY <2>1 DEF Patches
  <2>3. SnapshotFits' /\ ShownFits' /\ PatchedIn(r.ids, r.what, r.value)
    BY <1>1, <1>2, <2>2, PatchShows
  <2>4. DOMAIN allTracks' = DOMAIN allTracks
    BY <2>3 DEF PatchedIn
  <2>5. PendingColourShown'
    <3>1. \A t \in DOMAIN allTracks :
              allTracks'[t]["color_id"] =
                  IF t \in r.ids /\ r.what = "color_id" THEN r.value
                  ELSE allTracks[t]["color_id"]
      BY <2>3 DEF PatchedIn, Fields
    <3> QED
      BY <1>2, <1>3, <2>4, <3>1 DEF Shows, PendingColourShown
  <2> QED
    BY <1>4, <2>3, <2>5 DEF Shows
<1> QED
  BY <1>5, <1>6

\* Tracks that were deleted leave the list, as they have left the library.
LEMMA GotDeletedShows ==
    ASSUME TypeOK, RequestsFit, Shows, NEW r \in requests, GotDeleted(r)
    PROVE  Shows'
<1>1. /\ allTracks' = [t \in DOMAIN allTracks \ r.ids |-> allTracks[t]]
      /\ lastTracksKey' = allTracks'
      /\ UNCHANGED <<server, rev, version, blind, pending, touched>>
      /\ requests' \subseteq requests
  BY DEF GotDeleted, Answered, Show
<1>2. r.ids \cap DOMAIN server = {}
  BY DEF RequestsFit, GotDeleted
<1>3. ShownFits'
  BY <1>1, <1>2 DEF Shows, ShownFits, Differs
<1>4. PendingColourShown' /\ ColoursLookUp'
  BY <1>1 DEF Shows, PendingColourShown, ColoursLookUp
<1> QED
  BY <1>1, <1>3, <1>4 DEF Shows, SnapshotFits

\* An edit changes nothing that is shown, but tags, which no override is of.
LEMMA UserShows ==
    ASSUME TypeOK, Shows, UserStep, ~Added
    PROVE  Shows'
<1>1. CASE \E t \in Tracks, v \in Values : PatchTrackTagsLocal(t, v)
  <2>1. PICK t \in Tracks, v \in Values : PatchTrackTagsLocal(t, v)
    BY <1>1
  <2>2. {t} \in SUBSET Tracks /\ "tags" \in Fields /\ Patches({t}, "tags", v)
    BY <2>1 DEF PatchTrackTagsLocal, Patches, Fields
  <2>3. UNCHANGED <<server, rev, version, pending>>
    BY <2>1 DEF PatchTrackTagsLocal
  <2>4. SnapshotFits' /\ ShownFits' /\ PatchedIn({t}, "tags", v)
    BY <2>2, <2>3, PatchShows
  <2>5. PendingColourShown'
    BY <2>3, <2>4 DEF Shows, PendingColourShown, PatchedIn, Fields
  <2>6. ColoursLookUp'
    BY <2>1 DEF PatchTrackTagsLocal, Sent, Shows, ColoursLookUp
  <2> QED
    BY <2>4, <2>5, <2>6 DEF Shows
<1>2. CASE ~ \E t \in Tracks, v \in Values : PatchTrackTagsLocal(t, v)
  <2> DEFINE Quiet == UNCHANGED <<server, rev, pageVars, histVars>>
             Sends == \E what, ids, value, row :
                          /\ Sent(what, ids, value, row)
                          /\ what = "color_id" => row \in {"lookup", "none"}
  <2>1. Quiet /\ Sends
    <3>1. ASSUME NEW t \in Tracks, NEW v \in Values,
                 SetTrackColor(t, v) \/ SetTrackRating(t, v)
          PROVE  Quiet /\ Sends
      <4>1. CASE SetTrackColor(t, v)
        BY <4>1 DEF SetTrackColor
      <4>2. CASE SetTrackRating(t, v)
        <5>1. PICK value : Sent("rating", {t}, value, "held")
          BY <4>2 DEF SetTrackRating
        <5> QED
          BY <4>2, <5>1 DEF SetTrackRating
      <4> QED
        BY <3>1, <4>1, <4>2
    <3>2. ASSUME NEW ids, BulkDelete(ids)
          PROVE  Quiet /\ Sends
      BY <3>2 DEF BulkDelete
    <3>3. ASSUME NEW ids, NEW f \in Fields, NEW v \in Values, BulkSet(ids, f, v)
          PROVE  Quiet /\ Sends
      <4>1. PICK row \in {"lookup", "none"} : Sent(f, ids, v, row)
        BY <3>3 DEF BulkSet
      <4> QED
        BY <3>3, <4>1 DEF BulkSet
    <3> QED
      BY <1>2, <3>1, <3>2, <3>3 DEF UserStep
  <2>2. PICK what, ids, value, row :
            /\ Sent(what, ids, value, row)
            /\ what = "color_id" => row \in {"lookup", "none"}
    BY <2>1
  <2>3. \A q \in requests' : q.what = "color_id" => q.row \in {"lookup", "none"}
    BY <2>2 DEF Sent, Shows, ColoursLookUp
  <2> QED
    BY <2>1, <2>3, OthersShow DEF pageVars
<1> QED
  BY <1>1, <1>2

\* Every step keeps what is shown.
LEMMA ShowsStep ==
    ASSUME TypeOK, Fits, Shows, [Next]_vars
    PROVE  Shows'
<1> USE DEF Fits
<1>1. CASE Tick \/ Added
  BY <1>1, OthersShow DEF Tick, Added, pageVars, Shows, ColoursLookUp
<1>2. ASSUME NEW p \in polls, GotRev(p) \/ GotCues(p) \/ SendList(p) \/ LoseList(p)
      PROVE  Shows'
  BY <1>2, OthersShow DEF GotRev, GotCues, SendList, LoseList, pageVars, Shows, ColoursLookUp
<1>3. ASSUME NEW p \in polls, GotList(p)
      PROVE  Shows'
  BY <1>3, GotListShows
<1>4. CASE UserStep /\ ~Added
  BY <1>4, UserShows
<1>5. ASSUME NEW r \in requests, Serve(r) \/ Fail(r)
      PROVE  Shows'
  <2>1. PICK list \in {server, Carried(r)}, answer \in {"ok", "failed"} :
            /\ Changes(list)
            /\ requests' = (requests \ {r}) \cup {[r EXCEPT !.answer = answer]}
    BY <1>5 DEF Serve, Fail
  <2>2. Moves
    BY <2>1, CarriedIs, ChangesIs DEF Moves, TypeOK
  <2>3. \A q \in requests' : \E s \in requests : q.what = s.what /\ q.row = s.row
    BY <2>1 DEF TypeOK, Request
  <2>4. UNCHANGED <<pageVars, histVars>>
    BY <1>5 DEF Serve, Fail
  <2> QED
    BY <2>2, <2>3, <2>4, MovesShow
<1>6. ASSUME NEW r \in requests, GotSaved(r) \/ GotDeleted(r) \/ GotNothing(r)
      PROVE  Shows'
  <2>1. CASE GotNothing(r)
    BY <2>1, OthersShow DEF GotNothing, Answered, Shows, ColoursLookUp, histVars
  <2> QED
    BY <1>6, <2>1, GotSavedShows, GotDeletedShows
<1>7. ASSUME NEW t \in Tracks, OtherClient(t)
      PROVE  Shows'
  <2>1. PICK list \in List : Changes(list)
    BY <1>7, OtherChanges
  <2>2. Moves
    BY <2>1, ChangesIs DEF Moves
  <2> QED
    BY <1>7, <2>2, MovesShow DEF OtherClient
<1>8. ASSUME NEW t \in Tracks, Expire(t)
      PROVE  Shows'
  <2>1. \A u \in Tracks : pending'[u].field = "color_id" => pending'[u] = pending[u]
    BY <1>8 DEF Expire, NoEdit, TypeOK
  <2> QED
    BY <1>8, <2>1, ListIs, OthersShow DEF Expire, Shows, ColoursLookUp, TypeOK
<1>9. CASE UNCHANGED vars
  BY <1>9, OthersShow DEF vars, pageVars, Shows, ColoursLookUp
<1> QED
  BY <1>1, <1>2, <1>3, <1>4, <1>5, <1>6, <1>7, <1>8, <1>9
  DEF Next, PollStep, RequestStep

----------------------------------------------------------------------------
(***************************************************************************)
(* The theorems.                                                           *)
(***************************************************************************)

\* The page starts with no list, at no revision.
LEMMA InitOK == Init => TypeOK /\ Fits /\ Shows
<1> SUFFICES ASSUME Init PROVE TypeOK /\ Fits /\ Shows
  OBVIOUS
<1> USE DEF Init
<1>1. NoList \in List /\ DOMAIN NoList = {}
  <2>1. NoList \in [{} -> Row] /\ DOMAIN NoList = {}
    BY DEF NoList
  <2> QED
    BY <2>1, IsList
<1>2. server \in List /\ DOMAIN server = Tracks \ unborn
  <2>1. BlankRow \in Row
    BY WebLibraryAssumption DEF BlankRow, Row
  <2>2. server \in [Tracks \ unborn -> Row]
    BY <2>1
  <2> QED
    BY <2>2, IsList
<1>3. pending \in [Tracks -> [field: {"none", "color_id", "rating"}, value: Values]]
  BY WebLibraryAssumption DEF NoEdit
<1>4. 0 \in 0 .. ForceEvery - 1
  BY WebLibraryAssumption
<1>5. TypeOK
  BY <1>1, <1>2, <1>3, <1>4 DEF TypeOK
<1>6. Fits
  BY <1>2 DEF Fits, RevisionsFit, PollsFit, RequestsFit, NoRev
<1>7. Shows
  BY <1>1 DEF Shows, SnapshotFits, ShownFits, ColoursLookUp, PendingColourShown, NoRev
<1> QED
  BY <1>5, <1>6, <1>7

\* The invariant holds in every state of every behaviour of the page.
THEOREM Invariance == Spec => []IInv
<1> DEFINE Parts == TypeOK /\ Fits /\ Shows
<1>1. Init => Parts
  BY InitOK
<1>2. Parts /\ [Next]_vars => Parts'
  <2> SUFFICES ASSUME Parts, [Next]_vars PROVE Parts'
    OBVIOUS
  <2> QED
    BY TypeStep, FitsStep, ShowsStep
<1>3. Parts => IInv
  BY DEF IInv, Fits, Shows
<1> QED
  BY <1>1, <1>2, <1>3, PTL DEF Spec

\* Types: in particular, no override is of a track's tags.
THEOREM TypeCorrect == Spec => []TypeOK
<1>1. IInv => TypeOK
  BY DEF IInv
<1> QED
  BY <1>1, Invariance, PTL

\* A page whose revision is the server's shows the server's list, but for what
\* it patched itself (refresh).
THEOREM PageIsCaughtUp == Spec => []CaughtUp
<1>1. IInv => CaughtUp
  <2> SUFFICES ASSUME IInv, lastTracksRev = rev, ~blind PROVE version = rev /\ ShownFits
    BY DEF CaughtUp, ShownFits
  <2> QED
    BY DEF IInv, RevisionsFit, TypeOK, NoRev
<1> QED
  BY <1>1, Invariance, PTL

\* A colour that was saved is shown as long as its override stands
\* (setTrackColor, applyPendingTrackEdits).
THEOREM PendingColourIsShown == Spec => []PendingColourShown
<1>1. IInv => PendingColourShown
  BY DEF IInv
<1> QED
  BY <1>1, Invariance, PTL
=============================================================================
