---------------------------- MODULE WebPlaylists ----------------------------
(***************************************************************************)
(* The playlists of the web UI (src/api/web/js: tags-playlists.js,         *)
(* smart-playlists.js, export.js, filter.js, library.js) and the server's  *)
(* store behind them.                                                      *)
(*                                                                         *)
(* The page keeps a copy of the playlists, the rows of the selected one,   *)
(* and what it last drew of both.  It never polls them: it reads them      *)
(* again after a change of its own.  Each change and each read is a chain  *)
(* of requests; several run at a time, what they find when an answer comes *)
(* is what other handlers and another client left.                         *)
(***************************************************************************)
EXTENDS PlaylistStore

CONSTANTS
    Start,        \* the playlists there are at first
    Banks,        \* the hot cue banks
    Default,      \* what the rules of a new smart playlist say
    Collection,   \* the whole library, as what is selected
    MaxDrafts,    \* bound: times the smart editor is opened
    MaxRequests,  \* bound: chains of requests under way
    MaxEvents     \* bound: what the user and the other client do

ASSUME PageAssumption ==
    /\ Default \in Values
    /\ Collection \notin Ids \cup Banks /\ Banks \cap Ids = {}
    /\ MaxDrafts \in Nat /\ MaxRequests \in Nat /\ MaxEvents \in Nat

\* The table the server starts with is one it keeps: a tree of folders, whose
\* lists hold a track once and whose smart playlists have rules of their own.
ASSUME StartAssumption ==
    /\ \E k \in 0 .. MaxID : DOMAIN Start = 1 .. k
    /\ \A n \in DOMAIN Start :
           /\ Start[n] \in [kind: Kinds, parent: Ids \cup {Root}, rules: Rules \cup {None},
                            tracks: Seq(Tracks \cup {NoTrack})]
           /\ CanHold(Start, Start[n].parent)
           /\ \E k \in 0 .. Cardinality(DOMAIN Start) : Up(Start, n)[k] = Root
           /\ Start[n].kind = "smart" => Start[n].rules \in Rules /\ Start[n].rules.of = n
           /\ Distinct(Start[n].tracks)

VARIABLES
    tree,             \* the server's playlists
    nextID,           \* the ID the server gives next
    banks,            \* the server's hot cue banks
    playlistsCache,   \* the page's copy of the playlists
    sidebar,          \* the copy the sidebar was drawn from
    hcbCache,         \* the page's hot cue banks
    selectedSource,   \* the collection, a playlist or a bank
    plSelectedID,     \* the selected playlist
    plSelectedTracks, \* its tracks
    shown,            \* what the table was drawn from
    bulkSelectedIDs,  \* the tracks checked
    dialog,           \* the modal dialog that is open
    drafts,           \* every state the smart editor was given
    smartEditorState, \* the one it shows, or 0
    preview,          \* what its count of matching tracks was taken from
    requests,         \* the chains of requests under way
    events            \* user actions and the other client's changes so far

serverVars == <<tree, nextID, banks>>
cacheVars == <<playlistsCache, sidebar, hcbCache>>
selectionVars == <<selectedSource, plSelectedID, plSelectedTracks>>
editorVars == <<drafts, smartEditorState, preview>>
vars == <<serverVars, cacheVars, selectionVars, shown, bulkSelectedIDs, dialog,
          editorVars, requests, events>>

Copies == [kind: Kinds, parent: Ids \cup {Root}, rules: Rules \cup {None}]

\* A state of the smart editor: the playlist it was opened for (none: a new
\* one), what its rules say, the tab, and whether that tab's text is no JSON.
Draft == [id: Ids \cup {None}, value: Values, view: {"form", "json"}, bad: BOOLEAN]

\* The table: the tracks it lists, and the kind of source, which decides what
\* its rows and the toolbar offer.
Table == [tracks: SUBSET Tracks,
          kind: Kinds \cup {"collection", "bank", "gone"}]

\* What the toolbar names is what its buttons act on: the selected playlist
\* (deleteSelectedPlaylist and its like take plSelectedID, the toolbar and the
\* sidebar selectedSource).
SelectionAgrees == plSelectedID = IF selectedSource \in Ids THEN selectedSource ELSE None

\* The types; and the two variables of the selection agree.
TypeOK ==
    /\ DOMAIN tree \subseteq Ids
    /\ \A n \in DOMAIN tree :
           /\ tree[n] \in [kind: Kinds, parent: Ids \cup {Root}, rules: Rules \cup {None},
                           tracks: {tree[n].tracks}]
           /\ Held(tree[n].tracks) \subseteq Tracks \cup {NoTrack}
    /\ nextID \in 1 .. MaxID + 1
    /\ banks \subseteq Banks /\ hcbCache \subseteq Banks
    /\ \A c \in {playlistsCache, sidebar} :
           DOMAIN c \subseteq Ids /\ \A n \in DOMAIN c : c[n] \in Copies
    /\ selectedSource \in {Collection} \cup Ids \cup Banks
    /\ SelectionAgrees
    /\ Held(plSelectedTracks) \subseteq Tracks
    /\ shown \in Table
    /\ bulkSelectedIDs \subseteq Tracks
    /\ \A i \in DOMAIN drafts : drafts[i] \in Draft
    /\ smartEditorState \in 0 .. Len(drafts)
    /\ preview \in Values \cup {None}
    /\ DOMAIN requests \subseteq 1 .. MaxRequests
    /\ events \in 0 .. MaxEvents

----------------------------------------------------------------------------
(* Requests.  Those that read: the list of playlists (keep: with the tracks *)
(* of the selected one), a playlist's tracks and what comes then, the      *)
(* banks, a bank's tracks, the tags that the smart editor needs first.     *)
(* after is what the handler that began the chain does at its end.         *)

Request(call) ==
    [f \in DOMAIN call \cup {"state", "answer"} |->
        CASE f = "state" -> "sent" [] f = "answer" -> <<>> [] OTHER -> call[f]]

ListGet(keep, after) == Request([what |-> "list", keep |-> keep, after |-> after])
TracksGet(n, then, after) ==
    Request([what |-> "tracks", id |-> n, then |-> then, after |-> after])
BanksGet(after) == Request([what |-> "banks", after |-> after])

\* Nothing; or tracks are unchecked; or the picker is drawn again.
Nothing == [uncheck |-> {}, draw |-> FALSE]
Unchecks(S) == [uncheck |-> S, draw |-> FALSE]
Draws == [uncheck |-> {}, draw |-> TRUE]

\* The picker as it is drawn: the tracks of the rows are marked as added.
Picker == [what |-> "pick", id |-> None, added |-> Held(plSelectedTracks)]
Picking == dialog # None /\ dialog.what = "pick"
DrawPicker(draw) == dialog' = IF draw /\ Picking THEN Picker ELSE dialog

Ends(after) ==
    /\ bulkSelectedIDs' = bulkSelectedIDs \ after.uncheck
    /\ DrawPicker(after.draw)

Free == {s \in 1 .. MaxRequests : s \notin DOMAIN requests}
Ask(r) ==
    /\ Free # {}
    /\ LET s == CHOOSE s \in Free : \A x \in Free : s <= x
       IN  requests' = With(requests, s, r)
Follow(s, r) == requests' = [requests EXCEPT ![s] = r]
Finish(s) == requests' = [x \in DOMAIN requests \ {s} |-> requests[x]]

Happens == events < MaxEvents /\ events' = events + 1

\* refreshLibraryView: what the table and the toolbar are drawn from.
View(source, cache, rows) ==
    CASE source = Collection -> [tracks |-> Tracks, kind |-> "collection"]
      [] source \in Banks -> [tracks |-> {}, kind |-> "bank"]
      [] IsFolder(cache, source) -> [tracks |-> {}, kind |-> "folder"]
      [] source \in DOMAIN cache /\ ~IsFolder(cache, source) ->
             [tracks |-> Held(rows), kind |-> cache[source].kind]
      [] OTHER -> [tracks |-> Held(rows), kind |-> "gone"]

\* The page has loaded its playlists, and the user chosen one of them, or not
\* yet.  (What the load at the start does, a later one does, too.)
Init ==
    /\ tree = Start
    /\ nextID = Cardinality(DOMAIN Start) + 1
    /\ banks = Banks /\ hcbCache = Banks
    /\ playlistsCache = Listed(Start) /\ sidebar = Listed(Start)
    /\ \E n \in DOMAIN Start \cup {None} :
           /\ selectedSource = IF n = None THEN Collection ELSE n
           /\ plSelectedID = n
           /\ plSelectedTracks = TracksFor(Start, n)
           /\ shown = View(selectedSource, playlistsCache, plSelectedTracks)
    /\ bulkSelectedIDs = {}
    /\ dialog = None
    /\ drafts = <<>> /\ smartEditorState = 0 /\ preview = None
    /\ requests = <<>>
    /\ events = 0

\* Mutant: a dialog leaves the page behind it open to clicks.
NotModal == smartEditorState = 0

\* A dialog and the smart editor cover the page.
AtPage == dialog = None /\ smartEditorState = 0

\* The user does something on the page.
Acts == Happens /\ AtPage

----------------------------------------------------------------------------
(* What is selected.                                                       *)

\* COLLECTION in the sidebar, or FIND on a player's card.
SelectCollection ==
    /\ Acts
    /\ selectedSource' = Collection /\ plSelectedID' = None /\ plSelectedTracks' = <<>>
    /\ shown' = View(Collection, playlistsCache, <<>>)
    /\ UNCHANGED <<serverVars, cacheVars, bulkSelectedIDs, dialog, editorVars, requests>>

\* A click in the sidebar selects at once.  The table follows when the tracks
\* have come; a folder has none.
ClickNode(n) ==
    /\ Acts
    /\ selectedSource' = n /\ plSelectedID' = n
    /\ IF sidebar[n].kind = "folder"
       THEN /\ plSelectedTracks' = <<>>
            /\ shown' = View(n, playlistsCache, <<>>)
            /\ UNCHANGED requests
       ELSE /\ Ask(TracksGet(n, "show", Nothing))
            /\ UNCHANGED <<plSelectedTracks, shown>>
    /\ UNCHANGED <<serverVars, cacheVars, bulkSelectedIDs, dialog, editorVars>>

\* A bank is selected when its tracks have come.
ClickBank(b) ==
    /\ Acts
    /\ Ask(Request([what |-> "bank", bank |-> b]))
    /\ UNCHANGED <<serverVars, cacheVars, selectionVars, shown, bulkSelectedIDs, dialog, editorVars>>

\* The poll draws the table again.
Redraw ==
    /\ shown' = View(selectedSource, playlistsCache, plSelectedTracks)
    /\ shown' # shown
    /\ UNCHANGED <<serverVars, cacheVars, selectionVars, bulkSelectedIDs, dialog, editorVars,
                   requests, events>>

----------------------------------------------------------------------------
(* Changes asked for on the page.  Each is one request to start with.      *)

Asks(r) ==
    /\ Ask(r)
    /\ UNCHANGED <<serverVars, cacheVars, selectionVars, shown, bulkSelectedIDs, dialog, editorVars>>

Edit(n, mode, tracks, by, after) ==
    Request([what |-> "edit", id |-> n, mode |-> mode, tracks |-> tracks, by |-> by,
             after |-> after])
Post(n, tracks) == Request([what |-> "post", id |-> n, tracks |-> tracks])
InOrder(S) == WithoutAll(Everything, Tracks \ S)

\* A playlist or folder dropped on a folder, or on the empty part of the tree.
DropNode(n, target) ==
    /\ Acts
    /\ IF target = Root
       THEN n \in DOMAIN playlistsCache /\ playlistsCache[n].parent # Root
       ELSE /\ sidebar[target].kind = "folder" /\ target # n
            /\ ~IsDescendant(playlistsCache, target, n)
    /\ Asks(Request([what |-> "move", id |-> n, parent |-> target]))

\* A row of the library dropped on a playlist; smart ones are offered, too.
DropTrack(n, t) ==
    /\ Acts
    /\ shown.kind # "list" /\ t \in shown.tracks
    /\ n \in DOMAIN playlistsCache /\ ~IsFolder(playlistsCache, n)
    /\ Asks(Edit(n, "add", <<t>>, "append", Nothing))

\* Check boxes: one row, a range, or all of them; and CLEAR.
CheckTracks(S) ==
    /\ Acts
    /\ bulkSelectedIDs' = (bulkSelectedIDs \ shown.tracks) \cup S
    /\ bulkSelectedIDs' # bulkSelectedIDs
    /\ UNCHANGED <<serverVars, cacheVars, selectionVars, shown, dialog, editorVars, requests>>

ClearChecked ==
    /\ Acts
    /\ bulkSelectedIDs # {} /\ bulkSelectedIDs' = {}
    /\ UNCHANGED <<serverVars, cacheVars, selectionVars, shown, dialog, editorVars, requests>>

BulkAdd(n) ==
    /\ Acts
    /\ bulkSelectedIDs # {} /\ IsList(playlistsCache, n)
    /\ Asks(Edit(n, "add", InOrder(bulkSelectedIDs), "bulk", Nothing))

BulkRemove ==
    LET drop == Held(plSelectedTracks) \cap bulkSelectedIDs
    IN  /\ Acts
        /\ plSelectedID # None /\ drop # {}
        /\ Asks(Edit(plSelectedID, "remove", InOrder(drop), "bulk", Unchecks(drop)))

Smaller(a, b) == IF a < b THEN a ELSE b
TakenOut(s, i) == SubSeq(s, 1, Smaller(i - 1, Len(s))) \o SubSeq(s, i + 1, Len(s))
Inserted(s, k, t) == SubSeq(s, 1, k) \o <<t>> \o SubSeq(s, k + 1, Len(s))

\* The row's cross: the whole list is written, without that entry.
RemoveRow(t) ==
    LET at == {i \in DOMAIN plSelectedTracks : plSelectedTracks[i] = t}
    IN  /\ Acts
        /\ shown.kind = "list" /\ t \in shown.tracks
        /\ plSelectedID # None /\ at # {}
        /\ Asks(Post(plSelectedID,
                     TakenOut(plSelectedTracks, CHOOSE i \in at : \A j \in at : i <= j)))

\* A row dragged to another place among the rows drawn.  Its position is taken
\* for one in plSelectedTracks, which may have become shorter.
MoveRow(i, k) ==
    LET moved == IF i <= Len(plSelectedTracks) THEN plSelectedTracks[i] ELSE NoTrack
        rest == TakenOut(plSelectedTracks, i)
        at == Smaller(IF i <= k THEN k - 1 ELSE k, Len(rest))
    IN  /\ Acts
        /\ shown.kind = "list"
        /\ i - 1 # k
        /\ Asks(Post(plSelectedID, Inserted(rest, at, moved)))

----------------------------------------------------------------------------
(* Dialogs.  What one names is found when it opens; what it does is found  *)
(* when it is answered.                                                    *)

Dialog(what, n) == [what |-> what, id |-> n]

OpenDialog(d) ==
    /\ Acts
    /\ dialog' = d
    /\ UNCHANGED <<serverVars, cacheVars, selectionVars, shown, bulkSelectedIDs, editorVars, requests>>

\* RENAME and DELETE, for the playlist selected.
AskAbout(what) ==
    /\ OpenDialog(Dialog(what, plSelectedID))
    /\ shown.kind \in Kinds
    /\ plSelectedID \in DOMAIN playlistsCache

\* EXPORT fixes what it exports when it opens.
OpenExport ==
    /\ shown.kind \notin {"folder", "bank"}
    /\ OpenDialog(Dialog("export",
           IF selectedSource \in DOMAIN playlistsCache THEN selectedSource ELSE None))

OpenAddPicker ==
    /\ shown.kind = "list" /\ plSelectedID # None
    /\ OpenDialog(Picker)

OpenImport == OpenDialog(Dialog("import", None))
OpenCreate(kind) == OpenDialog(Dialog(kind, None))

CancelDialog ==
    /\ dialog # None /\ dialog' = None
    /\ UNCHANGED <<serverVars, cacheVars, selectionVars, shown, bulkSelectedIDs, editorVars,
                   requests, events>>

\* A new playlist goes under the folder that is selected by now.
NewParent == IF IsFolder(playlistsCache, plSelectedID) THEN plSelectedID ELSE Root

Create(kind, rules) ==
    Request([what |-> "create", kind |-> kind, parent |-> NewParent, rules |-> rules])

\* A dialog answered with its OK button.  The one of an export or an import
\* stays open in the code until it is done, and only shows how it went.
Confirm ==
    /\ dialog # None /\ UNCHANGED events
    /\ CASE dialog.what \in {"rename", "delete"} ->
                Ask(Request([what |-> dialog.what, id |-> plSelectedID, named |-> dialog.id]))
         [] dialog.what = "export" ->
                Ask(Request([what |-> "export", id |-> dialog.id, named |-> dialog.id]))
         [] dialog.what = "import" -> Ask(Request([what |-> "import"]))
         [] dialog.what \in {"list", "folder"} -> Ask(Create(dialog.what, None))
         [] OTHER -> FALSE
    /\ dialog' = None
    /\ UNCHANGED <<serverVars, cacheVars, selectionVars, shown, bulkSelectedIDs, editorVars>>

\* Typing in the picker's filter draws it again.
TypeFilter ==
    /\ DrawPicker(TRUE)
    /\ dialog' # dialog
    /\ UNCHANGED <<serverVars, cacheVars, selectionVars, shown, bulkSelectedIDs, editorVars, requests,
                   events>>

\* A track picked in the picker, which stays open, goes to the playlist that
\* is selected by now.  Those marked as added when it was drawn last cannot be
\* picked; it is drawn again when all that follows is done.
PickTrack(t) ==
    /\ Picking /\ Happens
    /\ t \notin dialog.added
    /\ Ask(Edit(plSelectedID, "add", <<t>>, "pick", Draws))
    /\ UNCHANGED <<serverVars, cacheVars, selectionVars, shown, bulkSelectedIDs, dialog, editorVars>>

----------------------------------------------------------------------------
(* The smart playlist editor.                                              *)

\* + SMART, and EDIT RULES, which asks for the playlist selected by now.  The
\* editor waits for the tags.
OpenSmartEditor(n) ==
    /\ Acts
    /\ n # None => shown.kind = "smart" /\ n = plSelectedID
    /\ Len(drafts) + Cardinality({s \in DOMAIN requests : requests[s].what = "tags"}) < MaxDrafts
    /\ Asks(Request([what |-> "tags", id |-> n]))

InEditor == smartEditorState # 0 /\ dialog = None
Current == drafts[smartEditorState]
Edits(d) == drafts' = [drafts EXCEPT ![smartEditorState] = d]
EditorOnly ==
    UNCHANGED <<serverVars, cacheVars, selectionVars, shown, bulkSelectedIDs, dialog,
                smartEditorState, requests, events>>

\* refreshSmartPreview: the count of the tracks that match is taken again.
RefreshSmartPreview(value) == preview' = value

\* Mutant: a control changes the rules and the count stays.
EditRulesQuietly(v) ==
    /\ InEditor /\ Current.view = "form" /\ v # Current.value
    /\ Edits([Current EXCEPT !.value = v])
    /\ UNCHANGED preview
    /\ EditorOnly

\* A control of the form, drawn again or not, and what a list box shows when
\* it is drawn: the rules follow, and then the count.
EditRules(v) ==
    /\ InEditor /\ Current.view = "form" /\ v # Current.value
    /\ Edits([Current EXCEPT !.value = v])
    /\ RefreshSmartPreview(v)
    /\ EditorOnly

\* Text typed on the JSON tab counts as soon as it parses.
TypeJson(v) ==
    /\ InEditor /\ Current.view = "json"
    /\ \/ Edits([Current EXCEPT !.value = v, !.bad = FALSE]) /\ RefreshSmartPreview(v)
       \/ Edits([Current EXCEPT !.bad = TRUE]) /\ UNCHANGED preview
    /\ drafts' # drafts
    /\ EditorOnly

SwitchSmartView ==
    /\ InEditor /\ ~Current.bad
    /\ Edits([Current EXCEPT !.view = IF @ = "form" THEN "json" ELSE "form"])
    /\ RefreshSmartPreview(Current.value)
    /\ EditorOnly

CloseSmartEditor ==
    /\ smartEditorState' = 0 /\ preview' = None
    /\ drafts' = IF smartEditorState = 0 THEN drafts
                 ELSE [drafts EXCEPT ![smartEditorState].view = "form", ![smartEditorState].bad = FALSE]

CancelSmartEditor ==
    /\ InEditor
    /\ CloseSmartEditor
    /\ UNCHANGED <<serverVars, cacheVars, selectionVars, shown, bulkSelectedIDs, dialog,
                   requests, events>>

RulesOf(d) == [value |-> drafts[d].value, of |-> IF drafts[d].id = None THEN New ELSE drafts[d].id]
PutRules(d) == Request([what |-> "rules", id |-> drafts[d].id, rules |-> RulesOf(d)])

\* SAVE creates the playlist, or renames it if the name changed (renamed) and
\* then writes its rules.  The editor stays open meanwhile.
SaveSmartEditor(renamed) ==
    /\ InEditor /\ UNCHANGED events
    /\ ~Current.bad
    /\ CASE Current.id = None -> ~renamed /\ Ask(Create("smart", RulesOf(smartEditorState)))
         [] Current.id # None /\ renamed ->
                Ask(Request([what |-> "name", id |-> Current.id, draft |-> smartEditorState]))
         [] OTHER -> Ask(PutRules(smartEditorState))
    /\ UNCHANGED <<serverVars, cacheVars, selectionVars, shown, bulkSelectedIDs, dialog, editorVars>>

----------------------------------------------------------------------------
(* The server.                                                             *)

Answered(s, a) ==
    /\ Follow(s, [requests[s] EXCEPT !.state = "answered", !.answer = a])
    /\ UNCHANGED <<bulkSelectedIDs, dialog>>

\* A read of tracks or banks that failed goes on with what there is.  One of
\* the list ends the loading, and its caller goes on; a track that was not
\* added leaves the picker to be drawn again.  What else fails is given up.
\* The user is told.
Refused(s) ==
    LET r == requests[s]
    IN  CASE r.what \in {"tracks", "banks"} ->
                 /\ Follow(s, [r EXCEPT !.state = "failed", !.answer = <<>>])
                 /\ UNCHANGED <<bulkSelectedIDs, dialog>>
          [] r.what = "list" -> Finish(s) /\ Ends(r.after)
          [] r.what = "edit" ->
                 Finish(s) /\ DrawPicker(r.after.draw) /\ UNCHANGED bulkSelectedIDs
          [] OTHER -> Finish(s) /\ UNCHANGED <<bulkSelectedIDs, dialog>>

\* A request that changes the playlists, if allowed, answered with a.
Applies(s, allowed, changed, a) ==
    \/ allowed /\ tree' = changed /\ Answered(s, a) /\ UNCHANGED nextID
    \/ ~allowed /\ Refused(s) /\ UNCHANGED <<tree, nextID>>

\* A new entry of the table.  Past MaxID the model refuses what the code does
\* not.
Creates(s, kind, parent, rules) ==
    \/ /\ CanHold(tree, parent) /\ nextID <= MaxID
       /\ tree' = With(tree, nextID,
                       [kind |-> kind, parent |-> parent, rules |-> rules, tracks |-> <<>>])
       /\ nextID' = nextID + 1
       /\ Answered(s, <<>>)
    \/ ~(CanHold(tree, parent) /\ nextID <= MaxID) /\ Refused(s) /\ UNCHANGED <<tree, nextID>>

ServeRead(s) ==
    LET r == requests[s]
    IN  /\ \/ r.what = "list" /\ Answered(s, Listed(tree))
           \/ r.what = "tracks" /\ Answered(s, TracksFor(tree, r.id))
           \/ r.what = "banks" /\ Answered(s, banks)
           \/ r.what = "bank" /\ r.bank \in banks /\ Answered(s, <<>>)
           \/ r.what = "bank" /\ r.bank \notin banks /\ Refused(s)
           \/ r.what = "export" /\ Finish(s) /\ UNCHANGED <<bulkSelectedIDs, dialog>>
        /\ UNCHANGED <<tree, nextID>>

ServeChange(s) ==
    LET r == requests[s]
    IN  \/ r.what = "move"
           /\ Applies(s, CanMove(tree, r.id, r.parent), Moved(tree, r.id, r.parent), <<>>)
        \/ r.what = "create" /\ Creates(s, r.kind, r.parent, r.rules)
        \/ r.what = "import" /\ Creates(s, "list", Root, None)
        \/ r.what \in {"rename", "name"} /\ Applies(s, r.id \in DOMAIN tree, tree, <<>>)
        \/ r.what = "delete" /\ Applies(s, r.id \in DOMAIN tree, Deleted(tree, r.id), <<>>)
        \/ r.what = "rules"
           /\ Applies(s, r.id \in DOMAIN tree /\ tree[r.id].kind = "smart",
                      [tree EXCEPT ![r.id].rules = r.rules], <<>>)
        \/ r.what = "edit"
           /\ LET list == Edited(tree[r.id].tracks, r.mode, r.tracks)
              IN  Applies(s, IsList(tree, r.id), [tree EXCEPT ![r.id].tracks = list],
                          list # tree[r.id].tracks)
        \/ r.what = "post"
           /\ Applies(s, IsList(tree, r.id), [tree EXCEPT ![r.id].tracks = r.tracks], <<>>)

Serve(s) ==
    /\ requests[s].state = "sent"
    /\ ServeRead(s) \/ ServeChange(s)
    /\ UNCHANGED <<banks, cacheVars, selectionVars, shown, editorVars, events>>

\* The request or its answer is lost.
Lose(s) ==
    /\ requests[s].state # "failed" /\ requests[s].what # "tags"
    /\ Happens
    /\ Refused(s)
    /\ UNCHANGED <<serverVars, cacheVars, selectionVars, shown, editorVars>>

\* The other client, and imports.
OtherChange ==
    /\ \/ \E n \in DOMAIN tree, p \in Ids \cup {Root} :
              CanMove(tree, n, p) /\ tree' = Moved(tree, n, p) /\ UNCHANGED banks
       \/ \E n \in DOMAIN tree : tree' = Deleted(tree, n) /\ UNCHANGED banks
       \/ \E n \in DOMAIN tree, mode \in {"add", "remove"}, t \in Tracks :
              /\ IsList(tree, n)
              /\ tree' = [tree EXCEPT ![n].tracks = Edited(@, mode, <<t>>)]
              /\ UNCHANGED banks
       \/ \E b \in banks : banks' = banks \ {b} /\ UNCHANGED tree
    /\ Happens
    /\ UNCHANGED <<nextID, cacheVars, selectionVars, shown, bulkSelectedIDs, dialog, editorVars,
                   requests>>

----------------------------------------------------------------------------
(* Answers.                                                                *)

Has(s, what, state) == requests[s].what \in what /\ requests[s].state = state

\* Mutant: the playlist that is gone stays the one that buttons act on.
GotListKeepingID(s) ==
    /\ Has(s, {"list"}, "answered")
    /\ LET r == requests[s]
           kept == r.keep /\ selectedSource \in Ids
       IN  /\ playlistsCache' = r.answer
           /\ IF kept /\ selectedSource \notin DOMAIN r.answer
              THEN /\ selectedSource' = Collection /\ plSelectedTracks' = <<>>
                   /\ Follow(s, BanksGet(r.after))
              ELSE /\ Follow(s, IF kept /\ ~IsFolder(r.answer, selectedSource)
                                THEN TracksGet(selectedSource, "banks", r.after)
                                ELSE BanksGet(r.after))
                   /\ UNCHANGED <<selectedSource, plSelectedTracks>>
    /\ UNCHANGED <<serverVars, sidebar, hcbCache, plSelectedID, shown, bulkSelectedIDs, dialog,
                   editorVars, events>>

\* loadPlaylists with its list: the selected playlist's tracks are loaded
\* again, if that is asked for; a playlist that is gone is no longer selected.
GotList(s) ==
    /\ Has(s, {"list"}, "answered")
    /\ LET r == requests[s]
           kept == r.keep /\ selectedSource \in Ids
       IN  /\ playlistsCache' = r.answer
           /\ IF kept /\ selectedSource \notin DOMAIN r.answer
              THEN /\ selectedSource' = Collection /\ plSelectedID' = None
                   /\ plSelectedTracks' = <<>>
                   /\ Follow(s, BanksGet(r.after))
              ELSE /\ Follow(s, IF kept /\ ~IsFolder(r.answer, selectedSource)
                                THEN TracksGet(selectedSource, "banks", r.after)
                                ELSE BanksGet(r.after))
                   /\ UNCHANGED selectionVars
    /\ UNCHANGED <<serverVars, sidebar, hcbCache, shown, bulkSelectedIDs, dialog, editorVars, events>>

\* loadPlaylistTracks: the rows become what came, or none, whatever is
\* selected by now.
GotTracks(s) ==
    /\ Has(s, {"tracks"}, "answered") \/ Has(s, {"tracks"}, "failed")
    /\ LET r == requests[s]
       IN  /\ plSelectedTracks' = IF r.state = "answered" THEN r.answer ELSE <<>>
           /\ CASE r.then = "show" ->
                       /\ Finish(s)
                       /\ shown' = View(selectedSource, playlistsCache, plSelectedTracks')
                [] r.then = "banks" -> Follow(s, BanksGet(r.after)) /\ UNCHANGED shown
                [] r.then = "list" -> Follow(s, ListGet(TRUE, r.after)) /\ UNCHANGED shown
    /\ UNCHANGED <<serverVars, cacheVars, selectedSource, plSelectedID, bulkSelectedIDs, dialog,
                   editorVars, events>>

\* loadHotCueBanks, and the end of loadPlaylists: all is drawn again.  A bank
\* that is gone is no longer selected; banks that did not come stay.
GotBanks(s) ==
    /\ Has(s, {"banks"}, "answered") \/ Has(s, {"banks"}, "failed")
    /\ LET r == requests[s]
           gone == r.state = "answered" /\ selectedSource \in Banks \ r.answer
       IN  /\ hcbCache' = IF r.state = "answered" THEN r.answer ELSE hcbCache
           /\ selectedSource' = IF gone THEN Collection ELSE selectedSource
           /\ Ends(r.after)
    /\ sidebar' = playlistsCache
    /\ shown' = View(selectedSource', playlistsCache, plSelectedTracks)
    /\ Finish(s)
    /\ UNCHANGED <<serverVars, playlistsCache, plSelectedID, plSelectedTracks, editorVars, events>>

\* A bank's click selects it, over whatever was selected since.
GotBank(s) ==
    /\ Has(s, {"bank"}, "answered")
    /\ selectedSource' = requests[s].bank
    /\ plSelectedID' = None /\ plSelectedTracks' = <<>>
    /\ shown' = View(selectedSource', playlistsCache, <<>>)
    /\ Finish(s)
    /\ UNCHANGED <<serverVars, cacheVars, bulkSelectedIDs, dialog, editorVars, events>>

\* openSmartEditor, once the tags have come or failed to: over whatever is open
\* by now.
GotTags(s) ==
    /\ requests[s].what = "tags"
    /\ LET n == requests[s].id
           value == IF n \in DOMAIN playlistsCache /\ playlistsCache[n].rules # None
                    THEN playlistsCache[n].rules.value ELSE Default
       IN  /\ drafts' = Append(drafts, [id |-> n, value |-> value, view |-> "form", bad |-> FALSE])
           /\ smartEditorState' = Len(drafts) + 1
           /\ RefreshSmartPreview(value)
    /\ Finish(s)
    /\ UNCHANGED <<serverVars, cacheVars, selectionVars, shown, bulkSelectedIDs, dialog, events>>

\* A move, a new playlist, a new name, an import: the playlists are read again.
\* The editor closes after a SAVE of its own: the one that is open by now.
GotChanged(s) ==
    /\ Has(s, {"move", "create", "rename", "import", "rules"}, "answered")
    /\ Follow(s, ListGet(TRUE, Nothing))
    /\ IF requests[s].what = "rules" \/ (requests[s].what = "create" /\ requests[s].kind = "smart")
       THEN CloseSmartEditor
       ELSE UNCHANGED editorVars
    /\ UNCHANGED <<serverVars, cacheVars, selectionVars, shown, bulkSelectedIDs, dialog, events>>

\* deleteSelectedPlaylist goes back to the collection, whatever is selected.
GotDeleted(s) ==
    /\ Has(s, {"delete"}, "answered")
    /\ selectedSource' = Collection /\ plSelectedID' = None /\ plSelectedTracks' = <<>>
    /\ Follow(s, ListGet(FALSE, Nothing))
    /\ UNCHANGED <<serverVars, cacheVars, shown, bulkSelectedIDs, dialog, editorVars, events>>

\* Mutant: the rules written are those of the editor that is open by now.
GotNameOfOpen(s) ==
    /\ Has(s, {"name"}, "answered")
    /\ LET d == IF smartEditorState = 0 THEN requests[s].draft ELSE smartEditorState
       IN  Follow(s, Request([what |-> "rules", id |-> requests[s].id, rules |-> RulesOf(d)]))
    /\ UNCHANGED <<serverVars, cacheVars, selectionVars, shown, bulkSelectedIDs, dialog,
                   editorVars, events>>

\* The second request of a SAVE takes the rules as they are by now.
GotName(s) ==
    /\ Has(s, {"name"}, "answered")
    /\ Follow(s, PutRules(requests[s].draft))
    /\ UNCHANGED <<serverVars, cacheVars, selectionVars, shown, bulkSelectedIDs, dialog,
                   editorVars, events>>

\* Tracks added or taken out: by a drop (which says so if the playlist held
\* them), the bulk bar, or the picker.
GotEdited(s) ==
    /\ Has(s, {"edit"}, "answered")
    /\ LET r == requests[s]
       IN  CASE r.by = "append" ->
                    IF r.answer THEN Follow(s, ListGet(plSelectedID = r.id, Nothing)) ELSE Finish(s)
             [] r.by = "bulk" /\ r.mode = "add" -> Follow(s, ListGet(TRUE, Nothing))
             [] OTHER -> Follow(s, TracksGet(r.id, "list", r.after))
    /\ UNCHANGED <<serverVars, cacheVars, selectionVars, shown, bulkSelectedIDs, dialog,
                   editorVars, events>>

GotPosted(s) ==
    /\ Has(s, {"post"}, "answered")
    /\ Follow(s, TracksGet(requests[s].id, "list", Nothing))
    /\ UNCHANGED <<serverVars, cacheVars, selectionVars, shown, bulkSelectedIDs, dialog,
                   editorVars, events>>

----------------------------------------------------------------------------
Answer(s) ==
    \/ GotList(s) \/ GotTracks(s) \/ GotBanks(s) \/ GotBank(s) \/ GotTags(s)
    \/ GotChanged(s) \/ GotDeleted(s) \/ GotName(s) \/ GotEdited(s) \/ GotPosted(s)

Browse ==
    \/ SelectCollection \/ Redraw
    \/ \E n \in DOMAIN sidebar : ClickNode(n)
    \/ \E b \in hcbCache : ClickBank(b)
    \/ \E S \in SUBSET shown.tracks : CheckTracks(S)
    \/ ClearChecked

Change ==
    \/ \E n \in DOMAIN sidebar, target \in DOMAIN sidebar \cup {Root} : DropNode(n, target)
    \/ \E n \in DOMAIN playlistsCache : BulkAdd(n) \/ \E t \in Tracks : DropTrack(n, t)
    \/ BulkRemove
    \/ \E t \in Tracks : RemoveRow(t) \/ PickTrack(t)
    \/ \E i \in 1 .. Cardinality(shown.tracks), k \in 0 .. Cardinality(shown.tracks) : MoveRow(i, k)

UseDialog ==
    \/ \E what \in {"rename", "delete"} : AskAbout(what)
    \/ \E kind \in {"list", "folder"} : OpenCreate(kind)
    \/ OpenExport \/ OpenImport \/ OpenAddPicker \/ TypeFilter \/ CancelDialog \/ Confirm

UseSmartEditor ==
    \/ \E n \in {None, plSelectedID} : OpenSmartEditor(n)
    \/ \E v \in Values : EditRules(v) \/ TypeJson(v)
    \/ SwitchSmartView \/ CancelSmartEditor
    \/ \E renamed \in BOOLEAN : SaveSmartEditor(renamed)

Next ==
    \/ Browse \/ Change \/ UseDialog \/ UseSmartEditor
    \/ OtherChange
    \/ \E s \in DOMAIN requests : Serve(s) \/ Lose(s) \/ Answer(s)

Spec == Init /\ [][Next]_vars

----------------------------------------------------------------------------
\* What a confirmation deletes, renames or exports is what it named, or
\* nothing: the handlers take plSelectedID again after the dialog, while loads
\* and another deletion may change the selection behind it.
ActsOnWhatItNamed ==
    \A s \in DOMAIN requests :
        requests[s].what \in {"rename", "delete", "export"} =>
            requests[s].id \in {requests[s].named, None}

\* The folders stay a tree: the page checks a drop against its copy, which
\* other clients leave behind, and the store must refuse what makes a cycle or
\* hangs an entry on nothing.
FoldersFormATree ==
    \A n \in DOMAIN tree :
        /\ CanHold(tree, tree[n].parent)
        /\ \E k \in 0 .. Cardinality(DOMAIN tree) : Up(tree, n)[k] = Root

\* A smart playlist's rules were written by an editor opened for it, or for a
\* new one if it was made here: a SAVE of two requests outlives its editor.
RulesStayTheirOwn ==
    \A n \in DOMAIN tree :
        tree[n].kind = "smart" =>
            tree[n].rules.of \in {n} \cup (IF n \in DOMAIN Start THEN {} ELSE {New})

\* The count of matching tracks is of the rules that SAVE would write.
PreviewIsOfRules ==
    smartEditorState # 0 => preview = Current.value

\* Adding by drop, bulk bar or picker never makes a list hold a track twice,
\* though the page's marks may be stale and clicks come twice; nor do lists
\* written whole from rows loaded earlier.
NoTrackTwice ==
    \A n \in DOMAIN tree : Distinct(tree[n].tracks)
=============================================================================
