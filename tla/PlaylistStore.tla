--------------------------- MODULE PlaylistStore ----------------------------
(***************************************************************************)
(* The server's playlists, folders and smart playlists                     *)
(* (src/api/playliststore.go, src/api/playlists.go): a flat table whose    *)
(* entries point at their parents.  Every operation runs whole, under the  *)
(* store's mutex; the operators here are what one makes of the table.      *)
(***************************************************************************)
EXTENDS Integers, Sequences, FiniteSets, Lists

CONSTANTS
    Tracks,  \* the library's tracks
    Values,  \* what a smart playlist's rules can say
    MaxID,   \* bound: the highest playlist ID
    None     \* nothing

ASSUME MaxIDAssumption == MaxID \in Nat \ {0}
ASSUME TracksAssumption == IsFiniteSet(Tracks)
ASSUME NoneAssumption == None \notin 0 .. MaxID + 1

Ids == 1 .. MaxID
Root == 0
New == MaxID + 1      \* stands for the ID that a smart playlist has yet to get
NoTrack == "null"     \* an entry of a list that names no track

ASSUME NoTrackAssumption == NoTrack \notin Tracks

Kinds == {"folder", "list", "smart"}

\* A smart playlist's rules: what they say, and (history) the playlist the
\* editor was opened for that wrote them.
Rules == [value: Values, of: Ids \cup {New}]

\* A list without the members of gone.
WithoutAll(s, gone) ==
    LET kept[i \in 0 .. Len(s)] ==
            IF i = 0 THEN <<>>
            ELSE IF s[i] \in gone THEN kept[i - 1] ELSE Append(kept[i - 1], s[i])
    IN  kept[Len(s)]

\* The function f, but for r at s.
With(f, s, r) == [x \in DOMAIN f \cup {s} |-> IF x = s THEN r ELSE f[x]]

\* The parents of n in table t, one level up after the other.
Up(t, n) ==
    LET up[k \in 0 .. Cardinality(DOMAIN t)] ==
            IF k = 0 THEN n
            ELSE IF up[k - 1] \in DOMAIN t THEN t[up[k - 1]].parent ELSE Root
    IN  up

\* isDescendant (isPlaylistDescendantOf in the page): candidate is somewhere under root.
IsDescendant(t, candidate, root) ==
    \E k \in 1 .. Cardinality(DOMAIN t) : Up(t, candidate)[k] = root

IsFolder(t, n) == n \in DOMAIN t /\ t[n].kind = "folder"
IsList(t, n) == n \in DOMAIN t /\ t[n].kind = "list"

\* A parent for Create: the root, or a folder the table holds.
CanHold(t, parent) == parent = Root \/ IsFolder(t, parent)

Everything == CHOOSE s \in [1 .. Cardinality(Tracks) -> Tracks] : Held(s) = Tracks

\* Mutant: any folder will do.
CanMoveUnchecked(t, n, parent) == n \in DOMAIN t /\ parent # n /\ CanHold(t, parent)

\* Move refuses a folder's own descendants.
CanMove(t, n, parent) ==
    /\ n \in DOMAIN t
    /\ parent # n
    /\ CanHold(t, parent)
    /\ parent # Root => ~IsDescendant(t, parent, n)

Moved(t, n, parent) == [t EXCEPT ![n].parent = parent]

\* Delete takes everything under n with it.
Deleted(t, n) ==
    [m \in {m \in DOMAIN t : m # n /\ ~IsDescendant(t, m, n)} |-> t[m]]

\* Mutant: tracks the list already holds are added again.
AddedAgain(list, tracks) == list \o tracks

\* EditTracks on one list: to its end, but those it already holds; or every
\* entry of the tracks taken out.  (The code also skips a track that is asked
\* for twice in one call; the page's calls name each once.)
Added(list, tracks) == list \o WithoutAll(tracks, Held(list))
Removed(list, tracks) == WithoutAll(list, Held(tracks))

Edited(list, mode, tracks) ==
    IF mode = "add" THEN Added(list, tracks) ELSE Removed(list, tracks)

\* TracksFor: what a GET of a playlist's tracks answers.  Rules match every
\* track here.
TracksFor(t, n) ==
    CASE IsList(t, n) -> WithoutAll(t[n].tracks, {NoTrack})
      [] n \in DOMAIN t /\ t[n].kind = "smart" -> Everything
      [] OTHER -> <<>>

\* What GET /api/playlists answers, but for the counts.
Listed(t) ==
    [n \in DOMAIN t |-> [kind |-> t[n].kind, parent |-> t[n].parent, rules |-> t[n].rules]]
=============================================================================
