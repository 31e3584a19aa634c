--------------------------- MODULE MCWebPlaylists ---------------------------
(***************************************************************************)
(* TLC instance of WebPlaylists: two folders, a list and a smart playlist. *)
(***************************************************************************)
EXTENDS WebPlaylists

CONSTANTS t1, t2, r0

Entry(kind, parent, rules, tracks) ==
    [kind |-> kind, parent |-> parent, rules |-> rules, tracks |-> tracks]

MCStart ==
    << Entry("folder", Root, None, <<>>),
       Entry("folder", Root, None, <<>>),
       Entry("list", 1, None, <<t1>>),
       Entry("smart", Root, [value |-> r0, of |-> 4], <<>>) >>
=============================================================================
