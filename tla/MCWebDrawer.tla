----------------------------- MODULE MCWebDrawer ----------------------------
(***************************************************************************)
(* TLC instances of WebDrawer: tracks, of which one has no 3-band data.    *)
(***************************************************************************)
EXTENDS WebDrawer, TLC
=============================================================================
