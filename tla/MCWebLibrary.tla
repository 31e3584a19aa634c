---------------------------- MODULE MCWebLibrary ----------------------------
(***************************************************************************)
(* TLC instances of WebLibrary.  No symmetry: the run checks a temporal    *)
(* property.                                                               *)
(***************************************************************************)
EXTENDS WebLibrary, TLC
============================================================================
