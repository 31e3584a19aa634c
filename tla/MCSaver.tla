------------------------------ MODULE MCSaver ------------------------------
(***************************************************************************)
(* TLC instances of Saver.  No symmetry: the run checks temporal           *)
(* properties.                                                             *)
(***************************************************************************)
EXTENDS Saver, TLC
============================================================================
