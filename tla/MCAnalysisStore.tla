-------------------------- MODULE MCAnalysisStore --------------------------
(***************************************************************************)
(* TLC instances of AnalysisStore.                                         *)
(***************************************************************************)
EXTENDS AnalysisStore, TLC

\* The goroutines are interchangeable, and so are tracks that are never
\* locked and that no importer knows.
Interchangeable == Permutations(Clients) \cup Permutations(Tracks \ (Lockable \cup Importable))

\* Bound: once all tracks are excused and no import or edit is left to come, the
\* properties claim nothing any more.
StillClaimed == excused # Tracks \/ made < MaxMade
============================================================================
