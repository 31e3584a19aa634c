-------------------------- MODULE MCAnalysisQueue --------------------------
(***************************************************************************)
(* TLC instances of AnalysisQueue.                                         *)
(***************************************************************************)
EXTENDS AnalysisQueue, TLC

\* Callers are interchangeable, and so are the tracks that are never edited.
Interchangeable ==
    Permutations(Waiters) \cup Permutations(Tracks \ (Replaceable \cup Deletable))
============================================================================
