---------------------------- MODULE DurableCell ----------------------------
(***************************************************************************)
(* What a store that saves in the background promises (the package comment *)
(* of src/internal/saver): changes are numbered in the order they are      *)
(* made; the file holds the store as it stood after one of them; a save    *)
(* only moves the file forward; a crash loses the changes made since and   *)
(* nothing else.                                                           *)
(***************************************************************************)
EXTENDS Integers

VARIABLES
    memory,  \* the number of changes in the store
    file     \* the number of changes in its file

Init == memory = 0 /\ file = 0

Change == memory' = memory + 1 /\ UNCHANGED file

Save == /\ file < memory
        /\ file' \in (file + 1)..memory
        /\ UNCHANGED memory

Crash == memory' = file /\ UNCHANGED file

Next == Change \/ Save \/ Crash

vars == <<memory, file>>

Spec == Init /\ [][Next]_vars
============================================================================
