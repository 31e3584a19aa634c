------------------------------- MODULE Lists -------------------------------
(***************************************************************************)
(* Lists that hold an element at most once: the analysis queues, and the   *)
(* list of results by use.                                                 *)
(***************************************************************************)
EXTENDS Integers, Sequences

Held(q)     == {q[i] : i \in DOMAIN q}
Distinct(q) == \A i, k \in DOMAIN q : q[i] = q[k] => i = k

\* slices.DeleteFunc on a queue, list.Remove on the list of results.
Without(q, t) ==
    IF \E i \in DOMAIN q : q[i] = t
    THEN LET i == CHOOSE i \in DOMAIN q : q[i] = t
         IN  SubSeq(q, 1, i - 1) \o SubSeq(q, i + 1, Len(q))
    ELSE q
============================================================================
