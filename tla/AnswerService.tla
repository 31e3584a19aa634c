--------------------------- MODULE AnswerService ---------------------------
(***************************************************************************)
(* What the analysis queue promises its callers (the comment on            *)
(* Store.Request in src/analysis/queue.go): a caller that leaves a         *)
(* callback is called back once, and never while it has not asked.  Nothing  *)
(* is said of which analyses run, or of how long an answer takes, until    *)
(* the service is settled: then every caller gets its answer in the end.   *)
(***************************************************************************)
CONSTANTS Callers, Items, Nothing

VARIABLES
    asking,  \* the item each caller waits for, Nothing when it does not wait
    settled  \* the service is shutting down: nobody is kept waiting any more

Init == /\ asking = [c \in Callers |-> Nothing]
        /\ settled = FALSE

Ask(c, i) == /\ asking[c] = Nothing
             /\ asking' = [asking EXCEPT ![c] = i]
             /\ UNCHANGED settled

Answer(c) == /\ asking[c] # Nothing
             /\ asking' = [asking EXCEPT ![c] = Nothing]
             /\ UNCHANGED settled

Settle == /\ settled' = TRUE
          /\ UNCHANGED asking

Next == \/ \E c \in Callers, i \in Items : Ask(c, i)
        \/ \E c \in Callers : Answer(c)
        \/ Settle

vars == <<asking, settled>>

Spec == /\ Init
        /\ [][Next]_vars
        /\ \A c \in Callers : WF_vars(settled /\ Answer(c))
============================================================================
