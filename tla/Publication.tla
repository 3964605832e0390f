------------------------------ MODULE Publication ------------------------------
(***************************************************************************)
(* What the ingest and compute halves of the worker promise together, with *)
(* no queues, timers or attempts: batches of bars land one by one, and a   *)
(* recompute replaces what the tables show.  The replacement is not        *)
(* atomic: the tables are emptied and filled again, and whoever empties    *)
(* them may never come to fill them.  What is promised is that only a      *)
(* replacement takes anything away, that nothing is shown which has not    *)
(* landed, and that a replacement which is declared finished shows no less *)
(* than every one before it.  IngestPipeline implements this.              *)
(***************************************************************************)
CONSTANT Jobs

VARIABLES landed,     \* batches whose bars are in daily_bars
          covered,    \* batches that the events in the tables reflect
          whole,      \* no replacement has begun since one was finished
          published   \* what they reflected when a replacement was last finished

Init == landed = {} /\ covered = {} /\ whole = TRUE /\ published = {}

Land(j) == /\ landed' = landed \cup {j}
           /\ UNCHANGED <<covered, whole, published>>

Withdraw == /\ covered' = {}
            /\ whole' = FALSE
            /\ UNCHANGED <<landed, published>>

Refill(S) == /\ ~whole
             /\ covered \subseteq S
             /\ S \subseteq landed
             /\ covered' = S
             /\ UNCHANGED <<landed, whole, published>>

Finish == /\ ~whole
          /\ published \subseteq covered
          /\ whole' = TRUE
          /\ published' = covered
          /\ UNCHANGED <<landed, covered>>

Next == \/ \E j \in Jobs : Land(j)
        \/ Withdraw
        \/ \E S \in SUBSET Jobs : Refill(S)
        \/ Finish

Spec == Init /\ [][Next]_<<landed, covered, whole, published>>
===============================================================================
