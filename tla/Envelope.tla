------------------------------- MODULE Envelope -------------------------------
(***************************************************************************)
(* What a provider sees of a rate limit, with no tokens, timers or         *)
(* callers: over any span of time up to a window, the requests are at most *)
(* a full bucket and what trickles in meanwhile.                           *)
(***************************************************************************)
EXTENDS Integers

CONSTANTS CAPACITY,   \* requests permitted per window
          WINDOW      \* the window, in ticks

VARIABLE recent       \* how many requests are at most a = 0, 1 ... WINDOW ticks old

Ages == 0..WINDOW

Init == recent = [a \in Ages |-> 0]

Request ==
    /\ \A a \in Ages : (recent[a] + 1) * WINDOW <= (WINDOW + a) * CAPACITY
    /\ recent' = [a \in Ages |-> recent[a] + 1]

TimePasses == recent' = [a \in Ages |-> IF a = 0 THEN 0 ELSE recent[a - 1]]

Next == Request \/ TimePasses

Spec == Init /\ [][Next]_recent
===============================================================================
