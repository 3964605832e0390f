-------------------------------- MODULE MCFeeds --------------------------------
(* A week of one regular session, one early close and one closed day. *)
EXTENDS Feeds, TLC

MCCalendar == <<"session", "early", "closed">>

MCEvery == [kind \in Kinds |-> IF kind \in {"bars", "intraday"} THEN 3 ELSE 6]
===============================================================================
