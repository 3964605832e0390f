----------------------------- MODULE WatchHistory -----------------------------
(***************************************************************************)
(* WatchState with a memory of what the user acknowledged, by day rather   *)
(* than by event id: a recompute gives the same market event a new id.     *)
(* The code keeps no such memory; it is what its comments talk about.      *)
(***************************************************************************)
EXTENDS WatchState

VARIABLES asking,   \* days each device's open mark-seen request acknowledges
          acked     \* days acknowledged by a request that succeeded

hvars == <<vars, asking, acked>>

DayOf(e) == <<e.of, e.at>>
VisibleDays == {DayOf(e) : e \in Visible}

HInit == /\ Init
         /\ asking = [d \in Devices |-> {}]
         /\ acked = {}

\* A step that neither acknowledges anything nor asks for it back.
Unremembered == UNCHANGED <<asking, acked>>

HMarkSeen(d, S) == /\ asking' = [asking EXCEPT ![d] = S]
                   /\ UNCHANGED acked

\* A snooze or a rewind asks for days back.  It is recorded by the query that
\* takes effect, not by the request: an acknowledgement may overlap it, and what
\* that one has acknowledged so far, or is acknowledging, is asked back as well.
HAskBack(S) == /\ acked' = acked \ S
               /\ asking' = [d \in Devices |-> asking[d] \ S]

HWriteCursor(d, i) ==
    /\ WriteCursor(d, i)
    /\ IF req[d].op = "rewind" THEN HAskBack({b \in Days : b[1] = i}) ELSE Unremembered

\* A row that cannot be written ends the request with an error.
HWriteRow(d, e) ==
    /\ WriteRow(d, e)
    /\ IF e \notin events THEN HMarkSeen(d, {})
       ELSE IF req[d].op = "snooze" THEN HAskBack({DayOf(e)}) ELSE Unremembered

HFinish(d) ==
    /\ Finish(d)
    /\ IF req[d].op = "rewind" THEN HAskBack(Days)
       ELSE /\ acked' = acked \cup asking[d]
            /\ asking' = [asking EXCEPT ![d] = {}]

HAsk(d) ==
    \/ MarkAllSeen(d) /\ HMarkSeen(d, VisibleDays)
    \/ MarkCardSeen(d) /\ HMarkSeen(d, {DayOf(e) : e \in page[d]})
    \/ /\ \/ SnoozeCard(d)
          \/ \E i \in Instruments : LoadCard(d, i) \/ AddItem(d, i)
          \/ \E t \in 0..MaxTime : StartRewind(d, t)
       /\ Unremembered

HQuery(d) ==
    \/ \E i \in Instruments : \/ HWriteCursor(d, i)
                              \/ (ReadCursor(d, i) \/ PlantCursor(d, i)) /\ Unremembered
    \/ \E e \in EventIds : HWriteRow(d, e)
    \/ HFinish(d)

HNext == \/ /\ Tick \/ Recompute \/ \E i \in Instruments : RemoveItem(i)
            /\ Unremembered
         \/ \E d \in Devices : HAsk(d) \/ HQuery(d)

HSpec == HInit /\ [][HNext]_hvars

AtRest == ~compute /\ \A d \in Devices : req[d].op = "idle"

\* sitrep.ts:1054 - "acknowledging something and then seeing it again would break
\* the one interaction the whole product is built around".
AcknowledgedStaysGone ==
    AtRest => \A e \in Visible : DayOf(e) \notin acked
===============================================================================
