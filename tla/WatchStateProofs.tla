--------------------------- MODULE WatchStateProofs ---------------------------
(***************************************************************************)
(* Theorems about WatchState for any watchlist, signals, devices and       *)
(* bounds.                                                                 *)
(***************************************************************************)
EXTENDS WatchState, FiniteSetTheorems, TLAPS

-------------------------------------------------------------------------------
(* Types *)

Typed == TypeOK /\ (compute => runs \in 1..MaxRuns)

LEMMA IdleType == Idle \in Requests /\ NoRow \in RowRecords
  <1>1. Idle \in Requests
    <2>1. FALSE \in BOOLEAN
      BY Zenon
    <2>. QED  BY <2>1 DEF Idle, Requests
  <1>2. NoRow \in RowRecords
    BY DEF NoRow, RowRecords
  <1>. QED  BY <1>1, <1>2

\* The kinds of change that the actions make to one device's request.
LEMMA RequestTypes ==
    ASSUME NEW r \in Requests
    PROVE  /\ \A S \in SUBSET Instruments : [r EXCEPT !.names = @ \ S] \in Requests
           /\ [r EXCEPT !.names = {}] \in Requests
           /\ \A S : [r EXCEPT !.names = @ \ S, !.gap = {}] \in Requests
           /\ \A i \in Instruments : [r EXCEPT !.gap = {i}, !.overtaken = FALSE] \in Requests
           /\ \A b \in BOOLEAN : [r EXCEPT !.overtaken = b] \in Requests
           /\ \A e : [r EXCEPT !.ids = @ \ {e}] \in Requests
  BY DEF Requests

LEMMA OpenType ==
    ASSUME Typed, NEW d \in Devices, NEW op \in {"seen", "snooze", "rewind", "add"},
           NEW t \in Nat, NEW S \in SUBSET Instruments, NEW I \in SUBSET EventIds,
           Open(d, op, t, S, I)
    PROVE  req' \in [Devices -> Requests] /\ asked' \in Nat
  <1>1. [Idle EXCEPT !.op = op, !.at = t, !.names = S, !.ids = I] \in Requests
    BY IdleType DEF Requests
  <1>. QED  BY <1>1 DEF Open, Typed, TypeOK

LEMMA WroteType ==
    ASSUME Typed, NEW d \in Devices, NEW i \in Instruments, NEW r \in Requests,
           Wrote(d, i, r)
    PROVE  req' \in [Devices -> Requests]
  <1>1. \A c \in Devices : req[c] \in Requests
    BY DEF Typed, TypeOK
  <1>2. \A c \in Devices : [req[c] EXCEPT !.overtaken = @ \/ i \in req[c].gap] \in Requests
    <2>1. \A c \in Devices : (req[c].overtaken \/ i \in req[c].gap) \in BOOLEAN
      BY Zenon
    <2>. QED  BY <1>1, <2>1, RequestTypes
  <1>. QED  BY <1>2 DEF Wrote

LEMMA InitTyped == Init => Typed
  <1> SUFFICES ASSUME Init PROVE Typed
    OBVIOUS
  <1> USE WatchAssumption DEF Init
  <1>1. compute \in BOOLEAN
    BY Zenon
  <1>2. rows \in [EventIds -> RowRecords] /\ \A e \in EventIds \ events : rows[e] = NoRow
    BY IdleType
  <1>3. req \in [Devices -> Requests] /\ page \in [Devices -> SUBSET EventIds]
    BY IdleType
  <1>. QED  BY <1>1, <1>2, <1>3 DEF Typed, TypeOK

LEMMA TypedStep == Typed /\ [Next]_vars => Typed'
  <1> SUFFICES ASSUME Typed, [Next]_vars PROVE Typed'
    OBVIOUS
  <1> USE WatchAssumption
  <1> USE DEF Typed, TypeOK, worker, state
  <1>1. CASE Tick
    BY <1>1 DEF Tick
  <1>2. CASE StartRecompute
    <2>1. compute' \in BOOLEAN
      BY <1>2, Zenon DEF StartRecompute
    <2>2. rows' \in [EventIds -> RowRecords] /\ \A e \in EventIds \ events' : rows'[e] = NoRow
      BY <1>2, IdleType DEF StartRecompute
    <2>3. bars' \subseteq Days /\ todo' \subseteq bars' /\ runs' \in 1..MaxRuns /\ events' = {}
      BY <1>2 DEF StartRecompute
    <2>. QED  BY <1>2, <2>1, <2>2, <2>3 DEF StartRecompute
  <1>3. ASSUME NEW b \in Days, InsertDay(b) PROVE Typed'
    <2>1. [of |-> b[1], at |-> b[2], run |-> runs] \in EventIds
      BY <1>3 DEF InsertDay, EventIds
    <2>2. events' \subseteq EventIds /\ events \subseteq events'
      BY <1>3, <2>1 DEF InsertDay
    <2>. QED  BY <1>3, <2>2 DEF InsertDay
  <1>4. CASE EndRecompute
    <2>1. compute' \in BOOLEAN
      BY <1>4, Zenon DEF EndRecompute
    <2>. QED  BY <1>4, <2>1 DEF EndRecompute
  <1>5. ASSUME NEW i \in Instruments, RemoveItem(i) PROVE Typed'
    BY <1>5 DEF RemoveItem
  <1>6. ASSUME NEW d \in Devices, NEW i \in Instruments, LoadCard(d, i) PROVE Typed'
    <2>1. {e \in Visible : e.of = i} \subseteq EventIds
      BY DEF Visible, Listed
    <2>. QED  BY <1>6, <2>1 DEF LoadCard
  <1>7. ASSUME NEW d \in Devices, MarkCardSeen(d) PROVE Typed'
    <2> DEFINE S == {e.of : e \in page[d]} \cap watched
    <2>1. clock \in Nat /\ S \in SUBSET Instruments /\ page[d] \in SUBSET EventIds
      OBVIOUS
    <2>2. Open(d, "seen", clock, S, page[d])
      BY <1>7 DEF MarkCardSeen
    <2> HIDE DEF S
    <2>3. req' \in [Devices -> Requests] /\ asked' \in Nat
      <3> HIDE DEF Typed, TypeOK
      <3>. QED  BY <2>1, <2>2, OpenType
    <2>. QED  BY <1>7, <2>3 DEF MarkCardSeen
  <1>8. ASSUME NEW d \in Devices, MarkAllSeen(d) PROVE Typed'
    <2>1. Open(d, "seen", clock, watched, {})
      BY <1>8 DEF MarkAllSeen
    <2>2. /\ clock \in Nat /\ watched \in SUBSET Instruments
          /\ {} \in SUBSET EventIds /\ "seen" \in {"seen", "snooze", "rewind", "add"}
      OBVIOUS
    <2>3. req' \in [Devices -> Requests] /\ asked' \in Nat
      <3> HIDE DEF Typed, TypeOK
      <3>. QED  BY <2>1, <2>2, OpenType
    <2>. QED  BY <1>8, <2>3 DEF MarkAllSeen
  <1>9. ASSUME NEW d \in Devices, SnoozeCard(d) PROVE Typed'
    <2>1. clock + SnoozeFor \in Nat
      OBVIOUS
    <2> DEFINE I == {e \in page[d] \cap events : e.of \in watched}
    <2>2. I \in SUBSET EventIds
      OBVIOUS
    <2>3. Open(d, "snooze", clock + SnoozeFor, {}, I)
      BY <1>9 DEF SnoozeCard
    <2> HIDE DEF I
    <2>4. req' \in [Devices -> Requests] /\ asked' \in Nat
      <3>1. clock + SnoozeFor \in Nat
        BY <2>1
      <3> HIDE DEF Typed, TypeOK
      <3>. QED  BY <3>1, <2>2, <2>3, OpenType
    <2>. QED  BY <1>9, <2>4 DEF SnoozeCard
  <1>10. ASSUME NEW d \in Devices, NEW t \in 0..MaxTime, StartRewind(d, t) PROVE Typed'
    <2>1. Open(d, "rewind", t, watched, {})
      BY <1>10 DEF StartRewind
    <2>2. t \in Nat /\ watched \in SUBSET Instruments
      OBVIOUS
    <2>3. req' \in [Devices -> Requests] /\ asked' \in Nat
      <3> HIDE DEF Typed, TypeOK
      <3>. QED  BY <2>1, <2>2, OpenType
    <2>. QED  BY <1>10, <2>3 DEF StartRewind
  <1>11. ASSUME NEW d \in Devices, NEW i \in Instruments, AddItem(d, i) PROVE Typed'
    <2>1. Open(d, "add", 0, {i}, {})
      BY <1>11 DEF AddItem
    <2>2. req' \in [Devices -> Requests] /\ asked' \in Nat
      <3> HIDE DEF Typed, TypeOK
      <3>. QED  BY <2>1, OpenType
    <2>. QED  BY <1>11, <2>2 DEF AddItem
  <1>12. ASSUME NEW d \in Devices, NEW i \in Instruments, ReadCursor(d, i) PROVE Typed'
    <2>1. req' \in [Devices -> Requests]
      BY <1>12, RequestTypes DEF ReadCursor
    <2>. QED  BY <1>12, <2>1 DEF ReadCursor
  <1>13. ASSUME NEW d \in Devices, NEW i \in Instruments, WriteCursor(d, i) PROVE Typed'
    <2>1. [req[d] EXCEPT !.names = @ \ {i}, !.gap = {}] \in Requests
      BY RequestTypes
    <2>2. req' \in [Devices -> Requests]
      BY <1>13, <2>1, WroteType DEF WriteCursor
    <2>3. req[d].at \in Nat
      BY DEF Requests
    <2>. QED  BY <1>13, <2>2, <2>3 DEF WriteCursor
  <1>14. ASSUME NEW d \in Devices, NEW i \in Instruments, PlantCursor(d, i) PROVE Typed'
    <2>1. [req[d] EXCEPT !.names = {}] \in Requests
      BY RequestTypes
    <2>2. req' \in [Devices -> Requests]
      BY <1>14, <2>1, WroteType DEF PlantCursor
    <2>. QED  BY <1>14, <2>2 DEF PlantCursor
  <1>15. ASSUME NEW d \in Devices, NEW e \in EventIds, WriteRow(d, e) PROVE Typed'
    <2>1. req' \in [Devices -> Requests]
      <3>1. [req[d] EXCEPT !.ids = @ \ {e}] \in Requests
        BY RequestTypes
      <3>. QED  BY <1>15, <3>1, IdleType DEF WriteRow
    <2>2. [rows[e] EXCEPT !.status = "SEEN"] \in RowRecords
      BY DEF RowRecords
    <2>3. [status |-> "SNOOZED", until |-> req[d].at] \in RowRecords
      BY DEF RowRecords, Requests
    <2>4. /\ rows' \in [EventIds -> RowRecords]
          /\ \A x \in EventIds \ events : rows'[x] = NoRow
      BY <1>15, <2>2, <2>3 DEF WriteRow
    <2>. QED  BY <1>15, <2>1, <2>4 DEF WriteRow
  <1>16. ASSUME NEW d \in Devices, Finish(d) PROVE Typed'
    <2>1. rows' \in [EventIds -> RowRecords] /\ \A e \in EventIds \ events : rows'[e] = NoRow
      BY <1>16, IdleType DEF Finish
    <2>2. req' \in [Devices -> Requests]
      BY <1>16, IdleType DEF Finish
    <2>. QED  BY <1>16, <2>1, <2>2 DEF Finish
  <1>17. CASE UNCHANGED vars
    BY <1>17 DEF vars
  <1>. QED
    BY <1>1, <1>2, <1>3, <1>4, <1>5, <1>6, <1>7, <1>8, <1>9, <1>10, <1>11, <1>12,
       <1>13, <1>14, <1>15, <1>16, <1>17 DEF Next, Recompute, Ask, Query

\* TypeOK of WatchState for every instance.
THEOREM TypeCorrect == Spec => []TypeOK
  <1>1. Typed => TypeOK
    BY DEF Typed
  <1>. QED  BY InitTyped, TypedStep, <1>1, PTL DEF Spec
-------------------------------------------------------------------------------
(* Cursors *)

\* What a mark-seen that has read a cursor and not yet written it knows: the
\* cursor is still behind it, unless another request has written it since.
GapHolds(r) ==
    \A i \in r.gap : /\ r.op = "seen"
                     /\ i \in planted /\ ~r.overtaken => cursor[i] < r.at

GapInv == \A d \in Devices : GapHolds(req[d])

\* No request moves while the worker does.
LEMMA WorkerStep ==
    ASSUME Tick \/ Recompute \/ \E i \in Instruments : RemoveItem(i)
    PROVE  UNCHANGED <<planted, cursor, req>>
  BY DEF Tick, Recompute, StartRecompute, InsertDay, EndRecompute, RemoveItem, worker, state

\* A request that is opened holds no cursor yet.
LEMMA AskStep ==
    ASSUME Typed, NEW d \in Devices, Ask(d)
    PROVE  /\ UNCHANGED <<planted, cursor>>
           /\ \A c \in Devices : req'[c] = req[c] \/ req'[c].gap = {}
  <1> USE DEF Typed, TypeOK, worker, state
  <1>1. ASSUME NEW op, NEW t, NEW S, NEW I, Open(d, op, t, S, I)
        PROVE  \A c \in Devices : req'[c] = req[c] \/ req'[c].gap = {}
    BY <1>1 DEF Open, Idle
  <1>2. CASE MarkAllSeen(d)
    BY <1>2, <1>1 DEF MarkAllSeen
  <1>3. CASE MarkCardSeen(d)
    BY <1>3, <1>1 DEF MarkCardSeen
  <1>4. CASE SnoozeCard(d)
    BY <1>4, <1>1 DEF SnoozeCard
  <1>5. ASSUME NEW i \in Instruments, LoadCard(d, i) \/ AddItem(d, i)
        PROVE  /\ UNCHANGED <<planted, cursor>>
               /\ \A c \in Devices : req'[c] = req[c] \/ req'[c].gap = {}
    BY <1>5, <1>1 DEF LoadCard, AddItem
  <1>6. ASSUME NEW t \in 0..MaxTime, StartRewind(d, t)
        PROVE  /\ UNCHANGED <<planted, cursor>>
               /\ \A c \in Devices : req'[c] = req[c] \/ req'[c].gap = {}
    BY <1>6, <1>1 DEF StartRewind
  <1>. QED  BY <1>2, <1>3, <1>4, <1>5, <1>6 DEF Ask

\* Whoever writes a cursor tells every request that holds it.
LEMMA WroteStep ==
    ASSUME Typed, GapInv, NEW d \in Devices, NEW i \in Instruments, NEW r,
           r.gap = {}, Wrote(d, i, r), planted' = planted \cup {i},
           \A j \in Instruments \ {i} : cursor'[j] = cursor[j]
    PROVE  GapInv'
  <1> USE DEF Typed, TypeOK
  <1>1. SUFFICES ASSUME NEW c \in Devices, NEW j \in req'[c].gap
                 PROVE  /\ req'[c].op = "seen"
                        /\ j \in planted' /\ ~req'[c].overtaken => cursor'[j] < req'[c].at
    BY DEF GapInv, GapHolds
  <1>2. c # d
    BY <1>1 DEF Wrote
  <1>3. req'[c] = [req[c] EXCEPT !.overtaken = @ \/ i \in req[c].gap] /\ req[c] \in Requests
    BY <1>2 DEF Wrote
  <1>4. /\ req'[c].op = req[c].op /\ req'[c].at = req[c].at /\ req'[c].gap = req[c].gap
        /\ req'[c].overtaken = (req[c].overtaken \/ i \in req[c].gap)
    BY <1>3 DEF Requests
  <1>5. j \in req[c].gap /\ j \in Instruments
    BY <1>1, <1>3, <1>4 DEF Requests
  <1>6. CASE j = i
    BY <1>4, <1>5, <1>6 DEF GapInv, GapHolds
  <1>7. CASE j # i
    BY <1>4, <1>5, <1>7 DEF GapInv, GapHolds
  <1>. QED  BY <1>6, <1>7

LEMMA InitGap == Init => GapInv
  BY DEF Init, GapInv, GapHolds, Idle

LEMMA GapStep == Typed /\ GapInv /\ [Next]_vars => GapInv'
  <1> SUFFICES ASSUME Typed, GapInv, [Next]_vars PROVE GapInv'
    OBVIOUS
  <1> USE DEF Typed, TypeOK, worker, state
  <1>1. ASSUME UNCHANGED <<planted, cursor>>,
               \A c \in Devices : req'[c] = req[c] \/ req'[c].gap = {}
        PROVE  GapInv'
    BY <1>1 DEF GapInv, GapHolds
  <1>2. ASSUME NEW d \in Devices, NEW i \in Instruments, ReadCursor(d, i) PROVE GapInv'
    <2>1. /\ UNCHANGED <<planted, cursor>> /\ req[d].op = "seen" /\ req[d].gap = {}
          /\ req[d] \in Requests
      BY <1>2 DEF ReadCursor
    <2>2. CASE i \in planted /\ cursor[i] >= req[d].at
      <3>1. req'[d].gap = {} /\ \A c \in Devices \ {d} : req'[c] = req[c]
        BY <1>2, <2>1, <2>2 DEF ReadCursor, Requests
      <3>. QED  BY <1>1, <2>1, <3>1
    <2>3. CASE ~(i \in planted /\ cursor[i] >= req[d].at)
      <3>1. /\ req'[d] = [req[d] EXCEPT !.gap = {i}, !.overtaken = FALSE]
            /\ \A c \in Devices \ {d} : req'[c] = req[c]
        BY <1>2, <2>3 DEF ReadCursor
      <3>2. req'[d].gap = {i} /\ req'[d].op = "seen" /\ req'[d].at = req[d].at /\ req[d].at \in Nat
        BY <2>1, <3>1 DEF Requests
      <3>3. i \in planted => cursor[i] < req[d].at
        BY <2>3, <3>2
      <3>4. GapHolds(req[d])'
        BY <2>1, <3>2, <3>3 DEF GapHolds
      <3>5. \A c \in Devices \ {d} : GapHolds(req[c])'
        BY <2>1, <3>1 DEF GapInv, GapHolds
      <3>. QED  BY <3>4, <3>5 DEF GapInv
    <2>. QED  BY <2>2, <2>3
  <1>3. ASSUME NEW d \in Devices, NEW i \in Instruments, WriteCursor(d, i) PROVE GapInv'
    <2> DEFINE r == [req[d] EXCEPT !.names = @ \ {i}, !.gap = {}]
    <2>1. r.gap = {} /\ Wrote(d, i, r) /\ planted' = planted \cup {i}
      BY <1>3 DEF WriteCursor, Requests
    <2>2. \A j \in Instruments \ {i} : cursor'[j] = cursor[j]
      BY <1>3 DEF WriteCursor
    <2> HIDE DEF r, Typed, TypeOK
    <2>. QED  BY <2>1, <2>2, WroteStep
  <1>4. ASSUME NEW d \in Devices, NEW i \in Instruments, PlantCursor(d, i) PROVE GapInv'
    <2> DEFINE r == [req[d] EXCEPT !.names = {}]
    <2>1. req[d].gap = {}
      BY <1>4 DEF PlantCursor, GapInv, GapHolds
    <2>2. r.gap = {} /\ Wrote(d, i, r) /\ planted' = planted \cup {i}
      BY <1>4, <2>1 DEF PlantCursor, Requests
    <2>3. \A j \in Instruments \ {i} : cursor'[j] = cursor[j]
      BY <1>4 DEF PlantCursor
    <2> HIDE DEF r, Typed, TypeOK
    <2>. QED  BY <2>2, <2>3, WroteStep
  <1>5. ASSUME NEW d \in Devices, NEW e \in EventIds, WriteRow(d, e) PROVE GapInv'
    <2>1. UNCHANGED <<planted, cursor>> /\ req[d] \in Requests
      BY <1>5 DEF WriteRow
    <2>2. /\ \A c \in Devices \ {d} : req'[c] = req[c]
          /\ req'[d] = Idle \/ req'[d] = [req[d] EXCEPT !.ids = @ \ {e}]
      BY <1>5 DEF WriteRow
    <2>3. req'[d].gap = {} \/ ( /\ req'[d].gap = req[d].gap /\ req'[d].op = req[d].op
                                /\ req'[d].overtaken = req[d].overtaken
                                /\ req'[d].at = req[d].at )
      BY <2>1, <2>2 DEF Idle, Requests
    <2>. QED  BY <2>1, <2>2, <2>3 DEF GapInv, GapHolds
  <1>6. ASSUME NEW d \in Devices, Finish(d) PROVE GapInv'
    BY <1>6, <1>1 DEF Finish, Idle
  <1>7. CASE UNCHANGED vars
    BY <1>7, <1>1 DEF vars
  <1>. QED
    BY <1>1, <1>2, <1>3, <1>4, <1>5, <1>6, <1>7, WorkerStep, AskStep DEF Next, Query

LEMMA AcksGoBackStep ==
    ASSUME Typed, GapInv, Next, NEW i \in planted, cursor'[i] < cursor[i]
    PROVE  \/ RewindWrites(i)
           \/ \E d \in Devices : i \in req[d].gap /\ i \notin req'[d].gap /\ req[d].overtaken
  <1> USE DEF Typed, TypeOK, worker, state
  <1>1. cursor[i] \in Nat /\ i \in Instruments /\ cursor' # cursor
    OBVIOUS
  <1>2. PICK d \in Devices, j \in Instruments : WriteCursor(d, j) \/ PlantCursor(d, j)
    <2>1. ASSUME NEW d \in Devices, NEW e \in EventIds, WriteRow(d, e) PROVE FALSE
      BY <2>1, <1>1 DEF WriteRow
    <2>2. ASSUME NEW d \in Devices, Finish(d) PROVE FALSE
      BY <2>2, <1>1 DEF Finish
    <2>3. ASSUME NEW d \in Devices, NEW j \in Instruments, ReadCursor(d, j) PROVE FALSE
      BY <2>3, <1>1 DEF ReadCursor
    <2>. QED  BY <1>1, <2>1, <2>2, <2>3, WorkerStep, AskStep DEF Next, Query
  <1>3. ~PlantCursor(d, j)
    <2>1. ASSUME PlantCursor(d, j), j \in planted PROVE FALSE
      BY <2>1, <1>1 DEF PlantCursor
    <2>2. ASSUME PlantCursor(d, j), j \notin planted PROVE FALSE
      <3>1. cursor'[i] = cursor[i]
        BY <2>2, <1>1 DEF PlantCursor
      <3>. QED  BY <3>1, <1>1
    <2>. QED  BY <2>1, <2>2
  <1>4. j = i /\ cursor'[i] = req[d].at /\ req[d] \in Requests
    BY <1>1, <1>2, <1>3 DEF WriteCursor
  <1>5. req'[d] = [req[d] EXCEPT !.names = @ \ {i}, !.gap = {}]
    BY <1>2, <1>3, <1>4 DEF WriteCursor, Wrote
  <1>6. req'[d].gap = {} /\ i \notin req'[d].names
    BY <1>4, <1>5 DEF Requests
  <1>7. CASE req[d].op = "rewind" /\ i \in req[d].names
    BY <1>6, <1>7 DEF RewindWrites
  <1>8. CASE req[d].op = "seen" /\ i \in req[d].gap
    <2>1. ~(cursor[i] < req[d].at)
      BY <1>1, <1>4 DEF Requests
    <2>2. req[d].overtaken
      BY <1>8, <2>1 DEF GapInv, GapHolds
    <2>. QED  BY <1>6, <1>8, <2>2
  <1>. QED  BY <1>2, <1>3, <1>4, <1>7, <1>8 DEF WriteCursor

\* The guard of markSeen, for any number of devices and names: an acknowledgement
\* moves a cursor back only if another request wrote it between the read that the
\* guard rests on and the write.
THEOREM CursorsAreMonotonicButForTheGap == Spec => AcksGoBackOnlyAcrossTheGap
  <1>1. Typed /\ GapInv /\ [Next]_vars =>
           [\A i \in planted : cursor'[i] < cursor[i] =>
              \/ RewindWrites(i)
              \/ \E d \in Devices : i \in req[d].gap /\ i \notin req'[d].gap /\ req[d].overtaken]_vars
    BY AcksGoBackStep
  <1>. QED
    BY InitTyped, TypedStep, InitGap, GapStep, <1>1, PTL DEF Spec, AcksGoBackOnlyAcrossTheGap

-------------------------------------------------------------------------------
(* The brief that is read off the cursors and the rows. *)

\* One lower bound for the whole watchlist, the oldest cursor, hides nothing that a
\* name's own cursor would show (assembleSitrep).
THEOREM OldestCursorHidesNothing == Spec => []OwnCursorSuffices
  <1>1. TypeOK => OwnCursorSuffices
    BY DEF TypeOK, OwnCursorSuffices, Visible, Listed, Since, PastSince
  <1>. QED  BY <1>1, TypeCorrect, PTL

\* The populations of the brief: disjoint parts of the watchlist.
LEMMA NamesArePartitioned ==
    ASSUME TypeOK
    PROVE  /\ VisibleNames \subseteq watched
           /\ SnoozedNames \subseteq watched \ VisibleNames
           /\ {i \in watched : \A e \in Listed : e.of = i => rows[e].status = "SEEN"}
                = (watched \ VisibleNames) \ SnoozedNames
  <1>. DEFINE Said(i) == \A e \in Listed : e.of = i => rows[e].status = "SEEN"
  <1>1. \A e \in Listed : e.of \in watched
    BY DEF Listed
  <1>2. Visible \subseteq Listed
    BY DEF Visible
  <1>3. ASSUME NEW i \in watched, Said(i) PROVE i \notin VisibleNames /\ i \notin SnoozedNames
    BY <1>3 DEF VisibleNames, SnoozedNames, Visible, Silenced
  <1>4. ASSUME NEW i \in watched, i \notin VisibleNames, i \notin SnoozedNames PROVE Said(i)
    BY <1>4 DEF VisibleNames, SnoozedNames, Visible
  <1>. QED  BY <1>1, <1>2, <1>3, <1>4 DEF VisibleNames, SnoozedNames

\* WITHIN_NORMAL_RANGE of the brief is a subtraction of three counts; it comes out
\* as the number of names that have nothing left to say (assembleSitrep).
THEOREM NamesAddUp == Spec => []EachNameCountedOnce
  <1>1. ASSUME TypeOK PROVE EachNameCountedOnce
    <2>. DEFINE Quiet == (watched \ VisibleNames) \ SnoozedNames
    <2>1. IsFiniteSet(watched)
      <3>1. IsFiniteSet(Instruments) /\ watched \in SUBSET Instruments
        BY <1>1, WatchAssumption DEF TypeOK
      <3>. QED  BY <3>1, FS_Subset
    <2>2. /\ Cardinality(watched \ VisibleNames) = Cardinality(watched) - Cardinality(VisibleNames)
          /\ IsFiniteSet(watched \ VisibleNames)
      <3>1. watched \cap VisibleNames = VisibleNames
        BY <1>1, NamesArePartitioned
      <3>. HIDE DEF Quiet
      <3>2. Cardinality(watched \ VisibleNames) = Cardinality(watched) - Cardinality(watched \cap VisibleNames)
        BY <2>1, FS_Difference
      <3>3. IsFiniteSet(watched \ VisibleNames)
        BY <2>1, FS_Difference
      <3>. QED  BY <3>1, <3>2, <3>3
    <2>3. Cardinality(Quiet) = Cardinality(watched \ VisibleNames) - Cardinality(SnoozedNames)
      <3>1. (watched \ VisibleNames) \cap SnoozedNames = SnoozedNames
        BY <1>1, NamesArePartitioned
      <3>2. Cardinality(Quiet) = Cardinality(watched \ VisibleNames)
                                   - Cardinality((watched \ VisibleNames) \cap SnoozedNames)
        BY <2>2, FS_Difference
      <3>. QED  BY <3>1, <3>2
    <2>4. {i \in watched : \A e \in Listed : e.of = i => rows[e].status = "SEEN"} = Quiet
      BY NamesArePartitioned, <1>1
    <2>. QED  BY <2>2, <2>3, <2>4 DEF EachNameCountedOnce, WithinNormalRange
  <1>. QED  BY <1>1, TypeCorrect, PTL

\* What a step can do to the row of an event that stays.
LEMMA RowStep ==
    ASSUME Typed, [Next]_vars, NEW e \in events \cap events'
    PROVE  \/ rows'[e] = rows[e]
           \/ rows'[e].status \in {"SEEN", "SNOOZED"}
           \/ \E d \in Devices : req[d].op = "rewind" /\ req[d] # req'[d]
  <1>. USE DEF Typed, TypeOK
  <1>1. ASSUME NEW d \in Devices, NEW x \in EventIds, WriteRow(d, x)
        PROVE  rows'[e] = rows[e] \/ rows'[e].status \in {"SEEN", "SNOOZED"}
    <2>1. e \in EventIds /\ rows[x] \in RowRecords
      OBVIOUS
    <2>2. CASE rows' = rows
      BY <2>2
    <2>3. CASE rows' # rows
      <3>1. rows' = [rows EXCEPT ![x] = IF req[d].op = "seen" THEN [rows[x] EXCEPT !.status = "SEEN"]
                                        ELSE [status |-> "SNOOZED", until |-> req[d].at]]
        BY <1>1, <2>3 DEF WriteRow
      <3>2. [rows[x] EXCEPT !.status = "SEEN"].status = "SEEN"
        BY <2>1 DEF RowRecords
      <3>. QED  BY <2>1, <3>1, <3>2
    <2>. QED  BY <2>2, <2>3
  <1>2. ASSUME NEW d \in Devices, Finish(d)
        PROVE  rows' = rows \/ (req[d].op = "rewind" /\ req[d] # req'[d])
    BY <1>2 DEF Finish, Idle
  <1>3. ASSUME NEW d \in Devices, NEW i \in Instruments,
               ReadCursor(d, i) \/ WriteCursor(d, i) \/ PlantCursor(d, i)
        PROVE  rows' = rows
    BY <1>3 DEF ReadCursor, WriteCursor, PlantCursor, state
  <1>4. ASSUME NEW d \in Devices, Ask(d) PROVE rows' = rows
    BY <1>4 DEF Ask, MarkAllSeen, MarkCardSeen, SnoozeCard, LoadCard, AddItem, StartRewind, state
  <1>5. ASSUME Recompute PROVE rows' = rows
    BY <1>5 DEF Recompute, StartRecompute, EndRecompute, InsertDay, state
  <1>6. ASSUME Tick \/ UNCHANGED vars \/ \E i \in Instruments : RemoveItem(i) PROVE rows' = rows
    BY <1>6 DEF Tick, vars, RemoveItem, state
  <1>. QED  BY <1>1, <1>2, <1>3, <1>4, <1>5, <1>6 DEF Next, Query

LEMMA ReappearsStep ==
    ASSUME Typed, [Next]_vars, NEW e \in events \cap events', e \notin Visible, e \in Visible'
    PROVE  \/ rows'[e].status = "SNOOZED" /\ rows'[e].until <= clock'
           \/ \E d \in Devices : req[d].op = "rewind" /\ req[d] # req'[d]
           \/ watched' # watched \/ planted' # planted
           \/ CursorMovesBack
  <1>. SUFFICES ASSUME watched' = watched, planted' = planted, ~CursorMovesBack
                PROVE  \/ rows'[e].status = "SNOOZED" /\ rows'[e].until <= clock'
                       \/ \E d \in Devices : req[d].op = "rewind" /\ req[d] # req'[d]
    OBVIOUS
  <1>1. e.at \in Nat
    <2>1. e \in EventIds
      BY DEF Typed, TypeOK
    <2>2. PICK b \in Days, r \in 1..MaxRuns : e = [of |-> b[1], at |-> b[2], run |-> r]
      BY <2>1 DEF EventIds
    <2>. QED  BY <2>2, WatchAssumption
  <1>2. cursor \in [Instruments -> Nat] /\ cursor' \in [Instruments -> Nat] /\ planted \subseteq Instruments
    BY TypedStep DEF Typed, TypeOK
  <1>3. e \in Listed' => e \in Listed
    <2>. SUFFICES ASSUME e \in Listed' PROVE e \in Listed
      OBVIOUS
    <2>1. e.of \in watched /\ PastSince(e.at)'
      BY DEF Listed, Since
    <2>2. PastSince(e.at)
      BY <1>1, <1>2, <2>1 DEF PastSince, CursorMovesBack
    <2>. QED  BY <2>1, <2>2 DEF Listed, Since
  <1>4. rows'[e].status # "SEEN" /\ ~(rows'[e].status = "SNOOZED" /\ rows'[e].until > clock')
    BY DEF Visible, Silenced
  <1>5. rows[e].status = "SEEN" \/ (rows[e].status = "SNOOZED" /\ rows[e].until > clock)
    BY <1>3 DEF Visible, Silenced
  <1>6. rows'[e].until \in Nat /\ clock' \in Nat
    BY TypedStep DEF Typed, TypeOK, RowRecords
  <1>7. CASE rows'[e] = rows[e]
    BY <1>4, <1>5, <1>6, <1>7
  <1>8. CASE rows'[e].status \in {"SEEN", "SNOOZED"}
    BY <1>4, <1>6, <1>8
  <1>. QED  BY <1>7, <1>8, RowStep

\* assembleSitrep over the writes of every route, for any devices and names: nothing
\* the user was done with comes back but for one of the listed reasons.
THEOREM NothingComesBack == Spec => ReappearsOnlyForAReason
  <1>1. Typed /\ [Next]_vars =>
           [\A e \in events \cap events' : e \notin Visible /\ e \in Visible' =>
              \/ rows'[e].status = "SNOOZED" /\ rows'[e].until <= clock'
              \/ \E d \in Devices : req[d].op = "rewind" /\ req[d] # req'[d]
              \/ watched' # watched \/ planted' # planted
              \/ CursorMovesBack]_vars
    BY ReappearsStep
  <1>. QED
    BY InitTyped, TypedStep, <1>1, PTL DEF Spec, ReappearsOnlyForAReason
===============================================================================
