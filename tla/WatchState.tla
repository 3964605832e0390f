------------------------------ MODULE WatchState ------------------------------
(***************************************************************************)
(* What one user has been told: the per-name cursor (UserWatchState), the  *)
(* per-event rows (UserEventState), and the brief that                     *)
(* src/src/lib/sitrep.ts derives from them, while several of the user's    *)
(* devices send mark-seen, snooze, rewind and watchlist requests and the   *)
(* worker recomputes the events underneath.                                *)
(*                                                                         *)
(* Every request is a sequence of awaited queries, one action each, so two *)
(* requests and a recompute interleave between any two of them.  The brief *)
(* itself is read in one step; its cache is the subject of BriefCache.     *)
(* Every name with a visible event is taken to reach the brief: what the   *)
(* scorer makes of an event is not modelled here.                          *)
(***************************************************************************)
EXTENDS Integers, FiniteSets

CONSTANTS Instruments,   \* instruments that can be watched
          Days,          \* <<instrument, session>> at which a signal may fire
          Devices,       \* the user's devices, each with at most one request open
          SnoozeFor,     \* how long a snooze lasts (24 h in EventCard.tsx)
          MaxTime,       \* bound: the clock
          MaxRuns,       \* bound: recomputes in a behaviour
          MaxAsked       \* bound: requests that change something

ASSUME WatchAssumption ==
    /\ IsFiniteSet(Instruments)
    /\ Days \subseteq Instruments \X Nat
    /\ SnoozeFor \in Nat \ {0}
    /\ MaxTime \in Nat
    /\ MaxRuns \in Nat
    /\ MaxAsked \in Nat

VARIABLES
    clock,     \* the time of day everything is stamped with
    bars,      \* <<instrument, session>> at which the last recompute saw a signal
    events,    \* rows of the events table
    runs,      \* recomputes begun so far
    compute,   \* whether a recompute is in progress
    todo,      \* the days it has still to insert
    watched,   \* watchlist items
    planted,   \* instruments with a UserWatchState row
    cursor,    \* its lastSeenAt
    rows,      \* UserEventState of each event
    page,      \* the card each device's user is looking at: its event ids
    req,       \* the request each device has open
    asked      \* requests so far

worker == <<bars, events, runs, compute, todo>>
state == <<watched, planted, cursor, rows>>
vars == <<clock, bars, events, runs, compute, todo,
          watched, planted, cursor, rows, page, req, asked>>

\* A recompute inserts its events under new ids.
EventIds == {[of |-> b[1], at |-> b[2], run |-> r] : b \in Days, r \in 1..MaxRuns}
RowRecords == [status : {"NONE", "SEEN", "SNOOZED"}, until : Nat]
NoRow == [status |-> "NONE", until |-> 0]

\* at: the `now' a mark-seen took when it began, the target of a rewind, or the
\* end of a snooze.  gap: the instrument whose cursor has been read and not yet
\* written.  overtaken is a history component: another request wrote that cursor.
Requests == [op : {"idle", "seen", "snooze", "rewind", "add"}, at : Nat,
             names : SUBSET Instruments, gap : SUBSET Instruments,
             ids : SUBSET EventIds, overtaken : BOOLEAN]
Idle == [op |-> "idle", at |-> 0, names |-> {}, gap |-> {}, ids |-> {}, overtaken |-> FALSE]

TypeOK ==
    /\ clock \in Nat
    /\ bars \subseteq Days
    /\ events \subseteq EventIds
    /\ runs \in 0..MaxRuns
    /\ compute \in BOOLEAN
    /\ todo \subseteq bars
    /\ watched \subseteq Instruments
    /\ planted \subseteq Instruments
    /\ cursor \in [Instruments -> Nat]
    /\ rows \in [EventIds -> RowRecords]
    /\ \A e \in EventIds \ events : rows[e] = NoRow
    /\ page \in [Devices -> SUBSET EventIds]
    /\ req \in [Devices -> Requests]
    /\ asked \in Nat

\* Some names watched, each with a cursor planted at time 0 by the POST that
\* added it (or by ensureCursors), nothing computed yet.
Init ==
    /\ clock = 0
    /\ bars = {}
    /\ events = {}
    /\ runs = 0
    /\ compute = FALSE
    /\ todo = {}
    /\ watched \in SUBSET Instruments
    /\ planted = watched
    /\ cursor = [i \in Instruments |-> 0]
    /\ rows = [e \in EventIds |-> NoRow]
    /\ page = [d \in Devices |-> {}]
    /\ req = [d \in Devices |-> Idle]
    /\ asked = 0

-------------------------------------------------------------------------------
(* The brief (assembleSitrep) *)

\* `since' is the oldest cursor over the watchlist, so past `since' means past
\* some name's cursor; with no cursor at all there is no lower bound.
PastSince(t) ==
    \/ watched \cap planted = {}
    \/ \E i \in watched \cap planted : t > cursor[i]

\* Defect for the checks: `since' is the newest cursor.
PastNewest(t) == \A i \in watched \cap planted : t > cursor[i]

Since(t) == PastSince(t)

Listed == {e \in events : e.of \in watched /\ Since(e.at)}

Silenced(e) == rows[e].status = "SNOOZED" /\ rows[e].until > clock

Visible == {e \in Listed : rows[e].status # "SEEN" /\ ~Silenced(e)}

VisibleNames == {e.of : e \in Visible}

\* Defect: an instrument counts as silenced as soon as one event is snoozed.
AnySnoozedNames == {e.of : e \in {x \in Listed : Silenced(x)}}

\* A name counts as silenced only if snoozing removed everything it had to say.
SnoozedNames == {e.of : e \in {x \in Listed : Silenced(x)}} \ VisibleNames

WithinNormalRange ==
    Cardinality(watched) - Cardinality(VisibleNames) - Cardinality(SnoozedNames)

-------------------------------------------------------------------------------
(* The market and the worker *)

Tick ==
    /\ clock < MaxTime
    /\ clock' = clock + 1
    /\ UNCHANGED <<worker, state, page, req, asked>>

\* Defect: the rows of the deleted events are left behind.
StartRecomputeNoCascade ==
    /\ ~compute
    /\ runs < MaxRuns
    /\ bars' = Days /\ todo' = Days
    /\ runs' = runs + 1
    /\ compute' = TRUE
    /\ events' = {}
    /\ UNCHANGED <<clock, state, page, req, asked>>

\* computeAndPersist with replace: load the bars, those that have landed since
\* the last recompute among them, then delete every event; the UserEventState
\* rows that refer to them go with them (onDelete: Cascade).
StartRecompute ==
    /\ ~compute
    /\ runs < MaxRuns
    /\ \E loaded \in SUBSET {b \in Days : b[2] <= clock} :
          bars \subseteq loaded /\ bars' = loaded /\ todo' = loaded
    /\ runs' = runs + 1
    /\ compute' = TRUE
    /\ events' = {}
    /\ rows' = [e \in EventIds |-> NoRow]
    /\ UNCHANGED <<clock, watched, planted, cursor, page, req, asked>>

\* One day of one instrument: event.createMany.
InsertDay(b) ==
    /\ compute /\ b \in todo
    /\ todo' = todo \ {b}
    /\ events' = events \cup {[of |-> b[1], at |-> b[2], run |-> runs]}
    /\ UNCHANGED <<clock, bars, runs, compute, state, page, req, asked>>

\* The recompute is over, or throws part-way with days still missing.
EndRecompute ==
    /\ compute
    /\ compute' = FALSE
    /\ todo' = {}
    /\ UNCHANGED <<clock, bars, events, runs, state, page, req, asked>>

-------------------------------------------------------------------------------
(* The devices *)

\* The page is loaded; the user turns to the card of one name.
LoadCard(d, i) ==
    /\ req[d].op = "idle" /\ page[d] = {} /\ asked < MaxAsked
    /\ page' = [page EXCEPT ![d] = {e \in Visible : e.of = i}]
    /\ UNCHANGED <<clock, worker, state, req, asked>>

Open(d, op, at, names, ids) ==
    /\ req[d].op = "idle"
    /\ asked < MaxAsked
    /\ asked' = asked + 1
    /\ req' = [req EXCEPT ![d] = [Idle EXCEPT !.op = op, !.at = at,
                                              !.names = names, !.ids = ids]]

\* EventCard.tsx: the card's symbol, if it is watched, and the card's event ids,
\* as they were when the page was loaded.  The page is refreshed afterwards.
MarkCardSeen(d) ==
    /\ page[d] # {}
    /\ Open(d, "seen", clock, {e.of : e \in page[d]} \cap watched, page[d])
    /\ page' = [page EXCEPT ![d] = {}]
    /\ UNCHANGED <<clock, worker, state>>

\* MarkAllSeen.tsx sends { all: true }: every watched name and no event ids.
MarkAllSeen(d) ==
    /\ Open(d, "seen", clock, watched, {})
    /\ UNCHANGED <<clock, worker, state, page>>

\* snoozeEvents keeps the ids that still exist and whose instrument is watched.
SnoozeCard(d) ==
    /\ page[d] # {}
    /\ Open(d, "snooze", clock + SnoozeFor, {}, {e \in page[d] \cap events : e.of \in watched})
    /\ page' = [page EXCEPT ![d] = {}]
    /\ UNCHANGED <<clock, worker, state>>

\* POST /api/watch-state/rewind, some days back.
StartRewind(d, target) ==
    /\ target < clock
    /\ Open(d, "rewind", target, watched, {})
    /\ UNCHANGED <<clock, worker, state, page>>

\* POST /api/watchlist/items: the item first, the cursor in a second query.
AddItem(d, i) ==
    /\ i \notin watched
    /\ Open(d, "add", 0, {i}, {})
    /\ watched' = watched \cup {i}
    /\ UNCHANGED <<clock, worker, planted, cursor, rows, page>>

\* DELETE drops the item only: the cursor and the rows stay.
RemoveItem(i) ==
    /\ i \in watched
    /\ asked < MaxAsked
    /\ asked' = asked + 1
    /\ watched' = watched \ {i}
    /\ UNCHANGED <<clock, worker, planted, cursor, rows, page, req>>

-------------------------------------------------------------------------------
(* The requests, query by query *)

\* Defect: the cursor that is already ahead is not skipped.
ReadCursorUnguarded(d, i) ==
    /\ req[d].op = "seen" /\ req[d].gap = {} /\ i \in req[d].names
    /\ req' = [req EXCEPT ![d].gap = {i}, ![d].overtaken = FALSE]
    /\ UNCHANGED <<clock, worker, state, page, asked>>

\* markSeen: findUnique, and `continue' if the cursor is already at or past `now'.
ReadCursor(d, i) ==
    /\ req[d].op = "seen" /\ req[d].gap = {} /\ i \in req[d].names
    /\ req' = IF i \in planted /\ cursor[i] >= req[d].at
              THEN [req EXCEPT ![d].names = @ \ {i}]
              ELSE [req EXCEPT ![d].gap = {i}, ![d].overtaken = FALSE]
    /\ UNCHANGED <<clock, worker, state, page, asked>>

\* The request of d goes on as r; any other that has read the cursor of i but not
\* yet written it is now overtaken.
Wrote(d, i, r) ==
    req' = [c \in Devices |-> IF c = d THEN r
                              ELSE [req[c] EXCEPT !.overtaken = @ \/ i \in req[c].gap]]

\* The unconditional upsert, some queries later.  rewind has no read before it.
WriteCursor(d, i) ==
    /\ \/ req[d].op = "seen" /\ i \in req[d].gap
       \/ req[d].op = "rewind" /\ i \in req[d].names
    /\ cursor' = [cursor EXCEPT ![i] = req[d].at]
    /\ planted' = planted \cup {i}
    /\ Wrote(d, i, [req[d] EXCEPT !.names = @ \ {i}, !.gap = {}])
    /\ UNCHANGED <<clock, worker, watched, rows, page, asked>>

\* The cursor of a newly added name: now, unless it still has one.
PlantCursor(d, i) ==
    /\ req[d].op = "add" /\ i \in req[d].names
    /\ cursor' = IF i \in planted THEN cursor ELSE [cursor EXCEPT ![i] = clock]
    /\ planted' = planted \cup {i}
    /\ Wrote(d, i, [req[d] EXCEPT !.names = {}])
    /\ UNCHANGED <<clock, worker, watched, rows, page, asked>>

\* userEventState.upsert of one event.  An id that a recompute has deleted
\* meanwhile violates the foreign key: the request fails where it stands.
WriteRow(d, e) ==
    /\ req[d].op \in {"seen", "snooze"} /\ req[d].names = {} /\ e \in req[d].ids
    /\ IF e \in events
       THEN /\ rows' = [rows EXCEPT ![e] =
                           IF req[d].op = "seen" THEN [@ EXCEPT !.status = "SEEN"]
                           ELSE [status |-> "SNOOZED", until |-> req[d].at]]
            /\ req' = [req EXCEPT ![d].ids = @ \ {e}]
       ELSE /\ req' = [req EXCEPT ![d] = Idle]
            /\ UNCHANGED rows
    /\ UNCHANGED <<clock, worker, watched, planted, cursor, page, asked>>

\* Defect: every request ends by forgetting the user's event rows.
FinishClearing(d) ==
    /\ req[d].op # "idle" /\ req[d].names = {} /\ req[d].ids = {}
    /\ rows' = [e \in EventIds |-> NoRow]
    /\ req' = [req EXCEPT ![d] = Idle]
    /\ UNCHANGED <<clock, worker, watched, planted, cursor, page, asked>>

\* rewind ends by deleting every row of the user; every request then drops the
\* cached brief and answers.
Finish(d) ==
    /\ req[d].op # "idle" /\ req[d].names = {} /\ req[d].ids = {}
    /\ rows' = IF req[d].op = "rewind" THEN [e \in EventIds |-> NoRow] ELSE rows
    /\ req' = [req EXCEPT ![d] = Idle]
    /\ UNCHANGED <<clock, worker, watched, planted, cursor, page, asked>>

-------------------------------------------------------------------------------
Recompute == \/ StartRecompute \/ EndRecompute
             \/ \E b \in Days : InsertDay(b)

Ask(d) == \/ MarkAllSeen(d) \/ MarkCardSeen(d) \/ SnoozeCard(d)
          \/ \E i \in Instruments : LoadCard(d, i) \/ AddItem(d, i)
          \/ \E t \in 0..MaxTime : StartRewind(d, t)

Query(d) == \/ \E i \in Instruments : ReadCursor(d, i) \/ WriteCursor(d, i) \/ PlantCursor(d, i)
            \/ \E e \in EventIds : WriteRow(d, e)
            \/ Finish(d)

Next == \/ Tick
        \/ Recompute
        \/ \E i \in Instruments : RemoveItem(i)
        \/ \E d \in Devices : Ask(d) \/ Query(d)

Spec == Init /\ [][Next]_vars

-------------------------------------------------------------------------------
\* The window starts at the oldest cursor of the whole watchlist, and still no
\* name loses anything by it: what is newer than a name's own cursor and was
\* neither acknowledged nor is being snoozed is in the brief ("Every event past
\* the cursor is unseen by definition").
OwnCursorSuffices ==
    \A e \in events :
        /\ e.of \in watched
        /\ e.of \in planted => e.at > cursor[e.of]
        /\ watched \subseteq planted
        /\ rows[e].status # "SEEN"
        /\ ~Silenced(e)
        => e \in Visible

\* The three populations of the brief are a partition of the watchlist: names
\* reported as within their normal range are exactly those with nothing left
\* to say, never one that was muted, and none is counted twice.
EachNameCountedOnce ==
    WithinNormalRange =
        Cardinality({i \in watched : \A e \in Listed : e.of = i => rows[e].status = "SEEN"})

RewindWrites(i) == \E d \in Devices : /\ req[d].op = "rewind"
                                      /\ i \in req[d].names /\ i \notin req'[d].names

\* The guard of markSeen closes everything but the gap between its read and its
\* write: a cursor moves back only for a rewind, or for an acknowledgement whose
\* read another request has overtaken.
AcksGoBackOnlyAcrossTheGap ==
    [][\A i \in planted : cursor'[i] < cursor[i] =>
          \/ RewindWrites(i)
          \/ \E d \in Devices : i \in req[d].gap /\ i \notin req'[d].gap /\ req[d].overtaken]_vars

CursorMovesBack == \E i \in planted : cursor'[i] < cursor[i]

\* An event that was off the brief comes back to it only when a snooze lapses,
\* when the user rewinds, edits the watchlist or gets a first cursor, or when
\* an acknowledgement that was overtaken moves a cursor back.
ReappearsOnlyForAReason ==
    [][\A e \in events \cap events' : e \notin Visible /\ e \in Visible' =>
          \/ rows'[e].status = "SNOOZED" /\ rows'[e].until <= clock'
          \/ \E d \in Devices : req[d].op = "rewind" /\ req[d] # req'[d]
          \/ watched' # watched \/ planted' # planted
          \/ CursorMovesBack]_vars
===============================================================================
