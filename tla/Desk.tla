-------------------------------- MODULE Desk ---------------------------------
(***************************************************************************)
(* A user at the desk: between the sessions of Engine, one user opens the  *)
(* brief, acknowledges cards and defers them.  What a recompute and these  *)
(* requests do to each other while they overlap is WatchState's and        *)
(* BriefCache's matter: here each is one step, and the brief is computed.  *)
(***************************************************************************)
EXTENDS Engine

CONSTANTS WATCHLISTS,    \* the watchlists considered, sequences of rows
          NEWS,          \* the headlines stored: [symbol, published, outlets]
          EarlyCloses    \* the days of sessions that close early

ASSUME DeskAssumption == \A rows \in WATCHLISTS : rows \in Seq(Range(rows))

VARIABLES user,          \* [rows, cursor, ranks, seen, snoozed]
          stamped        \* whether the 21:00Z that eventRow stamps on the session is past
deskVars == <<vars, user, stamped>>

Watched == {r.symbol : r \in Range(user.rows)}

\* A click is before the close, after an early close yet before the Close of the day, or
\* after both.  A session's bars are read ninety minutes after it closes: a full one ends
\* at 20:00Z or 21:00Z, so that its recompute is never before the stamp.
Now == 10 * today + (IF ~closed THEN 5 ELSE IF stamped THEN 8 ELSE 6)

\* ensureCursors plants them when the watchlist is made, before the first session.
DeskInit ==
    /\ Init
    /\ stamped = FALSE
    /\ \E rows \in WATCHLISTS :
         user = [rows |-> rows, seen |-> {}, snoozed |-> {},
                 cursor |-> [s \in Range(SYMBOLS) |-> {10 * FirstDay + 5}],
                 ranks |-> [s \in Range(SYMBOLS) |-> 0]]

\* The recompute replaces the events: what the user had marked on the old ones goes
\* with them.
Recomputed(move) ==
    /\ SessionCloses(move)
    /\ user' = [user EXCEPT !.seen = {}, !.snoozed = {}]
    /\ stamped' = (today \notin EarlyCloses)

\* It is 21:00Z.
StampPasses ==
    /\ closed /\ ~stamped
    /\ stamped' = TRUE
    /\ UNCHANGED <<vars, user>>

Morning ==
    /\ NextMorning
    /\ stamped /\ stamped' = FALSE
    /\ UNCHANGED user

SitrepOf(u) ==
    AssembleSitrep([rows |-> u.rows, cursor |-> u.cursor, ranks |-> u.ranks,
                    seen |-> u.seen, snoozed |-> u.snoozed,
                    events |-> computed.events, themes |-> computed.themes,
                    scorecards |-> computed.scorecards,
                    market |-> Market, reports |-> REPORTS, news |-> NEWS, sessions |-> Sessions,
                    today |-> today, attentionBudget |-> DEFAULT_ATTENTION_BUDGET])
Sitrep == SitrepOf(user)
CardsShown == Range(Sitrep.items)

\* markSeen for some names, at the present moment.
Acknowledged(symbols, eventIds, ranks) ==
    [user EXCEPT !.seen = @ \cup eventIds, !.snoozed = @ \ eventIds,
                 !.cursor = [s \in DOMAIN @ |-> IF s \in symbols THEN {Now} ELSE @[s]],
                 !.ranks  = [s \in DOMAIN @ |-> IF s \in symbols THEN ranks[s] ELSE @[s]]]
Deferred(eventIds) == [user EXCEPT !.snoozed = @ \cup eventIds]

MarkCardSeen(i) ==
    /\ user' = Acknowledged({i.symbol}, i.eventIds, i.symbol :> i.rank)
    /\ UNCHANGED <<vars, stamped>>

\* No event ids and no ranks are sent.
MarkAllSeen ==
    /\ user' = Acknowledged(Watched, {}, [s \in Watched |-> 0])
    /\ UNCHANGED <<vars, stamped>>

SnoozeCard(i) ==
    /\ user' = Deferred(i.eventIds)
    /\ UNCHANGED <<vars, stamped>>

DeskNext == \/ \E move \in Moves : Recomputed(move)
            \/ StampPasses
            \/ Morning
            \/ MarkAllSeen
            \/ \E i \in CardsShown : MarkCardSeen(i) \/ SnoozeCard(i)

DeskSpec == DeskInit /\ [][DeskNext]_deskVars

-----------------------------------------------------------------------------
\* The names a brief has a card for.
Names(sitrep) == {i.symbol : i \in Range(sitrep.all)}

\* Acknowledging or deferring a card only takes from the brief: no name that was not
\* on it appears because of it.
AcknowledgingAddsNothing ==
    \A sitrep \in {Sitrep} : \A i \in Range(sitrep.items) :
        \A u \in {Acknowledged({i.symbol}, i.eventIds, i.symbol :> i.rank), Deferred(i.eventIds)} :
            Names(SitrepOf(u)) \subseteq Names(sitrep)

LatestSession == IF closed THEN today ELSE today - 1
AllSeenAt(hour) == \A s \in Watched : user.cursor[s] = {10 * LatestSession + hour}

\* Once everything is marked as seen the brief is quiet until the next session closes.
\* Marked between an early close and the 21:00Z of its events, the session itself comes
\* back, but nothing from before it.
QuietOnceAllSeen ==
    /\ AllSeenAt(8) => Sitrep.quiet
    /\ AllSeenAt(6) =>
          Names(Sitrep) \subseteq {e.symbol : e \in {e \in computed.events : e.date = LatestSession}}
=============================================================================
