------------------------------- MODULE Schedule -------------------------------
(***************************************************************************)
(* The market calendar and the cadences (src/lib/market-calendar.ts and    *)
(* schedule.ts).  An instant is a tick of a calendar that repeats; a day   *)
(* has DAY ticks and the times of day are ticks into it.                   *)
(***************************************************************************)
EXTENDS Integers, Sequences, FiniteSetsExt

CONSTANTS
    CALENDAR,       \* what each day is: "session", "early" or "closed"
    DAY,            \* ticks in a day
    MARKET_OPEN,
    REGULAR_CLOSE,
    EARLY_CLOSE,
    SETTLE,         \* after a close, until its bar is worth asking for
    EVERY           \* the cadence of each kind of work: everyMs

Kinds == {"bars", "intraday", "news", "earnings", "maintenance"}

ASSUME ScheduleAssumption ==
    /\ CALENDAR \in Seq({"session", "early", "closed"})
    /\ {DAY, MARKET_OPEN, REGULAR_CLOSE, EARLY_CLOSE, SETTLE} \subseteq Nat
    /\ MARKET_OPEN < EARLY_CLOSE /\ EARLY_CLOSE < REGULAR_CLOSE
    /\ REGULAR_CLOSE + SETTLE < DAY
    /\ EVERY \in [Kinds -> Nat \ {0}]

Instants == 0..(DAY * Len(CALENDAR) - 1)

NyDate(t)    == (t \div DAY) + 1
NyMinutes(t) == t % DAY

IsTradingDay(date) == CALENDAR[date] # "closed"
IsEarlyClose(date) == CALENDAR[date] = "early"
CloseMinutes(date) == IF IsEarlyClose(date) THEN EARLY_CLOSE ELSE REGULAR_CLOSE

IsMarketOpen(t) ==
    /\ IsTradingDay(NyDate(t))
    /\ MARKET_OPEN <= NyMinutes(t)
    /\ NyMinutes(t) < CloseMinutes(NyDate(t))

\* Strictly before the date; the calendar repeats.
PreviousTradingDay(date) ==
    LET sessions == {d \in DOMAIN CALENDAR : IsTradingDay(d)}
        before   == {d \in sessions : d < date}
    IN  Max(IF before = {} THEN sessions ELSE before)

\* The most recent session whose bar should already exist: here an early close
\* counts for what it is.
LastExpectedSession(t) ==
    LET today == NyDate(t)
    IN  IF IsTradingDay(today) /\ NyMinutes(t) >= CloseMinutes(today) + SETTLE
        THEN today
        ELSE PreviousTradingDay(today)

-------------------------------------------------------------------------------
\* Defect: every market feed asks whether the market is open.
ShouldRunInSession(kind, t) ==
    /\ IsMarketOpen(t)
    /\ kind = "bars" => NyMinutes(t) >= REGULAR_CLOSE + SETTLE

\* The bars wait for the regular close on every session.
ShouldRun(kind, t) ==
    CASE kind = "bars"        -> /\ IsTradingDay(NyDate(t))
                                 /\ NyMinutes(t) >= REGULAR_CLOSE + SETTLE
      [] kind = "intraday"    -> IsMarketOpen(t)
      [] kind = "news"        -> /\ IsTradingDay(NyDate(t))
                                 /\ NyMinutes(t) > 0 /\ NyMinutes(t) < DAY - 1
      [] kind = "earnings"    -> IsTradingDay(NyDate(t))
      [] kind = "maintenance" -> TRUE

DueAt(t) == {kind \in Kinds : ShouldRun(kind, t)}
===============================================================================
