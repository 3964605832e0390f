--------------------------------- MODULE Bars ---------------------------------
(***************************************************************************)
(* What becomes of the bars that providers return: validateBars of         *)
(* src/src/lib/ingest/validate.ts and reconcileBar, reconcileSeries of     *)
(* src/src/lib/ingest/reconcile.ts.                                        *)
(*                                                                         *)
(* A day is a number of the calendar.  A series is a function from days to *)
(* bars.  A bar keeps the close, for the four prices that are compared     *)
(* alike, the adjusted close, which is not compared at all, and the        *)
(* volume.  Rates are in thousandths, rounded down.                        *)
(***************************************************************************)
EXTENDS Integers, SequencesExt

PriceTolerance == 3       \* TOLERANCE.price, 0.003
VolumeTolerance == 250    \* TOLERANCE.volume, 0.25
MaxDailyMove == 600       \* MAX_DAILY_MOVE, 0.6
MaxSessionGap == 4        \* MAX_SESSION_GAP_DAYS
AbnormalLimit == 10       \* ABNORMAL_LIMIT
FloorOfTypical == 10      \* the typical move is at least 0.01
HistoryWindow == 10       \* HISTORY_WINDOW

NoClose == [day |-> 0, close |-> 0]
NoBars == [d \in {} |-> 0]

Distance(a, b) == IF a > b THEN a - b ELSE b - a
Move(now, before) == (1000 * Distance(now, before)) \div before

-------------------------------------------------------------------------------
(* validateBars                                                            *)

\* firstProblem: prices are positive.  The model's bars have one price, so its
\* range contains it; a series has one bar for a day, dated in the past.
Sound(bar) == bar.close > 0 /\ bar.adj > 0 /\ bar.volume >= 0

\* Only between consecutive sessions is a move one session's move.
Implausible(bar, day, last) ==
    /\ last # NoClose
    /\ day - last.day \in 1..MaxSessionGap
    /\ Move(bar.close, last.close) > MaxDailyMove

Accepted(series, day, last) ==
    Sound(series[day]) /\ ~Implausible(series[day], day, last)

\* Defect: every row is compared with the stored bar, not with the row before it.
CheckRowAgainstAnchor(series, last, day) == last

\* The close that the rows after this one are compared with.
CheckRow(series, last, day) ==
    IF Accepted(series, day, last) THEN [day |-> day, close |-> series[day].close] ELSE last

\* The newest close accepted before each day, the newest stored one to begin with.
LastClose(series, anchor) ==
    LET last[d \in Nat] ==
            IF d = 0 THEN anchor
            ELSE IF d - 1 \in DOMAIN series THEN CheckRow(series, last[d - 1], d - 1)
            ELSE last[d - 1]
    IN  last

\* The days whose bars are accepted, given the newest bar already stored.
ValidDays(series, anchor) ==
    {d \in DOMAIN series : Accepted(series, d, LastClose(series, anchor)[d])}

Validated(series, anchor) == [d \in ValidDays(series, anchor) |-> series[d]]

-------------------------------------------------------------------------------
(* reconcileBar                                                            *)

\* relativeDelta(a, b) > tolerance, with the larger of the two below.
Beyond(a, b, tolerance) ==
    1000 * Distance(a, b) > tolerance * (IF a > b THEN a ELSE b)

DisputedFields(a, b) ==
    {f \in {"close", "volume"} :
        Beyond(a[f], b[f], IF f = "volume" THEN VolumeTolerance ELSE PriceTolerance)}

MedianOf(closes) == SortSeq(closes, <)[Len(closes) \div 2 + 1]

\* The average move between neighbours in the history, at least one percent.
TypicalMove(closes) ==
    LET moves == [i \in 1..(Len(closes) - 1) |-> Move(closes[i + 1], closes[i])]
        mean == FoldLeft(+, 0, moves) \div Len(moves)
    IN  IF mean > FloorOfTypical THEN mean ELSE FloorOfTypical

\* abnormality(close, history) is known and beyond the limit.
Abnormal(close, closes) ==
    Move(close, MedianOf(closes)) > AbnormalLimit * TypicalMove(closes)

\* Sanity beats trust: the primary's price is impossible, the other's is not.
Overruled(primary, other, closes) ==
    /\ Len(closes) >= 3
    /\ Abnormal(primary.close, closes)
    /\ ~Abnormal(other.close, closes)

Alone(bar, source) ==
    [bar |-> bar, source |-> source, confirmed |-> TRUE, disputed |-> {}]

\* Defect: trust settles a dispute for good.
SettleByTrust(primary, other, closes) ==
    [bar       |-> primary.bar,
     source    |-> primary.source,
     confirmed |-> TRUE,
     disputed  |-> DisputedFields(primary.bar, other.bar)]

\* Two candidates, the first of the higher trust.  An overruled price is
\* replaced in the primary's bar, whose other fields stay.
Settle(primary, other, closes) ==
    LET disputed == DisputedFields(primary.bar, other.bar)
        overruled == "close" \in disputed /\ Overruled(primary.bar, other.bar, closes)
    IN  [bar       |-> IF overruled THEN [primary.bar EXCEPT !.close = other.bar.close]
                                    ELSE primary.bar,
         source    |-> IF overruled THEN other.source ELSE primary.source,
         confirmed |-> "close" \notin disputed,
         disputed  |-> disputed]

-------------------------------------------------------------------------------
(* reconcileSeries: joined by day, each day judged against the closes that *)
(* were settled for the days before it in the same call.                   *)

\* series[s] is the series of source s; trust lists the two sources, best first.
ReconcileDay(series, trust, closes, day) ==
    LET having == {s \in DOMAIN series : day \in DOMAIN series[s]}
        candidate(s) == [bar |-> series[s][day], source |-> s]
    IN  IF \A s \in DOMAIN series : s \in having
        THEN Settle(candidate(trust[1]), candidate(trust[2]), closes)
        ELSE LET s == CHOOSE s \in having : TRUE IN Alone(series[s][day], s)

\* The settled close joins the history that the days after it are judged by.
AddDay(series, trust, closes, day) ==
    LET longer == Append(closes, ReconcileDay(series, trust, closes, day).bar.close)
    IN  IF Len(longer) > HistoryWindow THEN Tail(longer) ELSE longer

DaysOf(series) == UNION {DOMAIN series[s] : s \in DOMAIN series}

\* The closes settled before each day, the last HISTORY_WINDOW of them.
History(series, trust) ==
    LET closes[d \in Nat] ==
            IF d = 0 THEN <<>>
            ELSE IF d - 1 \in DaysOf(series) THEN AddDay(series, trust, closes[d - 1], d - 1)
            ELSE closes[d - 1]
    IN  closes

\* What is stored for each day that some source has.
Reconciled(series, trust) ==
    [d \in DaysOf(series) |-> ReconcileDay(series, trust, History(series, trust)[d], d)]
===============================================================================
