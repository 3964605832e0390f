-------------------------------- MODULE Brief --------------------------------
(***************************************************************************)
(* lib/sitrep.ts from the visible events on, and lib/briefing.ts: the      *)
(* reading of stored events under one user's priorities, what the cards    *)
(* carry, and the sections around them.  A day has a number; the stamps of *)
(* instants are Midnight(d) for a bar date, Close(d) for the 21:00Z of an  *)
(* event.  A tick of a price is a hundredth of its logarithm.              *)
(***************************************************************************)
EXTENDS Replay

CONSTANT MIN_SCORECARD_SAMPLE    \* 30 in the code

Midnight(d) == 10 * d
Close(d) == 10 * d + 7
DayOf(stamp) == stamp \div 10

\* exp(ticks / 100) - 1 in percent, to second order.
PctOf(ticks) == ticks + (ticks * ticks) \div 200

MAX_CHRONOLOGY == 8
DEFAULT_ATTENTION_BUDGET == 5

\* Trading days between two dates, both included; "sessions" is the calendar.
SessionsBetween(sessions, from, to) == Cardinality(sessions \cap (from..to))

(***************************************************************************)
(* computeWindowStats                                                      *)
(***************************************************************************)
RECENT_SESSIONS == 40

\* The last bar dated at or before the cursor, else the previous session.
Baseline(bars, since) ==
    LET before == {i \in DOMAIN bars : since # {} /\ Midnight(bars[i].date) <= Min(since)}
    IN  IF before = {} THEN bars[Max({1, Len(bars) - 1})] ELSE bars[Max(before)]

\* An extreme of the sessions after the baseline, the highest (side 1) or the lowest
\* (side -1), unless it is today's price.  Among equal closes the database may return any.
Extremes(bars, base, side) ==
    LET after == {b \in Range(bars) : b.date > base.date}
        best  == {b \in after : \A c \in after : side * c.close <= side * b.close}
    IN  {[date |-> b.date, fromNow |-> PctOf(b.close - Last(bars).close),
          fromBaseline |-> PctOf(b.close - base.close)] :
         b \in {b \in best : b.date # Last(bars).date}}

WindowStats(bars, since, sessions) ==
    LET base   == Baseline(bars, since)
        rets   == LogReturns(OwnCloses(Window(bars, RECENT_SESSIONS)))
        vols   == {v \in Variance(rets) : v.num > 0}
        move   == Last(bars).close - base.close
        passed == Max({1, SessionsBetween(sessions, base.date, Last(bars).date) - 1})
    IN  [returnPct |-> {PctOf(move)},
         sigmas |-> {Sign(move) * RootTenths(move * move * v.den, v.num * passed) : v \in vols},
         lastClose |-> Last(bars).close, asOf |-> Last(bars).date, baseline |-> base.date,
         peak   |-> Extremes(bars, base, 1),
         trough |-> Extremes(bars, base, -1)]

NoStats == [returnPct |-> {}, sigmas |-> {}, lastClose |-> 0, asOf |-> 0, baseline |-> 0,
            peak |-> {}, trough |-> {}]
StatsOf(market, symbol, since, sessions) ==
    LET bars == SeriesOf(market, symbol)
    IN  IF bars = <<>> THEN NoStats ELSE WindowStats(bars, since, sessions)
OrZero(optional) == IF optional = {} THEN 0 ELSE Min(optional)

\* marketContext: the benchmark over the window of the whole brief.
MarketContext(market, since, sessions) ==
    LET stats == StatsOf(market, BENCHMARK, since, sessions)
    IN  [returnPct |-> OrZero(stats.returnPct), sigmas |-> OrZero(stats.sigmas)]

(***************************************************************************)
(* assembleSitrep, for the rows of a watchlist: [symbol, priority, intent] *)
(***************************************************************************)
LOADED == {"CRITICAL", "IMPORTANT", "WATCH", "INFO"}

\* Defect: by calendar days.
UnseenByDay(events, symbols, since) ==
    {e \in events : /\ e.symbol \in symbols
                    /\ e.severity \in LOADED
                    /\ since = {} \/ e.date >= DayOf(Min(since))}

\* The events past the oldest cursor, most recent first.
Unseen(events, symbols, since) ==
    {e \in events : /\ e.symbol \in symbols
                    /\ e.severity \in LOADED
                    /\ since = {} \/ Close(e.date) > Min(since)}

\* In the order of the query; within a day, that of their detectors.
DETECTORS == <<"move_since_last_seen", "volume_spike", "sector_divergence", "range_break",
               "vol_regime_shift", "earnings_upcoming", "correlation_break", "quiet_regime">>
Order(e) == 10 * e.date - (CHOOSE k \in DOMAIN DETECTORS : DETECTORS[k] = e.detector)
NewestFirst(events) == Ordered(events, LAMBDA a, b : Order(a) > Order(b))

\* Defect: a divergence from the sector counts for nothing.
RowContextUndiverged(row, events) ==
    [priority |-> row.priority, intent |-> row.intent, age |-> 0, macro |-> FALSE,
     confidence |-> Min({e.confidence : e \in Range(events)}),
     confirmed |-> \A e \in Range(events) : e.confirmed,
     catalyst |-> \E e \in Range(events) : e.detector = "earnings_upcoming",
     idiosyncratic |-> FALSE]

\* One name's signals scored again under the user's own context.
RowContext(row, events) ==
    [priority |-> row.priority, intent |-> row.intent,
     confidence |-> Min({e.confidence : e \in Range(events)}),
     confirmed |-> \A e \in Range(events) : e.confirmed,
     age |-> 0, macro |-> FALSE,
     catalyst |-> \E e \in Range(events) : e.detector = "earnings_upcoming",
     idiosyncratic |-> \E e \in Range(events) : e.detector = "sector_divergence"]

Item(row, events, stats, sector, previousRank) ==
    LET scored == ScoreSignals(SignalsOf(events), RowContext(row, events), "none")
        themed == {i \in DOMAIN events : events[i].theme # ""}
    IN  [symbol |-> row.symbol, sector |-> sector, intent |-> row.intent,
         attentionScore |-> WholePoints(scored.score), severity |-> scored.severity,
         signals |-> SignalsOf(events), lead |-> Lead(events, row.intent),
         explained |-> ExplainContributions(scored),
         eventIds |-> {e.fingerprint : e \in Range(events)},
         stats |-> stats, confirmed |-> \A e \in Range(events) : e.confirmed,
         previousRank |-> previousRank,
         themeKey |-> IF themed = {} THEN "" ELSE events[Min(themed)].theme]

\* Every row that has something visible, in the order of the rows.
EventsOf(visible, symbol) == NewestFirst({e \in visible : e.symbol = symbol})
Items(rows, market, visible, cursor, ranks, sessions) ==
    LET telling == {row \in Range(rows) : \E e \in visible : e.symbol = row.symbol}
    IN  Field(Kept(rows, telling),
              LAMBDA row : Item(row, EventsOf(visible, row.symbol),
                                StatsOf(market, row.symbol, cursor[row.symbol], sessions),
                                market.sector[row.symbol], ranks[row.symbol]))

\* How many names ended at each severity: a name with nothing visible is noise, a
\* name that only has snoozed events is not counted.
Budget(rows, items, snoozed) ==
    [sev \in Range(Severities) |->
        Cardinality({i \in DOMAIN items : items[i].severity = sev})
        + (IF sev = "NOISE" THEN Len(rows) - Len(items) - Cardinality(snoozed) ELSE 0)]

\* Defect: one card for each theme.
SurfacedOncePerTheme(items) ==
    LET ranked == ByScore(Kept(items, {i \in Range(items) : i.severity \in SURFACED}))
        first  == {k \in DOMAIN ranked : \A j \in 1..k - 1 :
                     ranked[k].themeKey = "" \/ ranked[j].themeKey # ranked[k].themeKey}
    IN  Field(Ordered(first, LAMBDA a, b : a < b),
              LAMBDA k : With([rank |-> k, framing |-> {}], ranked[k]))

\* The ranked list; the framing and the rank are known only now.
Surfaced(items) ==
    LET ranked == ByScore(Kept(items, {i \in Range(items) : i.severity \in SURFACED}))
    IN  [k \in DOMAIN ranked |->
            With([rank |-> k,
                  framing |-> FrameForPosition(
                     [intent |-> ranked[k].intent, returnPct |-> ranked[k].stats.returnPct,
                      sigmas |-> OrZero(ranked[k].stats.sigmas),
                      peakFromNow |-> OrZero({p.fromNow : p \in ranked[k].stats.peak})])],
                 ranked[k])]

Shown(surfaced, attentionBudget) ==
    SubSeq(surfaced, 1, Min({attentionBudget, Len(surfaced)}))

\* The themes the visible events belong to, the most confident first.
BriefThemes(themes, visible) ==
    LET linked == {t \in themes : \E e \in visible : e.theme = t.scopeKey /\ e.date = t.day}
    IN  Ordered(linked, LAMBDA a, b : a.confidence > b.confidence)

\* The share of the watchlist that the narrative takes for its breadth, in percent.
Breadth(rows, items) ==
    (100 * Cardinality({i \in DOMAIN items : OrZero(items[i].stats.sigmas) > 10})) \div Len(rows)

\* A path that went somewhere its endpoints hide.
RoundTrips(surfaced) ==
    {i \in DOMAIN surfaced :
        \/ \E p \in surfaced[i].stats.peak : p.fromNow >= 15
        \/ \E p \in surfaced[i].stats.trough : p.fromBaseline <= -15}

\* What the scorecard says of each detector whose sample is large enough.
TrackRecord(scorecards) ==
    [d \in {d \in DOMAIN scorecards : scorecards[d].checked >= MIN_SCORECARD_SAMPLE} |->
        LET card == scorecards[d]
        IN  [n |-> card.checked, rate |-> (100 * card.followed) \div card.checked,
             lift |-> IF card.baseFollowed = 0 THEN {}
                      ELSE {(100 * card.followed * card.baseChecked)
                            \div (card.checked * card.baseFollowed)}]]

(***************************************************************************)
(* briefing.ts                                                             *)
(***************************************************************************)
LOUD == {"CRITICAL", "IMPORTANT"}
LoudSince(events, symbols, since) ==
    LET loud == {e \in Unseen(events, symbols, since) : e.severity \in LOUD}
    IN  Ordered(loud, LAMBDA a, b : a.score > b.score)

\* The first of a sequence with each key.
FirstOfEach(s, Key(_)) ==
    LET firsts == {i \in DOMAIN s : \A j \in 1..(i - 1) : Key(s[j]) # Key(s[i])}
    IN  Field(Ordered(firsts, LAMBDA a, b : a < b), LAMBDA i : s[i])
Take(s, n) == SubSeq(s, 1, Min({n, Len(s)}))

\* Moves, themes and reports, each cut on its own; then all in order of date.
Chronology(events, themes, reports, symbols, since, today) ==
    LET loud   == Take(LoudSince(events, symbols, since), 40)
        moves  == Take(FirstOfEach(loud, LAMBDA e : <<e.symbol, e.date>>), MAX_CHRONOLOGY)
        formed == Take(Ordered({t \in themes : Midnight(t.day) > Min(since)},
                                    LAMBDA a, b : a.confidence > b.confidence), 3)
        told   == Take(Ordered({r \in reports : /\ r.symbol \in symbols
                                                     /\ Midnight(r.date) > Min(since)
                                                     /\ r.date <= today},
                                    LAMBDA a, b : a.date < b.date), 4)
        entries == Field(moves, LAMBDA e : [date |-> e.date, kind |-> "move", of |-> e.symbol])
                   \o Field(formed, LAMBDA t : [date |-> t.day, kind |-> "theme", of |-> t.scopeKey])
                   \o Field(told, LAMBDA r : [date |-> r.date, kind |-> "earnings", of |-> r.symbol])
        Before(i, j) == \/ entries[i].date < entries[j].date
                        \/ entries[i].date = entries[j].date /\ i < j
    IN  IF since = {} \/ symbols = {} THEN <<>>
        ELSE Take(Field(Ordered(DOMAIN entries, Before), LAMBDA i : entries[i]), MAX_CHRONOLOGY)

\* Loud names that are not on the cards: one line each, four at most.
CameAndWent(events, symbols, since, shownSymbols) ==
    LET loud == Take(LoudSince(events, symbols, since), 30)
        gone == SelectSeq(loud, LAMBDA e : e.symbol \notin shownSymbols)
    IN  IF since = {} \/ symbols = {} THEN <<>>
        ELSE Take(FirstOfEach(gone, LAMBDA e : e.symbol), 4)

\* checkFreshness: the holes of the watched names in the sessions it scans.
Holes(market, symbols, scanned) ==
    LET dates(s) == {b.date : b \in Range(SeriesOf(market, s))}
    IN  MapThenSumSet(LAMBDA s : Cardinality(scanned \ dates(s)),
                      {s \in symbols : dates(s) \cap scanned # {}})

\* checkFreshness: the sessions the newest bar of the watched names is behind.
SessionsBehind(market, symbols, sessions) ==
    LET dates == UNION {{b.date : b \in Range(SeriesOf(market, s))} : s \in symbols}
    IN  IF dates = {} THEN 0 ELSE Cardinality({d \in sessions : d > Max(dates)})

\* loadCoverage: two headlines for each name on a card, out of the three per name the
\* query reads over all of them, those carried by the most outlets first.
Coverage(news, symbols, since) ==
    LET recent == {n \in news : /\ n.symbol \in symbols
                                /\ since = {} \/ n.published > Min(since)}
        Wider(a, b) == \/ a.outlets > b.outlets
                       \/ a.outlets = b.outlets /\ a.published > b.published
        read == Take(Ordered(recent, Wider), 3 * Cardinality(symbols))
    IN  [s \in symbols |-> Take(SelectSeq(read, LAMBDA n : n.symbol = s), 2)]

(***************************************************************************)
(* The brief.  "desk" is what the database holds for the user.             *)
(***************************************************************************)
Since(cursor) == LET at == UNION Range(cursor) IN IF at = {} THEN {} ELSE {Min(at)}

EmptyResult ==
    [items |-> <<>>, all |-> <<>>, themes |-> <<>>, narrative |-> "empty_watchlist",
     withinNormalRange |-> 0, belowBudget |-> 0, snoozedCount |-> 0, quiet |-> TRUE]

\* The cards, and how every row of the watchlist is accounted for.
Cards(rows, items, surfaced, shown, snoozed) ==
    [items |-> shown, all |-> surfaced,
     budget |-> Budget(rows, items, snoozed),
     withinNormalRange |-> Len(rows) - Len(surfaced) - Cardinality(snoozed),
     belowBudget |-> Len(surfaced) - Len(shown),
     snoozedCount |-> Cardinality(snoozed),
     quiet |-> surfaced = <<>>,
     unconfirmedCount |-> Len(SelectSeq(items, LAMBDA i : ~i.confirmed))]

\* The summary of an absence; "moves" are the returns of the items, whatever their sign.
Absence(desk, since, surfaced, moves, themes, chronology) ==
    AbsenceSummary(
        [sessions |-> IF since = {} THEN 0
                      ELSE Max({0, SessionsBetween(desk.sessions, DayOf(Min(since)), desk.today) - 1}),
         bigMovers |-> Len(SelectSeq(moves, LAMBDA m : m >= 20)),
         largestMovePct |-> Max(Range(moves) \cup {0}),
         largestMoveSymbol |-> IF Range(moves) \subseteq {0} THEN "" ELSE "largest",
         themesFormed |-> Len(themes),
         earningsReported |-> Len(SelectSeq(chronology, LAMBDA c : c.kind = "earnings")),
         roundTrips |-> Cardinality(RoundTrips(surfaced))])

\* The sections around the cards.
Sections(desk, since, items, surfaced, shown, themes, market, chronology) ==
    LET symbols == {r.symbol : r \in Range(desk.rows)}
        onCards == {i.symbol : i \in Range(shown)}
    IN  [since |-> since,
         themes |-> Field(themes, LAMBDA t :
             [t EXCEPT !.members = {i.symbol : i \in {i \in Range(shown) : i.themeKey = t.scopeKey}}]),
         narrative |-> BuildNarrative(
            [themes |-> themes, topEventSectors |-> Field(shown, LAMBDA i : i.sector),
             marketReturn |-> market.returnPct, marketSigmas |-> market.sigmas,
             breadth |-> Breadth(desk.rows, items), notableCount |-> Len(surfaced)]),
         absence |-> Absence(desk, since, surfaced,
                             Field(items, LAMBDA i : Abs(OrZero(i.stats.returnPct))),
                             themes, chronology),
         chronology |-> chronology,
         cameAndWent |-> CameAndWent(desk.events, symbols, since, onCards),
         trackRecord |-> TrackRecord(desk.scorecards),
         market |-> market,
         coverage |-> Coverage(desk.news, onCards, since),
         behind |-> SessionsBehind(desk.market, symbols, desk.sessions),
         holes |-> Holes(desk.market, symbols, desk.sessions \cap (desk.today - 45..desk.today))]

\* From the events past the oldest cursor to the brief; a name is deferred when
\* nothing of it that is visible is left.
BriefFrom(desk, symbols, since, events) ==
    LET visible == {e \in events : e.fingerprint \notin desk.seen \cup desk.snoozed}
        snoozed == {e.symbol : e \in {e \in events : e.fingerprint \in desk.snoozed}}
                   \ {e.symbol : e \in visible}
        Written(items, surfaced, shown) ==
            With(Cards(desk.rows, items, surfaced, shown, snoozed),
                 Sections(desk, since, items, surfaced, shown,
                          BriefThemes(desk.themes, visible),
                          MarketContext(desk.market, since, desk.sessions),
                          Chronology(desk.events, desk.themes, desk.reports, symbols, since,
                                     desk.today)))
        Cut(items, surfaced) == Written(items, surfaced, Shown(surfaced, desk.attentionBudget))
        Ranked(items) == Cut(items, Surfaced(items))
    IN  Ranked(Items(desk.rows, desk.market, visible, desk.cursor, desk.ranks, desk.sessions))

AssembleSitrep(desk) ==
    LET symbols == {r.symbol : r \in Range(desk.rows)}
        Over(since) == BriefFrom(desk, symbols, since, Unseen(desk.events, symbols, since))
    IN  IF desk.rows = <<>> THEN EmptyResult ELSE Over(Since(Restrict(desk.cursor, symbols)))

=============================================================================
