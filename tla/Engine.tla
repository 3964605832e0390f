-------------------------------- MODULE Engine --------------------------------
(***************************************************************************)
(* The engine in use: sessions close, their bars are stored, and           *)
(* computeAndPersist replaces the events and the themes.  What the steps   *)
(* of a recompute do to each other while they overlap is IngestPipeline's  *)
(* matter: here each is one step, and what it computes is computed.        *)
(***************************************************************************)
EXTENDS Brief

CONSTANTS SYMBOLS,       \* the instruments, in the order they are loaded
          LISTING,       \* [sector, etf]: what instrument.sector and sectorEtf say
          HISTORY,       \* the stored series before the first session
          REPORTS,       \* earnings rows: a set of [symbol, date, session]
          Moves,         \* what a session can bring: [of, volume, confidence, confirmed]
          FirstDay, LastDay,
          CONTEXT        \* the curated table of context events, a sequence

\* A series is loaded in the order of its dates, and has one bar for each.
Chronological(bars) ==
    /\ bars \in Seq(Range(bars))
    /\ \A i \in DOMAIN bars : bars[i].date \in Int
    /\ \A i, j \in DOMAIN bars : i < j => bars[i].date < bars[j].date

\* The benchmark is of no sector; the history is of the days before the first, at prices
\* that are numbers; a session moves a price there is; the table's rows are dated, and
\* their importance has a weight.
ASSUME EngineAssumption ==
    /\ FirstDay \in Nat /\ LastDay \in Nat /\ FirstDay <= LastDay
    /\ SYMBOLS \in Seq(Range(SYMBOLS))
    /\ \A s \in DOMAIN HISTORY : /\ Chronological(HISTORY[s])
                                 /\ \A b \in Range(HISTORY[s]) : b.date < FirstDay
                                 /\ \A b \in Range(HISTORY[s]) : b.close \in Int
    /\ Range(SYMBOLS) \subseteq DOMAIN HISTORY
    /\ \A m \in Moves : \A s \in DOMAIN m.of : m.of[s] \in Int /\ HISTORY[s] # <<>>
    /\ DOMAIN LISTING.sector = Range(SYMBOLS) /\ LISTING.sector[BENCHMARK] = ""
    /\ CONTEXT \in Seq(Range(CONTEXT))
    /\ \A k \in DOMAIN CONTEXT : /\ CONTEXT[k].date \in Int /\ CONTEXT[k].end \in Int
                                 /\ CONTEXT[k].importance \in DOMAIN IMPORTANCE_WEIGHT

VARIABLES series,        \* daily_bars
          computed,      \* the tables computeAndPersist replaces: [events, themes, scorecards]
          today, closed  \* the day, and whether its session has closed
vars == <<series, computed, today, closed>>

MarketOf(bars) == [series |-> bars, sector |-> LISTING.sector, etf |-> LISTING.etf]
Market == MarketOf(series)
Sessions == {b.date : b \in Range(series[BENCHMARK])}

ReportsOf(symbol) ==
    Ordered({r \in REPORTS : r.symbol = symbol}, LAMBDA a, b : a.date < b.date)

-----------------------------------------------------------------------------
\* Benchmarks and sector proxies get no events.
Instruments == {s \in Range(SYMBOLS) : LISTING.sector[s] # "" /\ LISTING.etf[s] # ""}
Universe == Kept(SYMBOLS, Instruments)

DaysOf(market, symbol) ==
    RunPipeline(InputOf(market, symbol, ReportsOf(symbol)), 0, LastDay, {1})

\* persistThemes for one date, in the order the instruments were loaded.
EntriesOn(market, days, symbol, date) ==
    {[symbol |-> symbol, sector |-> market.sector[symbol], bars |-> SeriesOf(market, symbol),
      day |-> d] : d \in {d \in days[symbol] : d.date = date}}
MembersOn(market, days, date, benchmark) ==
    Known(Universe, Table([s \in Instruments |->
        ThemeMembers(EntriesOn(market, days, s, date), benchmark)]))
ThemesOn(market, days, date) ==
    {With([day |-> date], t) :
        t \in Range(ThemesAmong(MembersOn(market, days, date, AsProxy(SeriesOf(market, BENCHMARK))),
                                date))}

Linked(event, themes) ==
    LET of == {t \in themes : t.day = event.date /\ event.symbol \in t.members}
    IN  IF of = {} THEN event ELSE [event EXCEPT !.theme = (CHOOSE t \in of : TRUE).scopeKey]

\* The track record of each detector that fired, over all instruments.
TrackRecordOf(cards) ==
    [k \in {"fired", "surfaced", "checked", "followed", "baseChecked", "baseFollowed"} |->
        MapThenSumSet(LAMBDA s : cards[s][k], Instruments)]
Scorecards(market, days) ==
    LET fired == {e.detector : e \in UNION {Range(d.events) : d \in UNION Range(days)}}
    IN  Table([d \in fired |-> TrackRecordOf(
            Table([s \in Instruments |-> Scorecard(days[s], SeriesOf(market, s), d)]))])

\* The three tables a recompute replaces.
Persisted(market, days, themes) ==
    [events |-> {Linked(e, themes) : e \in UNION {EventRows(s, days[s]) : s \in Instruments}},
     themes |-> themes,
     scorecards |-> Scorecards(market, days)]
ComputeAndPersist(market) ==
    LET DatesOf(days) == UNION {{d.date : d \in days[s]} : s \in Instruments}
        Of(days) == Persisted(market, days, UNION {ThemesOn(market, days, d) : d \in DatesOf(days)})
    IN  Of(Table([s \in Instruments |-> DaysOf(market, s)]))

-----------------------------------------------------------------------------
Init ==
    /\ series = HISTORY
    /\ computed = ComputeAndPersist(MarketOf(HISTORY))
    /\ today = FirstDay
    /\ closed = FALSE

\* The bar a session adds to a series; no bar for a name that was not printed.
Bar(symbol, move) ==
    LET from == Last(series[symbol]).close
        to   == from + move.of[symbol]
    IN  IF symbol \notin DOMAIN move.of THEN <<>>
        ELSE <<[date |-> today, close |-> to, high |-> Max({from, to}), low |-> Min({from, to}),
                volume |-> move.volume, confidence |-> move.confidence,
                confirmed |-> move.confirmed]>>

\* A session closes, its bars are stored, and the recompute that follows.
SessionCloses(move) ==
    /\ ~closed
    /\ closed' = TRUE
    /\ series' = [s \in DOMAIN series |-> series[s] \o Bar(s, move)]
    /\ computed' = ComputeAndPersist(MarketOf(series'))
    /\ UNCHANGED today

NextMorning ==
    /\ closed /\ today < LastDay
    /\ closed' = FALSE
    /\ today' = today + 1
    /\ UNCHANGED <<series, computed>>

Next == NextMorning \/ \E move \in Moves : SessionCloses(move)

Spec == Init /\ [][Next]_vars

-----------------------------------------------------------------------------
\* A step of the replay of the window from start to end.
ReplayOf(date, start, end) == ReplayStep(Market, Universe, date, start, end, CONTEXT)
Latest == Sessions \cap {today}

\* What a step says of the session itself: all but what else was going on.
OfTheSession(step) == [step EXCEPT !.context = {}]

\* What is reported of a session never depends on the sessions after it: a recompute
\* repeats what one made on that day would have stored, and a replay of a longer window
\* shows the same step (proxyWindow, "assertNoLookahead").  The curated table is matched
\* on either side of the day: what was going on changes only for a row of a later day.
PointInTime ==
    \A d \in FirstDay - 2..today - 1 :
        /\ \A then \in {ComputeAndPersist(Loaded(Market, d))} :
              /\ {e \in computed.events : e.date <= d} = then.events
              /\ {t \in computed.themes : t.day <= d} = then.themes
        /\ \A start \in {FirstDay - 2, d} :
              \A long \in {ReplayOf(d, start, today)}, short \in {ReplayOf(d, start, d)} :
                  /\ OfTheSession(long) = OfTheSession(short)
                  /\ \/ long.context = short.context
                     \/ \E m \in long.context : m.event.date > d

\* A theme without its wording.
Plain(theme) == [theme EXCEPT !.characteristics = {}]

\* Replay and live product reach the same conclusion of a session without a report
\* ahead, of which a replay knows nothing: the same themes, and no card for a name of
\* which nothing was stored (themeMemberFor of scenarios.ts beside persistThemes).
ReplayTellsTheSameStory ==
    \A d \in Latest :
        LET of     == {e \in computed.events : e.date = d}
            themes == {t \in computed.themes : t.day = d}
        IN  (\A e \in of : e.detector # "earnings_upcoming")
            => \A step \in {ReplayOf(d, FirstDay - 2, today)} :
                  /\ {With([day |-> d], Plain(x)) : x \in Range(step.themes)}
                     = {Plain(t) : t \in themes}
                  /\ {i.symbol : i \in Range(step.items)} \subseteq {e.symbol : e \in of}

\* The card of a name on the evening of a session, for a user of no preferences.
EveningCard(symbol, d) ==
    Item([symbol |-> symbol, priority |-> "NORMAL", intent |-> "NONE"],
         EventsOf(Unseen(computed.events, {symbol}, {Midnight(d)}), symbol),
         NoStats, LISTING.sector[symbol], {})

\* The card of the replay, scored by the pipeline, and the card of that evening, scored
\* again by assembleSitrep from the stored rows, give a name the same score and the same
\* first reason, where every event of the day was worth loading and the regression and
\* the detectors agree whether the move was the name's own.
ReplayScoresLikeTheDesk ==
    \A d \in Latest : \A item \in Range(ReplayOf(d, FirstDay - 2, today).items) :
        LET of       == {e \in computed.events : e.symbol = item.symbol /\ e.date = d}
            own      == \E e \in of : \E m \in Range(e.multipliers) : m.key = "idiosyncratic"
            diverged == \E e \in of : e.detector = "sector_divergence"
            card     == EveningCard(item.symbol, d)
        IN  (\A e \in of : e.severity \in LOADED /\ e.detector # "earnings_upcoming")
            /\ (own <=> diverged)
            => card.attentionScore = item.attentionScore /\ card.lead.signal.key = item.lead

\* What a name did on a session.
Moved(symbol, d) ==
    LET bars == series[symbol]
        i    == Min(IndexOf(bars, d))
    IN  bars[i].close - bars[i - 1].close

\* A day the market explains is never told as a sector's story: where the members moved
\* just as the benchmark did there is no theme, however tight the group.
CrashIsNotATheme ==
    \A t \in computed.themes : \E s \in t.members : Moved(s, t.day) # Moved(BENCHMARK, t.day)

\* What else was going on is only attached where it reaches: a market-wide day to
\* something market-wide, a theme to nothing of another sector or of the whole market.
ContextReachesAsFar ==
    \A d \in Latest : \A step \in {ReplayOf(d, FirstDay - 2, today)} : \A m \in step.context :
        /\ step.query.marketWide <=> m.event.scope \in {"GLOBAL", "US"}
        /\ m.event.sectors # {} /\ step.query.sector # ""
           => step.query.sector \in m.event.sectors

\* Series are paired by date: a name that missed a session, measured against its own
\* full series, never diverges from it.
PairedByDate ==
    \A s \in Instruments : \A missed \in (FirstDay - 3)..(today - 1) :
        LET own  == Kept(series[s], {b \in Range(series[s]) : b.date # missed})
            full == AsProxy(series[s])
        IN  \A day \in RunDay([bars |-> own, benchmark |-> full, sector |-> full, earnings |-> <<>>],
                              Len(own), {1}) :
                \A e \in Range(day.events) : e.detector \notin {"sector_divergence", "correlation_break"}

\* Another kind of evidence, as strong as any there was, never lowers a score.
CorroborationNeverHurts ==
    \A e \in {e \in computed.events : e.date = today} :
        LET day  == NewestFirst({o \in computed.events : o.symbol = e.symbol /\ o.date = e.date})
            rest == SelectSeq(day, LAMBDA o : o # e)
            Of(events) == ScoreSignals(SignalsOf(events), RowContext([priority |-> "NORMAL",
                                       intent |-> "NONE"], day), "none").score
        IN  (\A o \in Range(rest) : Magnitude(o.signal) <= Magnitude(e.signal))
            => Of(rest) <= Of(day) + 10     \* rounding, in thousandths of a point

=============================================================================
