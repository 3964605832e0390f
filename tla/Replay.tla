------------------------------- MODULE Replay -------------------------------
(***************************************************************************)
(* lib/scenarios.ts: a window of stored history stepped one session at a   *)
(* time through the pipeline, the themes, the narrative and the table of   *)
(* what else was going on.  A market is [series, sector, etf]: the bars of *)
(* every symbol, and the sector and sector proxy of every instrument ("" is *)
(* none).                                                                  *)
(***************************************************************************)
EXTENDS Pipeline, Themes, Story

CONSTANT BENCHMARK      \* MARKET_BENCHMARK

\* A series as a proxy: its closes by date.
AsProxy(bars) ==
    Table([d \in {b.date : b \in Range(bars)} |->
              bars[CHOOSE i \in DOMAIN bars : bars[i].date = d].close])

SeriesOf(market, symbol) == IF symbol \in DOMAIN market.series THEN market.series[symbol] ELSE <<>>

\* What runPipeline is given: a replay knows of no reports.
InputOf(market, symbol, reports) ==
    [bars |-> SeriesOf(market, symbol),
     benchmark |-> AsProxy(SeriesOf(market, BENCHMARK)),
     sector |-> AsProxy(SeriesOf(market, market.etf[symbol])),
     earnings |-> reports]

\* Nothing after the end of the window is even loaded.
Upto(bars, end) == SubSeq(bars, 1, Max({0} \cup {i \in DOMAIN bars : bars[i].date <= end}))
Loaded(market, end) ==
    [market EXCEPT !.series = [s \in DOMAIN @ |-> Upto(@[s], end)]]

IndexOf(bars, date) == {i \in DOMAIN bars : bars[i].date = date}

\* Defect: measured by the session before.
ThemeMemberForYesterday(market, symbol, i, day) ==
    LET bars == SeriesOf(market, symbol)
    IN  {[symbol |-> symbol, sector |-> market.sector[symbol], day |-> day.date,
          score |-> day.score, direction |-> Sign(bars[i - 1].close - bars[i - 2].close),
          ret |-> 100 * (bars[i - 1].close - bars[i - 2].close),
          residuals |-> reg.residuals, explained |-> reg.explained,
          moveSigmas |-> SessionSigmas(bars, i - 1)] :
         reg \in RegressWindow(bars, AsProxy(SeriesOf(market, BENCHMARK)), i - 1)}

\* The replay's own copy of the regression and of the member it makes.
ThemeMemberFor(market, symbol, i, day) ==
    LET bars == SeriesOf(market, symbol)
    IN  IF market.sector[symbol] = "" \/ i < W["beta"] + 2 THEN {}
        ELSE {[symbol |-> symbol, sector |-> market.sector[symbol], day |-> day.date,
               score |-> day.score,
               direction |-> IF bars[i].close < bars[i - 1].close THEN -1 ELSE 1,
               ret |-> 100 * (bars[i].close - bars[i - 1].close),
               residuals |-> reg.residuals, explained |-> reg.explained,
               moveSigmas |-> SessionSigmas(bars, i)] :
              reg \in RegressWindow(bars, AsProxy(SeriesOf(market, BENCHMARK)), i)}

\* A card of the replay.
ReplayItem(market, symbol, day) ==
    LET bars == SeriesOf(market, symbol)
        i    == Min(IndexOf(bars, day.date))
    IN  [symbol |-> symbol, sector |-> market.sector[symbol],
         score |-> day.score, attentionScore |-> WholePoints(day.score),
         severity |-> day.severity,
         lead |-> Lead(day.events, "NONE").signal.key,
         ret |-> bars[i].close - bars[i - 1].close]

Days(market, symbol, date) == RunPipeline(InputOf(market, symbol, <<>>), date, date, {1})

\* The highest score first; among equals, the order they came in.
Ahead(items, j) ==
    {i \in DOMAIN items : \/ items[i].attentionScore > items[j].attentionScore
                          \/ items[i].attentionScore = items[j].attentionScore /\ i < j}
ByScore(items) ==
    Table([k \in DOMAIN items |->
              items[CHOOSE j \in DOMAIN items : Cardinality(Ahead(items, j)) = k - 1]])

\* The day of each name on the screen, where it is worth a card.
ReplayDays(market, symbols, date) ==
    Table([s \in Range(symbols) \ {BENCHMARK} |->
              {d \in Days(market, s, date) : d.severity \in SURFACED}])

\* What there is of each name, in the order of the names.
Known(symbols, of) ==
    Field(Kept(symbols, {s \in DOMAIN of : of[s] # {}}), LAMBDA s : CHOOSE x \in of[s] : TRUE)

ReplayItems(market, symbols, days) ==
    ByScore(Known(symbols,
                  Table([s \in DOMAIN days |-> {ReplayItem(market, s, d) : d \in days[s]}])))

ReplayMembers(market, symbols, days, date) ==
    Known(symbols, Table([s \in DOMAIN days |->
        UNION {ThemeMemberFor(market, s, i, d) :
               i \in IndexOf(SeriesOf(market, s), date), d \in days[s]}]))

\* detectThemes is not asked about fewer names than a theme needs.
ThemesAmong(members, date) ==
    IF Len(members) < MIN_THEME_MEMBERS THEN <<>> ELSE DetectThemes(members, date, date)

\* The benchmark's own session; flat where it has none, or none before it.
BenchmarkMove(bars, date) ==
    LET at == {i \in IndexOf(bars, date) : i > 1}
        Of(i) == [ret |-> bars[i].close - bars[i - 1].close, sigmas |-> SessionSigmas(bars, i)]
    IN  IF at = {} THEN [ret |-> 0, sigmas |-> 0] ELSE Of(Min(at))

\* What is asked of the context table: a theme settles the sector.
ContextQuery(date, themes, items, marketSigmas, count) ==
    LET marketWide == /\ themes = <<>>
                      /\ Abs(marketSigmas) > 10
                      /\ 2 * Len(items) > count
    IN  [date |-> date, marketWide |-> marketWide,
         sector |-> IF themes # <<>> THEN themes[1].scopeKey
                    ELSE IF marketWide \/ items = <<>> THEN "" ELSE items[1].sector]

\* What the screen shows: five cards, the story, and what else was going on.
Screen(date, items, top, themes, bench, query, count, contextEvents) ==
    [date |-> date, items |-> top, themes |-> themes, query |-> query,
     narrative |-> BuildNarrative(
        [themes |-> themes, topEventSectors |-> Field(top, LAMBDA x : x.sector),
         marketReturn |-> bench.ret, marketSigmas |-> bench.sigmas, notableCount |-> Len(items),
         breadth |-> IF count = 0 THEN 0 ELSE (100 * Len(items)) \div count]),
     context |-> MatchContext(query, contextEvents),
     marketReturn |-> bench.ret,
     quietCount |-> count - Len(items)]

\* One step of replayWindow: the days, what they add up to, and the screen.
StepWith(items, themes, bench, count, date, contextEvents) ==
    Screen(date, items, SubSeq(items, 1, Min({5, Len(items)})), themes, bench,
           ContextQuery(date, themes, items, bench.sigmas, count), count, contextEvents)
StepOn(m, symbols, days, date, contextEvents) ==
    StepWith(ReplayItems(m, symbols, days),
             ThemesAmong(ReplayMembers(m, symbols, days, date), date),
             BenchmarkMove(SeriesOf(m, BENCHMARK), date), Len(symbols), date, contextEvents)
\* The rows of the context table the window loads, in their places.
ContextOf(contextEvents, start, end) ==
    Restrict(contextEvents, {k \in DOMAIN contextEvents : contextEvents[k].date \in start..end})
ReplayStep(market, symbols, date, start, end, contextEvents) ==
    LET Over(m) == StepOn(m, symbols, ReplayDays(m, symbols, date), date,
                          ContextOf(contextEvents, start, end))
    IN  Over(Loaded(market, end))

=============================================================================
