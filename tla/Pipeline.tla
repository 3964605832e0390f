------------------------------ MODULE Pipeline ------------------------------
(***************************************************************************)
(* lib/pipeline.ts, engine/followthrough.ts and the analysis half of       *)
(* lib/compute.ts: bars in, scored days out, and the record kept of how    *)
(* often a warning preceded a move.  Dates are numbers; a history is a     *)
(* sequence of bars in ascending order of date, a proxy a function from    *)
(* dates to closes.                                                        *)
(***************************************************************************)
EXTENDS Detectors, Scoring

DefaultScoringContext ==
    [priority |-> "NORMAL", intent |-> "NONE", confidence |-> 100, confirmed |-> TRUE,
     age |-> 0, catalyst |-> FALSE, idiosyncratic |-> FALSE, macro |-> FALSE]

\* Defect: the window ends on the bar after.
WindowEndingAfter(bars, i, size) == SubSeq(bars, Max({1, i - size + 2}), Min({i + 1, Len(bars)}))
WindowEndingAt(bars, i, size) == SubSeq(bars, Max({1, i - size + 1}), i)

\* The last "size" entries of a proxy that are not after the date.
ProxyWindow(proxy, date, size) ==
    LET until == {d \in DOMAIN proxy : d <= date}
    IN  Table(Restrict(proxy, {d \in until : Cardinality({e \in until : e > d}) < size}))

\* The first known report on or after the date.
NextEarnings(reports, date) ==
    LET ahead == {k \in DOMAIN reports : reports[k].date >= date}
    IN  IF ahead = {} THEN {} ELSE {reports[Min(ahead)]}

DayContext(f, candidates) ==
    [DefaultScoringContext EXCEPT
        !.confidence = f.confidence, !.confirmed = f.confirmed,
        !.catalyst = \E c \in Range(candidates) : c.detector = "earnings_upcoming",
        !.idiosyncratic = \E reg \in f.market : \E z \in ResidualSigmas(reg) : Abs(z) > 15]

ScoredEvents(candidates, ctx) == Field(candidates, LAMBDA c : ScoreEvent(c, ctx))

\* What one session yields: nothing when the history is short or nothing fired.
ScoredDay(f, fired, ctx) ==
    {[date |-> f.date, score |-> score.score, severity |-> score.severity,
      confirmed |-> f.confirmed, events |-> ScoredEvents(fired, ctx)] :
     score \in {ScoreInstrumentDay(fired, ctx)}}
AnalysedDay(bars, date, benchmark, sector, nextEarnings, sessions) ==
    UNION {UNION {ScoredDay(f, fired, DayContext(f, fired)) :
                  fired \in {RunDetectors([features |-> f, bars |-> bars, sessions |-> sessions,
                                           nextEarnings |-> nextEarnings, asOf |-> date])}
                            \ {<<>>}} :
           f \in ComputeFeatures(bars, benchmark, sector)}
RunDay(input, i, sessions) ==
    LET date == input.bars[i].date
        Proxy(p) == ProxyWindow(p, date, W["feature"])
    IN  AnalysedDay(WindowEndingAt(input.bars, i, W["feature"]), date, Proxy(input.benchmark),
                    Proxy(input.sector), NextEarnings(input.earnings, date), sessions)

RunPipeline(input, from, to, sessions) ==
    UNION {RunDay(input, i, sessions) :
           i \in {i \in W["history"]..Len(input.bars) : input.bars[i].date \in from..to}}

\* followThroughRate for one event: was there a future to judge it by, and did it move?
FollowSigma2(bars, i) ==
    Variance(LogReturns(OwnCloses(SubSeq(bars, Max({1, i - W["sigma"]}), i))))
Checked(bars, i) ==
    /\ i + W["horizon"] <= Len(bars)
    /\ \E v \in FollowSigma2(bars, i) : v.num > 0
Followed(bars, i) ==
    LET forward == bars[i + W["horizon"]].close - bars[i].close
    IN  /\ Checked(bars, i)
        /\ \E v \in FollowSigma2(bars, i) : 4 * forward * forward * v.den >= 9 * v.num * W["horizon"]
FollowThroughRate(bars, dates) ==
    LET at == {i \in DOMAIN bars : bars[i].date \in dates}
    IN  [checked  |-> Cardinality({i \in at : Checked(bars, i)}),
         followed |-> Cardinality({i \in at : Followed(bars, i)})]

PERSISTED_DAYS == {"CRITICAL", "IMPORTANT", "WATCH", "INFO"}
SURFACED == {"CRITICAL", "IMPORTANT", "WATCH"}

\* What computeAndPersist adds to the track record of a detector for one instrument.
Scorecard(days, bars, detector) ==
    LET fired    == {d \in days : \E e \in Range(d.events) : e.detector = detector}
        surfaced == {d \in fired : d.severity \in SURFACED}
        rate     == FollowThroughRate(bars, {d.date : d \in surfaced})
        base     == FollowThroughRate(bars, {b.date : b \in Range(bars)})
    IN  [fired |-> Cardinality(fired), surfaced |-> Cardinality(surfaced),
         checked |-> rate.checked, followed |-> rate.followed,
         baseChecked  |-> IF surfaced = {} THEN 0 ELSE base.checked,
         baseFollowed |-> IF surfaced = {} THEN 0 ELSE base.followed]

\* The rows of the event table: every event of a day worth keeping.
EventRow(symbol, e) ==
    With([symbol |-> symbol, fingerprint |-> FingerprintOf(symbol, e, e.date), theme |-> ""], e)
EventRows(symbol, days) ==
    UNION {{EventRow(symbol, e) : e \in Range(d.events)} :
           d \in {d \in days : d.severity \in PERSISTED_DAYS}}

\* The values of a function of sessions, in their order.
InTurn(f) == Field(Ascending(DOMAIN f), LAMBDA k : f[k])

\* regressWindow: compute's own regression on the benchmark at session i.
RegressSessions(self, proxy) ==
    LET Of(y, x) == {[residuals |-> reg.resid,
                      \* in hundredths of a tick
                      explained |-> (100 * reg.beta.num * Last(x)) \div reg.beta.den] :
                     reg \in Linreg(y, x)}
    IN  Of(InTurn(self), InTurn(proxy))
RegressWindow(bars, benchmark, i) ==
    LET both == {k \in Max({2, i - W["beta"]})..i :
                    {bars[k].date, bars[k - 1].date} \subseteq DOMAIN benchmark}
    IN  RegressSessions([k \in both |-> bars[k].close - bars[k - 1].close],
                        [k \in both |-> benchmark[bars[k].date] - benchmark[bars[k - 1].date]])

\* A session's return in tenths of the name's own volatility; nothing is zero.
LastInSigmas(rets) ==
    LET r == Last(rets)
    IN  MapThenSumSet(LAMBDA v : Sign(r) * RootTenths(r * r * v.den, v.num),
                      {v \in Variance(rets) : v.num > 0})
SessionSigmas(bars, i) ==
    IF i < W["sigma"] + 2 THEN 0
    ELSE LastInSigmas(LogReturns(OwnCloses(SubSeq(bars, Max({1, i - W["sigma"]}), i))))

\* The theme members of one day: entries are [symbol, sector, bars, day].
Member(e, i, reg) ==
    [symbol |-> e.symbol, sector |-> e.sector, day |-> e.day.date, score |-> e.day.score,
     direction |-> IF e.bars[i].close < e.bars[i - 1].close THEN -1 ELSE 1,
     ret |-> 100 * (e.bars[i].close - e.bars[i - 1].close),
     residuals |-> reg.residuals, explained |-> reg.explained,
     moveSigmas |-> SessionSigmas(e.bars, i)]
ThemeMembers(entries, benchmark) ==
    LET At(e) == {i \in W["beta"] + 2..Len(e.bars) : e.bars[i].date = e.day.date}
    IN  UNION {UNION {{Member(e, i, reg) : reg \in RegressWindow(e.bars, benchmark, i)} :
                      i \in At(e)} :
               e \in {e \in entries : e.day.severity \in SURFACED}}

=============================================================================
