------------------------------ MODULE Features ------------------------------
(***************************************************************************)
(* engine/math.ts and engine/features.ts: the feature vector of the last   *)
(* bar of a history.  Prices are integers on a logarithmic grid, so a log  *)
(* return is a difference; a quotient is kept as a fraction of integers,   *)
(* and a number that is only ever compared with a threshold is rounded     *)
(* down to a tenth or a percent.  What the code may return as null is a    *)
(* set of at most one element.                                             *)
(***************************************************************************)
EXTENDS Integers, SequencesExt

\* The window lengths of features.ts, by name: 60 bars of history, 20
\* sessions of volatility, 90 of regression and so on.
CONSTANT W

WindowNames == {"history", "sigma", "fast", "slow", "atr", "short", "long",
                "beta", "pairs", "corrShort", "corrLong", "quiet", "horizon",
                "quietSample", "sample", "feature"}

\* A history has a bar before its last.
ASSUME WindowsAssumption == W \in [WindowNames -> Nat \ {0}] /\ W["history"] > 1

Abs(x) == IF x < 0 THEN -x ELSE x
Sign(x) == IF x > 0 THEN 1 ELSE IF x < 0 THEN -1 ELSE 0
Clamp(x, lo, hi) == Max({lo, Min({x, hi})})

\* n steps from a number: the k-th takes r to step[k][r].
Iterated(step, from, n) ==
    LET at[k \in Nat] == IF k = 0 THEN from ELSE step[k][at[k - 1]]
    IN  at[n]
Total(xs) == Iterated([k \in DOMAIN xs |-> [sum \in Int |-> sum + xs[k]]], 0, Len(xs))

\* The same function, written out: comparing it makes TLC evaluate each of its values,
\* once.
Table(f) == CHOOSE g \in {f} : g = f
Field(s, Of(_)) == Table([i \in DOMAIN s |-> Of(s[i])])

\* One record and what another has beyond it.
With(r, s) == Table([k \in DOMAIN r \cup DOMAIN s |-> IF k \in DOMAIN r THEN r[k] ELSE s[k]])

\* A set of integers in ascending order: the k-th has k - 1 below it.
Ascending(S) ==
    Table([k \in 1..Cardinality(S) |-> CHOOSE x \in S : Cardinality({y \in S : y < x}) = k - 1])

\* What a sequence has of a set, in its own order.
Kept(s, S) == Field(Ascending({k \in DOMAIN s : s[k] \in S}), LAMBDA k : s[k])

\* A set in the order given.
Ordered(S, Before(_, _)) == SortSeq(FoldSet(LAMBDA x, s : Append(s, x), <<>>, S), Before)

\* The last n elements.
Window(s, n) == SubSeq(s, Max({1, Len(s) - n + 1}), Len(s))

\* n^2 times the covariance of two series of length n.
Cross(xs, ys) == Len(xs) * Total([i \in DOMAIN xs |-> xs[i] * ys[i]])
                 - Total(xs) * Total(ys)

\* The integer root, bit by bit.
BITS == <<16384, 8192, 4096, 2048, 1024, 512, 256, 128, 64, 32, 16, 8, 4, 2, 1>>
Root(n) ==
    Iterated([k \in DOMAIN BITS |-> [r \in Int |->
                 IF (r + BITS[k]) * (r + BITS[k]) <= n THEN r + BITS[k] ELSE r]], 0, Len(BITS))

\* Ten times the root of a non-negative fraction, rounded down.
RootTenths(num, den) == Root((100 * num) \div den)

\* Twice the median, so that it stays an integer.
Middle2(s, h) == IF Len(s) % 2 = 1 THEN 2 * s[h + 1] ELSE s[h] + s[h + 1]
Median2(xs) == Middle2(SortSeq(xs, LAMBDA a, b : a < b), Len(xs) \div 2)

\* (x - median) / MAD in tenths; nothing when there is no sample or it is flat.
RobustZ(x, xs) ==
    IF xs = <<>> THEN {}
    ELSE UNION {{Sign(2 * x - m2) * ((200000 * Abs(2 * x - m2)) \div (14826 * mad4)) :
                 mad4 \in {Median2([i \in DOMAIN xs |-> Abs(2 * xs[i] - m2)])} \ {0}} :
                m2 \in {Median2(xs)}}

\* tanh(z / 4) in percent, z in tenths: a table at every half sigma.
TanhQuarter == <<0, 12, 24, 36, 46, 56, 64, 70, 76, 81, 85, 88, 91, 93, 94, 95, 96, 98>>
Squash(z) == Sign(z) * TanhQuarter[Min({Abs(z) \div 5, 17}) + 1]

LogReturns(p) == Table([i \in 1..(Len(p) - 1) |-> p[i + 1] - p[i]])

\* The square of stdev, as a fraction.
Variance(xs) ==
    IF Len(xs) < 2 THEN {}
    ELSE {[num |-> Cross(xs, xs), den |-> Len(xs) * (Len(xs) - 1)]}

RealisedVol(p, n) ==
    IF Len(p) < n + 1 THEN {} ELSE Variance(LogReturns(Window(p, n + 1)))

\* One volatility over another, in tenths.
VolRatio(a, b) == RootTenths(a.num * b.den, a.den * b.num)

\* Ordinary least squares of y on x; the residuals are in tenths, towards zero.
InTenths(r, of) == Sign(r) * ((10 * Abs(r)) \div of)
Linreg(y, x) ==
    IF Len(y) < W["pairs"] THEN {}
    ELSE {[beta  |-> [num |-> sxy, den |-> sxx],
           resid |-> Table([i \in DOMAIN y |->
               InTenths(sxx * (Len(y) * y[i] - Total(y)) - sxy * (Len(x) * x[i] - Total(x)),
                        Len(y) * sxx)])] :
          sxx \in {Cross(x, x)} \ {0}, sxy \in {Cross(x, y)}}

\* The last residual in tenths of the residuals' own standard deviation.
ResidualSigmas(reg) ==
    LET squares == Total([i \in DOMAIN reg.resid |-> reg.resid[i] * reg.resid[i]])
    IN  IF squares = 0 THEN {}
        ELSE {Sign(Last(reg.resid)) *
              RootTenths(Last(reg.resid) * Last(reg.resid) * (Len(reg.resid) - 1), squares)}

\* Pearson's coefficient in percent: the geometric mean of the slopes.
Slope(sxy, sxx) == (1000 * Abs(sxy)) \div sxx
Pearson(x, y) ==
    {Sign(sxy) * (Root(Slope(sxy, sxx) * Slope(sxy, syy)) \div 10) :
     sxy \in {Cross(x, y)}, sxx \in {Cross(x, x)} \ {0}, syy \in {Cross(y, y)} \ {0}}
Correlation(a, b) ==
    LET n == Min({Len(a), Len(b)})
    IN  IF n < 2 THEN {} ELSE Pearson(Window(a, n), Window(b, n))

\* Mean true range of the last "atr" bars.
Atr(bars) ==
    LET Tr(i) == Max({bars[i].high - bars[i].low, Abs(bars[i].high - bars[i - 1].close),
                      Abs(bars[i].low - bars[i - 1].close)})
        last  == (Len(bars) - W["atr"] + 1)..Len(bars)
    IN  IF Len(bars) < W["atr"] + 1 THEN {}
        ELSE {[num |-> SumFunction([i \in last |-> Tr(i)]), den |-> W["atr"]]}

\* A proxy is a function from the dates it has a bar for to its closes.
\* The bars of the instrument on those dates: the series are intersected by date.
Paired(bars, proxy) == Kept(bars, {b \in Range(bars) : b.date \in DOMAIN proxy})
OwnCloses(bars) == Field(bars, LAMBDA b : b.close)
\* Defect: the proxy's last closes, whatever their dates.
LastProxyCloses(bars, proxy) ==
    Field(Window(Ordered(DOMAIN proxy, LAMBDA a, b : a < b), Len(bars)), LAMBDA d : proxy[d])
ProxyCloses(bars, proxy) == Field(bars, LAMBDA b : proxy[b.date])

RegressAgainst(bars, proxy) ==
    LET paired == Paired(bars, proxy)
        take   == Window(paired, Min({W["beta"] + 1, Len(paired)}))
    IN  IF \/ Cardinality(DOMAIN proxy) < W["pairs"]
           \/ Len(paired) < W["pairs"] + 1
        THEN {}
        ELSE IF Last(paired).date # Last(bars).date THEN {}
        ELSE Linreg(LogReturns(OwnCloses(take)), LogReturns(ProxyCloses(take, proxy)))

CorrelationAgainst(bars, proxy, n) ==
    LET paired == Paired(bars, proxy)
        take   == Window(paired, n + 1)
    IN  IF Cardinality(DOMAIN proxy) < W["pairs"] \/ Len(paired) < n + 1 THEN {}
        ELSE Correlation(LogReturns(OwnCloses(take)), LogReturns(ProxyCloses(take, proxy)))

\* Where today's fast volatility stands among those of the trailing year, in percent.
RankRv10(closes, today) ==
    LET days   == Max({W["fast"] + 1, Len(closes) - W["quiet"]})..(Len(closes) - 1)
        Past(i) == RealisedVol(SubSeq(closes, 1, i + 1), W["fast"])
        counted == {i \in days : Past(i) # {}}
        below   == {i \in counted : \E v \in Past(i) :
                       v.num * today.den <= today.num * v.den}
    IN  IF Len(closes) < W["quietSample"] \/ Cardinality(counted) < W["quietSample"]
        THEN {}
        ELSE {(100 * Cardinality(below)) \div Cardinality(counted)}

Median20(bars) == Median2(Field(Window(bars, W["short"]), LAMBDA b : b.volume))

\* Today's volume over the median, in tenths; neutral when the name did not trade.
Rvol(bars) ==
    IF Median20(bars) > 0 THEN (20 * Last(bars).volume) \div Median20(bars) ELSE 10

\* The past values of the same measure, each against the window before it.
RvolSample(bars) ==
    LET days == Max({W["short"], Len(bars) - W["sample"]})..(Len(bars) - 1)
        Med(i) == Median2(Field(SubSeq(bars, i - W["short"] + 1, i), LAMBDA b : b.volume))
        ok   == {i \in days : Med(i) > 0}
    IN  Field(Ordered(ok, LAMBDA i, j : i < j),
              LAMBDA i : (20 * bars[i + 1].volume) \div Med(i))

\* The extremes of the n sessions before today.
Highest(bars, n) == Max(Range(Field(Window(Front(bars), n), LAMBDA b : b.high)))
Lowest(bars, n) == Min(Range(Field(Window(Front(bars), n), LAMBDA b : b.low)))

\* Return over n sessions in tenths of the move expected over n sessions.
MoveInSigmas(bars, n, sigma) ==
    LET r == Last(bars).close - bars[Len(bars) - n].close
    IN  IF n < 1 \/ Len(bars) < n + 1 THEN {}
        ELSE IF sigma.num = 0 THEN {}
        ELSE {Sign(r) * RootTenths(r * r * sigma.den, sigma.num * n)}

\* The vector of the last bar, or nothing when the history is too short.
FeatureVector(bars, closes, used, benchmark, sector, sigma, atr) ==
    LET Vol(n) == LET v == RealisedVol(closes, n)
                  IN  IF v = {} THEN sigma ELSE CHOOSE x \in v : TRUE
    IN  [date |-> Last(bars).date,
         close |-> Last(bars).close,
         ret1d |-> Last(bars).close - bars[Len(bars) - 1].close,
         sigma20 |-> sigma, rv10 |-> Vol(W["fast"]), rv60 |-> Vol(W["slow"]),
         atr14 |-> atr,
         high20 |-> Highest(bars, W["short"]), low20 |-> Lowest(bars, W["short"]),
         high60 |-> Highest(bars, W["long"]), low60 |-> Lowest(bars, W["long"]),
         rvol |-> Rvol(bars),
         market |-> RegressAgainst(bars, benchmark),
         sector |-> RegressAgainst(bars, sector),
         corrSectorShort |-> CorrelationAgainst(bars, sector, W["corrShort"]),
         corrSectorLong |-> CorrelationAgainst(bars, sector, W["corrLong"]),
         rv10Pct |-> UNION {RankRv10(closes, v) : v \in RealisedVol(closes, W["fast"])},
         confidence |-> Min(Range(Field(used, LAMBDA b : b.confidence))),
         confirmed |-> \A b \in Range(used) : b.confirmed]
ComputeFeatures(bars, benchmark, sector) ==
    IF Len(bars) < W["history"] THEN {}
    ELSE {FeatureVector(bars, OwnCloses(bars), Window(bars, W["beta"]), benchmark, sector, s, a) :
          s \in RealisedVol(OwnCloses(bars), W["sigma"]), a \in Atr(bars)}

=============================================================================
