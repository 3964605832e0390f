----------------------------- MODULE Detectors ------------------------------
(***************************************************************************)
(* engine/detectors.ts: eight predicates over a feature vector and the     *)
(* history behind it.  A detector answers the candidate event it emits, in *)
(* a set of at most one; the headline and labels are left out.             *)
(* Thresholds are in tenths (sigmas, ratios, ATRs) or percent.             *)
(***************************************************************************)
EXTENDS Features

\* The thresholds the detectors use: THRESHOLDS, or a scaled copy of it.
CONSTANT T

THRESHOLDS == [move |-> 25, rvol |-> 25, divergence |-> 20, volFraction |-> 5,
               rangeAtr |-> 5, volRatio |-> 20, earningsHours |-> 48,
               corrBaseline |-> 60, corrDrop |-> 45, quiet |-> 5, contraction |-> 6]

ASSUME ThresholdsAssumption == T \in [DOMAIN THRESHOLDS -> Nat \ {0}]

\* signal.normalized in percent: -100 to 100.  The label spells out the magnitude.
Candidate(detector, features, direction, magnitude, family, normalized) ==
    [detector |-> detector, date |-> features.date, direction |-> direction,
     magnitude |-> magnitude,
     signal |-> [key |-> detector, label |-> magnitude, family |-> family,
                 normalized |-> normalized]]

\* 1. Nothing on a first visit; the gap is cut to the history there is.
MoveSinceLastSeen(in) ==
    LET n == Min({Min(in.sessions), Len(in.bars) - 1})
    IN  IF in.sessions = {} THEN {}
        ELSE IF n < 1 THEN {}
        ELSE {Candidate("move_since_last_seen", in.features, Sign(z), Abs(z), "price", Squash(z)) :
              z \in {z \in MoveInSigmas(in.bars, n, in.features.sigma20) : Abs(z) >= T.move}}

\* 2. Unusual against its own past, or by its logarithm when that is too thin.
Log2Tenths(x) == Max({k \in 0..60 : k = 0 \/ 10 * 2^(k \div 10) <= x})
VolumeSpike(in) ==
    LET f == in.features
        Of(z) == Squash(IF z = {} THEN Log2Tenths(f.rvol) ELSE Min(z))
    IN  IF f.rvol < T.rvol THEN {}
        ELSE {Candidate("volume_spike", f, Sign(f.ret1d), f.rvol, "volume",
                        Of(RobustZ(f.rvol, RvolSample(in.bars))))}

\* 3. Unusual for the pair, and a real share of the name's own volatility.
SectorDivergence(in) ==
    LET f == in.features
        Material(reg) == Last(reg.resid) * Last(reg.resid) * f.sigma20.den
                         >= T.volFraction * T.volFraction * f.sigma20.num
    IN  UNION {{Candidate("sector_divergence", f, Sign(z), Abs(z), "relative", Squash(z)) :
                z \in {z \in ResidualSigmas(reg) : Abs(z) >= T.divergence /\ Material(reg)}} :
               reg \in f.sector}

\* 4. Outside the longer range if it is, else the shorter, by a margin in ATRs.
RangeBreak(in) ==
    LET f == in.features
        \* level + (T.rangeAtr / 10) * atr, multiplied out
        Beyond(distance) == 10 * distance * f.atr14.den > T.rangeAtr * f.atr14.num
        Atrs(distance) == (10 * distance * f.atr14.den) \div f.atr14.num
        Broke(hi, lo) == IF Beyond(f.close - hi) THEN f.close - hi
                         ELSE IF Beyond(lo - f.close) THEN f.close - lo ELSE 0
        d == IF Broke(f.high60, f.low60) # 0 THEN Broke(f.high60, f.low60)
             ELSE Broke(f.high20, f.low20)
        atrs == Sign(d) * Atrs(Abs(d))
    IN  IF f.atr14.num = 0 THEN {}
        ELSE IF d = 0 THEN {}
        ELSE {Candidate("range_break", f, Sign(d), Abs(atrs), "price", Squash(atrs))}

\* 5. Fast volatility a multiple of slow.
VolRegimeShift(in) ==
    LET f == in.features
        ratio == VolRatio(f.rv10, f.rv60)
    IN  IF f.rv60.num = 0 THEN {}
        ELSE IF ratio < T.volRatio THEN {}
        ELSE {Candidate("vol_regime_shift", f, 0, ratio, "volatility", Squash(2 * (ratio - 10)))}

\* Half hours from 16:00 on the as-of date to the report.
HalfHoursUntil(asOf, report) ==
    48 * (report.date - asOf) + (IF report.session = "bmo" THEN -5 ELSE 10)

\* 6. A report in the next two days; the nearer, the stronger.
EarningsUpcoming(in) ==
    {Candidate("earnings_upcoming", in.features, 0, p, "event", Max({35, p})) :
       p \in {100 - (100 * h) \div (2 * T.earningsHours) :
              h \in {HalfHoursUntil(in.asOf, r) : r \in in.nextEarnings}
                     \cap 0..(2 * T.earningsHours)}}

\* 7. There was a relationship, and most of it is gone.
CorrelationBreak(in) ==
    LET f == in.features
    IN  UNION {{Candidate("correlation_break", f, 0, long - short, "relative",
                          Clamp((2 * (long - short)) \div 3, 0, 100)) :
                short \in {c \in f.corrSectorShort : long - c >= T.corrDrop}} :
               long \in {c \in f.corrSectorLong : c >= T.corrBaseline}}

\* 8. Among its own quietest days, and quieter than it was.
QuietRegime(in) ==
    LET f == in.features
    IN  IF f.rv60.num = 0 THEN {}
        ELSE IF VolRatio(f.rv10, f.rv60) > T.contraction THEN {}
        ELSE {Candidate("quiet_regime", f, 0, 100 - p, "volatility",
                        Clamp((100 * (T.quiet - p)) \div T.quiet, 0, 100)) :
              p \in {p \in f.rv10Pct : p <= T.quiet}}

\* Everything that fired, in the order of DETECTORS.
Fired(answers) == Field(Ascending({k \in DOMAIN answers : answers[k] # {}}),
                        LAMBDA k : CHOOSE c \in answers[k] : TRUE)
RunDetectors(in) ==
    Fired(<<MoveSinceLastSeen(in), VolumeSpike(in), SectorDivergence(in), RangeBreak(in),
            VolRegimeShift(in), EarningsUpcoming(in), CorrelationBreak(in), QuietRegime(in)>>)

=============================================================================
