------------------------------ MODULE Scoring -------------------------------
(***************************************************************************)
(* engine/scorer.ts: signals and their context to a score, a severity and  *)
(* the contributions that explain it.  A signal is [family, normalized],   *)
(* normalized in percent; weights, tilts and multipliers are percents, as  *)
(* in the code; a score is in thousandths of a point, rounded down at each *)
(* multiplication.                                                         *)
(***************************************************************************)
EXTENDS Integers, SequencesExt

Families == {"event", "relative", "price", "volume", "volatility"}

FAMILY_WEIGHTS == [event |-> 28, relative |-> 24, price |-> 22, volume |-> 14, volatility |-> 12]

INTENT_TILT ==
    [CONSIDERING_BUY |-> [price |-> 125, relative |-> 115, volatility |-> 90],
     HOLDING |-> [event |-> 120, volatility |-> 120, relative |-> 110],
     THEMATIC |-> [relative |-> 130, event |-> 110, volume |-> 90],
     HEDGE |-> [volatility |-> 130, price |-> 110],
     NONE |-> << >>]
Intents == DOMAIN INTENT_TILT
Tilt(intent, family) ==
    IF family \in DOMAIN INTENT_TILT[intent] THEN INTENT_TILT[intent][family] ELSE 100

PRIORITY_MULTIPLIER == [HIGH |-> 130, NORMAL |-> 100, LOW |-> 70]

\* 2^(-age / halfLife) in percent for each age in trading days, down to the floor of 35.
HALF_LIFE_DAYS == [move_since_last_seen |-> 2, volume_spike |-> 2, sector_divergence |-> 3,
                   range_break |-> 4, vol_regime_shift |-> 10]
DecayCurve == (2 :> <<71, 50>>) @@ (3 :> <<79, 63, 50, 40>>) @@ (4 :> <<84, 71, 59, 50, 42>>)
              @@ (10 :> <<93, 87, 81, 76, 71, 66, 62, 57, 54, 50, 47, 44, 41, 38>>)
RecencyDecay(detector, age) ==
    LET halfLife == IF detector \in DOMAIN HALF_LIFE_DAYS THEN HALF_LIFE_DAYS[detector] ELSE 3
        curve    == DecayCurve[halfLife]
    IN  IF age <= 0 \/ detector = "earnings_upcoming" THEN 100
        ELSE IF age <= Len(curve) THEN curve[age] ELSE 35

Severities == <<"NOISE", "INFO", "WATCH", "IMPORTANT", "CRITICAL">>
Rank(severity) == CHOOSE i \in 1..5 : Severities[i] = severity
AtLeast(current, floor) == Severities[Max({Rank(current), Rank(floor)})]
AtMost(current, cap) == Severities[Min({Rank(current), Rank(cap)})]

SEVERITY_BANDS == <<25000, 40000, 64000, 82000>>
SeverityFor(score) == Severities[1 + Cardinality({i \in 1..4 : score >= SEVERITY_BANDS[i]})]

Magnitude(s) == IF s.normalized < 0 THEN -s.normalized ELSE s.normalized

\* The first of the signals of a family that no other one of it exceeds.
Strongest(signals, family) ==
    signals[Min({i \in DOMAIN signals :
        /\ signals[i].family = family
        /\ \A j \in DOMAIN signals : signals[j].family = family
             => Magnitude(signals[j]) <= Magnitude(signals[i])})]

Present(signals) == {s.family : s \in Range(signals)}

Weight(family, intent) == FAMILY_WEIGHTS[family] * Tilt(intent, family)

\* Defect: the weight that is missing counts.
MissingFactor(present) ==
    LET missing == MapThenSumSet(LAMBDA f : FAMILY_WEIGHTS[f], Families \ present)
    IN  Max({k \in 1..100 : k = 1 \/ (2 * k - 1)^4 <= 16000000 * missing})
\* round2(coverage ^ 0.25) in percent: the nearest k with (k / 100)^4 = coverage.
CoverageFactor(present) ==
    LET covered == MapThenSumSet(LAMBDA f : FAMILY_WEIGHTS[f], present)
    IN  Max({k \in 1..100 : (2 * k - 1)^4 <= 16000000 * covered})

\* The points of each family present, in thousandths.
Points(signals, intent) ==
    LET sum == MapThenSumSet(LAMBDA f : Weight(f, intent), Present(signals))
    IN  [f \in Present(signals) |->
            (Magnitude(Strongest(signals, f)) * Weight(f, intent) * 1000) \div sum]

\* Rounded to two digits: the confidence is a percent, and half of it may not be.
DataMultiplier(confidence) == 50 + (confidence + 1) \div 2

\* The multipliers in the order they are applied; one of 100 is not recorded.
Multipliers(signals, ctx, detector) ==
    SelectSeq(<<[key |-> "corroboration", amount |-> CoverageFactor(Present(signals))],
                [key |-> "catalyst", amount |-> IF ctx.catalyst THEN 115 ELSE 100],
                [key |-> "idiosyncratic", amount |-> IF ctx.idiosyncratic THEN 110 ELSE 100],
                [key |-> "macro_day", amount |-> IF ctx.macro THEN 90 ELSE 100],
                [key |-> "data_quality", amount |-> DataMultiplier(ctx.confidence)],
                [key |-> "unconfirmed", amount |-> IF ctx.confirmed THEN 100 ELSE 85],
                [key |-> "recency", amount |-> RecencyDecay(detector, ctx.age)],
                [key |-> "priority", amount |-> PRIORITY_MULTIPLIER[ctx.priority]]>>,
              LAMBDA m : m.amount # 100)

\* The rules applied after the arithmetic, the floor before the two caps.
HardRules(severity, ctx, detector) ==
    LET floored == IF detector = "earnings_upcoming" /\ ctx.age <= 0
                   THEN AtLeast(severity, "WATCH") ELSE severity
        agreed  == IF ctx.confirmed THEN floored ELSE AtMost(floored, "IMPORTANT")
    IN  IF ctx.confidence < 60 THEN AtMost(agreed, "WATCH") ELSE agreed

Multiplied(points, factors) ==
    Min({100000, FoldLeft(LAMBDA acc, m : (acc * m.amount) \div 100, SumFunction(points), factors)})
Scored(score, points, factors, ctx, detector) ==
    [score |-> score, severity |-> HardRules(SeverityFor(score), ctx, detector),
     points |-> points, multipliers |-> factors]
ScoreSignals(signals, ctx, detector) ==
    LET Of(points, factors) ==
            Scored(Multiplied(points, factors), points, factors, ctx, detector)
    IN  IF signals = <<>>
        THEN [score |-> 0, severity |-> "NOISE", points |-> << >>, multipliers |-> << >>]
        ELSE Of(Points(signals, ctx.intent), Multipliers(signals, ctx, detector))

\* The score a card shows: whole points, rounded.
WholePoints(score) == Max({p \in 0..100 : p = 0 \/ 1000 * p <= score + 500})

SignalsOf(events) == [i \in DOMAIN events |-> events[i].signal]

ScoreEvent(candidate, ctx) ==
    LET Of(scored) ==
            [detector |-> candidate.detector, date |-> candidate.date,
             direction |-> candidate.direction, magnitude |-> candidate.magnitude,
             signal |-> candidate.signal, confidence |-> ctx.confidence,
             confirmed |-> ctx.confirmed, score |-> scored.score, severity |-> scored.severity,
             points |-> scored.points, multipliers |-> scored.multipliers]
    IN  Of(ScoreSignals(<<candidate.signal>>, ctx, candidate.detector))

\* The union of the day's signals, and at least what any one event deserves.
ScoreInstrumentDay(candidates, ctx) ==
    LET day == ScoreSignals(SignalsOf(candidates), ctx, "none")
    IN  [day EXCEPT !.severity = Severities[Max(
            {Rank(@)} \cup {Rank(ScoreEvent(c, ctx).severity) : c \in Range(candidates)})]]

\* What is shown as a reason, and what is shown as holding the score back.
ExplainContributions(result) ==
    LET Above(m) == m.amount >= 100
        Below(m) == m.amount < 100
    IN  [positives   |-> [points |-> result.points,
                          multipliers |-> SelectSeq(result.multipliers, Above)],
         suppressors |-> SelectSeq(result.multipliers, Below)]

\* The first reason of the panel: amounts are shown in tenths of a point, and among
\* equals the family whose first signal came first wins.
InTenthsOfAPoint(points) == [f \in DOMAIN points |-> (points[f] + 50) \div 100]
TopFamily(signals, shown) ==
    LET First(f) == Min({i \in DOMAIN signals : signals[i].family = f})
        most == {f \in DOMAIN shown : \A g \in DOMAIN shown : shown[g] <= shown[f]}
    IN  CHOOSE f \in most : \A g \in most : First(f) <= First(g)
TopReason(signals, intent) ==
    Strongest(signals, TopFamily(signals, InTenthsOfAPoint(Points(signals, intent))))

\* The headline: the highest scored of the events that own the first reason, the
\* first loaded among equals.
LeadOf(events, top) ==
    LET owners == {i \in DOMAIN events : /\ events[i].signal.key = top.key
                                         /\ events[i].signal.label = top.label}
    IN  events[Min({i \in owners : \A j \in owners : events[j].score <= events[i].score})]
Lead(events, intent) == LeadOf(events, TopReason(SignalsOf(events), intent))

\* fingerprintOf: the magnitude counts in halves of its unit (here in tenths).
MagnitudeBucket(magnitude) == (magnitude * 2 + 5) \div 10
FingerprintOf(symbol, c, day) ==
    <<symbol, c.detector, c.direction, day, MagnitudeBucket(c.magnitude)>>

=============================================================================
