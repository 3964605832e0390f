------------------------------- MODULE Story --------------------------------
(***************************************************************************)
(* engine/narrative.ts, engine/context.ts and engine/position.ts: what the *)
(* brief says about a day, about the world on that day, and about one's    *)
(* own position.  Text is reduced to which sentence is chosen; sigmas are  *)
(* in tenths, shares and confidences in percent, dates are day numbers.    *)
(***************************************************************************)
EXTENDS Integers, SequencesExt

Sgn(x) == IF x > 0 THEN 1 ELSE IF x < 0 THEN -1 ELSE 0
Mag(x) == IF x < 0 THEN -x ELSE x

BROAD_MARKET_SIGMAS == 15
CALM_MARKET_SIGMAS == 5
BROAD_BREADTH == 60

TopFive(i) == SubSeq(i.topEventSectors, 1, Min({5, Len(i.topEventSectors)}))
Calm(i) == Mag(i.marketSigmas) < CALM_MARKET_SIGMAS

\* Each rule's condition, in the order of RULES.
QuietRule(i) == i.notableCount = 0
RotationRule(i) == {-1, 1} \subseteq {t.direction : t \in Range(i.themes)}
SectorSpecificRule(i) ==
    /\ i.themes # <<>>
    /\ Len(SelectSeq(TopFive(i), LAMBDA s : s = i.themes[1].scopeKey)) >= 3
    /\ Calm(i)
ThemeLedMarketRule(i) ==
    /\ i.themes # <<>>
    /\ ~Calm(i)
    /\ Sgn(i.marketReturn) = i.themes[1].direction
BroadMarketRule(i) ==
    /\ i.breadth >= BROAD_BREADTH
    /\ Mag(i.marketSigmas) >= BROAD_MARKET_SIGMAS
SingleThemeRule(i) == i.themes # <<>>
IsolatedRule(i) == i.notableCount = 1

\* The first rule that applies; the last always does.
BuildNarrative(i) ==
    LET RULES == << <<QuietRule(i), "quiet">>, <<RotationRule(i), "sector_rotation">>,
                    <<SectorSpecificRule(i), "sector_specific">>,
                    <<ThemeLedMarketRule(i), "theme_led_market">>,
                    <<BroadMarketRule(i), "broad_market">>,
                    <<SingleThemeRule(i), "single_theme">>,
                    <<IsolatedRule(i), "isolated">>, <<TRUE, "scattered">> >>
    IN  RULES[Min({k \in DOMAIN RULES : RULES[k][1]})][2]

\* The clauses of the one-line summary of an absence; none is no summary.
AbsenceSummary(f) ==
    LET largest == IF f.bigMovers > 0 THEN {"big_movers"}
                   ELSE IF f.largestMoveSymbol # "" /\ Mag(f.largestMovePct) >= 5
                   THEN {"largest_move"} ELSE {}
        counts  == (IF f.themesFormed > 0 THEN {"themes"} ELSE {})
                   \cup (IF f.earningsReported > 0 THEN {"earnings"} ELSE {})
                   \cup (IF f.roundTrips > 0 THEN {"round_trips"} ELSE {})
    IN  IF f.sessions <= 0 THEN {} ELSE largest \cup counts

-----------------------------------------------------------------------------
MAX_DISTANCE_DAYS == 5
MIN_CONTEXT_CONFIDENCE == 45
IMPORTANCE_WEIGHT == [HIGH |-> 100, MEDIUM |-> 88, LOW |-> 79]

\* An episode has an end; a single day has "end" 0.
Distance(query, event) ==
    LET ends == {event.date} \cup ({event.end} \ {0})
    IN  IF event.end # 0 /\ query.date \in event.date..event.end THEN 0
        ELSE Min({Mag(query.date - d) : d \in ends})
ProximityScore(query, event) ==
    LET d == Distance(query, event)
    IN  IF d > MAX_DISTANCE_DAYS THEN 0 ELSE 100 - (100 * d) \div (MAX_DISTANCE_DAYS + 1)

ScopeScore(query, event) ==
    IF query.marketWide THEN IF event.scope \in {"GLOBAL", "US"} THEN 100 ELSE 30
    ELSE IF event.scope = "COMPANY" THEN 100
    ELSE IF event.scope = "SECTOR" THEN 80 ELSE 25

SectorScore(query, event) ==
    IF event.sectors = {} THEN IF query.marketWide THEN 100 ELSE 50
    ELSE IF query.sector = "" THEN 40
    ELSE IF query.sector \in event.sectors THEN 100 ELSE 10

\* Defect: the factors are averaged.
ContextConfidenceMean(query, event) ==
    (ProximityScore(query, event) + ScopeScore(query, event) + SectorScore(query, event)
       + IMPORTANCE_WEIGHT[event.importance]) \div 4
\* Every factor multiplies: one near zero kills the match.
ContextConfidence(query, event) ==
    LET Times(a, b) == (a * b) \div 100
    IN  Times(Times(Times(ProximityScore(query, event), ScopeScore(query, event)),
                    SectorScore(query, event)), IMPORTANCE_WEIGHT[event.importance])

Band(confidence) == IF confidence >= 75 THEN "HIGH" ELSE IF confidence >= 55 THEN "MEDIUM" ELSE "LOW"

\* The most confident candidate, the earlier one among equals, or none.
MatchContext(query, candidates) ==
    LET Conf(k) == ContextConfidence(query, candidates[k])
        scored == {k \in DOMAIN candidates : /\ ProximityScore(query, candidates[k]) # 0
                                             /\ Conf(k) >= MIN_CONTEXT_CONFIDENCE}
        best   == {k \in scored : \A j \in scored : Conf(j) <= Conf(k)}
    IN  {[event |-> candidates[k], confidence |-> Conf(k), band |-> Band(Conf(k))] :
         k \in {k \in best : \A j \in best : k <= j}}

\* The only verbs the sentence has: all of them temporal.
ContextSentence(match) ==
    [HIGH |-> "coincided with", MEDIUM |-> "came during", LOW |-> "overlapped with"][match.band]

-----------------------------------------------------------------------------
MATERIAL == 2
LABEL_STEM == [HOLDING |-> "HOLDING", CONSIDERING_BUY |-> "CONSIDERING",
               HEDGE |-> "HEDGE", THEMATIC |-> "THEME WATCH"]

\* The tone of a material move, by what was said about the position.
Tone(intent, up) ==
    IF intent = "HOLDING" THEN IF up THEN "favourable" ELSE "adverse"
    ELSE IF intent = "CONSIDERING_BUY" THEN IF up THEN "adverse" ELSE "favourable"
    ELSE "neutral"
Label(intent, up) ==
    [HOLDING |-> <<"HOLDING", IF up THEN "UP" ELSE "DOWN">>,
     CONSIDERING_BUY |-> <<"ENTRY", IF up THEN "WORSE" ELSE "BETTER">>,
     HEDGE |-> <<"HEDGE", IF up THEN "GAINED" ELSE "COST">>,
     THEMATIC |-> <<"THEME WATCH", "">>][intent]

\* returnPct is in percent, in a set of at most one; so are the framings.
FrameForPosition(ctx) ==
    IF ctx.intent = "NONE" THEN {}
    ELSE {IF Mag(move) < MATERIAL
          THEN [tone |-> "neutral", label |-> <<LABEL_STEM[ctx.intent], "FLAT">>, aside |-> FALSE]
          ELSE [tone  |-> Tone(ctx.intent, move > 0), label |-> Label(ctx.intent, move > 0),
                \* what the sentence adds: a gain given back, or an unusual move
                aside |-> \/ ctx.intent = "HOLDING" /\ move > 0 /\ ctx.peakFromNow >= 8
                          \/ ctx.intent = "THEMATIC" /\ Mag(ctx.sigmas) >= 20] :
          move \in ctx.returnPct}

=============================================================================
