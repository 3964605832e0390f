------------------------------- MODULE Themes -------------------------------
(***************************************************************************)
(* engine/theme.ts: which of the day's moves are one story.  Shares are    *)
(* percents; a member's return and the part of it the market explains are  *)
(* in one unit of the caller's choice.                                     *)
(***************************************************************************)
EXTENDS Features

CONFIDENCE_WEIGHTS == [cohesion |-> 35, timing |-> 20, size |-> 20, distinctness |-> 25]
MIN_THEME_MEMBERS == 3
MIN_MEMBER_MOVE_SIGMAS == 10    \* tenths
MIN_THEME_CONFIDENCE == 45
MIN_THEME_DISTINCTNESS == 35
SIZE_SATURATION == 5

\* Mean pairwise correlation of the residual series that are long enough.
Cohesion(members) ==
    LET long   == SelectSeq(members, LAMBDA m : Len(m.residuals) >= W["pairs"])
        pairs  == {p \in (DOMAIN long) \X (DOMAIN long) : p[1] < p[2]}
        n      == Min({Len(m.residuals) : m \in Range(long)})
        Corr(p) == Correlation(Window(long[p[1]].residuals, n), Window(long[p[2]].residuals, n))
        Mean(known) == IF known = {} THEN 0
                       ELSE MapThenSumSet(LAMBDA k : k[2], known) \div Cardinality(known)
    IN  Clamp(Mean(UNION {{<<p, c>> : c \in Corr(p)} : p \in pairs}), 0, 100)

Timing(members, start, end) ==
    LET days == {m.day : m \in Range(members)}
    IN  IF end <= start THEN 100
        ELSE Clamp(100 - (100 * (Max(days) - Min(days))) \div (end - start), 0, 100)

Size(members) == Min({100, (100 * Len(members)) \div SIZE_SATURATION})

\* What is left of the mean move once the market's share is taken out.
Distinctness(members) ==
    LET moved     == Total(Field(members, LAMBDA m : Abs(m.ret)))
        explained == Total(Field(members, LAMBDA m : Abs(m.explained)))
    IN  IF moved = 0 THEN 0 ELSE Clamp(100 - (100 * explained) \div moved, 0, 100)

ComputeThemeConfidence(members, start, end) ==
    LET Weighed(share) == share @@ [confidence |-> SumFunction(
            [k \in DOMAIN CONFIDENCE_WEIGHTS |-> CONFIDENCE_WEIGHTS[k] * share[k]]) \div 100]
    IN  Weighed([cohesion |-> Cohesion(members), timing |-> Timing(members, start, end),
                 size |-> Size(members), distinctness |-> Distinctness(members)])

Characteristics(conf) ==
    {IF conf.timing >= 80 THEN "similar timing" ELSE "over several sessions"}
    \cup (IF conf.cohesion >= 50 THEN {"historically move together"} ELSE {})
    \cup (IF conf.distinctness >= 60 THEN {"not explained by the market"}
          ELSE IF conf.distinctness <= 35 THEN {"tracks the market"} ELSE {})

\* Direction alone is not participation.
TakesPart(m) == m.direction # 0 /\ m.sector # "" /\ Abs(m.moveSigmas) >= MIN_MEMBER_MOVE_SIGMAS

Group(members, sector, direction) ==
    SelectSeq(members, LAMBDA m : TakesPart(m) /\ m.sector = sector /\ m.direction = direction)

ThemeOf(group, conf) ==
    conf @@ [scopeKey |-> group[1].sector, direction |-> group[1].direction,
             members |-> Range(Field(group, LAMBDA m : m.symbol)),
             memberCount |-> Len(group), characteristics |-> Characteristics(conf)]
Theme(group, start, end) == ThemeOf(group, ComputeThemeConfidence(group, start, end))

\* Defect: a market-wide move is not vetoed.
DetectThemesUnvetoed(members, start, end) ==
    LET groups == {Group(members, m.sector, m.direction) : m \in {m \in Range(members) : TakesPart(m)}}
        themes == {Theme(g, start, end) : g \in {g \in groups : Len(g) >= MIN_THEME_MEMBERS}}
    IN  SetToSeq({t \in themes : t.confidence >= MIN_THEME_CONFIDENCE})

\* The groups that clear the member floor, the veto and the confidence floor, most
\* confident first; among equals the one whose first member came first.
DetectThemes(members, start, end) ==
    LET groups == {Group(members, m.sector, m.direction) : m \in {m \in Range(members) : TakesPart(m)}}
        themes == {t \in {<<g, Theme(g, start, end)>> :
                          g \in {g \in groups : Len(g) >= MIN_THEME_MEMBERS}} :
                       /\ t[2].distinctness >= MIN_THEME_DISTINCTNESS
                       /\ t[2].confidence >= MIN_THEME_CONFIDENCE}
        First(t) == Min({i \in DOMAIN members : members[i] = t[1][1]})
        Before(s, t) == \/ s[2].confidence > t[2].confidence
                        \/ s[2].confidence = t[2].confidence /\ First(s) < First(t)
    IN  Field(Ordered(themes, Before), LAMBDA t : t[2])

=============================================================================
