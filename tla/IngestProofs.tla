----------------------------- MODULE IngestProofs -----------------------------
(***************************************************************************)
(* Theorems about Ingest, for any calendar and any bad rows.               *)
(***************************************************************************)
EXTENDS Ingest, SequenceTheorems, WellFoundedInduction, TLAPS

-------------------------------------------------------------------------------
(* Recursion over the days                                                 *)

\* Induction over the naturals, for a set instead of a predicate: the least
\* number outside of S would have a predecessor in S.
LEMMA SetInduction ==
    ASSUME NEW S \in SUBSET Nat, 0 \in S, \A n \in S : n + 1 \in S
    PROVE  S = Nat
  <1> SUFFICES ASSUME Nat \ S # {} PROVE FALSE
    OBVIOUS
  <1> DEFINE R == OpToRel(<, Nat)
             T == Nat \ S
  <1>1. IsWellFoundedOn(R, Nat)
    BY NatLessThanWellFounded
  <1>2. T \subseteq Nat /\ T # {}
    OBVIOUS
  <1> HIDE DEF R, T
  <1>3. PICK m \in T : \A n \in T : <<n, m>> \notin R
    BY <1>1, <1>2, WFMin
  <1> USE DEF R, T
  <1>4. \A n \in Nat \ S : ~(n < m)
    BY <1>3 DEF OpToRel
  <1>5. m # 0 /\ m - 1 \in Nat
    OBVIOUS
  <1>6. m - 1 \in S
    BY <1>4, <1>5
  <1>. QED  BY <1>5, <1>6

\* The close that a day is compared with, from the one for the day before: the
\* recursive definition of LastClose defines what it says.
LEMMA LastCloseDef ==
    ASSUME NEW series, NEW anchor
    PROVE  \A d \in Nat :
             LastClose(series, anchor)[d] =
                IF d = 0 THEN anchor
                ELSE IF d - 1 \in DOMAIN series
                     THEN CheckRow(series, LastClose(series, anchor)[d - 1], d - 1)
                ELSE LastClose(series, anchor)[d - 1]
  <1> DEFINE E(f, d) == IF d = 0 THEN anchor
                        ELSE IF d - 1 \in DOMAIN series THEN CheckRow(series, f[d - 1], d - 1)
                        ELSE f[d - 1]
             UpTo(f, n) == f = [d \in 0..n |-> E(f, d)]
             Has == {n \in Nat : \E f : UpTo(f, n)}
  <1>1. \A f, g : /\ E(f, 0) = E(g, 0)
                  /\ \A d \in Nat : f[d] = g[d] => E(f, d + 1) = E(g, d + 1)
    OBVIOUS
  <1>2. LastClose(series, anchor) = CHOOSE f : f = [d \in Nat |-> E(f, d)]
    BY Zenon DEF LastClose
  <1> HIDE DEF E
  <1>3. Has = Nat
    <2>1. 0 \in Has
      <3> DEFINE f == [d \in 0..0 |-> E(<<>>, 0)]
      <3>1. \A d \in 0..0 : E(f, d) = E(<<>>, 0)
        BY <1>1
      <3>2. UpTo(f, 0)
        BY <3>1
      <3>. QED  BY <3>2
    <2>2. ASSUME NEW n \in Has PROVE n + 1 \in Has
      <3>1. PICK f : UpTo(f, n)
        OBVIOUS
      <3> DEFINE g == [d \in 0..(n + 1) |-> IF d = n + 1 THEN E(f, d) ELSE f[d]]
      <3>2. \A d \in 0..n : f[d] = E(f, d) /\ g[d] = f[d]
        BY <3>1
      <3>3. \A d \in 0..(n + 1) : E(g, d) = E(f, d)
        <4>1. ASSUME NEW d \in 0..(n + 1), d # 0 PROVE E(g, d) = E(f, d)
          <5>1. d - 1 \in 0..n /\ d - 1 \in Nat /\ (d - 1) + 1 = d
            BY <4>1
          <5>2. g[d - 1] = f[d - 1]
            BY <5>1, <3>2
          <5> HIDE DEF g
          <5>. QED  BY <5>1, <5>2, <1>1
        <4>. QED  BY <4>1, <1>1
      <3>4. \A d \in 0..(n + 1) : g[d] = E(g, d)
        BY <3>2, <3>3
      <3>5. UpTo(g, n + 1)
        BY <3>4
      <3>6. n \in Nat /\ n + 1 \in Nat
        OBVIOUS
      <3> HIDE DEF g, UpTo
      <3>. QED  BY <3>5, <3>6
    <2>. QED  BY <2>1, <2>2, SetInduction
  <1>4. ASSUME NEW n \in Nat, NEW m \in Nat, n <= m, NEW f, NEW g, UpTo(f, n), UpTo(g, m)
        PROVE  \A d \in 0..n : f[d] = g[d]
    <2> DEFINE Same == {d \in Nat : d <= n => f[d] = g[d]}
    <2>0. \A d \in 0..n : f[d] = E(f, d) /\ g[d] = E(g, d)
      <3>1. \A d \in 0..n : f[d] = E(f, d)
        BY <1>4
      <3>2. \A d \in 0..m : g[d] = E(g, d)
        BY <1>4
      <3>. QED  BY <1>4, <3>1, <3>2
    <2>1. 0 \in Same
      BY <2>0, <1>1
    <2>2. ASSUME NEW d \in Same PROVE d + 1 \in Same
      BY <2>0, <1>1
    <2>3. Same = Nat
      <3> HIDE DEF Same
      <3>1. Same \subseteq Nat
        BY DEF Same
      <3>. QED  BY <2>1, <2>2, <3>1, SetInduction
    <2>. QED  BY <2>3
  <1> DEFINE h == [n \in Nat |-> CHOOSE f : UpTo(f, n)]
             whole == [d \in Nat |-> h[d][d]]
  <1>5. \A n \in Nat : UpTo(h[n], n)
    <2>1. \A n \in Nat : \E f : UpTo(f, n)
      BY <1>3
    <2> HIDE DEF UpTo
    <2>. QED  BY <2>1
  <1>6. \A d \in Nat : whole[d] = E(whole, d)
    <2>1. ASSUME NEW d \in Nat PROVE E(h[d], d) = E(whole, d)
      <3>1. CASE d = 0
        BY <3>1, <1>1
      <3>2. CASE d # 0
        <4>1. d - 1 \in Nat /\ d - 1 <= d /\ d - 1 \in 0..(d - 1) /\ (d - 1) + 1 = d
          BY <3>2
        <4>2. h[d - 1][d - 1] = h[d][d - 1]
          <5> HIDE DEF UpTo, h
          <5>. QED  BY <4>1, <1>4, <1>5
        <4>3. whole[d - 1] = h[d][d - 1]
          BY <4>1, <4>2
        <4> HIDE DEF whole, h
        <4>. QED  BY <4>1, <4>3, <1>1
      <3>. QED  BY <3>1, <3>2
    <2>2. ASSUME NEW d \in Nat PROVE h[d][d] = E(h[d], d)
      <3>1. d \in 0..d /\ UpTo(h[d], d)
        BY <1>5
      <3> HIDE DEF h
      <3>. QED  BY <3>1
    <2>. QED  BY <2>1, <2>2
  <1>7. whole = [d \in Nat |-> E(whole, d)]
    <2> DEFINE w == [d \in Nat |-> E(whole, d)]
    <2>1. \A d \in Nat : whole[d] = w[d]
      BY <1>6
    <2>. QED  BY <2>1
  <1>8. LastClose(series, anchor) = [d \in Nat |-> E(LastClose(series, anchor), d)]
    <2> HIDE DEF whole
    <2>. QED  BY <1>2, <1>7
  <1>9. \A d \in Nat : LastClose(series, anchor)[d] = E(LastClose(series, anchor), d)
    BY <1>8
  <1>. QED  BY <1>9 DEF E

-------------------------------------------------------------------------------
(* The inductive invariant                                                 *)

SeriesOfDays == UNION {[D -> Bar] : D \in SUBSET Days}
Tables == UNION {[D -> StoredBars] : D \in SUBSET Days}
RunStates == {"running", "ok", "partial", "failed"}

TypedJob ==
    /\ job = [at |-> job.at, days |-> job.days, anchor |-> job.anchor, series |-> job.series,
              gave |-> job.gave, conflicts |-> job.conflicts]
    /\ job.at \in JobSteps
    /\ job.days \subseteq Days
    /\ job.series \in [Sources -> SeriesOfDays]
    /\ \A s \in Sources : DOMAIN job.series[s] \subseteq job.days
    /\ job.gave \subseteq Sources
    /\ job.conflicts \subseteq ConflictRows

Typed ==
    /\ stored \in Tables
    /\ conflicts \subseteq ConflictRows
    /\ rejected \subseteq Days
    /\ runs \in Seq(RunStates) /\ Len(runs) <= MaxJobs
    /\ failing \subseteq Sources
    /\ crashes \in Nat /\ crashes <= MaxCrashes
    /\ TypedJob

\* What the bars of a fetch keep from the answer they came in: a glitch has no
\* neighbour in the days before it.
Unpaired(series) ==
    \A d, e \in DOMAIN series : IsGlitch(series[d]) => d - e \notin 1..MaxSessionGap

GlitchesUnpaired == \A s \in Sources : Unpaired(job.series[s])

\* A stored dispute over a price is recorded, or about to be by the same job.
PriceRow(d) == [day |-> d, field |-> "close"]
DisputesRecorded ==
    \A d \in DOMAIN stored :
        /\ stored[d].confirmed <=> "close" \notin stored[d].disputed
        /\ crashes = 0 /\ "close" \in stored[d].disputed =>
              \/ PriceRow(d) \in conflicts
              \/ job.at = "conflicts" /\ PriceRow(d) \in job.conflicts

IngestInv == Typed /\ GlitchesUnpaired /\ DisputesRecorded

-------------------------------------------------------------------------------
(* Validation                                                              *)

\* Once a row is accepted, what a later row is compared with is an accepted row
\* that is no older.
LEMMA LastIsAccepted ==
    ASSUME NEW series, DOMAIN series \subseteq Nat, NEW anchor,
           NEW e \in ValidDays(series, anchor)
    PROVE  \A n \in Nat : n > e =>
              \E k \in ValidDays(series, anchor) :
                 /\ e <= k /\ k < n
                 /\ LastClose(series, anchor)[n] = [day |-> k, close |-> series[k].close]
  <1> DEFINE last == LastClose(series, anchor)
             V == ValidDays(series, anchor)
             Good(n) == n > e => \E k \in V : /\ e <= k /\ k < n
                                              /\ last[n] = [day |-> k, close |-> series[k].close]
             G == {n \in Nat : Good(n)}
  <1>1. \A d \in Nat : last[d] = IF d = 0 THEN anchor
                                 ELSE IF d - 1 \in DOMAIN series
                                      THEN CheckRow(series, last[d - 1], d - 1)
                                 ELSE last[d - 1]
    BY LastCloseDef
  <1>2. V = {d \in DOMAIN series : Accepted(series, d, last[d])}
    BY DEF ValidDays
  <1>3. e \in V /\ V \subseteq Nat /\ e \in Nat
    BY <1>2
  <1> HIDE DEF last, V
  <1>4. 0 \in G
    BY <1>3
  <1>5. ASSUME NEW n \in G PROVE n + 1 \in G
    <2>1. n \in Nat /\ n + 1 \in Nat /\ (n + 1) - 1 = n /\ Good(n)
      OBVIOUS
    <2>2. last[n + 1] = IF n \in DOMAIN series THEN CheckRow(series, last[n], n) ELSE last[n]
      BY <1>1, <2>1
    <2>3. CASE n \in V
      <3>1. last[n + 1] = [day |-> n, close |-> series[n].close]
        BY <1>2, <2>2, <2>3 DEF CheckRow
      <3>. QED  BY <1>3, <2>1, <2>3, <3>1
    <2>4. CASE n \notin V
      <3>1. last[n + 1] = last[n]
        BY <1>2, <2>2, <2>4 DEF CheckRow
      <3>2. n # e
        BY <1>3, <2>4
      <3>. QED  BY <1>3, <2>1, <3>1, <3>2
    <2>. QED  BY <2>3, <2>4
  <1>6. G = Nat
    <2> HIDE DEF G
    <2>1. G \subseteq Nat
      BY DEF G
    <2>. QED  BY <1>4, <1>5, <2>1, SetInduction
  <1>. QED  BY <1>6 DEF last, V

\* Of an answer with one wrong bar, validation keeps it as a glitch only if no
\* bar of the days before it was kept.
LEMMA ValidatedUnpaired ==
    ASSUME NEW answer, DOMAIN answer \subseteq Nat, NEW anchor, NEW wrong,
           \A d \in DOMAIN answer : d # wrong => answer[d] = TrueBar
    PROVE  Unpaired(Validated(answer, anchor))
  <1> DEFINE V == ValidDays(answer, anchor)
             last == LastClose(answer, anchor)
  <1>1. V \subseteq DOMAIN answer /\ \A d \in V : Accepted(answer, d, last[d])
    BY DEF ValidDays
  <1>2. TrueBar.close \in Int /\ TrueBar.close > 0
    BY IngestAssumption DEF Sound
  <1>3. ~IsGlitch(TrueBar)
    <2>1. Distance(TrueBar.close, TrueBar.close) = 0
      BY <1>2 DEF Distance
    <2>2. Move(TrueBar.close, TrueBar.close) = 0
      BY <1>2, <2>1, SMT DEF Move
    <2>. QED  BY <2>2 DEF IsGlitch, MaxDailyMove
  <1>4. SUFFICES ASSUME NEW d \in V, NEW e \in V, IsGlitch(answer[d]), d - e \in 1..MaxSessionGap
                 PROVE  FALSE
    BY DEF Unpaired, Validated
  <1>5. d = wrong /\ d \in Nat /\ e \in Nat /\ e < d
    BY <1>1, <1>3, <1>4 DEF MaxSessionGap
  <1>6. PICK k \in V : /\ e <= k /\ k < d
                       /\ last[d] = [day |-> k, close |-> answer[k].close]
    BY <1>5, LastIsAccepted
  <1>7. answer[k] = TrueBar /\ k \in Nat
    BY <1>1, <1>5, <1>6
  <1>8. last[d] # NoClose
    BY <1>2, <1>6, <1>7 DEF NoClose
  <1>9. last[d].day = k /\ last[d].close = TrueBar.close /\ d - k \in 1..MaxSessionGap
    BY <1>4, <1>5, <1>6, <1>7 DEF MaxSessionGap
  <1>10. ~Implausible(answer[d], d, last[d])
    BY <1>1 DEF Accepted
  <1>. QED  BY <1>4, <1>8, <1>9, <1>10 DEF Implausible, IsGlitch

\* What a provider may answer for a window.
LEMMA AnswerShape ==
    ASSUME NEW days \in SUBSET Days, NEW answer \in Answers(days)
    PROVE  /\ \E S \in SUBSET days : answer \in [S -> Bar]
           /\ \E wrong : \A d \in DOMAIN answer : d # wrong => answer[d] = TrueBar
  <1>1. PICK S \in SUBSET days : answer \in AnswersFor(S)
    BY DEF Answers
  <1>2. PICK wrong \in S, bar \in Bar : answer = [d \in S |-> IF d = wrong THEN bar ELSE TrueBar]
    BY <1>1 DEF AnswersFor
  <1>3. TrueBar \in Bar
    BY DEF Bar
  <1>. QED  BY <1>2, <1>3

-------------------------------------------------------------------------------
(* Reconciliation                                                          *)

\* What reconcileBar makes of a day that one source has, or both.
LEMMA ReconcileDayShape ==
    ASSUME NEW series \in [Sources -> SeriesOfDays], NEW closes, NEW d \in DaysOf(series)
    PROVE  LET b == ReconcileDay(series, Trust, closes, d)
           IN  /\ b \in StoredBars
               /\ d \in DOMAIN series[b.source]
               /\ b.bar.close = series[b.source][d].close
               /\ b.confirmed <=> "close" \notin b.disputed
  <1> DEFINE b == ReconcileDay(series, Trust, closes, d)
             Shape(x) == /\ x \in StoredBars
                         /\ d \in DOMAIN series[x.source]
                         /\ x.bar.close = series[x.source][d].close
                         /\ x.confirmed <=> "close" \notin x.disputed
             having == {s \in Sources : d \in DOMAIN series[s]}
  <1>1. DOMAIN series = Sources
    OBVIOUS
  <1>2. \A s \in having : series[s][d] \in Bar
    BY DEF SeriesOfDays
  <1>3. Bar \subseteq [close : Prices, adj : {x.adj : x \in Bar}, volume : Prices]
    BY IngestAssumption DEF Bar, Prices
  <1>4. \A x, y \in Bar : [x EXCEPT !.close = y.close]
                             \in [close : Prices, adj : {z.adj : z \in Bar}, volume : Prices]
    BY <1>3 DEF Prices
  <1>5. CASE having = Sources
    <2> DEFINE p == [bar |-> series["twelvedata"][d], source |-> "twelvedata"]
               q == [bar |-> series["tiingo"][d], source |-> "tiingo"]
               disputed == DisputedFields(p.bar, q.bar)
               overruled == "close" \in disputed /\ Overruled(p.bar, q.bar, closes)
    <2>1. b = Settle(p, q, closes)
      BY <1>1, <1>5 DEF ReconcileDay, Trust
    <2>2. "twelvedata" \in having /\ "tiingo" \in having
      BY <1>5 DEF Sources
    <2>3. p.bar \in Bar /\ q.bar \in Bar
      BY <1>2, <2>2
    <2>4. disputed \subseteq {"close", "volume"}
      BY DEF DisputedFields
    <2>5. b = [bar       |-> IF overruled THEN [p.bar EXCEPT !.close = q.bar.close] ELSE p.bar,
               source    |-> IF overruled THEN q.source ELSE p.source,
               confirmed |-> "close" \notin disputed,
               disputed  |-> disputed]
      BY <2>1 DEF Settle
    <2> HIDE DEF disputed, overruled
    <2>6. b.confirmed = ("close" \notin b.disputed) /\ b.disputed = disputed
      BY <2>5
    <2>7. b.confirmed \in BOOLEAN
      BY <2>5
    <2>8. CASE overruled
      <3>1. b.bar = [p.bar EXCEPT !.close = q.bar.close] /\ b.source = "tiingo"
        BY <2>5, <2>8
      <3>2. b.bar.close = series["tiingo"][d].close
        BY <2>3, <3>1, <1>3
      <3>3. b \in StoredBars
        BY <1>4, <2>3, <2>4, <2>5, <2>6, <2>7, <3>1 DEF StoredBars, Sources
      <3>. QED  BY <2>2, <2>6, <3>1, <3>2, <3>3
    <2>9. CASE ~overruled
      <3>1. b.bar = p.bar /\ b.source = "twelvedata"
        BY <2>5, <2>9
      <3>2. b \in StoredBars
        BY <1>3, <2>3, <2>4, <2>5, <2>6, <2>7, <3>1 DEF StoredBars, Sources
      <3>. QED  BY <2>2, <2>6, <3>1, <3>2
    <2>. QED  BY <2>8, <2>9
  <1>6. CASE having # Sources
    <2> DEFINE s == CHOOSE s \in having : TRUE
    <2>1. b = Alone(series[s][d], s)
      BY <1>1, <1>6 DEF ReconcileDay
    <2>2. s \in having
      BY <1>1 DEF DaysOf
    <2>3. series[s][d] \in Bar /\ s \in Sources
      BY <1>2, <2>2
    <2> HIDE DEF s
    <2>4. b \in StoredBars
      BY <1>3, <2>1, <2>3 DEF Alone, StoredBars
    <2>. QED  BY <2>1, <2>2, <2>4 DEF Alone
  <1>. QED  BY <1>5, <1>6

\* Every stored bar has its row of the dispute about its price.
LEMMA DisputesOfBars ==
    ASSUME NEW bars, NEW d \in DOMAIN bars, "close" \in bars[d].disputed
    PROVE  PriceRow(d) \in Disputes(bars)
  BY DEF Disputes, PriceRow

LEMMA DisputesTyped ==
    ASSUME NEW bars \in Tables
    PROVE  Disputes(bars) \subseteq ConflictRows
  <1>1. ASSUME NEW d \in DOMAIN bars
        PROVE  [day : {d}, field : bars[d].disputed] \subseteq ConflictRows
    <2>1. d \in Days /\ bars[d] \in StoredBars
      BY DEF Tables
    <2>2. bars[d].disputed \subseteq {"close", "volume"}
      BY <2>1 DEF StoredBars
    <2>. QED  BY <2>1, <2>2 DEF ConflictRows
  <1>. QED  BY <1>1 DEF Disputes

\* What a fetch is stored as.
LEMMA ReconciledShape ==
    ASSUME NEW series \in [Sources -> SeriesOfDays]
    PROVE  LET bars == Reconciled(series, Trust)
           IN  /\ bars \in Tables
               /\ \A d \in DOMAIN bars :
                     /\ d \in DOMAIN series[bars[d].source]
                     /\ bars[d].bar.close = series[bars[d].source][d].close
                     /\ bars[d].confirmed <=> "close" \notin bars[d].disputed
  <1> DEFINE bars == Reconciled(series, Trust)
             day(d) == ReconcileDay(series, Trust, History(series, Trust)[d], d)
  <1>1. DaysOf(series) \subseteq Days
    BY DEF DaysOf, SeriesOfDays
  <1>2. bars = [d \in DaysOf(series) |-> day(d)]
    BY DEF Reconciled
  <1>3. \A d \in DaysOf(series) :
           /\ day(d) \in StoredBars
           /\ d \in DOMAIN series[day(d).source]
           /\ day(d).bar.close = series[day(d).source][d].close
           /\ day(d).confirmed <=> "close" \notin day(d).disputed
    BY ReconcileDayShape
  <1> HIDE DEF bars, day
  <1>4. bars \in [DaysOf(series) -> StoredBars]
    BY <1>2, <1>3
  <1>5. bars \in Tables
    BY <1>1, <1>4 DEF Tables
  <1>. QED  BY <1>2, <1>3, <1>5 DEF bars


-------------------------------------------------------------------------------
(* The steps of a job                                                      *)

\* What createMany with skipDuplicates leaves of the table it is given.
LEMMA AddedKeeps ==
    ASSUME NEW bars
    PROVE  /\ DOMAIN stored \subseteq DOMAIN Added(bars)
           /\ \A d \in DOMAIN stored : Added(bars)[d] = stored[d]
           /\ \A d \in DOMAIN Added(bars) \ DOMAIN stored :
                 d \in DOMAIN bars /\ Added(bars)[d] = bars[d]
  BY DEF Added

LEMMA AddedTyped ==
    ASSUME Typed, NEW bars \in Tables
    PROVE  Added(bars) \in Tables
  <1>1. PICK D \in SUBSET Days : bars \in [D -> StoredBars]
    BY DEF Tables
  <1>2. PICK S \in SUBSET Days : stored \in [S -> StoredBars]
    BY DEF Typed, Tables
  <1>3. Added(bars) \in [S \cup D -> StoredBars]
    BY <1>1, <1>2 DEF Added
  <1>. QED  BY <1>1, <1>2, <1>3 DEF Tables

LEMMA EmptyJob ==
    /\ NoJob.at = "idle" /\ NoJob.days = {} /\ NoJob.gave = {} /\ NoJob.conflicts = {}
    /\ NoJob.series \in [Sources -> SeriesOfDays]
    /\ \A s \in Sources : DOMAIN NoJob.series[s] = {}
    /\ NoJob = [at |-> NoJob.at, days |-> NoJob.days, anchor |-> NoJob.anchor,
                series |-> NoJob.series, gave |-> NoJob.gave, conflicts |-> NoJob.conflicts]
  <1>1. NoBars \in [{} -> Bar] /\ DOMAIN NoBars = {}
    BY DEF NoBars
  <1>2. NoBars \in SeriesOfDays
    BY <1>1 DEF SeriesOfDays
  <1>. QED  BY <1>1, <1>2 DEF NoJob

LEMMA RunTyped ==
    ASSUME Typed, NEW status \in RunStates
    PROVE  /\ Append(runs, status) \in Seq(RunStates)
           /\ Len(Append(runs, status)) = Len(runs) + 1
           /\ [runs EXCEPT ![Len(runs)] = status] \in Seq(RunStates)
           /\ Len([runs EXCEPT ![Len(runs)] = status]) = Len(runs)
  <1> DEFINE r == [runs EXCEPT ![Len(runs)] = status]
             n == Len(runs)
  <1>1. runs \in Seq(RunStates) /\ n \in Nat /\ runs \in [1..n -> RunStates]
    BY DEF Typed
  <1>2. r \in [1..n -> RunStates]
    BY <1>1
  <1>3. r \in Seq(RunStates)
    BY <1>1, <1>2, SeqDef
  <1>4. Len(r) = n
    BY <1>1, <1>2, <1>3
  <1>. QED  BY <1>1, <1>3, <1>4

LEMMA InitInv == Init => IngestInv
  <1> SUFFICES ASSUME Init PROVE IngestInv
    OBVIOUS
  <1> USE EmptyJob, IngestAssumption
  <1>1. Alone(TrueBar, "twelvedata") \in StoredBars
    BY DEF Alone, StoredBars, Sources, Prices, Bar
  <1>2. stored \in Tables
    BY <1>1 DEF Init, Tables
  <1>3. runs \in Seq(RunStates) /\ Len(runs) <= MaxJobs
    BY DEF Init
  <1>4. TypedJob
    BY DEF Init, TypedJob, JobSteps
  <1>5. Typed
    BY <1>2, <1>3, <1>4 DEF Init, Typed
  <1>6. GlitchesUnpaired
    BY DEF Init, GlitchesUnpaired, Unpaired
  <1>7. DisputesRecorded
    BY DEF Init, DisputesRecorded, Alone
  <1>. QED  BY <1>5, <1>6, <1>7 DEF IngestInv

\* A step that only moves a job along, or ends it.
LEMMA JobMoves ==
    ASSUME TypedJob, GlitchesUnpaired,
           \/ job' = job
           \/ job' = NoJob
           \/ \E step \in JobSteps : job' = [job EXCEPT !.at = step]
    PROVE  TypedJob' /\ GlitchesUnpaired'
  <1>1. CASE job' = job
    BY <1>1 DEF TypedJob, GlitchesUnpaired
  <1>2. CASE job' = NoJob
    BY <1>2, EmptyJob DEF TypedJob, GlitchesUnpaired, Unpaired, JobSteps
  <1>3. ASSUME NEW step \in JobSteps, job' = [job EXCEPT !.at = step]
        PROVE  TypedJob' /\ GlitchesUnpaired'
    <2>1. /\ job'.at = step /\ job'.days = job.days /\ job'.series = job.series
          /\ job'.gave = job.gave /\ job'.conflicts = job.conflicts
          /\ job'.anchor = job.anchor
      BY <1>3 DEF TypedJob
    <2>2. job' = [at |-> job'.at, days |-> job'.days, anchor |-> job'.anchor,
                  series |-> job'.series, gave |-> job'.gave, conflicts |-> job'.conflicts]
      BY <1>3, <2>1 DEF TypedJob
    <2> HIDE DEF JobSteps
    <2>3. TypedJob'
      BY <2>1, <2>2 DEF TypedJob
    <2>. QED  BY <2>1, <2>3 DEF GlitchesUnpaired
  <1>. QED  BY <1>1, <1>2, <1>3

LEMMA TypedStep == IngestInv /\ [Next]_vars => Typed' /\ GlitchesUnpaired'
  <1> SUFFICES ASSUME IngestInv, [Next]_vars PROVE Typed' /\ GlitchesUnpaired'
    OBVIOUS
  <1> USE IngestAssumption DEF IngestInv, Typed
  <1>1. \A step \in {"idle", "anchor", "twelvedata", "tiingo", "decide", "conflicts",
                     "close", "freshness"} : step \in JobSteps
    BY DEF JobSteps
  <1>2. ASSUME NEW days \in Windows, TakeJob(days) PROVE Typed' /\ GlitchesUnpaired'
    <2>1. days \subseteq Days
      BY DEF Windows
    <2>2. /\ job'.at = "anchor" /\ job'.days = days /\ job'.series = NoJob.series
          /\ job'.gave = {} /\ job'.conflicts = {}
          /\ job' = [at |-> job'.at, days |-> job'.days, anchor |-> job'.anchor,
                     series |-> job'.series, gave |-> job'.gave, conflicts |-> job'.conflicts]
      BY <1>2 DEF TakeJob, NoJob
    <2>3. TypedJob'
      BY <1>1, <2>1, <2>2, EmptyJob DEF TypedJob
    <2>4. GlitchesUnpaired'
      BY <2>2, EmptyJob DEF GlitchesUnpaired, Unpaired
    <2>5. runs' \in Seq(RunStates) /\ Len(runs') <= MaxJobs
      BY <1>2, RunTyped DEF TakeJob, RunStates
    <2>. QED  BY <1>2, <2>3, <2>4, <2>5 DEF TakeJob
  <1>3. CASE ReadAnchor
    <2>1. /\ job'.at = "twelvedata" /\ job'.days = job.days /\ job'.series = job.series
          /\ job'.gave = job.gave /\ job'.conflicts = job.conflicts
          /\ job' = [at |-> job'.at, days |-> job'.days, anchor |-> job'.anchor,
                     series |-> job'.series, gave |-> job'.gave, conflicts |-> job'.conflicts]
      BY <1>3 DEF ReadAnchor, TypedJob
    <2>2. TypedJob'
      BY <1>1, <2>1 DEF TypedJob
    <2>3. GlitchesUnpaired'
      BY <2>1 DEF GlitchesUnpaired
    <2>. QED  BY <1>3, <2>2, <2>3 DEF ReadAnchor, tables
  <1>4. ASSUME NEW s \in Sources, NEW a \in Answers(job.days), Fetch(s, a)
        PROVE  Typed' /\ GlitchesUnpaired'
    <2> DEFINE valid == Validated(a, job.anchor)
    <2>1. job.days \in SUBSET Days
      BY DEF TypedJob
    <2>2. PICK S \in SUBSET job.days : a \in [S -> Bar]
      BY <2>1, AnswerShape
    <2>3. DOMAIN a \subseteq Nat /\ DOMAIN a \subseteq Days
      BY <2>1, <2>2
    <2>4. Unpaired(valid)
      BY <2>1, <2>3, AnswerShape, ValidatedUnpaired
    <2>5. DOMAIN valid \subseteq S /\ valid \in [DOMAIN valid -> Bar]
      BY <2>2 DEF Validated, ValidDays
    <2>6. valid \in SeriesOfDays
      BY <2>1, <2>5 DEF SeriesOfDays
    <2> HIDE DEF valid
    <2>7. /\ job'.at = After(s) /\ job'.days = job.days
          /\ job'.series = [job.series EXCEPT ![s] = valid]
          /\ job'.gave \in {job.gave, job.gave \cup {s}} /\ job'.conflicts = job.conflicts
          /\ job' = [at |-> job'.at, days |-> job'.days, anchor |-> job'.anchor,
                     series |-> job'.series, gave |-> job'.gave, conflicts |-> job'.conflicts]
      <3>1. job' = [job EXCEPT !.at = After(s), !.series[s] = valid,
                                !.gave = IF valid = NoBars THEN @ ELSE @ \cup {s}]
        BY <1>4 DEF Fetch, valid
      <3>. QED  BY <3>1 DEF TypedJob
    <2>8. After(s) \in JobSteps
      BY <1>1 DEF After
    <2>9. TypedJob'
      BY <2>2, <2>5, <2>6, <2>7, <2>8 DEF TypedJob
    <2>10. GlitchesUnpaired'
      BY <2>4, <2>7 DEF GlitchesUnpaired, TypedJob
    <2>11. rejected' \subseteq Days
      BY <1>4, <2>3 DEF Fetch
    <2>. QED  BY <1>4, <2>9, <2>10, <2>11 DEF Fetch
  <1>5. ASSUME NEW s \in Sources, FetchFails(s) PROVE Typed' /\ GlitchesUnpaired'
    <2>1. After(s) \in JobSteps
      BY <1>1 DEF After
    <2>2. TypedJob' /\ GlitchesUnpaired'
      BY <1>5, <2>1, JobMoves DEF FetchFails
    <2>. QED  BY <1>5, <2>2 DEF FetchFails
  <1>6. CASE NoUsableData
    <2>1. TypedJob' /\ GlitchesUnpaired'
      BY <1>6, JobMoves DEF NoUsableData
    <2>2. runs' \in Seq(RunStates) /\ Len(runs') <= MaxJobs
      BY <1>6, RunTyped DEF NoUsableData, SetRun, RunStates
    <2>. QED  BY <1>6, <2>1, <2>2 DEF NoUsableData
  <1>7. CASE Store
    <2> DEFINE bars == Reconciled(job.series, Trust)
    <2>1. bars \in Tables
      BY ReconciledShape DEF TypedJob
    <2> HIDE DEF bars
    <2>2. stored' \in Tables
      BY <1>7, <2>1, AddedTyped DEF Store, bars
    <2>3. /\ job'.at \in {"close", "conflicts"} /\ job'.days = {} /\ job'.series = NoJob.series
          /\ job'.gave = job.gave /\ job'.conflicts = Disputes(bars)
          /\ job' = [at |-> job'.at, days |-> job'.days, anchor |-> job'.anchor,
                     series |-> job'.series, gave |-> job'.gave, conflicts |-> job'.conflicts]
      BY <1>7 DEF Store, NoJob, bars
    <2>4. TypedJob'
      BY <1>1, <2>1, <2>3, EmptyJob, DisputesTyped DEF TypedJob
    <2>5. GlitchesUnpaired'
      BY <2>3, EmptyJob DEF GlitchesUnpaired, Unpaired
    <2>. QED  BY <1>7, <2>2, <2>4, <2>5 DEF Store
  <1>8. CASE StoreConflicts
    <2>1. /\ job'.at = "close" /\ job'.days = job.days /\ job'.series = job.series
          /\ job'.gave = job.gave /\ job'.conflicts = {}
          /\ job' = [at |-> job'.at, days |-> job'.days, anchor |-> job'.anchor,
                     series |-> job'.series, gave |-> job'.gave, conflicts |-> job'.conflicts]
      BY <1>8 DEF StoreConflicts, TypedJob
    <2>2. TypedJob'
      BY <1>1, <2>1 DEF TypedJob
    <2>3. GlitchesUnpaired'
      BY <2>1 DEF GlitchesUnpaired
    <2>4. conflicts' \subseteq ConflictRows
      BY <1>8 DEF StoreConflicts, TypedJob
    <2>. QED  BY <1>8, <2>2, <2>3, <2>4 DEF StoreConflicts
  <1>9. CASE CloseRun
    <2>1. TypedJob' /\ GlitchesUnpaired'
      BY <1>1, <1>9, JobMoves DEF CloseRun, Reached
    <2>2. runs' \in Seq(RunStates) /\ Len(runs') <= MaxJobs
      BY <1>9, RunTyped DEF CloseRun, SetRun, RunStates
    <2>. QED  BY <1>9, <2>1, <2>2 DEF CloseRun
  <1>10. CASE Freshen
    <2>1. TypedJob' /\ GlitchesUnpaired'
      BY <1>10, JobMoves DEF Freshen
    <2>. QED  BY <1>10, <2>1 DEF Freshen
  <1>11. CASE Crash
    <2>1. TypedJob' /\ GlitchesUnpaired'
      BY <1>11, JobMoves DEF Crash
    <2>. QED  BY <1>11, <2>1 DEF Crash, tables
  <1>12. CASE UNCHANGED vars
    <2>1. TypedJob' /\ GlitchesUnpaired'
      BY <1>12, JobMoves DEF vars
    <2>. QED  BY <1>12, <2>1 DEF vars
  <1>. QED
    BY <1>2, <1>3, <1>4, <1>5, <1>6, <1>7, <1>8, <1>9, <1>10, <1>11, <1>12 DEF Next

\* A recorded dispute stays recorded, and Store takes the new ones along.
LEMMA DisputesStep == IngestInv /\ [Next]_vars => DisputesRecorded'
  <1> SUFFICES ASSUME IngestInv, [Next]_vars PROVE DisputesRecorded'
    OBVIOUS
  <1> USE DEF IngestInv, Typed
  <1>1. ASSUME stored' = stored, conflicts \subseteq conflicts', crashes' = 0 => crashes = 0,
               crashes' = 0 /\ job.at = "conflicts" =>
                  \/ job'.at = "conflicts" /\ job'.conflicts = job.conflicts
                  \/ job.conflicts \subseteq conflicts'
        PROVE  DisputesRecorded'
    BY <1>1 DEF DisputesRecorded, PriceRow
  <1>2. ASSUME NEW days \in Windows, TakeJob(days) PROVE DisputesRecorded'
    BY <1>1, <1>2 DEF TakeJob
  <1>3. CASE ReadAnchor
    BY <1>1, <1>3 DEF ReadAnchor, tables
  <1>4. ASSUME NEW s \in Sources, NEW a \in Answers(job.days), Fetch(s, a)
        PROVE  DisputesRecorded'
    BY <1>1, <1>4 DEF Fetch, Sources
  <1>5. ASSUME NEW s \in Sources, FetchFails(s) PROVE DisputesRecorded'
    BY <1>1, <1>5 DEF FetchFails, Sources
  <1>6. CASE NoUsableData
    BY <1>1, <1>6 DEF NoUsableData
  <1>7. CASE Store
    <2> DEFINE bars == Reconciled(job.series, Trust)
    <2>1. \A d \in DOMAIN bars : bars[d].confirmed <=> "close" \notin bars[d].disputed
      BY ReconciledShape DEF TypedJob
    <2> HIDE DEF bars
    <2>2. /\ stored' = Added(bars) /\ job.at = "decide"
          /\ conflicts' = conflicts /\ crashes' = crashes
          /\ job'.conflicts = Disputes(bars)
          /\ job'.at = IF Disputes(bars) = {} THEN "close" ELSE "conflicts"
      BY <1>7 DEF Store, NoJob, bars
    <2>3. ASSUME NEW d \in DOMAIN stored
          PROVE  /\ d \in DOMAIN stored'
                 /\ stored'[d] = stored[d]
                 /\ stored[d].confirmed <=> "close" \notin stored[d].disputed
                 /\ crashes = 0 /\ "close" \in stored[d].disputed => PriceRow(d) \in conflicts'
      BY <2>2, <2>3, AddedKeeps DEF DisputesRecorded
    <2>4. ASSUME NEW d \in DOMAIN stored' \ DOMAIN stored
          PROVE  /\ stored'[d].confirmed <=> "close" \notin stored'[d].disputed
                 /\ "close" \in stored'[d].disputed =>
                       job'.at = "conflicts" /\ PriceRow(d) \in job'.conflicts
      <3>1. d \in DOMAIN bars /\ stored'[d] = bars[d]
        BY <2>2, <2>4, AddedKeeps
      <3>2. "close" \in bars[d].disputed => PriceRow(d) \in Disputes(bars)
        BY <3>1, DisputesOfBars
      <3>. QED  BY <2>1, <2>2, <3>1, <3>2
    <2>. QED  BY <2>2, <2>3, <2>4 DEF DisputesRecorded, PriceRow
  <1>8. CASE StoreConflicts
    <2>1. conflicts' = conflicts \cup job.conflicts
      BY <1>8 DEF StoreConflicts
    <2>. QED  BY <1>1, <1>8, <2>1 DEF StoreConflicts
  <1>9. CASE CloseRun
    BY <1>1, <1>9 DEF CloseRun
  <1>10. CASE Freshen
    BY <1>1, <1>10 DEF Freshen
  <1>11. CASE Crash
    <2>1. crashes' = crashes + 1 /\ crashes' # 0
      BY <1>11 DEF Crash
    <2>. QED  BY <1>1, <1>11, <2>1 DEF Crash, tables
  <1>12. CASE UNCHANGED vars
    BY <1>1, <1>12 DEF vars
  <1>. QED
    BY <1>2, <1>3, <1>4, <1>5, <1>6, <1>7, <1>8, <1>9, <1>10, <1>11, <1>12 DEF Next

LEMMA IngestInvStep == IngestInv /\ [Next]_vars => IngestInv'
  BY TypedStep, DisputesStep DEF IngestInv

-------------------------------------------------------------------------------
(* The theorems                                                            *)

\* TypeOK of Ingest for every calendar, window, answer and crash.
THEOREM TypeCorrect == Spec => []TypeOK
  <1>1. IngestInv => TypeOK
    <2> SUFFICES ASSUME IngestInv PROVE TypeOK
      OBVIOUS
    <2>1. PICK D \in SUBSET Days : stored \in [D -> StoredBars]
      BY DEF IngestInv, Typed, Tables
    <2>2. \A i \in DOMAIN runs : runs[i] \in RunStates
      BY DEF IngestInv, Typed
    <2>. QED  BY <2>1, <2>2 DEF IngestInv, Typed, TypedJob, TypeOK, RunStates
  <1>. QED  BY InitInv, IngestInvStep, <1>1, PTL DEF Spec

\* No step of handleIngest, and no crash, changes or removes a stored bar: only
\* Store writes the table, and it adds.
THEOREM NeverOverwritten == Spec => BarsAreOnlyAdded
  <1> DEFINE Kept == /\ DOMAIN stored \subseteq DOMAIN stored'
                     /\ \A d \in DOMAIN stored : stored'[d] = stored[d]
  <1>1. ASSUME Store PROVE Kept
    BY <1>1, AddedKeeps DEF Store
  <1>2. ASSUME Next, ~Store PROVE stored' = stored
    BY <1>2 DEF Next, TakeJob, ReadAnchor, Fetch, FetchFails, NoUsableData,
                StoreConflicts, CloseRun, Freshen, Crash, tables
  <1>3. [Next]_vars => [Kept]_vars
    BY <1>1, <1>2
  <1>. QED  BY <1>3, PTL DEF Spec, BarsAreOnlyAdded

\* reconcileBar never settles a price that two sources disagree on, whatever its
\* history makes of it, and handleIngest records the disagreement unless it dies
\* between the two tables.
THEOREM DisputesAreKept == Spec => []DisputeIsNotSettled
  <1>1. IngestInv => DisputeIsNotSettled
    <2> SUFFICES ASSUME IngestInv, NEW d \in DOMAIN stored
                 PROVE  /\ stored[d].confirmed => "close" \notin stored[d].disputed
                        /\ ~stored[d].confirmed /\ crashes = 0 /\ job.at # "conflicts" =>
                              \E c \in conflicts : c.day = d /\ c.field = "close"
      BY DEF DisputeIsNotSettled
    <2>1. /\ stored[d].confirmed <=> "close" \notin stored[d].disputed
          /\ crashes = 0 /\ "close" \in stored[d].disputed =>
                \/ PriceRow(d) \in conflicts
                \/ job.at = "conflicts" /\ PriceRow(d) \in job.conflicts
      BY DEF IngestInv, DisputesRecorded
    <2>2. PriceRow(d).day = d /\ PriceRow(d).field = "close"
      BY DEF PriceRow
    <2>. QED  BY <2>1, <2>2
  <1>. QED  BY InitInv, IngestInvStep, <1>1, PTL DEF Spec

\* The move check lets a glitch into daily_bars only where the answer it came in
\* had nothing accepted in the four days before it, for every calendar, whatever
\* one wrong bar an answer has and whatever reconciliation does with two.
THEOREM GlitchNeedsAGap == Spec => GlitchOnlyAcrossAGap
  <1> DEFINE Guarded == \A d \in DOMAIN stored' \ DOMAIN stored :
                           IsGlitch(stored'[d].bar) =>
                              \A e \in DOMAIN job.series[stored'[d].source] :
                                 d - e \notin 1..MaxSessionGap
  <1>1. ASSUME IngestInv, Store PROVE Guarded
    <2> DEFINE bars == Reconciled(job.series, Trust)
    <2>1. /\ bars \in Tables
          /\ \A d \in DOMAIN bars :
                /\ d \in DOMAIN job.series[bars[d].source]
                /\ bars[d].bar.close = job.series[bars[d].source][d].close
      BY <1>1, ReconciledShape DEF IngestInv, Typed, TypedJob
    <2> HIDE DEF bars
    <2>2. SUFFICES ASSUME NEW d \in DOMAIN stored' \ DOMAIN stored, IsGlitch(stored'[d].bar)
                   PROVE  \A e \in DOMAIN job.series[stored'[d].source] :
                             d - e \notin 1..MaxSessionGap
      OBVIOUS
    <2>3. d \in DOMAIN bars /\ stored'[d] = bars[d]
      BY <1>1, <2>2, AddedKeeps DEF Store, bars
    <2> DEFINE s == bars[d].source
    <2>4. s \in Sources
      BY <2>1, <2>3 DEF Tables, StoredBars
    <2>5. IsGlitch(job.series[s][d])
      BY <2>1, <2>2, <2>3 DEF IsGlitch
    <2>6. Unpaired(job.series[s])
      BY <1>1, <2>4 DEF IngestInv, GlitchesUnpaired
    <2>. QED  BY <2>1, <2>3, <2>5, <2>6 DEF Unpaired
  <1>2. ASSUME Next, ~Store PROVE stored' = stored
    BY <1>2 DEF Next, TakeJob, ReadAnchor, Fetch, FetchFails, NoUsableData,
                StoreConflicts, CloseRun, Freshen, Crash, tables
  <1>3. IngestInv /\ [Next]_vars => [Guarded]_vars
    BY <1>1, <1>2
  <1>. QED  BY InitInv, IngestInvStep, <1>3, PTL DEF Spec, GlitchOnlyAcrossAGap
===============================================================================
