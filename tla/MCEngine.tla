------------------------------ MODULE MCEngine -------------------------------
(***************************************************************************)
(* A market of three names of one sector and one of another, twelve        *)
(* sessions of small moves as history, and the sessions after it chosen    *)
(* from Moves.  The windows are those of features.ts scaled down, the long *)
(* ones longer than the short ones they are compared with; of the          *)
(* thresholds, only the quietest share of the days is scaled to a window of*)
(* eight.                                                                  *)
(***************************************************************************)
EXTENDS Engine

MCW == [history |-> 11, sigma |-> 9, fast |-> 2, slow |-> 10, atr |-> 3, short |-> 5, long |-> 10,
        beta |-> 10, pairs |-> 5, corrShort |-> 3, corrLong |-> 8, quiet |-> 8, horizon |-> 1,
        quietSample |-> 5, sample |-> 8, feature |-> 14]
MCT == [THRESHOLDS EXCEPT !.quiet = 20]

MCSymbols == <<"SPY", "SOXX", "XLK", "NVDA", "AMD", "MU", "AAPL">>
MCListing ==
    [sector |-> [s \in Range(MCSymbols) |->
                    IF s \in {"NVDA", "AMD", "MU", "SOXX"} THEN "Semis"
                    ELSE IF s \in {"AAPL", "XLK"} THEN "Tech" ELSE ""],
     etf |-> [s \in Range(MCSymbols) |->
                    IF s \in {"NVDA", "AMD", "MU"} THEN "SOXX"
                    ELSE IF s = "AAPL" THEN "XLK" ELSE ""]]

\* Twelve sessions of small moves, not the same for every series.
Wiggle == <<0, 1, -1, 1, 1, -1, 0, -1, 1>>
Shift(s) == CHOOSE k \in DOMAIN MCSymbols : MCSymbols[k] = s
RECURSIVE Sum1(_, _)
Sum1(s, n) == IF n = 0 THEN 0 ELSE Wiggle[((n * Shift(s)) % 9) + 1] + Sum1(s, n - 1)
MCHistory ==
    [s \in Range(MCSymbols) |->
        [d \in 1..12 |-> [date |-> d, close |-> Sum1(s, d), volume |-> 10,
                         high |-> Max({Sum1(s, d), Sum1(s, d - 1)}),
                         low |-> Min({Sum1(s, d), Sum1(s, d - 1)}),
                         confidence |-> 100, confirmed |-> TRUE]]]

All(x) == [s \in Range(MCSymbols) |-> x]
Drift == [SPY |-> 1, SOXX |-> 0, XLK |-> 1, NVDA |-> 0, AMD |-> 1, MU |-> -1, AAPL |-> 0]
Day(of, volume, confidence, confirmed) ==
    [of |-> of, volume |-> volume, confidence |-> confidence, confirmed |-> confirmed]
MCMoves ==
    { Day(Drift, 10, 100, TRUE),
      \* everything falls with the market
      Day(All(-9), 40, 100, TRUE),
      \* the semiconductors fall, the market does not
      Day([Drift EXCEPT !.SOXX = -8, !.NVDA = -10, !.AMD = -9, !.MU = -9], 30, 100, TRUE),
      \* one name rises on prices the sources disagree about
      Day([Drift EXCEPT !.NVDA = 9], 40, 50, FALSE),
      \* one name is not printed, another falls
      Day([s \in Range(MCSymbols) \ {"AMD"} |-> [Drift EXCEPT !.AAPL = -8][s]], 20, 90, TRUE) }

MCReports == {[symbol |-> "MU", date |-> 16, session |-> "amc"]}

MCContext == << [date |-> 11, end |-> 0, scope |-> "SECTOR", sectors |-> {"Semis"}, importance |-> "MEDIUM"],
                [date |-> 13, end |-> 14, scope |-> "GLOBAL", sectors |-> {}, importance |-> "HIGH"],
                [date |-> 15, end |-> 0, scope |-> "COMPANY", sectors |-> {"Tech"}, importance |-> "HIGH"] >>

=============================================================================
