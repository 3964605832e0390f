------------------------------- MODULE MCDesk --------------------------------
(***************************************************************************)
(* The market of MCEngine for two sessions, and a user who watches three   *)
(* of its names, with a priority and an intent for each.                   *)
(***************************************************************************)
EXTENDS Desk, MCEngine

Row(symbol, priority, intent) == [symbol |-> symbol, priority |-> priority, intent |-> intent]
MCWatchlists ==
    { <<Row("NVDA", "NORMAL", "NONE"), Row("MU", "LOW", "HOLDING"),
        Row("AAPL", "HIGH", "CONSIDERING_BUY")>> }

MCDeskReports == {[symbol |-> "MU", date |-> 14, session |-> "amc"],
                  [symbol |-> "AAPL", date |-> 13, session |-> "amc"]}
MCNews == {[symbol |-> "NVDA", published |-> p, outlets |-> n] : p \in {134, 139}, n \in {1, 3}}
          \cup {[symbol |-> "AAPL", published |-> 138, outlets |-> 2]}

\* The first of the two sessions closes early.
MCEarlyCloses == {13}

=============================================================================
