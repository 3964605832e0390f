------------------------------- MODULE MCIngest -------------------------------
(* Two sessions backfilled and three to come, never more than four days apart.   *)
(* A bad row is off by a factor of ten, which validation sees, or by a sixth     *)
(* with half the volume, which only the history of the other closes tells.       *)
EXTENDS Ingest

Row(price, volume) == [close |-> price, adj |-> price, volume |-> volume]

MCDays == {1, 5, 6, 7, 10}
MCBackfilled == {1, 5}
MCTrueBar == Row(180, 20)
MCBadBars == {Row(18, 20), Row(150, 10)}
===============================================================================
