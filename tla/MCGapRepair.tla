------------------------------ MODULE MCGapRepair ------------------------------
(* GapRepair for one symbol over a short calendar. *)
EXTENDS GapRepair
===============================================================================
