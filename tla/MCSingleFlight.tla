---------------------------- MODULE MCSingleFlight ----------------------------
(* One worker and the one replacing it, three calls; the lease and the cadence   *)
(* are 10 and 15 minutes in units of five.                                       *)
EXTENDS SingleFlight
===============================================================================
