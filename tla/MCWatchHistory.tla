---------------------------- MODULE MCWatchHistory ----------------------------
(* WatchHistory on the days of MCWatchState; the configuration gives the user *)
(* one device, so that no two requests overlap.                               *)
EXTENDS WatchHistory, TLC

CONSTANTS A, B

QuietB == {<<A, 1>>, <<A, 2>>}
===============================================================================
