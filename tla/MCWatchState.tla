----------------------------- MODULE MCWatchState -----------------------------
(* WatchState on two devices and two instruments: A may fire on two sessions, *)
(* and B matters for its cursor only.                                        *)
EXTENDS WatchState, TLC

CONSTANTS A, B

QuietB == {<<A, 1>>, <<A, 2>>}

DeviceSymmetry == Permutations(Devices)
===============================================================================
