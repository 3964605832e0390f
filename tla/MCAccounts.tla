----------------------------- MODULE MCAccounts -----------------------------
(* Two browsers, each seen from a place of its own: they, and with them the *)
(* places, are interchangeable.                                             *)
EXTENDS Accounts, TLC

MCIpOf == [b \in BROWSERS |-> b]

Interchangeable == Permutations(BROWSERS)
=============================================================================
