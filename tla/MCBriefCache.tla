----------------------------- MODULE MCBriefCache -----------------------------
(* BriefCache with a few page loads and changes. *)
EXTENDS BriefCache, TLC

CacheSymmetry == Permutations(Readers) \cup Permutations(Writers)
===============================================================================
