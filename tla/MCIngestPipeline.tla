--------------------------- MODULE MCIngestPipeline ---------------------------
(* IngestPipeline on a few jobs; the configurations choose how many. *)
EXTENDS IngestPipeline, TLC

Symmetry == Permutations(Jobs) \cup Permutations(ComputeIds) \cup Permutations(Checks)
===============================================================================
