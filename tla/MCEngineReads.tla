---------------------------- MODULE MCEngineReads ----------------------------
(* EngineReads for TLC. *)
EXTENDS EngineReads, TLC

Symmetry == Permutations(Clients) \cup Permutations(Memories) \cup Permutations(Readers)
=============================================================================
