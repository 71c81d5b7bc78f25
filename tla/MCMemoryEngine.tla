--------------------------- MODULE MCMemoryEngine ---------------------------
(* MemoryEngine for TLC. *)
EXTENDS MemoryEngine, TLC

\* Clients, ids and tenants are interchangeable: no definition orders them.
Symmetry == Permutations(Clients) \cup Permutations(Memories) \cup Permutations(Tenants)
=============================================================================
