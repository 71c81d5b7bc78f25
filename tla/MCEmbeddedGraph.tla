--------------------------- MODULE MCEmbeddedGraph ---------------------------
(* EmbeddedGraph for TLC: a path of two edges over three nodes. *)
EXTENDS EmbeddedGraph, TLC

CONSTANTS n1, n2, n3

MCNodes == {n1, n2, n3}
MCLinks == {<<n1, n2>>, <<n2, n3>>}

Symmetry == Permutations(Threads)
=============================================================================
