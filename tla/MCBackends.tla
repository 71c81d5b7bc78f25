------------------------------- MODULE MCBackends -------------------------------
(***************************************************************************)
(* The storage backends below the engine, for TLC: records and vectors of  *)
(* the Postgres tier and its graph, and the graph and the vectors of the   *)
(* embedded tier.  They share no state: each is explored by itself, `part` *)
(* says which, and the others rest in one initial state.                   *)
(***************************************************************************)
EXTENDS PostgresRecords, PostgresGraph, EmbeddedGraph, EmbeddedVectors, TLC

CONSTANTS a, b, m, n, n1, n2, n3, p, q, w1, w2, w3

VARIABLE part

Parts == {"records", "age_graph", "graph", "vectors"}

MCMinted == m :> a @@ n :> b
MCPairs  == {<<m, n>>}
MCNodes  == {n1, n2, n3}
MCLinks  == {<<n1, n2>>, <<n2, n3>>}
MCHome   == w1 :> p @@ w2 :> p @@ w3 :> q

\* The ids of PostgresRecords are told apart by Minted, those of the graphs by
\* Pairs and Links, and the workers by Home; the others are interchangeable.
Symmetry == Permutations(Sessions) \cup Permutations(Threads) \cup Permutations(Embeddables)

BackendsInit ==
    /\ part \in Parts
    /\ RecordsInit /\ GraphInit /\ Init /\ VectorsInit
    /\ part # "records" => ~superuser

\* The parts take no step.
Rest(parts) ==
    /\ UNCHANGED part
    /\ "records"   \in parts => UNCHANGED recordVars
    /\ "age_graph" \in parts => UNCHANGED graphVars
    /\ "graph"     \in parts => UNCHANGED vars
    /\ "vectors"   \in parts => UNCHANGED vectorVars

BackendsNext ==
    \/ part = "records"   /\ RecordsNext /\ Rest(Parts \ {"records"})
    \/ part = "age_graph" /\ GraphNext   /\ Rest(Parts \ {"age_graph"})
    \/ part = "graph"     /\ Next        /\ Rest(Parts \ {"graph"})
    \/ part = "vectors"   /\ VectorsNext /\ Rest(Parts \ {"vectors"})

backendVars == <<part, recordVars, graphVars, vars, vectorVars>>

BackendsSpec == BackendsInit /\ [][BackendsNext]_backendVars

\* The state of every part has its type.
BackendsTypeOK == RecordsTypeOK /\ GraphTypeOK /\ TypeOK /\ VectorsTypeOK
=============================================================================
