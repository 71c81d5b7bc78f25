------------------------- MODULE EmbeddedGraphProofs -------------------------
(***************************************************************************)
(* Theorems about the embedded graph backend, for every number of threads, *)
(* every set of nodes and every set of links.                              *)
(***************************************************************************)
EXTENDS EmbeddedGraph, TLAPS

-----------------------------------------------------------------------------
(* Types.  An edge a call adds joins nodes the call names.                 *)

NamesInv == \A t \in Threads : Ends(link[t]) \subseteq names[t]

TInv == TypeOK /\ NamesInv

LEMMA TypeInit == Init => TInv
BY DEF Init, TInv, TypeOK, NamesInv, Ends

LEMMA TypeAddRows ==
    ASSUME TInv, NEW t \in Threads, NEW ns \in SUBSET Nodes, NEW es \in SUBSET Links,
           Ends(es) \subseteq ns, AddRows(t, ns, es)
    PROVE  TInv'
<1>1. TypeOK'
  BY DEF AddRows, BeginCall, Outcomes, cache, TInv, TypeOK
<1>2. NamesInv'
  BY DEF AddRows, BeginCall, NamesInv, TInv, TypeOK
<1>. QED BY <1>1, <1>2 DEF TInv

LEMMA TypeNext == TInv /\ [Next]_vars => TInv'
<1>. SUFFICES ASSUME TInv, [Next]_vars PROVE TInv'
  OBVIOUS
<1>1. ASSUME NEW t \in Threads, NEW n \in Nodes, AddNode(t, n) PROVE TInv'
  <2>1. Ends({}) \subseteq {n}
    BY DEF Ends
  <2>. QED BY <1>1, <2>1, TypeAddRows DEF AddNode
<1>2. ASSUME NEW t \in Threads, NEW e \in Links, AddEdge(t, e) PROVE TInv'
  <2>1. {e[1], e[2]} \in SUBSET Nodes /\ {e} \in SUBSET Links
    BY LinksAssumption
  <2>2. Ends({e}) \subseteq {e[1], e[2]}
    BY DEF Ends
  <2>3. AddRows(t, {e[1], e[2]}, {e})
    BY <1>2 DEF AddEdge
  <2>. QED BY <2>1, <2>2, <2>3, TypeAddRows
<1>3. ASSUME NEW t \in Threads, NEW e \in Links, AddEdgeFails(t, e) PROVE TInv'
  <2>1. e[1] \in Nodes /\ e[2] \in Nodes
    BY LinksAssumption
  <2>2. PICK ns \in SUBSET Nodes : AddRowsFails(t, ns)
    BY <1>3, <2>1 DEF AddEdgeFails
  <2>. QED BY <2>2 DEF AddRowsFails, Outcomes, cache, calls, NamesInv, TInv, TypeOK
<1>4. ASSUME NEW t \in Threads, AddToCache(t) PROVE TInv'
  <2>1. TypeOK'
    BY <1>4 DEF AddToCache, Return, tables, TInv, TypeOK
  <2>2. NamesInv'
    BY <1>4 DEF AddToCache, Return, Ends, NamesInv, TInv, TypeOK
  <2>. QED BY <2>1, <2>2 DEF TInv
<1>5. ASSUME NEW t \in Threads, NEW n \in Nodes, RemoveFromCache(t, n) PROVE TInv'
  <2>1. TypeOK'
    BY <1>5 DEF RemoveFromCache, BeginCall, Touching, tables, TInv, TypeOK
  <2>2. NamesInv'
    BY <1>5 DEF RemoveFromCache, BeginCall, Ends, NamesInv, TInv, TypeOK
  <2>. QED BY <2>1, <2>2 DEF TInv
<1>6. ASSUME NEW t \in Threads, DeleteRows(t) PROVE TInv'
  <2>1. TypeOK'
    BY <1>6 DEF DeleteRows, Return, Outcomes, cache, TInv, TypeOK
  <2>2. NamesInv'
    BY <1>6 DEF DeleteRows, Return, Ends, NamesInv, TInv, TypeOK
  <2>. QED BY <2>1, <2>2 DEF TInv
<1>7. ASSUME NEW t \in Threads, DeleteRowsFails(t) PROVE TInv'
  <2>1. TypeOK'
    BY <1>7 DEF DeleteRowsFails, Return, Outcomes, cache, TInv, TypeOK
  <2>2. NamesInv'
    BY <1>7 DEF DeleteRowsFails, Return, Ends, NamesInv, TInv, TypeOK
  <2>. QED BY <2>1, <2>2 DEF TInv
<1>8. ASSUME Restart PROVE TInv'
  <2>1. Ends(dbEdges) \subseteq Nodes
    BY LinksAssumption DEF Ends, TInv, TypeOK
  <2>. QED BY <1>8, <2>1 DEF Restart, LoadNodes, Ends, tables, NamesInv, TInv, TypeOK
<1>9. ASSUME UNCHANGED vars PROVE TInv'
  BY <1>9 DEF vars, NamesInv, TInv, TypeOK
<1>. QED
  BY <1>1, <1>2, <1>3, <1>4, <1>5, <1>6, <1>7, <1>8, <1>9
  DEF Next, Add, Remove, RemoveNothing

\* The variables of the backend always have their types.
THEOREM TypeCorrect == Spec => []TypeOK
<1>1. Spec => []TInv
  BY TypeInit, TypeNext, PTL DEF Spec
<1>2. TInv => TypeOK
  BY DEF TInv
<1>. QED BY <1>1, <1>2, PTL

-----------------------------------------------------------------------------
(* A removal that was answered with Ok(true) is final.                     *)

LEMMA RemovedNext ==
    TInv /\ RemovedStaysRemoved /\ [Next]_vars => RemovedStaysRemoved'
<1>. SUFFICES ASSUME TInv, RemovedStaysRemoved, [Next]_vars PROVE RemovedStaysRemoved'
  OBVIOUS
<1>. USE DEF RemovedStaysRemoved, LoadNodes
<1>1. ASSUME NEW t \in Threads, NEW n \in Nodes, AddNode(t, n)
      PROVE  RemovedStaysRemoved'
  BY <1>1 DEF AddNode, AddRows, Outcomes
<1>2. ASSUME NEW t \in Threads, NEW e \in Links, AddEdge(t, e)
      PROVE  RemovedStaysRemoved'
  <2>1. Ends(dbEdges') \subseteq Ends(dbEdges) \cup {e[1], e[2]}
    BY <1>2 DEF AddEdge, AddRows, Ends
  <2>. QED BY <1>2, <2>1 DEF AddEdge, AddRows, Outcomes
<1>3. ASSUME NEW t \in Threads, NEW e \in Links, AddEdgeFails(t, e)
      PROVE  RemovedStaysRemoved'
  BY <1>3 DEF AddEdgeFails, AddRowsFails, Outcomes
<1>4. ASSUME NEW t \in Threads, DeleteRows(t) PROVE RemovedStaysRemoved'
  <2>1. Ends(dbEdges') \subseteq Ends(dbEdges) \ names[t]
    BY <1>4 DEF DeleteRows, Ends
  <2>. QED BY <1>4, <2>1 DEF DeleteRows, Outcomes
<1>5. ASSUME NEW t \in Threads, DeleteRowsFails(t) PROVE RemovedStaysRemoved'
  BY <1>5 DEF DeleteRowsFails, Outcomes
<1>6. ASSUME UNCHANGED <<dbNodes, dbEdges, outcome>> PROVE RemovedStaysRemoved'
  BY <1>6
<1>. QED
  BY <1>1, <1>2, <1>3, <1>4, <1>5, <1>6
  DEF Next, Add, Remove, AddToCache, RemoveFromCache, RemoveNothing, Restart,
      tables, vars

\* A node whose removal succeeded never comes back from the tables, unless it
\* is added again: not after a race, not after a failure, not after a crash.
THEOREM RemovalIsFinal == Spec => []RemovedStaysRemoved
<1>1. Init => RemovedStaysRemoved
  BY DEF Init, RemovedStaysRemoved
<1>2. Spec => []TInv
  BY TypeInit, TypeNext, PTL DEF Spec
<1>. QED BY <1>1, <1>2, RemovedNext, PTL DEF Spec

-----------------------------------------------------------------------------
(* Without failures and races the cache is what a restart would load.      *)

LEMMA InFlightInit == Init => InFlightInv
BY DEF Init, InFlightInv, Ends, InCall, AddingLinks, Away

LEMMA InFlightAddRows ==
    ASSUME TInv, InFlightInv, NEW t \in Threads, NEW ns \in SUBSET Nodes,
           NEW es \in SUBSET Links, Ends(es) \subseteq ns, AddRows(t, ns, es)
    PROVE  InFlightInv'
<1>. SUFFICES ASSUME settled' PROVE InFlightInv'
  BY DEF InFlightInv
<1>1. settled /\ ~Overlaps(t, "delete", ns)
  BY DEF AddRows
<1>2. InCall("delete")' = InCall("delete")
  BY DEF AddRows, BeginCall, InCall, TInv, TypeOK
<1>3. InCall("add_cache")' = InCall("add_cache") \cup ns
  BY DEF AddRows, BeginCall, InCall, TInv, TypeOK
<1>4. AddingLinks' = AddingLinks \cup es
  BY DEF AddRows, BeginCall, AddingLinks, TInv, TypeOK
<1>5. InCall("delete") \cap ns = {}
  BY <1>1 DEF AddRows, BeginCall, InCall, Overlaps
<1>6. dbNodes' = dbNodes \cup ns /\ dbEdges' = dbEdges \cup es /\ UNCHANGED cache
  BY DEF AddRows
<1>7. \A e \in es : e[1] \in ns /\ e[2] \in ns
  BY DEF Ends
<1>8. Ends(dbEdges') \subseteq dbNodes'
  BY <1>1, <1>6 DEF Ends, InFlightInv
<1>9. Away(InCall("delete"))' = Away(InCall("delete")) \cup es
  BY <1>2, <1>5, <1>6, <1>7 DEF Away
<1>10. Ends(cEdges') \subseteq cNodes'
  BY <1>1, <1>6 DEF cache, InFlightInv
<1>. QED
  BY <1>1, <1>2, <1>3, <1>4, <1>5, <1>6, <1>8, <1>9, <1>10 DEF cache, InFlightInv

LEMMA InFlightAddToCache ==
    ASSUME TInv, InFlightInv, NEW t \in Threads, AddToCache(t)
    PROVE  InFlightInv'
<1>. SUFFICES ASSUME settled' PROVE InFlightInv'
  BY DEF InFlightInv
<1>1. settled /\ pc[t] = "add_cache" /\ UNCHANGED tables
      /\ cNodes' = cNodes \cup names[t] /\ cEdges' = cEdges \cup link[t]
  BY DEF AddToCache
<1>2. InCall("delete")' = InCall("delete")
  BY <1>1 DEF AddToCache, Return, InCall, TInv, TypeOK
<1>3. /\ InCall("add_cache")' \subseteq InCall("add_cache")
      /\ InCall("add_cache") = InCall("add_cache")' \cup names[t]
  BY <1>1 DEF AddToCache, Return, InCall, TInv, TypeOK
<1>4. /\ AddingLinks' \subseteq AddingLinks
      /\ AddingLinks = AddingLinks' \cup link[t]
  BY <1>1 DEF AddToCache, Return, AddingLinks, TInv, TypeOK
<1>5. Ends(cEdges') \subseteq cNodes'
  BY <1>1 DEF Ends, NamesInv, TInv, InFlightInv
<1>6. Away(InCall("delete"))' = Away(InCall("delete"))
  BY <1>1, <1>2 DEF Away, tables
<1>. QED
  BY <1>1, <1>2, <1>3, <1>4, <1>5, <1>6 DEF tables, InFlightInv

LEMMA InFlightRemoveFromCache ==
    ASSUME TInv, InFlightInv, NEW t \in Threads, NEW n \in Nodes, RemoveFromCache(t, n)
    PROVE  InFlightInv'
<1>. SUFFICES ASSUME settled' PROVE InFlightInv'
  BY DEF InFlightInv
<1>1. /\ settled /\ ~Overlaps(t, "add_cache", {n}) /\ n \in cNodes
      /\ UNCHANGED tables /\ cNodes' = cNodes \ {n}
      /\ cEdges' = {e \in cEdges : e[1] # n /\ e[2] # n}
  BY DEF RemoveFromCache, Touching
<1>2. InCall("delete")' = InCall("delete") \cup {n}
  BY DEF RemoveFromCache, BeginCall, InCall, TInv, TypeOK
<1>3. InCall("add_cache")' = InCall("add_cache") /\ n \notin InCall("add_cache")
  BY <1>1 DEF RemoveFromCache, BeginCall, InCall, Overlaps, TInv, TypeOK
<1>4. AddingLinks' = AddingLinks
  BY DEF RemoveFromCache, BeginCall, AddingLinks, TInv, TypeOK
<1>5. \A e \in AddingLinks : e[1] # n /\ e[2] # n
  <2>. SUFFICES ASSUME NEW e \in AddingLinks PROVE e[1] # n /\ e[2] # n
    OBVIOUS
  <2>1. PICK u \in Threads : pc[u] = "add_cache" /\ e \in link[u]
    BY DEF AddingLinks
  <2>2. e[1] \in names[u] /\ e[2] \in names[u]
    BY <2>1 DEF NamesInv, Ends, TInv
  <2>3. e[1] \in InCall("add_cache") /\ e[2] \in InCall("add_cache")
    BY <2>1, <2>2 DEF InCall, TInv, TypeOK
  <2>. QED BY <1>3, <2>3
<1>6. Ends(cEdges') \subseteq cNodes'
  BY <1>1 DEF Ends, InFlightInv
<1>7. Away(InCall("delete"))' = {e \in Away(InCall("delete")) : e[1] # n /\ e[2] # n}
  BY <1>1, <1>2 DEF Away, tables
<1>8. Away(InCall("delete"))' = cEdges' \cup AddingLinks'
  BY <1>1, <1>4, <1>5, <1>7 DEF InFlightInv
<1>. QED
  BY <1>1, <1>2, <1>3, <1>6, <1>8 DEF tables, InFlightInv

LEMMA InFlightDeleteRows ==
    ASSUME TInv, InFlightInv, NEW t \in Threads, DeleteRows(t)
    PROVE  InFlightInv'
<1>. SUFFICES ASSUME settled' PROVE InFlightInv'
  BY DEF InFlightInv
<1>1. /\ settled /\ pc[t] = "delete" /\ UNCHANGED cache
      /\ dbNodes' = dbNodes \ names[t]
      /\ dbEdges' = {e \in dbEdges : e[1] \notin names[t] /\ e[2] \notin names[t]}
  BY DEF DeleteRows
<1>2. /\ InCall("delete")' \subseteq InCall("delete")
      /\ InCall("delete") = InCall("delete")' \cup names[t]
  BY <1>1 DEF DeleteRows, Return, InCall, TInv, TypeOK
<1>3. InCall("add_cache")' = InCall("add_cache")
  BY <1>1 DEF DeleteRows, Return, InCall, TInv, TypeOK
<1>4. AddingLinks' = AddingLinks
  BY <1>1 DEF DeleteRows, Return, AddingLinks, TInv, TypeOK
<1>5. Ends(dbEdges') \subseteq dbNodes'
  BY <1>1 DEF Ends, InFlightInv
<1>6. Away(InCall("delete"))' = Away(InCall("delete"))
  BY <1>1, <1>2 DEF Away
<1>. QED
  BY <1>1, <1>2, <1>3, <1>4, <1>5, <1>6 DEF cache, InFlightInv

LEMMA InFlightNext == TInv /\ InFlightInv /\ [Next]_vars => InFlightInv'
<1>. SUFFICES ASSUME TInv, InFlightInv, [Next]_vars PROVE InFlightInv'
  OBVIOUS
<1>1. ASSUME NEW t \in Threads, NEW n \in Nodes, AddNode(t, n) PROVE InFlightInv'
  <2>1. Ends({}) \subseteq {n}
    BY DEF Ends
  <2>. QED BY <1>1, <2>1, InFlightAddRows DEF AddNode
<1>2. ASSUME NEW t \in Threads, NEW e \in Links, AddEdge(t, e) PROVE InFlightInv'
  <2>1. {e[1], e[2]} \in SUBSET Nodes /\ {e} \in SUBSET Links
    BY LinksAssumption
  <2>2. Ends({e}) \subseteq {e[1], e[2]}
    BY DEF Ends
  <2>3. AddRows(t, {e[1], e[2]}, {e})
    BY <1>2 DEF AddEdge
  <2>. QED BY <2>1, <2>2, <2>3, InFlightAddRows
<1>3. ASSUME NEW t \in Threads, NEW e \in Links, AddEdgeFails(t, e) PROVE InFlightInv'
  BY <1>3 DEF AddEdgeFails, AddRowsFails, InFlightInv
<1>4. ASSUME NEW t \in Threads, DeleteRowsFails(t) PROVE InFlightInv'
  BY <1>4 DEF DeleteRowsFails, InFlightInv
<1>5. ASSUME Restart PROVE InFlightInv'
  <2>. SUFFICES ASSUME settled' PROVE InFlightInv'
    BY DEF InFlightInv
  <2>1. /\ Ends(dbEdges) \subseteq dbNodes /\ UNCHANGED tables
        /\ cNodes' = dbNodes /\ cEdges' = dbEdges
    BY <1>5 DEF Restart, LoadNodes
  <2>2. InCall("delete")' = {} /\ InCall("add_cache")' = {} /\ AddingLinks' = {}
    BY <1>5 DEF Restart, InCall, AddingLinks
  <2>. QED BY <2>1, <2>2 DEF tables, Ends, Away, InFlightInv
<1>6. ASSUME UNCHANGED vars PROVE InFlightInv'
  BY <1>6 DEF vars, InFlightInv, Ends, InCall, AddingLinks, Away
<1>. QED
  BY <1>1, <1>2, <1>3, <1>4, <1>5, <1>6, InFlightAddToCache,
     InFlightRemoveFromCache, InFlightDeleteRows
  DEF Next, Add, Remove, RemoveNothing

LEMMA QuiescentCache == TInv /\ InFlightInv => CacheIsDurable
<1>. SUFFICES ASSUME TInv, InFlightInv, settled, Quiescent
              PROVE  cNodes = LoadNodes(dbNodes, dbEdges) /\ cEdges = dbEdges
  BY DEF CacheIsDurable
<1>1. InCall("delete") = {} /\ InCall("add_cache") = {} /\ AddingLinks = {}
  BY DEF Quiescent, InCall, AddingLinks
<1>2. cNodes = dbNodes /\ cEdges = dbEdges /\ Ends(dbEdges) \subseteq dbNodes
  BY <1>1 DEF InFlightInv, Away
<1>. QED BY <1>2 DEF LoadNodes

\* While nothing failed and nothing raced, tables and cache differ by the calls
\* in flight: adds on their way in, removals on their way out (graph.rs).
THEOREM InFlightIsAll == Spec => []InFlightInv
<1>1. Spec => []TInv
  BY TypeInit, TypeNext, PTL DEF Spec
<1>. QED BY <1>1, InFlightInit, InFlightNext, PTL DEF Spec

\* With any number of threads, as long as no call fails and no removal races
\* with an add of its node, the idle backend answers what a restart would
\* load; and a restart restores that unless a removal was cut in half.
THEOREM CacheMatchesTables == Spec => []CacheIsDurable
<1>1. Spec => []TInv
  BY TypeInit, TypeNext, PTL DEF Spec
<1>. QED BY <1>1, InFlightIsAll, QuiescentCache, PTL
=============================================================================
