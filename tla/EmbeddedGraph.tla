---------------------------- MODULE EmbeddedGraph ----------------------------
(***************************************************************************)
(* The embedded graph backend (engine/src/backend/embedded/graph.rs): two  *)
(* SQLite tables and a petgraph cache that is rebuilt from them on open.   *)
(*                                                                         *)
(* The connection mutex and the cache's RwLock are never held together, so *)
(* a call is two atomic parts, one on the tables and one on the cache, and *)
(* two threads may take theirs in different orders.  The statements under  *)
(* one lock of the connection are no transaction: each commits by itself,  *)
(* and a failure or a crash can leave the first ones done.                 *)
(*                                                                         *)
(* Tenants share nothing but the locks: the model has one.  Relationship   *)
(* names are left out, and equal edges are one.                            *)
(***************************************************************************)
EXTENDS FiniteSets

CONSTANTS
    Threads,        \* calls running on different threads of the process
    Nodes,          \* memory ids
    Links           \* the edges callers may add

ASSUME LinksAssumption == Links \subseteq Nodes \X Nodes

VARIABLES
    dbNodes,        \* the table graph_nodes
    dbEdges,        \* the table graph_edges
    cNodes,         \* nodes of the cache
    cEdges,         \* edges of the cache
    pc,             \* what each thread's call does next
    names,          \* the nodes each thread's call is about
    link,           \* the edges each thread's call adds, at most one
    outcome,        \* history: how the last remove_node of a node ended, or
                    \* "none" when the node was added since
    settled         \* history: no call failed, and no removal overlapped an
                    \* add of the same node, since the tables were sound

tables == <<dbNodes, dbEdges>>
cache  == <<cNodes, cEdges>>
calls  == <<pc, names, link>>
vars   == <<dbNodes, dbEdges, cNodes, cEdges, pc, names, link, outcome, settled>>

TypeOK ==
    /\ dbNodes \subseteq Nodes /\ dbEdges \subseteq Links
    /\ cNodes \subseteq Nodes /\ cEdges \subseteq Links
    /\ pc \in [Threads -> {"idle", "add_cache", "delete"}]
    /\ names \in [Threads -> SUBSET Nodes]
    /\ link \in [Threads -> SUBSET Links]
    /\ outcome \in [Nodes -> {"none", "removed", "failed"}]
    /\ settled \in BOOLEAN

Init ==
    /\ dbNodes = {} /\ dbEdges = {} /\ cNodes = {} /\ cEdges = {}
    /\ pc = [t \in Threads |-> "idle"]
    /\ names = [t \in Threads |-> {}]
    /\ link = [t \in Threads |-> {}]
    /\ outcome = [n \in Nodes |-> "none"]
    /\ settled = TRUE

-----------------------------------------------------------------------------
Ends(edges)    == {e[1] : e \in edges} \cup {e[2] : e \in edges}
Touching(n, edges) == {e \in edges : e[1] = n \/ e[2] = n}

\* load_all: the rows of graph_nodes, and the endpoints of every edge.
LoadNodes(nodes, edges) == nodes \cup Ends(edges)

BeginCall(t, step, ns, es) ==
    /\ pc[t] = "idle"
    /\ pc'    = [pc EXCEPT ![t] = step]
    /\ names' = [names EXCEPT ![t] = ns]
    /\ link'  = [link EXCEPT ![t] = es]

Return(t) ==
    /\ pc'    = [pc EXCEPT ![t] = "idle"]
    /\ names' = [names EXCEPT ![t] = {}]
    /\ link'  = [link EXCEPT ![t] = {}]

\* Another thread is in the middle of a call of the given kind on the nodes.
Overlaps(t, step, ns) ==
    \E u \in Threads \ {t} : pc[u] = step /\ names[u] \cap ns # {}

Outcomes(ns, o) == [n \in Nodes |-> IF n \in ns THEN o ELSE outcome[n]]

-----------------------------------------------------------------------------
(* add_node and add_edge: the tables first, then the cache.  add_edge also *)
(* inserts the endpoints, and the insert of a node that exists is ignored. *)

AddRows(t, ns, es) ==
    /\ BeginCall(t, "add_cache", ns, es)
    /\ dbNodes' = dbNodes \cup ns
    /\ dbEdges' = dbEdges \cup es
    /\ outcome' = Outcomes(ns, "none")
    /\ settled' = (settled /\ ~Overlaps(t, "delete", ns))
    /\ UNCHANGED cache

\* A statement fails (or the process dies there): the inserts before it stay.
AddRowsFails(t, ns) ==
    /\ pc[t] = "idle"
    /\ dbNodes' = dbNodes \cup ns
    /\ outcome' = Outcomes(ns, "none")
    /\ settled' = FALSE
    /\ UNCHANGED <<dbEdges, cache, calls>>

AddToCache(t) ==
    /\ pc[t] = "add_cache"
    /\ cNodes' = cNodes \cup names[t]
    /\ cEdges' = cEdges \cup link[t]
    /\ Return(t)
    /\ UNCHANGED <<tables, outcome, settled>>

AddNode(t, n) == AddRows(t, {n}, {})
AddEdge(t, e) == AddRows(t, {e[1], e[2]}, {e})

\* add_edge fails at its first, second or third statement.
AddEdgeFails(t, e) ==
    AddRowsFails(t, {}) \/ AddRowsFails(t, {e[1]}) \/ AddRowsFails(t, {e[1], e[2]})

-----------------------------------------------------------------------------
(* remove_node: the cache first, and the tables only if the cache had it.  *)

\* A wrong form: petgraph's Graph, or an edge list, keeps the edges.
RemoveKeepsEdges(t, n) ==
    /\ n \in cNodes
    /\ BeginCall(t, "delete", {n}, {})
    /\ cNodes' = cNodes \ {n}
    /\ settled' = (settled /\ ~Overlaps(t, "add_cache", {n}))
    /\ UNCHANGED <<tables, cEdges, outcome>>

RemoveFromCache(t, n) ==
    /\ n \in cNodes
    /\ BeginCall(t, "delete", {n}, {})
    /\ cNodes' = cNodes \ {n}
    /\ cEdges' = cEdges \ Touching(n, cEdges)
    /\ settled' = (settled /\ ~Overlaps(t, "add_cache", {n}))
    /\ UNCHANGED <<tables, outcome>>

\* The cache does not have the node: the answer is Ok(false).
RemoveNothing(t, n) ==
    /\ pc[t] = "idle"
    /\ n \notin cNodes
    /\ UNCHANGED vars

\* A wrong form: the edges that point to the node are not deleted.
DeleteOutgoing(t) ==
    /\ pc[t] = "delete"
    /\ dbNodes' = dbNodes \ names[t]
    /\ dbEdges' = {e \in dbEdges : e[1] \notin names[t]}
    /\ outcome' = Outcomes(names[t], "removed")
    /\ Return(t)
    /\ UNCHANGED <<cache, settled>>

\* Both deletes succeed: the answer is Ok(true).
DeleteRows(t) ==
    /\ pc[t] = "delete"
    /\ dbNodes' = dbNodes \ names[t]
    /\ dbEdges' = {e \in dbEdges : {e[1], e[2]} \cap names[t] = {}}
    /\ outcome' = Outcomes(names[t], "removed")
    /\ Return(t)
    /\ UNCHANGED <<cache, settled>>

\* The first or the second delete fails, or the process dies there.
DeleteRowsFails(t) ==
    /\ pc[t] = "delete"
    /\ dbNodes' \in {dbNodes, dbNodes \ names[t]}
    /\ outcome' = Outcomes(names[t], "failed")
    /\ settled' = FALSE
    /\ Return(t)
    /\ UNCHANGED <<dbEdges, cache>>

-----------------------------------------------------------------------------
\* The process ends, whatever its threads were doing, and opens the file
\* again.  Tables whose edges have all their nodes are sound.
Restart ==
    /\ cNodes' = LoadNodes(dbNodes, dbEdges)
    /\ cEdges' = dbEdges
    /\ pc' = [t \in Threads |-> "idle"]
    /\ names' = [t \in Threads |-> {}]
    /\ link' = [t \in Threads |-> {}]
    /\ settled' = (Ends(dbEdges) \subseteq dbNodes)
    /\ UNCHANGED <<tables, outcome>>

Add(t) ==
    \/ \E n \in Nodes : AddNode(t, n)
    \/ \E e \in Links : AddEdge(t, e) \/ AddEdgeFails(t, e)
    \/ AddToCache(t)

Remove(t) ==
    \/ \E n \in Nodes : RemoveFromCache(t, n) \/ RemoveNothing(t, n)
    \/ DeleteRows(t)
    \/ DeleteRowsFails(t)

Next == Restart \/ \E t \in Threads : Add(t) \/ Remove(t)

Spec == Init /\ [][Next]_vars

-----------------------------------------------------------------------------
(* Properties *)

Quiescent == \A t \in Threads : pc[t] = "idle"

\* A node whose remove_node returned Ok(true) is gone for good: unless a later
\* call adds it, no restart rebuilds it, neither from its own row nor as the
\* endpoint of an edge that was left over; whatever else ran, failed or died.
RemovedStaysRemoved ==
    \A n \in Nodes :
        outcome[n] = "removed" => n \notin LoadNodes(dbNodes, dbEdges)

\* "a pure in-memory cache rebuilt from those tables": while no call fails and
\* no removal races with an add of its node, a restart would not change what
\* the backend answers.
CacheIsDurable ==
    settled /\ Quiescent =>
        cNodes = LoadNodes(dbNodes, dbEdges) /\ cEdges = dbEdges

\* "the cache never gets ahead of the durable copy on a mid-write failure":
\* a node that remove_node failed to remove from the tables is still served.
CacheNeverAhead ==
    \A n \in Nodes :
        outcome[n] = "failed" /\ n \in dbNodes => n \in cNodes
-----------------------------------------------------------------------------
(* The inductive invariant behind CacheIsDurable.                           *)

InCall(step)  == {n \in Nodes : \E t \in Threads : pc[t] = step /\ n \in names[t]}
AddingLinks   == {e \in Links : \E t \in Threads : pc[t] = "add_cache" /\ e \in link[t]}
Away(ns)      == {e \in dbEdges : e[1] \notin ns /\ e[2] \notin ns}

\* What the tables hold beyond the cache is what the calls in flight are about:
\* nodes and edges on their way in, and a node on its way out.
InFlightInv ==
    settled =>
        /\ Ends(dbEdges) \subseteq dbNodes
        /\ Ends(cEdges) \subseteq cNodes
        /\ InCall("delete") \cap (cNodes \cup InCall("add_cache")) = {}
        /\ dbNodes \ InCall("delete") = cNodes \cup InCall("add_cache")
        /\ Away(InCall("delete")) = cEdges \cup AddingLinks

=============================================================================
