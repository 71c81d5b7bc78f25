----------------------------- MODULE PostgresGraph -----------------------------
(***************************************************************************)
(* The graph backend of the Postgres tier (backend/postgres/graph.rs): one *)
(* Apache AGE graph per tenant, made by the first call that needs it.      *)
(*                                                                         *)
(* The statements of a call commit one by one, and calls of any number of  *)
(* sessions interleave between them: two may find the graph missing and    *)
(* both create it, which create_graph reports with one error when it saw   *)
(* the graph itself, and with another when it lost while creating.  MERGE, *)
(* too, looks before it creates, and no constraint keeps a node unique:    *)
(* two sessions that merge one node at once leave two nodes with one id.   *)
(*                                                                         *)
(* Every call targets the graph its tenant hashes to and no other: the     *)
(* model has one tenant.  A node is its id and the session that made it.   *)
(***************************************************************************)
CONSTANTS
    Callers,        \* sessions with a call on the tenant's graph
    Memories,
    Pairs           \* the edges callers may add

ASSUME PairsAssumption == Pairs \subseteq Memories \X Memories

VARIABLES
    exists,         \* the tenant's graph is in ag_graph
    nodes,          \* <<id, creator>>
    edges,          \* <<source, target>>; equal edges are one
    op,             \* the call each caller is in
    step,           \* its next statement
    about,          \* the ids a caller's call merges or removes
    adds,           \* the edge it adds, if it adds one
    absent,         \* the ids its MERGE did not find
    fate            \* history: what the calls that ended say of an id; "open"
                    \* when adds and removals overlapped, or one failed

graphVars == <<exists, nodes, edges, op, step, about, adds, absent, fate>>

GraphTypeOK ==
    /\ exists \in BOOLEAN
    /\ nodes \subseteq Memories \X Callers
    /\ edges \subseteq Pairs
    /\ op \in [Callers -> {"none", "add", "bad_edge", "neighbors", "remove"}]
    /\ step \in [Callers -> {"idle", "look", "create", "creating", "cypher", "merge"}]
    /\ about \in [Callers -> SUBSET Memories]
    /\ adds \in [Callers -> SUBSET Pairs]
    /\ absent \in [Callers -> SUBSET Memories]
    /\ fate \in [Memories -> {"open", "adding", "there", "removing", "gone"}]

GraphInit ==
    /\ exists = FALSE /\ nodes = {} /\ edges = {}
    /\ op = [c \in Callers |-> "none"]
    /\ step = [c \in Callers |-> "idle"]
    /\ about = [c \in Callers |-> {}]
    /\ adds = [c \in Callers |-> {}]
    /\ absent = [c \in Callers |-> {}]
    /\ fate = [n \in Memories |-> "gone"]

-----------------------------------------------------------------------------
Found == {n[1] : n \in nodes}

Named(o) == UNION {about[c] : c \in {d \in Callers : op[d] = o}}

Fates(c, from, to) ==
    fate' = [n \in Memories |->
               IF n \in about[c] /\ fate[n] \in from THEN to ELSE fate[n]]

Against(o) == IF o = "add" THEN Named("remove") ELSE Named("add")

\* Adds and removals that meet leave it open whether the node is there.
Awaits(n, o) ==
    IF n \in Against(o) \/ (fate[n] = "open" /\ n \in Named(o)) THEN "open"
    ELSE IF o = "add" THEN "adding" ELSE "removing"

Start(c, o, ns, es) ==
    /\ step[c] = "idle"
    /\ op'    = [op EXCEPT ![c] = o]
    /\ step'  = [step EXCEPT ![c] = "look"]
    /\ about' = [about EXCEPT ![c] = ns]
    /\ adds'  = [adds EXCEPT ![c] = es]
    /\ fate'  = [n \in Memories |->
                   IF n \in ns /\ o \in {"add", "remove"} THEN Awaits(n, o) ELSE fate[n]]
    /\ UNCHANGED <<exists, nodes, edges, absent>>

Finish(c) ==
    /\ op'     = [op EXCEPT ![c] = "none"]
    /\ step'   = [step EXCEPT ![c] = "idle"]
    /\ about'  = [about EXCEPT ![c] = {}]
    /\ adds'   = [adds EXCEPT ![c] = {}]
    /\ absent' = [absent EXCEPT ![c] = {}]

Then(c, from, to) ==
    /\ step[c] = from
    /\ step' = [step EXCEPT ![c] = to]
    /\ UNCHANGED <<op, about, adds>>

-----------------------------------------------------------------------------
(* ensure_tenant_graph *)

LookForGraph(c) ==
    /\ Then(c, "look", IF exists THEN "cypher" ELSE "create")
    /\ UNCHANGED <<exists, nodes, edges, absent, fate>>

\* create_graph looks as well.  Its error for a graph that is there (SQLSTATE
\* 3F000) is success...
CreateGraph(c) ==
    /\ Then(c, "create", IF exists THEN "cypher" ELSE "creating")
    /\ UNCHANGED <<exists, nodes, edges, absent, fate>>

\* ... otherwise it creates the graph...
GraphCreated(c) ==
    /\ ~exists
    /\ Then(c, "creating", "cypher")
    /\ exists' = TRUE
    /\ UNCHANGED <<nodes, edges, absent, fate>>

\* ... unless another session did meanwhile: that error has another code, and
\* the call fails with it.
CreationLost(c) ==
    /\ exists
    /\ step[c] = "creating"
    /\ Fates(c, {"adding", "removing"}, "open")
    /\ Finish(c)
    /\ UNCHANGED <<exists, nodes, edges>>

-----------------------------------------------------------------------------
(* The cypher statements *)

\* MERGE of add_node, and of the endpoints of add_edge: what it found...
Match(c) ==
    /\ op[c] = "add"
    /\ Then(c, "cypher", "merge")
    /\ absent' = [absent EXCEPT ![c] = about[c] \ Found]
    /\ UNCHANGED <<exists, nodes, edges, fate>>

\* A wrong form: what is created is its id, and two of them are one.
MergeIds(c) ==
    /\ step[c] = "merge"
    /\ nodes' = nodes \cup absent[c]
    /\ edges' = edges \cup adds[c]
    /\ Fates(c, {"adding"}, "there")
    /\ Finish(c)
    /\ UNCHANGED exists

\* ... it leaves, and what it did not find it creates, also when another
\* session has created it meanwhile.
Merge(c) ==
    /\ step[c] = "merge"
    /\ nodes' = nodes \cup {<<n, c>> : n \in absent[c]}
    /\ edges' = edges \cup adds[c]
    /\ Fates(c, {"adding"}, "there")
    /\ Finish(c)
    /\ UNCHANGED exists

\* cypher_literal: a text that contains $$ is refused, after the graph was made.
RefuseEdge(c) ==
    /\ op[c] = "bad_edge"
    /\ step[c] = "cypher"
    /\ Finish(c)
    /\ UNCHANGED <<exists, nodes, edges, fate>>

\* Only reads.
Neighbors(c) ==
    /\ op[c] = "neighbors"
    /\ step[c] = "cypher"
    /\ Finish(c)
    /\ UNCHANGED <<exists, nodes, edges, fate>>

\* A wrong form: one node of the id is deleted.
DetachDeleteOne(c) ==
    /\ op[c] = "remove"
    /\ step[c] = "cypher"
    /\ \E n \in {x \in nodes : x[1] \in about[c]} : nodes' = nodes \ {n}
    /\ edges' = {e \in edges : {e[1], e[2]} \cap about[c] = {}}
    /\ Fates(c, {"removing"}, "gone")
    /\ Finish(c)
    /\ UNCHANGED exists

\* DETACH DELETE: every node with the id, and their edges.
DetachDelete(c) ==
    /\ op[c] = "remove"
    /\ step[c] = "cypher"
    /\ nodes' = {n \in nodes : n[1] \notin about[c]}
    /\ edges' = {e \in edges : {e[1], e[2]} \cap about[c] = {}}
    /\ Fates(c, {"removing"}, "gone")
    /\ Finish(c)
    /\ UNCHANGED exists

\* A statement fails, or the future is dropped: those before it are committed.
GraphCallFails(c) ==
    /\ step[c] # "idle"
    /\ Fates(c, {"adding", "removing"}, "open")
    /\ Finish(c)
    /\ UNCHANGED <<exists, nodes, edges>>

StartCall(c) ==
    \/ \E n \in Memories : Start(c, "add", {n}, {})
    \/ \E e \in Pairs : Start(c, "add", {e[1], e[2]}, {e})
    \/ \E e \in Pairs : Start(c, "bad_edge", {e[1], e[2]}, {})
    \/ \E n \in Memories, o \in {"neighbors", "remove"} : Start(c, o, {n}, {})

GraphNext ==
    \E c \in Callers :
        \/ StartCall(c)
        \/ LookForGraph(c) \/ CreateGraph(c) \/ GraphCreated(c) \/ CreationLost(c)
        \/ Match(c) \/ Merge(c) \/ RefuseEdge(c) \/ Neighbors(c) \/ DetachDelete(c)
        \/ GraphCallFails(c)

GraphSpec == GraphInit /\ [][GraphNext]_graphVars

-----------------------------------------------------------------------------
(* Properties *)

\* Unless adds and removals of one id overlap or fail: a node that an add
\* acknowledged is there, and of one that remove_node acknowledged nothing is
\* left, neither a duplicate that MERGE made nor an edge.
AcknowledgedNodes ==
    \A n \in Memories :
        /\ fate[n] = "there" => n \in Found
        /\ fate[n] = "gone"  => /\ n \notin Found
                                /\ \A e \in edges : n \notin {e[1], e[2]}
=============================================================================
