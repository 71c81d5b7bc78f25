-------------------------------- MODULE GraphPage --------------------------------
(***************************************************************************)
(* The graph visualizer (frontend/app/page.tsx, lib/api.ts): a page that   *)
(* lists a tenant's memories as nodes and, on a click, adds the links of a *)
(* node.  Requests run at once and their answers arrive in any order; a    *)
(* handler closes over the settings and nodes of the render it was made    *)
(* in.  Memories come and go on the server meanwhile.                      *)
(*                                                                         *)
(* A node is its id; the selected memory, the status line and the stored   *)
(* settings are left out.  Equal links are one.                            *)
(***************************************************************************)
CONSTANTS
    Tokens,         \* what the user may type in, one per tenant
    Thoughts,       \* memory ids
    Owner,          \* the tenant of an id, as its token
    Fetches,        \* the requests that may be open at once
    Closed          \* no request

ASSUME OwnerAssumption == Owner \in [Thoughts -> Tokens]

VARIABLES
    token,          \* the settings of the current render
    kept,           \* memories in the engine's tables
    linked,         \* edges in the engine's graph, <<source, target>>
    nodes, links,   \* the state of the page
    request,        \* the open requests: what, for which id, and the answer
    crossed         \* history: an expansion was answered after a later load

pageVars == <<token, kept, linked, nodes, links, request, crossed>>

Waiting == [what : {"list", "neighbors"}, token : Tokens, id : Thoughts \cup {Closed},
            done : BOOLEAN, answer : SUBSET Thoughts, old : BOOLEAN]

PageTypeOK ==
    /\ token \in Tokens
    /\ kept \subseteq Thoughts
    /\ linked \subseteq Thoughts \X Thoughts
    /\ nodes \subseteq Thoughts
    /\ links \subseteq Thoughts \X Thoughts
    /\ request \in [Fetches -> Waiting \cup {Closed}]
    /\ crossed \in BOOLEAN

PageInit ==
    /\ token \in Tokens
    /\ kept = {} /\ linked = {} /\ nodes = {} /\ links = {}
    /\ request = [c \in Fetches |-> Closed]
    /\ crossed = FALSE

-----------------------------------------------------------------------------
Open(c, what, id) ==
    /\ request[c] = Closed
    /\ request' = [request EXCEPT ![c] =
         [what |-> what, token |-> token, id |-> id, done |-> FALSE, answer |-> {},
          old |-> FALSE]]
    /\ UNCHANGED <<token, kept, linked, nodes, links, crossed>>

TypeToken(t) ==
    /\ token # t
    /\ token' = t
    /\ UNCHANGED <<kept, linked, nodes, links, request, crossed>>

\* "Save & load", and a click on a node.
LoadGraph(c)      == Open(c, "list", Closed)
ExpandNode(c, id) == id \in nodes /\ Open(c, "neighbors", id)

\* A wrong form: the links of a node, and not their other ends.
ServedLinks(q) ==
    IF q.what = "list" THEN {m \in kept : Owner[m] = q.token}
    ELSE {e \in linked : q.id = e[1] /\ Owner[q.id] = q.token}

\* The server answers for the tenant of the token: its memories, or what the
\* graph has next to an id, forgotten or not in the list.
Served(q) ==
    IF q.what = "list" THEN {m \in kept : Owner[m] = q.token}
    ELSE {m \in Thoughts : <<q.id, m>> \in linked /\ Owner[q.id] = q.token}

ServeRequest(c) ==
    /\ request[c] # Closed /\ ~request[c].done
    /\ request' = [request EXCEPT ![c].done = TRUE, ![c].answer = Served(request[c])]
    /\ UNCHANGED <<token, kept, linked, nodes, links, crossed>>

Arrived(c, what) == request[c] # Closed /\ request[c].what = what /\ request[c].done

\* Every expansion still open now belongs to an older graph.
AfterLoad(c) ==
    request' = [d \in Fetches |->
        IF d = c \/ request[d] = Closed THEN Closed
        ELSE [request[d] EXCEPT !.old = (request[d].what = "neighbors")]]

\* A wrong form: a load replaces the nodes and keeps the links.
ShowGraphKeepsLinks(c) ==
    /\ Arrived(c, "list")
    /\ nodes' = request[c].answer
    /\ AfterLoad(c)
    /\ crossed' = FALSE
    /\ UNCHANGED <<token, kept, linked, links>>

ShowGraph(c) ==
    /\ Arrived(c, "list")
    /\ nodes' = request[c].answer
    /\ links' = {}
    /\ AfterLoad(c)
    /\ crossed' = FALSE
    /\ UNCHANGED <<token, kept, linked>>

\* Neighbours that are not among the nodes are added as stubs; both states are
\* updated from their values of now.
ShowNeighbors(c) ==
    /\ Arrived(c, "neighbors")
    /\ nodes' = nodes \cup request[c].answer
    /\ links' = links \cup {<<request[c].id, n>> : n \in request[c].answer}
    /\ request' = [request EXCEPT ![c] = Closed]
    /\ crossed' = (crossed \/ request[c].old)
    /\ UNCHANGED <<token, kept, linked>>

\* The fetch throws, or the status is not ok: only the status line changes.
RequestFails(c) ==
    /\ request[c] # Closed
    /\ request' = [request EXCEPT ![c] = Closed]
    /\ UNCHANGED <<token, kept, linked, nodes, links, crossed>>

\* Other clients of the server store and forget.
Remember(m, targets) ==
    /\ m \notin kept
    /\ kept' = kept \cup {m}
    /\ linked' = linked \cup {<<m, n>> : n \in {x \in targets \ {m} : Owner[x] = Owner[m]}}
    /\ UNCHANGED <<token, nodes, links, request, crossed>>

LoseMemory(m) ==
    /\ m \in kept
    /\ kept' = kept \ {m}
    /\ linked' = {e \in linked : m \notin {e[1], e[2]}}
    /\ UNCHANGED <<token, nodes, links, request, crossed>>

PageNext ==
    \/ \E t \in Tokens : TypeToken(t)
    \/ \E c \in Fetches :
          \/ LoadGraph(c) \/ \E id \in Thoughts : ExpandNode(c, id)
          \/ ServeRequest(c) \/ ShowGraph(c) \/ ShowNeighbors(c) \/ RequestFails(c)
    \/ \E m \in Thoughts : LoseMemory(m) \/ \E ts \in SUBSET Thoughts : Remember(m, ts)

PageSpec == PageInit /\ [][PageNext]_pageVars

-----------------------------------------------------------------------------
(* Properties *)

\* The graph library cannot draw a link without its nodes.  Every link leads to
\* a node, whatever arrives when; and it starts at one too, unless an expansion
\* was answered after the graph it was clicked in had been replaced.
LinksHaveEnds ==
    \A e \in links : e[2] \in nodes /\ (crossed \/ e[1] \in nodes)
=============================================================================
