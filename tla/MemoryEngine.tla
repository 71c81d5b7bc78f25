---------------------------- MODULE MemoryEngine ----------------------------
(***************************************************************************)
(* The two writing verbs of the engine, store and forget, as they run      *)
(* concurrently over the three backends (engine/src/engine.rs).            *)
(*                                                                         *)
(* A call is a sequence of backend calls with an await between any two of  *)
(* them; nothing holds a lock or a transaction across them.  Each backend  *)
(* call is one action here, so every interleaving of calls, and every      *)
(* point at which a call can stop short, is a behaviour of the model.      *)
(*                                                                         *)
(* Contents, embeddings, metadata and relationship names are abstracted:   *)
(* a memory is its id.  A SHA-256 hash is abstracted by the id of the      *)
(* event it is the hash of, so prev is the id of an event or Genesis.      *)
(***************************************************************************)
EXTENDS Naturals, FiniteSets

CONSTANTS
    Clients,         \* calls that may be in flight at the same time
    Tenants,
    Memories,        \* the ids Uuid::new_v4 hands out to stores
    MaxLinks,        \* bound: links per store
    MaxEvents,       \* bound: audit events the model creates
    MaxBackstep,     \* 0: the wall clock always moves forward; otherwise it may
                     \* stand still, or step back this far, between two readings
    MayFail,         \* TRUE: backend errors, dropped futures and crashes
    ForgetEvents,    \* TRUE: forget may be given the id of an audit event
    ImmutableAudit,  \* TRUE: Postgres, whose trigger refuses to delete events
    StaleLinks,      \* TRUE: a store may link to a memory already forgotten
    NoCall           \* the request of a client that has no call in flight

Genesis == 0         \* what prev_hash = None stands for

Operations == {"store", "forget"}

ASSUME MemoriesAssumption == Memories \cap Nat = {}
ASSUME BoundsAssumption ==
    MaxLinks \in Nat /\ MaxEvents \in Nat /\ MaxBackstep \in Nat
ASSUME ModesAssumption ==
    {MayFail, ForgetEvents, ImmutableAudit, StaleLinks} \subseteq BOOLEAN

VARIABLES
    rows,      \* memory rows of the relational store: <<tenant, id>>
    log,       \* audit rows of the relational store
    vectors,   \* entries of the vector backend: <<tenant, id>>
    nodes,     \* nodes of the graph backend: <<tenant, id>>
    edges,     \* edges of the graph backend: <<tenant, source, target>>
    clock,     \* the last reading of the wall clock
    created,   \* how many audit events were created
    pc,        \* the next backend call of each client
    req,       \* what each client's call is about
    tip,       \* the latest_audit_hash each client last read
    event,     \* the audit event each client is about to put
    issued,    \* history: <<tenant, id>> of every memory row ever put
    acked,     \* history: <<tenant, id>> of stores that returned Ok
    proofs     \* history: the ForgetProofs returned to callers

backendVars == <<rows, log, vectors, nodes, edges>>
callVars    == <<pc, req, tip, event>>
vars == <<rows, log, vectors, nodes, edges, clock, created, pc, req, tip,
          event, issued, acked, proofs>>

StoreSteps  == {"upsert", "add_node", "add_edge"}
ForgetSteps == {"vector_delete", "remove_node"}
AuditSteps  == {"read_tip", "stamp", "put_event"}

Ids     == Memories \cup Nat
Request == [op : Operations, tenant : Tenants, id : Ids, links : SUBSET Memories]
Event   == [id : Nat, tenant : Tenants, op : Operations, mem : Ids,
            at : Nat, prev : Nat]

TypeOK ==
    /\ rows \subseteq Tenants \X Memories
    /\ log \subseteq Event
    /\ vectors \subseteq Tenants \X Memories
    /\ nodes \subseteq Tenants \X Memories
    /\ edges \subseteq Tenants \X Memories \X Memories
    /\ clock \in Nat
    /\ created \in Nat
    /\ pc \in [Clients -> {"idle"} \cup StoreSteps \cup ForgetSteps \cup AuditSteps]
    /\ req \in [Clients -> Request \cup {NoCall}]
    /\ tip \in [Clients -> Nat]
    /\ event \in [Clients -> Event \cup {NoCall}]
    /\ issued \subseteq Tenants \X Memories
    /\ acked \subseteq Tenants \X Memories
    /\ proofs \subseteq [tenant : Tenants, id : Ids, event : Nat]

Init ==
    /\ rows = {} /\ log = {} /\ vectors = {} /\ nodes = {} /\ edges = {}
    /\ clock = MaxBackstep
    /\ created = 0
    /\ pc = [c \in Clients |-> "idle"]
    /\ req = [c \in Clients |-> NoCall]
    /\ tip = [c \in Clients |-> Genesis]
    /\ event = [c \in Clients |-> NoCall]
    /\ issued = {} /\ acked = {} /\ proofs = {}

-----------------------------------------------------------------------------
(* Helpers *)

Goto(c, from, to) ==
    /\ pc[c] = from
    /\ pc' = [pc EXCEPT ![c] = to]

Return(c) ==
    /\ pc'    = [pc EXCEPT ![c] = "idle"]
    /\ req'   = [req EXCEPT ![c] = NoCall]
    /\ tip'   = [tip EXCEPT ![c] = Genesis]
    /\ event' = [event EXCEPT ![c] = NoCall]

IssuedIds == {i[2] : i \in issued}

Events(t) == {e \in log : e.tenant = t}

\* Wrong forms of Latest: the tip of the whole store, and the oldest event.
LatestOfAnyTenant(t) == {e \in log : \A f \in log : f.at <= e.at}
EarliestEvent(t)     == {e \in Events(t) : \A f \in Events(t) : e.at <= f.at}

\* Advanced::audit sorts by `at`; the last of the sorted events is the tip.
\* Events with the same `at` come in the order the backend lists them.
Latest(t) == {e \in Events(t) : \A f \in Events(t) : f.at <= e.at}

\* Ids a caller can have learned: any id that was ever put is visible to
\* list_memories at once, and audit shows the ids of the events.
Known == IssuedIds \cup (IF ForgetEvents THEN {e.id : e \in log} ELSE {})

\* Bound: every call in flight may still create one event.
Room == created + Cardinality({c \in Clients : pc[c] # "idle"}) < MaxEvents

AfterNode(links) == IF links = {} THEN "read_tip" ELSE "add_edge"

-----------------------------------------------------------------------------
(* MemoryEngine::store *)

\* The id is fresh and the put of the row is the first backend call.
StorePut(c, t, m, embedded, links) ==
    /\ Room
    /\ m \notin IssuedIds
    /\ Goto(c, "idle", IF embedded THEN "upsert" ELSE "add_node")
    /\ rows' = rows \cup {<<t, m>>}
    /\ issued' = issued \cup {<<t, m>>}
    /\ req' = [req EXCEPT ![c] =
                  [op |-> "store", tenant |-> t, id |-> m, links |-> links]]
    /\ UNCHANGED <<log, vectors, nodes, edges, clock, created, tip, event,
                   acked, proofs>>

\* A wrong form: the row is put once more, as a retried put would do.
VectorUpsertAgain(c) ==
    /\ Goto(c, "upsert", "add_node")
    /\ vectors' = vectors \cup {<<req[c].tenant, req[c].id>>}
    /\ rows' = rows \cup {<<req[c].tenant, req[c].id>>}
    /\ UNCHANGED <<log, nodes, edges, clock, created, req, tip, event,
                   issued, acked, proofs>>

VectorUpsert(c) ==
    /\ Goto(c, "upsert", "add_node")
    /\ vectors' = vectors \cup {<<req[c].tenant, req[c].id>>}
    /\ UNCHANGED <<rows, log, nodes, edges, clock, created, req, tip, event,
                   issued, acked, proofs>>

\* A wrong form: the two text columns of the row are filled in the wrong order.
AddNodeSwapped(c) ==
    /\ Goto(c, "add_node", AfterNode(req[c].links))
    /\ nodes' = nodes \cup {<<req[c].id, req[c].tenant>>}
    /\ UNCHANGED <<rows, log, vectors, edges, clock, created, req, tip, event,
                   issued, acked, proofs>>

AddNode(c) ==
    /\ Goto(c, "add_node", AfterNode(req[c].links))
    /\ nodes' = nodes \cup {<<req[c].tenant, req[c].id>>}
    /\ UNCHANGED <<rows, log, vectors, edges, clock, created, req, tip, event,
                   issued, acked, proofs>>

\* Both backends create the endpoints an edge names when they are missing.
AddEdge(c, l) ==
    /\ Goto(c, "add_edge", AfterNode(req[c].links \ {l}))
    /\ l \in req[c].links
    /\ edges' = edges \cup {<<req[c].tenant, req[c].id, l>>}
    /\ nodes' = nodes \cup {<<req[c].tenant, req[c].id>>, <<req[c].tenant, l>>}
    /\ req' = [req EXCEPT ![c].links = @ \ {l}]
    /\ UNCHANGED <<rows, log, vectors, clock, created, tip, event, issued,
                   acked, proofs>>

-----------------------------------------------------------------------------
(* MemoryEngine::forget *)

HasRow(t, x) == <<t, x>> \in rows \/ \E e \in Events(t) : e.id = x

DeleteRow(c, t, x) ==
    /\ Room
    /\ Goto(c, "idle", "vector_delete")
    /\ rows' = rows \ {<<t, x>>}
    /\ log' = log \ {e \in Events(t) : e.id = x}
    /\ req' = [req EXCEPT ![c] =
                  [op |-> "forget", tenant |-> t, id |-> x, links |-> {}]]
    /\ UNCHANGED <<vectors, nodes, edges, clock, created, tip, event, issued,
                   acked, proofs>>

\* Wrong forms of the next action: the result of the delete is not looked at;
\* the trigger is missing.
ForgetDeleteUnchecked(c, t, x)   == x \in Memories /\ DeleteRow(c, t, x)
ForgetDeleteUntriggered(c, t, x) == HasRow(t, x) /\ DeleteRow(c, t, x)

\* The delete names a row by tenant and id only, whatever its kind; the
\* trigger of the Postgres backend turns the delete of an event into an error.
ForgetDelete(c, t, x) ==
    /\ HasRow(t, x)
    /\ x \in Memories \/ ~ImmutableAudit
    /\ DeleteRow(c, t, x)

\* Nothing was deleted: the call returns None, and no event is appended.
ForgetNothing(c, t, x) ==
    /\ pc[c] = "idle"
    /\ ~HasRow(t, x)
    /\ UNCHANGED vars

\* Wrong forms: the vectors are left alone; the call ends when there is none.
VectorDeleteSkipped(c) ==
    /\ Goto(c, "vector_delete", "remove_node")
    /\ UNCHANGED <<backendVars, clock, created, req, tip, event, issued,
                   acked, proofs>>

VectorDeleteOrReturn(c) ==
    /\ pc[c] = "vector_delete"
    /\ IF <<req[c].tenant, req[c].id>> \in vectors
       THEN /\ Goto(c, "vector_delete", "remove_node")
            /\ vectors' = vectors \ {<<req[c].tenant, req[c].id>>}
            /\ UNCHANGED <<req, tip, event>>
       ELSE Return(c) /\ UNCHANGED vectors
    /\ UNCHANGED <<rows, log, nodes, edges, clock, created, issued, acked, proofs>>

\* Best effort: the result of the two deletes is dropped.
VectorDelete(c) ==
    /\ Goto(c, "vector_delete", "remove_node")
    /\ \/ vectors' = vectors \ {<<req[c].tenant, req[c].id>>}
       \/ MayFail /\ UNCHANGED vectors
    /\ UNCHANGED <<rows, log, nodes, edges, clock, created, req, tip, event,
                   issued, acked, proofs>>

\* A wrong form: the edges that point to the node stay.
RemoveNodeOutgoing(c) ==
    LET t == req[c].tenant
        x == req[c].id
    IN  /\ Goto(c, "remove_node", "read_tip")
        /\ nodes' = nodes \ {<<t, x>>}
        /\ edges' = {g \in edges : g[1] # t \/ g[2] # x}
        /\ UNCHANGED <<rows, log, vectors, clock, created, req, tip, event,
                       issued, acked, proofs>>

RemoveNode(c) ==
    LET t == req[c].tenant
        x == req[c].id
    IN  /\ Goto(c, "remove_node", "read_tip")
        /\ \/ /\ nodes' = nodes \ {<<t, x>>}
              /\ edges' = {g \in edges : g[1] # t \/ (g[2] # x /\ g[3] # x)}
           \/ MayFail /\ UNCHANGED <<nodes, edges>>
        /\ UNCHANGED <<rows, log, vectors, clock, created, req, tip, event,
                       issued, acked, proofs>>

-----------------------------------------------------------------------------
(* append_audit_event, the last part of both verbs *)

ReadTip(c) ==
    /\ Goto(c, "read_tip", "stamp")
    /\ LET last == Latest(req[c].tenant)
       IN  \/ last = {} /\ tip' = [tip EXCEPT ![c] = Genesis]
           \/ \E e \in last : tip' = [tip EXCEPT ![c] = e.id]
    /\ UNCHANGED <<backendVars, clock, created, req, event, issued, acked, proofs>>

\* AuditEvent::next reads the wall clock and hashes in the tip.
Stamp(c, at) ==
    /\ Goto(c, "stamp", "put_event")
    /\ at <= clock + 1 /\ at + MaxBackstep >= clock
    /\ MaxBackstep = 0 => at > clock
    /\ clock' = at
    /\ created' = created + 1
    /\ event' = [event EXCEPT ![c] =
                   [id |-> created + 1, tenant |-> req[c].tenant,
                    op |-> req[c].op, mem |-> req[c].id,
                    at |-> at, prev |-> tip[c]]]
    /\ UNCHANGED <<backendVars, req, tip, issued, acked, proofs>>

\* A wrong form: an error of the put is dropped, and the caller told Ok.
PutEventBestEffort(c) ==
    LET e == event[c]
    IN  /\ pc[c] = "put_event"
        /\ log' \in {log, log \cup {e}}
        /\ \/ /\ e.op = "store"
              /\ acked' = acked \cup {<<e.tenant, e.mem>>}
              /\ UNCHANGED proofs
           \/ /\ e.op = "forget"
              /\ proofs' = proofs \cup
                    {[tenant |-> e.tenant, id |-> e.mem, event |-> e.id]}
              /\ UNCHANGED acked
        /\ Return(c)
        /\ UNCHANGED <<rows, vectors, nodes, edges, clock, created, issued>>

\* The event is put and the call returns Ok; the answer may be lost.
PutEvent(c) ==
    LET e == event[c]
    IN  /\ pc[c] = "put_event"
        /\ log' = log \cup {e}
        /\ \/ /\ e.op = "store"
              /\ acked' = acked \cup {<<e.tenant, e.mem>>}
              /\ UNCHANGED proofs
           \/ /\ e.op = "forget"
              /\ proofs' = proofs \cup
                    {[tenant |-> e.tenant, id |-> e.mem, event |-> e.id]}
              /\ UNCHANGED acked
           \/ MayFail /\ UNCHANGED <<acked, proofs>>
        /\ Return(c)
        /\ UNCHANGED <<rows, vectors, nodes, edges, clock, created, issued>>

\* A backend error propagated by `?`, a dropped future, or a crash: the call
\* ends between two backend calls and what it did so far stays.
Abandon(c) ==
    /\ MayFail
    /\ pc[c] # "idle"
    /\ Return(c)
    /\ UNCHANGED <<backendVars, clock, created, issued, acked, proofs>>

-----------------------------------------------------------------------------
\* The doc of store asks for existing ids; no code looks whether they exist.
Linkable(t) == {m \in IssuedIds : StaleLinks \/ <<t, m>> \in rows}

LinkChoices(t) ==
    {links \in SUBSET Linkable(t) : Cardinality(links) <= MaxLinks}

Begin(c) ==
    \E t \in Tenants :
        \/ \E m \in Memories, embedded \in BOOLEAN, links \in LinkChoices(t) :
              StorePut(c, t, m, embedded, links)
        \/ \E x \in Known : ForgetDelete(c, t, x) \/ ForgetNothing(c, t, x)

Step(c) ==
    \/ VectorUpsert(c)
    \/ AddNode(c)
    \/ \E l \in Memories : AddEdge(c, l)
    \/ VectorDelete(c)
    \/ RemoveNode(c)
    \/ ReadTip(c)
    \/ \E at \in 1 .. clock + 1 : Stamp(c, at)
    \/ PutEvent(c)

Next == \E c \in Clients : Begin(c) \/ Step(c) \/ Abandon(c)

Spec == Init /\ [][Next]_vars

-----------------------------------------------------------------------------
(* Properties *)

WorksOn(c, t, x) == pc[c] # "idle" /\ req[c].tenant = t /\ req[c].id = x
Logged(op, t, x) == \E e \in Events(t) : e.op = op /\ e.mem = x

\* However many forgets of one memory run at once, at most one of them gets
\* past the delete: an erasure has one Forget event, and so one proof.
OneForgetEvent ==
    \A e, f \in log :
        /\ e.op = "forget" /\ f.op = "forget"
        /\ e.tenant = f.tenant /\ e.mem = f.mem
        => e = f

\* A Forget event is never true of a memory that is still (or again) stored:
\* no step of a store that was overtaken by a forget brings the row back.
ForgetIsFinal ==
    \A e \in log : e.op = "forget" => <<e.tenant, e.mem>> \notin rows

\* What a caller was told is in the log: a store that returned Ok has its
\* Store event, and a ForgetProof names an event that audit will show.
AnswersAreLogged ==
    /\ \A a \in acked : Logged("store", a[1], a[2])
    /\ \A p \in proofs : \E e \in Events(p.tenant) :
          e.id = p.event /\ e.op = "forget" /\ e.mem = p.id

\* The hash chain of audit.rs: in the order audit returns the events, each one
\* hashes in the event before it.
LastIs(events, p) ==
    IF events = {}
    THEN p = Genesis
    ELSE \E f \in events : f.id = p /\ \A g \in events : g.at <= f.at

Before(l, e) == {f \in l : f.tenant = e.tenant /\ f.at < e.at}

ChainLinear == \A e \in log : LastIs(Before(log, e), e.prev)

\* "append-only": no step takes an event out of the log.
AppendOnly == [][log \subseteq log']_vars

\* "every store/forget appends one event": a memory no call is working on has
\* its Store event and, when its row is gone, its Forget event.
EveryChangeAudited ==
    \A i \in issued :
        (\A c \in Clients : ~WorksOn(c, i[1], i[2]))
            => /\ Logged("store", i[1], i[2])
               /\ i \in rows \/ Logged("forget", i[1], i[2])

\* forget "removes a memory from every backend it may live in": once a proof
\* was returned, the vector and the graph backend know nothing of the memory.
ForgottenEverywhere ==
    \A p \in proofs :
        /\ <<p.tenant, p.id>> \notin vectors \cup nodes
        /\ \A g \in edges : g[1] = p.tenant => g[2] # p.id /\ g[3] # p.id

\* When no backend call fails, a memory whose row was deleted gets its Forget
\* event, whatever the other calls do meanwhile.
ErasureIsProved ==
    \A t \in Tenants, m \in Memories :
        (\E c \in Clients : WorksOn(c, t, m) /\ req[c].op = "forget")
            ~> Logged("forget", t, m)

-----------------------------------------------------------------------------
(* What forget promises, without calls, backends or a hash chain: see      *)
(* ErasureLedger.  A memory is live while it has a row; a Forget event is  *)
(* its certificate.                                                        *)

Certificates ==
    {<<<<e.tenant, e.mem>>, e.id>> : e \in {f \in log : f.op = "forget"}}

Told == {<<<<p.tenant, p.id>>, p.event>> : p \in proofs}

Ledger == INSTANCE ErasureLedger WITH
    Owned  <- Tenants \X Memories,
    live   <- rows,
    erased <- issued \ rows,
    certs  <- Certificates,
    told   <- Told

\* The engine implements the ledger: a memory is remembered once, erased
\* once and certified at most once, after its erasure, and every proof a
\* caller holds is a certificate.
LedgerSpec == Ledger!Spec

-----------------------------------------------------------------------------
(* The inductive invariants behind the theorems of MemoryEngineProofs.      *)

Forgetting(c) == pc[c] # "idle" /\ req[c].op = "forget"

\* What a forget deleted, a memory or an event, is gone, and nothing is about to
\* put it again.
Gone(t, x) ==
    /\ x \in Memories => <<t, x>> \in issued \ rows
    /\ x \in Nat =>
          /\ x <= created
          /\ \A e \in log : e.tenant = t => e.id # x
          /\ \A c \in Clients :
                pc[c] = "put_event" /\ event[c].tenant = t => event[c].id # x

\* The events that calls are about to put have ids of their own.
EventIdsInv ==
    /\ \A e \in log : e.id <= created
    /\ \A c \in Clients : pc[c] = "put_event" =>
          /\ event[c].id <= created
          /\ \A e \in log : e.id # event[c].id
          /\ \A d \in Clients : pc[d] = "put_event" /\ d # c
                                  => event[d].id # event[c].id

\* The claim a forget wins with its delete: what it deleted is gone, nobody else
\* forgets it, and it has no Forget event until the winner appends one.
ErasureInv ==
    /\ rows \subseteq issued
    /\ \A c \in Clients : Forgetting(c) =>
          /\ Gone(req[c].tenant, req[c].id)
          /\ ~Logged("forget", req[c].tenant, req[c].id)
          /\ \A d \in Clients :
                /\ Forgetting(d)
                /\ req[d].tenant = req[c].tenant /\ req[d].id = req[c].id
                => d = c
    /\ \A e \in log : e.op = "forget" => Gone(e.tenant, e.mem)
    /\ OneForgetEvent
    /\ EventIdsInv

\* The chain is a forest of its own tenant's events, however stale the tip that
\* an event hashes in: event ids are never reused, every event hangs from an
\* older event, and so will those that calls are about to put.
OlderIn(l, t, p, n) ==
    p = Genesis \/ \E f \in l : f.tenant = t /\ f.id = p /\ f.id < n

ChainInv ==
    /\ EventIdsInv
    /\ \A e, f \in log : e.id = f.id => e = f
    /\ \A e \in log : OlderIn(log, e.tenant, e.prev, e.id)
    /\ \A c \in Clients :
          /\ pc[c] = "stamp" => OlderIn(log, req[c].tenant, tip[c], created + 1)
          /\ pc[c] = "put_event" =>
                OlderIn(log, event[c].tenant, event[c].prev, event[c].id)

\* With one writer the tip a call holds stays the tip until its event is put.
TipInv ==
    /\ \A e, f \in log : e.at = f.at => e = f
    /\ \A e \in log : e.at <= clock
    /\ \A t \in Tenants : Events(t) # {} => Latest(t) # {}
    /\ \A c \in Clients :
          /\ pc[c] = "stamp" => LastIs(Events(req[c].tenant), tip[c])
          /\ pc[c] = "put_event" =>
                /\ \A e \in log : e.at < event[c].at
                /\ event[c].at <= clock
                /\ LastIs(Events(event[c].tenant), event[c].prev)

\* With one call at a time and no failures, whatever the vector and the graph
\* backend know of a memory has its row, or is about to be removed.
At(c, steps, i) == pc[c] \in steps /\ req[c].tenant = i[1] /\ req[c].id = i[2]

InGraph(i) ==
    \/ i \in nodes
    \/ \E g \in edges : g[1] = i[1] /\ (g[2] = i[2] \/ g[3] = i[2])

TracesInv ==
    /\ rows \subseteq issued
    /\ \A i \in vectors :
          i \in rows \/ \E c \in Clients : At(c, {"vector_delete"}, i)
    /\ \A i \in Tenants \X Memories :
          InGraph(i) => i \in rows \/ \E c \in Clients : At(c, ForgetSteps, i)
    /\ \A c \in Clients : pc[c] \in StoreSteps =>
          \A m \in {req[c].id} \cup req[c].links : <<req[c].tenant, m>> \in rows
    /\ \A c \in Clients : Forgetting(c) /\ req[c].id \in Memories =>
          /\ <<req[c].tenant, req[c].id>> \in issued \ rows
          /\ \A p \in proofs : ~(p.tenant = req[c].tenant /\ p.id = req[c].id)
    /\ \A p \in proofs :
          p.id \in Memories => <<p.tenant, p.id>> \in issued \ rows
=============================================================================
