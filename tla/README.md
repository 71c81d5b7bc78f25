# z3rno in TLA+

This directory specifies, model-checks and proves properties of z3rno, a memory
engine with three verbs (`store`, `recall`, `forget`) and a hash-chained audit
log, over either embedded storage (SQLite, an in-process vector index, an
in-process graph) or Postgres with pgvector and Apache AGE. Paths below are
relative to `src/` unless they name a module of this directory.

## The system

| part | state | operations | hard behaviour | what makes it correct |
|---|---|---|---|---|
| engine verbs, `engine/src/engine.rs` | none of its own: three backends | `store`, `recall`, `forget`, `advanced().audit`, `list_memories`, `neighbors` | a verb is three to six backend calls with an await between them and no lock or transaction around them; any call may fail; the caller may drop the future | a memory is erased once and never returns; answers match the log; recall returns live memories |
| audit log, `engine/src/audit.rs` | audit rows beside the memory rows | `AuditEvent::next` | the tip is read, hashed in and put by three separate steps; order is by wall clock | append-only; every event hangs from an older one of its tenant; the chain is linear |
| embedded relational, `backend/embedded/sqlite.rs` | table `records` | `put`, `get`, `delete`, `list` | memories and events share the table | one statement each, atomic |
| embedded graph, `backend/embedded/graph.rs` | two tables, one petgraph cache per tenant | `add_node`, `add_edge`, `remove_node`, `neighbors`, `load_all` | two locks never held together; statements that commit one by one; restart | the cache is what a restart would load; what was removed stays removed |
| embedded vector, `backend/embedded/vector.rs` | one table, one map per tenant and process | `upsert`, `search`, `delete`, `load_all` | as the graph, without edges; several programs open the same default file, each with a cache of its own | an acknowledged vector is in the file, a deleted one never returns, no recall shows what was forgotten |
| shared connection, `backend/embedded/conn.rs` | one `Mutex<Connection>` | `open` | groups of statements under one lock | - |
| postgres provisioning, `backend/postgres/provision.rs` and the schema parts of the others | extensions, tables, policies, triggers; advisory locks of sessions | `connect`, `ensure_extensions`, `init_schema`, `ensure_schema`, `tenant_scoped_tx` | replicas that boot at once, statements that commit one by one, exits with and without the unlock, replicas that die | schema complete before use, no collision, nobody waits for a lock forever |
| postgres relational and vector, `relational.rs`, `vector.rs` | tables `records` and `vectors` with row-level security and a trigger | the traits' operations, each one transaction | tenants follow each other on pooled sessions; `ON CONFLICT` by id; a superuser is subject to no policy | no row seen or changed across tenants, events immutable |
| postgres graph, `graph.rs` | one AGE graph per tenant | `add_node`, `add_edge`, `neighbors`, `remove_node` | a graph created on first use by several at once, `MERGE` that looks and then writes, statements that commit one by one | what was added is there, what was removed leaves nothing |
| server, `server/src/routes`, `auth` | cache entries (sessions, keys, budgets), the engine | routes for memories, audit, sessions, budgets; three ways to authenticate | requests between authentication and handler, cache outages and lost replies, expiry, restarts | changes only for a credential that allows them; an ended session stays ended; a budget answers as put |
| server cache, `server/src/cache` | one table, or Redis | `get`, `set`, `delete` | ttls rounded to seconds, eviction on read, errors taken for absence, a clock set back | nothing answered after its time, nothing lost much before it |
| server health, `routes/health.rs` | none | two checks, one status | checks that hang, time out, panic, and look at different moments | the status is that of components as they were while the probe ran |
| cli, python and typescript bindings, mcp, and the server as the fifth front door | environment, an open store | `init`/`Client`/`connect`, `store`, `recall`, `forget` | each has its own rules for store, tenant and what it refuses | what one door stored, every door finds; a refused call left nothing |
| frontend, `frontend/app/page.tsx` | nodes and links on the page | load, expand | answers in any order, the token changed meanwhile | every link has its ends |
| evals, `evals/*` | none | recall@k, MRR, percentiles, faithfulness, in three languages | rounding, empty inputs, word characters | the ports agree where they claim to |
| hash-embed, starter-kit, npm, spikes | none or offline | - | - | - |

The server, the command line and the bindings call the engine's verbs; the
server adds a cache of its own, which the engine does not know. The engine calls
the three backends through traits. On the embedded tier the backends share one
SQLite connection, on the Postgres tier one pool. No component calls back.

`PROJECT.json` lists every component with its status and every hazard with the
line where it bites and the properties that show it.

## Modules

| module | models | lines it stands for |
|---|---|---|
| `MemoryEngine` | `store`, `forget` and `append_audit_event` as concurrent calls over the backends | `engine.rs`, `audit.rs`, `sqlite.rs` |
| `ErasureLedger` | abstract: what `forget` promises | - |
| `EngineReads` | `recall` beside the writers; extends `MemoryEngine` | `engine.rs`, `embedded/vector.rs` |
| `EmbeddedGraph` | the embedded graph with threads, failures and restarts | `embedded/graph.rs` |
| `EmbeddedVectors` | the embedded vectors of several processes on one file, with the rows the verbs keep | `embedded/vector.rs`, `engine.rs` |
| `PostgresBoot` | replicas that provision one database at once | `postgres/provision.rs`, `relational.rs`, `vector.rs`, `engine.rs` |
| `PostgresRecords` | records and vectors on pooled sessions, under policies and the trigger | `postgres/relational.rs`, `vector.rs`, `provision.rs` |
| `TenantStore` | abstract: what the Postgres records promise | - |
| `PostgresGraph` | the AGE graph of a tenant | `postgres/graph.rs` |
| `Server` | authentication and the handlers | `server/src/auth`, `routes` |
| `ServerCache` | the two cache backends | `server/src/cache` |
| `TtlMap` | abstract: what `CacheBackend` promises | `cache/mod.rs` |
| `ServerHealth` | the health probes | `routes/health.rs` |
| `FrontDoors` | the five front doors side by side | `cli`, `bindings`, `mcp`, `server` |
| `GraphPage` | the graph page | `frontend` |
| `EvalMetrics` | the metrics of the three harnesses | `evals` |
| `MCMemoryEngine`, `MCEngineReads`, `MCEmbeddedGraph`, `MCBackends`, `MCSurfaces` | instances for TLC (symmetry, values of constants) | - |
| `MemoryEngineProofs`, `EngineReadsProofs`, `EmbeddedGraphProofs`, `EmbeddedVectorsProofs`, `PostgresBootProofs` | theorems about the module of the name | - |
| `BackendsProofs` | theorems about `PostgresRecords`, `PostgresGraph` and the composition in `MCBackends` | - |
| `ServerProofs` | theorems about `Server`, `ServerCache` and `ServerHealth` | - |
| `SurfacesProofs` | theorems about `GraphPage`, `FrontDoors`, `EvalMetrics` and the composition in `MCSurfaces` | - |

### MemoryEngine

One action per backend call, because the awaits between them are where calls of
other clients run and where a call can stop:

    store:   StorePut -> VectorUpsert (only with an embedding) -> AddNode -> AddEdge* -+
    forget:  ForgetDelete -> VectorDelete -> RemoveNode -------------------------------+-> ReadTip -> Stamp -> PutEvent
             ForgetNothing (no row: the call returns None)

`pc[c]` is the next backend call of client `c`, `req[c]` its arguments (`links`
shrinks as edges are added, in any order: the order of the caller's list is
arbitrary), `tip[c]` what `latest_audit_hash` answered, `event[c]` the event that
`AuditEvent::next` built. The state of the backends is five sets, `rows`, `log`,
`vectors`, `nodes` and `edges`; the two first are one table in the code and are
separated by the column `kind`. `issued`, `acked` and `proofs` are history.

* `forget` deletes by tenant and id whatever the row is, so `ForgetDelete` also
  takes the id of an event (`ForgetEvents`), unless the Postgres trigger refuses
  it (`ImmutableAudit`; the call then fails and changes nothing).
* A hash is the id of the event it was computed of. This takes SHA-256 to be
  injective on what the events differ in, which includes the time.
* The clock is a number per reading. With `MaxBackstep = 0` every reading is one more
  than the reading before; otherwise it may also be the same (two events in one
  instant) or up to `MaxBackstep` less, as a wall clock that is set.
* `Latest` is a set: events with the same time come in the order the backend
  lists them, and any of them may be the last.
* `Abandon` is an error propagated by `?`, a dropped future or a crash: the call
  ends where it is and what it did stays. `VectorDelete` and `RemoveNode` may
  fail silently, as `let _ =` lets them. `PutEvent` may lose the answer.
* A store links to ids the caller can know. The doc of `store` asks for existing
  memories and no code checks it; with `StaleLinks` a link may name a forgotten one.

A backend call is atomic here. What happens inside one on the embedded graph is
the subject of `EmbeddedGraph`; a failed `add_edge` that created endpoints and
no edge is seen there only.

### ErasureLedger

Memories are remembered once, erased once, certified at most once, after the
erasure, by a certificate with a number of its own; what a caller is told is a
certificate on record. `MemoryEngine!LedgerSpec` instantiates it: live memories
are `rows`, erased ones `issued \ rows`, certificates the Forget events, told the
returned `ForgetProof`s. One step of the ledger is a dozen of the engine's; the
steps between the delete and the event are stutters.

### EngineReads

`Search` takes the top `K` of the tenant's entries, whichever they are
(similarity is not modelled, and the approximate index is taken to return `K`
entries when there are that many), `GetHit` looks up one row and drops the id when
there is none, `Finish` hands over the answer. `liveBefore`, `capacity` and
`quiet` are history. Engine steps and reader steps interleave freely.

### EmbeddedGraph

Every method has two parts, each under its own lock: one on the tables, one on the
cache. `AddRows` then `AddToCache` for the adds, `RemoveFromCache` then
`DeleteRows` for the removal, in the code's order. Statements are no transaction:
`AddRowsFails` and `DeleteRowsFails` stop after any of them, by an error or because
the process died there. `Restart` drops the calls in flight and runs `load_all`.
`neighbors` reads `cEdges` and has no action. `outcome` and `settled` are history.
Tenants share only the locks, so there is one.

### EmbeddedVectors

`vtable` is the table, `vcache[p]` the map of process `p`, loaded by `OpenFile`.
`upsert` is `UpsertRow` then `UpsertCache`, `delete` is `Uncache` then `UnindexRow`,
in the code's order and each under its own lock; `delete` touches the table only if
the cache of its own process had the vector. `UpsertFails` ends the store,
`UnindexFails` is dropped by `forget`. A recall is `SearchIndex` (any of the cached
ids) and `LookupRows` (all lookups at once; `EngineReads` takes them one by one).
`ExitProcess` ends a process anywhere. Processes share a file because the CLI, the
bindings, the MCP server and the server have the same default path.

A vector another process stored is not in this process's cache, so a forget here
leaves it in the file: the properties say what holds all the same. What is
acknowledged is durable, what was deleted to the end stays out, and a recall, which
joins with the rows, never shows a forgotten memory.

### PostgresBoot

`Sections` are the three groups of statements of a boot, each under an advisory
lock of its own; a statement is the object it makes. `Look` and `Write` are the two
halves of an `IF NOT EXISTS` statement: in `Racing` are those that fail when the
object appeared in between (which the code's comments report), the others can be
repeated or take `duplicate_object` for success. A lock belongs to the session and
ends with it: `Close` is the pool dropped with the `Err`, `Crash` the end of the
process. `StatementFails` goes to the unlock ("bail") except at the query for the
database's name, whose `?` leaves at once ("failed", lock still held); the comment
there says the lock is always released. The wait of the others ends all the same,
because nothing keeps the pool of an engine that did not start: `LockWaitEnds` holds,
and its mutant, a caller that keeps the pool, breaks it.

### PostgresRecords and TenantStore

A call is a transaction: `Begin` sets the tenant on a pooled session, one action is
the statement and the commit, `Rollback` every other end. `Sees` is the policy of both
tables, which a superuser is not subject to. `PolicyIsExact` says what it shows on a
session that served other tenants: the rows of the call's tenant, all of them and no
others, and none between calls, apart from what the `WHERE` clauses filter. `Put` is the `ON CONFLICT (id)` upsert:
the row in the way, of whatever tenant, must pass the policy and the trigger. Under
the policy callers may put any id; for a superuser only the `WHERE` clauses are left,
and an upsert by id has none, so the model has callers put ids generated for them, as
the engine does (`Minted`). `TenantStore` says that an id has one owner, that a step of
one tenant touches nothing of another, and that an event stays.

### PostgresGraph

`LookForGraph`, `CreateGraph`, `GraphCreated` and `CreationLost` are `ensure_tenant_graph`.
Its comment promises that a caller that loses the race to create the graph succeeds. It
does when `create_graph` sees the winner's graph, which it reports as SQLSTATE 3F000, the
one code that `is_duplicate_schema` accepts; a caller that loses after that look gets
another error, and its call fails (`create_graph` is outside the repository, so this is
modelled and not claimed as a finding). `Match` and `Merge` are the two
halves of a `MERGE`, which under concurrency may create an id twice: nodes are pairs of
id and creator. `DetachDelete` removes every node of the id. `fate` is history: what the
calls that ended say of an id, "open" once adds and removals overlapped or failed.

### Server

`slot[r]` is the request between its authentication and its handler, with what was
presented (`via`, `claim`) and what it was taken for (`tenant`, `role`). A handler is one
action: its role gate and its one call of the engine or of the cache. The engine's verbs
are atomic here and take effect or not when they fail. The cache is used as `TtlMap`
promises: entries expire at any time, `Reads` is what a read may answer (in an outage SQLite
answers that there is no entry, and Redis fails the request), and a Redis command whose
reply is lost may have been carried out (`Written`). The server's `main` always configures SQLite; Redis is the
library's other backend. Any authenticated request may fetch or end any session, as in
the code. `promised`, `ended`, `revived` and `lastCap`, the budget last answered by GET
or PUT, are history. Over a SQLite cache that cannot be read, GET answers the default
whatever was put; `BudgetAnswers` names that case and excludes every other.

### ServerCache and TtlMap

Time is in half seconds, so that the rounding to whole seconds shows: `NewRow` and
`Expired` are the arithmetic of both backends (SQLite rounds a ttl down, Redis not below
a second). The eviction of an expired row may fail silently. The clock may be set back.
`TtlMap` promises that nothing is answered after its time, that nothing goes more than
the rounding before it, and that what has no ttl stays.

### ServerHealth

Two `Check` actions per probe, at different moments, then `Report`. A component that
hangs lets a check end (by the timer) only if it is reached over the network: over
SQLite the call blocks its thread and the probe hangs with it. `Gives` is what a check
gets of a component: an answer, nothing (an error, no reply in time, a panic of the
task), or, of a SQLite cache that fails to read, a miss, because `get` turns its errors
into `None`. `seen` is history: what each component had to give at the moments of the
request.

The module's docs promise a real answer of both components (`HealthyMeansAnswered`).
That is violated by the SQLite cache, which `health_swallowed` shows; `HealthHonest` is
what holds: it is exact for the engine and for Redis, and of a SQLite cache "healthy"
only says that it did not hang or panic.

### FrontDoors

What each door takes for the store (`CliPlace`, `PythonPlace`, ...) and for the tenant
(`CliTenant`, `McpTenant`, `GivenTenant`), and what it refuses before the engine is
called. Users open doors, call, and the engine runs the calls in any order. `told` is
what users were told, in their own words; `AsTold` says it is so at every door asked in
the same words as long as no environment variable redirects some doors only: the CLI's
store commands do not read the variables that `serve` and the MCP server read. Two more
differences the model keeps: the CLI takes a tier in any case while the bindings do not
(though its comment says it matches them), and an empty tenant is the default at the
MCP server and a tenant of its own elsewhere.

### GraphPage

A request keeps the token of the render it was made in and is answered at any time;
`ShowGraph` replaces nodes and links, `ShowNeighbors` adds to what is there then. Every
link has both ends, unless an expansion was answered after the graph it was clicked in
had been replaced: then its source may be missing, and `crossed` records it.

### EvalMetrics

Pure operators over inputs that grow step by step: rankings, texts over six characters
and numbers of samples. The ports agree on ASCII without underscores; a word character
is something else in each language beyond that.

### MCBackends and MCSurfaces

Components that share no state are explored in one run each: `part` says which one
moves, the others rest in one initial state, so the states add up and do not multiply.

## Runs

| run | instance | shows |
|---|---|---|
| `engine_concurrent` | 2 clients, 2 tenants, 2 memories, 1 link, 3 events, failures, a clock that may stand still or step back by 1, Postgres trigger | type, `ForgetIsFinal`, `AnswersAreLogged`, `AppendOnly`, the ledger refinement, the inductive invariants `ErasureInv` and `ChainInv` |
| `engine_reliable` | 2 clients, 2 memories, 1 reader with `K = 2`, 4 events, no failures | `RecallReturnsLive`, `EveryChangeAudited`, liveness `ErasureIsProved` |
| `engine_sequential` | 1 client, 3 memories, up to 2 links, 5 events, 1 reader, no failures | `ForgottenEverywhere`, `StaleVectorsAreInert`, `ChainLinear` |
| `postgres_boot` | 2 replicas, failures, crashes | `ServingIsProtected`, `NoCollision`, liveness `LockWaitEnds` |
| `backends` | records: 2 sessions, 2 tenants, 2 ids, both roles; Postgres graph: 2 callers, 2 nodes, 1 edge; embedded graph: 2 threads, 3 nodes, 2 links in a path, failures, restarts; vectors: 2 processes, 3 workers, 2 ids | `PolicyIsExact`, the refinement of `TenantStore`, `AcknowledgedNodes`, `RemovedStaysRemoved`, `CacheIsDurable`, the inductive invariant `InFlightInv`, `VectorsDurable`, `CacheMatchesFile`, `ForgottenNotAnswered` |
| `surfaces` | see the bounds | `PromiseSpec` (the refinement of `TtlMap`), `Entitled`, `EndedStaysEnded`, `BudgetAnswers`, `HealthHonest`, `LinksHaveEnds`, `AsTold`, `PortsAgree` |
| `engine_fork` | 2 clients, no failures | violated: `ChainLinear` |
| `engine_event_erased` | 1 client, embedded tier, event ids | violated: `AppendOnly` |
| `engine_unaudited` | 1 client, failures | violated: `EveryChangeAudited` |
| `engine_stale_vector` | 2 clients, `K = 1`, no failures | violated: `StaleVectorsAreInert` |
| `graph_cache_ahead` | 1 thread, failures | violated: `CacheNeverAhead` |
| `health_swallowed` | 2 probes | violated: `HealthyMeansAnswered` |

Bounds. `Memories` bounds the stores, `MaxEvents` the calls (each call that gets
past its first backend call creates at most one event, and `Room` reserves it, so
no call is stuck for want of an event), `MaxLinks` the links of one store. Three
events on two calls cover a fork, two forgets of one memory, a forget that overtakes
a store, and a third call that meets what they left. Two tenants are there for the
isolation of the chains; the other engine runs have one, since no action relates two
tenants. Three nodes and a path of two links are the least graph in which removing
the middle node must take an edge in each direction.

Two replicas suffice for every collision of the boot, because a section has one lock
and a third replica only waits. Two ids with one owner each, on two sessions, cover a
put that meets a row or an event of the other tenant. Three workers on two processes
cover a race inside a process and a stale cache beside it.

Bounds of `surfaces`. Cache: 2 keys, ttls of nothing to two and a half seconds, the clock
up to three seconds. Server: 2 requests, 2 tenants, 4 claims (one tenant's write and a
superadmin's, the other's admin and audit), 1 memory, 1 session, 1 key, caps 0 and 7 of
one tenant. Health: 2 probes that overlap. Page: 2 memories, 2 requests, 2 tokens. Doors: 2 users, 1 memory, 3
environments (nothing set, the server's url set, everything else set). Metrics: 3
documents, texts of up to 3 characters, up to 100 samples.

`surfaces.cfg` turns the deadlock check off because the inputs of the metrics come to
an end; in every other run it is on: a call, a recall, a restart or a boot is always
possible.

The six violations are disagreements between
what a comment of the code says and what the code does; `PROJECT.json` quotes both
sides. Each of these properties also holds under conditions some passing run
states, except `CacheNeverAhead`, which is about a failure: a cache that does not
swallow its errors for `HealthyMeansAnswered` (by `HealthHonest`), one writer for
`ChainLinear`, the Postgres trigger for `AppendOnly`, no failures for
`EveryChangeAudited`, no forget racing its store for `StaleVectorsAreInert`.

Fairness. `FairReadsSpec` asks weak fairness of each client's next backend call
and nothing of beginning a call or of recalls: a spawned future is polled until it
is done, and a backend call that does not fail returns. `ErasureIsProved` is only
claimed without failures; with them it is false, as `engine_unaudited` shows.
`FairSpec` of `PostgresBoot` asks weak fairness of a replica's own steps (`Look`, `Write`,
`Unlock`, `Close`: a boot that runs goes on, and a failed one is dropped) and strong
fairness of `Lock`, because Postgres queues the waiters of a lock; nothing of
connecting, failing or crashing.

Each property of a passing run is paired with a mutant, a wrong form of one action
or helper that a plausible bug would produce; the wrong forms stand right before
the definition they replace and are used nowhere else.

## Proofs

All theorems are for every value of the constants. Each invariant, action property
and refinement that a passing run checks is the subject of one.

| theorem | statement | from |
|---|---|---|
| `MemoryEngineProofs!TypeCorrect` | `Spec => []TypeOK` | - |
| `LogIsAppendOnly` | `Spec => AppendOnly` | `NoEventErasure` |
| `ErasureIsSound` | `Spec => [](OneForgetEvent /\ ForgetIsFinal)` | - |
| `ErasureClaims` | `Spec => []ErasureInv` | - |
| `ChainIsAForest` | `Spec => []ChainInv` | `NoEventErasure` |
| `AnswersAreOnRecord` | `Spec => []AnswersAreLogged` | `NoEventErasure` |
| `EngineImplementsLedger` | `Spec => LedgerSpec` | `NoEventErasure` |
| `SingleWriterChain` | `Spec => []ChainLinear` | `NoEventErasure`, `SingleWriter` |
| `ChangesAreAudited` | `Spec => []EveryChangeAudited` | `NoEventErasure`, `~MayFail` |
| `ForgetLeavesNothing` | `Spec => []ForgottenEverywhere` | `UndisturbedCalls` |
| `EngineReadsProofs!RecallsOnlyRead` | `ReadsSpec => Spec` | - |
| `ReadsTypeCorrect` | `ReadsSpec => []ReadsTypeOK` | `IsFiniteSet(Memories)` |
| `RecallIsLive` | `ReadsSpec => []RecallReturnsLive` | `IsFiniteSet(Memories)` |
| `RecallIsFull` | `ReadsSpec => []StaleVectorsAreInert` | `IsFiniteSet(Memories)`, `UndisturbedCalls` |
| `EmbeddedGraphProofs!TypeCorrect` | `Spec => []TypeOK` | - |
| `RemovalIsFinal` | `Spec => []RemovedStaysRemoved` | - |
| `InFlightIsAll`, `CacheMatchesTables` | `Spec => []InFlightInv`, `Spec => []CacheIsDurable` | - |
| `EmbeddedVectorsProofs!VectorsAreDurable` | `VectorsSpec => []VectorsDurable` | - |
| `CachesMatchTheFile`, `ForgottenIsNotAnswered` | `VectorsSpec => []CacheMatchesFile`, `[]ForgottenNotAnswered` | - |
| `PostgresBootProofs!LocksAreHeldInside` | `Spec => []LockInv` | - |
| `ServingReplicasAreProtected`, `BootsDoNotCollide` | `Spec => []ServingIsProtected`, `[]NoCollision` | - |
| `BackendsProofs!ContextsAreTheCallers` | `RecordsSpec => []ContextInv` | - |
| `PoliciesAreExact` | `RecordsSpec => []PolicyIsExact` | - |
| `RecordsImplementStore` | `RecordsSpec => StoreSpec` | - |
| `GraphKeepsItsWord` | `GraphSpec => []AcknowledgedNodes` | - |
| `BackendsCompose` | `BackendsSpec => RecordsSpec /\ GraphSpec /\ VectorsSpec` | - |
| `BackendsTypeCorrect` | `BackendsSpec => []BackendsTypeOK` | - |
| `ServerProofs!SessionsEndForGood` | `ServerSpec => []EndedStaysEnded` | - |
| `BudgetsAnswerAsPut` | `ServerSpec => []BudgetAnswers` | - |
| `ChangesAreEntitled` | `ServerSpec => Entitled` | - |
| `CacheKeepsPromise` | `CacheSpec => PromiseSpec` | - |
| `HealthIsHonest` | `HealthSpec => []HealthHonest` | - |
| `SurfacesProofs!PageLinksHaveEnds` | `PageSpec => []LinksHaveEnds` | - |
| `DoorsKeepTheirWord` | `DoorsSpec => []AsTold` | - |
| `PortsAlwaysAgree` | `MetricsSpec => []PortsAgree` | - |
| `SurfacesCompose` | `SurfacesSpec =>` the specifications of its six parts | - |
| `SurfacesTypeCorrect` | `SurfacesSpec => []SurfacesTypeOK` | - |

The type invariant of every single component is a theorem as well
(`RecordsTypeCorrect`, `GraphTypeCorrect`, `VectorsTypeCorrect`, `CacheTypeCorrect`, ...).
The assumptions the constants are declared with are used throughout. `BackendsCompose`
and `SurfacesCompose` carry what is proved of a part alone over to the compositions the
runs `backends` and `surfaces` check, and `RecallsOnlyRead` what is proved of the
writers to the runs with readers.

`NoEventErasure` says that the Postgres trigger is in place or that callers do not
hand event ids to `forget`; without it `engine_event_erased` refutes the
statements. `SingleWriter` is one client and a clock whose readings grow; without it
`engine_fork` refutes the statement. `UndisturbedCalls` is one call at a time, no
failures, and stores that link to stored memories; without it `engine_stale_vector`
refutes `RecallIsFull`, and a store that is overtaken by a forget (or a delete whose
error is dropped, or a link to a forgotten memory, which makes its node again) refutes
`ForgetLeavesNothing`. Failures are allowed in every theorem that names neither
`~MayFail` nor `UndisturbedCalls`.

* `ErasureInv` is why an erasure is proved at most once. `ForgetIsFinal` is not
  inductive: a forget in flight would append an event of a memory that is stored or
  already has one. The invariant adds the claim the delete gives: while a forget is past
  its delete, what it deleted is gone (`Gone`), has no Forget event and no other forget
  in flight, because a delete succeeds once. Without a trigger the thing deleted may be
  an audit event, and a Forget event may be deleted in turn; the claim holds all the
  same, because ids of events are not reused either (`EventIdsInv`), so soundness of the
  erasure needs no assumption although the log is then not append-only.
* `ChainInv` says that every event hangs from an older one of its tenant. To be inductive
  it says so of the events that calls are about to put as well, and that event ids are
  not reused and the tip a call holds is in the log of its tenant: with an append-only
  log a stale tip is still an event, and an older one.
* `TipInv` is what one writer adds: the tip a call holds stays the tip.
* `EngineImplementsLedger` maps each step. `StorePut`, `ForgetDelete` of a memory and
  `PutEvent` of a Forget event are `Remember`, `Erase` and `Certify`, every other
  step a stutter; that the certificate is new comes from `ErasureInv` and `ChainInv`.
* `RecallIsLive` rests on `IndexedInv` (a vector is written after its row, and a row
  never returns), so an id the search found is a memory that was live then, or is
  gone for good.
* `InFlightInv` says what the tables hold beyond the cache: the nodes and links of
  adds on their way in and of removals on their way out. It implies that both agree
  when no call is in flight. `settled` records that no statement failed and no
  removal overlapped an add of its node since the tables were last sound; both do
  break the agreement.
* `ChangesAreAudited` rests on `OwedInv`: without failures a row without a Store event,
  or an issued memory without a row and a Forget event, has a call in flight that will
  append it.
* `ForgetLeavesNothing` rests on `TracesInv`: what the vector and the graph backend know
  has its row, or belongs to the forget whose delete is next; a store in flight and the
  memories it links to have their rows. `RecallIsFull` follows with `QuietInv`: when no call
  is in flight every vector has its row, so the search returns as many hits as there are
  memories to recall, and each lookup moves a hit to the answers and loses none.
* `VectorsAreDurable` rests on one fact, spread over `StoredInv`, `CallInv` and
  `WriteInv`: a memory is stored once, so its vector is written by one thread, is nowhere
  before that write and in the table after it until a delete. A delete that finds it in a
  cache therefore runs after the write, and its effect is final. `CacheInv` adds for
  `CachesMatchTheFile` that table and cache differ by calls in flight only.
* `ServingReplicasAreProtected`: `ServingIsProtected` is not inductive; `BootInv` says
  that the objects of the statements a replica has behind it are in the database, which
  holds on because nothing drops an object. `BootsDoNotCollide` needs the other half:
  what a replica looked for and missed is still missing, because `LockInv` keeps other
  replicas out of the section and sections make different objects.
* `RecordsImplementStore` rests on `ContextInv`: a session's tenant is that of the call
  it runs, an id has one row, and under a superuser the row in the way of a put belongs to
  the tenant its id was generated for.
* `GraphKeepsItsWord`: `FateInv` says what the fate of an id, as long as it is not open,
  means for the calls in flight: no add meets a removal, and an add that found the node
  can rely on it, since only a removal takes it. `CallsInv` says that a call writes only
  what it is about. That a removal leaves nothing of an id made twice comes from the
  pairs of id and creator: all of them go.
* `CacheKeepsPromise` relates a row's `expires_at` to `due`, when its caller may expect it
  gone: at most as late, and at most a second and a half earlier. Every step is a step of
  the map, `Environment` or a stutter.
* The invariant of `ServerProofs` ties each slot to its claim (a role is the claimed one,
  a superadmin is the operator), an ended session to an entry that is unset, and a
  budget to `promised`.

* `HealthIsHonest` rests on `FindingsInv`: what a check found was so at a moment between
  the start of its probe and now, which the report may cite however the component
  changed since.
* `PageLinksHaveEnds` rests on `FetchInv`: an expansion of the graph that is shown is
  about one of its nodes; every replacement of the graph makes the open ones old.
* `DoorsKeepTheirWord` rests on `CallsInv` of its module (a session is at the place its door
  opens, a store has an id of its own and was not refused) and on lemmas about the rules
  of the five doors: what a door opens and means is a function of the environment, and
  where no variable redirects only some of them the doors that agree on the words agree
  on place and tenant.
* `PortsAlwaysAgree` is arithmetic (the nearest rank lies between 1 and the number of
  samples), the least index of a hit (by well-founded descent on the naturals, since
  reciprocal rank is defined by the first one), and the lemma that the words of a text
  depend only on which of its characters are word characters.

Only model-checked: the liveness of `ErasureIsProved` and `LockWaitEnds`, which is out of
the prover's reach, as fairness is in general; and the six violations, which are
counterexamples.

## Not modelled

* Embeddings, similarity and the HNSW index, and `hash-embed` (floating point); which
  ids a search finds is left open.
* Contents, metadata, SQL and Cypher texts, the hash that names a tenant's graph, the
  encoding of rows, value conversions of the bindings, HTTP and its middleware.
* Signatures, leeway and expiry of tokens: a token is valid or not. The dimension of the
  vector column, and with it the choice of the index.
* A second process on the embedded graph. Its cache has the shape of the vectors',
  where two processes are modelled.
* Observability (counters and spans no handler reads), the starter kit, the npm
  launcher, the spikes, and the runners and data sets of the evals: sequential input and
  output without state of their own.
