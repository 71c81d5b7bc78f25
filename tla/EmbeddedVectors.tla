---------------------------- MODULE EmbeddedVectors ----------------------------
(***************************************************************************)
(* The vector backend of the embedded tier (backend/embedded/vector.rs)    *)
(* as the engine uses it: a SQLite table, and in every process that has    *)
(* the file open a cache of it, loaded once and then written through.      *)
(* The server, the command line, the two bindings and the MCP server all   *)
(* open the same default file, so several processes share it.              *)
(*                                                                         *)
(* upsert changes the table and then the cache, delete the cache and then  *)
(* the table, each under a lock of its own; threads and processes          *)
(* interleave in between, a statement may fail, and a process may end.     *)
(* The graph and audit parts of the verbs are in MemoryEngine; a tenant's  *)
(* vectors share nothing with another's: the model has one tenant.         *)
(***************************************************************************)
CONSTANTS
    Procs,          \* processes that open the file
    Workers,        \* threads of these processes; each runs one call at a time
    Home,           \* the process each worker belongs to
    Embeddables,    \* memory ids
    Idle            \* no memory

ASSUME HomeAssumption == Home \in [Workers -> Procs]
ASSUME IdleAssumption == Idle \notin Embeddables

VARIABLES
    open,           \* the processes that have the file open
    rows,           \* memories with a row in the relational table
    vtable,         \* the table vectors
    vcache,         \* the cache of each process
    todo,           \* the next step of each worker
    mem,            \* the memory its call is about
    hits,           \* what its search found
    dead,           \* history: what was forgotten when its recall began
    stored,         \* history: ids ever stored
    acked,          \* history: ids stored with a vector, and acknowledged
    purged,         \* history: ids whose vector was deleted to the end
    alone,          \* history: no other process changed the table since open
    sound,          \* history: no delete of a row failed since open
    ghost           \* history: a recall answered what was forgotten before it

vectorVars == <<open, rows, vtable, vcache, todo, mem, hits, dead, stored,
                acked, purged, alone, sound, ghost>>
history == <<acked, purged, alone, sound, ghost>>

VectorsTypeOK ==
    /\ open \subseteq Procs
    /\ rows \subseteq Embeddables /\ vtable \subseteq Embeddables
    /\ vcache \in [Procs -> SUBSET Embeddables]
    /\ todo \in [Workers -> {"idle", "upsert", "cache", "uncache", "unindex", "lookup"}]
    /\ mem \in [Workers -> Embeddables \cup {Idle}]
    /\ hits \in [Workers -> SUBSET Embeddables]
    /\ dead \in [Workers -> SUBSET Embeddables]
    /\ stored \subseteq Embeddables /\ acked \subseteq Embeddables
    /\ purged \subseteq Embeddables
    /\ alone \in [Procs -> BOOLEAN] /\ sound \in [Procs -> BOOLEAN]
    /\ ghost \in BOOLEAN

VectorsInit ==
    /\ open = {} /\ rows = {} /\ vtable = {}
    /\ vcache = [p \in Procs |-> {}]
    /\ todo = [t \in Workers |-> "idle"]
    /\ mem = [t \in Workers |-> Idle]
    /\ hits = [t \in Workers |-> {}]
    /\ dead = [t \in Workers |-> {}]
    /\ stored = {} /\ acked = {} /\ purged = {}
    /\ alone = [p \in Procs |-> TRUE]
    /\ sound = [p \in Procs |-> TRUE]
    /\ ghost = FALSE

-----------------------------------------------------------------------------
\* with_connection and load_all.
OpenFile(p) ==
    /\ p \notin open
    /\ open' = open \cup {p}
    /\ vcache' = [vcache EXCEPT ![p] = vtable]
    /\ alone' = [alone EXCEPT ![p] = TRUE]
    /\ sound' = [sound EXCEPT ![p] = TRUE]
    /\ UNCHANGED <<rows, vtable, todo, mem, hits, dead, stored, acked, purged, ghost>>

\* A command is done, a server stops, or a process dies in the middle.
ExitProcess(p) ==
    /\ p \in open
    /\ open' = open \ {p}
    /\ vcache' = [vcache EXCEPT ![p] = {}]
    /\ todo' = [t \in Workers |-> IF Home[t] = p THEN "idle" ELSE todo[t]]
    /\ mem' = [t \in Workers |-> IF Home[t] = p THEN Idle ELSE mem[t]]
    /\ hits' = [t \in Workers |-> IF Home[t] = p THEN {} ELSE hits[t]]
    /\ dead' = [t \in Workers |-> IF Home[t] = p THEN {} ELSE dead[t]]
    /\ UNCHANGED <<rows, vtable, stored, history>>

Ready(t) == todo[t] = "idle" /\ Home[t] \in open

To(t, from, to) ==
    /\ todo[t] = from
    /\ todo' = [todo EXCEPT ![t] = to]
    /\ mem' = IF to = "idle" THEN [mem EXCEPT ![t] = Idle] ELSE mem

\* Every other process that has the file open now has a stale cache.
TableChanged(t) == alone' = [p \in Procs |-> alone[p] /\ p = Home[t]]

-----------------------------------------------------------------------------
(* The vector backend *)

\* A wrong form: an error of the statement is logged and forgotten.
UpsertRowBestEffort(t) ==
    /\ To(t, "upsert", "cache")
    /\ vtable' \in {vtable, vtable \cup {mem[t]}}
    /\ TableChanged(t)
    /\ UNCHANGED <<open, rows, vcache, hits, dead, stored, acked, purged, sound, ghost>>

\* Another: the whole map of the process is written to the table.
UpsertRowWholeMap(t) ==
    /\ To(t, "upsert", "cache")
    /\ vtable' = vcache[Home[t]] \cup {mem[t]}
    /\ TableChanged(t)
    /\ UNCHANGED <<open, rows, vcache, hits, dead, stored, acked, purged, sound, ghost>>

UpsertRow(t) ==
    /\ To(t, "upsert", "cache")
    /\ vtable' = vtable \cup {mem[t]}
    /\ TableChanged(t)
    /\ UNCHANGED <<open, rows, vcache, hits, dead, stored, acked, purged, sound, ghost>>

\* The statement fails: the store ends with the error.
UpsertFails(t) ==
    /\ To(t, "upsert", "idle")
    /\ UNCHANGED <<open, rows, vtable, vcache, hits, dead, stored, history>>

UpsertCache(t) ==
    /\ To(t, "cache", "idle")
    /\ vcache' = [vcache EXCEPT ![Home[t]] = @ \cup {mem[t]}]
    /\ acked' = acked \cup {mem[t]}
    /\ UNCHANGED <<open, rows, vtable, hits, dead, stored, purged, alone, sound, ghost>>

\* delete asks the cache whether there is anything to delete.
Uncache(t) ==
    /\ To(t, "uncache", IF mem[t] \in vcache[Home[t]] THEN "unindex" ELSE "idle")
    /\ vcache' = [vcache EXCEPT ![Home[t]] = @ \ {mem[t]}]
    /\ UNCHANGED <<open, rows, vtable, hits, dead, stored, history>>

UnindexRow(t) ==
    /\ To(t, "unindex", "idle")
    /\ vtable' = vtable \ {mem[t]}
    /\ purged' = purged \cup {mem[t]}
    /\ TableChanged(t)
    /\ UNCHANGED <<open, rows, vcache, hits, dead, stored, acked, sound, ghost>>

\* The statement fails, and forget drops the error: the vector is out of the
\* cache, and back after the next open.
UnindexFails(t) ==
    /\ To(t, "unindex", "idle")
    /\ sound' = [sound EXCEPT ![Home[t]] = FALSE]
    /\ UNCHANGED <<open, rows, vtable, vcache, hits, dead, stored, acked, purged, alone, ghost>>

\* An index built from the cache for this search; it approximates, so the
\* hits are any of the cached ids.
SearchIndex(t, found) ==
    /\ Ready(t)
    /\ found \subseteq vcache[Home[t]]
    /\ To(t, "idle", "lookup")
    /\ hits' = [hits EXCEPT ![t] = found]
    /\ dead' = [dead EXCEPT ![t] = stored \ rows]
    /\ UNCHANGED <<open, rows, vtable, vcache, stored, history>>

-----------------------------------------------------------------------------
(* The verbs of the engine, as far as rows and vectors go *)

\* A wrong form: the hits themselves.
AnswerHits(t) == hits[t]

\* What recall answers: the hits that still have a row.
Answer(t) == hits[t] \cap rows

LookupRows(t) ==
    /\ To(t, "lookup", "idle")
    /\ ghost' = (ghost \/ Answer(t) \cap dead[t] # {})
    /\ hits' = [hits EXCEPT ![t] = {}]
    /\ dead' = [dead EXCEPT ![t] = {}]
    /\ UNCHANGED <<open, rows, vtable, vcache, stored, acked, purged, alone, sound>>

StoreRow(t, m, embedded) ==
    /\ Ready(t)
    /\ m \notin stored
    /\ rows' = rows \cup {m}
    /\ stored' = stored \cup {m}
    /\ todo' = [todo EXCEPT ![t] = IF embedded THEN "upsert" ELSE "idle"]
    /\ mem' = [mem EXCEPT ![t] = IF embedded THEN m ELSE Idle]
    /\ UNCHANGED <<open, vtable, vcache, hits, dead, history>>

\* A memory that is not there is answered with None, and nothing changes.
ForgetRow(t, m) ==
    /\ Ready(t)
    /\ m \in rows
    /\ rows' = rows \ {m}
    /\ todo' = [todo EXCEPT ![t] = "uncache"]
    /\ mem' = [mem EXCEPT ![t] = m]
    /\ UNCHANGED <<open, vtable, vcache, hits, dead, stored, history>>

VectorsNext ==
    \/ \E p \in Procs : OpenFile(p) \/ ExitProcess(p)
    \/ \E t \in Workers :
          \/ \E m \in Embeddables, embedded \in BOOLEAN : StoreRow(t, m, embedded)
          \/ \E m \in Embeddables : ForgetRow(t, m)
          \/ \E found \in SUBSET Embeddables : SearchIndex(t, found)
          \/ UpsertRow(t) \/ UpsertFails(t) \/ UpsertCache(t)
          \/ Uncache(t) \/ UnindexRow(t) \/ UnindexFails(t)
          \/ LookupRows(t)

VectorsSpec == VectorsInit /\ [][VectorsNext]_vectorVars

-----------------------------------------------------------------------------
(* Properties *)

\* The cache is a cache: in a process that is the only one to change the file,
\* that is in no call, and none of whose deletes failed, it is what a restart
\* would load.
CacheMatchesFile ==
    \A p \in open :
        /\ alone[p] /\ sound[p]
        /\ \A t \in Workers : Home[t] = p => todo[t] \in {"idle", "lookup"}
        => vcache[p] = vtable

\* What an upsert acknowledged is in the file while the memory is, and what a
\* delete went through with is out of it for good, however the calls of all
\* threads and processes interleave and wherever they end.
VectorsDurable ==
    /\ acked \cap rows \subseteq vtable
    /\ purged \cap vtable = {}

\* A recall answers nothing that was forgotten before it began, in whichever
\* process, although other processes still have the vector cached.
ForgottenNotAnswered == ~ghost
=============================================================================
