------------------------------- MODULE FrontDoors -------------------------------
(***************************************************************************)
(* The five front doors of the engine on one machine: the command line     *)
(* (cli), the Python and TypeScript bindings, the MCP server and the HTTP  *)
(* server.  Each has its own rules for which store and tenant a call means *)
(* and for what it refuses before it calls the engine; users mix them.     *)
(*                                                                         *)
(* A call is taken (its arguments are parsed) and then run by the engine;  *)
(* calls of several users interleave in between.  The verbs of the engine  *)
(* are atomic here (MemoryEngine has their steps), and fail with or        *)
(* without their effect.  Contents, embeddings and metadata are left out,  *)
(* and so are the roles of the HTTP server (Server has them).              *)
(***************************************************************************)
CONSTANTS
    Users,
    Notes,          \* memory ids
    Environments,   \* the environments to look at
    Nothing         \* no session, no call, no words

\* What a user may say: of the store, when opening it, and in a call.
Names     == {"default", "other", "postgres", "no_url"}
Tenants   == {"omitted", "empty", "acme"}
Arguments == [tenant : Tenants, tier : {"exact", "other_case", "unknown"},
              links : {"none", "bad"}, id : Notes]

\* The variables Z3RNO_SQLITE_PATH, Z3RNO_DATABASE_URL and Z3RNO_TENANT_ID.
AllEnvironments == [sqlite : {"unset", "elsewhere"}, database : {"unset", "empty", "set"},
                    tenant : {"unset", "acme"}]

ASSUME EnvironmentsAssumption == Environments \subseteq AllEnvironments

Unset == [sqlite |-> "unset", database |-> "unset", tenant |-> "unset"]

Doors  == {"cli", "python", "typescript", "mcp", "http"}
Places == {"z3rno.db", "other", "elsewhere", "postgres"}

VARIABLES
    env,            \* the environment all processes run in
    session,        \* what each user has open: the door, the name, the place
    call,           \* the call each user waits for
    held,           \* the rows of all stores: <<place, tenant, id>>
    used,           \* history: the ids of store calls, taken or refused
    refused,        \* history: those that were refused
    told            \* history: what users were told is stored, as they said it

doorVars == <<env, session, call, held, used, refused, told>>

Sessions == [door : Doors, name : Names, place : Places]
Waits    == [op : {"store", "read", "forget"}, tenant : {"local", "", "acme"},
             words : Tenants \cup {Nothing}, id : Notes \cup {Nothing}]

DoorsTypeOK ==
    /\ env \in Environments
    /\ session \in [Users -> Sessions \cup {Nothing}]
    /\ call \in [Users -> Waits \cup {Nothing}]
    /\ held \subseteq Places \X {"local", "", "acme"} \X Notes
    /\ used \subseteq Notes /\ refused \subseteq used
    /\ told \subseteq [door : Doors, name : Names, words : Tenants, id : Notes]

DoorsInit ==
    /\ env \in Environments
    /\ session = [u \in Users |-> Nothing]
    /\ call = [u \in Users |-> Nothing]
    /\ held = {} /\ used = {} /\ refused = {} /\ told = {}

-----------------------------------------------------------------------------
(* Which store a door opens; {} when it refuses to *)

Named(name) == IF name = "default" THEN {"z3rno.db"} ELSE {name} \cap {"other"}

\* init, store, recall and forget know --path and its default, not the
\* environment.
CliPlace(name) == Named(name)

\* Client(): postgres needs its connection string, another backend is refused.
PythonPlace(name) == IF name = "postgres" THEN {"postgres"} ELSE Named(name)

\* Client.connect().
TypescriptPlace(name) == IF name = "postgres" THEN {"postgres"} ELSE Named(name)

EnvironmentPlace == IF env.sqlite = "unset" THEN {"z3rno.db"} ELSE {env.sqlite}

\* The environment alone; an empty url is as good as none.
McpPlace(name) ==
    IF name # "default" THEN {}
    ELSE IF env.database = "set" THEN {"postgres"} ELSE EnvironmentPlace

\* serve: flags and the environment; any url comes before any path, and an
\* empty one does not connect.
ServePlace(name) ==
    IF name = "postgres" \/ env.database = "set" THEN {"postgres"}
    ELSE IF env.database = "empty" THEN {}
    ELSE IF name = "default" THEN EnvironmentPlace ELSE Named(name)

PlacesOf(door, name) ==
    CASE door = "cli" -> CliPlace(name)
      [] door = "python" -> PythonPlace(name)
      [] door = "typescript" -> TypescriptPlace(name)
      [] door = "mcp" -> McpPlace(name)
      [] door = "http" -> ServePlace(name)

OpenDoor(u, door, name) ==
    /\ session[u] = Nothing
    /\ \E p \in PlacesOf(door, name) :
          session' = [session EXCEPT ![u] = [door |-> door, name |-> name, place |-> p]]
    /\ UNCHANGED <<env, call, held, used, refused, told>>

\* A call that runs when its process ends is lost, done or not: RunFails.
CloseDoor(u) ==
    /\ session[u] # Nothing /\ call[u] = Nothing
    /\ session' = [session EXCEPT ![u] = Nothing]
    /\ UNCHANGED <<env, call, held, used, refused, told>>

-----------------------------------------------------------------------------
(* Which tenant a call means; {} when the door asks for one *)

Said(tenant) == IF tenant = "empty" THEN "" ELSE tenant

CliTenant(tenant) == {IF tenant = "omitted" THEN "local" ELSE Said(tenant)}

\* A wrong form: only an omitted tenant has a default, and it is another one.
McpTenantOwn(tenant) ==
    {IF tenant # "omitted" THEN Said(tenant)
     ELSE IF env.tenant = "unset" THEN "" ELSE env.tenant}

\* tenant_id or _default_tenant(): the empty tenant is an omitted one.
McpTenant(tenant) ==
    {IF tenant = "acme" THEN "acme" ELSE IF env.tenant = "unset" THEN "local" ELSE env.tenant}

\* The bindings require one, and a token has one.
GivenTenant(tenant) == IF tenant = "omitted" THEN {} ELSE {Said(tenant)}

TenantsOf(door, tenant) ==
    IF door = "cli" THEN CliTenant(tenant)
    ELSE IF door = "mcp" THEN McpTenant(tenant) ELSE GivenTenant(tenant)

-----------------------------------------------------------------------------
(* Taking a call: what is refused is refused before the engine is called *)

At(u, door) == session[u] # Nothing /\ session[u].door = door /\ call[u] = Nothing

Take(u, op, tenant, words, id) ==
    /\ call' = [call EXCEPT ![u] = [op |-> op, tenant |-> tenant, words |-> words, id |-> id]]
    /\ UNCHANGED <<env, session, held, told>>

\* Ids are generated by the engine; here a store call says the one it gets.
TakeStore(u, a) ==
    /\ a.id \in Notes \ used
    /\ used' = used \cup {a.id}
    /\ \E t \in TenantsOf(session[u].door, a.tenant) : Take(u, "store", t, a.tenant, a.id)
    /\ UNCHANGED refused

RefuseStore(u, a) ==
    /\ a.id \in Notes \ used
    /\ used' = used \cup {a.id}
    /\ refused' = refused \cup {a.id}
    /\ UNCHANGED <<env, session, call, held, told>>

\* What each door's parse_tier knows, and what parse_links takes.
CliTier(a)         == a.tier # "unknown"
TypescriptTier(a)  == a.tier = "exact"
TypescriptLinks(a) == a.links # "bad"
PythonParses(a)    == a.tier = "exact" /\ a.links # "bad"

\* The tier in any case; there is no argument for links.
CliStore(u) ==
    /\ At(u, "cli")
    /\ \E a \in Arguments :
          /\ a.links = "none"
          /\ IF CliTier(a) THEN TakeStore(u, a) ELSE RefuseStore(u, a)

\* Tier and links are parsed first.
PythonStore(u) ==
    /\ At(u, "python")
    /\ \E a \in Arguments :
          IF PythonParses(a) THEN TakeStore(u, a) ELSE RefuseStore(u, a)

\* A wrong form: the links are parsed when the memory is stored.
TypescriptStoreFirst(u) ==
    /\ At(u, "typescript")
    /\ \E a \in Arguments :
          IF TypescriptTier(a) /\ TypescriptLinks(a) THEN TakeStore(u, a)
          ELSE /\ a.id \in Notes \ used
               /\ used' = used \cup {a.id} /\ refused' = refused \cup {a.id}
               /\ \E t \in TenantsOf("typescript", a.tenant) :
                     held' = held \cup {<<session[u].place, t, a.id>>}
               /\ UNCHANGED <<env, session, call, told>>

TypescriptStore(u) ==
    /\ At(u, "typescript")
    /\ \E a \in Arguments :
          IF TypescriptTier(a) /\ TypescriptLinks(a) THEN TakeStore(u, a) ELSE RefuseStore(u, a)

\* z3rno_store: no links; what passes VALID_TIERS is stored by the client.
McpStore(u) ==
    /\ At(u, "mcp")
    /\ \E a \in Arguments :
          /\ a.links = "none"
          /\ IF a.tier = "exact" THEN TakeStore(u, a) ELSE RefuseStore(u, a)

\* POST /v1/memories: the body is deserialized before the handler runs.
HttpStore(u) ==
    /\ At(u, "http")
    /\ \E a \in Arguments :
          IF a.tier = "exact" /\ a.links # "bad" THEN TakeStore(u, a) ELSE RefuseStore(u, a)

\* An id that is no uuid is refused at every door, and nothing changes.
TakeForget(u) ==
    /\ \E words \in Tenants, id \in Notes :
          \E t \in TenantsOf(session[u].door, words) : Take(u, "forget", t, Nothing, id)
    /\ UNCHANGED <<used, refused>>

CliForget(u)        == At(u, "cli") /\ TakeForget(u)
PythonForget(u)     == At(u, "python") /\ TakeForget(u)
TypescriptForget(u) == At(u, "typescript") /\ TakeForget(u)
McpForget(u)        == At(u, "mcp") /\ TakeForget(u)
HttpForget(u)       == At(u, "http") /\ TakeForget(u)

\* recall, and the audit of the doors that have one: both only read.
TakeRead(u) ==
    /\ Take(u, "read", "", Nothing, Nothing)
    /\ UNCHANGED <<used, refused>>

CliRecall(u)        == At(u, "cli") /\ TakeRead(u)
PythonRecall(u)     == At(u, "python") /\ TakeRead(u)
TypescriptRecall(u) == At(u, "typescript") /\ TakeRead(u)
McpRecall(u)        == At(u, "mcp") /\ TakeRead(u)
HttpRecall(u)       == At(u, "http") /\ TakeRead(u)

PythonAudit(u)     == At(u, "python") /\ TakeRead(u)
TypescriptAudit(u) == At(u, "typescript") /\ TakeRead(u)
McpAudit(u)        == At(u, "mcp") /\ TakeRead(u)
HttpAudit(u)       == At(u, "http") /\ TakeRead(u)

-----------------------------------------------------------------------------
(* The engine runs the call *)

Effect(u) ==
    LET row == <<session[u].place, call[u].tenant, call[u].id>>
    IN  IF call[u].op = "store" THEN held \cup {row}
        ELSE IF call[u].op = "forget" THEN held \ {row} ELSE held

Answered(u) == call' = [call EXCEPT ![u] = Nothing] /\ UNCHANGED <<env, session, used, refused>>

\* A forget is answered with a proof if there was something to forget.
RunCall(u) ==
    /\ call[u] # Nothing
    /\ held' = Effect(u)
    /\ told' = IF call[u].op = "store"
               THEN told \cup {[door |-> session[u].door, name |-> session[u].name,
                                words |-> call[u].words, id |-> call[u].id]}
               ELSE {t \in told : held' = held \/ t.id # call[u].id}
    /\ Answered(u)

\* An error of the engine, or the process ends: done or not, nothing is told;
\* and nobody can rely any more on what a failed forget named.
RunFails(u) ==
    /\ call[u] # Nothing
    /\ held' \in {held, Effect(u)}
    /\ told' = IF call[u].op = "forget"
               THEN {t \in told : t.id # call[u].id} ELSE told
    /\ Answered(u)

DoorsNext ==
    \E u \in Users :
        \/ \E d \in Doors, n \in Names : OpenDoor(u, d, n)
        \/ CloseDoor(u) \/ RunCall(u) \/ RunFails(u)
        \/ CliStore(u) \/ CliForget(u) \/ CliRecall(u)
        \/ PythonStore(u) \/ PythonForget(u) \/ PythonRecall(u) \/ PythonAudit(u)
        \/ TypescriptStore(u) \/ TypescriptForget(u) \/ TypescriptRecall(u)
        \/ TypescriptAudit(u)
        \/ McpStore(u) \/ McpForget(u) \/ McpRecall(u) \/ McpAudit(u)
        \/ HttpStore(u) \/ HttpForget(u) \/ HttpRecall(u) \/ HttpAudit(u)

DoorsSpec == DoorsInit /\ [][DoorsNext]_doorVars

-----------------------------------------------------------------------------
(* Properties *)

\* What a user may expect to find it with: the door it went in by; or, as long
\* as no variable of the environment redirects some doors and not others, any
\* door that is opened and called with the same words.
SameWords(t, d) == d = t.door \/ (env = Unset /\ t.words # "empty")

\* What the doors told their users is so: a refused store left nothing, and a
\* memory told to be stored is found at every door that is asked in the same
\* words, until a forget at any door took it away.
AsTold ==
    /\ \A row \in held : row[3] \notin refused
    /\ \A t \in told, d \in Doors :
          SameWords(t, d) =>
             \A p \in PlacesOf(d, t.name), n \in TenantsOf(d, t.words) :
                <<p, n, t.id>> \in held
=============================================================================
