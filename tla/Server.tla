--------------------------------- MODULE Server ---------------------------------
(***************************************************************************)
(* The HTTP server (server/src): a request is authenticated, and then its  *)
(* handler runs: it checks the role and makes one call of the engine or of *)
(* the cache.  Requests interleave between the two, the cache fails and    *)
(* recovers, entries expire, and the server restarts.                      *)
(*                                                                         *)
(* The cache is used as TtlMap promises; the promise is shown to hold in   *)
(* ServerCache.  The engine's verbs are atomic here (MemoryEngine has      *)
(* their steps), and fail with or without their effect.                    *)
(*                                                                         *)
(* A token or key is what it claims, a tenant and a role; a session is its *)
(* id and tenant; the six caps of a budget are one number.                 *)
(***************************************************************************)
EXTENDS Naturals

CONSTANTS
    Requests,       \* requests handled at once
    Orgs,           \* tenants
    Budgeted,       \* those whose budgets are looked at (a bound)
    Claims,         \* <<tenant, role>>: what tokens and key entries may say
    Facts,          \* memory ids
    SessionIds,
    ApiKeys,
    Caps,           \* budgets a superadmin may set; 0: no override
    DefaultCap,     \* server_defaults
    None            \* no tenant, no entry, no request

Roles    == {"admin", "write", "read", "audit"}
AllRoles == Roles \cup {"superadmin"}

ASSUME ClaimsAssumption == \A c \in Claims : c \in Orgs \X STRING
ASSUME BudgetedAssumption == Budgeted \subseteq Orgs
ASSUME CapsAssumption == Caps \subseteq Nat /\ 0 \in Caps /\ DefaultCap \in Nat \ {0}
ASSUME NoneAssumption == None \notin Orgs /\ None \notin Caps /\ None \notin Claims

VARIABLES
    redis,          \* the cache is Redis, not SQLite
    cacheUp,        \* the cache can be read and written
    sessions,       \* entries session:<id>, the tenant
    keyring,        \* entries apikey:<hash>, a claim
    budgets,        \* entries budget:<tenant>
    memories,       \* <<tenant, id>>: the engine's rows
    slot,           \* what each request was authenticated as, or None
    born,           \* history: the session ids ever generated
    ended,          \* history: the sessions whose end was acknowledged
    promised,       \* history: the budget last acknowledged, None before the
                    \* first; with those of failed puts that may have applied
    revived,        \* history: an ended session was fetched
    lastCap         \* history: <<the cap last answered, the cache was up>>

serverVars == <<redis, cacheUp, sessions, keyring, budgets, memories, slot, born,
                ended, promised, revived, lastCap>>

\* via and claim are what was presented (a token and a key are credentials),
\* tenant and role what it was taken for.
Contexts ==
    [via : {"credential", "operator"}, claim : Claims \cup {None},
     tenant : Orgs \cup {None}, role : AllRoles]

ServerTypeOK ==
    /\ redis \in BOOLEAN /\ cacheUp \in BOOLEAN
    /\ sessions \in [SessionIds -> Orgs \cup {None, "unset"}]
    /\ keyring \in [ApiKeys -> Claims \cup {None}]
    /\ budgets \in [Orgs -> Caps \cup {None}]
    /\ memories \subseteq Orgs \X Facts
    /\ slot \in [Requests -> Contexts \cup {None}]
    /\ born \subseteq SessionIds /\ ended \subseteq born
    /\ promised \in [Orgs -> SUBSET (Caps \cup {None})]
    /\ revived \in BOOLEAN
    /\ lastCap \in [Orgs -> (Nat \X BOOLEAN) \cup {None}]

ServerInit ==
    /\ redis \in BOOLEAN /\ cacheUp = TRUE
    /\ sessions = [s \in SessionIds |-> "unset"]
    /\ keyring = [k \in ApiKeys |-> None]
    /\ budgets = [t \in Orgs |-> None]
    /\ memories = {}
    /\ slot = [r \in Requests |-> None]
    /\ born = {} /\ ended = {}
    /\ promised = [t \in Orgs |-> {None}]
    /\ revived = FALSE
    /\ lastCap = [t \in Orgs |-> None]

-----------------------------------------------------------------------------
(* Reading the cache: what is answered, if anything is *)

\* A wrong form: an error of Redis is taken for a miss too.
ReadsQuietly(entry, absent) == {IF cacheUp THEN entry ELSE absent}

\* A failed read of SQLite is a miss (.ok()); of Redis, an error, and with it
\* the request fails.
Reads(entry, absent) == IF cacheUp THEN {entry} ELSE IF redis THEN {} ELSE {absent}

-----------------------------------------------------------------------------
(* Authentication *)

\* A wrong form: the role is taken as it is claimed.
MapRoleAny(role) == IF role \in AllRoles THEN role ELSE None

\* superadmin is never claimed.
MapRole(role) == IF role \in Roles THEN role ELSE None

Admit(r, claim) ==
    /\ slot[r] = None
    /\ MapRole(claim[2]) # None
    /\ slot' = [slot EXCEPT ![r] =
         [via |-> "credential", claim |-> claim, tenant |-> claim[1], role |-> MapRole(claim[2])]]
    /\ UNCHANGED <<redis, cacheUp, sessions, keyring, budgets, memories, born, ended,
                   promised, revived, lastCap>>

\* A token signed with this server's secret that has not expired.  A missing or
\* malformed header, another secret and an unknown role are answered 401.
AuthenticateJwt(r) == \E c \in Claims : Admit(r, c)

\* An unknown key and a failed read are answered with an error.
AuthenticateApiKey(r, k) ==
    \E claim \in Reads(keyring[k], None) : claim # None /\ Admit(r, claim)

\* The pre-shared key is compared before the cache is asked.
AuthenticateOperator(r) ==
    /\ slot[r] = None
    /\ slot' = [slot EXCEPT ![r] =
         [via |-> "operator", claim |-> None, tenant |-> None, role |-> "superadmin"]]
    /\ UNCHANGED <<redis, cacheUp, sessions, keyring, budgets, memories, born, ended,
                   promised, revived, lastCap>>

-----------------------------------------------------------------------------
(* Handlers *)

Respond(r) == slot' = [slot EXCEPT ![r] = None]

\* A wrong form: any authenticated request passes.
RequireAnyRole(r, allowed) == slot[r] # None

RequireRole(r, allowed) == slot[r] # None /\ slot[r].role \in allowed

Forbidden(r) ==
    /\ slot[r] # None
    /\ Respond(r)
    /\ UNCHANGED <<redis, cacheUp, sessions, keyring, budgets, memories, born, ended,
                   promised, revived, lastCap>>

EngineCall(r) ==
    /\ Respond(r)
    /\ UNCHANGED <<redis, cacheUp, sessions, keyring, budgets, born, ended, promised,
                   revived, lastCap>>

Store(r) ==
    /\ RequireRole(r, {"admin", "write"})
    /\ \E m \in Facts :
          /\ \A t \in Orgs : <<t, m>> \notin memories
          /\ memories' \in {memories, memories \cup {<<slot[r].tenant, m>>}}
    /\ EngineCall(r)

Forget(r) ==
    /\ RequireRole(r, {"admin", "write"})
    /\ \E m \in Facts : memories' \in {memories, memories \ {<<slot[r].tenant, m>>}}
    /\ EngineCall(r)

\* list, neighbors and recall answer, and change nothing; so does the audit,
\* which every role but the operator's may ask for.
ReadEngine(r) ==
    /\ RequireRole(r, {"admin", "write", "read"})
    /\ EngineCall(r)
    /\ UNCHANGED memories

Audit(r) ==
    /\ RequireRole(r, Roles)
    /\ EngineCall(r)
    /\ UNCHANGED memories

CacheCall(r) ==
    /\ Respond(r)
    /\ UNCHANGED <<redis, cacheUp, keyring, memories>>

\* A command to Redis may have been carried out although its reply was lost.
Written(old, new) == IF cacheUp THEN {new} ELSE IF redis THEN {old, new} ELSE {old}

CreateSession(r) ==
    /\ slot[r] # None
    /\ \E s \in SessionIds \ born :
          /\ born' = born \cup {s}
          /\ sessions' \in Written(sessions, [sessions EXCEPT ![s] = slot[r].tenant])
    /\ CacheCall(r)
    /\ UNCHANGED <<budgets, ended, promised, revived, lastCap>>

FetchSession(r, s) ==
    /\ slot[r] # None
    /\ revived' = (revived \/ (s \in ended /\
                     \E entry \in Reads(sessions[s], "unset") : entry # "unset"))
    /\ CacheCall(r)
    /\ UNCHANGED <<sessions, budgets, born, ended, promised, lastCap>>

\* A wrong form: the error of the delete is dropped.
EndSessionBestEffort(r, s) ==
    /\ slot[r] # None
    /\ sessions' \in Written(sessions, [sessions EXCEPT ![s] = "unset"])
    /\ ended' = ended \cup ({s} \cap born)
    /\ CacheCall(r)
    /\ UNCHANGED <<budgets, born, promised, revived, lastCap>>

\* Any authenticated request may end any session, once or again.
EndSession(r, s) ==
    /\ slot[r] # None
    /\ sessions' \in Written(sessions, [sessions EXCEPT ![s] = "unset"])
    /\ ended' = IF cacheUp THEN ended \cup ({s} \cap born) ELSE ended
    /\ CacheCall(r)
    /\ UNCHANGED <<budgets, born, promised, revived, lastCap>>

\* A wrong form: an override of 0 caps at 0.
NonzeroOrZero(value) == IF value = None THEN DefaultCap ELSE value

\* An absent entry reads as all zero, and 0 falls through to the default.
NonzeroOr(value) == IF value \in {None, 0} THEN DefaultCap ELSE value

GetBudgets(r, t) ==
    /\ RequireRole(r, {"superadmin"})
    /\ \/ \E entry \in Reads(budgets[t], None) :
             lastCap' = [lastCap EXCEPT ![t] = <<NonzeroOr(entry), cacheUp>>]
       \/ Reads(budgets[t], None) = {} /\ UNCHANGED lastCap
    /\ CacheCall(r)
    /\ UNCHANGED <<sessions, budgets, born, ended, promised, revived>>

PutBudgets(r, t, cap) ==
    /\ RequireRole(r, {"superadmin"})
    /\ budgets' \in Written(budgets, [budgets EXCEPT ![t] = cap])
    /\ promised' = [promised EXCEPT ![t] = IF cacheUp THEN {cap}
                                           ELSE IF redis THEN @ \cup {cap} ELSE @]
    /\ lastCap' = IF cacheUp THEN [lastCap EXCEPT ![t] = <<NonzeroOr(cap), TRUE>>] ELSE lastCap
    /\ CacheCall(r)
    /\ UNCHANGED <<sessions, born, ended, revived>>

-----------------------------------------------------------------------------
(* Around the server *)

\* Sessions expire after SESSION_TTL, keys when their issuer said; budgets are
\* written without a ttl.
Expire ==
    /\ \/ \E s \in SessionIds : sessions' = [sessions EXCEPT ![s] = "unset"] /\ UNCHANGED keyring
       \/ \E k \in ApiKeys : keyring' = [keyring EXCEPT ![k] = None] /\ UNCHANGED sessions
    /\ UNCHANGED <<redis, cacheUp, budgets, memories, slot, born, ended, promised,
                   revived, lastCap>>

\* Nothing in the server issues keys: an operator writes the entry.
IssueKey(k, claim) ==
    /\ keyring' = [keyring EXCEPT ![k] = claim]
    /\ UNCHANGED <<redis, cacheUp, sessions, budgets, memories, slot, born, ended,
                   promised, revived, lastCap>>

Outage ==
    /\ cacheUp' = ~cacheUp
    /\ UNCHANGED <<redis, sessions, keyring, budgets, memories, slot, born, ended,
                   promised, revived, lastCap>>

\* The requests end; engine and cache are files or services of their own.
RestartServer ==
    /\ slot' = [r \in Requests |-> None]
    /\ UNCHANGED <<redis, cacheUp, sessions, keyring, budgets, memories, born, ended,
                   promised, revived, lastCap>>

ServerNext ==
    \/ \E r \in Requests :
          \/ AuthenticateJwt(r) \/ AuthenticateOperator(r)
          \/ \E k \in ApiKeys : AuthenticateApiKey(r, k)
          \/ Forbidden(r) \/ Store(r) \/ Forget(r)
          \/ ReadEngine(r) \/ Audit(r) \/ CreateSession(r)
          \/ \E s \in SessionIds : FetchSession(r, s) \/ EndSession(r, s)
          \/ \E t \in Budgeted : GetBudgets(r, t) \/ \E cap \in Caps : PutBudgets(r, t, cap)
    \/ Expire \/ Outage \/ RestartServer
    \/ \E k \in ApiKeys, c \in Claims : IssueKey(k, c)

ServerSpec == ServerInit /\ [][ServerNext]_serverVars

-----------------------------------------------------------------------------
(* Properties *)

\* What a credential says, and not what the server took it for, allows the
\* change: a tenant's memories change for a token or key of that tenant with
\* role admin or write, a budget for the operator's key alone.
Entitled ==
    [][/\ \A x \in (memories \ memories') \cup (memories' \ memories) :
            \E r \in Requests :
               /\ slot[r] # None /\ slot'[r] = None
               /\ slot[r].claim \in {<<x[1], "admin">>, <<x[1], "write">>}
       /\ budgets' # budgets =>
            \E r \in Requests :
               /\ slot[r] # None /\ slot'[r] = None
               /\ slot[r].via = "operator"]_serverVars

\* A session whose end was acknowledged is never answered again, through
\* outages, restarts and requests that were authenticated before.
EndedStaysEnded == ~revived

\* The cap that is answered is the one last acknowledged, or the default after
\* 0 and before the first put; a put that failed over Redis since may have been
\* carried out.  But a SQLite cache that cannot be read answers the default
\* whatever was put.
BudgetAnswers ==
    \A t \in Orgs : lastCap[t] # None =>
        \/ lastCap[t][1] \in {IF p \in {None, 0} THEN DefaultCap ELSE p : p \in promised[t]}
        \/ ~redis /\ ~lastCap[t][2] /\ lastCap[t][1] = DefaultCap
=============================================================================
