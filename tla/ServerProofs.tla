------------------------------ MODULE ServerProofs ------------------------------
(***************************************************************************)
(* The server's promises, for every number of requests, tenants, sessions, *)
(* keys and claims: who may change what, that an ended session stays       *)
(* ended, and which budget is answered.  That both cache backends          *)
(* implement TtlMap, for every set of keys, values and ttls: rounding to   *)
(* whole seconds, a clock that is set back, failed evictions and lost      *)
(* replies stay within what it allows.  And what "healthy" and "unhealthy" *)
(* mean, for every number of probes.                                       *)
(***************************************************************************)
EXTENDS Server, ServerCache, ServerHealth, TLAPS

(* Server *)

\* An admitted request is what its credential says, and superadmin only the
\* operator; an ended session has no entry; the budget on record is promised, and
\* so is the cap last answered, unless a SQLite cache could not be read.
SlotInv ==
    \A r \in Requests : slot[r] # None =>
        IF slot[r].via = "operator" THEN slot[r].role = "superadmin"
        ELSE /\ slot[r].claim \in Claims
             /\ slot[r].claim = <<slot[r].tenant, slot[r].role>>
             /\ slot[r].role \in Roles

SessionInv == revived = FALSE /\ \A s \in ended : sessions[s] = "unset"

BudgetInv == (\A t \in Orgs : budgets[t] \in promised[t]) /\ BudgetAnswers

ServerInv == ServerTypeOK /\ SlotInv /\ SessionInv /\ BudgetInv

LEMMA ServerInvInit == ServerInit => ServerInv
BY DEF ServerInit, ServerInv, ServerTypeOK, SlotInv, SessionInv, BudgetInv, BudgetAnswers

\* A response frees the slot of its request.
LEMMA SlotsFree ==
    ASSUME SlotInv, ServerTypeOK, NEW r \in Requests, Respond(r)
    PROVE  SlotInv' /\ slot' \in [Requests -> Contexts \cup {None}]
BY DEF SlotInv, ServerTypeOK, Respond

LEMMA AdmitKeeps ==
    ASSUME ServerInv, NEW r \in Requests, NEW c \in Claims, Admit(r, c)
    PROVE  SlotInv' /\ slot' \in [Requests -> Contexts \cup {None}]
<1> DEFINE context == [via |-> "credential", claim |-> c, tenant |-> c[1], role |-> MapRole(c[2])]
<1>1. c = <<c[1], c[2]>> /\ c[1] \in Orgs
  BY ClaimsAssumption
<1>2. MapRole(c[2]) = c[2] /\ c[2] \in Roles
  BY DEF Admit, MapRole
<1>3. context \in Contexts
  BY <1>1, <1>2 DEF Contexts, AllRoles
<1>4. /\ context.via # "operator" /\ context.claim \in Claims
      /\ context.claim = <<context.tenant, context.role>>
      /\ context.role \in Roles
  BY <1>1, <1>2
<1>5. slot' = [slot EXCEPT ![r] = context]
  BY DEF Admit
<1> HIDE DEF context
<1> QED BY <1>3, <1>4, <1>5 DEF ServerInv, ServerTypeOK, SlotInv

LEMMA ServerInvStep == ServerInv /\ [ServerNext]_serverVars => ServerInv'
<1> SUFFICES ASSUME ServerInv, [ServerNext]_serverVars PROVE ServerInv'
  OBVIOUS
<1>1. CASE UNCHANGED serverVars
  BY <1>1 DEF serverVars, ServerInv, ServerTypeOK, SlotInv, SessionInv, BudgetInv, BudgetAnswers
<1>2. ServerTypeOK /\ SlotInv /\ SessionInv /\ BudgetInv
  BY DEF ServerInv
<1>3. ASSUME NEW r \in Requests, AuthenticateJwt(r) PROVE ServerInv'
  <2>1. PICK c \in Claims : Admit(r, c)
    BY <1>3 DEF AuthenticateJwt
  <2>2. SlotInv' /\ slot' \in [Requests -> Contexts \cup {None}]
    BY <2>1, AdmitKeeps
  <2> QED BY <2>1, <2>2, <1>2
       DEF Admit, ServerInv, ServerTypeOK, SessionInv, BudgetInv, BudgetAnswers
<1>4. ASSUME NEW r \in Requests, NEW k \in ApiKeys, AuthenticateApiKey(r, k)
      PROVE  ServerInv'
  <2>1. keyring[k] # None /\ Admit(r, keyring[k])
    BY <1>4 DEF AuthenticateApiKey, Reads
  <2>2. keyring[k] \in Claims
    BY <2>1, <1>2 DEF ServerTypeOK
  <2>3. SlotInv' /\ slot' \in [Requests -> Contexts \cup {None}]
    BY <2>1, <2>2, AdmitKeeps
  <2> QED BY <2>1, <2>3, <1>2
       DEF Admit, ServerInv, ServerTypeOK, SessionInv, BudgetInv, BudgetAnswers
<1>5. ASSUME NEW r \in Requests, AuthenticateOperator(r) PROVE ServerInv'
  <2> DEFINE context ==
               [via |-> "operator", claim |-> None, tenant |-> None, role |-> "superadmin"]
  <2>1. context \in Contexts /\ context.via = "operator" /\ context.role = "superadmin"
    BY DEF Contexts, AllRoles
  <2>2. slot' = [slot EXCEPT ![r] = context]
    BY <1>5 DEF AuthenticateOperator
  <2> HIDE DEF context
  <2>3. SlotInv' /\ slot' \in [Requests -> Contexts \cup {None}]
    BY <2>1, <2>2, <1>2 DEF ServerTypeOK, SlotInv
  <2> QED BY <1>5, <2>3, <1>2 DEF AuthenticateOperator, ServerInv, ServerTypeOK,
          SessionInv, BudgetInv, BudgetAnswers
<1>6. ASSUME NEW r \in Requests, Forbidden(r) PROVE ServerInv'
  BY <1>6, <1>2, SlotsFree DEF Forbidden, ServerInv, ServerTypeOK, SessionInv, BudgetInv, BudgetAnswers
<1>7. ASSUME NEW r \in Requests, EngineCall(r), memories' \subseteq Orgs \X Facts
      PROVE  ServerInv'
  BY <1>7, <1>2, SlotsFree DEF EngineCall, ServerInv, ServerTypeOK, SessionInv, BudgetInv, BudgetAnswers
<1>8. ASSUME NEW r \in Requests, slot[r] # None, slot[r].role \in Roles
      PROVE  slot[r].tenant \in Orgs
  <2>1. slot[r].claim \in Claims /\ slot[r].claim = <<slot[r].tenant, slot[r].role>>
    BY <1>8, <1>2 DEF SlotInv, Roles
  <2> QED BY <2>1, ClaimsAssumption
<1>9. ASSUME NEW r \in Requests, Store(r) \/ Forget(r) \/ ReadEngine(r) \/ Audit(r)
      PROVE  ServerInv'
  <2>1. slot[r] # None /\ slot[r].role \in Roles /\ EngineCall(r)
    BY <1>9 DEF Store, Forget, ReadEngine, Audit, RequireRole, Roles
  <2>2. memories' \subseteq Orgs \X Facts
    BY <1>9, <2>1, <1>8, <1>2 DEF Store, Forget, ReadEngine, Audit, ServerTypeOK
  <2> QED BY <2>1, <2>2, <1>7
<1>10. ASSUME NEW r \in Requests, CreateSession(r) PROVE ServerInv'
  <2>1. PICK s \in SessionIds \ born :
          /\ born' = born \cup {s}
          /\ sessions' \in Written(sessions, [sessions EXCEPT ![s] = slot[r].tenant])
    BY <1>10 DEF CreateSession
  <2>2. slot[r].tenant \in Orgs \cup {None}
    BY <1>10, <1>2 DEF CreateSession, ServerTypeOK, Contexts
  <2>3. sessions' \in {sessions, [sessions EXCEPT ![s] = slot[r].tenant]}
    BY <2>1 DEF Written
  <2>4. s \notin ended
    BY <2>1, <1>2 DEF ServerTypeOK
  <2>5. Respond(r) /\ UNCHANGED <<redis, cacheUp, keyring, memories>>
    BY <1>10 DEF CreateSession, CacheCall
  <2>6. SlotInv' /\ slot' \in [Requests -> Contexts \cup {None}]
    BY <2>5, <1>2, SlotsFree
  <2> QED BY <1>10, <2>1, <2>2, <2>3, <2>4, <2>5, <2>6, <1>2
       DEF CreateSession, ServerInv, ServerTypeOK, SessionInv, BudgetInv, BudgetAnswers
<1>11. ASSUME NEW r \in Requests, NEW s \in SessionIds, FetchSession(r, s)
       PROVE  ServerInv'
  <2>1. revived' = FALSE
    BY <1>11, <1>2 DEF FetchSession, Reads, SessionInv
  <2>2. Respond(r) /\ UNCHANGED <<redis, cacheUp, keyring, memories>>
    BY <1>11 DEF FetchSession, CacheCall
  <2> QED BY <1>11, <2>1, <2>2, <1>2, SlotsFree
       DEF FetchSession, ServerInv, ServerTypeOK, SessionInv, BudgetInv, BudgetAnswers
<1>12. ASSUME NEW r \in Requests, NEW s \in SessionIds, EndSession(r, s)
       PROVE  ServerInv'
  <2>1. /\ sessions' \in {sessions, [sessions EXCEPT ![s] = "unset"]}
        /\ cacheUp => sessions' = [sessions EXCEPT ![s] = "unset"]
    BY <1>12 DEF EndSession, Written
  <2>2. ended' = IF cacheUp THEN ended \cup ({s} \cap born) ELSE ended
    BY <1>12 DEF EndSession
  <2>3. \A x \in ended' : sessions'[x] = "unset"
    BY <2>1, <2>2, <1>2 DEF SessionInv, ServerTypeOK
  <2>4. Respond(r) /\ UNCHANGED <<redis, cacheUp, keyring, memories>>
    BY <1>12 DEF EndSession, CacheCall
  <2> QED BY <1>12, <2>1, <2>2, <2>3, <2>4, <1>2, SlotsFree
       DEF EndSession, ServerInv, ServerTypeOK, SessionInv, BudgetInv, BudgetAnswers
<1>13. ASSUME NEW r \in Requests, NEW t \in Budgeted, GetBudgets(r, t) PROVE ServerInv'
  <2> DEFINE cap == NonzeroOr(budgets[t])
  <2>1. t \in Orgs /\ budgets[t] \in Caps \cup {None} /\ budgets[t] \in promised[t]
    BY BudgetedAssumption, <1>2 DEF ServerTypeOK, BudgetInv
  <2>2. cap \in Nat /\ cap \in {IF p \in {None, 0} THEN DefaultCap ELSE p : p \in promised[t]}
    BY <2>1, CapsAssumption DEF NonzeroOr
  <2>3. NonzeroOr(None) = DefaultCap /\ DefaultCap \in Nat
    BY CapsAssumption DEF NonzeroOr
  <2>4. \/ cacheUp /\ lastCap' = [lastCap EXCEPT ![t] = <<cap, cacheUp>>]
        \/ ~cacheUp /\ ~redis /\ lastCap' = [lastCap EXCEPT ![t] = <<DefaultCap, cacheUp>>]
        \/ UNCHANGED lastCap
    BY <1>13, <2>3 DEF GetBudgets, Reads
  <2> HIDE DEF cap
  <2>5. Respond(r) /\ UNCHANGED <<redis, cacheUp, keyring, memories, promised>>
    BY <1>13 DEF GetBudgets, CacheCall
  <2>6. lastCap' \in [Orgs -> (Nat \X BOOLEAN) \cup {None}]
    BY <2>1, <2>2, <2>3, <2>4, <1>2 DEF ServerTypeOK
  <2>7. BudgetAnswers'
    <3> SUFFICES ASSUME NEW u \in Orgs, lastCap'[u] # None
                 PROVE  \/ lastCap'[u][1] \in
                             {IF p \in {None, 0} THEN DefaultCap ELSE p : p \in promised[u]}
                        \/ ~redis /\ ~lastCap'[u][2] /\ lastCap'[u][1] = DefaultCap
      BY <2>5 DEF BudgetAnswers
    <3>1. CASE lastCap'[u] = lastCap[u]
      BY <3>1, <1>2 DEF BudgetInv, BudgetAnswers
    <3>2. CASE u = t /\ cacheUp /\ lastCap'[u] = <<cap, cacheUp>>
      BY <3>2, <2>2
    <3>3. CASE ~cacheUp /\ ~redis /\ lastCap'[u] = <<DefaultCap, cacheUp>>
      BY <3>3
    <3> QED BY <2>4, <3>1, <3>2, <3>3, <1>2 DEF ServerTypeOK
  <2> QED BY <1>13, <2>5, <2>6, <2>7, <1>2, SlotsFree
       DEF GetBudgets, ServerInv, ServerTypeOK, SessionInv, BudgetInv
<1>14. ASSUME NEW r \in Requests, NEW t \in Budgeted, NEW cap \in Caps,
              PutBudgets(r, t, cap)
       PROVE  ServerInv'
  <2>1. t \in Orgs
    BY BudgetedAssumption
  <2>2. /\ budgets' \in {budgets, [budgets EXCEPT ![t] = cap]}
        /\ cacheUp => budgets' = [budgets EXCEPT ![t] = cap]
        /\ ~cacheUp /\ ~redis => budgets' = budgets
    BY <1>14 DEF PutBudgets, Written
  <2>3. promised' = [promised EXCEPT ![t] = IF cacheUp THEN {cap}
                       ELSE IF redis THEN promised[t] \cup {cap} ELSE promised[t]]
    BY <1>14 DEF PutBudgets
  <2>4. \A u \in Orgs : budgets'[u] \in promised'[u]
    BY <2>1, <2>2, <2>3, <1>2 DEF BudgetInv, ServerTypeOK
  <2>5. budgets' \in [Orgs -> Caps \cup {None}]
    BY <2>2, <1>2 DEF ServerTypeOK
  <2>6. promised' \in [Orgs -> SUBSET (Caps \cup {None})]
    BY <2>1, <2>3, <1>2 DEF ServerTypeOK
  <2>7. Respond(r) /\ UNCHANGED <<redis, cacheUp, keyring, memories>>
    BY <1>14 DEF PutBudgets, CacheCall
  <2>8. NonzeroOr(cap) \in Nat /\ NonzeroOr(cap) = IF cap \in {None, 0} THEN DefaultCap ELSE cap
    BY CapsAssumption DEF NonzeroOr
  <2>9. lastCap' = IF cacheUp THEN [lastCap EXCEPT ![t] = <<NonzeroOr(cap), TRUE>>] ELSE lastCap
    BY <1>14 DEF PutBudgets
  <2>10. lastCap' \in [Orgs -> (Nat \X BOOLEAN) \cup {None}]
    BY <2>1, <2>8, <2>9, <1>2 DEF ServerTypeOK
  <2>11. BudgetAnswers'
    <3> SUFFICES ASSUME NEW u \in Orgs, lastCap'[u] # None
                 PROVE  \/ lastCap'[u][1] \in
                             {IF p \in {None, 0} THEN DefaultCap ELSE p : p \in promised'[u]}
                        \/ ~redis /\ ~lastCap'[u][2] /\ lastCap'[u][1] = DefaultCap
      BY <2>7 DEF BudgetAnswers
    <3>1. CASE cacheUp /\ u = t
      <4>1. lastCap'[u] = <<NonzeroOr(cap), TRUE>> /\ cap \in promised'[u]
        BY <3>1, <2>1, <2>3, <2>9, <1>2 DEF ServerTypeOK
      <4> QED BY <4>1, <2>8
    <3>2. CASE ~(cacheUp /\ u = t)
      <4>1. lastCap'[u] = lastCap[u] /\ promised[u] \subseteq promised'[u]
        BY <3>2, <2>1, <2>3, <2>9, <1>2 DEF ServerTypeOK
      <4> QED BY <4>1, <1>2 DEF BudgetInv, BudgetAnswers
    <3> QED BY <3>1, <3>2
  <2> QED BY <1>14, <2>4, <2>5, <2>6, <2>7, <2>10, <2>11, <1>2, SlotsFree
       DEF PutBudgets, ServerInv, ServerTypeOK, SessionInv, BudgetInv
<1>15. CASE Expire
  BY <1>15, <1>2 DEF Expire, ServerInv, ServerTypeOK, SlotInv, SessionInv, BudgetInv, BudgetAnswers
<1>16. CASE Outage
  BY <1>16, <1>2 DEF Outage, ServerInv, ServerTypeOK, SlotInv, SessionInv, BudgetInv, BudgetAnswers
<1>17. CASE RestartServer
  BY <1>17, <1>2 DEF RestartServer, ServerInv, ServerTypeOK, SlotInv, SessionInv,
     BudgetInv, BudgetAnswers
<1>18. ASSUME NEW k \in ApiKeys, NEW c \in Claims, IssueKey(k, c) PROVE ServerInv'
  BY <1>18, <1>2 DEF IssueKey, ServerInv, ServerTypeOK, SlotInv, SessionInv, BudgetInv, BudgetAnswers
<1> QED
  BY <1>1, <1>3, <1>4, <1>5, <1>6, <1>9, <1>10, <1>11, <1>12, <1>13, <1>14, <1>15, <1>16,
     <1>17, <1>18 DEF ServerNext

LEMMA ServerInductive == ServerSpec => []ServerInv
BY ServerInvInit, ServerInvStep, PTL DEF ServerSpec

\* The state of the server has its type.
THEOREM ServerTypeCorrect == ServerSpec => []ServerTypeOK
BY ServerInductive, PTL DEF ServerInv

\* A session whose end was acknowledged is never answered again
\* (routes/sessions.rs), whatever fails in between.
THEOREM SessionsEndForGood == ServerSpec => []EndedStaysEnded
<1>1. ServerInv => EndedStaysEnded
  BY DEF ServerInv, SessionInv, EndedStaysEnded
<1> QED BY <1>1, ServerInductive, PTL

\* The cap a GET or PUT answers is the one last acknowledged (routes/admin.rs),
\* or the default, or that of a put that failed since and was carried out over
\* Redis; only a SQLite cache that could not be read (cache/sqlite.rs) makes it
\* the default whatever was put.
THEOREM BudgetsAnswerAsPut == ServerSpec => []BudgetAnswers
<1>1. ServerInv => BudgetAnswers
  BY DEF ServerInv, BudgetInv
<1> QED BY <1>1, ServerInductive, PTL

\* Memories change only for a token or key of their tenant with role admin or
\* write, budgets only for the operator (auth/mod.rs, auth/extractor.rs).
THEOREM ChangesAreEntitled == ServerSpec => Entitled
<1> DEFINE Allowed ==
      /\ \A x \in (memories \ memories') \cup (memories' \ memories) :
            \E r \in Requests :
               /\ slot[r] # None /\ slot'[r] = None
               /\ slot[r].claim \in {<<x[1], "admin">>, <<x[1], "write">>}
      /\ budgets' # budgets =>
            \E r \in Requests :
               /\ slot[r] # None /\ slot'[r] = None
               /\ slot[r].via = "operator"
<1>1. ServerInv /\ [ServerNext]_serverVars => [Allowed]_serverVars
  <2> SUFFICES ASSUME ServerTypeOK, SlotInv, [ServerNext]_serverVars,
                      memories' # memories \/ budgets' # budgets
               PROVE  Allowed
    BY DEF ServerInv
  <2>1. ASSUME NEW r \in Requests, Store(r) \/ Forget(r) PROVE Allowed
    <3>1. /\ slot[r] # None /\ slot'[r] = None /\ budgets' = budgets
          /\ slot[r].role \in {"admin", "write"}
      BY <2>1 DEF Store, Forget, EngineCall, Respond, RequireRole, ServerTypeOK
    <3>2. slot[r].claim \in {<<slot[r].tenant, "admin">>, <<slot[r].tenant, "write">>}
      BY <3>1 DEF SlotInv
    <3>3. \A x \in (memories \ memories') \cup (memories' \ memories) :
            x[1] = slot[r].tenant
      BY <2>1 DEF Store, Forget
    <3> QED BY <3>1, <3>2, <3>3
  <2>2. ASSUME NEW r \in Requests, NEW t \in Budgeted, NEW cap \in Caps,
               PutBudgets(r, t, cap)
        PROVE  Allowed
    <3>1. /\ slot[r] # None /\ slot'[r] = None /\ memories' = memories
          /\ slot[r].role = "superadmin"
      BY <2>2 DEF PutBudgets, CacheCall, Respond, RequireRole, ServerTypeOK
    <3>2. slot[r].via = "operator"
      BY <3>1 DEF SlotInv, Roles
    <3> QED BY <3>1, <3>2
  <2>3. ServerNext
    BY DEF serverVars
  <2>4. \/ \E r \in Requests : Store(r) \/ Forget(r)
        \/ \E r \in Requests, t \in Budgeted, cap \in Caps : PutBudgets(r, t, cap)
    BY <2>3 DEF ServerNext, AuthenticateJwt, AuthenticateApiKey, AuthenticateOperator,
       Admit, Forbidden, ReadEngine, Audit, EngineCall, CacheCall, CreateSession, FetchSession,
       EndSession, GetBudgets, Expire, Outage, RestartServer, IssueKey
  <2> QED BY <2>1, <2>2, <2>4
<1> QED BY <1>1, ServerInductive, PTL DEF ServerSpec, Entitled

-----------------------------------------------------------------------------
(* ServerCache *)

\* How far a row's expiry is from the time its caller expects.
Close(e) ==
    \/ e.expires_at = NoTtl /\ e.due = NoTtl
    \/ /\ e.expires_at \in Int /\ e.due \in Int
       /\ e.expires_at <= e.due /\ e.due <= e.expires_at + 3
       /\ kind = "sqlite" => \E n \in Int : e.expires_at = 2 * n

RowsInv == \A k \in Keys : table[k] # Absent => Close(table[k])

CacheInv == CacheTypeOK /\ RowsInv

LEMMA Rounding ==
    ASSUME NEW x \in Int
    PROVE  /\ WholeSeconds(x) \in Int /\ WholeSeconds(x) <= x /\ x <= WholeSeconds(x) + 1
           /\ \E n \in Int : WholeSeconds(x) = 2 * n
           /\ x >= 0 => WholeSeconds(x) >= 0
<1>1. x \div 2 \in Int /\ 2 * (x \div 2) <= x /\ x <= 2 * (x \div 2) + 1
  OBVIOUS
<1> QED BY <1>1 DEF WholeSeconds

LEMMA NewRowIsClose ==
    ASSUME CacheTypeOK, NEW v \in Values, NEW ttl \in Ttls \cup {NoTtl}
    PROVE  NewRow(v, ttl) \in Row /\ Close(NewRow(v, ttl))
<1>1. CASE ttl = NoTtl
  BY <1>1 DEF NewRow, Row, Close
<1>2. CASE ttl # NoTtl
  <2> DEFINE e == Now + Kept(ttl)
             d == clock + Longest(ttl, 2)
  <2>1. ttl \in Int /\ ttl >= 0 /\ clock \in Int /\ clock >= 0 /\ kind \in {"sqlite", "redis"}
    BY <1>2, TtlsAssumption DEF CacheTypeOK
  <2>2. NewRow(v, ttl) = [val |-> v, expires_at |-> e, due |-> d]
    BY <1>2 DEF NewRow
  <2>3. d \in Int /\ d >= clock + 2 /\ d >= clock + ttl /\ (d = clock + 2 \/ d = clock + ttl)
    BY <2>1 DEF Longest
  <2> DEFINE c2 == WholeSeconds(clock)
             t2 == WholeSeconds(ttl)
  <2>4. /\ c2 \in Int /\ c2 <= clock /\ clock <= c2 + 1
        /\ t2 \in Int /\ t2 <= ttl /\ ttl <= t2 + 1 /\ t2 >= 0
        /\ (\E n \in Int : c2 = 2 * n) /\ (\E n \in Int : t2 = 2 * n)
    BY <2>1, Rounding
  <2>5. CASE kind = "sqlite"
    <3>1. e = c2 + t2
      BY <2>5 DEF Now, Kept
    <3> HIDE DEF e, d, c2, t2
    <3>2. e \in Int /\ e <= d /\ d <= e + 3
      BY <3>1, <2>1, <2>3, <2>4
    <3>3. \E n \in Int : e = 2 * n
      <4>1. PICK i \in Int, j \in Int : c2 = 2 * i /\ t2 = 2 * j
        BY <2>4
      <4>2. e = 2 * (i + j) /\ i + j \in Int
        BY <3>1, <4>1
      <4> QED BY <4>2
    <3> QED BY <2>2, <2>3, <3>2, <3>3 DEF Close, Row
  <2>6. CASE kind = "redis"
    <3>1. e = clock + Longest(t2, 2)
      BY <2>6 DEF Now, Kept
    <3> HIDE DEF e, d, c2, t2
    <3>2. e \in Int /\ e <= d /\ d <= e + 3
      BY <3>1, <2>1, <2>3, <2>4 DEF Longest
    <3> QED BY <2>2, <2>3, <3>2, <2>6 DEF Close, Row
  <2> QED BY <2>1, <2>5, <2>6
<1> QED BY <1>1, <1>2

LEMMA CacheInvInit == CacheInit => CacheInv
<1> SUFFICES ASSUME CacheInit PROVE CacheInv
  OBVIOUS
<1>1. \A k \in Keys : table[k] = Absent
  BY DEF CacheInit
<1>2. 0 \in 0 .. MaxClock
  BY MaxClockAssumption
<1> QED BY <1>1, <1>2 DEF CacheInit, CacheInv, CacheTypeOK, RowsInv

\* One row dropped or replaced by a new one.
LEMMA RowsKeep ==
    ASSUME CacheInv, UNCHANGED kind, NEW k \in Keys, NEW row \in Row \cup {Absent},
           row # Absent => Close(row), table' = [table EXCEPT ![k] = row]
    PROVE  table' \in [Keys -> Row \cup {Absent}] /\ RowsInv'
BY DEF CacheInv, CacheTypeOK, RowsInv, Close

LEMMA CacheInvStep == CacheInv /\ [CacheNext]_cacheVars => CacheInv'
<1> SUFFICES ASSUME CacheInv, [CacheNext]_cacheVars PROVE CacheInv'
  OBVIOUS
<1>0. CacheTypeOK /\ RowsInv
  BY DEF CacheInv
<1>1. CASE UNCHANGED cacheVars
  BY <1>1, <1>0 DEF cacheVars, CacheInv, CacheTypeOK, RowsInv, Close
<1>2. ASSUME NEW k \in Keys, Drop(k), UNCHANGED kind
      PROVE  table' \in [Keys -> Row \cup {Absent}] /\ RowsInv'
  BY <1>2, RowsKeep DEF Drop
<1>3. ASSUME UNCHANGED <<kind, table>>
      PROVE  table' \in [Keys -> Row \cup {Absent}] /\ RowsInv'
  BY <1>3, <1>0 DEF CacheTypeOK, RowsInv, Close
<1>4. ASSUME NEW k \in Keys, CacheGet(k) PROVE CacheInv'
  <2>1. answer' \in Values \cup {Absent, Failed}
    BY <1>4, <1>0 DEF CacheGet, CacheTypeOK, Row
  <2>2. (Drop(k) \/ UNCHANGED table) /\ UNCHANGED <<kind, clock, up>>
    BY <1>4 DEF CacheGet
  <2> QED BY <2>1, <2>2, <1>0, <1>2, <1>3 DEF CacheInv, CacheTypeOK
<1>5. ASSUME NEW k \in Keys, CacheGetFails(k) PROVE CacheInv'
  BY <1>5, <1>0, <1>3 DEF CacheGetFails, CacheInv, CacheTypeOK
<1>6. ASSUME NEW k \in Keys, CacheDelete(k) \/ RedisExpires(k) PROVE CacheInv'
  BY <1>6, <1>0, <1>2 DEF CacheDelete, RedisExpires, CacheInv, CacheTypeOK
<1>7. ASSUME NEW k \in Keys, NEW v \in Values, NEW ttl \in Ttls \cup {NoTtl},
             CacheSet(k, v, ttl)
      PROVE  CacheInv'
  <2>1. NewRow(v, ttl) \in Row /\ Close(NewRow(v, ttl))
    BY <1>0, NewRowIsClose
  <2>2. table' = [table EXCEPT ![k] = NewRow(v, ttl)] /\ UNCHANGED <<kind, clock, up, answer>>
    BY <1>7 DEF CacheSet
  <2> QED BY <2>1, <2>2, <1>0, RowsKeep DEF CacheInv, CacheTypeOK
<1>8. CASE ClockMoves
  BY <1>8, <1>0, <1>3 DEF ClockMoves, CacheInv, CacheTypeOK
<1>9. CASE CacheOutage
  BY <1>9, <1>0, <1>3 DEF CacheOutage, CacheInv, CacheTypeOK
<1> QED BY <1>1, <1>4, <1>5, <1>6, <1>7, <1>8, <1>9 DEF CacheNext

LEMMA CacheInductive == CacheSpec => []CacheInv
BY CacheInvInit, CacheInvStep, PTL DEF CacheSpec

\* The state of the cache has its type.
THEOREM CacheTypeCorrect == CacheSpec => []CacheTypeOK
BY CacheInductive, PTL DEF CacheInv

-----------------------------------------------------------------------------
(* The refinement *)

Entries == [k \in Keys |-> IF table[k] = Absent THEN Absent
                           ELSE [val |-> table[k].val, due |-> table[k].due]]

\* A row is served only before its caller's time, and taken for expired only
\* within two seconds of it.
LEMMA ExpiryIsClose ==
    ASSUME CacheInv, NEW k \in Keys, table[k] # Absent
    PROVE  /\ ~Expired(k) => table[k].due = NoTtl \/ clock < table[k].due
           /\ Expired(k) => table[k].due # NoTtl /\ table[k].due < clock + 4
<1> DEFINE e == table[k].expires_at
           d == table[k].due
<1>1. clock \in Int /\ kind \in {"sqlite", "redis"} /\ Close(table[k])
  BY DEF CacheInv, CacheTypeOK, RowsInv
<1>2. CASE e = NoTtl
  BY <1>1, <1>2, TtlsAssumption DEF Close, Expired
<1>3. CASE e # NoTtl
  <2>1. /\ e \in Int /\ d \in Int /\ e <= d /\ d <= e + 3
        /\ kind = "sqlite" => \E n \in Int : e = 2 * n
        /\ Expired(k) <=> e <= Now
    BY <1>1, <1>3 DEF Close, Expired
  <2> HIDE DEF e, d
  <2>2. Now \in Int /\ Now <= clock
    BY <1>1, Rounding DEF Now
  <2>3. e > Now => clock < e
    <3>1. CASE kind = "redis"
      BY <3>1 DEF Now
    <3>2. CASE kind = "sqlite"
      <4>1. PICK n \in Int : e = 2 * n
        BY <2>1, <3>2
      <4>2. Now = WholeSeconds(clock)
        BY <3>2 DEF Now
      <4>3. PICK i \in Int : Now = 2 * i
        BY <4>2, <1>1, Rounding
      <4>4. clock <= Now + 1
        BY <4>2, <1>1, Rounding
      <4> QED BY <4>1, <4>3, <4>4, <1>1
    <3> QED BY <3>1, <3>2, <1>1
  <2>4. (e > Now => clock < d) /\ (e <= Now => d < clock + 4) /\ d # NoTtl
    BY <2>1, <2>2, <2>3, <1>1, TtlsAssumption
  <2> QED BY <2>1, <2>2, <2>4 DEF d
<1> QED BY <1>2, <1>3

LEMMA GetIsGet ==
    ASSUME CacheInv, NEW k \in Keys, CacheGet(k) PROVE Promise!Get(k)
<1>1. UNCHANGED <<clock, up>>
  BY DEF CacheGet
<1>2. CASE table[k] # Absent /\ ~Expired(k)
  <2>1. /\ Entries[k] = [val |-> table[k].val, due |-> table[k].due]
        /\ Entries[k] # Absent
    BY <1>2, AbsentAssumption DEF Entries, CacheInv, CacheTypeOK, Row
  <2>2. answer' = Entries[k].val /\ Entries' = Entries
    BY <1>2, <2>1 DEF CacheGet, Entries
  <2>3. Entries[k].due = NoTtl \/ clock < Entries[k].due
    BY <1>2, <2>1, ExpiryIsClose
  <2> QED BY <1>1, <2>1, <2>2, <2>3 DEF Promise!Get, Promise!MayBeThere, Entries
<1>3. CASE table[k] = Absent \/ Expired(k)
  <2>1. Entries[k] # Absent => Entries[k].due # NoTtl /\ Entries[k].due < clock + 4
    BY <1>3, ExpiryIsClose DEF Entries
  <2>2. answer' = Absent /\ Entries' \in {Entries, [Entries EXCEPT ![k] = Absent]}
    BY <1>3 DEF CacheGet, Drop, Entries, CacheInv, CacheTypeOK
  <2> QED BY <1>1, <2>1, <2>2
      DEF Promise!Get, Promise!MayBeGone, Promise!Without, Entries
<1> QED BY <1>2, <1>3

LEMMA SetIsSet ==
    ASSUME CacheInv, NEW k \in Keys, NEW v \in Values, NEW ttl \in Ttls \cup {NoTtl},
           CacheSet(k, v, ttl)
    PROVE  Promise!Set(k, v, ttl)
<1>1. NewRow(v, ttl) # Absent
  BY NewRowIsClose, AbsentAssumption DEF CacheInv
<1>2. /\ NewRow(v, ttl).val = v
      /\ NewRow(v, ttl).due = IF ttl = NoTtl THEN NoTtl ELSE clock + Longest(ttl, 2)
  BY DEF NewRow
<1>3. Entries' = [Entries EXCEPT ![k] =
        [val |-> v, due |-> IF ttl = NoTtl THEN NoTtl ELSE clock + Longest(ttl, 2)]]
  BY <1>1, <1>2 DEF CacheSet, Entries, CacheInv, CacheTypeOK
<1> QED BY <1>3
    DEF CacheSet, Promise!Set, Promise!Entry, Promise!Longer, Longest, Entries

\* Both backends implement the promise of CacheBackend (cache/mod.rs).
THEOREM CacheKeepsPromise == CacheSpec => PromiseSpec
<1>1. CacheInit => Promise!Init
  BY DEF CacheInit, Promise!Init
<1>2. CacheInv /\ [CacheNext]_cacheVars => [Promise!Next]_<<clock, up, Entries, answer>>
  <2> SUFFICES ASSUME CacheInv, [CacheNext]_cacheVars
               PROVE  Promise!Next \/ UNCHANGED <<clock, up, Entries, answer>>
    OBVIOUS
  <2>1. CASE UNCHANGED cacheVars
    BY <2>1 DEF cacheVars, Entries
  <2>2. ASSUME NEW k \in Keys, CacheGet(k) PROVE Promise!Next
    BY <2>2, GetIsGet DEF Promise!Next
  <2>3. ASSUME NEW k \in Keys, CacheGetFails(k) PROVE Promise!Next
    <3>1. Promise!Get(k)
      BY <2>3 DEF CacheGetFails, Promise!Get
    <3> QED BY <3>1 DEF Promise!Next
  <2>4. ASSUME NEW k \in Keys, CacheDelete(k) \/ RedisExpires(k) PROVE Promise!Next
    <3>1. Entries' = [Entries EXCEPT ![k] = Absent]
      BY <2>4 DEF CacheDelete, RedisExpires, Drop, Entries, CacheInv, CacheTypeOK
    <3>2. Promise!Delete(k)
      BY <2>4, <3>1
         DEF CacheDelete, RedisExpires, Promise!Delete, Promise!Without, Entries
    <3> QED BY <3>2 DEF Promise!Next
  <2>5. ASSUME NEW k \in Keys, NEW v \in Values, NEW ttl \in Ttls \cup {NoTtl},
               CacheSet(k, v, ttl)
        PROVE  Promise!Next
    BY <2>5, SetIsSet DEF Promise!Next
  <2>6. CASE ClockMoves \/ CacheOutage
    BY <2>6 DEF ClockMoves, CacheOutage, Promise!Next, Promise!Environment
  <2> QED BY <2>1, <2>2, <2>3, <2>4, <2>5, <2>6 DEF CacheNext
<1> QED BY <1>1, <1>2, CacheInductive, PTL DEF CacheSpec, PromiseSpec, Promise!Spec, Entries

-----------------------------------------------------------------------------
(* ServerHealth *)

\* A request remembers what its components gave, what its checks found among it.
FindingsInv ==
    \A k \in probing, c \in Components :
        /\ Gives(c, condition[c]) \in seen[k][c]
        /\ status[k][c] = "healthy" =>
              "answer" \in seen[k][c] \/ (c = "cache" /\ c \notin remote /\ "miss" \in seen[k][c])
        /\ status[k][c] = "unhealthy" => "nothing" \in seen[k][c]

HealthInv ==
    /\ HealthTypeOK /\ FindingsInv
    /\ \A k \in Probes \ probing, c \in Components : status[k][c] = "unknown"

LEMMA HealthInvInit == HealthInit => HealthInv
BY DEF HealthInit, HealthInv, HealthTypeOK, FindingsInv, Conditions

LEMMA GivesGift == \A c, how : Gives(c, how) \in Gifts
BY DEF Gives, Gifts

LEMMA HealthInvStep == HealthInv /\ [HealthNext]_healthVars => HealthInv'
<1> SUFFICES ASSUME HealthInv, [HealthNext]_healthVars PROVE HealthInv'
  OBVIOUS
<1>0. /\ HealthTypeOK /\ FindingsInv
      /\ \A k \in Probes \ probing, c \in Components : status[k][c] = "unknown"
  BY DEF HealthInv
<1>1. ASSUME NEW k \in Probes, StartProbe(k) PROVE HealthInv'
  <2>1. HealthTypeOK'
    BY <1>0, <1>1, GivesGift DEF StartProbe, HealthTypeOK
  <2>2. FindingsInv'
    BY <1>0, <1>1 DEF StartProbe, HealthTypeOK, FindingsInv, Gives
  <2>. QED BY <1>0, <1>1, <2>1, <2>2 DEF StartProbe, HealthInv
<1>2. ASSUME NEW k \in Probes, NEW c \in Components, Check(k, c) PROVE HealthInv'
  <2>1. Finding(c) \in Statuses
    BY DEF Finding, Statuses
  <2>2. HealthTypeOK'
    BY <1>0, <1>2, <2>1 DEF Check, HealthTypeOK
  <2>3. FindingsInv'
    <3>1. /\ k \in probing /\ status' = [status EXCEPT ![k][c] = Finding(c)]
          /\ UNCHANGED <<remote, condition, probing, seen>>
      BY <1>2 DEF Check
    <3>2. Gives(c, condition[c]) \in seen[k][c]
      BY <1>0, <3>1 DEF FindingsInv
    <3>. QED BY <1>0, <3>1, <3>2 DEF HealthTypeOK, FindingsInv, Finding, Gives
  <2>. QED BY <1>0, <1>2, <2>2, <2>3 DEF Check, HealthTypeOK, HealthInv
<1>3. ASSUME NEW k \in Probes, Report(k) PROVE HealthInv'
  <2>1. HealthTypeOK'
    BY <1>0, <1>3 DEF Report, HealthTypeOK
  <2>2. FindingsInv'
    BY <1>0, <1>3 DEF Report, HealthTypeOK, FindingsInv, Gives
  <2>3. \A j \in Probes \ probing', c \in Components : status'[j][c] = "unknown"
    BY <1>0, <1>3 DEF Report, HealthTypeOK
  <2>. QED BY <2>1, <2>2, <2>3 DEF HealthInv
<1>4. ASSUME NEW c \in Components, NEW to \in Conditions, Change(c, to) PROVE HealthInv'
  <2>1. /\ condition' = [condition EXCEPT ![c] = to]
        /\ UNCHANGED <<remote, probing, status>>
        /\ \A k \in Probes, d \in Components :
              seen'[k][d] = IF k \in probing /\ d = c THEN seen[k][d] \cup {Gives(c, to)}
                            ELSE seen[k][d]
    BY <1>0, <1>4 DEF Change, HealthTypeOK
  <2>2. HealthTypeOK'
    <3>1. seen' \in [Probes -> [Components -> SUBSET Gifts]]
      BY <1>0, <1>4, GivesGift DEF Change, HealthTypeOK
    <3>. QED BY <1>0, <2>1, <3>1 DEF HealthTypeOK
  <2>3. FindingsInv'
    <3> SUFFICES ASSUME NEW k \in probing, NEW d \in Components
                 PROVE  /\ Gives(d, condition'[d]) \in seen'[k][d]
                        /\ status[k][d] = "healthy" =>
                              \/ "answer" \in seen'[k][d]
                              \/ d = "cache" /\ d \notin remote /\ "miss" \in seen'[k][d]
                        /\ status[k][d] = "unhealthy" => "nothing" \in seen'[k][d]
      BY <2>1 DEF FindingsInv, Gives
    <3>1. k \in Probes /\ seen[k][d] \subseteq seen'[k][d]
      BY <1>0, <2>1 DEF HealthTypeOK
    <3>2. Gives(d, condition'[d]) \in seen'[k][d]
      <4>1. CASE d = c
        BY <1>0, <2>1, <3>1, <4>1 DEF HealthTypeOK
      <4>2. CASE d # c
        BY <1>0, <2>1, <3>1, <4>2 DEF HealthTypeOK, FindingsInv
      <4>. QED BY <4>1, <4>2
    <3>. QED BY <1>0, <3>1, <3>2 DEF FindingsInv
  <2>. QED BY <1>0, <2>1, <2>2, <2>3 DEF HealthInv
<1>5. CASE UNCHANGED healthVars
  BY <1>0, <1>5 DEF healthVars, HealthInv, HealthTypeOK, FindingsInv, Gives
<1>. QED BY <1>1, <1>2, <1>3, <1>4, <1>5 DEF HealthNext

LEMMA HealthInductive == HealthSpec => []HealthInv
BY HealthInvInit, HealthInvStep, PTL DEF HealthSpec

\* The state of the health checks has its type.
THEOREM HealthTypeCorrect == HealthSpec => []HealthTypeOK
BY HealthInductive, PTL DEF HealthInv

\* A request that answers "healthy" saw the engine and Redis answer while it ran,
\* and a SQLite cache answer or fail to read, which it cannot tell apart; one
\* that answers "unhealthy" saw a component give nothing.
THEOREM HealthIsHonest == HealthSpec => []HealthHonest
<1>1. HealthInv => HealthHonest
  <2> SUFFICES ASSUME HealthTypeOK, FindingsInv, NEW k \in Probes, Done(k)
               PROVE  IF Overall(k) = "healthy"
                      THEN \A c \in Components :
                              \/ "answer" \in seen[k][c]
                              \/ c = "cache" /\ c \notin remote /\ "miss" \in seen[k][c]
                      ELSE \E c \in Components : "nothing" \in seen[k][c]
    BY DEF HealthInv, HealthHonest
  <2>1. \A c \in Components : k \in probing /\ status[k][c] \in {"healthy", "unhealthy"}
    BY DEF Done, HealthTypeOK, Statuses
  <2>2. CASE \A c \in Components : status[k][c] = "healthy"
    <3>1. Overall(k) = "healthy"
      BY <2>2 DEF Overall
    <3>. QED BY <2>1, <2>2, <3>1 DEF FindingsInv
  <2>3. CASE \E c \in Components : status[k][c] # "healthy"
    <3>1. Overall(k) # "healthy"
      BY <2>3 DEF Overall
    <3>. QED BY <2>1, <2>3, <3>1 DEF FindingsInv
  <2>. QED BY <2>2, <2>3
<1>. QED BY <1>1, HealthInductive, PTL
=================================================================================
