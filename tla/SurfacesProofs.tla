----------------------------- MODULE SurfacesProofs -----------------------------
(***************************************************************************)
(* What users see, for every number of them: the graph page draws no link  *)
(* without its ends, whatever answers arrive when; the five front doors    *)
(* keep their word to each other's users; the eval metrics mean the same   *)
(* in the three languages, for texts, rankings and samples of every size.  *)
(* With the server (ServerProofs) these are the parts of MCSurfaces.       *)
(***************************************************************************)
EXTENDS MCSurfaces, ServerProofs, FiniteSetTheorems, SequenceTheorems, WellFoundedInduction

(* GraphPage *)

\* An expansion of the graph that is shown is about one of its nodes.
FetchInv ==
    \A c \in Fetches :
        request[c] # Closed /\ request[c].what = "neighbors" =>
            /\ request[c].id \in Thoughts
            /\ request[c].old \/ request[c].id \in nodes

PageInv == PageTypeOK /\ FetchInv /\ LinksHaveEnds

LEMMA PageInvInit == PageInit => PageInv
BY DEF PageInit, PageInv, PageTypeOK, FetchInv, LinksHaveEnds

\* What is open is a request.
LEMMA OpenRequest ==
    ASSUME PageTypeOK, NEW c \in Fetches, request[c] # Closed
    PROVE  request[c] \in Waiting
BY DEF PageTypeOK

LEMMA OpenKeeps ==
    ASSUME PageInv, NEW c \in Fetches, NEW what \in {"list", "neighbors"},
           NEW id \in Thoughts \cup {Closed},
           what = "neighbors" => id \in Thoughts /\ id \in nodes,
           Open(c, what, id)
    PROVE  PageInv'
<1> DEFINE new == [what |-> what, token |-> token, id |-> id, done |-> FALSE,
                   answer |-> {}, old |-> FALSE]
<1>1. new \in Waiting
  BY DEF PageInv, PageTypeOK, Waiting
<1>2. /\ UNCHANGED <<token, kept, linked, nodes, links, crossed>>
      /\ request' = [request EXCEPT ![c] = new]
  BY DEF Open
<1>3. new.what = what /\ new.id = id
  OBVIOUS
<1> HIDE DEF new
<1>4. PageTypeOK'
  BY <1>1, <1>2 DEF PageInv, PageTypeOK
<1>5. FetchInv'
  BY <1>2, <1>3 DEF PageInv, PageTypeOK, FetchInv
<1>. QED BY <1>2, <1>4, <1>5 DEF PageInv, LinksHaveEnds

LEMMA PageInvStep == PageInv /\ [PageNext]_pageVars => PageInv'
<1> SUFFICES ASSUME PageInv, [PageNext]_pageVars PROVE PageInv'
  OBVIOUS
<1>0. PageTypeOK /\ FetchInv /\ LinksHaveEnds
  BY DEF PageInv
<1>1. ASSUME NEW t \in Tokens, TypeToken(t) PROVE PageInv'
  BY <1>0, <1>1 DEF TypeToken, PageInv, PageTypeOK, FetchInv, LinksHaveEnds
<1>2. ASSUME NEW c \in Fetches, LoadGraph(c) PROVE PageInv'
  BY <1>2, OpenKeeps DEF LoadGraph
<1>3. ASSUME NEW c \in Fetches, NEW id \in Thoughts, ExpandNode(c, id) PROVE PageInv'
  BY <1>3, OpenKeeps DEF ExpandNode
<1>4. ASSUME NEW c \in Fetches, ServeRequest(c) PROVE PageInv'
  <2>1. /\ request[c] # Closed
        /\ request' = [request EXCEPT ![c] =
               [request[c] EXCEPT !.done = TRUE, !.answer = Served(request[c])]]
        /\ UNCHANGED <<token, kept, linked, nodes, links, crossed>>
    BY <1>0, <1>4 DEF ServeRequest, PageTypeOK
  <2>2. Served(request[c]) \subseteq Thoughts
    BY <1>0 DEF Served, PageTypeOK
  <2> DEFINE new == [request[c] EXCEPT !.done = TRUE, !.answer = Served(request[c])]
  <2>3. /\ new \in Waiting /\ new.what = request[c].what
        /\ new.id = request[c].id /\ new.old = request[c].old
    BY <1>0, <2>1, <2>2, OpenRequest DEF Waiting
  <2> HIDE DEF new
  <2>4. request' = [request EXCEPT ![c] = new]
    BY <2>1 DEF new
  <2>5. PageTypeOK'
    BY <1>0, <2>1, <2>3, <2>4 DEF PageTypeOK
  <2>6. FetchInv'
    BY <1>0, <2>1, <2>3, <2>4 DEF PageTypeOK, FetchInv
  <2>. QED BY <1>0, <2>1, <2>5, <2>6 DEF PageInv, LinksHaveEnds
\* After a load every expansion that is open is an old one.
<1>5. ASSUME NEW c \in Fetches, ShowGraph(c) PROVE PageInv'
  <2>1. /\ nodes' = request[c].answer /\ links' = {} /\ crossed' = FALSE
        /\ UNCHANGED <<token, kept, linked>>
        /\ request[c] # Closed
    BY <1>5 DEF ShowGraph, Arrived
  <2>2. \A d \in Fetches : request'[d] # Closed =>
           /\ request[d] # Closed
           /\ request'[d] = [request[d] EXCEPT !.old = (request[d].what = "neighbors")]
    BY <1>5 DEF ShowGraph, AfterLoad
  <2>3. \A d \in Fetches : request'[d] # Closed =>
           /\ request'[d] \in Waiting
           /\ request'[d].what = "neighbors" =>
                 request[d].what = "neighbors" /\ request'[d].id = request[d].id /\ request'[d].old
    <3> SUFFICES ASSUME NEW d \in Fetches, request'[d] # Closed
                 PROVE  /\ request'[d] \in Waiting
                        /\ request'[d].what = "neighbors" =>
                             /\ request[d].what = "neighbors" /\ request'[d].id = request[d].id
                             /\ request'[d].old
      OBVIOUS
    <3>1. request[d] \in Waiting
      BY <1>0, <2>2, OpenRequest
    <3>2. (request[d].what = "neighbors") \in BOOLEAN
      OBVIOUS
    <3>. QED BY <2>2, <3>1, <3>2 DEF Waiting
  <2>4. request' \in [Fetches -> Waiting \cup {Closed}]
    <3>1. request' = [d \in Fetches |-> request'[d]]
      BY <1>5 DEF ShowGraph, AfterLoad
    <3>. QED BY <2>3, <3>1
  <2>5. request[c].answer \subseteq Thoughts
    BY <1>0, <2>1, OpenRequest DEF Waiting
  <2>6. PageTypeOK'
    BY <1>0, <2>1, <2>4, <2>5 DEF PageTypeOK
  <2>7. FetchInv'
    BY <1>0, <2>2, <2>3 DEF FetchInv
  <2>. QED BY <2>1, <2>6, <2>7 DEF PageInv, LinksHaveEnds
<1>6. ASSUME NEW c \in Fetches, ShowNeighbors(c) PROVE PageInv'
  <2> DEFINE q == request[c]
  <2>1. /\ q # Closed /\ q.what = "neighbors"
        /\ nodes' = nodes \cup q.answer
        /\ links' = links \cup {<<q.id, v>> : v \in q.answer}
        /\ request' = [request EXCEPT ![c] = Closed]
        /\ crossed' = (crossed \/ q.old)
        /\ UNCHANGED <<token, kept, linked>>
    BY <1>6 DEF ShowNeighbors, Arrived
  <2>2. q \in Waiting /\ q.answer \subseteq Thoughts /\ q.id \in Thoughts /\ q.old \in BOOLEAN
    BY <1>0, <2>1, OpenRequest DEF Waiting, FetchInv
  <2>3. q.old \/ q.id \in nodes
    BY <1>0, <2>1 DEF FetchInv
  <2> HIDE DEF q
  <2>4. PageTypeOK'
    BY <1>0, <2>1, <2>2 DEF PageTypeOK
  <2>5. FetchInv'
    BY <1>0, <2>1 DEF PageTypeOK, FetchInv
  <2>6. LinksHaveEnds'
    BY <1>0, <2>1, <2>2, <2>3 DEF LinksHaveEnds, PageTypeOK
  <2>. QED BY <2>4, <2>5, <2>6 DEF PageInv
<1>7. ASSUME NEW c \in Fetches, RequestFails(c) PROVE PageInv'
  BY <1>0, <1>7 DEF RequestFails, PageInv, PageTypeOK, FetchInv, LinksHaveEnds
<1>8. ASSUME NEW m \in Thoughts, LoseMemory(m) PROVE PageInv'
  BY <1>0, <1>8 DEF LoseMemory, PageInv, PageTypeOK, FetchInv, LinksHaveEnds
<1>9. ASSUME NEW m \in Thoughts, NEW ts \in SUBSET Thoughts, Remember(m, ts) PROVE PageInv'
  BY <1>0, <1>9 DEF Remember, PageInv, PageTypeOK, FetchInv, LinksHaveEnds
<1>10. CASE UNCHANGED pageVars
  BY <1>0, <1>10 DEF pageVars, PageInv, PageTypeOK, FetchInv, LinksHaveEnds
<1>. QED BY <1>1, <1>2, <1>3, <1>4, <1>5, <1>6, <1>7, <1>8, <1>9, <1>10 DEF PageNext

LEMMA PageInductive == PageSpec => []PageInv
BY PageInvInit, PageInvStep, PTL DEF PageSpec

\* The state of the page and of its requests has its type.
THEOREM PageTypeCorrect == PageSpec => []PageTypeOK
BY PageInductive, PTL DEF PageInv

\* In whatever order answers arrive, every link the page holds leads to a node
\* it holds, and starts at one unless an expansion was answered after the graph
\* it was clicked in had been replaced.
THEOREM PageLinksHaveEnds == PageSpec => []LinksHaveEnds
BY PageInductive, PTL DEF PageInv

-----------------------------------------------------------------------------
(* FrontDoors *)

\* A session is at the place its door opens, and a call runs in a session; a
\* store has an id that no other store has, and was not refused.
CallsInv ==
    /\ \A row \in held : row[3] \in used \ refused
    /\ \A u \in Users :
          /\ session[u] # Nothing => session[u].place \in PlacesOf(session[u].door, session[u].name)
          /\ call[u] # Nothing => session[u] # Nothing
          /\ call[u] # Nothing /\ call[u].op = "store" =>
                /\ call[u].id \in used \ refused
                /\ call[u].words \in Tenants
                /\ call[u].tenant \in TenantsOf(session[u].door, call[u].words)

DoorsInv == DoorsTypeOK /\ CallsInv /\ AsTold

\* What a door opens and means depends on the environment alone, and is at most
\* one place and one tenant.
LEMMA OnePlace ==
    ASSUME env \in Environments, NEW d \in Doors, NEW k \in Names
    PROVE  /\ PlacesOf(d, k) \subseteq Places
           /\ \A v, w \in PlacesOf(d, k) : v = w
BY EnvironmentsAssumption
   DEF AllEnvironments, Doors, Names, Places, PlacesOf, CliPlace, PythonPlace, TypescriptPlace,
       McpPlace, ServePlace, EnvironmentPlace, Named

LEMMA OneTenant ==
    ASSUME env \in Environments, NEW d \in Doors, NEW k \in Tenants
    PROVE  /\ TenantsOf(d, k) \subseteq {"local", "", "acme"}
           /\ \A v, w \in TenantsOf(d, k) : v = w
BY EnvironmentsAssumption
   DEF AllEnvironments, Doors, Tenants, TenantsOf, CliTenant, McpTenant, GivenTenant, Said

\* With nothing set in the environment the doors that open a name agree on the
\* place, and those that take a tenant that is not empty on the tenant.
LEMMA DoorsAgree ==
    ASSUME env = Unset, NEW d \in Doors, NEW e \in Doors, NEW k \in Names,
           NEW t \in Tenants \ {"empty"}
    PROVE  /\ \A v \in PlacesOf(d, k), w \in PlacesOf(e, k) : v = w
           /\ \A v \in TenantsOf(d, t), w \in TenantsOf(e, t) : v = w
<1>1. env.sqlite = "unset" /\ env.database = "unset" /\ env.tenant = "unset"
  BY DEF Unset
<1>2. \A v \in PlacesOf(d, k), w \in PlacesOf(e, k) : v = w
  BY <1>1 DEF Doors, Names, PlacesOf, CliPlace, PythonPlace, TypescriptPlace,
     McpPlace, ServePlace, EnvironmentPlace, Named
<1>3. \A v \in TenantsOf(d, t), w \in TenantsOf(e, t) : v = w
  BY <1>1 DEF Tenants, TenantsOf, CliTenant, McpTenant, GivenTenant, Said
<1>. QED BY <1>2, <1>3

LEMMA EnvironmentStays ==
    ASSUME UNCHANGED env
    PROVE  /\ \A d, k : PlacesOf(d, k)' = PlacesOf(d, k)
           /\ \A d, k : TenantsOf(d, k)' = TenantsOf(d, k)
           /\ \A t, d : SameWords(t, d)' = SameWords(t, d)
BY DEF PlacesOf, CliPlace, PythonPlace, TypescriptPlace, McpPlace, ServePlace, EnvironmentPlace,
   Named, TenantsOf, CliTenant, McpTenant, GivenTenant, Said, SameWords

\* The calls of the next state, in terms of the environment of this one.
LEMMA CallsStay ==
    ASSUME UNCHANGED env,
           \A row \in held' : row[3] \in used' \ refused',
           \A u \in Users :
              /\ session'[u] # Nothing =>
                    session'[u].place \in PlacesOf(session'[u].door, session'[u].name)
              /\ call'[u] # Nothing => session'[u] # Nothing
              /\ call'[u] # Nothing /\ call'[u].op = "store" =>
                    /\ call'[u].id \in used' \ refused'
                    /\ call'[u].words \in Tenants
                    /\ call'[u].tenant \in TenantsOf(session'[u].door, call'[u].words)
    PROVE  CallsInv'
<1>1. \A u : PlacesOf(session[u].door, session[u].name)'
                = PlacesOf(session'[u].door, session'[u].name)
  BY DEF PlacesOf, CliPlace, PythonPlace, TypescriptPlace, McpPlace, ServePlace,
     EnvironmentPlace, Named
<1>2. \A u : TenantsOf(session[u].door, call[u].words)'
                = TenantsOf(session'[u].door, call'[u].words)
  BY DEF TenantsOf, CliTenant, McpTenant, GivenTenant, Said
<1>. QED BY <1>1, <1>2 DEF CallsInv

\* Promises that no row was taken from stay true.
LEMMA ToldStay ==
    ASSUME DoorsInv, UNCHANGED <<env, held, told>>,
           \A row \in held : row[3] \notin refused'
    PROVE  AsTold'
<1>1. ASSUME NEW t \in told, NEW d \in Doors, SameWords(t, d)',
             NEW v \in PlacesOf(d, t.name)', NEW w \in TenantsOf(d, t.words)'
      PROVE  <<v, w, t.id>> \in held
  <2>1. SameWords(t, d) /\ v \in PlacesOf(d, t.name) /\ w \in TenantsOf(d, t.words)
    BY <1>1, EnvironmentStays
  <2>. QED BY <1>1, <2>1 DEF DoorsInv, AsTold
<1>. QED BY <1>1 DEF AsTold

LEMMA DoorsInvInit == DoorsInit => DoorsInv
BY DEF DoorsInit, DoorsInv, DoorsTypeOK, CallsInv, AsTold

LEMMA CallFields ==
    ASSUME DoorsInv, NEW u \in Users, call[u] # Nothing
    PROVE  call[u] \in Waits /\ session[u] \in Sessions
BY DEF DoorsInv, DoorsTypeOK, CallsInv

\* What is taken is a call, and only a store uses an id.
LEMMA TakeKeeps ==
    ASSUME DoorsInv, NEW u \in Users, session[u] # Nothing, call[u] = Nothing,
           NEW o \in {"store", "read", "forget"}, NEW t \in {"local", "", "acme"},
           NEW words \in Tenants \cup {Nothing}, NEW id \in Notes \cup {Nothing},
           Take(u, o, t, words, id), UNCHANGED refused,
           \/ o # "store" /\ UNCHANGED used
           \/ /\ words \in Tenants /\ t \in TenantsOf(session[u].door, words)
              /\ id \in Notes \ used /\ used' = used \cup {id}
    PROVE  DoorsInv'
<1> DEFINE new == [op |-> o, tenant |-> t, words |-> words, id |-> id]
<1>1. /\ new \in Waits /\ new.op = o /\ new.tenant = t /\ new.words = words /\ new.id = id
  BY DEF Waits
<1> HIDE DEF new
<1>2. call' = [call EXCEPT ![u] = new] /\ UNCHANGED <<env, session, held, told, refused>>
  BY DEF Take, new
<1>3. used \subseteq used' /\ used' \subseteq Notes
  BY DEF DoorsInv, DoorsTypeOK
<1>4. DoorsTypeOK'
  BY <1>1, <1>2, <1>3 DEF DoorsInv, DoorsTypeOK
<1>5. CallsInv'
  <2>1. \A row \in held' : row[3] \in used' \ refused'
    BY <1>2, <1>3 DEF DoorsInv, CallsInv
  <2>2. ASSUME NEW v \in Users
      PROVE  /\ session[v] # Nothing =>
                   session[v].place \in PlacesOf(session[v].door, session[v].name)
             /\ call'[v] # Nothing => session[v] # Nothing
             /\ call'[v] # Nothing /\ call'[v].op = "store" =>
                   /\ call'[v].id \in used' \ refused
                   /\ call'[v].words \in Tenants
                   /\ call'[v].tenant \in TenantsOf(session[v].door, call'[v].words)
    <3>1. session[v] # Nothing => session[v].place \in PlacesOf(session[v].door, session[v].name)
      BY DEF DoorsInv, CallsInv
    <3>2. CASE v = u
      BY <1>1, <1>2, <3>1, <3>2 DEF DoorsInv, DoorsTypeOK
    <3>3. CASE v # u
      BY <1>2, <1>3, <3>3 DEF DoorsInv, DoorsTypeOK, CallsInv
    <3>. QED BY <3>2, <3>3
  <2>. QED BY <1>2, <2>1, <2>2, CallsStay
<1>6. AsTold'
  BY <1>2, ToldStay DEF DoorsInv, AsTold
<1>. QED BY <1>4, <1>5, <1>6 DEF DoorsInv

LEMMA StoreKeeps ==
    ASSUME DoorsInv, NEW u \in Users, NEW d \in Doors, At(u, d),
           NEW v \in Arguments, TakeStore(u, v) \/ RefuseStore(u, v)
    PROVE  DoorsInv'
<1>1. v.tenant \in Tenants /\ v.id \in Notes
  BY DEF Arguments
<1>2. session[u] # Nothing /\ session[u].door = d /\ call[u] = Nothing
  BY DEF At
<1>3. CASE TakeStore(u, v)
  <2>1. PICK t \in TenantsOf(d, v.tenant) : Take(u, "store", t, v.tenant, v.id)
    BY <1>2, <1>3 DEF TakeStore
  <2>2. t \in {"local", "", "acme"}
    BY <1>1, OneTenant DEF DoorsInv, DoorsTypeOK
  <2>3. v.id \in Notes \ used /\ used' = used \cup {v.id} /\ UNCHANGED refused
    BY <1>3 DEF TakeStore
  <2>. QED BY <1>1, <1>2, <2>1, <2>2, <2>3, TakeKeeps
<1>4. CASE RefuseStore(u, v)
  <2>1. /\ v.id \in Notes \ used /\ used' = used \cup {v.id} /\ refused' = refused \cup {v.id}
        /\ UNCHANGED <<env, session, call, held, told>>
    BY <1>4 DEF RefuseStore
  <2>2. DoorsTypeOK'
    BY <2>1 DEF DoorsInv, DoorsTypeOK
  <2>3. CallsInv'
    BY <2>1, CallsStay DEF DoorsInv, CallsInv
  <2>4. AsTold'
    BY <2>1, ToldStay DEF DoorsInv, CallsInv, AsTold
  <2>. QED BY <2>2, <2>3, <2>4 DEF DoorsInv
<1>. QED BY <1>3, <1>4

LEMMA ForgetKeeps ==
    ASSUME DoorsInv, NEW u \in Users, NEW d \in Doors, At(u, d), TakeForget(u)
    PROVE  DoorsInv'
<1>1. session[u] # Nothing /\ session[u].door = d /\ call[u] = Nothing
  BY DEF At
<1>2. PICK words \in Tenants, id \in Notes :
        \E t \in TenantsOf(d, words) : Take(u, "forget", t, Nothing, id)
  BY <1>1 DEF TakeForget
<1>3. PICK t \in TenantsOf(d, words) : Take(u, "forget", t, Nothing, id)
  BY <1>2
<1>4. t \in {"local", "", "acme"} /\ UNCHANGED <<used, refused>>
  BY OneTenant DEF DoorsInv, DoorsTypeOK, TakeForget
<1>. QED BY <1>1, <1>3, <1>4, TakeKeeps

LEMMA ReadKeeps ==
    ASSUME DoorsInv, NEW u \in Users, NEW d \in Doors, At(u, d), TakeRead(u)
    PROVE  DoorsInv'
<1>1. session[u] # Nothing /\ call[u] = Nothing
  BY DEF At
<1>2. Take(u, "read", "", Nothing, Nothing) /\ UNCHANGED <<used, refused>>
  BY DEF TakeRead
<1>. QED BY <1>1, <1>2, TakeKeeps

\* What a store leaves is where every door that means the same looks for it.
LEMMA StoredWhereToldFrom ==
    ASSUME DoorsInv, NEW u \in Users, call[u] # Nothing, call[u].op = "store",
           NEW t, t = [door |-> session[u].door, name |-> session[u].name,
                       words |-> call[u].words, id |-> call[u].id],
           NEW d \in Doors, SameWords(t, d),
           NEW v \in PlacesOf(d, t.name), NEW w \in TenantsOf(d, t.words)
    PROVE  v = session[u].place /\ w = call[u].tenant
<1> DEFINE e == session[u].door
           k == session[u].name
           words == call[u].words
<1>1. t.door = e /\ t.name = k /\ t.words = words
  OBVIOUS
<1>2. e \in Doors /\ k \in Names /\ session[u].place \in PlacesOf(e, k)
  BY CallFields DEF Sessions, DoorsInv, CallsInv
<1>3. words \in Tenants /\ call[u].tenant \in TenantsOf(e, words)
  BY DEF DoorsInv, CallsInv
<1>4. env \in Environments
  BY DEF DoorsInv, DoorsTypeOK
<1>5. CASE d = e
  <2>1. v = session[u].place
    BY <1>1, <1>2, <1>4, <1>5, OnePlace
  <2>2. w \in TenantsOf(e, words) /\ e \in Doors /\ words \in Tenants
    BY <1>1, <1>2, <1>3, <1>5
  <2> HIDE DEF e, words
  <2>3. \A f, g \in TenantsOf(e, words) : f = g
    BY <1>4, <2>2, OneTenant
  <2>4. w = call[u].tenant
    BY <1>3, <2>2, <2>3
  <2>. QED BY <2>1, <2>4
<1>6. CASE env = Unset /\ words # "empty"
  BY <1>1, <1>2, <1>3, <1>6, DoorsAgree
<1>. QED BY <1>1, <1>5, <1>6 DEF SameWords

\* A call ends: rows and promises it leaves alone, or that it adds, stay true.
LEMMA AnswerKeeps ==
    ASSUME DoorsInv, NEW u \in Users, call[u] # Nothing, Answered(u),
           held' \in {held, Effect(u)},
           told' \subseteq told \cup
               (IF call[u].op = "store" /\ held' = Effect(u)
                THEN {[door |-> session[u].door, name |-> session[u].name,
                       words |-> call[u].words, id |-> call[u].id]} ELSE {}),
           call[u].op = "forget" /\ held' # held => \A t \in told' : t.id # call[u].id
    PROVE  DoorsInv'
<1> DEFINE row == <<session[u].place, call[u].tenant, call[u].id>>
           new == [door |-> session[u].door, name |-> session[u].name,
                   words |-> call[u].words, id |-> call[u].id]
<1>1. call' = [call EXCEPT ![u] = Nothing] /\ UNCHANGED <<env, session, used, refused>>
  BY DEF Answered
<1>2. call[u] \in Waits /\ session[u] \in Sessions
  BY CallFields
<1>3. call[u].op = "store" => call[u].id \in used \ refused /\ call[u].words \in Tenants
  BY DEF DoorsInv, CallsInv
<1>4. used \subseteq Notes
  BY DEF DoorsInv, DoorsTypeOK
<1>5. held' \subseteq held \cup (IF call[u].op = "store" THEN {row} ELSE {})
  BY DEF Effect
<1>6. /\ session[u].place \in Places /\ session[u].door \in Doors /\ session[u].name \in Names
      /\ call[u].tenant \in {"local", "", "acme"}
  BY <1>2 DEF Sessions, Waits
<1>7. DoorsTypeOK'
  <2>1. call[u].op = "store" => row \in Places \X {"local", "", "acme"} \X Notes
    BY <1>3, <1>4, <1>6
  <2>2. call[u].op = "store" =>
           new \in [door : Doors, name : Names, words : Tenants, id : Notes]
    BY <1>3, <1>4, <1>6
  <2> HIDE DEF row, new
  <2>3. held' \subseteq Places \X {"local", "", "acme"} \X Notes
    BY <1>5, <2>1 DEF DoorsInv, DoorsTypeOK
  <2>4. told' \subseteq told \cup (IF call[u].op = "store" THEN {new} ELSE {})
    BY DEF new
  <2>5. told' \subseteq [door : Doors, name : Names, words : Tenants, id : Notes]
    BY <2>2, <2>4 DEF DoorsInv, DoorsTypeOK
  <2>. QED BY <1>1, <2>3, <2>5 DEF DoorsInv, DoorsTypeOK
<1>8. CallsInv'
  <2>1. \A r \in held' : r[3] \in used' \ refused'
    BY <1>1, <1>3, <1>5 DEF DoorsInv, CallsInv
  <2>2. \A v \in Users : call'[v] # Nothing => call'[v] = call[v]
    BY <1>1 DEF DoorsInv, DoorsTypeOK
  <2>. QED BY <1>1, <2>1, <2>2, CallsStay DEF DoorsInv, CallsInv
<1>9. ASSUME NEW t \in told', NEW d \in Doors, SameWords(t, d),
             NEW v \in PlacesOf(d, t.name), NEW w \in TenantsOf(d, t.words)
      PROVE  <<v, w, t.id>> \in held'
  <2>1. CASE t \in told
    <3>1. <<v, w, t.id>> \in held
      BY <1>9, <2>1 DEF DoorsInv, AsTold
    <3>2. CASE held' = held
      BY <3>1, <3>2
    <3>3. CASE held' # held /\ call[u].op = "store"
      BY <3>1, <3>3 DEF Effect
    <3>4. CASE held' # held /\ call[u].op = "forget"
      <4>1. t.id # call[u].id /\ held' = held \ {row}
        BY <1>9, <3>4 DEF Effect
      <4>. QED BY <3>1, <4>1
    <3>. QED BY <3>2, <3>3, <3>4 DEF Effect
  <2>2. CASE call[u].op = "store" /\ held' = Effect(u) /\ t = new
    <3>1. v = session[u].place /\ w = call[u].tenant
      BY <1>9, <2>2, StoredWhereToldFrom
    <3>2. t.id = call[u].id /\ row \in held'
      BY <2>2 DEF Effect
    <3>. QED BY <3>1, <3>2
  <2>. QED BY <2>1, <2>2
<1>10. AsTold'
  <2>1. ASSUME NEW t \in told', NEW d \in Doors, SameWords(t, d)',
               NEW v \in PlacesOf(d, t.name)', NEW w \in TenantsOf(d, t.words)'
        PROVE  <<v, w, t.id>> \in held'
    <3>1. SameWords(t, d) /\ v \in PlacesOf(d, t.name) /\ w \in TenantsOf(d, t.words)
      BY <1>1, <2>1, EnvironmentStays
    <3>. QED BY <1>9, <2>1, <3>1
  <2>. QED BY <1>8, <2>1 DEF AsTold, CallsInv
<1>. QED BY <1>7, <1>8, <1>10 DEF DoorsInv

LEMMA DoorsInvStep == DoorsInv /\ [DoorsNext]_doorVars => DoorsInv'
<1> SUFFICES ASSUME DoorsInv, [DoorsNext]_doorVars PROVE DoorsInv'
  OBVIOUS
<1>1. ASSUME NEW u \in Users, NEW d \in Doors, NEW k \in Names, OpenDoor(u, d, k) PROVE DoorsInv'
  <2>1. PICK place \in PlacesOf(d, k) :
          session' = [session EXCEPT ![u] = [door |-> d, name |-> k, place |-> place]]
    BY <1>1 DEF OpenDoor
  <2> DEFINE new == [door |-> d, name |-> k, place |-> place]
  <2>2. new \in Sessions /\ new.door = d /\ new.name = k /\ new.place = place
    BY OnePlace DEF Sessions, DoorsInv, DoorsTypeOK
  <2> HIDE DEF new
  <2>3. /\ session' = [session EXCEPT ![u] = new]
        /\ session[u] = Nothing /\ UNCHANGED <<env, call, held, used, refused, told>>
    BY <1>1, <2>1 DEF OpenDoor, new
  <2>4. DoorsTypeOK'
    BY <2>2, <2>3 DEF DoorsInv, DoorsTypeOK
  <2>5. call[u] = Nothing
    BY <2>3 DEF DoorsInv, CallsInv
  <2>6. \A v \in Users : session'[v] = IF v = u THEN new ELSE session[v]
    BY <2>3 DEF DoorsInv, DoorsTypeOK
  <2>7. CallsInv'
    BY <2>2, <2>3, <2>5, <2>6, CallsStay DEF DoorsInv, CallsInv
  <2>8. AsTold'
    BY <2>3, ToldStay DEF DoorsInv, AsTold
  <2>. QED BY <2>4, <2>7, <2>8 DEF DoorsInv
<1>2. ASSUME NEW u \in Users, CloseDoor(u) PROVE DoorsInv'
  <2>1. /\ session' = [session EXCEPT ![u] = Nothing] /\ call[u] = Nothing
        /\ UNCHANGED <<env, call, held, used, refused, told>>
    BY <1>2 DEF CloseDoor
  <2>2. DoorsTypeOK'
    BY <2>1 DEF DoorsInv, DoorsTypeOK
  <2>3. \A v \in Users : session'[v] # Nothing => v # u /\ session'[v] = session[v]
    BY <2>1 DEF DoorsInv, DoorsTypeOK
  <2>4. CallsInv'
    BY <2>1, <2>3, CallsStay DEF DoorsInv, DoorsTypeOK, CallsInv
  <2>5. AsTold'
    BY <2>1, ToldStay DEF DoorsInv, AsTold
  <2>. QED BY <2>2, <2>4, <2>5 DEF DoorsInv
<1>3. ASSUME NEW u \in Users, RunCall(u) PROVE DoorsInv'
  <2>1. call[u] # Nothing /\ Answered(u) /\ held' = Effect(u)
    BY <1>3 DEF RunCall
  <2>2. CASE call[u].op = "store"
    BY <1>3, <2>1, <2>2, AnswerKeeps DEF RunCall
  <2>3. CASE call[u].op # "store"
    <3>1. told' = {t \in told : held' = held \/ t.id # call[u].id}
      BY <1>3, <2>3 DEF RunCall
    <3>. QED BY <2>1, <2>3, <3>1, AnswerKeeps
  <2>. QED BY <2>2, <2>3
<1>4. ASSUME NEW u \in Users, RunFails(u) PROVE DoorsInv'
  BY <1>4, AnswerKeeps DEF RunFails
<1>5. ASSUME NEW u \in Users,
             \/ CliStore(u) \/ PythonStore(u) \/ TypescriptStore(u) \/ McpStore(u) \/ HttpStore(u)
      PROVE  DoorsInv'
  <2>1. PICK d \in Doors, v \in Arguments : At(u, d) /\ (TakeStore(u, v) \/ RefuseStore(u, v))
    BY <1>5 DEF CliStore, PythonStore, TypescriptStore, McpStore, HttpStore, Doors
  <2>. QED BY <2>1, StoreKeeps
<1>6. ASSUME NEW u \in Users,
             \/ CliForget(u) \/ PythonForget(u) \/ TypescriptForget(u) \/ McpForget(u)
             \/ HttpForget(u)
      PROVE  DoorsInv'
  <2>1. PICK d \in Doors : At(u, d) /\ TakeForget(u)
    BY <1>6 DEF CliForget, PythonForget, TypescriptForget, McpForget, HttpForget, Doors
  <2>. QED BY <2>1, ForgetKeeps
<1>7. ASSUME NEW u \in Users,
             \/ CliRecall(u) \/ PythonRecall(u) \/ TypescriptRecall(u) \/ McpRecall(u)
             \/ HttpRecall(u) \/ PythonAudit(u) \/ TypescriptAudit(u) \/ McpAudit(u)
             \/ HttpAudit(u)
      PROVE  DoorsInv'
  <2>1. PICK d \in Doors : At(u, d) /\ TakeRead(u)
    BY <1>7 DEF CliRecall, PythonRecall, TypescriptRecall, McpRecall, HttpRecall,
       PythonAudit, TypescriptAudit, McpAudit, HttpAudit, Doors
  <2>. QED BY <2>1, ReadKeeps
<1>8. CASE UNCHANGED doorVars
  <2>1. UNCHANGED <<env, session, call, held, used, refused, told>>
    BY <1>8 DEF doorVars
  <2>2. DoorsTypeOK'
    BY <2>1 DEF DoorsInv, DoorsTypeOK
  <2>3. CallsInv' /\ AsTold'
    BY <2>1, CallsStay, ToldStay DEF DoorsInv, CallsInv, AsTold
  <2>. QED BY <2>2, <2>3 DEF DoorsInv
<1>. QED BY <1>1, <1>2, <1>3, <1>4, <1>5, <1>6, <1>7, <1>8 DEF DoorsNext

LEMMA DoorsInductive == DoorsSpec => []DoorsInv
BY DoorsInvInit, DoorsInvStep, PTL DEF DoorsSpec

\* Sessions, calls and the rows of the stores have their types.
THEOREM DoorsTypeCorrect == DoorsSpec => []DoorsTypeOK
BY DoorsInductive, PTL DEF DoorsInv

\* What the five doors tell is so: nothing refused is held, and what was told to
\* be stored is found at every door that is asked in the same words.
THEOREM DoorsKeepTheirWord == DoorsSpec => []AsTold
BY DoorsInductive, PTL DEF DoorsInv

-----------------------------------------------------------------------------
(* EvalMetrics *)

LEMMA MetricsTypeInit == MetricsInit => MetricsTypeOK
BY BoundsAssumption DEF MetricsInit, MetricsTypeOK, IsInjective

LEMMA AppendNew ==
    ASSUME NEW q \in Seq(Docs), IsInjective(q), NEW d \in Docs, d \notin Range(q)
    PROVE  Append(q, d) \in Seq(Docs) /\ IsInjective(Append(q, d))
BY DEF IsInjective, Range

LEMMA MetricsTypeStep == MetricsTypeOK /\ [MetricsNext]_metricVars => MetricsTypeOK'
<1> SUFFICES ASSUME MetricsTypeOK, [MetricsNext]_metricVars PROVE MetricsTypeOK'
  OBVIOUS
<1>1. CASE Ranking
  BY <1>1, AppendNew DEF Ranking, MetricsTypeOK
<1>2. CASE Text
  <2>1. /\ wantedText' \in {wantedText} \cup {Append(wantedText, c) : c \in Chars}
        /\ foundText' \in {foundText} \cup {Append(foundText, c) : c \in Chars}
        /\ UNCHANGED <<retrieved, expected, count>>
    BY <1>2 DEF Text
  <2>2. \A q \in Seq(Chars), c \in Chars : Append(q, c) \in Seq(Chars)
    OBVIOUS
  <2>3. wantedText' \in Seq(Chars) /\ foundText' \in Seq(Chars)
    BY <2>1, <2>2 DEF MetricsTypeOK
  <2>. QED BY <2>1, <2>3 DEF MetricsTypeOK
<1>3. CASE Sample
  BY <1>3, BoundsAssumption DEF Sample, MetricsTypeOK
<1>4. CASE UNCHANGED metricVars
  BY <1>4 DEF metricVars, MetricsTypeOK
<1>. QED BY <1>1, <1>2, <1>3, <1>4 DEF MetricsNext

\* The inputs have their types.
THEOREM MetricsTypeCorrect == MetricsSpec => []MetricsTypeOK
BY MetricsTypeInit, MetricsTypeStep, PTL DEF MetricsSpec

LEMMA RanksAreNearest ==
    ASSUME count \in Nat, NEW k \in {50, 95, 99}
    PROVE  NearestRank(k)
<1> SUFFICES ASSUME count > 0
             PROVE  /\ Percentile(k, count) \in 1 .. count
                    /\ 100 * Percentile(k, count) >= k * count
                    /\ 100 * (Percentile(k, count) - 1) < k * count
  BY DEF NearestRank
<1>1. Percentile(k, count) = (k * count + 99) \div 100
  BY DEF Percentile
<1>2. CASE k = 50
  BY <1>1, <1>2
<1>3. CASE k = 95
  BY <1>1, <1>3
<1>4. CASE k = 99
  BY <1>1, <1>4
<1>. QED BY <1>2, <1>3, <1>4

\* Descent on the naturals ends, so First has something to choose.
LEMMA FirstIsLeast ==
    ASSUME NEW S \in SUBSET Nat, S # {}
    PROVE  First(S) \in S /\ \A j \in S : First(S) <= j
<1> DEFINE R == {q \in Nat \X Nat : q[1] < q[2]}
<1>1. IsWellFoundedOn(R, Nat)
  BY NatLessThanWellFounded DEF OpToRel
<1>2. \A j, k \in Nat : <<j, k>> \in R <=> j < k
  OBVIOUS
<1> HIDE DEF R
<1>3. \E k \in S : \A j \in S : ~(<<j, k>> \in R)
  BY <1>1, WFMin
<1>4. PICK k \in S : \A j \in S : ~(<<j, k>> \in R)
  BY <1>3
<1>5. \A j \in S : k <= j
  <2> SUFFICES ASSUME NEW j \in S PROVE k <= j
    OBVIOUS
  <2>1. j \in Nat /\ k \in Nat /\ ~(j < k)
    BY <1>2, <1>4
  <2>. QED BY <2>1
<1>. QED BY <1>5 DEF First

\* The ids a ranking is scored by, as positions of the wanted ones.
LEMMA RankingsAlwaysCohere ==
    ASSUME retrieved \in Seq(Docs), expected \in Seq(Docs)
    PROVE  RankingsCohere
<1> SUFFICES ASSUME NEW k \in 1 .. Len(retrieved)
             PROVE  LET r == RecallAtK(retrieved, expected, k)
                        m == Mrr(retrieved, expected)
                    IN  /\ RecallAtK(retrieved, expected, k - 1)[1] <= r[1] /\ r[1] <= r[2]
                        /\ (r = NaN) <=> (m = NaN)
                        /\ (r[1] > 0) <=> (m[1] = 1 /\ m[2] <= k)
  BY DEF RankingsCohere
<1> DEFINE Top(j) == {retrieved[i] : i \in {l \in DOMAIN retrieved : l <= j}}
           Hits(j) == {i \in DOMAIN expected : expected[i] \in Top(j)}
           at == {i \in DOMAIN retrieved : \E j \in DOMAIN expected : expected[j] = retrieved[i]}
<1>1. CASE expected = <<>>
  BY <1>1 DEF RecallAtK, Mrr, NaN
<1>2. CASE expected # <<>>
  <2>1. \A j : RecallAtK(retrieved, expected, j) = <<Cardinality(Hits(j)), Len(expected)>>
    BY <1>2 DEF RecallAtK
  <2>2. Mrr(retrieved, expected) = IF at = {} THEN <<0, 1>> ELSE <<1, First(at)>>
    BY <1>2 DEF Mrr
  <2>3. /\ DOMAIN expected = 1 .. Len(expected) /\ Len(expected) \in Nat /\ Len(expected) > 0
        /\ DOMAIN retrieved = 1 .. Len(retrieved) /\ Len(retrieved) \in Nat
    BY <1>2
  <2>4. IsFiniteSet(DOMAIN expected) /\ Cardinality(DOMAIN expected) = Len(expected)
    <3>1. IsFiniteSet(1 .. Len(expected)) /\ Cardinality(1 .. Len(expected)) = Len(expected)
      <4>1. 1 \in Int /\ Len(expected) \in Int /\ Len(expected) >= 1
        BY <2>3
      <4>. QED BY <4>1, FS_Interval
    <3>. QED BY <2>3, <3>1
  <2>5. Hits(k - 1) \subseteq Hits(k) /\ Hits(k) \subseteq DOMAIN expected
    BY <2>3
  <2>6. at \subseteq Nat /\ \A l \in Nat : (\E i \in at : i <= l) <=> Hits(l) # {}
    BY <2>3
  <2>7. at # {} => First(at) \in at /\ \A j \in at : First(at) <= j
    BY <2>6, FirstIsLeast
  <2> HIDE DEF Hits, at
  <2>8. IsFiniteSet(Hits(k)) /\ Cardinality(Hits(k)) <= Len(expected)
    BY <2>4, <2>5, FS_Subset
  <2>9. Cardinality(Hits(k - 1)) <= Cardinality(Hits(k))
    BY <2>5, <2>8, FS_Subset
  <2>10. Cardinality(Hits(k)) \in Nat /\ (Cardinality(Hits(k)) > 0 <=> Hits(k) # {})
    BY <2>8, FS_CardinalityType, FS_EmptySet
  <2>11. Hits(k) # {} <=> at # {} /\ First(at) <= k
    <3>1. (\E i \in at : i <= k) <=> Hits(k) # {}
      BY <2>3, <2>6
    <3>2. \A i \in at : i \in Nat
      BY <2>6
    <3>3. (\E i \in at : i <= k) <=> at # {} /\ First(at) <= k
      <4>1. ASSUME NEW i \in at, i <= k PROVE at # {} /\ First(at) <= k
        <5>1. First(at) \in Nat /\ i \in Nat /\ First(at) <= i
          BY <2>7, <3>2
        <5>. QED BY <2>3, <4>1, <5>1
      <4>. QED BY <2>7, <4>1
    <3>. QED BY <3>1, <3>3
  <2>. QED BY <2>1, <2>2, <2>3, <2>8, <2>9, <2>10, <2>11 DEF NaN
<1>. QED BY <1>1, <1>2

\* Only the characters of a text that are of a word matter for its words.
LEMMA WordsDepend ==
    ASSUME NEW text \in Seq(Chars), NEW V, NEW W,
           \A k \in 1 .. Len(text) : text[k] \in V <=> text[k] \in W
    PROVE  Words(text, V) = Words(text, W)
<1> DEFINE P(C) == {q \in (1 .. Len(text)) \X (1 .. Len(text)) :
                      /\ q[1] <= q[2]
                      /\ \A k \in q[1] .. q[2] : text[k] \in C
                      /\ q[1] = 1 \/ text[q[1] - 1] \notin C
                      /\ q[2] = Len(text) \/ text[q[2] + 1] \notin C}
<1>1. Len(text) \in Nat
  OBVIOUS
<1>2. ASSUME NEW q \in (1 .. Len(text)) \X (1 .. Len(text)), q[1] <= q[2]
      PROVE  q \in P(V) <=> q \in P(W)
  <2>1. \A k \in q[1] .. q[2] : k \in 1 .. Len(text)
    BY <1>1, <1>2
  <2>2. q[1] # 1 => q[1] - 1 \in 1 .. Len(text)
    BY <1>1, <1>2
  <2>3. q[2] # Len(text) => q[2] + 1 \in 1 .. Len(text)
    BY <1>1, <1>2
  <2>. QED BY <1>2, <2>1, <2>2, <2>3
<1>3. P(V) = P(W)
  BY <1>2
<1>. QED BY <1>3 DEF Words

\* A text without accented letters and underscores has the same words for all
\* three harnesses.
LEMMA PlainWords ==
    ASSUME NEW text \in Seq(Chars), {"_", "accented"} \cap Range(text) = {}
    PROVE  /\ Words(text, {"a", "b", "accented"}) = Words(text, {"a", "b", "accented", "_"})
           /\ Words(text, {"a", "b", "accented"}) = Words(text, {"a", "b", "_"})
<1>1. \A k \in 1 .. Len(text) : text[k] \in Range(text)
  <2>1. DOMAIN text = 1 .. Len(text)
    BY LenProperties
  <2>. QED BY <2>1 DEF Range
<1>2. \A k \in 1 .. Len(text) :
         text[k] \in {"a", "b", "accented"} <=> text[k] \in {"a", "b", "accented", "_"}
  BY <1>1
<1>3. \A k \in 1 .. Len(text) :
         text[k] \in {"a", "b", "accented"} <=> text[k] \in {"a", "b", "_"}
  BY <1>1
<1>. QED BY <1>2, <1>3, WordsDepend

\* Whatever is retrieved, expected, written and counted: the percentile is the
\* nearest rank, the metrics of a ranking cohere, and the three harnesses score
\* plain ASCII texts alike.
THEOREM PortsAlwaysAgree == MetricsSpec => []PortsAgree
<1>1. MetricsTypeOK => PortsAgree
  <2> SUFFICES ASSUME MetricsTypeOK PROVE PortsAgree
    OBVIOUS
  <2>1. \A k \in {50, 95, 99} : NearestRank(k)
    BY RanksAreNearest, BoundsAssumption DEF MetricsTypeOK
  <2>2. RankingsCohere
    BY RankingsAlwaysCohere DEF MetricsTypeOK
  <2>3. ASSUME {"_", "accented"} \cap (Range(wantedText) \cup Range(foundText)) = {}
        PROVE  RustFaithfulness = PythonFaithfulness /\ RustFaithfulness = TypescriptFaithfulness
    BY <2>3, PlainWords
       DEF MetricsTypeOK, RustFaithfulness, PythonFaithfulness, TypescriptFaithfulness, Covered
  <2>. QED BY <2>1, <2>2, <2>3 DEF PortsAgree
<1>. QED BY <1>1, MetricsTypeCorrect, PTL

-----------------------------------------------------------------------------
(* The composition *)

\* Every part runs by its own specification or rests.
LEMMA SurfacesRun ==
    ASSUME SurfacesNext
    PROVE  /\ [CacheNext]_cacheVars /\ [ServerNext]_serverVars /\ [HealthNext]_healthVars
           /\ [PageNext]_pageVars /\ [DoorsNext]_doorVars /\ [MetricsNext]_metricVars
BY DEF SurfacesNext, Rest, Parts

\* What is proved of one of the server, its cache, its health checks, the graph
\* page, the front doors and the metrics holds of it among the others.
THEOREM SurfacesCompose ==
    SurfacesSpec => /\ CacheSpec /\ ServerSpec /\ HealthSpec
                    /\ PageSpec /\ DoorsSpec /\ MetricsSpec
<1>1. SurfacesInit => /\ CacheInit /\ ServerInit /\ HealthInit
                      /\ PageInit /\ DoorsInit /\ MetricsInit
  BY DEF SurfacesInit
<1>2. [SurfacesNext]_<<part, cacheVars, serverVars, healthVars, pageVars, doorVars, metricVars>>
      => /\ [CacheNext]_cacheVars /\ [ServerNext]_serverVars /\ [HealthNext]_healthVars
         /\ [PageNext]_pageVars /\ [DoorsNext]_doorVars /\ [MetricsNext]_metricVars
  BY SurfacesRun
<1>. QED BY <1>1, <1>2, PTL DEF SurfacesSpec, CacheSpec, ServerSpec, HealthSpec, PageSpec,
          DoorsSpec, MetricsSpec

\* The state of every part has its type.
THEOREM SurfacesTypeCorrect == SurfacesSpec => []SurfacesTypeOK
BY SurfacesCompose, CacheTypeCorrect, ServerTypeCorrect, HealthTypeCorrect,
   PageTypeCorrect, DoorsTypeCorrect, MetricsTypeCorrect, PTL DEF SurfacesTypeOK
=================================================================================
