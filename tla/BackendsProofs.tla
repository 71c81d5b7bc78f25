---------------------------- MODULE BackendsProofs ----------------------------
(***************************************************************************)
(* The Postgres tier, for every number of sessions, tenants and ids: its   *)
(* policies follow the calls, tenants stay apart in its tables whether or  *)
(* not the policies apply to the role that connects, and its graph keeps   *)
(* its word to callers that do not cross each other.  With the embedded    *)
(* graph and vectors (EmbeddedGraphProofs, EmbeddedVectorsProofs) these    *)
(* are the parts of MCBackends.                                            *)
(***************************************************************************)
EXTENDS MCBackends, EmbeddedGraphProofs, EmbeddedVectorsProofs, TLAPS

(* PostgresRecords: types *)

LEMMA CallFields ==
    ASSUME RecordsTypeOK, NEW s \in Sessions, call[s] # Nobody
    PROVE  /\ call[s] \in Calls /\ call[s].tenant \in Tenants
           /\ call[s].op # "read" => call[s].id \in Ids
           /\ call[s].op = "put" => call[s].kind \in Kinds
BY DEF RecordsTypeOK, Calls

LEMMA RecordsTypeInit == RecordsInit => RecordsTypeOK
BY DEF RecordsInit, RecordsTypeOK

LEMMA RecordsTypeStep == RecordsTypeOK /\ [RecordsNext]_recordVars => RecordsTypeOK'
<1> SUFFICES ASSUME RecordsTypeOK, [RecordsNext]_recordVars PROVE RecordsTypeOK'
  OBVIOUS
<1>1. CASE UNCHANGED recordVars
  BY <1>1 DEF recordVars, RecordsTypeOK
<1>2. ASSUME NEW s \in Sessions, NEW c \in Calls, Begin(s, c) PROVE RecordsTypeOK'
  BY <1>2 DEF Begin, RecordsTypeOK, Calls
<1>3. ASSUME NEW s \in Sessions, call[s] # Nobody, End(s),
             records' \subseteq Tenants \X Ids \X Kinds, vectors' \subseteq Tenants \X Ids
      PROVE  RecordsTypeOK'
  BY <1>3 DEF End, RecordsTypeOK
<1>4. ASSUME NEW s \in Sessions, Put(s) PROVE RecordsTypeOK'
  <2>1. call[s] # Nobody /\ call[s].op = "put"
    BY <1>4 DEF Put, Running
  <2>2. records' \subseteq Tenants \X Ids \X Kinds
    BY <2>1, <1>4, CallFields DEF Put, RecordsTypeOK
  <2> QED BY <2>1, <2>2, <1>3, <1>4 DEF Put, RecordsTypeOK
<1>5. ASSUME NEW s \in Sessions, Read(s) PROVE RecordsTypeOK'
  BY <1>3, <1>5 DEF Read, Running, RecordsTypeOK
<1>6. ASSUME NEW s \in Sessions, Delete(s) PROVE RecordsTypeOK'
  BY <1>3, <1>6 DEF Delete, Running, RecordsTypeOK
<1>7. ASSUME NEW s \in Sessions, Upsert(s) PROVE RecordsTypeOK'
  <2>1. call[s] # Nobody /\ call[s].op = "upsert"
    BY <1>7 DEF Upsert, Running
  <2> QED BY <2>1, <1>7, <1>3, CallFields DEF Upsert, RecordsTypeOK
<1>8. ASSUME NEW s \in Sessions, Unindex(s) PROVE RecordsTypeOK'
  BY <1>3, <1>8 DEF Unindex, Running, RecordsTypeOK
<1>9. ASSUME NEW s \in Sessions, Rollback(s) PROVE RecordsTypeOK'
  BY <1>3, <1>9 DEF Rollback, RecordsTypeOK
<1> QED BY <1>1, <1>2, <1>4, <1>5, <1>6, <1>7, <1>8, <1>9 DEF RecordsNext

\* The state has its type.
THEOREM RecordsTypeCorrect == RecordsSpec => []RecordsTypeOK
BY RecordsTypeInit, RecordsTypeStep, PTL DEF RecordsSpec

-----------------------------------------------------------------------------
(* PostgresRecords: tenant contexts *)

LEMMA ContextInit == RecordsInit => ContextInv
BY DEF RecordsInit, ContextInv, Running

\* Whoever passes the policy, or writes its own ids, finds in the way of its
\* put only rows of its own.
LEMMA RowsInTheWay ==
    ASSUME RecordsTypeOK, ContextInv, NEW s \in Sessions, Put(s),
           NEW r \in records, r[2] = call[s].id
    PROVE  r[1] = call[s].tenant /\ r[3] # "audit_event"
<1>1. Running(s, "put") /\ call[s] # Nobody /\ Sees(s, r[1]) /\ r[3] # "audit_event"
  BY DEF Put, Running
<1>2. CASE superuser
  BY <1>1, <1>2 DEF ContextInv
<1>3. CASE ~superuser
  BY <1>1, <1>3 DEF ContextInv, Sees
<1> QED BY <1>1, <1>2, <1>3 DEF RecordsTypeOK

\* A call ends, and its rows go, or a row takes the place of those with its id.
LEMMA EndKeepsContext ==
    ASSUME RecordsTypeOK, ContextInv, NEW s \in Sessions, End(s),
           \A r, w \in records' : r[2] = w[2] => r = w,
           superuser => \A r \in records' : Minted[r[2]] = r[1]
    PROVE  ContextInv'
BY DEF RecordsTypeOK, ContextInv, End, Running

LEMMA ContextStep ==
    RecordsTypeOK /\ ContextInv /\ [RecordsNext]_recordVars => ContextInv'
<1> SUFFICES ASSUME RecordsTypeOK, ContextInv, [RecordsNext]_recordVars PROVE ContextInv'
  OBVIOUS
<1>1. CASE UNCHANGED recordVars
  BY <1>1 DEF recordVars, ContextInv, Running
<1>2. ASSUME NEW s \in Sessions, NEW c \in Calls, Begin(s, c) PROVE ContextInv'
  <2>1. /\ c # Nobody /\ records' = records /\ superuser' = superuser
        /\ \A w \in Sessions : /\ ctx'[w] = IF w = s THEN c.tenant ELSE ctx[w]
                               /\ call'[w] = IF w = s THEN c ELSE call[w]
    BY <1>2, NobodyAssumption DEF Begin, RecordsTypeOK
  <2>2. superuser => \A w \in Sessions :
          Running(w, "put")' => Minted[call'[w].id] = call'[w].tenant
    BY <1>2, <2>1 DEF Begin, ContextInv, Running
  <2> QED BY <2>1, <2>2 DEF ContextInv
<1>3. ASSUME NEW s \in Sessions, End(s), records' \subseteq records PROVE ContextInv'
  BY <1>3, EndKeepsContext DEF ContextInv
<1>4. ASSUME NEW s \in Sessions, Put(s) PROVE ContextInv'
  <2> DEFINE c == call[s]
             row == <<c.tenant, c.id, c.kind>>
  <2>1. \A r \in records' : r = row \/ (r \in records /\ r[2] # c.id)
    BY <1>4 DEF Put
  <2>2. row[1] = c.tenant /\ row[2] = c.id
    OBVIOUS
  <2>3. superuser => Minted[c.id] = c.tenant
    BY <1>4 DEF Put, ContextInv
  <2>4. \A r, w \in records' : r[2] = w[2] => r = w
    BY <2>1, <2>2 DEF ContextInv
  <2>5. superuser => \A r \in records' : Minted[r[2]] = r[1]
    BY <2>1, <2>2, <2>3 DEF ContextInv
  <2> QED BY <1>4, <2>4, <2>5, EndKeepsContext DEF Put
<1> QED
  BY <1>1, <1>2, <1>3, <1>4 DEF RecordsNext, Read, Delete, Upsert, Unindex, Rollback

\* A session between two calls has no tenant, in a call it has the caller's,
\* and an id has one row: tenant_scoped_tx and ON CONFLICT (id).
THEOREM ContextsAreTheCallers == RecordsSpec => []ContextInv
BY RecordsTypeInit, RecordsTypeStep, ContextInit, ContextStep, PTL DEF RecordsSpec

\* Whatever calls of whatever tenants a pooled session ran, and however they
\* ended, the policies show a call exactly its tenant's rows, and a session
\* between two calls no row at all (tenant_scoped_tx).
THEOREM PoliciesAreExact == RecordsSpec => []PolicyIsExact
<1>1. RecordsTypeOK /\ ContextInv => PolicyIsExact
  BY NobodyAssumption DEF RecordsTypeOK, ContextInv, PolicyIsExact, Sees
<1> QED BY <1>1, RecordsTypeCorrect, ContextsAreTheCallers, PTL

-----------------------------------------------------------------------------
(* PostgresRecords: the refinement *)

Owned  == {<<r[1], r[2]>> : r \in records}
Sealed == {<<r[1], r[2]>> : r \in {w \in records : w[3] = "audit_event"}}

LEMMA PutIsPut ==
    ASSUME RecordsTypeOK, ContextInv, NEW s \in Sessions, Put(s),
           NEW t, NEW i, t = call[s].tenant, i = call[s].id
    PROVE  Store!Put(t, i)
<1> DEFINE row == <<t, i, call[s].kind>>
<1>1. \A r \in records : r \in Tenants \X Ids \X Kinds
  BY DEF RecordsTypeOK
<1>2. \A r \in records : r[2] = i => r[1] = t /\ r[3] # "audit_event"
  BY RowsInTheWay
<1>3. records' = (records \ {r \in records : r[2] = i}) \cup {row}
  BY DEF Put
<1>4. \A u \in Tenants \ {t} : <<u, i>> \notin Owned
  BY <1>2 DEF Owned
<1>5. <<t, i>> \notin Sealed
  BY <1>2 DEF Sealed
<1>6. Owned' = Owned \cup {<<t, i>>}
  <2>1. ASSUME NEW r \in records PROVE <<r[1], r[2]>> \in Owned'
    <3>1. CASE r[2] = i
      <4>1. <<r[1], r[2]>> = <<row[1], row[2]>> /\ row \in records'
        BY <3>1, <1>2, <1>3
      <4> QED BY <4>1 DEF Owned
    <3>2. CASE r[2] # i
      BY <3>2, <1>3 DEF Owned
    <3> QED BY <3>1, <3>2
  <2>2. <<t, i>> \in Owned'
    <3>1. row \in records' /\ row[1] = t /\ row[2] = i
      BY <1>3
    <3> QED BY <3>1 DEF Owned
  <2>3. ASSUME NEW r \in records' PROVE <<r[1], r[2]>> \in Owned \cup {<<t, i>>}
    BY <2>3, <1>3 DEF Owned
  <2> QED BY <2>1, <2>2, <2>3 DEF Owned
<1>7. Sealed' \in {Sealed, Sealed \cup {<<t, i>>}}
  <2>1. {w \in records' : w[3] = "audit_event"} =
          {w \in records : w[3] = "audit_event"} \cup
             (IF call[s].kind = "audit_event" THEN {row} ELSE {})
    BY <1>2, <1>3
  <2>2. Sealed' = Sealed \cup (IF call[s].kind = "audit_event" THEN {<<t, i>>} ELSE {})
    <3>1. row[1] = t /\ row[2] = i
      OBVIOUS
    <3> HIDE DEF row
    <3> QED BY <2>1, <3>1 DEF Sealed
  <2> QED BY <2>2
<1> QED BY <1>4, <1>5, <1>6, <1>7 DEF Store!Put, Owned, Sealed

LEMMA DeleteIsErase ==
    ASSUME RecordsTypeOK, ContextInv, NEW s \in Sessions, Delete(s),
           NEW t, NEW i, t = call[s].tenant, i = call[s].id
    PROVE  Store!Erase(t, i)
<1>1. Matching(s) = {r \in records : r[1] = t /\ r[2] = i}
  BY DEF Matching, Sees, ContextInv, Delete, Running
<1>2. records' = records \ Matching(s) /\ \A r \in Matching(s) : r[3] # "audit_event"
  BY DEF Delete
<1>3. <<t, i>> \notin Sealed
  BY <1>1, <1>2 DEF Sealed
<1>4. Owned' = Owned \ {<<t, i>>}
  BY <1>1, <1>2 DEF Owned
<1>5. {w \in records' : w[3] = "audit_event"} = {w \in records : w[3] = "audit_event"}
  BY <1>1, <1>2
<1>6. Sealed' = Sealed
  BY <1>5 DEF Sealed
<1> QED BY <1>3, <1>4, <1>6 DEF Store!Erase, Owned, Sealed

\* The records implement TenantStore: put adds an entry of the caller's tenant
\* or is refused, delete takes the caller's, and no other call changes an entry.
THEOREM RecordsImplementStore == RecordsSpec => StoreSpec
<1>1. RecordsInit => Store!Init
  BY DEF RecordsInit, Store!Init
<1>2. RecordsTypeOK /\ ContextInv /\ [RecordsNext]_recordVars
      => [Store!Next]_<<Owned, Sealed>>
  <2> SUFFICES ASSUME RecordsTypeOK, ContextInv, [RecordsNext]_recordVars,
                      ~UNCHANGED <<Owned, Sealed>>
               PROVE  Store!Next
    OBVIOUS
  <2>1. records' # records
    BY DEF Owned, Sealed
  <2>2. PICK s \in Sessions : Put(s) \/ Delete(s)
    <3>1. RecordsNext
      BY <2>1 DEF recordVars
    <3>2. PICK s \in Sessions :
            \/ \E c \in Calls : Begin(s, c)
            \/ Put(s) \/ Read(s) \/ Delete(s)
            \/ Upsert(s) \/ Unindex(s)
            \/ Rollback(s)
      BY <3>1 DEF RecordsNext
    <3> QED BY <2>1, <3>2 DEF Begin, Read, Upsert, Unindex, Rollback
  <2>3. PICK t \in Tenants, i \in Ids : t = call[s].tenant /\ i = call[s].id
    BY <2>2, CallFields DEF Put, Delete, Running
  <2>4. Store!Put(t, i) \/ Store!Erase(t, i)
    BY <2>2, <2>3, PutIsPut, DeleteIsErase
  <2> QED BY <2>4 DEF Store!Next
<1>3. RecordsSpec => []RecordsTypeOK /\ []ContextInv
  BY RecordsTypeCorrect, ContextsAreTheCallers
<1>4. RecordsSpec => Store!Init /\ [][Store!Next]_<<Owned, Sealed>>
  BY <1>1, <1>2, <1>3, PTL DEF RecordsSpec
<1> QED BY <1>4, PTL DEF StoreSpec, Store!Spec, Owned, Sealed

-----------------------------------------------------------------------------
(* PostgresGraph: what acknowledged calls leave *)

\* Somebody's call of this kind is about the id.
Busy(o, x) == \E c \in Callers : op[c] = o /\ x \in about[c]

\* A call writes only what it is about, and only an add writes.
CallsInv ==
    \A c \in Callers :
        /\ step[c] = "merge" => op[c] = "add"
        /\ step[c] = "idle" => absent[c] = {}
        /\ absent[c] \subseteq about[c]
        /\ \A e \in adds[c] : e[1] \in about[c] /\ e[2] \in about[c] /\ op[c] = "add"

Edged(x) == \E e \in edges : x \in {e[1], e[2]}

\* What the fate of an id says of the calls that are in flight: as long as it
\* is not open, adds and removals of the id do not meet, and an add that found
\* the node may rely on it.
FateInv ==
    \A x \in Memories :
        /\ fate[x] = "there"    => x \in Found /\ ~Busy("remove", x)
        /\ fate[x] = "gone"     => x \notin Found /\ ~Edged(x) /\ ~Busy("add", x)
        /\ fate[x] = "removing" => ~Busy("add", x)
        /\ fate[x] = "adding"   =>
              /\ ~Busy("remove", x)
              /\ \A c \in Callers :
                    step[c] = "merge" /\ x \in about[c] \ absent[c] => x \in Found

GraphInv == GraphTypeOK /\ CallsInv /\ FateInv

LEMMA GraphInvInit == GraphInit => GraphInv
<1> SUFFICES ASSUME GraphInit PROVE GraphInv
  OBVIOUS
<1>1. GraphTypeOK /\ CallsInv
  BY DEF GraphInit, GraphTypeOK, CallsInv
<1>2. \A x : x \notin Found /\ ~Edged(x) /\ ~Busy("add", x)
  BY DEF GraphInit, Found, Edged, Busy
<1>3. \A x \in Memories : fate[x] = "gone"
  BY DEF GraphInit
<1>. QED BY <1>1, <1>2, <1>3 DEF GraphInv, FateInv

LEMMA NamedIsBusy == \A x, o : x \in Named(o) <=> Busy(o, x)
BY DEF Named, Busy

\* A call that starts opens the fate of every id whose adds and removals it
\* lets meet.
LEMMA StartsSafely ==
    ASSUME GraphInv, NEW c \in Callers, NEW o \in {"add", "bad_edge", "neighbors", "remove"},
           NEW ns \in SUBSET Memories, NEW es \in SUBSET Pairs,
           \A e \in es : e[1] \in ns /\ e[2] \in ns /\ o = "add",
           Start(c, o, ns, es)
    PROVE  GraphInv'
<1>1. /\ op' = [op EXCEPT ![c] = o] /\ step' = [step EXCEPT ![c] = "look"]
      /\ about' = [about EXCEPT ![c] = ns] /\ adds' = [adds EXCEPT ![c] = es]
      /\ UNCHANGED <<exists, nodes, edges, absent>>
      /\ step[c] = "idle"
  BY DEF Start
<1>2. \A x \in Memories :
         fate'[x] = IF x \in ns /\ o = "add"
                    THEN IF Busy("remove", x) \/ (fate[x] = "open" /\ Busy("add", x))
                         THEN "open" ELSE "adding"
                    ELSE IF x \in ns /\ o = "remove"
                    THEN IF Busy("add", x) \/ (fate[x] = "open" /\ Busy("remove", x))
                         THEN "open" ELSE "removing"
                    ELSE fate[x]
  BY NamedIsBusy DEF Start, Awaits, Against
<1>3. GraphTypeOK'
  <2>1. fate' \in [Memories -> {"open", "adding", "there", "removing", "gone"}]
    BY DEF Start, Awaits, GraphInv, GraphTypeOK
  <2>. QED BY <1>1, <2>1 DEF GraphInv, GraphTypeOK
<1>4. CallsInv'
  BY <1>1 DEF GraphInv, GraphTypeOK, CallsInv
<1>5. \A x, k : Busy(k, x)' => Busy(k, x) \/ (k = o /\ x \in ns)
  BY <1>1 DEF Busy, GraphInv, GraphTypeOK
<1>6. Found' = Found /\ \A x : Edged(x)' = Edged(x)
  BY <1>1 DEF Found, Edged
<1>7. \A d \in Callers : step'[d] = "merge" =>
         step[d] = "merge" /\ about'[d] = about[d] /\ absent'[d] = absent[d] /\ op[d] = "add"
  BY <1>1 DEF GraphInv, GraphTypeOK, CallsInv
<1>8. FateInv'
  <2> SUFFICES ASSUME NEW x \in Memories
      PROVE /\ fate'[x] = "there"    => x \in Found' /\ ~Busy("remove", x)'
            /\ fate'[x] = "gone"     => x \notin Found' /\ ~Edged(x)' /\ ~Busy("add", x)'
            /\ fate'[x] = "removing" => ~Busy("add", x)'
            /\ fate'[x] = "adding"   =>
                  /\ ~Busy("remove", x)'
                  /\ \A d \in Callers :
                        step'[d] = "merge" /\ x \in about'[d] \ absent'[d] => x \in Found'
    BY DEF FateInv
  <2>1. CASE x \notin ns \/ o \notin {"add", "remove"}
    <3>1. fate'[x] = fate[x] /\ \A k \in {"add", "remove"} : Busy(k, x)' => Busy(k, x)
      BY <1>2, <1>5, <2>1
    <3>. QED BY <1>6, <1>7, <3>1 DEF GraphInv, FateInv
  <2>2. CASE x \in ns /\ o = "add"
    \* An add already merging found the node: the id was not removed since.
    <3>1. ASSUME fate'[x] = "adding", NEW d \in Callers, step'[d] = "merge",
                 x \in about'[d] \ absent'[d]
          PROVE  x \in Found'
      <4>1. Busy("add", x) /\ step[d] = "merge" /\ x \in about[d] \ absent[d]
        BY <1>7, <3>1 DEF Busy
      <4>2. fate[x] \in {"there", "adding"}
        BY <1>2, <2>2, <3>1, <4>1 DEF GraphInv, GraphTypeOK, FateInv
      <4>. QED BY <1>6, <4>1, <4>2 DEF GraphInv, FateInv
    <3>. QED BY <1>2, <1>5, <1>6, <2>2, <3>1
  <2>3. CASE x \in ns /\ o = "remove"
    BY <1>2, <1>5, <1>6, <1>7, <2>3 DEF GraphInv, FateInv
  <2>. QED BY <2>1, <2>2, <2>3
<1>. QED BY <1>1, <1>3, <1>4, <1>8 DEF GraphInv

\* A call that ends is busy no more; what it says of its ids is in Fates.
LEMMA EndsBusy ==
    ASSUME GraphInv, NEW c \in Callers, Finish(c)
    PROVE  /\ \A x, k : Busy(k, x)' => Busy(k, x)
           /\ \A d \in Callers : step'[d] = "merge" =>
                 step[d] = "merge" /\ about'[d] = about[d] /\ absent'[d] = absent[d]
           /\ CallsInv'
           /\ op' \in [Callers -> {"none", "add", "bad_edge", "neighbors", "remove"}]
           /\ step' \in [Callers -> {"idle", "look", "create", "creating", "cypher", "merge"}]
           /\ about' \in [Callers -> SUBSET Memories]
           /\ adds' \in [Callers -> SUBSET Pairs]
           /\ absent' \in [Callers -> SUBSET Memories]
<1> USE DEF GraphInv, GraphTypeOK, Finish
<1>1. \A x, k : Busy(k, x)' => Busy(k, x)
  BY DEF Busy
<1>2. \A d \in Callers : step'[d] = "merge" =>
         step[d] = "merge" /\ about'[d] = about[d] /\ absent'[d] = absent[d]
  OBVIOUS
<1>3. CallsInv'
  BY DEF CallsInv
<1>. QED BY <1>1, <1>2, <1>3

LEMMA GraphInvStep == GraphInv /\ [GraphNext]_graphVars => GraphInv'
<1> SUFFICES ASSUME GraphInv, [GraphNext]_graphVars PROVE GraphInv'
  OBVIOUS
<1>1. ASSUME NEW c \in Callers, StartCall(c) PROVE GraphInv'
  <2>1. ASSUME NEW x \in Memories, Start(c, "add", {x}, {}) PROVE GraphInv'
    BY <2>1, StartsSafely
  <2>2. ASSUME NEW e \in Pairs, Start(c, "add", {e[1], e[2]}, {e}) PROVE GraphInv'
    <3>1. {e[1], e[2]} \in SUBSET Memories
      BY PairsAssumption
    <3>. QED BY <2>2, <3>1, StartsSafely
  <2>3. ASSUME NEW e \in Pairs, Start(c, "bad_edge", {e[1], e[2]}, {}) PROVE GraphInv'
    <3>1. {e[1], e[2]} \in SUBSET Memories
      BY PairsAssumption
    <3>. QED BY <2>3, <3>1, StartsSafely
  <2>4. ASSUME NEW x \in Memories, NEW o \in {"neighbors", "remove"}, Start(c, o, {x}, {})
        PROVE  GraphInv'
    BY <2>4, StartsSafely
  <2>. QED BY <1>1, <2>1, <2>2, <2>3, <2>4 DEF StartCall
<1>2. ASSUME NEW c \in Callers, LookForGraph(c) \/ CreateGraph(c) \/ GraphCreated(c)
      PROVE  GraphInv'
  <2>1. /\ step'[c] # "merge" /\ step[c] # "merge" /\ step'[c] # "idle"
        /\ \A d \in Callers \ {c} : step'[d] = step[d]
        /\ step' \in [Callers -> {"idle", "look", "create", "creating", "cypher", "merge"}]
        /\ exists' \in BOOLEAN
        /\ UNCHANGED <<nodes, edges, op, about, adds, absent, fate>>
    BY <1>2 DEF LookForGraph, CreateGraph, GraphCreated, Then, GraphInv, GraphTypeOK
  <2>2. UNCHANGED Found /\ (\A x, k : Busy(k, x)' = Busy(k, x)) /\ (\A x : Edged(x)' = Edged(x))
    BY <2>1 DEF Found, Busy, Edged
  <2>. QED BY <2>1, <2>2 DEF GraphInv, GraphTypeOK, CallsInv, FateInv
\* What a MERGE did not find it will create.
<1>3. ASSUME NEW c \in Callers, Match(c) PROVE GraphInv'
  <2>1. /\ step[c] # "merge" /\ op[c] = "add" /\ step' = [step EXCEPT ![c] = "merge"]
        /\ absent' = [absent EXCEPT ![c] = about[c] \ Found]
        /\ UNCHANGED <<exists, nodes, edges, op, about, adds, fate>>
    BY <1>3 DEF Match, Then, GraphInv, GraphTypeOK
  <2>2. UNCHANGED Found /\ (\A x, k : Busy(k, x)' = Busy(k, x)) /\ (\A x : Edged(x)' = Edged(x))
    BY <2>1 DEF Found, Busy, Edged
  <2>. QED BY <2>1, <2>2 DEF GraphInv, GraphTypeOK, CallsInv, FateInv
<1>4. ASSUME NEW c \in Callers, Merge(c) PROVE GraphInv'
  <2>1. /\ step[c] = "merge" /\ nodes' = nodes \cup {<<i, c>> : i \in absent[c]}
        /\ edges' = edges \cup adds[c]
        /\ UNCHANGED exists
        /\ Finish(c) /\ Fates(c, {"adding"}, "there")
    BY <1>4 DEF Merge
  <2>2. op[c] = "add" /\ absent[c] \subseteq about[c] /\ about[c] \subseteq Memories
    BY <2>1 DEF GraphInv, GraphTypeOK, CallsInv
  <2>3. \A x : x \in Found' <=> x \in Found \/ x \in absent[c]
    <3> SUFFICES ASSUME NEW x PROVE x \in Found' <=> x \in Found \/ x \in absent[c]
      OBVIOUS
    <3>1. x \in Found => x \in Found'
      BY <2>1 DEF Found
    <3>2. ASSUME x \in absent[c] PROVE x \in Found'
      <4>1. <<x, c>> \in nodes' /\ <<x, c>>[1] = x
        BY <2>1, <3>2
      <4>. QED BY <4>1 DEF Found
    <3>3. ASSUME x \in Found' PROVE x \in Found \/ x \in absent[c]
      <4>1. PICK v \in nodes' : x = v[1]
        BY <3>3 DEF Found
      <4>2. CASE v \in nodes
        BY <4>1, <4>2 DEF Found
      <4>3. CASE v \in {<<i, c>> : i \in absent[c]}
        BY <4>1, <4>3
      <4>. QED BY <2>1, <4>1, <4>2, <4>3
    <3>. QED BY <3>1, <3>2, <3>3
  <2>4. \A x : Edged(x)' => Edged(x) \/ x \in about[c]
    BY <2>1 DEF Edged, GraphInv, CallsInv
  <2>5. \A x \in about[c] : Busy("add", x)
    BY <2>2 DEF Busy
  <2>6. \A x \in Memories : fate'[x] = IF x \in about[c] /\ fate[x] = "adding" THEN "there"
                                      ELSE fate[x]
    BY <2>1 DEF Fates
  <2>7. FateInv'
    BY <2>1, <2>2, <2>3, <2>4, <2>5, <2>6, EndsBusy DEF GraphInv, FateInv
  <2>8. nodes' \subseteq Memories \X Callers /\ edges' \subseteq Pairs
    BY <2>1, <2>2 DEF GraphInv, GraphTypeOK
  <2>9. fate' \in [Memories -> {"open", "adding", "there", "removing", "gone"}]
    BY <2>1 DEF Fates, GraphInv, GraphTypeOK
  <2>. QED BY <2>1, <2>7, <2>8, <2>9, EndsBusy DEF GraphInv, GraphTypeOK
<1>5. ASSUME NEW c \in Callers, DetachDelete(c) PROVE GraphInv'
  <2>1. /\ op[c] = "remove" /\ nodes' = {i \in nodes : i[1] \notin about[c]}
        /\ edges' = {e \in edges : {e[1], e[2]} \cap about[c] = {}}
        /\ UNCHANGED exists
        /\ Finish(c) /\ Fates(c, {"removing"}, "gone")
    BY <1>5 DEF DetachDelete
  <2>2. \A x : x \in Found' <=> x \in Found /\ x \notin about[c]
    BY <2>1 DEF Found
  <2>3. \A x : Edged(x)' => Edged(x) /\ x \notin about[c]
    BY <2>1 DEF Edged
  <2>4. \A x \in about[c] : Busy("remove", x)
    BY <2>1 DEF Busy
  <2>5. \A x \in Memories : fate'[x] = IF x \in about[c] /\ fate[x] = "removing" THEN "gone"
                                      ELSE fate[x]
    BY <2>1 DEF Fates
  <2>6. FateInv'
    BY <2>1, <2>2, <2>3, <2>4, <2>5, EndsBusy DEF GraphInv, FateInv
  <2>7. fate' \in [Memories -> {"open", "adding", "there", "removing", "gone"}]
    BY <2>1 DEF Fates, GraphInv, GraphTypeOK
  <2>. QED BY <2>1, <2>6, <2>7, EndsBusy DEF GraphInv, GraphTypeOK
<1>6. ASSUME NEW c \in Callers,
             RefuseEdge(c) \/ Neighbors(c) \/ CreationLost(c) \/ GraphCallFails(c)
      PROVE  GraphInv'
  <2>1. Finish(c) /\ UNCHANGED <<exists, nodes, edges>>
    BY <1>6 DEF RefuseEdge, Neighbors, CreationLost, GraphCallFails
  <2>2. \A x \in Memories : fate'[x] \in {fate[x], "open"}
    BY <1>6 DEF RefuseEdge, Neighbors, CreationLost, GraphCallFails, Fates
  <2>3. UNCHANGED Found /\ \A x : Edged(x)' = Edged(x)
    BY <2>1 DEF Found, Edged
  <2>4. FateInv'
    BY <2>1, <2>2, <2>3, EndsBusy DEF GraphInv, FateInv
  <2>5. fate' \in [Memories -> {"open", "adding", "there", "removing", "gone"}]
    BY <1>6 DEF RefuseEdge, Neighbors, CreationLost, GraphCallFails, Fates, GraphInv, GraphTypeOK
  <2>. QED BY <2>1, <2>4, <2>5, EndsBusy DEF GraphInv, GraphTypeOK
<1>7. CASE UNCHANGED graphVars
  BY <1>7 DEF graphVars, GraphInv, GraphTypeOK, CallsInv, FateInv, Found,
     Busy, Edged
<1>. QED BY <1>1, <1>2, <1>3, <1>4, <1>5, <1>6, <1>7 DEF GraphNext

LEMMA GraphInductive == GraphSpec => []GraphInv
BY GraphInvInit, GraphInvStep, PTL DEF GraphSpec

\* The state of the graph backend has its type.
THEOREM GraphTypeCorrect == GraphSpec => []GraphTypeOK
BY GraphInductive, PTL DEF GraphInv

\* Where adds and removals of an id did not overlap and none failed, an
\* acknowledged add_node has left a node, and an acknowledged remove_node neither
\* a node (MERGE may have made two) nor an edge of it.
THEOREM GraphKeepsItsWord == GraphSpec => []AcknowledgedNodes
<1>1. GraphInv => AcknowledgedNodes
  BY DEF GraphInv, FateInv, AcknowledgedNodes, Edged
<1>. QED BY <1>1, GraphInductive, PTL

-----------------------------------------------------------------------------
(* The composition: every part runs by its own specification or rests *)

LEMMA PartsRun ==
    ASSUME BackendsNext
    PROVE  /\ [RecordsNext]_recordVars
           /\ [GraphNext]_graphVars
           /\ [Next]_vars
           /\ [VectorsNext]_vectorVars
BY DEF BackendsNext, Rest, Parts

\* What is proved of a backend by itself holds of it among the others.
THEOREM BackendsCompose == BackendsSpec => RecordsSpec /\ GraphSpec /\ Spec /\ VectorsSpec
<1>1. BackendsInit => RecordsInit /\ GraphInit /\ Init /\ VectorsInit
  BY DEF BackendsInit
<1>2. UNCHANGED backendVars => UNCHANGED <<recordVars, graphVars, vars, vectorVars>>
  BY DEF backendVars
<1>3. [BackendsNext]_backendVars
      => /\ [RecordsNext]_recordVars
         /\ [GraphNext]_graphVars
         /\ [Next]_vars
         /\ [VectorsNext]_vectorVars
  BY <1>2, PartsRun
<1>. QED BY <1>1, <1>3, PTL DEF BackendsSpec, RecordsSpec, GraphSpec, Spec, VectorsSpec

\* The state of every backend has its type.
THEOREM BackendsTypeCorrect == BackendsSpec => []BackendsTypeOK
BY BackendsCompose, RecordsTypeCorrect, GraphTypeCorrect, TypeCorrect, VectorsTypeCorrect, PTL
   DEF BackendsTypeOK
=============================================================================
