------------------------- MODULE MemoryEngineProofs -------------------------
(***************************************************************************)
(* Proofs about MemoryEngine, for any number of clients, tenants, memories *)
(* and links, any clock steps, and with or without failures.               *)
(***************************************************************************)
EXTENDS MemoryEngine, TLAPS

-----------------------------------------------------------------------------
(* Type correctness.  TypeOK is not inductive by itself: what a step writes *)
(* comes from the request of the call and from the event it stamped.        *)

CallOK ==
    \A c \in Clients : pc[c] # "idle" =>
        /\ req[c] \in Request
        /\ req[c].op = "store" => req[c].id \in Memories
        /\ pc[c] \in StoreSteps => req[c].op = "store"
        /\ pc[c] \in ForgetSteps => req[c].op = "forget"
        /\ pc[c] = "put_event" =>
              /\ event[c] \in Event
              /\ event[c].op = req[c].op
              /\ event[c].tenant = req[c].tenant
              /\ event[c].mem = req[c].id

TInv == TypeOK /\ CallOK

LEMMA TypeInit == Init => TInv
  BY BoundsAssumption DEF Init, TInv, TypeOK, CallOK, Genesis, StoreSteps,
     ForgetSteps, AuditSteps

LEMMA IssuedIdsType == ASSUME issued \subseteq Tenants \X Memories
                       PROVE  IssuedIds \subseteq Memories
  BY DEF IssuedIds

LEMMA TypeNext == TInv /\ [Next]_vars => TInv'
<1> SUFFICES ASSUME TInv, [Next]_vars PROVE TInv'
  OBVIOUS
<1> USE DEF TInv, TypeOK, CallOK, Goto, StoreSteps, ForgetSteps, AuditSteps,
            Operations, Ids
<1>1. ASSUME NEW c \in Clients, NEW t \in Tenants, NEW m \in Memories,
             NEW embedded \in BOOLEAN, NEW links \in LinkChoices(t),
             StorePut(c, t, m, embedded, links)
      PROVE  TInv'
  <2>1. links \in SUBSET Memories
    BY IssuedIdsType DEF LinkChoices, Linkable
  <2>2. [op |-> "store", tenant |-> t, id |-> m, links |-> links] \in Request
    BY <2>1 DEF Request
  <2>3. /\ pc' = [pc EXCEPT ![c] = IF embedded THEN "upsert" ELSE "add_node"]
        /\ req' = [req EXCEPT ![c] = [op |-> "store", tenant |-> t, id |-> m,
                                      links |-> links]]
        /\ UNCHANGED <<tip, event>>
    BY <1>1 DEF StorePut
  <2>4. CallOK'
    BY <2>2, <2>3
  <2>5. /\ rows' \subseteq Tenants \X Memories
        /\ issued' \subseteq Tenants \X Memories
    BY <1>1 DEF StorePut
  <2>. QED BY <1>1, <2>2, <2>3, <2>4, <2>5 DEF StorePut
<1>2. ASSUME NEW c \in Clients, NEW t \in Tenants, NEW x \in Known,
             ForgetDelete(c, t, x)
      PROVE  TInv'
  <2>1. x \in Ids
    BY DEF Known, IssuedIds, Event
  <2>2. [op |-> "forget", tenant |-> t, id |-> x, links |-> {}] \in Request
    BY <2>1 DEF Request
  <2>. QED BY <1>2, <2>2 DEF ForgetDelete, DeleteRow
<1>3. ASSUME NEW c \in Clients, VectorUpsert(c) PROVE TInv'
  BY <1>3 DEF VectorUpsert, Request
<1>4. ASSUME NEW c \in Clients, AddNode(c) PROVE TInv'
  BY <1>4 DEF AddNode, AfterNode, Request
<1>5. ASSUME NEW c \in Clients, NEW l \in Memories, AddEdge(c, l) PROVE TInv'
  <2>1. req'[c] \in Request /\ req'[c].op = "store" /\ req'[c].id \in Memories
    BY <1>5 DEF AddEdge, Request
  <2>2. \A d \in Clients : d # c => req'[d] = req[d]
    BY <1>5 DEF AddEdge
  <2>3. req' \in [Clients -> Request \cup {NoCall}]
    BY <1>5, <2>1, <2>2 DEF AddEdge
  <2>4. pc' \in [Clients -> {"idle"} \cup StoreSteps \cup ForgetSteps \cup AuditSteps]
        /\ pc'[c] \in {"add_edge", "read_tip"} /\ \A d \in Clients : d # c => pc'[d] = pc[d]
    BY <1>5 DEF AddEdge, AfterNode
  <2>5. CallOK'
    BY <1>5, <2>1, <2>2, <2>4 DEF AddEdge
  <2>6. edges' \subseteq Tenants \X Memories \X Memories /\ nodes' \subseteq Tenants \X Memories
    BY <1>5 DEF AddEdge, Request
  <2>. QED BY <1>5, <2>3, <2>4, <2>5, <2>6 DEF AddEdge
<1>6. ASSUME NEW c \in Clients, VectorDelete(c) PROVE TInv'
  BY <1>6 DEF VectorDelete
<1>7. ASSUME NEW c \in Clients, RemoveNode(c) PROVE TInv'
  BY <1>7 DEF RemoveNode
<1>8. ASSUME NEW c \in Clients, ReadTip(c) PROVE TInv'
  BY <1>8 DEF ReadTip, Latest, Events, Event, Genesis, backendVars
<1>9. ASSUME NEW c \in Clients, NEW at \in 1 .. clock + 1, Stamp(c, at)
      PROVE  TInv'
  <2>1. [id |-> created + 1, tenant |-> req[c].tenant, op |-> req[c].op,
         mem |-> req[c].id, at |-> at, prev |-> tip[c]] \in Event
    BY <1>9 DEF Stamp, Event, Request
  <2>. QED BY <1>9, <2>1 DEF Stamp, backendVars
<1>10. ASSUME NEW c \in Clients, PutEvent(c) PROVE TInv'
  <2>1. event[c] \in Event /\ (event[c].op = "store" => event[c].mem \in Memories)
    BY <1>10 DEF PutEvent
  <2>2. /\ log' \subseteq Event
        /\ acked' \subseteq Tenants \X Memories
        /\ proofs' \subseteq [tenant : Tenants, id : Ids, event : Nat]
    BY <1>10, <2>1 DEF PutEvent, Event
  <2>. QED BY <1>10, <2>2 DEF PutEvent, Return, Genesis
<1>11. ASSUME NEW c \in Clients, Abandon(c) PROVE TInv'
  BY <1>11 DEF Abandon, Return, Genesis, backendVars
<1>12. CASE UNCHANGED vars
  BY <1>12 DEF vars
<1> HIDE DEF TInv, Goto
<1>. QED
  BY <1>1, <1>2, <1>3, <1>4, <1>5, <1>6, <1>7, <1>8, <1>9, <1>10, <1>11, <1>12
  DEF Next, Begin, Step, ForgetNothing

\* Every variable of the engine keeps its type.
THEOREM TypeCorrect == Spec => []TypeOK
<1>1. Spec => []TInv
  BY TypeInit, TypeNext, PTL DEF Spec
<1>. QED BY <1>1, PTL DEF TInv

-----------------------------------------------------------------------------
(* Most steps of a call only touch the vector and the graph backend.        *)

\* Such a step neither starts nor ends a call, and leaves the call at the
\* same side of its audit event.
InnerStep ==
    /\ UNCHANGED <<rows, log, clock, created, tip, event, issued, acked, proofs>>
    /\ \A c \in Clients :
          /\ pc'[c] = "idle" <=> pc[c] = "idle"
          /\ pc'[c] = "stamp" <=> pc[c] = "stamp"
          /\ pc'[c] = "put_event" <=> pc[c] = "put_event"
          /\ pc[c] # "idle" => /\ req'[c].op = req[c].op
                               /\ req'[c].tenant = req[c].tenant
                               /\ req'[c].id = req[c].id

OuterStep ==
    \E c \in Clients :
        \/ \E t \in Tenants, m \in Memories, embedded \in BOOLEAN :
              \E links \in LinkChoices(t) : StorePut(c, t, m, embedded, links)
        \/ \E t \in Tenants, x \in Known : ForgetDelete(c, t, x)
        \/ ReadTip(c)
        \/ \E at \in 1 .. clock + 1 : Stamp(c, at)
        \/ PutEvent(c)
        \/ Abandon(c)

LEMMA StepCases == TInv /\ [Next]_vars => InnerStep \/ OuterStep
<1> SUFFICES ASSUME TInv, [Next]_vars PROVE InnerStep \/ OuterStep
  OBVIOUS
<1> USE DEF TInv, TypeOK, CallOK, Goto, StoreSteps, ForgetSteps, AuditSteps
<1>1. ASSUME NEW c \in Clients, VectorUpsert(c) PROVE InnerStep
  BY <1>1 DEF VectorUpsert, InnerStep
<1>2. ASSUME NEW c \in Clients, AddNode(c) PROVE InnerStep
  BY <1>2 DEF AddNode, AfterNode, InnerStep
<1>3. ASSUME NEW c \in Clients, NEW l \in Memories, AddEdge(c, l) PROVE InnerStep
  <2>1. /\ req'[c].op = req[c].op
        /\ req'[c].tenant = req[c].tenant
        /\ req'[c].id = req[c].id
        /\ \A d \in Clients : d # c => req'[d] = req[d]
    BY <1>3 DEF AddEdge, Request
  <2>. QED BY <1>3, <2>1 DEF AddEdge, AfterNode, InnerStep
<1>4. ASSUME NEW c \in Clients, VectorDelete(c) PROVE InnerStep
  BY <1>4 DEF VectorDelete, InnerStep
<1>5. ASSUME NEW c \in Clients, RemoveNode(c) PROVE InnerStep
  BY <1>5 DEF RemoveNode, InnerStep
<1>6. CASE UNCHANGED vars
  BY <1>6 DEF vars, InnerStep
<1> HIDE DEF TInv, TypeOK, CallOK, Goto
<1>. QED
  BY <1>1, <1>2, <1>3, <1>4, <1>5, <1>6
  DEF Next, Begin, Step, ForgetNothing, OuterStep

-----------------------------------------------------------------------------
(* The log is append-only.                                                  *)

\* Either the program cannot delete audit events (Postgres), or no caller
\* asks it to: forget is only given ids of memories.
NoEventErasure == ImmutableAudit \/ ~ForgetEvents

\* What the delete of a forget does then.
LEMMA ForgetsMemories ==
  ASSUME NoEventErasure, TInv, NEW c \in Clients, NEW t \in Tenants,
         NEW x \in Known, ForgetDelete(c, t, x)
  PROVE  /\ x \in Memories
         /\ log' = log
         /\ <<t, x>> \in rows
         /\ rows' = rows \ {<<t, x>>}
<1>1. x \in Memories
  BY IssuedIdsType DEF NoEventErasure, ForgetDelete, DeleteRow, Known, TInv, TypeOK
<1>2. \A e \in log : e.id \in Nat /\ e.id # x
  BY <1>1, MemoriesAssumption DEF TInv, TypeOK, Event
<1>. QED
  BY <1>1, <1>2 DEF ForgetDelete, DeleteRow, HasRow, Events

LEMMA LogGrows == NoEventErasure /\ TInv /\ [Next]_vars => log \subseteq log'
<1> SUFFICES ASSUME NoEventErasure, TInv, InnerStep \/ OuterStep
             PROVE  log \subseteq log'
  BY StepCases
<1>. QED
  BY ForgetsMemories DEF InnerStep, OuterStep, StorePut, ReadTip, Stamp,
     PutEvent, Abandon, backendVars

\* No step takes an event out of the log, as long as no event can be the
\* target of a forget that goes through.
THEOREM LogIsAppendOnly == ASSUME NoEventErasure PROVE Spec => AppendOnly
<1>1. TInv /\ [Next]_vars => [log \subseteq log']_vars
  BY LogGrows
<1>2. Spec => []TInv
  BY TypeInit, TypeNext, PTL DEF Spec
<1>. QED BY <1>1, <1>2, PTL DEF Spec, AppendOnly

-----------------------------------------------------------------------------
(* The erasure of a memory or of an event, whoever can delete what.         *)

LEMMA ErasureInit == Init => ErasureInv
  BY DEF Init, ErasureInv, OneForgetEvent, Forgetting, EventIdsInv

\* What is gone stays gone, and no step without a delete or a put of an event
\* makes a claim.
LEMMA ClaimsKept ==
  ASSUME ErasureInv, \A t, x : Gone(t, x) => Gone(t, x)',
         rows' \subseteq issued', log' = log, EventIdsInv',
         \A c \in Clients : Forgetting(c)' =>
            /\ Forgetting(c)
            /\ req'[c].tenant = req[c].tenant /\ req'[c].id = req[c].id
  PROVE  ErasureInv'
<1>1. \A c \in Clients : Forgetting(c)' => Gone(req[c].tenant, req[c].id)'
  <2> SUFFICES ASSUME NEW c \in Clients, Forgetting(c)'
               PROVE  Gone(req[c].tenant, req[c].id)'
    OBVIOUS
  <2> DEFINE t == req[c].tenant
             x == req[c].id
  <2>1. Gone(t, x) /\ req'[c].tenant = t /\ req'[c].id = x
    BY DEF ErasureInv
  <2>. QED BY <2>1 DEF Gone
<1>2. \A c \in Clients : Forgetting(c)' => ~Logged("forget", req[c].tenant, req[c].id)'
  BY DEF ErasureInv, Logged, Events
<1>3. \A c, d \in Clients :
         /\ Forgetting(c)' /\ Forgetting(d)'
         /\ req'[d].tenant = req'[c].tenant /\ req'[d].id = req'[c].id
         => d = c
  BY DEF ErasureInv
<1>4. \A e \in log' : e.op = "forget" => Gone(e.tenant, e.mem)'
  BY DEF ErasureInv
<1>5. OneForgetEvent'
  BY DEF ErasureInv, OneForgetEvent
<1>. QED BY <1>1, <1>2, <1>3, <1>4, <1>5 DEF ErasureInv

LEMMA ErasureNext == TInv /\ ErasureInv /\ [Next]_vars => ErasureInv'
<1> SUFFICES ASSUME TInv, ErasureInv, InnerStep \/ OuterStep PROVE ErasureInv'
  BY StepCases
<1>0. /\ created \in Nat
      /\ \A e \in log : e.id \in Nat /\ e.tenant \in Tenants /\ e.mem \in Ids
      /\ \A c \in Clients : pc[c] = "put_event" => event[c].id \in Nat
  BY DEF TInv, TypeOK, CallOK, Event
<1>1. CASE InnerStep
  <2>1. \A t, x : Gone(t, x) => Gone(t, x)'
    BY <1>1 DEF InnerStep, Gone
  <2>2. EventIdsInv'
    BY <1>1 DEF InnerStep, ErasureInv, EventIdsInv
  <2>. QED BY <1>1, <2>1, <2>2, ClaimsKept DEF InnerStep, Forgetting, ErasureInv
<1>2. ASSUME NEW c \in Clients, NEW t \in Tenants, NEW m \in Memories,
             NEW embedded \in BOOLEAN, NEW links \in LinkChoices(t),
             StorePut(c, t, m, embedded, links)
      PROVE  ErasureInv'
  <2>1. /\ <<t, m>> \notin issued
        /\ rows' = rows \cup {<<t, m>>} /\ issued' = issued \cup {<<t, m>>}
        /\ UNCHANGED <<log, created, event>>
    BY <1>2 DEF StorePut, IssuedIds
  <2>2. /\ ~Forgetting(c)' /\ pc'[c] # "put_event"
        /\ \A d \in Clients : d # c => pc'[d] = pc[d] /\ req'[d] = req[d]
    BY <1>2 DEF StorePut, Goto, Forgetting, TInv, TypeOK
  <2>3. \A u, x : Gone(u, x) => Gone(u, x)'
    BY <2>1, <2>2 DEF Gone
  <2>4. EventIdsInv'
    BY <2>1, <2>2 DEF ErasureInv, EventIdsInv
  <2>. QED BY <2>1, <2>2, <2>3, <2>4, ClaimsKept DEF Forgetting, ErasureInv
<1>3. ASSUME NEW c \in Clients, NEW t \in Tenants, NEW x \in Known,
             ForgetDelete(c, t, x)
      PROVE  ErasureInv'
  <2>1. /\ rows' = rows \ {<<t, x>>}
        /\ log' = {e \in log : ~(e.tenant = t /\ e.id = x)}
        /\ UNCHANGED <<created, event, issued>>
    BY <1>3 DEF ForgetDelete, DeleteRow, Events
  <2>2. /\ pc'[c] = "vector_delete" /\ req'[c].tenant = t /\ req'[c].id = x
        /\ \A d \in Clients : d # c => pc'[d] = pc[d] /\ req'[d] = req[d]
    BY <1>3 DEF ForgetDelete, DeleteRow, Goto, TInv, TypeOK
  \* Who finds the row or the event is the first to do so.
  <2>3. x \in Ids /\ ~(x \in Memories /\ x \in Nat)
    BY IssuedIdsType, <1>0, MemoriesAssumption DEF Known, TInv, TypeOK, Ids
  <2>4. <<t, x>> \in rows \/ \E e \in log : e.tenant = t /\ e.id = x
    BY <1>3 DEF ForgetDelete, HasRow, Events
  <2>5. x \in Memories <=> <<t, x>> \in rows
    BY <1>0, <2>3, <2>4 DEF TInv, TypeOK, Ids
  <2>6. ~Gone(t, x)
    BY <1>0, <2>3, <2>4, <2>5 DEF Gone
  <2>7. /\ \A d \in Clients : Forgetting(d) => ~(req[d].tenant = t /\ req[d].id = x)
        /\ ~Logged("forget", t, x)
    BY <2>6 DEF ErasureInv, Logged, Events
  <2>8. \A u, y : Gone(u, y) => Gone(u, y)'
    BY <2>1, <2>2 DEF Gone
  <2>9. Gone(t, x)'
    <3>1. x \in Memories => <<t, x>> \in issued' \ rows'
      BY <2>1, <2>5 DEF ErasureInv
    <3>2. x \in Nat =>
             /\ x <= created'
             /\ \A d \in Clients :
                   pc'[d] = "put_event" /\ event'[d].tenant = t => event'[d].id # x
      BY <2>1, <2>2, <2>3, <2>4, <2>5 DEF ErasureInv, EventIdsInv
    <3>. QED BY <2>1, <3>1, <3>2 DEF Gone
  <2>10. \A d \in Clients : Forgetting(d)' =>
            \/ d = c
            \/ Forgetting(d) /\ req'[d] = req[d]
    BY <2>2 DEF Forgetting
  <2>11. \A d \in Clients : Forgetting(d)' => Gone(req[d].tenant, req[d].id)'
    <3> SUFFICES ASSUME NEW d \in Clients, Forgetting(d)'
                 PROVE  Gone(req[d].tenant, req[d].id)'
      OBVIOUS
    <3>1. CASE d = c
      BY <2>2, <2>9, <3>1 DEF Gone
    <3>2. CASE Forgetting(d) /\ req'[d] = req[d]
      <4> DEFINE u == req[d].tenant
                 y == req[d].id
      <4>1. Gone(u, y)
        BY <3>2 DEF ErasureInv
      <4>2. Gone(u, y) => /\ y \in Memories => <<u, y>> \in issued' \ rows'
                          /\ y \in Nat =>
                               /\ y <= created'
                               /\ \A e \in log' : e.tenant = u => e.id # y
                               /\ \A k \in Clients :
                                     pc'[k] = "put_event" /\ event'[k].tenant = u
                                        => event'[k].id # y
        BY <2>8 DEF Gone
      <4>. QED BY <3>2, <4>1, <4>2 DEF Gone
    <3>. QED BY <2>10, <3>1, <3>2
  <2>12. \A d \in Clients : Forgetting(d)' => ~Logged("forget", req[d].tenant, req[d].id)'
    BY <2>1, <2>2, <2>7, <2>10 DEF ErasureInv, Logged, Events
  <2>13. \A d, k \in Clients :
            /\ Forgetting(d)' /\ Forgetting(k)'
            /\ req'[k].tenant = req'[d].tenant /\ req'[k].id = req'[d].id
            => k = d
    BY <2>2, <2>7, <2>10 DEF ErasureInv
  <2>14. \A e \in log' : e.op = "forget" => Gone(e.tenant, e.mem)'
    BY <2>1, <2>8 DEF ErasureInv
  <2>15. OneForgetEvent' /\ rows' \subseteq issued' /\ EventIdsInv'
    BY <2>1, <2>2 DEF ErasureInv, OneForgetEvent, EventIdsInv
  <2>. QED BY <2>11, <2>12, <2>13, <2>14, <2>15 DEF ErasureInv
<1>4. ASSUME NEW c \in Clients, ReadTip(c) PROVE ErasureInv'
  <2>1. /\ UNCHANGED <<rows, issued, log, created, event, req>>
        /\ pc[c] = "read_tip" /\ pc'[c] = "stamp"
        /\ \A d \in Clients : d # c => pc'[d] = pc[d]
    BY <1>4 DEF ReadTip, Goto, backendVars, TInv, TypeOK
  <2>2. \A u, x : Gone(u, x) => Gone(u, x)'
    BY <2>1 DEF Gone
  <2>3. EventIdsInv'
    BY <2>1 DEF ErasureInv, EventIdsInv
  <2>. QED BY <2>1, <2>2, <2>3, ClaimsKept DEF Forgetting, ErasureInv
<1>5. ASSUME NEW c \in Clients, NEW at \in 1 .. clock + 1, Stamp(c, at)
      PROVE  ErasureInv'
  <2>1. /\ UNCHANGED <<rows, issued, log, req>>
        /\ created' = created + 1
        /\ event'[c].id = created + 1
        /\ pc[c] = "stamp" /\ pc'[c] = "put_event"
        /\ \A d \in Clients : d # c => pc'[d] = pc[d] /\ event'[d] = event[d]
    BY <1>5 DEF Stamp, Goto, backendVars, TInv, TypeOK
  <2>2. \A u, x : Gone(u, x) => Gone(u, x)'
    BY <1>0, <2>1 DEF Gone
  <2>3. EventIdsInv'
    BY <1>0, <2>1 DEF ErasureInv, EventIdsInv
  <2>. QED BY <2>1, <2>2, <2>3, ClaimsKept DEF Forgetting, ErasureInv
<1>6. ASSUME NEW c \in Clients, PutEvent(c) PROVE ErasureInv'
  \* The claim of the call becomes its Forget event.
  <2> DEFINE e == event[c]
  <2>1. /\ log' = log \cup {e} /\ UNCHANGED <<rows, issued, created>>
        /\ e.op = req[c].op /\ e.tenant = req[c].tenant /\ e.mem = req[c].id
        /\ pc[c] = "put_event"
    BY <1>6 DEF PutEvent, TInv, TypeOK, CallOK
  <2>2. /\ ~Forgetting(c)' /\ pc'[c] = "idle"
        /\ \A d \in Clients : d # c =>
              pc'[d] = pc[d] /\ req'[d] = req[d] /\ event'[d] = event[d]
    BY <1>6 DEF PutEvent, Return, Forgetting, TInv, TypeOK
  <2>3. \A d \in Clients : Forgetting(d)' => d # c /\ Forgetting(d) /\ req'[d] = req[d]
    BY <2>2 DEF Forgetting
  <2>4. \A u, x : Gone(u, x) => Gone(u, x)'
    BY <2>1, <2>2 DEF Gone
  <2>5. EventIdsInv'
    <3>. HIDE DEF e
    <3>1. /\ e.id <= created /\ \A f \in log : f.id # e.id
          /\ \A d \in Clients : pc[d] = "put_event" /\ d # c => event[d].id # e.id
      BY <2>1 DEF ErasureInv, EventIdsInv, e
    <3>. QED BY <2>1, <2>2, <3>1 DEF ErasureInv, EventIdsInv
  <2>6. e.op = "forget" =>
           /\ Gone(e.tenant, e.mem)
           /\ ~Logged("forget", e.tenant, e.mem)
           /\ \A d \in Clients : d # c /\ Forgetting(d) =>
                 ~(req[d].tenant = e.tenant /\ req[d].id = e.mem)
    BY <2>1 DEF ErasureInv, Forgetting
  <2>7. \A d \in Clients : Forgetting(d)' => Gone(req[d].tenant, req[d].id)'
    <3> SUFFICES ASSUME NEW d \in Clients, Forgetting(d)'
                 PROVE  Gone(req[d].tenant, req[d].id)'
      OBVIOUS
    <3> DEFINE u == req[d].tenant
               y == req[d].id
    <3>1. Gone(u, y) /\ req'[d] = req[d]
      BY <2>3 DEF ErasureInv
    <3>. QED BY <2>4, <3>1 DEF Gone
  <2>. HIDE DEF e
  <2>8. \A d \in Clients : Forgetting(d)' => ~Logged("forget", req[d].tenant, req[d].id)'
    BY <2>1, <2>3, <2>6 DEF ErasureInv, Logged, Events
  <2>9. \A d, k \in Clients :
           /\ Forgetting(d)' /\ Forgetting(k)'
           /\ req'[k].tenant = req'[d].tenant /\ req'[k].id = req'[d].id
           => k = d
    BY <2>3 DEF ErasureInv
  <2>10. \A f \in log' : f.op = "forget" => Gone(f.tenant, f.mem)'
    BY <2>1, <2>4, <2>6 DEF ErasureInv
  <2>11. OneForgetEvent' /\ rows' \subseteq issued'
    BY <2>1, <2>6 DEF ErasureInv, OneForgetEvent, Logged, Events
  <2>. QED BY <2>5, <2>7, <2>8, <2>9, <2>10, <2>11 DEF ErasureInv
<1>7. ASSUME NEW c \in Clients, Abandon(c) PROVE ErasureInv'
  <2>1. /\ UNCHANGED <<rows, issued, log, created>>
        /\ pc'[c] = "idle"
        /\ \A d \in Clients : d # c =>
              pc'[d] = pc[d] /\ req'[d] = req[d] /\ event'[d] = event[d]
    BY <1>7 DEF Abandon, Return, backendVars, TInv, TypeOK
  <2>2. \A u, x : Gone(u, x) => Gone(u, x)'
    BY <2>1 DEF Gone
  <2>3. EventIdsInv'
    BY <2>1 DEF ErasureInv, EventIdsInv
  <2>. QED BY <2>1, <2>2, <2>3, ClaimsKept DEF Forgetting, ErasureInv
<1>. QED
  BY <1>1, <1>2, <1>3, <1>4, <1>5, <1>6, <1>7 DEF OuterStep

\* However many calls forget a memory at once, wherever they fail, and even
\* where forget may delete the events themselves, a memory has at most one
\* Forget event, and no memory with a Forget event is stored.
THEOREM ErasureIsSound == Spec => [](OneForgetEvent /\ ForgetIsFinal)
<1>1. TInv /\ ErasureInv => OneForgetEvent /\ ForgetIsFinal
  <2> SUFFICES ASSUME TInv, ErasureInv, NEW e \in log, e.op = "forget"
               PROVE  <<e.tenant, e.mem>> \notin rows
    BY DEF ErasureInv, ForgetIsFinal
  <2>1. Gone(e.tenant, e.mem)
    BY DEF ErasureInv
  <2>. QED BY <2>1 DEF Gone, TInv, TypeOK
<1>2. TInv /\ ErasureInv /\ [Next]_vars => TInv' /\ ErasureInv'
  BY TypeNext, ErasureNext
<1>. QED
  BY <1>1, <1>2, TypeInit, ErasureInit, PTL DEF Spec

\* The claim a delete gives: while a forget is past it, the memory or the event
\* it took is gone, nobody else forgets it, and it has no Forget event (forget
\* in engine.rs).
THEOREM ErasureClaims == Spec => []ErasureInv
<1>1. TInv /\ ErasureInv /\ [Next]_vars => TInv' /\ ErasureInv'
  BY TypeNext, ErasureNext
<1>. QED
  BY <1>1, TypeInit, ErasureInit, PTL DEF Spec

-----------------------------------------------------------------------------
(* The ids of the events and the tips the calls hold.                       *)

LEMMA ChainInit == Init => ChainInv
  BY DEF Init, ChainInv, EventIdsInv

LEMMA OlderInMonotone ==
  ASSUME NEW l \in SUBSET Event, NEW m, l \subseteq m, NEW t, NEW p,
         NEW n \in Nat, NEW k \in Nat, n <= k, OlderIn(l, t, p, n)
  PROVE  OlderIn(m, t, p, k)
  BY DEF OlderIn, Event

LEMMA ChainNext ==
  NoEventErasure /\ TInv /\ ChainInv /\ [Next]_vars => ChainInv'
<1> SUFFICES ASSUME NoEventErasure, TInv, TInv', ChainInv, log \subseteq log',
                    InnerStep \/ OuterStep
             PROVE  ChainInv'
  BY StepCases, TypeNext, LogGrows
<1>1. ASSUME log' = log, created' = created, tip' = tip, event' = event,
             \A c \in Clients :
                /\ pc'[c] = "stamp" =>
                      pc[c] = "stamp" /\ req'[c].tenant = req[c].tenant
                /\ pc'[c] = "put_event" => pc[c] = "put_event"
      PROVE  ChainInv'
  BY <1>1 DEF ChainInv, EventIdsInv
<1>2. CASE InnerStep
  BY <1>1, <1>2 DEF InnerStep
<1>3. ASSUME NEW c \in Clients, NEW t \in Tenants, NEW m \in Memories,
             NEW embedded \in BOOLEAN, NEW links \in LinkChoices(t),
             StorePut(c, t, m, embedded, links)
      PROVE  ChainInv'
  BY <1>1, <1>3 DEF StorePut, Goto, TInv, TypeOK
<1>4. ASSUME NEW c \in Clients, NEW t \in Tenants, NEW x \in Known,
             ForgetDelete(c, t, x)
      PROVE  ChainInv'
  BY <1>1, <1>4, ForgetsMemories DEF ForgetDelete, DeleteRow, Goto, TInv, TypeOK
<1>5. ASSUME NEW c \in Clients, Abandon(c) PROVE ChainInv'
  <2>1. /\ pc'[c] = "idle"
        /\ \A d \in Clients : d # c => pc'[d] = pc[d] /\ req'[d] = req[d]
                                       /\ tip'[d] = tip[d] /\ event'[d] = event[d]
        /\ log' = log /\ created' = created
    BY <1>5 DEF Abandon, Return, backendVars, TInv, TypeOK
  <2>. QED BY <2>1 DEF ChainInv, EventIdsInv
<1>6. ASSUME NEW c \in Clients, ReadTip(c) PROVE ChainInv'
  <2>1. /\ log' = log /\ created' = created /\ event' = event /\ req' = req
        /\ pc'[c] = "stamp"
        /\ \A d \in Clients : d # c => pc'[d] = pc[d] /\ tip'[d] = tip[d]
    BY <1>6 DEF ReadTip, Goto, backendVars, TInv, TypeOK
  <2>2. \/ tip'[c] = Genesis
        \/ \E e \in Events(req[c].tenant) : tip'[c] = e.id
    BY <1>6 DEF ReadTip, Latest, TInv, TypeOK
  <2>3. \A e \in log : e.id < created + 1
    BY DEF ChainInv, EventIdsInv, TInv, TypeOK, Event
  <2>4. OlderIn(log, req[c].tenant, tip'[c], created + 1)
    BY <2>2, <2>3 DEF OlderIn, Events
  <2>. QED BY <2>1, <2>4 DEF ChainInv, EventIdsInv
<1>7. ASSUME NEW c \in Clients, NEW at \in 1 .. clock + 1, Stamp(c, at)
      PROVE  ChainInv'
  <2>1. /\ log' = log /\ created' = created + 1 /\ req' = req /\ tip' = tip
        /\ pc[c] = "stamp" /\ pc'[c] = "put_event"
        /\ event'[c].id = created + 1
        /\ event'[c].tenant = req[c].tenant
        /\ event'[c].prev = tip[c]
        /\ \A d \in Clients : d # c => pc'[d] = pc[d] /\ event'[d] = event[d]
    BY <1>7 DEF Stamp, Goto, backendVars, TInv, TypeOK
  <2>2. created \in Nat /\ \A e \in log : e.id \in Nat /\ e.id <= created
    BY DEF ChainInv, EventIdsInv, TInv, TypeOK, Event
  <2>3. \A d \in Clients : pc[d] = "put_event" =>
           event[d].id \in Nat /\ event[d].id <= created
    BY DEF ChainInv, EventIdsInv, TInv, CallOK, Event
  <2>4. OlderIn(log', event'[c].tenant, event'[c].prev, event'[c].id)
    BY <2>1 DEF ChainInv, EventIdsInv
  <2>5. \A d \in Clients : pc[d] = "stamp" =>
           OlderIn(log', req[d].tenant, tip[d], created + 2)
    BY <2>1, <2>2, OlderInMonotone DEF ChainInv, EventIdsInv, TInv, TypeOK
  <2>6. \A d \in Clients : pc[d] = "put_event" /\ d # c =>
           OlderIn(log', event[d].tenant, event[d].prev, event[d].id)
    BY <2>1 DEF ChainInv, EventIdsInv
  <2>7. \A e \in log' : e.id <= created' /\ OlderIn(log', e.tenant, e.prev, e.id)
    BY <2>1, <2>2 DEF ChainInv, EventIdsInv
  <2>8. created' + 1 = created + 2
    BY <2>1, <2>2
  <2>. QED BY <2>1, <2>2, <2>3, <2>4, <2>5, <2>6, <2>7, <2>8 DEF ChainInv, EventIdsInv
<1>8. ASSUME NEW c \in Clients, PutEvent(c) PROVE ChainInv'
  <2> DEFINE e == event[c]
  <2>1. /\ pc[c] = "put_event" /\ log' = log \cup {e} /\ created' = created
        /\ pc'[c] = "idle"
        /\ \A d \in Clients : d # c => pc'[d] = pc[d] /\ req'[d] = req[d]
                                       /\ tip'[d] = tip[d] /\ event'[d] = event[d]
    BY <1>8 DEF PutEvent, Return, TInv, TypeOK
  <2>2. /\ e.id \in Nat /\ e.id <= created
        /\ OlderIn(log, e.tenant, e.prev, e.id)
        /\ \A f \in log : f.id # e.id
        /\ \A d \in Clients : pc[d] = "put_event" /\ d # c => event[d].id # e.id
    BY <2>1 DEF ChainInv, EventIdsInv, TInv, CallOK, Event
  <2>3. \A t, p : \A n \in Nat : OlderIn(log, t, p, n) => OlderIn(log', t, p, n)
    BY OlderInMonotone DEF TInv, TypeOK
  <2>4. created \in Nat /\ \A f \in log : f.id \in Nat
    BY DEF TInv, TypeOK, Event
  <2>5. \A d \in Clients : pc[d] = "put_event" => event[d].id \in Nat
    BY DEF TInv, CallOK, Event
  <2>. HIDE DEF e
  <2>6. \A f \in log' : f.id <= created' /\ OlderIn(log', f.tenant, f.prev, f.id)
    BY <2>1, <2>2, <2>3, <2>4 DEF ChainInv, EventIdsInv
  <2>7. \A f, g \in log' : f.id = g.id => f = g
    BY <2>1, <2>2 DEF ChainInv, EventIdsInv
  <2>8. ASSUME NEW d \in Clients, pc'[d] = "stamp"
        PROVE  OlderIn(log', req'[d].tenant, tip'[d], created' + 1)
    <3>1. d # c /\ pc[d] = "stamp" /\ req'[d] = req[d] /\ tip'[d] = tip[d]
      BY <2>1, <2>8
    <3>2. OlderIn(log, req[d].tenant, tip[d], created + 1)
      BY <3>1 DEF ChainInv, EventIdsInv
    <3>3. OlderIn(log', req[d].tenant, tip[d], created + 1)
      BY <2>3, <2>4, <3>2
    <3>. QED BY <2>1, <3>1, <3>3
  <2>9. ASSUME NEW d \in Clients, pc'[d] = "put_event"
        PROVE  /\ event'[d].id <= created'
               /\ OlderIn(log', event'[d].tenant, event'[d].prev, event'[d].id)
               /\ \A f \in log' : f.id # event'[d].id
    <3>1. d # c /\ pc[d] = "put_event" /\ event'[d] = event[d]
      BY <2>1, <2>9
    <3>2. /\ event[d].id <= created
          /\ OlderIn(log, event[d].tenant, event[d].prev, event[d].id)
          /\ \A f \in log : f.id # event[d].id
      BY <3>1 DEF ChainInv, EventIdsInv
    <3>3. OlderIn(log', event[d].tenant, event[d].prev, event[d].id)
      BY <2>3, <2>5, <3>1, <3>2
    <3>. QED BY <2>1, <2>2, <3>1, <3>2, <3>3
  <2>10. \A d, d2 \in Clients :
            pc'[d] = "put_event" /\ pc'[d2] = "put_event" /\ d2 # d
               => event'[d2].id # event'[d].id
    BY <2>1 DEF ChainInv, EventIdsInv
  <2>. QED BY <2>6, <2>7, <2>8, <2>9, <2>10 DEF ChainInv, EventIdsInv
<1>. QED
  BY <1>2, <1>3, <1>4, <1>5, <1>6, <1>7, <1>8 DEF OuterStep

\* Concurrent calls may fork the chain, but they cannot cut it: the tip a call
\* holds is an event of its tenant that stays in the log, every event hashes in an
\* older one of its tenant, and no id of an event is given twice
\* (append_audit_event in engine.rs).
THEOREM ChainIsAForest == ASSUME NoEventErasure PROVE Spec => []ChainInv
<1>1. TInv /\ ChainInv /\ [Next]_vars => TInv' /\ ChainInv'
  BY TypeNext, ChainNext
<1>. QED
  BY <1>1, TypeInit, ChainInit, PTL DEF Spec

-----------------------------------------------------------------------------
(* Answers.                                                                 *)

LEMMA AnswersNext ==
  NoEventErasure /\ TInv /\ AnswersAreLogged /\ [Next]_vars => AnswersAreLogged'
<1> SUFFICES ASSUME NoEventErasure, TInv, AnswersAreLogged, log \subseteq log',
                    InnerStep \/ OuterStep
             PROVE  AnswersAreLogged'
  BY StepCases, LogGrows
<1>1. ASSUME UNCHANGED <<acked, proofs>>
      PROVE  AnswersAreLogged'
  BY <1>1 DEF AnswersAreLogged, Logged, Events
<1>2. ASSUME NEW c \in Clients, PutEvent(c) PROVE AnswersAreLogged'
  <2>1. event[c] \in log' /\ event[c] \in Event
    BY <1>2 DEF PutEvent, TInv, CallOK
  <2>2. \A a \in acked' :
           \/ a \in acked
           \/ event[c].op = "store" /\ a = <<event[c].tenant, event[c].mem>>
    BY <1>2 DEF PutEvent
  <2>3. \A p \in proofs' :
           \/ p \in proofs
           \/ /\ event[c].op = "forget"
              /\ p = [tenant |-> event[c].tenant, id |-> event[c].mem,
                      event |-> event[c].id]
    BY <1>2 DEF PutEvent
  <2>. QED
    BY <2>1, <2>2, <2>3 DEF AnswersAreLogged, Logged, Events
<1>. QED
  BY <1>1, <1>2 DEF OuterStep, InnerStep, StorePut, ForgetDelete, DeleteRow, ReadTip,
     Stamp, Abandon

\* What a caller was told is on record: the Store event of a store that
\* returned Ok, the Forget event that a proof names.
THEOREM AnswersAreOnRecord ==
  ASSUME NoEventErasure
  PROVE  Spec => []AnswersAreLogged
<1>1. Init => AnswersAreLogged
  BY DEF Init, AnswersAreLogged
<1>2. TInv /\ AnswersAreLogged /\ [Next]_vars => TInv' /\ AnswersAreLogged'
  BY TypeNext, AnswersNext
<1>. QED
  BY <1>1, <1>2, TypeInit, PTL DEF Spec

-----------------------------------------------------------------------------
(* Refinement: the engine implements the erasure ledger.                    *)

LEMMA LedgerInit == Init => Ledger!Init
  BY DEF Init, Ledger!Init, Certificates, Told

LEMMA LedgerUnchanged ==
  ASSUME UNCHANGED <<rows, log, issued, proofs>>
  PROVE  UNCHANGED Ledger!ledgerVars
  BY DEF Ledger!ledgerVars, Certificates, Told

\* Calls are about memories, never about events.
MemoriesOnly == \A c \in Clients : pc[c] # "idle" => req[c].id \in Memories

LEMMA MemoriesOnlyNext ==
  NoEventErasure /\ TInv /\ MemoriesOnly /\ [Next]_vars => MemoriesOnly'
<1> SUFFICES ASSUME NoEventErasure, TInv, MemoriesOnly, InnerStep \/ OuterStep
             PROVE  MemoriesOnly'
  BY StepCases
<1> USE DEF MemoriesOnly
<1>1. CASE InnerStep
  BY <1>1 DEF InnerStep
<1>2. ASSUME NEW c \in Clients, NEW t \in Tenants, NEW m \in Memories,
             NEW embedded \in BOOLEAN, NEW links \in LinkChoices(t),
             StorePut(c, t, m, embedded, links)
      PROVE  MemoriesOnly'
  BY <1>2 DEF StorePut, Goto, TInv, TypeOK
<1>3. ASSUME NEW c \in Clients, NEW t \in Tenants, NEW x \in Known,
             ForgetDelete(c, t, x)
      PROVE  MemoriesOnly'
  <2>1. x \in Memories
    BY <1>3, ForgetsMemories
  <2>. QED BY <1>3, <2>1 DEF ForgetDelete, DeleteRow, Goto, TInv, TypeOK
<1>4. ASSUME NEW c \in Clients,
             \/ ReadTip(c)
             \/ \E at \in 1 .. clock + 1 : Stamp(c, at)
             \/ PutEvent(c)
             \/ Abandon(c)
      PROVE  MemoriesOnly'
  <2>1. \A d \in Clients : pc'[d] # "idle" => pc[d] # "idle" /\ req'[d] = req[d]
    BY <1>4 DEF ReadTip, Stamp, PutEvent, Abandon, Return, Goto, TInv, TypeOK
  <2>. QED BY <2>1
<1>. QED BY <1>1, <1>2, <1>3, <1>4 DEF OuterStep

LEMMA LedgerNext ==
  NoEventErasure /\ TInv /\ ErasureInv /\ ChainInv /\ MemoriesOnly /\ [Next]_vars
     => [Ledger!Next]_(Ledger!ledgerVars)
<1> SUFFICES ASSUME NoEventErasure, TInv, ErasureInv, ChainInv, MemoriesOnly,
                    InnerStep \/ OuterStep
             PROVE  Ledger!Next \/ UNCHANGED Ledger!ledgerVars
  BY StepCases
<1>1. CASE InnerStep
  BY <1>1, LedgerUnchanged DEF InnerStep
<1>2. ASSUME NEW c \in Clients, NEW t \in Tenants, NEW m \in Memories,
             NEW embedded \in BOOLEAN, NEW links \in LinkChoices(t),
             StorePut(c, t, m, embedded, links)
      PROVE  Ledger!Remember(<<t, m>>)
  <2>1. <<t, m>> \notin issued
    BY <1>2 DEF StorePut, IssuedIds
  <2>2. /\ rows' = rows \cup {<<t, m>>} /\ issued' = issued \cup {<<t, m>>}
        /\ UNCHANGED <<log, proofs>>
    BY <1>2 DEF StorePut
  <2>3. UNCHANGED <<Certificates, Told>>
    BY <2>2 DEF Certificates, Told
  <2>4. <<t, m>> \notin rows \cup (issued \ rows)
    BY <2>1 DEF ErasureInv
  <2>5. issued' \ rows' = issued \ rows
    BY <2>1, <2>2
  <2>. QED BY <2>2, <2>3, <2>4, <2>5 DEF Ledger!Remember
<1>3. ASSUME NEW c \in Clients, NEW t \in Tenants, NEW x \in Known,
             ForgetDelete(c, t, x)
      PROVE  <<t, x>> \in Tenants \X Memories /\ Ledger!Erase(<<t, x>>)
  <2>1. /\ x \in Memories /\ <<t, x>> \in rows /\ rows' = rows \ {<<t, x>>}
        /\ UNCHANGED <<log, issued, proofs>>
    BY <1>3, ForgetsMemories DEF ForgetDelete, DeleteRow
  <2>2. UNCHANGED <<Certificates, Told>>
    BY <2>1 DEF Certificates, Told
  <2>3. issued' \ rows' = (issued \ rows) \cup {<<t, x>>}
    BY <2>1 DEF ErasureInv
  <2>. QED BY <2>1, <2>2, <2>3 DEF Ledger!Erase
<1>4. ASSUME NEW c \in Clients, PutEvent(c)
      PROVE  \/ UNCHANGED Ledger!ledgerVars
             \/ \E i \in Tenants \X Memories : Ledger!Certify(i)
  <2> DEFINE e   == event[c]
             i   == <<e.tenant, e.mem>>
             new == <<i, e.id>>
  <2>1. /\ log' = log \cup {e} /\ UNCHANGED <<rows, issued>>
        /\ pc[c] = "put_event"
        /\ e.op = req[c].op /\ e.tenant = req[c].tenant /\ e.mem = req[c].id
    BY <1>4 DEF PutEvent, TInv, CallOK
  <2>2. CASE e.op = "forget"
    <3>1. Forgetting(c)
      BY <2>1, <2>2 DEF Forgetting
    <3>2. i \in issued \ rows /\ ~Logged("forget", e.tenant, e.mem)
      BY <2>1, <3>1 DEF ErasureInv, Gone, MemoriesOnly
    <3>3. i \in Tenants \X Memories
      BY <3>2 DEF TInv, TypeOK
    <3>4. \A f \in log : f.id # e.id
      BY <2>1 DEF ChainInv, EventIdsInv
    <3>5. \A f \in log : f.op = "forget" => <<f.tenant, f.mem>> # i
      BY <3>2 DEF Logged, Events
    <3>6. \A cert \in Certificates : cert[1] # i /\ cert[2] # e.id
      BY <3>4, <3>5 DEF Certificates
    <3>7. Certificates' = Certificates \cup {new}
      BY <2>1, <2>2 DEF Certificates
    <3>8. Told' \in {Told, Told \cup {new}}
      <4>1. CASE proofs' = proofs
        BY <4>1 DEF Told
      <4>2. CASE proofs' = proofs \cup {[tenant |-> e.tenant, id |-> e.mem,
                                         event |-> e.id]}
        BY <4>2 DEF Told
      <4>. QED BY <1>4, <2>2, <4>1, <4>2 DEF PutEvent
    <3>9. new \in Certificates' /\ new[1] = i /\ new[2] = e.id
      BY <3>7
    <3>. HIDE DEF e, i, new
    <3>10. Ledger!Certify(i)
      BY <2>1, <3>2, <3>6, <3>7, <3>8, <3>9 DEF Ledger!Certify
    <3>. QED BY <3>3, <3>10
  <2>3. CASE e.op # "forget"
    <3>1. proofs' = proofs
      BY <1>4, <2>3 DEF PutEvent
    <3>2. Certificates' = Certificates
      BY <2>1, <2>3 DEF Certificates
    <3>. QED BY <2>1, <3>1, <3>2 DEF Ledger!ledgerVars, Told
  <2>. QED BY <2>2, <2>3
<1>5. ASSUME NEW c \in Clients,
             \/ ReadTip(c)
             \/ \E at \in 1 .. clock + 1 : Stamp(c, at)
             \/ Abandon(c)
      PROVE  UNCHANGED Ledger!ledgerVars
  BY <1>5, LedgerUnchanged DEF ReadTip, Stamp, Abandon, backendVars
<1>. QED
  BY <1>1, <1>2, <1>3, <1>4, <1>5 DEF OuterStep, Ledger!Next

\* Seen through its rows, its Forget events and the proofs it returns, the
\* engine is the ledger: no memory is remembered twice, certified twice or
\* certified while stored, and callers only hold certificates on record.
THEOREM EngineImplementsLedger ==
  ASSUME NoEventErasure
  PROVE  Spec => LedgerSpec
<1> DEFINE Inv == TInv /\ ErasureInv /\ ChainInv /\ MemoriesOnly
<1>1. Init => Inv
  BY TypeInit, ErasureInit, ChainInit DEF Init, MemoriesOnly
<1>2. Inv /\ [Next]_vars => Inv'
  BY TypeNext, ErasureNext, ChainNext, MemoriesOnlyNext
<1>3. Inv /\ [Next]_vars => [Ledger!Next]_(Ledger!ledgerVars)
  BY LedgerNext
<1>. QED
  BY <1>1, <1>2, <1>3, LedgerInit, PTL DEF Spec, LedgerSpec, Ledger!Spec

-----------------------------------------------------------------------------
(* The linear chain of a single writer.                                     *)

\* One call at a time, on a clock that only moves forward.
SingleWriter == MaxBackstep = 0 /\ \A c, d \in Clients : c = d

LinearInv == TipInv /\ ChainLinear

LEMMA LinearInit == Init => LinearInv
  BY DEF Init, LinearInv, TipInv, ChainLinear, Events

LEMMA LinearNext ==
  NoEventErasure /\ SingleWriter /\ TInv /\ LinearInv /\ [Next]_vars => LinearInv'
<1> SUFFICES ASSUME NoEventErasure, SingleWriter, TInv, LinearInv,
                    InnerStep \/ OuterStep
             PROVE  LinearInv'
  BY StepCases
<1>1. ASSUME UNCHANGED <<log, clock, tip, event>>,
             \A c \in Clients :
                /\ pc'[c] = "stamp" =>
                      pc[c] = "stamp" /\ req'[c].tenant = req[c].tenant
                /\ pc'[c] = "put_event" => pc[c] = "put_event"
      PROVE  LinearInv'
  BY <1>1 DEF LinearInv, TipInv, ChainLinear, Events, Latest
<1>2. CASE InnerStep
  BY <1>1, <1>2 DEF InnerStep
<1>3. ASSUME NEW c \in Clients, NEW t \in Tenants, NEW m \in Memories,
             NEW embedded \in BOOLEAN, NEW links \in LinkChoices(t),
             StorePut(c, t, m, embedded, links)
      PROVE  LinearInv'
  BY <1>1, <1>3 DEF StorePut, Goto, TInv, TypeOK
<1>4. ASSUME NEW c \in Clients, NEW t \in Tenants, NEW x \in Known,
             ForgetDelete(c, t, x)
      PROVE  LinearInv'
  BY <1>1, <1>4, ForgetsMemories DEF ForgetDelete, DeleteRow, Goto, TInv, TypeOK
<1>5. ASSUME NEW c \in Clients, Abandon(c) PROVE LinearInv'
  <2>1. /\ \A d \in Clients : pc'[d] = "idle"
        /\ UNCHANGED <<log, clock>>
    BY <1>5 DEF Abandon, Return, backendVars, SingleWriter, TInv, TypeOK
  <2>. QED BY <2>1 DEF LinearInv, TipInv, ChainLinear, Events, Latest
<1>6. ASSUME NEW c \in Clients, ReadTip(c) PROVE LinearInv'
  <2>1. /\ UNCHANGED <<log, clock, event, req>>
        /\ pc'[c] = "stamp" /\ \A d \in Clients : d = c
    BY <1>6 DEF ReadTip, Goto, backendVars, SingleWriter, TInv, TypeOK
  <2>2. LastIs(Events(req[c].tenant), tip'[c])
    <3>1. CASE \E e \in Latest(req[c].tenant) : tip'[c] = e.id
      BY <3>1 DEF Latest, LastIs
    <3>2. CASE Latest(req[c].tenant) = {} /\ tip'[c] = Genesis
      <4>1. pc[c] = "read_tip" /\ req[c].tenant \in Tenants
        BY <1>6 DEF ReadTip, Goto, TInv, CallOK, Request
      <4>2. Events(req[c].tenant) = {}
        BY <3>2, <4>1 DEF LinearInv, TipInv
      <4>. QED BY <3>2, <4>2 DEF LastIs
    <3>. QED BY <1>6, <3>1, <3>2 DEF ReadTip, TInv, TypeOK
  <2>. QED BY <2>1, <2>2 DEF LinearInv, TipInv, ChainLinear, Events, Latest
<1>7. ASSUME NEW c \in Clients, NEW at \in 1 .. clock + 1, Stamp(c, at)
      PROVE  LinearInv'
  <2>1. /\ clock \in Nat /\ at = clock + 1 /\ clock' = clock + 1
        /\ log' = log
    BY <1>7 DEF Stamp, backendVars, SingleWriter, TInv, TypeOK
  <2>2. /\ pc[c] = "stamp" /\ pc'[c] = "put_event" /\ \A d \in Clients : d = c
        /\ event'[c].at = clock + 1
        /\ event'[c].tenant = req[c].tenant
        /\ event'[c].prev = tip[c]
    BY <1>7, <2>1 DEF Stamp, Goto, SingleWriter, TInv, TypeOK
  <2>3. \A e \in log : e.at \in Nat /\ e.at < clock + 1
    BY <2>1 DEF LinearInv, TipInv, TInv, TypeOK, Event
  <2>4. LastIs(Events(event'[c].tenant), event'[c].prev)
    BY <2>2 DEF LinearInv, TipInv
  <2>5. \A e \in log' : e.at < event'[c].at /\ e.at <= clock'
    BY <2>1, <2>2, <2>3
  <2>6. event'[c].at <= clock'
    BY <2>1, <2>2
  <2>7. LastIs(Events(event[c].tenant), event[c].prev)'
    BY <2>1, <2>4 DEF Events
  <2>8. TipInv'
    BY <2>1, <2>2, <2>5, <2>6, <2>7 DEF LinearInv, TipInv, Events, Latest
  <2>. QED
    BY <2>1, <2>8 DEF LinearInv, ChainLinear
<1>8. ASSUME NEW c \in Clients, PutEvent(c) PROVE LinearInv'
  <2> DEFINE e == event[c]
  <2>1. /\ log' = log \cup {e} /\ clock' = clock
        /\ \A d \in Clients : pc'[d] = "idle"
        /\ pc[c] = "put_event"
    BY <1>8 DEF PutEvent, Return, SingleWriter, TInv, TypeOK
  <2>2. /\ e.at \in Nat /\ \A f \in log : f.at \in Nat /\ f.at < e.at
        /\ e.at <= clock
        /\ LastIs(Events(e.tenant), e.prev)
    BY <2>1 DEF LinearInv, TipInv, TInv, TypeOK, CallOK, Event
  <2>. HIDE DEF e
  \* The new event is the latest one: for the older events nothing changed,
  \* and its own prev is the tip.
  <2>3. \A f \in log : Before(log', f) = Before(log, f)
    BY <2>1, <2>2 DEF Before
  <2>4. Before(log', e) = Events(e.tenant)
    BY <2>1, <2>2 DEF Before, Events
  <2>5. ASSUME NEW f \in log' PROVE LastIs(Before(log', f), f.prev)
    <3>1. CASE f = e
      BY <2>2, <2>4, <3>1
    <3>2. CASE f \in log
      BY <2>3, <3>2 DEF LinearInv, ChainLinear
    <3>. QED BY <2>1, <3>1, <3>2
  <2>6. ChainLinear'
    BY <2>5 DEF ChainLinear
  <2>7. \A t \in Tenants : Events(t)' # {} => Latest(t)' # {}
    <3> SUFFICES ASSUME NEW t \in Tenants, Events(t)' # {} PROVE Latest(t)' # {}
      OBVIOUS
    <3>1. CASE e.tenant = t
      <4>1. e \in Events(t)' /\ \A f \in Events(t)' : f.at <= e.at
        BY <2>1, <2>2, <3>1 DEF Events
      <4>. QED BY <4>1 DEF Latest
    <3>2. CASE e.tenant # t
      <4>1. Events(t)' = Events(t)
        BY <2>1, <3>2 DEF Events
      <4>. QED BY <4>1 DEF LinearInv, TipInv, Latest
    <3>. QED BY <3>1, <3>2
  <2>8. \A f, g \in log' : f.at = g.at => f = g
    BY <2>1, <2>2 DEF LinearInv, TipInv
  <2>9. \A f \in log' : f.at <= clock'
    BY <2>1, <2>2 DEF LinearInv, TipInv
  <2>. QED BY <2>1, <2>6, <2>7, <2>8, <2>9 DEF LinearInv, TipInv
<1>. QED
  BY <1>2, <1>3, <1>4, <1>5, <1>6, <1>7, <1>8 DEF OuterStep

\* The claim of audit.rs holds of a single writer: whatever fails in between,
\* audit returns a chain in which each event hashes in the one before it.
THEOREM SingleWriterChain ==
  ASSUME NoEventErasure, SingleWriter
  PROVE  Spec => []ChainLinear
<1>1. LinearInv => ChainLinear
  BY DEF LinearInv
<1>2. TInv /\ LinearInv /\ [Next]_vars => TInv' /\ LinearInv'
  BY TypeNext, LinearNext
<1>. QED
  BY <1>1, <1>2, TypeInit, LinearInit, PTL DEF Spec

-----------------------------------------------------------------------------
(* The log when no call fails.                                              *)

Owes(op, i) ==
    \E c \in Clients :
        pc[c] # "idle" /\ req[c].op = op /\ req[c].tenant = i[1] /\ req[c].id = i[2]

\* Every change has its event or a call that will append it.
OwedInv ==
    \A i \in issued :
        /\ Logged("store", i[1], i[2]) \/ Owes("store", i)
        /\ i \in rows \/ Logged("forget", i[1], i[2]) \/ Owes("forget", i)

LEMMA OwedNext ==
  NoEventErasure /\ ~MayFail /\ TInv /\ OwedInv /\ [Next]_vars => OwedInv'
<1> SUFFICES ASSUME NoEventErasure, ~MayFail, TInv, OwedInv, log \subseteq log',
                    InnerStep \/ OuterStep
             PROVE  OwedInv'
  BY StepCases, LogGrows
<1>0. \A op, t, x : Logged(op, t, x) => Logged(op, t, x)'
  BY DEF Logged, Events
<1>1. ASSUME \A op, i : Owes(op, i) => Owes(op, i)', issued' = issued,
             rows \subseteq rows'
      PROVE  OwedInv'
  BY <1>0, <1>1 DEF OwedInv
<1>2. CASE InnerStep
  BY <1>1, <1>2 DEF InnerStep, Owes
<1>3. ASSUME NEW c \in Clients, NEW t \in Tenants, NEW m \in Memories,
             NEW embedded \in BOOLEAN, NEW links \in LinkChoices(t),
             StorePut(c, t, m, embedded, links)
      PROVE  OwedInv'
  <2>1. /\ pc[c] = "idle" /\ pc'[c] # "idle" /\ req'[c].op = "store"
        /\ req'[c].tenant = t /\ req'[c].id = m
        /\ \A d \in Clients : d # c => pc'[d] = pc[d] /\ req'[d] = req[d]
        /\ rows' = rows \cup {<<t, m>>} /\ issued' = issued \cup {<<t, m>>}
    BY <1>3 DEF StorePut, Goto, TInv, TypeOK
  <2>2. \A op, i : Owes(op, i) => Owes(op, i)'
    BY <2>1 DEF Owes
  <2>3. Owes("store", <<t, m>>)'
    BY <2>1 DEF Owes
  <2>. QED BY <2>1, <2>2, <2>3, <1>0 DEF OwedInv
<1>4. ASSUME NEW c \in Clients, NEW t \in Tenants, NEW x \in Known,
             ForgetDelete(c, t, x)
      PROVE  OwedInv'
  <2>1. rows' = rows \ {<<t, x>>}
    BY <1>4, ForgetsMemories
  <2>2. /\ pc[c] = "idle" /\ pc'[c] # "idle" /\ req'[c].op = "forget"
        /\ req'[c].tenant = t /\ req'[c].id = x /\ issued' = issued
        /\ \A d \in Clients : d # c => pc'[d] = pc[d] /\ req'[d] = req[d]
    BY <1>4 DEF ForgetDelete, DeleteRow, Goto, TInv, TypeOK
  <2>3. \A op, i : Owes(op, i) => Owes(op, i)'
    BY <2>2 DEF Owes
  <2>4. Owes("forget", <<t, x>>)'
    BY <2>2 DEF Owes
  <2>. QED BY <2>1, <2>2, <2>3, <2>4, <1>0 DEF OwedInv
<1>5. ASSUME NEW c \in Clients, ReadTip(c) PROVE OwedInv'
  <2>1. \A d \in Clients : (pc'[d] = "idle" <=> pc[d] = "idle") /\ req'[d] = req[d]
    BY <1>5 DEF ReadTip, Goto, TInv, TypeOK
  <2>. QED BY <1>1, <1>5, <2>1 DEF ReadTip, backendVars, Owes
<1>6. ASSUME NEW c \in Clients, NEW at \in 1 .. clock + 1, Stamp(c, at)
      PROVE  OwedInv'
  <2>1. \A d \in Clients : (pc'[d] = "idle" <=> pc[d] = "idle") /\ req'[d] = req[d]
    BY <1>6 DEF Stamp, Goto, TInv, TypeOK
  <2>. QED BY <1>1, <1>6, <2>1 DEF Stamp, backendVars, Owes
<1>7. ASSUME NEW c \in Clients, PutEvent(c) PROVE OwedInv'
  <2> DEFINE e == event[c]
  <2>1. /\ e \in log' /\ e.op = req[c].op /\ e.tenant = req[c].tenant /\ e.mem = req[c].id
        /\ rows' = rows /\ issued' = issued
        /\ \A d \in Clients : d # c => pc'[d] = pc[d] /\ req'[d] = req[d]
    BY <1>7 DEF PutEvent, Return, TInv, TypeOK, CallOK
  <2>2. \A op, i : Owes(op, i) => Owes(op, i)' \/ Logged(op, i[1], i[2])'
    BY <2>1 DEF Owes, Logged, Events
  <2>. QED BY <2>1, <2>2, <1>0 DEF OwedInv
<1>. QED
  BY <1>2, <1>3, <1>4, <1>5, <1>6, <1>7 DEF OuterStep, Abandon

\* When no backend call fails, no call is dropped and no process dies, every
\* change has its event once no call works on its memory (audit.rs:18).
THEOREM ChangesAreAudited ==
  ASSUME NoEventErasure, ~MayFail
  PROVE  Spec => []EveryChangeAudited
<1>1. Init => OwedInv
  BY DEF Init, OwedInv
<1>2. TInv /\ OwedInv /\ [Next]_vars => TInv' /\ OwedInv'
  BY TypeNext, OwedNext
<1>3. OwedInv => EveryChangeAudited
  BY DEF OwedInv, Owes, EveryChangeAudited, WorksOn
<1>. QED BY <1>1, <1>2, <1>3, TypeInit, PTL DEF Spec

-----------------------------------------------------------------------------
(* What a forgotten memory leaves in the vector and in the graph backend.   *)

\* One call at a time, nothing fails, and stores link to stored memories.
UndisturbedCalls ==
    ~MayFail /\ ~StaleLinks /\ \A c, d \in Clients : c = d

LEMMA TracesInit == Init => TracesInv
  BY DEF Init, TracesInv, InGraph, Forgetting, StoreSteps

LEMMA TracesNext ==
  UndisturbedCalls /\ TInv /\ TracesInv /\ [Next]_vars => TracesInv'
<1> SUFFICES ASSUME UndisturbedCalls, TInv, TracesInv, [Next]_vars
             PROVE  TracesInv'
  OBVIOUS
<1> USE DEF StoreSteps, ForgetSteps
<1>1. ASSUME NEW c \in Clients, NEW t \in Tenants, NEW m \in Memories,
             NEW embedded \in BOOLEAN, NEW links \in LinkChoices(t),
             StorePut(c, t, m, embedded, links)
      PROVE  TracesInv'
  <2>1. <<t, m>> \notin issued
    BY <1>1 DEF StorePut, IssuedIds
  <2>2. /\ rows' = rows \cup {<<t, m>>} /\ issued' = issued \cup {<<t, m>>}
        /\ UNCHANGED <<vectors, nodes, edges, proofs>>
    BY <1>1 DEF StorePut
  <2>3. /\ pc[c] = "idle" /\ pc'[c] \in StoreSteps
        /\ req'[c] = [op |-> "store", tenant |-> t, id |-> m, links |-> links]
        /\ \A d \in Clients : d = c
    BY <1>1 DEF StorePut, Goto, TInv, TypeOK, UndisturbedCalls
  <2>4. \A l \in links : <<t, l>> \in rows
    BY DEF LinkChoices, Linkable, UndisturbedCalls
  <2>5. \A i : InGraph(i)' = InGraph(i)
    BY <2>2 DEF InGraph
  <2>6. ~Forgetting(c)' /\ \A i : ~At(c, {"vector_delete"}, i) /\ ~At(c, ForgetSteps, i)
    BY <2>3 DEF Forgetting, At
  <2>. QED BY <2>1, <2>2, <2>3, <2>4, <2>5, <2>6 DEF TracesInv
<1>2. ASSUME NEW c \in Clients, NEW t \in Tenants, NEW x \in Known,
             ForgetDelete(c, t, x)
      PROVE  TracesInv'
  <2>1. /\ rows' = rows \ {<<t, x>>}
        /\ UNCHANGED <<vectors, nodes, edges, issued, proofs>>
    BY <1>2 DEF ForgetDelete, DeleteRow
  <2>2. /\ pc[c] = "idle" /\ pc'[c] = "vector_delete"
        /\ req'[c] = [op |-> "forget", tenant |-> t, id |-> x, links |-> {}]
        /\ \A d \in Clients : d = c
    BY <1>2 DEF ForgetDelete, DeleteRow, Goto, TInv, TypeOK, UndisturbedCalls
  <2>3. x \in Memories => <<t, x>> \in rows
    BY <1>2, MemoriesAssumption DEF ForgetDelete, HasRow, Events, Event, TInv, TypeOK
  <2>4. \A i : InGraph(i)' = InGraph(i)
    BY <2>1 DEF InGraph
  <2>5. \A i : ~At(c, {"vector_delete"}, i) /\ ~At(c, ForgetSteps, i)
    BY <2>2 DEF At
  <2>6. \A i \in Tenants \X Ids : i = <<t, x>> =>
           At(c, {"vector_delete"}, i)' /\ At(c, ForgetSteps, i)'
    BY <2>2 DEF At
  <2>7. vectors \subseteq Tenants \X Ids /\ Tenants \X Memories \subseteq Tenants \X Ids
    BY DEF TInv, TypeOK, Ids
  <2>8. \A i \in vectors' : i \in rows' \/ At(c, {"vector_delete"}, i)'
    BY <2>1, <2>2, <2>5, <2>6, <2>7 DEF TracesInv
  <2>9. \A i \in Tenants \X Memories : InGraph(i)' => i \in rows' \/ At(c, ForgetSteps, i)'
    BY <2>1, <2>2, <2>4, <2>5, <2>6, <2>7 DEF TracesInv
  <2>10. x \in Memories =>
            /\ <<t, x>> \in issued' \ rows'
            /\ \A p \in proofs' : ~(p.tenant = t /\ p.id = x)
    BY <2>1, <2>3 DEF TracesInv
  <2>11. /\ rows' \subseteq issued'
         /\ \A p \in proofs' : p.id \in Memories => <<p.tenant, p.id>> \in issued' \ rows'
    BY <2>1 DEF TracesInv
  <2>. QED BY <2>2, <2>8, <2>9, <2>10, <2>11 DEF TracesInv
<1>3. ASSUME NEW c \in Clients, VectorUpsert(c) PROVE TracesInv'
  <2>1. /\ UNCHANGED <<rows, nodes, edges, issued, proofs, req>>
        /\ vectors' = vectors \cup {<<req[c].tenant, req[c].id>>}
        /\ pc[c] = "upsert" /\ pc'[c] = "add_node"
        /\ \A d \in Clients : d = c
    BY <1>3 DEF VectorUpsert, Goto, TInv, TypeOK, UndisturbedCalls
  <2>2. <<req[c].tenant, req[c].id>> \in rows
    BY <2>1 DEF TracesInv
  <2>3. \A i : InGraph(i)' = InGraph(i)
    BY <2>1 DEF InGraph
  <2>4. \A i : ~At(c, {"vector_delete"}, i) /\ ~At(c, ForgetSteps, i)
    BY <2>1 DEF At
  <2>. QED
    BY <2>1, <2>2, <2>3, <2>4 DEF TracesInv, Forgetting
<1>4. ASSUME NEW c \in Clients, AddNode(c) PROVE TracesInv'
  <2>1. /\ UNCHANGED <<rows, vectors, edges, issued, proofs, req>>
        /\ nodes' = nodes \cup {<<req[c].tenant, req[c].id>>}
        /\ pc[c] = "add_node" /\ pc'[c] \in {"read_tip", "add_edge"}
        /\ \A d \in Clients : d = c
    BY <1>4 DEF AddNode, AfterNode, Goto, TInv, TypeOK, UndisturbedCalls
  <2>2. <<req[c].tenant, req[c].id>> \in rows
    BY <2>1 DEF TracesInv
  <2>3. \A i : InGraph(i)' => InGraph(i) \/ i = <<req[c].tenant, req[c].id>>
    BY <2>1 DEF InGraph
  <2>4. \A i : ~At(c, {"vector_delete"}, i) /\ ~At(c, ForgetSteps, i)
    BY <2>1 DEF At
  <2>. QED
    BY <2>1, <2>2, <2>3, <2>4 DEF TracesInv, Forgetting
<1>5. ASSUME NEW c \in Clients, NEW l \in Memories, AddEdge(c, l) PROVE TracesInv'
  <2> DEFINE t == req[c].tenant
             x == req[c].id
  <2>1. /\ UNCHANGED <<rows, vectors, issued, proofs>>
        /\ edges' = edges \cup {<<t, x, l>>}
        /\ nodes' = nodes \cup {<<t, x>>, <<t, l>>}
        /\ pc[c] = "add_edge" /\ pc'[c] \in {"read_tip", "add_edge"}
        /\ l \in req[c].links
        /\ \A d \in Clients : d = c
    BY <1>5 DEF AddEdge, AfterNode, Goto, TInv, TypeOK, UndisturbedCalls
  <2>2. <<t, x>> \in rows /\ \A k \in req[c].links : <<t, k>> \in rows
    BY <2>1 DEF TracesInv
  <2>3. /\ req'[c].op = "store" /\ req'[c].tenant = t /\ req'[c].id = x
        /\ req'[c].links \subseteq req[c].links
    BY <1>5 DEF AddEdge, Request, TInv, TypeOK, CallOK, Goto
  <2>4. \A i \in Tenants \X Memories :
           InGraph(i)' => InGraph(i) \/ i = <<t, x>> \/ i = <<t, l>>
    BY <2>1 DEF InGraph
  <2>5. \A i : ~At(c, {"vector_delete"}, i) /\ ~At(c, ForgetSteps, i)
    BY <2>1 DEF At
  <2>. HIDE DEF t, x
  <2>6. \A i \in Tenants \X Memories : InGraph(i)' => i \in rows'
    BY <2>1, <2>2, <2>4, <2>5 DEF TracesInv
  <2>7. vectors' \subseteq rows'
    BY <2>1, <2>5 DEF TracesInv
  <2>. QED
    BY <2>1, <2>2, <2>3, <2>6, <2>7 DEF TracesInv, Forgetting
<1>6. ASSUME NEW c \in Clients, VectorDelete(c) PROVE TracesInv'
  <2>1. /\ UNCHANGED <<rows, nodes, edges, issued, proofs, req>>
        /\ vectors' = vectors \ {<<req[c].tenant, req[c].id>>}
        /\ pc[c] = "vector_delete" /\ pc'[c] = "remove_node"
        /\ \A d \in Clients : d = c
    BY <1>6 DEF VectorDelete, Goto, TInv, TypeOK, UndisturbedCalls
  <2>2. \A i : InGraph(i)' = InGraph(i) /\ (At(c, ForgetSteps, i) => At(c, ForgetSteps, i)')
    BY <2>1 DEF InGraph, At
  <2>3. \A i \in vectors' : ~At(c, {"vector_delete"}, i)
    BY <2>1 DEF At, TInv, TypeOK
  <2>. QED
    BY <2>1, <2>2, <2>3 DEF TracesInv, Forgetting
<1>7. ASSUME NEW c \in Clients, RemoveNode(c) PROVE TracesInv'
  <2> DEFINE t == req[c].tenant
             x == req[c].id
  <2>1. /\ UNCHANGED <<rows, vectors, issued, proofs, req>>
        /\ nodes' = nodes \ {<<t, x>>}
        /\ edges' = {g \in edges : g[1] # t \/ (g[2] # x /\ g[3] # x)}
        /\ pc[c] = "remove_node" /\ pc'[c] = "read_tip"
        /\ \A d \in Clients : d = c
    BY <1>7 DEF RemoveNode, Goto, TInv, TypeOK, UndisturbedCalls
  <2>2. \A i \in Tenants \X Memories : InGraph(i)' => InGraph(i) /\ ~At(c, ForgetSteps, i)
    BY <2>1 DEF InGraph, At
  <2>3. \A i : ~At(c, {"vector_delete"}, i)
    BY <2>1 DEF At
  <2>. QED
    BY <2>1, <2>2, <2>3 DEF TracesInv, Forgetting
<1>8. ASSUME NEW c \in Clients,
             \/ ReadTip(c)
             \/ \E at \in 1 .. clock + 1 : Stamp(c, at)
      PROVE  TracesInv'
  <2>1. /\ UNCHANGED <<rows, vectors, nodes, edges, issued, proofs, req>>
        /\ pc[c] \in {"read_tip", "stamp"} /\ pc'[c] \in {"stamp", "put_event"}
        /\ \A d \in Clients : d = c
    BY <1>8 DEF ReadTip, Stamp, backendVars, Goto, TInv, TypeOK, UndisturbedCalls
  <2>2. \A i : InGraph(i)' = InGraph(i) /\ ~At(c, {"vector_delete"}, i) /\ ~At(c, ForgetSteps, i)
    BY <2>1 DEF InGraph, At
  <2>. QED
    BY <2>1, <2>2 DEF TracesInv, Forgetting
<1>9. ASSUME NEW c \in Clients, PutEvent(c) PROVE TracesInv'
  <2> DEFINE e == event[c]
             p == [tenant |-> e.tenant, id |-> e.mem, event |-> e.id]
  <2>1. /\ UNCHANGED <<rows, vectors, nodes, edges, issued>>
        /\ pc[c] = "put_event" /\ \A d \in Clients : pc'[d] = "idle"
        /\ \A d \in Clients : d = c
        /\ e.op = req[c].op /\ e.tenant = req[c].tenant /\ e.mem = req[c].id
    BY <1>9 DEF PutEvent, Return, TInv, TypeOK, CallOK, UndisturbedCalls
  <2>2. \A i : InGraph(i)' = InGraph(i) /\ ~At(c, {"vector_delete"}, i) /\ ~At(c, ForgetSteps, i)
    BY <2>1 DEF InGraph, At
  <2>3. proofs' = proofs \/ (e.op = "forget" /\ proofs' = proofs \cup {p})
    BY <1>9 DEF PutEvent, UndisturbedCalls
  <2>4. e.op = "forget" /\ e.mem \in Memories => <<e.tenant, e.mem>> \in issued \ rows
    BY <2>1 DEF TracesInv, Forgetting
  <2>5. p.id = e.mem /\ p.tenant = e.tenant
    OBVIOUS
  <2>6. \A q \in proofs' : q.id \in Memories => <<q.tenant, q.id>> \in issued' \ rows'
    <3>. HIDE DEF e, p
    <3>. QED BY <2>1, <2>3, <2>4, <2>5 DEF TracesInv
  <2>. QED
    BY <2>1, <2>2, <2>6 DEF TracesInv, Forgetting
<1>10. CASE UNCHANGED vars
  BY <1>10 DEF vars, TracesInv, InGraph, Forgetting, At
<1>. QED
  BY <1>1, <1>2, <1>3, <1>4, <1>5, <1>6, <1>7, <1>8, <1>9, <1>10
  DEF Next, Begin, Step, ForgetNothing, Abandon, UndisturbedCalls

LEMMA TracesAlways ==
  ASSUME UndisturbedCalls
  PROVE  Spec => [](TInv /\ TracesInv)
<1>1. TInv /\ TracesInv /\ [Next]_vars => TInv' /\ TracesInv'
  BY TypeNext, TracesNext
<1>. QED BY <1>1, TypeInit, TracesInit, PTL DEF Spec

\* forget "removes a memory from every backend it may live in" (engine.rs):
\* as long as calls do not overlap, no backend call fails and no store links
\* to a memory that is gone, a caller who holds a proof of a memory will never
\* find a vector, a node or an edge of it again.
THEOREM ForgetLeavesNothing ==
  ASSUME UndisturbedCalls
  PROVE  Spec => []ForgottenEverywhere
<1>1. TInv /\ TracesInv => ForgottenEverywhere
  <2> SUFFICES ASSUME TInv, TracesInv, NEW p \in proofs
               PROVE  /\ <<p.tenant, p.id>> \notin vectors
                      /\ <<p.tenant, p.id>> \notin nodes
                      /\ \A g \in edges : g[1] = p.tenant => g[2] # p.id /\ g[3] # p.id
    BY DEF ForgottenEverywhere
  <2> DEFINE i == <<p.tenant, p.id>>
  <2>1. p.tenant \in Tenants
    BY DEF TInv, TypeOK
  <2>2. CASE p.id \in Memories
    <3>1. i \notin rows
      BY <2>2 DEF TracesInv
    <3>2. \A c \in Clients : pc[c] \in ForgetSteps => Forgetting(c)
      BY DEF Forgetting, ForgetSteps, TInv, CallOK
    <3>3. \A c \in Clients : pc[c] \in ForgetSteps =>
             ~(req[c].tenant = p.tenant /\ req[c].id = p.id)
      BY <2>2, <3>2 DEF TracesInv
    <3>4. \A c \in Clients : ~At(c, ForgetSteps, i) /\ ~At(c, {"vector_delete"}, i)
      BY <3>3 DEF At, ForgetSteps
    <3>5. ~InGraph(i) /\ i \notin vectors
      BY <2>1, <2>2, <3>1, <3>4 DEF TracesInv
    <3>. QED BY <3>5 DEF InGraph
  <2>3. CASE p.id \notin Memories
    BY <2>3 DEF TInv, TypeOK
  <2>. QED BY <2>2, <2>3
<1>. QED BY <1>1, TracesAlways, PTL
=============================================================================
