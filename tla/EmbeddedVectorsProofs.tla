------------------------- MODULE EmbeddedVectorsProofs -------------------------
(***************************************************************************)
(* The embedded vectors, for every number of processes, threads and        *)
(* memories.  What table, caches and calls know of each other rests on one *)
(* fact: a memory is stored once, so its vector is written by one thread,  *)
(* and whoever finds it in a table or cache finds it after that write.     *)
(***************************************************************************)
EXTENDS EmbeddedVectors, TLAPS

Storing(t)  == todo[t] \in {"upsert", "cache"}
Removing(t) == todo[t] \in {"uncache", "unindex"}

\* What was ever stored bounds everything, and what is dead stays dead.
StoredInv ==
    /\ rows \subseteq stored /\ vtable \subseteq stored
    /\ \A p \in Procs : vcache[p] \subseteq stored
    /\ acked \subseteq stored /\ purged \subseteq stored
    /\ \A t \in Workers : dead[t] \cap rows = {} /\ dead[t] \subseteq stored
    /\ ghost = FALSE

\* A call is about a stored memory, in an open process; two stores are about
\* two memories; what is being removed has no row.
CallInv ==
    /\ \A t \in Workers :
          /\ Storing(t) \/ Removing(t) => mem[t] \in stored
          /\ Removing(t) => mem[t] \notin rows
          /\ Home[t] \notin open => todo[t] = "idle"
    /\ \A t, u \in Workers :
          t # u /\ Storing(t) /\ Storing(u) => mem[t] # mem[u]

\* Before its one write a vector is nowhere; after it, it is in the table
\* unless it was removed.
WriteInv ==
    /\ \A t \in Workers : todo[t] = "upsert" =>
          /\ mem[t] \notin vtable /\ mem[t] \notin purged
          /\ \A p \in Procs : mem[t] \notin vcache[p]
          /\ \A u \in Workers : todo[u] = "unindex" => mem[u] # mem[t]
    /\ \A t \in Workers : todo[t] = "cache" =>
          /\ alone[Home[t]] \/ mem[t] \in rows => mem[t] \in vtable
          /\ mem[t] \notin vcache[Home[t]]
          /\ \A u \in Workers : Home[u] = Home[t] /\ todo[u] = "unindex" => mem[u] # mem[t]
    /\ \A t \in Workers : todo[t] = "unindex" => mem[t] \notin vcache[Home[t]]

\* A cache differs from the table by the calls in flight in its process, unless
\* another process changed the table or a delete failed.
CacheInv ==
    \A p \in open : alone[p] =>
        /\ vcache[p] \subseteq vtable
        /\ sound[p] => \A m \in vtable \ vcache[p] : \E t \in Workers :
              Home[t] = p /\ todo[t] \in {"cache", "unindex"} /\ mem[t] = m

VectorsInv ==
    VectorsTypeOK /\ StoredInv /\ CallInv /\ WriteInv /\ CacheInv /\ VectorsDurable

LEMMA InvInit == VectorsInit => VectorsInv
BY HomeAssumption, IdleAssumption
   DEF VectorsInit, VectorsInv, VectorsTypeOK, StoredInv, CallInv, WriteInv, CacheInv,
       VectorsDurable, Storing, Removing

LEMMA InvStep == VectorsInv /\ [VectorsNext]_vectorVars => VectorsInv'
<1> SUFFICES ASSUME VectorsInv, [VectorsNext]_vectorVars PROVE VectorsInv'
  OBVIOUS
<1> USE HomeAssumption, IdleAssumption
<1>0. /\ VectorsTypeOK /\ StoredInv /\ CallInv /\ WriteInv /\ CacheInv /\ VectorsDurable
      /\ \A t \in Workers : Home[t] \in Procs
  BY DEF VectorsInv
<1>1. CASE UNCHANGED vectorVars
  BY <1>1, <1>0 DEF vectorVars, history, VectorsInv, VectorsTypeOK, StoredInv, CallInv,
     WriteInv, CacheInv, VectorsDurable, Storing, Removing
<1>2. ASSUME NEW p \in Procs, OpenFile(p) PROVE VectorsInv'
  <2>1. VectorsTypeOK' BY <1>2, <1>0 DEF OpenFile, VectorsTypeOK
  <2>2. StoredInv' BY <1>2, <1>0 DEF OpenFile, VectorsTypeOK, StoredInv
  <2>3. CallInv' BY <1>2, <1>0 DEF OpenFile, VectorsTypeOK, CallInv, Storing, Removing
  <2>4. WriteInv' BY <1>2, <1>0 DEF OpenFile, VectorsTypeOK, WriteInv, CallInv
  <2>5. CacheInv' BY <1>2, <1>0 DEF OpenFile, VectorsTypeOK, CacheInv
  <2>6. VectorsDurable' BY <1>2, <1>0 DEF OpenFile, VectorsDurable
  <2> QED BY <2>1, <2>2, <2>3, <2>4, <2>5, <2>6 DEF VectorsInv
<1>3. ASSUME NEW p \in Procs, ExitProcess(p) PROVE VectorsInv'
  <2> USE DEF ExitProcess, history
  <2>1. VectorsTypeOK' BY <1>3, <1>0 DEF VectorsTypeOK
  <2>2. StoredInv' BY <1>3, <1>0 DEF VectorsTypeOK, StoredInv
  <2>3. CallInv' BY <1>3, <1>0 DEF VectorsTypeOK, CallInv, Storing, Removing
  <2>4. WriteInv' BY <1>3, <1>0 DEF VectorsTypeOK, WriteInv
  <2>5. CacheInv' BY <1>3, <1>0 DEF VectorsTypeOK, CacheInv
  <2>6. VectorsDurable' BY <1>3, <1>0 DEF VectorsDurable
  <2> QED BY <2>1, <2>2, <2>3, <2>4, <2>5, <2>6 DEF VectorsInv
<1>4. ASSUME NEW t \in Workers, UpsertRow(t) PROVE VectorsInv'
  <2> USE DEF UpsertRow, To, TableChanged
  <2>1. VectorsTypeOK' BY <1>4, <1>0 DEF VectorsTypeOK, CallInv, StoredInv, Storing
  <2>2. StoredInv' BY <1>4, <1>0 DEF VectorsTypeOK, StoredInv, CallInv, Storing
  <2>3. CallInv' BY <1>4, <1>0 DEF VectorsTypeOK, CallInv, Storing, Removing
  <2>4. WriteInv' BY <1>4, <1>0 DEF VectorsTypeOK, WriteInv, CallInv, Storing
  <2>5. CacheInv'
    <3> SUFFICES ASSUME NEW p \in open, alone'[p]
                 PROVE  /\ vcache[p] \subseteq vtable'
                        /\ sound[p] => \A m \in vtable' \ vcache[p] : \E u \in Workers :
                              Home[u] = p /\ todo'[u] \in {"cache", "unindex"} /\ mem[u] = m
      BY <1>4, <1>0 DEF CacheInv
    <3>1. p = Home[t] /\ alone[p] /\ p \in Procs
      BY <1>4, <1>0 DEF VectorsTypeOK
    <3>2. todo'[t] = "cache" /\ \A u \in Workers : todo[u] \in {"cache", "unindex"} => todo'[u] = todo[u]
      BY <1>4, <1>0 DEF VectorsTypeOK
    <3>3. vtable' = vtable \cup {mem[t]}
      BY <1>4
    <3> QED BY <3>1, <3>2, <3>3, <1>0 DEF CacheInv
  <2>6. VectorsDurable' BY <1>4, <1>0 DEF VectorsDurable, WriteInv
  <2> QED BY <2>1, <2>2, <2>3, <2>4, <2>5, <2>6 DEF VectorsInv
<1>5. ASSUME NEW t \in Workers, UpsertFails(t) PROVE VectorsInv'
  <2> USE DEF UpsertFails, To, history
  <2>1. VectorsTypeOK' BY <1>5, <1>0 DEF VectorsTypeOK
  <2>2. StoredInv' BY <1>5, <1>0 DEF VectorsTypeOK, StoredInv
  <2>3. CallInv' BY <1>5, <1>0 DEF VectorsTypeOK, CallInv, Storing, Removing
  <2>4. WriteInv' BY <1>5, <1>0 DEF VectorsTypeOK, WriteInv
  <2>5. CacheInv' BY <1>5, <1>0 DEF VectorsTypeOK, CacheInv
  <2>6. VectorsDurable' BY <1>5, <1>0 DEF VectorsDurable
  <2> QED BY <2>1, <2>2, <2>3, <2>4, <2>5, <2>6 DEF VectorsInv
<1>6. ASSUME NEW t \in Workers, UpsertCache(t) PROVE VectorsInv'
  <2> USE DEF UpsertCache, To
  <2>0. mem[t] \in stored /\ mem[t] \in Embeddables
    BY <1>6, <1>0 DEF CallInv, Storing, VectorsTypeOK
  <2>1. VectorsTypeOK' BY <1>6, <1>0, <2>0 DEF VectorsTypeOK
  <2>2. StoredInv' BY <1>6, <1>0, <2>0 DEF VectorsTypeOK, StoredInv
  <2>3. CallInv' BY <1>6, <1>0 DEF VectorsTypeOK, CallInv, Storing, Removing
  <2>4. WriteInv' BY <1>6, <1>0 DEF VectorsTypeOK, WriteInv, CallInv, Storing
  <2>5. CacheInv' BY <1>6, <1>0 DEF VectorsTypeOK, CacheInv, WriteInv
  <2>6. VectorsDurable' BY <1>6, <1>0 DEF VectorsDurable, WriteInv
  <2> QED BY <2>1, <2>2, <2>3, <2>4, <2>5, <2>6 DEF VectorsInv
<1>7. ASSUME NEW t \in Workers, Uncache(t) PROVE VectorsInv'
  <2> USE DEF Uncache, To, history
  <2>1. VectorsTypeOK' BY <1>7, <1>0 DEF VectorsTypeOK
  <2>2. StoredInv' BY <1>7, <1>0 DEF VectorsTypeOK, StoredInv
  <2>3. CallInv' BY <1>7, <1>0 DEF VectorsTypeOK, CallInv, Storing, Removing
  <2>4. WriteInv' BY <1>7, <1>0 DEF VectorsTypeOK, WriteInv
  <2>5. CacheInv' BY <1>7, <1>0 DEF VectorsTypeOK, CacheInv
  <2>6. VectorsDurable' BY <1>7, <1>0 DEF VectorsDurable
  <2> QED BY <2>1, <2>2, <2>3, <2>4, <2>5, <2>6 DEF VectorsInv
<1>8. ASSUME NEW t \in Workers, UnindexRow(t) PROVE VectorsInv'
  <2> USE DEF UnindexRow, To, TableChanged
  <2>0. mem[t] \in stored /\ mem[t] \in Embeddables /\ mem[t] \notin rows
    BY <1>8, <1>0 DEF CallInv, Removing, VectorsTypeOK
  <2>1. VectorsTypeOK' BY <1>8, <1>0, <2>0 DEF VectorsTypeOK
  <2>2. StoredInv' BY <1>8, <1>0, <2>0 DEF VectorsTypeOK, StoredInv
  <2>3. CallInv' BY <1>8, <1>0 DEF VectorsTypeOK, CallInv, Storing, Removing
  <2>4. WriteInv' BY <1>8, <1>0, <2>0 DEF VectorsTypeOK, WriteInv
  <2>5. CacheInv'
    <3> SUFFICES ASSUME NEW p \in open, alone'[p]
                 PROVE  /\ vcache[p] \subseteq vtable'
                        /\ sound[p] => \A m \in vtable' \ vcache[p] : \E u \in Workers :
                              Home[u] = p /\ todo'[u] \in {"cache", "unindex"} /\ mem'[u] = m
      BY <1>8, <1>0 DEF CacheInv
    <3>1. p = Home[t] /\ alone[p] /\ p \in Procs
      BY <1>8, <1>0 DEF VectorsTypeOK
    <3>2. \A u \in Workers : mem[u] # mem[t] => todo'[u] = todo[u] /\ mem'[u] = mem[u]
      BY <1>8, <1>0 DEF VectorsTypeOK
    <3>3. vtable' = vtable \ {mem[t]} /\ mem[t] \notin vcache[p]
      BY <1>8, <3>1, <1>0 DEF WriteInv
    <3> QED BY <3>1, <3>2, <3>3, <1>0 DEF CacheInv
  <2>6. VectorsDurable' BY <1>8, <1>0, <2>0 DEF VectorsDurable
  <2> QED BY <2>1, <2>2, <2>3, <2>4, <2>5, <2>6 DEF VectorsInv
<1>9. ASSUME NEW t \in Workers, UnindexFails(t) PROVE VectorsInv'
  <2> USE DEF UnindexFails, To
  <2>1. VectorsTypeOK' BY <1>9, <1>0 DEF VectorsTypeOK
  <2>2. StoredInv' BY <1>9, <1>0 DEF VectorsTypeOK, StoredInv
  <2>3. CallInv' BY <1>9, <1>0 DEF VectorsTypeOK, CallInv, Storing, Removing
  <2>4. WriteInv' BY <1>9, <1>0 DEF VectorsTypeOK, WriteInv
  <2>5. CacheInv' BY <1>9, <1>0 DEF VectorsTypeOK, CacheInv
  <2>6. VectorsDurable' BY <1>9, <1>0 DEF VectorsDurable
  <2> QED BY <2>1, <2>2, <2>3, <2>4, <2>5, <2>6 DEF VectorsInv
<1>10. ASSUME NEW t \in Workers, NEW found \in SUBSET Embeddables, SearchIndex(t, found)
       PROVE  VectorsInv'
  <2> USE DEF SearchIndex, Ready, To, history
  <2>1. VectorsTypeOK' BY <1>10, <1>0 DEF VectorsTypeOK
  <2>2. StoredInv' BY <1>10, <1>0 DEF VectorsTypeOK, StoredInv
  <2>3. CallInv' BY <1>10, <1>0 DEF VectorsTypeOK, CallInv, Storing, Removing
  <2>4. WriteInv' BY <1>10, <1>0 DEF VectorsTypeOK, WriteInv
  <2>5. CacheInv' BY <1>10, <1>0 DEF VectorsTypeOK, CacheInv
  <2>6. VectorsDurable' BY <1>10, <1>0 DEF VectorsDurable
  <2> QED BY <2>1, <2>2, <2>3, <2>4, <2>5, <2>6 DEF VectorsInv
<1>11. ASSUME NEW t \in Workers, LookupRows(t) PROVE VectorsInv'
  <2> USE DEF LookupRows, To
  <2>0. ghost' = FALSE BY <1>11, <1>0 DEF StoredInv, Answer
  <2>1. VectorsTypeOK' BY <1>11, <1>0, <2>0 DEF VectorsTypeOK
  <2>2. StoredInv' BY <1>11, <1>0, <2>0 DEF VectorsTypeOK, StoredInv
  <2>3. CallInv' BY <1>11, <1>0 DEF VectorsTypeOK, CallInv, Storing, Removing
  <2>4. WriteInv' BY <1>11, <1>0 DEF VectorsTypeOK, WriteInv
  <2>5. CacheInv' BY <1>11, <1>0 DEF VectorsTypeOK, CacheInv
  <2>6. VectorsDurable' BY <1>11, <1>0 DEF VectorsDurable
  <2> QED BY <2>1, <2>2, <2>3, <2>4, <2>5, <2>6 DEF VectorsInv
<1>12. ASSUME NEW t \in Workers, NEW m \in Embeddables, NEW embedded \in BOOLEAN,
              StoreRow(t, m, embedded)
       PROVE  VectorsInv'
  <2> USE DEF StoreRow, Ready, history
  <2>1. VectorsTypeOK' BY <1>12, <1>0 DEF VectorsTypeOK
  <2>2. StoredInv' BY <1>12, <1>0 DEF VectorsTypeOK, StoredInv
  <2>3. CallInv' BY <1>12, <1>0 DEF VectorsTypeOK, CallInv, StoredInv, Storing, Removing
  <2>4. WriteInv'
    BY <1>12, <1>0 DEF VectorsTypeOK, WriteInv, CallInv, StoredInv, Storing, Removing
  <2>5. CacheInv' BY <1>12, <1>0 DEF VectorsTypeOK, CacheInv
  <2>6. VectorsDurable'
    <3>1. m \notin acked
      BY <1>12, <1>0 DEF StoredInv
    <3> QED BY <3>1, <1>12, <1>0 DEF VectorsDurable
  <2> QED BY <2>1, <2>2, <2>3, <2>4, <2>5, <2>6 DEF VectorsInv
<1>13. ASSUME NEW t \in Workers, NEW m \in Embeddables, ForgetRow(t, m) PROVE VectorsInv'
  <2> USE DEF ForgetRow, Ready, history
  <2>1. VectorsTypeOK' BY <1>13, <1>0 DEF VectorsTypeOK
  <2>2. StoredInv' BY <1>13, <1>0 DEF VectorsTypeOK, StoredInv
  <2>3. CallInv' BY <1>13, <1>0 DEF VectorsTypeOK, CallInv, StoredInv, Storing, Removing
  <2>4. WriteInv' BY <1>13, <1>0 DEF VectorsTypeOK, WriteInv
  <2>5. CacheInv' BY <1>13, <1>0 DEF VectorsTypeOK, CacheInv
  <2>6. VectorsDurable' BY <1>13, <1>0 DEF VectorsDurable
  <2> QED BY <2>1, <2>2, <2>3, <2>4, <2>5, <2>6 DEF VectorsInv
<1> QED
  BY <1>1, <1>2, <1>3, <1>4, <1>5, <1>6, <1>7, <1>8, <1>9, <1>10, <1>11, <1>12, <1>13
  DEF VectorsNext

LEMMA Inductive == VectorsSpec => []VectorsInv
BY InvInit, InvStep, PTL DEF VectorsSpec

\* The state has its type.
THEOREM VectorsTypeCorrect == VectorsSpec => []VectorsTypeOK
BY Inductive, PTL DEF VectorsInv

\* What an upsert acknowledged is in the file while the memory is, and what a
\* delete went through with is out of it for good.
THEOREM VectorsAreDurable == VectorsSpec => []VectorsDurable
BY Inductive, PTL DEF VectorsInv

\* In a process at rest that has the file to itself and whose deletes all went
\* through, the cache is what load_all would load.
THEOREM CachesMatchTheFile == VectorsSpec => []CacheMatchesFile
<1>1. VectorsInv => CacheMatchesFile
  <2> SUFFICES ASSUME VectorsInv, NEW p \in open, alone[p], sound[p],
                      \A t \in Workers : Home[t] = p => todo[t] \in {"idle", "lookup"}
               PROVE  vcache[p] = vtable
    BY DEF CacheMatchesFile
  <2>1. vcache[p] \subseteq vtable
    BY DEF VectorsInv, CacheInv
  <2>2. \A m \in vtable : m \in vcache[p]
    BY DEF VectorsInv, CacheInv
  <2> QED BY <2>1, <2>2
<1> QED BY <1>1, Inductive, PTL

\* A recall answers nothing that was forgotten before it began, in whichever
\* process: the lookup of the rows in recall (engine.rs).
THEOREM ForgottenIsNotAnswered == VectorsSpec => []ForgottenNotAnswered
<1>1. VectorsInv => ForgottenNotAnswered
  BY DEF VectorsInv, StoredInv, ForgottenNotAnswered
<1> QED BY <1>1, Inductive, PTL
=============================================================================
