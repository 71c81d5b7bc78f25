-------------------------- MODULE EngineReadsProofs --------------------------
(***************************************************************************)
(* Proofs about recall, for any number of writers and readers and any k,   *)
(* with or without failures.                                               *)
(***************************************************************************)
EXTENDS EngineReads, MemoryEngineProofs, FiniteSetTheorems

-----------------------------------------------------------------------------
(* An id enters the vector backend after its row, and a row never returns. *)

IndexedInv ==
    /\ vectors \subseteq issued
    /\ \A c \in Clients :
          pc[c] = "upsert" => <<req[c].tenant, req[c].id>> \in issued

LEMMA IndexedInit == Init => IndexedInv
BY DEF Init, IndexedInv

RowsFade == \A i \in issued : i \in rows' => i \in rows

LEMMA IndexedNext ==
    TInv /\ IndexedInv /\ [Next]_vars
        => IndexedInv' /\ RowsFade /\ issued \subseteq issued'
<1>. DEFINE Goal == IndexedInv' /\ RowsFade /\ issued \subseteq issued'
<1>. SUFFICES ASSUME TInv, IndexedInv, [Next]_vars PROVE Goal
  OBVIOUS
<1>1. ASSUME NEW c \in Clients, NEW t \in Tenants, NEW m \in Memories,
             NEW embedded \in BOOLEAN, NEW links \in LinkChoices(t),
             StorePut(c, t, m, embedded, links)
      PROVE  Goal
  <2>1. <<t, m>> \notin issued
    BY <1>1 DEF StorePut, IssuedIds
  <2>2. RowsFade /\ issued' = issued \cup {<<t, m>>} /\ vectors' = vectors
    BY <1>1, <2>1 DEF StorePut, RowsFade
  <2>3. /\ req'[c].tenant = t /\ req'[c].id = m
        /\ \A d \in Clients \ {c} : pc'[d] = pc[d] /\ req'[d] = req[d]
    BY <1>1 DEF StorePut, Goto, TInv, TypeOK
  <2>. QED BY <2>2, <2>3 DEF IndexedInv
<1>2. ASSUME NEW c \in Clients, VectorUpsert(c) PROVE Goal
  BY <1>2 DEF VectorUpsert, Goto, IndexedInv, RowsFade, TInv, TypeOK
<1>3. ASSUME NEW c \in Clients, AddNode(c) PROVE Goal
  BY <1>3 DEF AddNode, AfterNode, Goto, IndexedInv, RowsFade, TInv, TypeOK
<1>4. ASSUME NEW c \in Clients, NEW l \in Memories, AddEdge(c, l) PROVE Goal
  <2>1. \A d \in Clients : pc'[d] = "upsert" => d # c /\ pc[d] = "upsert"
    BY <1>4 DEF AddEdge, AfterNode, Goto, TInv, TypeOK
  <2>2. \A d \in Clients : d # c => req'[d] = req[d]
    BY <1>4 DEF AddEdge, TInv, TypeOK
  <2>. QED BY <1>4, <2>1, <2>2 DEF AddEdge, IndexedInv, RowsFade
<1>5. ASSUME NEW c \in Clients, NEW t \in Tenants, NEW x \in Known,
             ForgetDelete(c, t, x)
      PROVE  Goal
  BY <1>5 DEF ForgetDelete, DeleteRow, Goto, IndexedInv, RowsFade, TInv, TypeOK
<1>6. ASSUME NEW c \in Clients,
             VectorDelete(c) \/ RemoveNode(c) \/ ReadTip(c) \/ Abandon(c)
      PROVE  Goal
  BY <1>6 DEF VectorDelete, RemoveNode, ReadTip, Abandon, Return, Goto,
     backendVars, IndexedInv, RowsFade, TInv, TypeOK
<1>7. ASSUME NEW c \in Clients, NEW at \in 1 .. clock + 1, Stamp(c, at) PROVE Goal
  BY <1>7 DEF Stamp, Goto, backendVars, IndexedInv, RowsFade, TInv, TypeOK
<1>8. ASSUME NEW c \in Clients, PutEvent(c) PROVE Goal
  BY <1>8 DEF PutEvent, Return, IndexedInv, RowsFade, TInv, TypeOK
<1>9. CASE UNCHANGED vars
  BY <1>9 DEF vars, IndexedInv, RowsFade
<1>. HIDE DEF Goal
<1>. QED
  BY <1>1, <1>2, <1>3, <1>4, <1>5, <1>6, <1>7, <1>8, <1>9
  DEF Next, Begin, Step, ForgetNothing

-----------------------------------------------------------------------------
(* What a recall has still to look up was issued before its search, and is *)
(* stored only if it was stored then.                                      *)

HitsInv ==
    \A r \in Readers :
        /\ found[r] \subseteq liveBefore[r]
        /\ \A m \in hits[r] :
              /\ <<asked[r], m>> \in issued
              /\ <<asked[r], m>> \in rows => m \in liveBefore[r]

ReadsInv == TInv /\ IndexedInv /\ ReadsTypeOK /\ HitsInv

LEMMA ReadsInitially == ReadsInit => ReadsInv
<1>. SUFFICES ASSUME ReadsInit PROVE ReadsInv
  OBVIOUS
<1>1. TInv /\ IndexedInv
  BY TypeInit, IndexedInit DEF ReadsInit
<1>2. ReadsTypeOK /\ HitsInv
  BY KAssumption DEF ReadsInit, ReadsTypeOK, HitsInv
<1>. QED BY <1>1, <1>2 DEF ReadsInv

LEMMA AtMostK == ASSUME NEW n \in Nat PROVE AtMost(n) \in 0 .. K
BY KAssumption DEF AtMost

LEMMA SearchStep ==
    ASSUME ReadsInv, NEW r \in Readers, NEW t \in Tenants,
           NEW top \in SUBSET Indexed(t), Search(r, t, top), UNCHANGED vars
    PROVE  HitsInv'
<1>1. \A m \in top : <<t, m>> \in issued /\ m \in Memories
  BY DEF Indexed, IndexedInv, ReadsInv, TInv, TypeOK
<1>2. /\ hits'[r] = top /\ asked'[r] = t /\ found'[r] = {}
      /\ liveBefore'[r] = {m \in Memories : <<t, m>> \in rows}
  BY DEF Search, ReadsInv, ReadsTypeOK
<1>3. \A q \in Readers \ {r} :
         /\ hits'[q] = hits[q] /\ asked'[q] = asked[q] /\ found'[q] = found[q]
         /\ liveBefore'[q] = liveBefore[q]
  BY DEF Search, ReadsInv, ReadsTypeOK
<1>. QED BY <1>1, <1>2, <1>3 DEF HitsInv, ReadsInv, vars

LEMMA GetHitStep ==
    ASSUME ReadsInv, NEW r \in Readers, NEW m \in Memories, GetHit(r, m),
           UNCHANGED vars
    PROVE  HitsInv'
BY DEF GetHit, HitsInv, ReadsInv, ReadsTypeOK, vars

LEMMA FinishStep ==
    ASSUME ReadsInv, NEW r \in Readers, Finish(r), UNCHANGED vars
    PROVE  HitsInv'
BY DEF Finish, HitsInv, ReadsInv, ReadsTypeOK, vars

LEMMA WriteStep == ReadsInv /\ Write => HitsInv'
<1>. SUFFICES ASSUME ReadsInv, Write PROVE HitsInv'
  OBVIOUS
<1>1. RowsFade /\ issued \subseteq issued'
  BY IndexedNext DEF Write, ReadsInv
<1>. QED BY <1>1 DEF Write, RowsFade, HitsInv, ReadsInv

LEMMA ReadsStep ==
    IsFiniteSet(Memories) /\ ReadsInv /\ [ReadsNext]_allVars => ReadsInv'
<1>. SUFFICES ASSUME IsFiniteSet(Memories), ReadsInv, [ReadsNext]_allVars PROVE ReadsInv'
  OBVIOUS
<1>1. [Next]_vars
  BY DEF ReadsNext, Write, allVars
<1>2. TInv' /\ IndexedInv'
  BY <1>1, TypeNext, IndexedNext DEF ReadsInv
<1>3. HitsInv'
  <2>1. CASE Write
    BY <2>1, WriteStep
  <2>2. ASSUME NEW r \in Readers, Recall(r), UNCHANGED vars PROVE HitsInv'
    BY <2>2, SearchStep, GetHitStep, FinishStep DEF Recall
  <2>3. CASE UNCHANGED allVars
    BY <2>3 DEF allVars, readVars, vars, HitsInv, ReadsInv
  <2>. QED BY <2>1, <2>2, <2>3 DEF ReadsNext
<1>4. ReadsTypeOK'
  <2>1. CASE Write
    BY <2>1 DEF Write, ReadsInv, ReadsTypeOK
  <2>2. ASSUME NEW r \in Readers, NEW t \in Tenants, NEW top \in SUBSET Indexed(t),
               Search(r, t, top)
        PROVE  ReadsTypeOK'
    <3>1. top \in SUBSET Memories /\ Recallable(t) \in SUBSET Memories
      BY DEF Indexed, Recallable, ReadsInv, TInv, TypeOK
    <3>2. AtMost(Cardinality(Recallable(t))) \in 0 .. K
      BY <3>1, AtMostK, FS_Subset, FS_CardinalityType
    <3>. QED BY <2>2, <3>1, <3>2 DEF Search, ReadsInv, ReadsTypeOK
  <2>3. ASSUME NEW r \in Readers, NEW m \in Memories, GetHit(r, m)
        PROVE  ReadsTypeOK'
    BY <2>3 DEF GetHit, ReadsInv, ReadsTypeOK
  <2>4. ASSUME NEW r \in Readers, Finish(r) PROVE ReadsTypeOK'
    BY <2>4, KAssumption DEF Finish, ReadsInv, ReadsTypeOK
  <2>5. CASE UNCHANGED allVars
    BY <2>5 DEF allVars, readVars, ReadsInv, ReadsTypeOK
  <2>. QED BY <2>1, <2>2, <2>3, <2>4, <2>5 DEF ReadsNext, Recall
<1>. QED BY <1>2, <1>3, <1>4 DEF ReadsInv

\* Recalls leave no trace: whatever is proved of the stores and forgets holds of
\* them beside any number of recalls.
THEOREM RecallsOnlyRead == ReadsSpec => Spec
<1>1. ReadsInit => Init
  BY DEF ReadsInit
<1>2. [ReadsNext]_allVars => [Next]_vars
  BY DEF ReadsNext, Write, allVars
<1>. QED BY <1>1, <1>2, PTL DEF ReadsSpec, Spec

\* What a reader holds has its type, and an answer never exceeds k: recall in
\* engine.rs.
THEOREM ReadsTypeCorrect ==
    ASSUME IsFiniteSet(Memories)
    PROVE  ReadsSpec => []ReadsTypeOK
<1>1. ReadsInv => ReadsTypeOK
  BY DEF ReadsInv
<1>. QED BY <1>1, ReadsStep, ReadsInitially, PTL DEF ReadsSpec

\* A recall that runs beside any number of stores and forgets, and beside
\* failures, returns only memories that were stored when its search ran.
THEOREM RecallIsLive ==
    ASSUME IsFiniteSet(Memories)
    PROVE  ReadsSpec => []RecallReturnsLive
<1>1. ReadsInv /\ [ReadsNext]_allVars => ReadsInv'
  BY ReadsStep
<1>2. ReadsInv => RecallReturnsLive
  BY DEF ReadsInv, HitsInv, RecallReturnsLive
<1>. QED BY <1>1, <1>2, ReadsInitially, PTL DEF ReadsSpec

-----------------------------------------------------------------------------
(* What entries that outlived their rows do to a recall.                    *)

SteadyInv == ReadsInv /\ TracesInv /\ QuietInv

LEMMA QuietInit == ReadsInit => QuietInv
BY DEF ReadsInit, QuietInv

\* While no call is in flight every vector has its row, so that the search
\* finds as many entries as there are memories to recall.
LEMMA QuietSearch ==
    ASSUME SteadyInv, NEW r \in Readers, NEW t \in Tenants,
           NEW top \in SUBSET Indexed(t), Search(r, t, top), UNCHANGED vars
    PROVE  QuietInv'
<1>1. /\ hits'[r] = top /\ asked'[r] = t /\ found'[r] = {}
      /\ phase'[r] = "done" => top = {}
      /\ capacity'[r] = AtMost(Cardinality(Recallable(t)))
      /\ quiet'[r] = (\A c \in Clients : pc[c] = "idle")
  BY DEF Search, SteadyInv, ReadsInv, ReadsTypeOK
<1>2. \A q \in Readers \ {r} :
         /\ hits'[q] = hits[q] /\ asked'[q] = asked[q] /\ found'[q] = found[q]
         /\ phase'[q] = phase[q] /\ capacity'[q] = capacity[q] /\ quiet'[q] = quiet[q]
  BY DEF Search, SteadyInv, ReadsInv, ReadsTypeOK
<1>3. UNCHANGED <<rows, pc>>
  BY DEF vars
<1>4. ASSUME quiet'[r]
      PROVE  /\ \A m \in top : <<t, m>> \in rows
             /\ Cardinality(top) = capacity'[r]
  <2>1. \A c \in Clients : \A i : ~At(c, {"vector_delete"}, i)
    BY <1>1, <1>4 DEF At
  <2>2. \A i \in vectors : i \in rows
    BY <2>1 DEF SteadyInv, TracesInv
  <2>3. \A m \in Indexed(t) : <<t, m>> \in rows
    BY <2>2 DEF Indexed, SteadyInv, ReadsInv, TInv, TypeOK
  <2>4. Recallable(t) = Indexed(t)
    BY <2>3 DEF Recallable
  <2>5. Cardinality(top) = AtMost(Cardinality(Indexed(t)))
    BY DEF Search
  <2>. QED BY <1>1, <2>3, <2>4, <2>5
<1>5. hits'[r] \cup found'[r] = top
  BY <1>1
<1>. QED BY <1>1, <1>2, <1>3, <1>4, <1>5 DEF SteadyInv, QuietInv

\* The row of the next hit is there, so the answer keeps the hit.
LEMMA QuietGetHit ==
    ASSUME SteadyInv, NEW r \in Readers, NEW m \in Memories, GetHit(r, m),
           UNCHANGED vars
    PROVE  QuietInv'
<1>1. /\ m \in hits[r] /\ hits'[r] = hits[r] \ {m}
      /\ phase'[r] = "done" => hits'[r] = {}
      /\ <<asked[r], m>> \in rows => found'[r] = found[r] \cup {m}
      /\ UNCHANGED <<asked, capacity, quiet, rows, pc>>
      /\ \A q \in Readers \ {r} :
            hits'[q] = hits[q] /\ found'[q] = found[q] /\ phase'[q] = phase[q]
  BY DEF GetHit, SteadyInv, ReadsInv, ReadsTypeOK, vars
<1>2. ASSUME quiet[r]
      PROVE  hits'[r] \cup found'[r] = hits[r] \cup found[r]
  BY <1>1, <1>2 DEF SteadyInv, QuietInv
<1>. QED BY <1>1, <1>2 DEF SteadyInv, QuietInv

LEMMA QuietFinish ==
    ASSUME SteadyInv, NEW r \in Readers, Finish(r), UNCHANGED vars
    PROVE  QuietInv'
<1>1. /\ hits'[r] = {} /\ quiet'[r] = FALSE
      /\ UNCHANGED <<asked, rows, pc>>
      /\ \A q \in Readers \ {r} :
            /\ hits'[q] = hits[q] /\ found'[q] = found[q] /\ phase'[q] = phase[q]
            /\ capacity'[q] = capacity[q] /\ quiet'[q] = quiet[q]
  BY DEF Finish, SteadyInv, ReadsInv, ReadsTypeOK, vars
<1>. QED BY <1>1 DEF SteadyInv, QuietInv

LEMMA QuietWrite == SteadyInv /\ Write => QuietInv'
<1>. SUFFICES ASSUME SteadyInv, Write PROVE QuietInv'
  OBVIOUS
<1>1. /\ UNCHANGED <<phase, asked, hits, found, capacity>>
      /\ \A r \in Readers : quiet'[r] => quiet[r] /\ UNCHANGED <<rows, pc>>
  BY DEF Write, vars
<1>. QED BY <1>1 DEF SteadyInv, QuietInv

LEMMA SteadyStep ==
    IsFiniteSet(Memories) /\ UndisturbedCalls /\ SteadyInv /\ [ReadsNext]_allVars
        => SteadyInv'
<1>. SUFFICES ASSUME IsFiniteSet(Memories), UndisturbedCalls, SteadyInv,
                     [ReadsNext]_allVars
              PROVE  SteadyInv'
  OBVIOUS
<1>1. ReadsInv'
  BY ReadsStep DEF SteadyInv
<1>2. [Next]_vars
  BY DEF ReadsNext, Write, allVars
<1>3. TracesInv'
  BY <1>2, TracesNext DEF SteadyInv, ReadsInv
<1>4. QuietInv'
  <2>1. CASE Write
    BY <2>1, QuietWrite
  <2>2. ASSUME NEW r \in Readers, Recall(r), UNCHANGED vars PROVE QuietInv'
    BY <2>2, QuietSearch, QuietGetHit, QuietFinish DEF Recall
  <2>3. CASE UNCHANGED allVars
    BY <2>3 DEF allVars, readVars, vars, QuietInv, SteadyInv
  <2>. QED BY <2>1, <2>2, <2>3 DEF ReadsNext
<1>. QED BY <1>1, <1>3, <1>4 DEF SteadyInv

\* The claim of engine.rs:227 that what a forget left in another backend is
\* inert: while calls do not overlap and none fails, a recall nothing runs
\* beside returns min(k, n) of the n memories the tenant can recall.
THEOREM RecallIsFull ==
    ASSUME IsFiniteSet(Memories), UndisturbedCalls
    PROVE  ReadsSpec => []StaleVectorsAreInert
<1>1. SteadyInv /\ [ReadsNext]_allVars => SteadyInv'
  BY SteadyStep
<1>2. ReadsInit => SteadyInv
  BY ReadsInitially, TracesInit, QuietInit DEF SteadyInv, ReadsInit
<1>3. SteadyInv => StaleVectorsAreInert
  <2>. SUFFICES ASSUME SteadyInv, NEW r \in Readers, phase[r] = "done", quiet[r]
                PROVE  Cardinality(found[r]) = capacity[r]
    BY DEF StaleVectorsAreInert
  <2>1. hits[r] = {} /\ Cardinality(hits[r] \cup found[r]) = capacity[r]
    BY DEF SteadyInv, QuietInv
  <2>2. hits[r] \cup found[r] = found[r]
    BY <2>1
  <2>. QED BY <2>1, <2>2
<1>. QED BY <1>1, <1>2, <1>3, PTL DEF ReadsSpec
=============================================================================
