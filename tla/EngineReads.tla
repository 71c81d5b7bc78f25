----------------------------- MODULE EngineReads -----------------------------
(***************************************************************************)
(* recall, running beside the stores and forgets of MemoryEngine.          *)
(*                                                                         *)
(* A recall asks the vector backend for the ids of the k most similar      *)
(* entries and then gets the rows of those ids one at a time, dropping the *)
(* ids that have none (engine.rs, recall).  Similarity is abstracted: any  *)
(* k entries of the tenant may be the most similar ones.                   *)
(***************************************************************************)
EXTENDS MemoryEngine

CONSTANTS
    Readers,        \* recalls that may be in flight at the same time
    K               \* the k of the recalls

ASSUME KAssumption == K \in Nat \ {0}

VARIABLES
    phase,          \* "idle", "getting" or "done"
    asked,          \* the tenant of each reader's recall
    hits,           \* ids the search found that were not looked up yet
    found,          \* memories the recall returns
    liveBefore,     \* history: the tenant's memories when the recall began
    capacity,       \* history: how many memories could have been recalled
    quiet           \* history: no store or forget ran since the recall began

readVars == <<phase, asked, hits, found, liveBefore, capacity, quiet>>
allVars  == <<vars, readVars>>

ReadsTypeOK ==
    /\ phase \in [Readers -> {"idle", "getting", "done"}]
    /\ asked \in [Readers -> Tenants]
    /\ hits \in [Readers -> SUBSET Memories]
    /\ found \in [Readers -> SUBSET Memories]
    /\ liveBefore \in [Readers -> SUBSET Memories]
    /\ capacity \in [Readers -> 0 .. K]
    /\ quiet \in [Readers -> BOOLEAN]

ReadsInit ==
    /\ Init
    /\ phase = [r \in Readers |-> "idle"]
    /\ asked \in [Readers -> Tenants]
    /\ hits = [r \in Readers |-> {}]
    /\ found = [r \in Readers |-> {}]
    /\ liveBefore = [r \in Readers |-> {}]
    /\ capacity = [r \in Readers |-> 0]
    /\ quiet = [r \in Readers |-> FALSE]

-----------------------------------------------------------------------------
AtMost(n) == IF n < K THEN n ELSE K

\* A wrong form of Indexed: the hits keep their tenant.
IndexedPairs(t) == {v \in vectors : v[1] = t}

Indexed(t)    == {v[2] : v \in {u \in vectors : u[1] = t}}
Recallable(t) == {m \in Indexed(t) : <<t, m>> \in rows}

\* The vector search: the top k of the tenant's entries, whether or not
\* their memories still exist.
Search(r, t, top) ==
    /\ phase[r] = "idle"
    /\ Cardinality(top) = AtMost(Cardinality(Indexed(t)))
    /\ phase' = [phase EXCEPT ![r] = IF top = {} THEN "done" ELSE "getting"]
    /\ asked' = [asked EXCEPT ![r] = t]
    /\ hits' = [hits EXCEPT ![r] = top]
    /\ found' = [found EXCEPT ![r] = {}]
    /\ liveBefore' = [liveBefore EXCEPT ![r] = {m \in Memories : <<t, m>> \in rows}]
    /\ capacity' = [capacity EXCEPT ![r] = AtMost(Cardinality(Recallable(t)))]
    /\ quiet' = [quiet EXCEPT ![r] = \A c \in Clients : pc[c] = "idle"]

\* A wrong form of the next action: the rows are not looked up.
GetHitUnchecked(r, m) ==
    /\ phase[r] = "getting"
    /\ m \in hits[r]
    /\ hits' = [hits EXCEPT ![r] = @ \ {m}]
    /\ found' = [found EXCEPT ![r] = @ \cup {m}]
    /\ phase' = [phase EXCEPT ![r] = IF hits[r] = {m} THEN "done" ELSE "getting"]
    /\ UNCHANGED <<asked, liveBefore, capacity, quiet>>

\* engine_backend.get of the next id.
GetHit(r, m) ==
    /\ phase[r] = "getting"
    /\ m \in hits[r]
    /\ hits' = [hits EXCEPT ![r] = @ \ {m}]
    /\ found' = [found EXCEPT ![r] =
                    IF <<asked[r], m>> \in rows THEN @ \cup {m} ELSE @]
    /\ phase' = [phase EXCEPT ![r] = IF hits[r] = {m} THEN "done" ELSE "getting"]
    /\ UNCHANGED <<asked, liveBefore, capacity, quiet>>

\* The caller takes the answer; a recall that fails on the way is answered
\* with the error, and neither leaves a trace.
Finish(r) ==
    /\ \/ phase[r] = "done"
       \/ phase[r] = "getting" /\ MayFail
    /\ phase' = [phase EXCEPT ![r] = "idle"]
    /\ hits' = [hits EXCEPT ![r] = {}]
    /\ found' = [found EXCEPT ![r] = {}]
    /\ liveBefore' = [liveBefore EXCEPT ![r] = {}]
    /\ capacity' = [capacity EXCEPT ![r] = 0]
    /\ quiet' = [quiet EXCEPT ![r] = FALSE]
    /\ UNCHANGED asked

Recall(r) ==
    \/ \E t \in Tenants : \E top \in SUBSET Indexed(t) : Search(r, t, top)
    \/ \E m \in Memories : GetHit(r, m)
    \/ Finish(r)

Write ==
    /\ Next
    /\ quiet' = [r \in Readers |-> quiet[r] /\ UNCHANGED vars]
    /\ UNCHANGED <<phase, asked, hits, found, liveBefore, capacity>>

ReadsNext == Write \/ (\E r \in Readers : Recall(r) /\ UNCHANGED vars)

ReadsSpec == ReadsInit /\ [][ReadsNext]_allVars

\* A store or forget in flight keeps running: tokio polls every ready task.
\* Nothing is assumed of the recalls.
FairReadsSpec == ReadsSpec /\ \A c \in Clients : WF_vars(Step(c))

-----------------------------------------------------------------------------
(* Properties *)

\* recall reads the two backends at different times, and still answers as of
\* its search: what it returns was stored then, although the search may hit
\* vectors of forgotten memories and each row is read later.
RecallReturnsLive == \A r \in Readers : found[r] \subseteq liveBefore[r]

\* A recall returns min(k, n) memories when n memories of the tenant can be
\* recalled and nothing else runs: entries that outlived their rows are
\* "inert" for recall.
StaleVectorsAreInert ==
    \A r \in Readers :
        phase[r] = "done" /\ quiet[r] => Cardinality(found[r]) = capacity[r]

-----------------------------------------------------------------------------
(* The inductive invariant behind StaleVectorsAreInert: in a recall nothing *)
(* runs beside, every hit has its row and stays one of the answers.         *)

QuietInv ==
    \A r \in Readers :
        /\ phase[r] = "done" => hits[r] = {}
        /\ quiet[r] =>
              /\ \A c \in Clients : pc[c] = "idle"
              /\ \A m \in hits[r] : <<asked[r], m>> \in rows
              /\ Cardinality(hits[r] \cup found[r]) = capacity[r]
=============================================================================
