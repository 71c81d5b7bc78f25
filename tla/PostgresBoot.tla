----------------------------- MODULE PostgresBoot -----------------------------
(***************************************************************************)
(* Server replicas that boot against one Postgres at the same time         *)
(* (MemoryEngine::postgres and backend/postgres/provision.rs,              *)
(* relational.rs, vector.rs): each provisions what it needs, in three      *)
(* sections, and each section runs under an advisory lock of its own.      *)
(*                                                                         *)
(* Every statement commits by itself.  A statement of the IF NOT EXISTS    *)
(* kind looks first and writes later, and fails when the object appeared   *)
(* in between: the races the comments of the code report.  An advisory     *)
(* lock belongs to a session: it goes with the connection, so a replica    *)
(* that gives up without unlocking keeps it until its pool is closed.      *)
(*                                                                         *)
(* All statements of a boot run on the one connection the pool opened:     *)
(* a session is a replica.  SQL texts are abstracted to the object they    *)
(* make; the two kinds of vector index are one object.                     *)
(***************************************************************************)
EXTENDS Naturals, Sequences

CONSTANTS
    Replicas,
    NoReplica,      \* the holder of a free lock
    MayFail         \* TRUE: statements fail, and replicas crash

ASSUME NoReplicaAssumption == NoReplica \notin Replicas
ASSUME MayFailAssumption == MayFail \in BOOLEAN

Extensions == <<"vector", "age", "database_name", "preload">>
Records    == <<"records", "records_index", "records_rls", "records_force",
                "records_policy", "immutable", "no_update", "no_delete">>
Vectors    == <<"vectors", "vectors_rls", "vectors_force", "vectors_policy",
                "vectors_index">>

Sections == <<Extensions, Records, Vectors>>
Stages   == 1 .. 3
Last(s)  == Len(Sections[s])

\* The statements that fail when another session makes the object meanwhile.
\* The others run again without harm: ALTER, CREATE OR REPLACE, and the blocks
\* that take duplicate_object for success.
Racing == {"vector", "age", "records", "records_index", "vectors", "vectors_index"}

\* What the statements make; the query for the database's name makes nothing.
Made(s, i) == {Sections[s][i]} \ {"database_name"}
Objects    == UNION {UNION {Made(s, i) : i \in 1 .. Last(s)} : s \in Stages}

VARIABLES
    db,         \* the objects the database has
    lock,       \* the replica that holds the lock of each section
    phase,      \* what each replica does next
    stage,      \* the section each replica is at
    at,         \* the statement of the section it is at
    seen,       \* the object was there when the statement looked
    collided    \* history: a statement failed because of another replica

bootVars == <<db, lock, phase, stage, at, seen, collided>>

Phases == {"down", "lock", "look", "write", "unlock", "bail", "failed", "serving"}

TypeOK ==
    /\ db \subseteq Objects
    /\ lock \in [Stages -> Replicas \cup {NoReplica}]
    /\ phase \in [Replicas -> Phases]
    /\ stage \in [Replicas -> Stages]
    /\ at \in [Replicas -> Nat]
    /\ \A r \in Replicas : at[r] \in 1 .. Last(stage[r])
    /\ seen \in [Replicas -> BOOLEAN]
    /\ collided \in BOOLEAN

Init ==
    /\ db = {}
    /\ lock = [s \in Stages |-> NoReplica]
    /\ phase = [r \in Replicas |-> "down"]
    /\ stage = [r \in Replicas |-> 1]
    /\ at = [r \in Replicas |-> 1]
    /\ seen = [r \in Replicas |-> FALSE]
    /\ collided = FALSE

-----------------------------------------------------------------------------
(* Helpers *)

Making(r) == Made(stage[r], at[r])

Goto(r, p) == phase' = [phase EXCEPT ![r] = p]

\* The locks of a session are freed when its connection closes.
Free(r) == lock' = [s \in Stages |-> IF lock[s] = r THEN NoReplica ELSE lock[s]]

\* The statement succeeded: the next one of the section, or the unlock.
Advance(r) ==
    IF at[r] < Last(stage[r])
    THEN /\ at' = [at EXCEPT ![r] = @ + 1]
         /\ Goto(r, "look")
    ELSE Goto(r, "unlock") /\ UNCHANGED at

-----------------------------------------------------------------------------
\* The pool opens its first connection.
Connect(r) ==
    /\ phase[r] = "down"
    /\ Goto(r, "lock")
    /\ stage' = [stage EXCEPT ![r] = 1]
    /\ at' = [at EXCEPT ![r] = 1]
    /\ seen' = [seen EXCEPT ![r] = FALSE]
    /\ UNCHANGED <<db, lock, collided>>

\* A wrong form: the section runs without its lock.
LockNothing(r) ==
    /\ phase[r] = "lock"
    /\ Goto(r, "look")
    /\ UNCHANGED <<db, lock, stage, at, seen, collided>>

\* pg_advisory_lock waits, without a timeout, until the lock is free.
Lock(r) ==
    /\ phase[r] = "lock"
    /\ lock[stage[r]] = NoReplica
    /\ lock' = [lock EXCEPT ![stage[r]] = r]
    /\ Goto(r, "look")
    /\ UNCHANGED <<db, stage, at, seen, collided>>

Look(r) ==
    /\ phase[r] = "look"
    /\ seen' = [seen EXCEPT ![r] = Making(r) \subseteq db]
    /\ Goto(r, "write")
    /\ UNCHANGED <<db, lock, stage, at, collided>>

\* A wrong form, which an earlier version had: policies and triggers are
\* dropped before they are created.
WriteAfterDrop(r) ==
    /\ phase[r] = "write"
    /\ \/ /\ seen[r] /\ Making(r) \cap {"records_policy", "no_update", "no_delete"} # {}
          /\ db' = db \ Making(r)
          /\ seen' = [seen EXCEPT ![r] = FALSE]
          /\ UNCHANGED <<phase, at, collided>>
       \/ db' = db \cup Making(r) /\ Advance(r) /\ UNCHANGED <<seen, collided>>
    /\ UNCHANGED <<lock, stage>>

\* What was there is left as it is; what is new since the look is an error of
\* the statements that race.
Write(r) ==
    /\ phase[r] = "write"
    /\ IF seen[r] \/ Making(r) \cap db \cap Racing = {}
       THEN db' = db \cup Making(r) /\ Advance(r) /\ UNCHANGED collided
       ELSE collided' = TRUE /\ Goto(r, "bail") /\ UNCHANGED <<db, at>>
    /\ UNCHANGED <<lock, stage, seen>>

\* An error ends the section, and the lock is still released; only the ? of
\* the query for the database's name leaves at once.
StatementFails(r) ==
    /\ MayFail
    /\ phase[r] \in {"look", "write"}
    /\ Goto(r, IF Making(r) = {} THEN "failed" ELSE "bail")
    /\ UNCHANGED <<db, lock, stage, at, seen, collided>>

\* After a good section the next one, or the engine is up.
Unlock(r) ==
    /\ phase[r] \in {"unlock", "bail"}
    /\ lock' = [lock EXCEPT ![stage[r]] = NoReplica]
    /\ IF phase[r] = "unlock" /\ stage[r] < 3
       THEN /\ stage' = [stage EXCEPT ![r] = @ + 1]
            /\ at' = [at EXCEPT ![r] = 1]
            /\ Goto(r, "lock")
       ELSE /\ Goto(r, IF phase[r] = "unlock" THEN "serving" ELSE "failed")
            /\ UNCHANGED <<stage, at>>
    /\ UNCHANGED <<db, seen, collided>>

\* The call that waits for the lock or gives it back fails: an early return.
LockCallFails(r) ==
    /\ MayFail
    /\ phase[r] \in {"lock", "unlock", "bail"}
    /\ Goto(r, "failed")
    /\ UNCHANGED <<db, lock, stage, at, seen, collided>>

\* A wrong form: the caller keeps the pool of the engine that did not start.
CloseKeepsPool(r) ==
    /\ phase[r] = "failed"
    /\ Goto(r, "down")
    /\ UNCHANGED <<db, lock, stage, at, seen, collided>>

\* MemoryEngine::postgres returned Err and dropped its pool: the connection
\* closes, and the session's locks go with it.
Close(r) ==
    /\ phase[r] = "failed"
    /\ Goto(r, "down")
    /\ Free(r)
    /\ UNCHANGED <<db, stage, at, seen, collided>>

\* The process dies; the server may still finish the statement it was sent.
Crash(r) ==
    /\ MayFail
    /\ phase[r] # "down"
    /\ Goto(r, "down")
    /\ Free(r)
    /\ db' \in {db, db \cup (IF phase[r] = "write" THEN Making(r) ELSE {})}
    /\ UNCHANGED <<stage, at, seen, collided>>

Progress(r) == Look(r) \/ Write(r) \/ Unlock(r) \/ Close(r)

BootStep(r) ==
    \/ Connect(r) \/ Lock(r) \/ Progress(r)
    \/ StatementFails(r) \/ LockCallFails(r) \/ Crash(r)

Next == \E r \in Replicas : BootStep(r)

Spec == Init /\ [][Next]_bootVars

\* A replica that runs goes on, and Postgres queues the waiters of a lock.
FairSpec ==
    Spec /\ \A r \in Replicas : WF_bootVars(Progress(r)) /\ SF_bootVars(Lock(r))

-----------------------------------------------------------------------------
(* Properties *)

\* "never a partially-working engine": a replica that serves finds every
\* extension, table, policy and trigger, whatever other replicas that boot,
\* fail half-way or die do to the same database.
ServingIsProtected ==
    \A r \in Replicas : phase[r] = "serving" => db = Objects

\* "safe to call concurrently": no statement of a boot fails because another
\* replica made the object between the look and the write.
NoCollision == ~collided

\* A lock "left held ... would deadlock the next caller forever": whoever waits
\* for a section gets its lock, or gives up, however the holder ended.
LockWaitEnds ==
    \A r \in Replicas : phase[r] = "lock" ~> phase[r] # "lock"

\* A lock is held by the replica in its section, or by one that left early and
\* whose connection is not closed yet.
InSection(r) == phase[r] \in {"look", "write", "unlock", "bail"}

LockInv ==
    /\ \A r \in Replicas : InSection(r) => lock[stage[r]] = r
    /\ \A r \in Replicas, s \in Stages : lock[s] = r =>
          /\ s = stage[r]
          /\ InSection(r) \/ phase[r] = "failed"

\* The inductive invariant behind ServingIsProtected and NoCollision: what a
\* replica has behind it is in the database, and what it missed still is not.
Passed(r, s, i) ==
    \/ s < stage[r]
    \/ s = stage[r] /\ (i < at[r] \/ phase[r] \in {"unlock", "serving"})

BootInv ==
    /\ \A r \in Replicas, s \in Stages : \A i \in 1 .. Last(s) :
          Passed(r, s, i) => Made(s, i) \subseteq db
    /\ \A r \in Replicas : phase[r] = "write" =>
          IF seen[r] THEN Making(r) \subseteq db ELSE Making(r) \cap db = {}
    /\ \A r \in Replicas : phase[r] = "serving" => stage[r] = 3
=============================================================================
