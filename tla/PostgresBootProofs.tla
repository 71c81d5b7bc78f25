--------------------------- MODULE PostgresBootProofs ---------------------------
(***************************************************************************)
(* Replicas that boot at once, for every number of them: the advisory      *)
(* locks keep the sections apart, no statement collides, and a replica     *)
(* that serves has the whole schema.  The argument goes bottom-up: types,  *)
(* then the locks, then what a replica that holds a lock knows of the      *)
(* objects of its section.                                                 *)
(***************************************************************************)
EXTENDS PostgresBoot, TLAPS

(* The sections *)

LEMMA SectionSizes == Last(1) = 4 /\ Last(2) = 8 /\ Last(3) = 5
BY DEF Last, Sections, Extensions, Records, Vectors

LEMMA LastIsNat == ASSUME NEW s \in Stages PROVE Last(s) \in Nat /\ Last(s) >= 4
BY SectionSizes DEF Stages

\* No object is made by two sections.
LEMMA SectionsAreDisjoint ==
    ASSUME NEW s \in Stages, NEW t \in Stages, s # t,
           NEW i \in 1 .. Last(s), NEW j \in 1 .. Last(t)
    PROVE  Made(s, i) \cap Made(t, j) = {}
<1> DEFINE E == {"vector", "age", "database_name", "preload"}
           R == {"records", "records_index", "records_rls", "records_force",
                 "records_policy", "immutable", "no_update", "no_delete"}
           V == {"vectors", "vectors_rls", "vectors_force", "vectors_policy",
                 "vectors_index"}
           Of(x) == IF x = 1 THEN E ELSE IF x = 2 THEN R ELSE V
<1>1. ASSUME NEW x \in Stages, NEW k \in 1 .. Last(x) PROVE Sections[x][k] \in Of(x)
  <2>1. CASE x = 1 BY <2>1, <1>1, SectionSizes DEF Sections, Extensions
  <2>2. CASE x = 2 BY <2>2, <1>1, SectionSizes DEF Sections, Records
  <2>3. CASE x = 3 BY <2>3, <1>1, SectionSizes DEF Sections, Vectors
  <2> QED BY <2>1, <2>2, <2>3 DEF Stages
<1>2. Of(s) \cap Of(t) = {}
  BY DEF Stages
<1>3. Sections[s][i] \in Of(s) /\ Sections[t][j] \in Of(t)
  BY <1>1
<1> HIDE DEF Of
<1> QED BY <1>2, <1>3 DEF Made

LEMMA MadeIsAnObject ==
    ASSUME NEW s \in Stages, NEW i \in 1 .. Last(s)
    PROVE  Made(s, i) \subseteq Objects
BY DEF Objects

-----------------------------------------------------------------------------
(* Types *)

LEMMA TypeInit == Init => TypeOK
<1> SUFFICES ASSUME Init PROVE TypeOK
  OBVIOUS
<1>1. ASSUME NEW r \in Replicas PROVE at[r] \in 1 .. Last(stage[r])
  <2>1. stage[r] = 1 /\ at[r] = 1
    BY DEF Init
  <2> QED BY <2>1, SectionSizes
<1>2. 1 \in Stages /\ "down" \in Phases
  BY DEF Stages, Phases
<1> QED BY <1>1, <1>2 DEF Init, TypeOK

LEMMA TypeStep == TypeOK /\ [Next]_bootVars => TypeOK'
<1> SUFFICES ASSUME TypeOK, [Next]_bootVars PROVE TypeOK'
  OBVIOUS
<1> USE DEF TypeOK
<1>1. CASE UNCHANGED bootVars
  BY <1>1 DEF bootVars
<1>2. ASSUME NEW r \in Replicas, BootStep(r) PROVE TypeOK'
  <2>0. /\ stage[r] \in Stages /\ at[r] \in 1 .. Last(stage[r])
        /\ Last(stage[r]) \in Nat /\ Making(r) \subseteq Objects
    BY MadeIsAnObject, LastIsNat DEF Making
  <2>1. CASE Connect(r)
    BY <2>1, SectionSizes DEF Connect, Goto, Phases, Stages
  <2>2. CASE Lock(r)
    BY <2>2, <2>0 DEF Lock, Goto, Phases
  <2>3. CASE Look(r)
    BY <2>3 DEF Look, Goto, Phases
  <2>4. CASE Write(r)
    <3>1. CASE collided' = TRUE /\ Goto(r, "bail") /\ UNCHANGED <<db, at>>
      BY <3>1, <2>4 DEF Write, Goto, Phases
    <3>2. CASE db' = db \cup Making(r) /\ Advance(r) /\ UNCHANGED collided
      <4>1. db' \subseteq Objects
        BY <3>2, <2>0
      <4>2. CASE at[r] < Last(stage[r])
        BY <4>1, <4>2, <3>2, <2>4, <2>0 DEF Write, Goto, Advance, Phases
      <4>3. CASE ~(at[r] < Last(stage[r]))
        BY <4>1, <4>3, <3>2, <2>4 DEF Write, Goto, Advance, Phases
      <4> QED BY <4>2, <4>3
    <3> QED BY <3>1, <3>2, <2>4 DEF Write
  <2>5. CASE Unlock(r)
    BY <2>5, <2>0, LastIsNat, SectionSizes DEF Unlock, Goto, Phases, Stages
  <2>6. CASE Close(r)
    BY <2>6 DEF Close, Goto, Free, Phases
  <2>7. CASE StatementFails(r)
    BY <2>7 DEF StatementFails, Goto, Phases
  <2>8. CASE LockCallFails(r)
    BY <2>8 DEF LockCallFails, Goto, Phases
  <2>9. CASE Crash(r)
    BY <2>9, <2>0 DEF Crash, Goto, Free, Phases
  <2> QED BY <1>2, <2>1, <2>2, <2>3, <2>4, <2>5, <2>6, <2>7, <2>8, <2>9 DEF BootStep, Progress
<1> QED BY <1>1, <1>2 DEF Next

\* The state of every replica, lock and object has its type.
THEOREM TypeCorrect == Spec => []TypeOK
BY TypeInit, TypeStep, PTL DEF Spec

-----------------------------------------------------------------------------
(* The locks *)

LEMMA LockInit == Init => LockInv
BY NoReplicaAssumption DEF Init, LockInv, InSection

LEMMA LockStep == TypeOK /\ LockInv /\ [Next]_bootVars => LockInv'
<1> SUFFICES ASSUME TypeOK, LockInv, [Next]_bootVars PROVE LockInv'
  OBVIOUS
<1> USE NoReplicaAssumption DEF TypeOK, LockInv, InSection
<1>1. CASE UNCHANGED bootVars
  BY <1>1 DEF bootVars
<1>2. ASSUME NEW r \in Replicas, BootStep(r) PROVE LockInv'
  <2>1. CASE Connect(r)
    BY <2>1 DEF Connect, Goto
  <2>2. CASE Lock(r)
    BY <2>2 DEF Lock, Goto
  <2>3. CASE Look(r)
    BY <2>3 DEF Look, Goto
  <2>4. CASE Write(r)
    BY <2>4 DEF Write, Goto, Advance
  <2>5. CASE Unlock(r)
    BY <2>5 DEF Unlock, Goto
  <2>6. CASE Close(r)
    BY <2>6 DEF Close, Goto, Free
  <2>7. CASE StatementFails(r)
    BY <2>7 DEF StatementFails, Goto
  <2>8. CASE LockCallFails(r)
    BY <2>8 DEF LockCallFails, Goto
  <2>9. CASE Crash(r)
    BY <2>9 DEF Crash, Goto, Free
  <2> QED BY <1>2, <2>1, <2>2, <2>3, <2>4, <2>5, <2>6, <2>7, <2>8, <2>9 DEF BootStep, Progress
<1> QED BY <1>1, <1>2 DEF Next

\* Two replicas in the middle of a section are in different ones.
LEMMA SectionsExclude ==
    ASSUME TypeOK, LockInv, NEW r \in Replicas, NEW q \in Replicas, r # q,
           InSection(r), InSection(q)
    PROVE  stage[r] # stage[q]
BY DEF TypeOK, LockInv

\* A lock is held by the replica in its section, or by one that left early and
\* did not close its connection yet: provision.rs leaves it held on those exits.
THEOREM LocksAreHeldInside == Spec => []LockInv
BY TypeInit, TypeStep, LockInit, LockStep, PTL DEF Spec

-----------------------------------------------------------------------------
(* The schema *)

BootSafe == BootInv /\ NoCollision

LEMMA BootInit == Init => BootSafe
<1> SUFFICES ASSUME Init PROVE BootSafe
  OBVIOUS
<1>1. ASSUME NEW r \in Replicas, NEW s \in Stages, NEW i \in 1 .. Last(s)
      PROVE  ~Passed(r, s, i)
  <2>1. stage[r] = 1 /\ at[r] = 1 /\ phase[r] = "down" /\ s \in Nat /\ s >= 1 /\ i >= 1
    BY DEF Init, Stages
  <2>2. i \in Nat
    OBVIOUS
  <2> QED BY <2>1, <2>2 DEF Passed
<1>2. \A r \in Replicas : phase[r] = "down"
  BY DEF Init
<1> QED BY <1>1, <1>2 DEF Init, BootSafe, BootInv, NoCollision

\* A step that leaves db and the replica's place alone keeps what it knows; a
\* step of another replica adds only objects of another section.
LEMMA BootFrame ==
    ASSUME TypeOK, LockInv, BootInv, NEW r \in Replicas, NEW q \in Replicas, q # r,
           db \subseteq db', db' \subseteq db \cup Making(r),
           db' # db => InSection(r),
           stage'[q] = stage[q], at'[q] = at[q], phase'[q] = phase[q], seen'[q] = seen[q]
    PROVE  /\ \A s \in Stages : \A i \in 1 .. Last(s) :
                Passed(q, s, i)' => Made(s, i) \subseteq db'
           /\ phase'[q] = "write" =>
                IF seen'[q] THEN Making(q)' \subseteq db' ELSE Making(q)' \cap db' = {}
           /\ phase'[q] = "serving" => stage'[q] = 3
<1>1. \A s \in Stages : \A i \in 1 .. Last(s) : Passed(q, s, i)' <=> Passed(q, s, i)
  BY DEF Passed
<1>2. Making(q)' = Making(q)
  BY DEF Making, Made
<1>3. CASE db' = db
  BY <1>1, <1>2, <1>3 DEF BootInv
<1>4. CASE db' # db
  <2>1. phase[q] = "write" => Making(q) \cap Making(r) = {}
    BY <1>4, SectionsExclude, SectionsAreDisjoint DEF TypeOK, InSection, Making
  <2> QED BY <1>1, <1>2, <2>1 DEF BootInv
<1> QED BY <1>3, <1>4

LEMMA BootStepKeeps ==
    TypeOK /\ TypeOK' /\ LockInv /\ BootSafe /\ [Next]_bootVars => BootSafe'
<1> SUFFICES ASSUME TypeOK, TypeOK', LockInv, BootSafe, [Next]_bootVars PROVE BootSafe'
  OBVIOUS
<1>1. CASE UNCHANGED bootVars
  BY <1>1 DEF bootVars, BootSafe, BootInv, NoCollision, Passed, Making, Made
<1>2. ASSUME NEW r \in Replicas, BootStep(r) PROVE BootSafe'
  <2>0. /\ stage[r] \in Stages /\ at[r] \in 1 .. Last(stage[r])
        /\ stage[r] \in Nat /\ at[r] \in Nat /\ Last(stage[r]) \in Nat
        /\ BootInv /\ NoCollision
    BY LastIsNat DEF TypeOK, BootSafe, Stages
  <2>1. /\ db \subseteq db' /\ db' \subseteq db \cup Making(r)
        /\ db' # db => phase[r] = "write"
        /\ \A q \in Replicas : q # r =>
              /\ stage'[q] = stage[q] /\ at'[q] = at[q]
              /\ phase'[q] = phase[q] /\ seen'[q] = seen[q]
    BY <1>2 DEF BootStep, Progress, Connect, Lock, Look, Write, Unlock, Close,
         StatementFails, LockCallFails, Crash, Goto, Advance, TypeOK
  <2>2. ASSUME NEW q \in Replicas, q # r
        PROVE  /\ \A s \in Stages : \A i \in 1 .. Last(s) :
                    Passed(q, s, i)' => Made(s, i) \subseteq db'
               /\ phase'[q] = "write" =>
                    IF seen'[q] THEN Making(q)' \subseteq db' ELSE Making(q)' \cap db' = {}
               /\ phase'[q] = "serving" => stage'[q] = 3
    BY <2>0, <2>1, <2>2, BootFrame DEF InSection
  <2> DEFINE Known == \A s \in Stages : \A i \in 1 .. Last(s) :
                        Passed(r, s, i)' => Made(s, i) \subseteq db'
             Looked == phase'[r] = "write" =>
                        IF seen'[r] THEN Making(r)' \subseteq db' ELSE Making(r)' \cap db' = {}
             Whole  == phase'[r] = "serving" => stage'[r] = 3
  <2>3. Known /\ Looked /\ Whole /\ ~collided'
    <3>0. \A s \in Stages : \A i \in 1 .. Last(s) : Passed(r, s, i) => Made(s, i) \subseteq db
      BY <2>0 DEF BootInv
    <3>1. CASE Connect(r)
      <4>1. stage'[r] = 1 /\ at'[r] = 1 /\ phase'[r] = "lock" /\ collided' = collided
        BY <3>1 DEF Connect, Goto, TypeOK
      <4>2. ASSUME NEW s \in Stages, NEW i \in 1 .. Last(s) PROVE ~Passed(r, s, i)'
        BY <4>1 DEF Passed, Stages
      <4> QED BY <4>1, <4>2, <2>0 DEF NoCollision
    <3>2. CASE Lock(r) \/ StatementFails(r) \/ LockCallFails(r) \/ Close(r)
      <4>1. /\ stage'[r] = stage[r] /\ at'[r] = at[r] /\ db' = db /\ collided' = collided
            /\ phase'[r] \in {"look", "failed", "bail", "down"}
        BY <3>2 DEF Lock, StatementFails, LockCallFails, Close, Goto, TypeOK
      <4>2. \A s \in Stages : \A i \in 1 .. Last(s) : Passed(r, s, i)' => Passed(r, s, i)
        BY <4>1 DEF Passed
      <4> QED BY <4>1, <4>2, <3>0, <2>0 DEF NoCollision
    <3>3. CASE Crash(r)
      <4>1. /\ stage'[r] = stage[r] /\ at'[r] = at[r] /\ collided' = collided
            /\ phase'[r] = "down"
        BY <3>3 DEF Crash, Goto, TypeOK
      <4>2. \A s \in Stages : \A i \in 1 .. Last(s) : Passed(r, s, i)' => Passed(r, s, i)
        BY <4>1 DEF Passed
      <4> QED BY <4>1, <4>2, <3>0, <2>0, <2>1 DEF NoCollision
    <3>4. CASE Look(r)
      <4>1. /\ stage'[r] = stage[r] /\ at'[r] = at[r] /\ db' = db /\ collided' = collided
            /\ phase'[r] = "write" /\ seen'[r] = (Making(r) \subseteq db)
        BY <3>4 DEF Look, Goto, TypeOK
      <4>2. \A s \in Stages : \A i \in 1 .. Last(s) : Passed(r, s, i)' => Passed(r, s, i)
        BY <4>1 DEF Passed
      <4>3. Making(r)' = Making(r)
        BY <4>1 DEF Making, Made
      <4>4. Making(r) \subseteq db \/ Making(r) \cap db = {}
        BY DEF Making, Made
      <4> QED BY <4>1, <4>2, <4>3, <4>4, <3>0, <2>0 DEF NoCollision
    <3>5. CASE Write(r)
      <4>1. seen[r] \/ Making(r) \cap db \cap Racing = {}
        BY <3>5, <2>0 DEF Write, BootInv
      <4>2. /\ db' = db \cup Making(r) /\ Advance(r)
            /\ collided' = collided /\ stage'[r] = stage[r]
        BY <3>5, <4>1 DEF Write
      <4>3. \A s \in Stages : \A i \in 1 .. Last(s) :
              Passed(r, s, i)' => Passed(r, s, i) \/ (s = stage[r] /\ i = at[r])
        <5>1. CASE at[r] < Last(stage[r])
          <6>1. at'[r] = at[r] + 1 /\ phase'[r] = "look"
            BY <4>2, <5>1 DEF Advance, Goto, TypeOK
          <6> QED BY <6>1, <4>2, <2>0 DEF Passed
        <5>2. CASE ~(at[r] < Last(stage[r]))
          <6>1. at'[r] = at[r] /\ at[r] = Last(stage[r])
            BY <4>2, <5>2, <2>0 DEF Advance
          <6> QED BY <6>1, <4>2, <2>0 DEF Passed
        <5> QED BY <5>1, <5>2
      <4>4. phase'[r] \in {"look", "unlock"}
        BY <4>2 DEF Advance, Goto, TypeOK
      <4>5. Made(stage[r], at[r]) \subseteq db'
        BY <4>2 DEF Making
      <4>6. Known
        BY <4>3, <4>5, <3>0, <2>1
      <4> QED BY <4>2, <4>4, <4>6, <2>0 DEF NoCollision
    <3>6. CASE Unlock(r)
      <4>1. db' = db /\ collided' = collided
        BY <3>6 DEF Unlock
      <4>2. CASE phase[r] = "unlock" /\ stage[r] < 3
        <5>1. stage'[r] = stage[r] + 1 /\ at'[r] = 1 /\ phase'[r] = "lock"
          BY <4>2, <3>6 DEF Unlock, Goto, TypeOK
        <5>2. \A s \in Stages : \A i \in 1 .. Last(s) : Passed(r, s, i)' => Passed(r, s, i)
          BY <5>1, <4>2, <2>0 DEF Passed, Stages
        <5> QED BY <5>1, <5>2, <4>1, <3>0, <2>0 DEF NoCollision
      <4>3. CASE phase[r] = "unlock" /\ ~(stage[r] < 3)
        <5>1. stage'[r] = stage[r] /\ at'[r] = at[r] /\ phase'[r] = "serving" /\ stage[r] = 3
          BY <4>3, <3>6, <2>0 DEF Unlock, Goto, TypeOK, Stages
        <5>2. \A s \in Stages : \A i \in 1 .. Last(s) : Passed(r, s, i)' => Passed(r, s, i)
          BY <5>1, <4>3 DEF Passed
        <5> QED BY <5>1, <5>2, <4>1, <3>0, <2>0 DEF NoCollision
      <4>4. CASE phase[r] = "bail"
        <5>1. stage'[r] = stage[r] /\ at'[r] = at[r] /\ phase'[r] = "failed"
          BY <4>4, <3>6 DEF Unlock, Goto, TypeOK
        <5>2. \A s \in Stages : \A i \in 1 .. Last(s) : Passed(r, s, i)' => Passed(r, s, i)
          BY <5>1 DEF Passed
        <5> QED BY <5>1, <5>2, <4>1, <3>0, <2>0 DEF NoCollision
      <4> QED BY <4>2, <4>3, <4>4, <3>6 DEF Unlock
    <3> QED BY <1>2, <3>1, <3>2, <3>3, <3>4, <3>5, <3>6 DEF BootStep, Progress
  <2> QED BY <2>2, <2>3 DEF BootSafe, BootInv, NoCollision
<1> QED BY <1>1, <1>2 DEF Next

\* With every object behind it, the whole schema is there.
LEMMA ServingHasAll == TypeOK /\ BootInv => ServingIsProtected
<1> SUFFICES ASSUME TypeOK, BootInv, NEW r \in Replicas, phase[r] = "serving"
             PROVE  Objects \subseteq db
  BY DEF TypeOK, ServingIsProtected
<1>1. ASSUME NEW s \in Stages, NEW i \in 1 .. Last(s) PROVE Made(s, i) \subseteq db
  <2>1. stage[r] = 3 /\ s \in Nat /\ s <= 3
    BY DEF BootInv, Stages
  <2>2. Passed(r, s, i)
    BY <2>1 DEF Passed
  <2> QED BY <2>2 DEF BootInv
<1> QED BY <1>1 DEF Objects

\* A replica that serves finds every extension, table, policy and trigger:
\* MemoryEngine::postgres, for any number of replicas, failures and crashes.
THEOREM ServingReplicasAreProtected == Spec => []ServingIsProtected
BY TypeInit, TypeStep, LockInit, LockStep, BootInit, BootStepKeeps, ServingHasAll, PTL
   DEF Spec, BootSafe

\* No statement of a boot fails because another replica boots too: the claim of
\* ensure_extensions and ensure_schema.
THEOREM BootsDoNotCollide == Spec => []NoCollision
BY TypeInit, TypeStep, LockInit, LockStep, BootInit, BootStepKeeps, PTL
   DEF Spec, BootSafe
=============================================================================
