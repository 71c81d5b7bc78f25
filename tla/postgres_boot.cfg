CONSTANTS
    Replicas = {r1, r2}
    NoReplica = NoReplica
    MayFail = TRUE
SPECIFICATION FairSpec
INVARIANTS
    ServingIsProtected
    NoCollision
PROPERTIES
    LockWaitEnds
