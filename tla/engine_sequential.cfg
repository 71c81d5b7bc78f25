CONSTANTS
    Clients = {c1}
    Tenants = {t1}
    Memories = {m1, m2, m3}
    MaxLinks = 2
    MaxEvents = 5
    MaxBackstep = 0
    MayFail = FALSE
    ForgetEvents = FALSE
    ImmutableAudit = FALSE
    StaleLinks = FALSE
    NoCall = NoCall
    Readers = {r1}
    K = 2
SPECIFICATION ReadsSpec
SYMMETRY Symmetry
INVARIANTS
    ForgottenEverywhere
    StaleVectorsAreInert
    ChainLinear
