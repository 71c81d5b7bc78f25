CONSTANTS
    Clients = {c1, c2}
    Tenants = {t1}
    Memories = {m1, m2}
    MaxLinks = 0
    MaxEvents = 4
    MaxBackstep = 0
    MayFail = FALSE
    ForgetEvents = FALSE
    ImmutableAudit = FALSE
    StaleLinks = FALSE
    NoCall = NoCall
SPECIFICATION Spec
SYMMETRY Symmetry
INVARIANT ChainLinear
