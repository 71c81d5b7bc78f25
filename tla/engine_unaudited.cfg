CONSTANTS
    Clients = {c1}
    Tenants = {t1}
    Memories = {m1, m2}
    MaxLinks = 0
    MaxEvents = 4
    MaxBackstep = 0
    MayFail = TRUE
    ForgetEvents = FALSE
    ImmutableAudit = FALSE
    StaleLinks = TRUE
    NoCall = NoCall
SPECIFICATION Spec
SYMMETRY Symmetry
INVARIANT EveryChangeAudited
