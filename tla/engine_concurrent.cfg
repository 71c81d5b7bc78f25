CONSTANTS
    Clients = {c1, c2}
    Tenants = {t1, t2}
    Memories = {m1, m2}
    MaxLinks = 1
    MaxEvents = 3
    MaxBackstep = 1
    MayFail = TRUE
    ForgetEvents = TRUE
    ImmutableAudit = TRUE
    StaleLinks = FALSE
    NoCall = NoCall
SPECIFICATION Spec
SYMMETRY Symmetry
INVARIANTS
    TypeOK
    ForgetIsFinal
    AnswersAreLogged
    ErasureInv
    ChainInv
PROPERTIES
    AppendOnly
    LedgerSpec
