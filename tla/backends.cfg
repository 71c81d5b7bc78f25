CONSTANTS
    Sessions = {s1, s2}
    Tenants = {a, b}
    Ids = {m, n}
    Minted <- MCMinted
    Nobody = Nobody
    Callers = {c1, c2}
    Memories = {m, n}
    Pairs <- MCPairs
    Procs = {p, q}
    Threads = {t1, t2}
    Nodes <- MCNodes
    Links <- MCLinks
    n1 = n1
    n2 = n2
    n3 = n3
    Workers = {w1, w2, w3}
    Home <- MCHome
    Embeddables = {e1, e2}
    Idle = Idle
    a = a
    b = b
    m = m
    n = n
    p = p
    q = q
    w1 = w1
    w2 = w2
    w3 = w3
SPECIFICATION BackendsSpec
SYMMETRY Symmetry
INVARIANTS
    BackendsTypeOK
    PolicyIsExact
    AcknowledgedNodes
    RemovedStaysRemoved
    CacheIsDurable
    InFlightInv
    CacheMatchesFile
    VectorsDurable
    ForgottenNotAnswered
PROPERTIES
    StoreSpec
