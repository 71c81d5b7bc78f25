CONSTANTS
    Keys = {k1, k2}
    Values = {v1}
    Ttls = {0, 1, 2, 3, 5}
    NoTtl = NoTtl
    Absent = Absent
    Failed = Failed
    MaxClock = 6
    Requests = {r1, r2}
    Orgs = {a, b}
    Budgeted = {b}
    Claims <- MCClaims
    Facts = {m}
    SessionIds = {s1}
    ApiKeys = {k}
    Caps = {0, 7}
    DefaultCap = 5
    None = None
    Probes = {p1, p2}
    Tokens = {a, b}
    Thoughts = {x, y}
    Owner <- MCOwner
    Fetches = {f1, f2}
    Closed = Closed
    Users = {u1, u2}
    Notes = {n}
    Environments <- MCEnvironments
    Nothing = Nothing
    Docs = {d1, d2, d3}
    MaxText = 3
    MaxSamples = 100
    a = a
    b = b
    x = x
    y = y
SPECIFICATION SurfacesSpec
SYMMETRY Symmetry
INVARIANTS
    SurfacesTypeOK
    EndedStaysEnded
    BudgetAnswers
    HealthHonest
    LinksHaveEnds
    AsTold
    PortsAgree
PROPERTIES
    PromiseSpec
    Entitled
CHECK_DEADLOCK FALSE
