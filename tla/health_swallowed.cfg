CONSTANTS
    Probes = {p1, p2}
SPECIFICATION HealthSpec
INVARIANTS
    HealthyMeansAnswered
