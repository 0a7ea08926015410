SPECIFICATION Spec
CONSTANTS
    q1 = q1
    q2 = q2
    q3 = q3
    q4 = q4
    p1 = p1
    p2 = p2
    Requests = {q1, q2, q3, q4}
    Probes = {p1, p2}
    MaxInflight = 2
    MaxConnections = 4
    MaxRetries = 2
INVARIANTS
    TypeOK
    CounterExact
    PoolSuffices
PROPERTIES
    RejectedOnlyWhenFull
CHECK_DEADLOCK FALSE
