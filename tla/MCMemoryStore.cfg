SPECIFICATION Spec
CONSTANTS
    k1 = k1
    k2 = k2
    k3 = k3
    a = a
    b = b
    None = None
    Keys = {k1, k2, k3}
    Records = {a, b}
    Ttl = 1
    MaxItems = 2
    MaxTime = 4
INVARIANTS
    TypeOK
PROPERTIES
    ContractKept
    Retained
