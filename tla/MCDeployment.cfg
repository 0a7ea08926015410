SPECIFICATION Spec
CONSTANTS
    Types <- MCTypes
    Strategies <- MCStrategies
    None = None
    Malformed = Malformed
    Configured = Configured
    Containers = {c1, c2}
    MaxWorkers = 2
    Ids = {id1}
    Records = {r1, r2}
    Environments <- MCEnvironments
    MaxStarts = 2
INVARIANTS
    SecretsShared
    RecordsReadable
    OnlyValidPolicies
CHECK_DEADLOCK FALSE
