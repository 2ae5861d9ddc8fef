\* An error that is not a ConnectorError, after an artifact was gathered.
SPECIFICATION Spec
CONSTANTS
    Collector = {c1}
    Requests <- SharedRequests
    Reply = {"ok", "untyped", "unauthorized", "throttled"}
    HasToken = TRUE
    ExpiresAt = 1
    PoolSize = 1
    MaxTime = 1
    None = None
INVARIANTS
    PartialSuccessIsResult
CHECK_DEADLOCK FALSE
