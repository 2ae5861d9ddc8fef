\* Two calls, one connection, a session that expires and may be revoked,
\* responses that may never come.  No symmetry: it is unsound for liveness.
SPECIFICATION FairSpec
CONSTANTS
    Collector = {c1, c2}
    Requests = {{"accounts", "activities", "balances"}}
    Reply = {"ok", "untyped", "unauthorized"}
    HasToken = TRUE
    ExpiresAt = 1
    PoolSize = 1
    MaxTime = 1
    None = None
INVARIANTS
    EvidenceMatches
    ResultComplete
    ConstructorsAccept
    AuthenticationFailureIsFinal
PROPERTIES
    CollectSettles
    StampNeverLate
CHECK_DEADLOCK FALSE
