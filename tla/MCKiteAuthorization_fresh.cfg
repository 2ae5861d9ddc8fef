\* Random nonces: two start calls of either scope and key, two callbacks, two
\* request tokens, and a deadline the clock can pass.
SPECIFICATION Spec
CONSTANTS
    Scope = {s1, s2}
    ApiKey = {k1, k2}
    Nonce = {n1, n2}
    Stray = {stray}
    RequestToken = {t1, t2}
    Malformed = {}
    Attempt = {a1, a2}
    Callback = {c1, c2}
    Faults = {"rejected", "unreadable"}
    NonceTTL = 1
    MaxTime = 2
    FreshNonces = TRUE
    None = None
SYMMETRY Symmetry
INVARIANTS
    ReplayRejected
    ResultScoped
PROPERTIES
    TimelyExchange
CHECK_DEADLOCK FALSE
