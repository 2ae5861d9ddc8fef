\* A nonce factory that repeats itself, a mangled token, calls that may never
\* be answered; no symmetry, which is unsound for liveness.
SPECIFICATION FairSpec
CONSTANTS
    Scope = {s1}
    ApiKey = {k1}
    Nonce = {n1, short}
    Stray = {stray}
    RequestToken = {t1, blank}
    Malformed = {short, blank}
    Attempt = {a1, a2}
    Callback = {c1, c2}
    Faults = {"rejected", "throttled", "unavailable", "refused", "oversized",
              "unreadable", "nonascii"}
    NonceTTL = 1
    MaxTime = 1
    FreshNonces = FALSE
    None = None
INVARIANTS
    SingleUse
    LoginNeverOrphaned
    RefusalIsSideEffectFree
PROPERTIES
    ImplementsOneTimeGrant
    CallbackSettles
CHECK_DEADLOCK FALSE
