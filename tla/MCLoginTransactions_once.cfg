\* A transaction that spans complete is rolled back after the exchange.
SPECIFICATION LoginSpec
CONSTANTS
    Session = {s1, s2}
    Nonce = {n1, n2}
    Digest = {d1, d2}
    Connection = {k1}
    Tenant = {x1}
    DigestOf <- Apart
    ConnectionOf <- AllOf
    TenantOf <- Owns
    OwnerOf <- Meant
    Contexts = {x1}
    Removable = {k1}
    None = None
    Login = {l1, l2}
    Spanning = {s1}
    n1 = n1 n2 = n2
    d1 = d1 d2 = d2
    k1 = k1 x1 = x1
INVARIANTS
    CallbackSucceedsOnce
CHECK_DEADLOCK FALSE
