\* Two sessions, colliding digests, two tenants, a connection that goes away;
\* no symmetry, which is unsound for liveness.
SPECIFICATION FairSpec
CONSTANTS
    n1 = n1 n2 = n2 n3 = n3 n4 = n4
    d1 = d1 d2 = d2
    k1 = k1 k2 = k2
    x1 = x1 x2 = x2
    Session = {s1, s2}
    Nonce = {n1, n2, n3, n4}
    Digest = {d1, d2}
    Connection = {k1, k2}
    Contexts <- AnyContext
    Removable = {k1}
    Tenant = {x1, x2}
    DigestOf <- Collide
    ConnectionOf <- Belongs
    TenantOf <- Owns
    OwnerOf <- Meant
    None = None
INVARIANTS
    ExclusiveConsumption
    ConsumedIsGone
    TableIntegrity
    NobodyWaitsInVain
PROPERTIES
    TenantIsolation
    ImplementsNonceTable
    CallSettles
CHECK_DEADLOCK FALSE
