\* Two secrets, one decryption, two key versions and two keys that operators
\* swap at any time.
SPECIFICATION Spec
CONSTANTS
    Encryption = {e1, e2}
    Decryption = {d1}
    Version = {v1, v2}
    Material = {m1, m2}
    Plaintext = {p1, p2}
    Data = {scope, other, huge}
    Unbounded = {huge}
    None = None
SYMMETRY Symmetry
INVARIANTS
    OpenedIsWhatWasSealed
PROPERTIES
    SealedOpens
CHECK_DEADLOCK FALSE
