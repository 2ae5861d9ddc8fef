----------------------------- MODULE NonceTable -----------------------------
(***************************************************************************)
(* What the table of authorization nonces promises to those who commit     *)
(* transactions on it, without sessions, locks, policies or rollbacks: a   *)
(* transaction happens at once, when it is committed.  SqlNonceStore       *)
(* implements this specification.                                          *)
(***************************************************************************)
CONSTANTS Nonce, Connection, DigestOf, ConnectionOf, TenantOf, OwnerOf

VARIABLES
    stored,       \* nonces in the table
    used,         \* nonces whose consumption was committed
    connections   \* connections that exist

vars == <<stored, used, connections>>

Init ==
    /\ stored = {}
    /\ used = {}
    /\ connections = Connection

\* Nonces of a connection of their tenant that were never in the table: those
\* that were are in it still, were used, or went with their connection.
Unborn ==
    {n \in Nonce \ (stored \union used) :
        ConnectionOf[n] \in connections /\ TenantOf[ConnectionOf[n]] = OwnerOf[n]}

OneTenant(N) == \A m, n \in N : OwnerOf[m] = OwnerOf[n]
Unique(N) == \A m, n \in N : DigestOf[m] = DigestOf[n] => m = n

\* A transaction adds the nonces I and uses up the nonces U, which were in the
\* table or are its own.
Transact(I, U) ==
    /\ I \subseteq Unborn
    /\ U \subseteq (stored \union Unborn) \ I
    /\ OneTenant(I \union U)
    /\ stored' = (stored \ U) \union I
    /\ Unique(stored')
    /\ used' = used \union U
    /\ UNCHANGED connections

\* A connection is removed and its nonces with it.
Remove(k) ==
    /\ connections' = connections \ {k}
    /\ stored' = {n \in stored : ConnectionOf[n] # k}
    /\ UNCHANGED used

Next ==
    \/ \E I, U \in SUBSET Nonce : Transact(I, U)
    \/ \E k \in connections : Remove(k)

Spec == Init /\ [][Next]_vars

=============================================================================
