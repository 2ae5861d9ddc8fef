--------------------------- MODULE MCSqlNonceStore ---------------------------
(***************************************************************************)
(* Instances of SqlNonceStore for TLC: three nonces, two of them with the  *)
(* same digest, two tenants with a connection each, and a fourth nonce     *)
(* that names the connection of the other tenant.                          *)
(***************************************************************************)
EXTENDS SqlNonceStore, TLC

CONSTANTS n1, n2, n3, n4, d1, d2, k1, k2, x1, x2

\* n1 and n2 collide although their connections differ.
Collide == (n1 :> d1) @@ (n2 :> d1) @@ (n3 :> d2) @@ (n4 :> d2)
Belongs == (n1 :> k1) @@ (n2 :> k2) @@ (n3 :> k1) @@ (n4 :> k2)
Owns    == (k1 :> x1) @@ (k2 :> x2)
Meant   == (n1 :> x1) @@ (n2 :> x2) @@ (n3 :> x1) @@ (n4 :> x1)

\* Callers establish either tenant, or none.
AnyContext == {x1, x2, None}

=============================================================================
