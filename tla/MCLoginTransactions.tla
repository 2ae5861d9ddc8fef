------------------------ MODULE MCLoginTransactions ------------------------
(***************************************************************************)
(* Instances of LoginTransactions for TLC: two nonces of one connection,   *)
(* in whose tenant callers establish their context.                        *)
(***************************************************************************)
EXTENDS LoginTransactions, TLC

CONSTANTS n1, n2, d1, d2, k1, x1

Apart == (n1 :> d1) @@ (n2 :> d2)
AllOf == [n \in Nonce |-> k1]
Owns  == (k1 :> x1)
Meant == [n \in Nonce |-> x1]

=============================================================================
