----------------------------- MODULE LoginGrants -----------------------------
(***************************************************************************)
(* LoginTransactions with two history variables, which no step reads, and  *)
(* with them the promise OneTimeGrant makes of the whole flow.             *)
(*                                                                         *)
(* A login URL is a grant.  It is open from the commit of the transaction  *)
(* that issued its nonce, taken by a login at the commit of the one that   *)
(* consumed it, and redeemed by the exchange that succeeded.               *)
(***************************************************************************)
EXTENDS LoginTransactions

VARIABLES
    opened,  \* nonces that were ever committed
    taken    \* pairs <<nonce, login>> of consumptions that were committed

grantVars == <<loginVars, opened, taken>>

GrantInit ==
    /\ LoginInit
    /\ opened = {}
    /\ taken = {}

\* The sessions whose row this step consumes for good.
Takes == {s \in Session : Stage(s) = "consumed" /\ serving[s].row \in consumed' \ consumed}

Record ==
    /\ opened' = opened \union rows'
    /\ taken' = taken \union {<<serving[s].row, serving[s].login>> : s \in Takes}

GrantNext == LoginNext /\ Record

GrantSpec == GrantInit /\ [][GrantNext]_grantVars

Redeemed == {<<g.row, g.login>> : g \in succeeded}

OTG == INSTANCE OneTimeGrant
         WITH Grant <- Nonce, Holder <- Login, open <- opened \ consumed, redeemed <- Redeemed

\* Every caller commits a call of the store before the service goes on, and
\* digests do not collide.
CommittingCallers ==
    /\ Spanning = {}
    /\ \A m, n \in Nonce : DigestOf[m] = DigestOf[n] => m = n

\* Every behaviour of the service over the SQL store, seen through this
\* mapping, is one of one-time grants, if CommittingCallers.
ImplementsOneTimeGrant == OTG!Spec

=============================================================================
