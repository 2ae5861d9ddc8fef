---------------------------- MODULE OneTimeGrant ----------------------------
(***************************************************************************)
(* What the interactive authorization flow promises, without nonces,       *)
(* digests, clocks or HTTP: a grant is opened once, taken by at most one   *)
(* holder, and redeemed at the broker at most once and only by the holder  *)
(* that took it.  KiteAuthorization implements this specification.         *)
(***************************************************************************)
CONSTANTS Grant, Holder

VARIABLES
    open,      \* grants a holder may still take
    taken,     \* pairs <<grant, holder>>, a grant and who took it
    redeemed   \* the pairs of taken that were presented at the broker

vars == <<open, taken, redeemed>>

Init ==
    /\ open = {}
    /\ taken = {}
    /\ redeemed = {}

Takers(g) == {h \in Holder : <<g, h>> \in taken}
Holdings(h) == {g \in Grant : <<g, h>> \in taken}

Open(g) ==
    /\ g \notin open
    /\ Takers(g) = {}
    /\ open' = open \union {g}
    /\ UNCHANGED <<taken, redeemed>>

Take(g, h) ==
    /\ g \in open
    /\ Holdings(h) = {}
    /\ open' = open \ {g}
    /\ taken' = taken \union {<<g, h>>}
    /\ UNCHANGED redeemed

Redeem(g, h) ==
    /\ <<g, h>> \in taken \ redeemed
    /\ redeemed' = redeemed \union {<<g, h>>}
    /\ UNCHANGED <<open, taken>>

Next ==
    \/ \E g \in Grant : Open(g)
    \/ \E g \in Grant, h \in Holder : Take(g, h) \/ Redeem(g, h)

Spec == Init /\ [][Next]_vars

=============================================================================
