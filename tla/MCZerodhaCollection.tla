------------------------- MODULE MCZerodhaCollection -------------------------
(***************************************************************************)
(* Instances of ZerodhaCollection for TLC: what a caller may ask for.      *)
(***************************************************************************)
EXTENDS ZerodhaCollection

\* An unsupported capability among others, and a two-endpoint one.
SharedRequests ==
    {{"activities", "holdings", "prices"}, {"balances", "activities"}}

=============================================================================
