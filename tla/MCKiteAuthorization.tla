------------------------- MODULE MCKiteAuthorization -------------------------
(***************************************************************************)
(* Instances of KiteAuthorization for TLC.                                 *)
(***************************************************************************)
EXTENDS KiteAuthorization, TLC

\* Calls, scopes and keys are interchangeable; nonces and tokens are too,
\* apart from the malformed ones.
Symmetry ==
    UNION {Permutations(S) : S \in
        {Callback, Attempt, Scope, ApiKey, Nonce \ Malformed, RequestToken \ Malformed}}

=============================================================================
