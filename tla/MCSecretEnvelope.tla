-------------------------- MODULE MCSecretEnvelope --------------------------
(***************************************************************************)
(* Instances of SecretEnvelope for TLC.                                    *)
(***************************************************************************)
EXTENDS SecretEnvelope, TLC

\* Calls, key material and plaintexts are interchangeable.
Symmetry == Permutations(Encryption) \union Permutations(Material)
                \union Permutations(Plaintext)

=============================================================================
