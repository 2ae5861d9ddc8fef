--------------------------- MODULE SecretEnvelope ---------------------------
(***************************************************************************)
(* Envelope encryption (persistence/envelope.py): encrypt_secret and       *)
(* decrypt_secret over a FileKeyEncryptionKeyProvider, while operators     *)
(* replace the key file and deploy providers with another key version.     *)
(*                                                                         *)
(* Cryptography is symbolic: a wrapped DEK opens under the KEK it was      *)
(* wrapped with, and a ciphertext under its DEK, nonce and associated      *)
(* data; anything else is InvalidUnwrap or InvalidTag.  A call's DEK and   *)
(* nonce are random and known by the call.                                 *)
(***************************************************************************)
CONSTANTS
    Encryption,   \* calls of encrypt_secret
    Decryption,   \* calls of decrypt_secret
    Version,      \* KEK versions
    Material,     \* 256-bit key material
    Plaintext,
    Data,         \* associated data
    Unbounded,    \* associated data that is empty or above 8 KiB
    None

VARIABLES
    file,      \* the key file: its bytes and whether it is regular and owner-only, or None
    deployed,  \* the version of the providers that new calls are given
    stage,     \* call -> where it stands, or how it ended
    provider,  \* call -> its provider's version
    sealing,   \* Encryption -> its plaintext and associated data, or None
    opening,   \* Decryption -> the secret and the associated data it was given, or None
    secrets,   \* Encryption -> the EncryptedSecret it returned, or None
    opened     \* Decryption -> the plaintext it returned, or None

argumentVars == <<provider, sealing, opening>>
resultVars == <<secrets, opened>>
vars == <<file, deployed, stage, argumentVars, resultVars>>

Call == Encryption \union Decryption

\* What a file may hold: a key, or bytes of another length.
Bytes == Material \union {None}
File == [bytes : Bytes, private : BOOLEAN] \union {None}

ASSUME EnvelopeAssumption ==
    /\ Encryption \intersect Decryption = {}
    /\ Unbounded \subseteq Data
    /\ None \notin Material \union Plaintext \union Version

-----------------------------------------------------------------------------
(* Values.                                                                 *)

\* Mutant: the caller's data is left out.
BindVersionOnly(data, version) == <<"portfolio-manager:v1", version>>

\* _bind_associated_data: versions have no NUL, so the pair can be read back.
Bind(data, version) == <<"portfolio-manager:v1", version, data>>

Wrapped(kek, dek) == [kek |-> kek, dek |-> dek]
Sealed(dek, nonce, bound, plaintext) ==
    [dek |-> dek, nonce |-> nonce, bound |-> bound, plaintext |-> plaintext]

\* What encrypt_secret makes of its inputs.
Encrypted(e, version, material, data, plaintext) ==
    [key_version |-> version,
     wrapped_dek |-> Wrapped(material, e),
     nonce       |-> e,
     ciphertext  |-> Sealed(e, e, Bind(data, version), plaintext)]

\* Whether unwrapping and AES-GCM accept the fields of a secret.
Authentic(x, material, data) ==
    /\ x.wrapped_dek.kek = material
    /\ x.ciphertext.dek = x.wrapped_dek.dek
    /\ x.ciphertext.nonce = x.nonce
    /\ x.ciphertext.bound = Bind(data, x.key_version)

-----------------------------------------------------------------------------
Init ==
    /\ file \in File
    /\ deployed \in Version
    /\ stage = [c \in Call |-> "idle"]
    /\ provider = [c \in Call |-> None]
    /\ sealing = [e \in Encryption |-> None]
    /\ opening = [d \in Decryption |-> None]
    /\ secrets = [e \in Encryption |-> None]
    /\ opened = [d \in Decryption |-> None]

Advance(c, where) == stage' = [stage EXCEPT ![c] = where]

-----------------------------------------------------------------------------
(* The operators: none of these steps is coordinated with any call.        *)

ReplaceFile(f) ==
    /\ file' = f
    /\ UNCHANGED <<deployed, stage, argumentVars, resultVars>>

Deploy(v) ==
    /\ deployed' = v
    /\ UNCHANGED <<file, stage, argumentVars, resultVars>>

-----------------------------------------------------------------------------
(* FileKeyEncryptionKeyProvider._load: lstat, then read.                   *)

Inspect(c) ==
    /\ stage[c] = "loading"
    /\ file # None
    /\ Advance(c, IF file.private THEN "reading" ELSE "ValueError")
    /\ UNCHANGED <<file, deployed, argumentVars, resultVars>>

\* The file is missing, or went away after it was inspected.
Missing(c) ==
    /\ stage[c] \in {"loading", "reading"}
    /\ file = None
    /\ Advance(c, "OSError")
    /\ UNCHANGED <<file, deployed, argumentVars, resultVars>>

\* What is there now is not a key.
NotAKey(c) ==
    /\ stage[c] = "reading"
    /\ file # None
    /\ file.bytes = None
    /\ Advance(c, "ValueError")
    /\ UNCHANGED <<file, deployed, argumentVars, resultVars>>

Readable == IF file = None THEN FALSE ELSE file.bytes # None

-----------------------------------------------------------------------------
(* encrypt_secret                                                          *)

Encrypt(e, plaintext, data) ==
    /\ stage[e] = "idle"
    /\ Advance(e, IF data \in Unbounded THEN "ValueError" ELSE "loading")
    /\ provider' = [provider EXCEPT ![e] = deployed]
    /\ sealing' = [sealing EXCEPT ![e] = [plaintext |-> plaintext, data |-> data]]
    /\ UNCHANGED <<file, deployed, opening, resultVars>>

\* Mutant: the version is read again when the secret is built.
SealRelabelled(e) ==
    /\ stage[e] = "reading"
    /\ Readable
    /\ secrets' = [secrets EXCEPT ![e] =
          [Encrypted(e, provider[e], file.bytes, sealing[e].data, sealing[e].plaintext)
             EXCEPT !.key_version = deployed]]
    /\ Advance(e, "returned")
    /\ UNCHANGED <<file, deployed, argumentVars, opened>>

Seal(e) ==
    /\ stage[e] = "reading"
    /\ Readable
    /\ secrets' = [secrets EXCEPT ![e] =
          Encrypted(e, provider[e], file.bytes, sealing[e].data, sealing[e].plaintext)]
    /\ Advance(e, "returned")
    /\ UNCHANGED <<file, deployed, argumentVars, opened>>

-----------------------------------------------------------------------------
(* decrypt_secret                                                          *)

Kept == {secrets[e] : e \in {f \in Encryption : secrets[f] # None}}

\* The caller reads its columns from wherever they were stored: the fields of
\* a secret may have come from several rows, and its version from anywhere.
Presented ==
    {[key_version |-> v, wrapped_dek |-> x.wrapped_dek,
      nonce |-> y.nonce, ciphertext |-> z.ciphertext] :
        v \in Version, x \in Kept, y \in Kept, z \in Kept}

\* The data is validated first; get refuses every version but its own.
Decrypt(d, x, data) ==
    /\ stage[d] = "idle"
    /\ Advance(d, IF data \in Unbounded THEN "ValueError"
                  ELSE IF x.key_version # deployed THEN "SecretDecryptionError"
                  ELSE "loading")
    /\ provider' = [provider EXCEPT ![d] = deployed]
    /\ opening' = [opening EXCEPT ![d] = [secret |-> x, data |-> data]]
    /\ UNCHANGED <<file, deployed, sealing, resultVars>>

Open(d) ==
    /\ stage[d] = "reading"
    /\ Readable
    /\ IF Authentic(opening[d].secret, file.bytes, opening[d].data)
         THEN /\ opened' = [opened EXCEPT ![d] = opening[d].secret.ciphertext.plaintext]
              /\ Advance(d, "returned")
         ELSE /\ UNCHANGED opened
              /\ Advance(d, "SecretDecryptionError")
    /\ UNCHANGED <<file, deployed, argumentVars, secrets>>

-----------------------------------------------------------------------------
Operate ==
    \/ \E f \in File : ReplaceFile(f)
    \/ \E v \in Version : Deploy(v)

Load(c) == Inspect(c) \/ Missing(c) \/ NotAKey(c)

Next ==
    \/ Operate
    \/ \E c \in Call : Load(c)
    \/ \E e \in Encryption :
          \/ \E p \in Plaintext, a \in Data : Encrypt(e, p, a)
          \/ Seal(e)
    \/ \E d \in Decryption :
          \/ \E x \in Presented, a \in Data : Decrypt(d, x, a)
          \/ Open(d)

Spec == Init /\ [][Next]_vars

-----------------------------------------------------------------------------
(* Properties.                                                             *)

Secret ==
    [key_version : Version,
     wrapped_dek : [kek : Material, dek : Encryption],
     nonce       : Encryption,
     ciphertext  : [dek : Encryption, nonce : Encryption, plaintext : Plaintext,
                    bound : {Bind(a, v) : a \in Data, v \in Version}]]

\* Every variable keeps its shape.
TypeOK ==
    /\ file \in File
    /\ deployed \in Version
    /\ stage \in [Call -> {"idle", "loading", "reading", "returned",
                           "OSError", "ValueError", "SecretDecryptionError"}]
    /\ provider \in [Call -> Version \union {None}]
    /\ sealing \in
         [Encryption -> [plaintext : Plaintext, data : Data] \union {None}]
    /\ opening \in [Decryption -> [secret : Secret, data : Data] \union {None}]
    /\ secrets \in [Encryption -> Secret \union {None}]
    /\ opened \in [Decryption -> Plaintext \union {None}]

\* A call of decrypt_secret returns a plaintext only if every field it was
\* given came from one call of encrypt_secret with that plaintext and the same
\* associated data, under the version it was encrypted under; replacing key
\* files or relabelling versions never makes a mixed-up secret readable.
OpenedIsWhatWasSealed ==
    \A d \in Decryption : stage[d] = "returned" =>
        \E e \in Encryption :
            /\ secrets[e] = opening[d].secret
            /\ sealing[e] = [plaintext |-> opened[d], data |-> opening[d].data]
            /\ provider[e] = provider[d]

\* A secret returned by a call is never refused under the key it was sealed
\* with: presented unchanged, with its data, to a provider of its version while
\* the file holds its material, it opens, even if the file or the deployed
\* version changed while it was being sealed.
SealedOpens ==
    [][\A d \in Decryption, e \in Encryption :
          /\ stage[d] = "reading" /\ stage'[d] = "SecretDecryptionError"
          /\ secrets[e] # None /\ opening[d].secret = secrets[e]
          => \/ opening[d].data # sealing[e].data
             \/ file.bytes # secrets[e].wrapped_dek.kek]_vars

=============================================================================
