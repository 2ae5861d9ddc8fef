------------------------ MODULE SecretEnvelope_proofs ------------------------
(***************************************************************************)
(* Proofs about SecretEnvelope for any number of calls, key versions, keys *)
(* and associated data.                                                    *)
(***************************************************************************)
EXTENDS SecretEnvelope, TLAPS

-----------------------------------------------------------------------------
(* The inductive invariant.                                                *)

Running == {"loading", "reading", "returned"}

\* A call that got past its arguments has them, and a provider.
Started ==
    /\ \A e \in Encryption : stage[e] \in Running =>
          /\ provider[e] \in Version
          /\ sealing[e] \in [plaintext : Plaintext, data : Data]
    /\ \A d \in Decryption : stage[d] \in Running =>
          /\ opening[d] \in [secret : Secret, data : Data]
          /\ opening[d].secret.key_version = provider[d]

\* A kept secret is what its call made of its arguments and some key.
Faithful ==
    \A e \in Encryption : secrets[e] # None =>
        /\ stage[e] = "returned"
        /\ \E k \in Material :
              secrets[e] = Encrypted(e, provider[e], k, sealing[e].data, sealing[e].plaintext)

\* The fields of a presented secret come from kept secrets.
Composed ==
    \A d \in Decryption : stage[d] \in Running =>
        \E x, y, z \in Encryption :
            /\ secrets[x] # None /\ opening[d].secret.wrapped_dek = secrets[x].wrapped_dek
            /\ secrets[y] # None /\ opening[d].secret.nonce = secrets[y].nonce
            /\ secrets[z] # None /\ opening[d].secret.ciphertext = secrets[z].ciphertext

\* OpenedIsWhatWasSealed, by a call of encrypt_secret that has returned.
Traced ==
    \A d \in Decryption : stage[d] = "returned" =>
        \E e \in Encryption :
            /\ stage[e] = "returned"
            /\ secrets[e] = opening[d].secret
            /\ sealing[e] = [plaintext |-> opened[d], data |-> opening[d].data]
            /\ provider[e] = provider[d]

IInv == TypeOK /\ Started /\ Faithful /\ Composed /\ Traced

-----------------------------------------------------------------------------
(* Values.                                                                 *)

LEMMA EncryptedType ==
    ASSUME NEW e \in Encryption, NEW v \in Version, NEW k \in Material,
           NEW a \in Data, NEW p \in Plaintext
    PROVE  Encrypted(e, v, k, a, p) \in Secret
BY DEF Encrypted, Secret, Wrapped, Sealed

LEMMA EncryptedFields ==
    ASSUME NEW e, NEW v, NEW k, NEW a, NEW p
    PROVE  /\ Encrypted(e, v, k, a, p).key_version = v
           /\ Encrypted(e, v, k, a, p).wrapped_dek.dek = e
           /\ Encrypted(e, v, k, a, p).nonce = e
           /\ Encrypted(e, v, k, a, p).ciphertext.dek = e
           /\ Encrypted(e, v, k, a, p).ciphertext.nonce = e
           /\ Encrypted(e, v, k, a, p).ciphertext.bound = Bind(a, v)
           /\ Encrypted(e, v, k, a, p).ciphertext.plaintext = p
BY DEF Encrypted, Wrapped, Sealed

\* Secrets with the same fields are the same.
LEMMA SameSecret ==
    ASSUME NEW x \in Secret, NEW y \in Secret,
           x.key_version = y.key_version, x.wrapped_dek = y.wrapped_dek,
           x.nonce = y.nonce, x.ciphertext = y.ciphertext
    PROVE  x = y
BY DEF Secret

LEMMA BindInjective ==
    ASSUME NEW a, NEW b, NEW v, NEW w, Bind(a, v) = Bind(b, w)
    PROVE  a = b /\ v = w
BY DEF Bind

\* Fields of three secrets that authenticate together are those of one secret.
LEMMA AuthenticIsOne ==
    ASSUME IInv, NEW d \in Decryption, stage[d] = "reading",
           NEW k, Authentic(opening[d].secret, k, opening[d].data)
    PROVE  \E e \in Encryption :
              /\ stage[e] = "returned"
              /\ secrets[e] = opening[d].secret
              /\ sealing[e] = [plaintext |-> opening[d].secret.ciphertext.plaintext,
                               data |-> opening[d].data]
              /\ provider[e] = provider[d]
<1>1. PICK s \in Secret, a \in Data :
         /\ s = opening[d].secret /\ a = opening[d].data
         /\ s.key_version = provider[d]
  BY DEF IInv, Started, Running
<1>2. PICK x, y, z \in Encryption :
         /\ secrets[x] # None /\ s.wrapped_dek = secrets[x].wrapped_dek
         /\ secrets[y] # None /\ s.nonce = secrets[y].nonce
         /\ secrets[z] # None /\ s.ciphertext = secrets[z].ciphertext
  BY <1>1 DEF IInv, Composed, Running
<1>3. ASSUME NEW e \in Encryption, secrets[e] # None
      PROVE  /\ secrets[e] \in Secret /\ stage[e] = "returned"
             /\ secrets[e].key_version = provider[e]
             /\ secrets[e].wrapped_dek.dek = e
             /\ secrets[e].nonce = e
             /\ secrets[e].ciphertext.dek = e
             /\ secrets[e].ciphertext.nonce = e
             /\ secrets[e].ciphertext.bound = Bind(sealing[e].data, provider[e])
             /\ secrets[e].ciphertext.plaintext = sealing[e].plaintext
  <2>1. PICK key \in Material :
           secrets[e] = Encrypted(e, provider[e], key, sealing[e].data, sealing[e].plaintext)
    BY <1>3 DEF IInv, Faithful
  <2>2. secrets[e] \in Secret /\ stage[e] = "returned"
    BY <1>3 DEF IInv, TypeOK, Faithful
  <2>. QED
    BY <2>1, <2>2, EncryptedFields
<1>4. /\ s.ciphertext.dek = s.wrapped_dek.dek
      /\ s.ciphertext.nonce = s.nonce
      /\ s.ciphertext.bound = Bind(a, s.key_version)
  BY <1>1 DEF Authentic
<1>5. x = z /\ y = z
  BY <1>2, <1>3, <1>4
<1>6. Bind(sealing[z].data, provider[z]) = Bind(a, s.key_version)
  BY <1>2, <1>3, <1>4
<1>7. sealing[z].data = a /\ provider[z] = s.key_version
  BY <1>6, BindInjective
<1>8. secrets[z] = s
  BY <1>2, <1>3, <1>5, <1>7, SameSecret
<1>9. sealing[z] \in [plaintext : Plaintext, data : Data]
  BY <1>2, <1>3 DEF IInv, Started, Running
<1>10. sealing[z] = [plaintext |-> s.ciphertext.plaintext, data |-> a]
  BY <1>2, <1>3, <1>7, <1>9
<1>. QED
  BY <1>1, <1>2, <1>3, <1>7, <1>8, <1>10

-----------------------------------------------------------------------------
(* The steps.                                                              *)

LEMMA InitIInv == Init => IInv
<1> SUFFICES ASSUME Init PROVE IInv
  OBVIOUS
<1>1. TypeOK
  BY DEF Init, TypeOK
<1>2. \A c \in Call : stage[c] = "idle"
  BY DEF Init
<1>3. \A e \in Encryption : secrets[e] = None
  BY DEF Init
<1>. QED
  BY <1>1, <1>2, <1>3 DEF IInv, Started, Faithful, Composed, Traced,
                          Running, Call

LEMMA QuietStep ==
    ASSUME IInv, Operate \/ UNCHANGED vars
    PROVE  IInv'
<1>1. UNCHANGED <<stage, argumentVars, resultVars>>
  BY DEF Operate, ReplaceFile, Deploy, vars
<1>2. file' \in File /\ deployed' \in Version
  BY DEF IInv, TypeOK, Operate, ReplaceFile, Deploy, vars
<1>. QED
  BY <1>1, <1>2 DEF IInv, TypeOK, Started, Faithful, Composed, Traced,
                    argumentVars, resultVars

LEMMA LoadStep ==
    ASSUME IInv, NEW c \in Call, Load(c)
    PROVE  IInv'
<1>1. /\ UNCHANGED <<file, deployed, argumentVars, resultVars>>
      /\ stage[c] \in {"loading", "reading"}
      /\ stage' = [stage EXCEPT ![c] = stage'[c]]
      /\ stage'[c] \in {"reading", "OSError", "ValueError"}
  BY DEF Load, Inspect, Missing, NotAKey, Advance, IInv, TypeOK
<1>2. TypeOK'
  BY <1>1 DEF IInv, TypeOK, argumentVars, resultVars
<1>3. Started'
  BY <1>1 DEF IInv, TypeOK, Started, Running, Call, argumentVars
<1>4. Faithful'
  BY <1>1 DEF IInv, TypeOK, Faithful, Call, argumentVars, resultVars
<1>5. Composed'
  <2>1. \A d \in Decryption : stage'[d] \in Running => stage[d] \in Running
    BY <1>1 DEF IInv, TypeOK, Call, Running
  <2>. QED
    BY <1>1, <2>1 DEF IInv, Composed, argumentVars, resultVars
<1>6. Traced'
  BY <1>1 DEF IInv, TypeOK, Traced, Call, argumentVars, resultVars
<1>. QED
  BY <1>2, <1>3, <1>4, <1>5, <1>6 DEF IInv

LEMMA EncryptStep ==
    ASSUME IInv, NEW e \in Encryption, NEW p \in Plaintext, NEW a \in Data, Encrypt(e, p, a)
    PROVE  IInv'
<1>1. /\ UNCHANGED <<file, deployed, opening, secrets, opened>>
      /\ stage[e] = "idle" /\ e \in Call /\ e \notin Decryption
      /\ stage' = [stage EXCEPT ![e] = stage'[e]]
      /\ stage'[e] \in {"ValueError", "loading"}
      /\ provider' = [provider EXCEPT ![e] = deployed]
      /\ sealing' = [sealing EXCEPT ![e] = [plaintext |-> p, data |-> a]]
  BY EnvelopeAssumption DEF Encrypt, Advance, IInv, TypeOK, Call, resultVars
<1>2. secrets[e] = None
  BY <1>1 DEF IInv, Faithful
<1>3. TypeOK'
  BY <1>1 DEF IInv, TypeOK
<1>4. Started'
  BY <1>1 DEF IInv, TypeOK, Started, Running, Call
<1>5. Faithful'
  BY <1>1, <1>2 DEF IInv, TypeOK, Faithful, Call
<1>6. Composed'
  BY <1>1 DEF IInv, TypeOK, Composed, Running, Call
<1>7. Traced'
  <2> SUFFICES ASSUME NEW d \in Decryption, stage'[d] = "returned"
               PROVE  \E f \in Encryption :
                         /\ stage'[f] = "returned"
                         /\ secrets[f] = opening[d].secret
                         /\ sealing'[f] = [plaintext |-> opened[d], data |-> opening[d].data]
                         /\ provider'[f] = provider'[d]
    BY <1>1 DEF Traced
  <2>1. stage[d] = "returned" /\ provider'[d] = provider[d]
    BY <1>1 DEF IInv, TypeOK, Call
  <2>2. PICK f \in Encryption :
           /\ stage[f] = "returned"
           /\ secrets[f] = opening[d].secret
           /\ sealing[f] = [plaintext |-> opened[d], data |-> opening[d].data]
           /\ provider[f] = provider[d]
    BY <2>1 DEF IInv, Traced
  <2>3. f # e /\ stage'[f] = "returned"
    BY <1>1, <2>2 DEF IInv, TypeOK, Call
  <2>. QED
    BY <1>1, <2>1, <2>2, <2>3 DEF IInv, TypeOK
<1>. QED
  BY <1>3, <1>4, <1>5, <1>6, <1>7 DEF IInv

LEMMA SealStep ==
    ASSUME IInv, NEW e \in Encryption, Seal(e)
    PROVE  IInv'
<1>1. PICK k \in Material :
         /\ UNCHANGED <<file, deployed, provider, sealing, opening, opened>>
         /\ stage[e] = "reading" /\ e \in Call /\ e \notin Decryption
         /\ stage' = [stage EXCEPT ![e] = "returned"]
         /\ secrets' = [secrets EXCEPT ![e] =
               Encrypted(e, provider[e], k, sealing[e].data, sealing[e].plaintext)]
  <2>1. file.bytes \in Material
    BY EnvelopeAssumption DEF Seal, Readable, IInv, TypeOK, File, Bytes
  <2>. QED
    BY <2>1, EnvelopeAssumption DEF Seal, Advance, Call, argumentVars
<1>2. /\ provider[e] \in Version
      /\ sealing[e].data \in Data /\ sealing[e].plaintext \in Plaintext
  BY <1>1 DEF IInv, Started, Running
<1>3. Encrypted(e, provider[e], k, sealing[e].data, sealing[e].plaintext) \in Secret
  BY <1>2, EncryptedType
<1>4. \A f \in Encryption \ {e} : secrets'[f] = secrets[f] /\ stage'[f] = stage[f]
  BY <1>1 DEF IInv, TypeOK
<1>5. \A d \in Decryption : stage'[d] = stage[d]
  BY <1>1 DEF IInv, TypeOK
<1>6. TypeOK'
  BY <1>1, <1>3 DEF IInv, TypeOK
<1>7. Started'
  BY <1>1, <1>5 DEF IInv, TypeOK, Started, Running, Call
<1>8. /\ stage'[e] = "returned"
      /\ secrets'[e] = Encrypted(e, provider[e], k, sealing[e].data, sealing[e].plaintext)
  BY <1>1 DEF IInv, TypeOK
<1>9. Faithful'
  BY <1>1, <1>4, <1>8 DEF IInv, Faithful
<1>10. secrets[e] = None
  BY <1>1 DEF IInv, Faithful
<1>11. Composed'
  <2> SUFFICES ASSUME NEW d \in Decryption, stage[d] \in Running
               PROVE  \E x, y, z \in Encryption :
                         /\ secrets'[x] # None
                         /\ opening[d].secret.wrapped_dek = secrets'[x].wrapped_dek
                         /\ secrets'[y] # None
                         /\ opening[d].secret.nonce = secrets'[y].nonce
                         /\ secrets'[z] # None
                         /\ opening[d].secret.ciphertext = secrets'[z].ciphertext
    BY <1>1, <1>5 DEF Composed
  <2>1. PICK x, y, z \in Encryption :
           /\ secrets[x] # None /\ opening[d].secret.wrapped_dek = secrets[x].wrapped_dek
           /\ secrets[y] # None /\ opening[d].secret.nonce = secrets[y].nonce
           /\ secrets[z] # None /\ opening[d].secret.ciphertext = secrets[z].ciphertext
    BY DEF IInv, Composed
  <2>2. x # e /\ y # e /\ z # e
    BY <1>10, <2>1
  <2>. QED
    BY <1>4, <2>1, <2>2
<1>12. Traced'
  <2> SUFFICES ASSUME NEW d \in Decryption, stage[d] = "returned"
               PROVE  \E f \in Encryption :
                         /\ stage'[f] = "returned"
                         /\ secrets'[f] = opening[d].secret
                         /\ sealing[f] = [plaintext |-> opened[d], data |-> opening[d].data]
                         /\ provider[f] = provider[d]
    BY <1>1, <1>5 DEF Traced
  <2>1. PICK f \in Encryption :
           /\ stage[f] = "returned"
           /\ secrets[f] = opening[d].secret
           /\ sealing[f] = [plaintext |-> opened[d], data |-> opening[d].data]
           /\ provider[f] = provider[d]
    BY DEF IInv, Traced
  <2>. QED
    BY <1>1, <1>4, <2>1
<1>. QED
  BY <1>6, <1>7, <1>9, <1>11, <1>12 DEF IInv

LEMMA DecryptStep ==
    ASSUME IInv, NEW d \in Decryption, NEW x \in Presented, NEW a \in Data, Decrypt(d, x, a)
    PROVE  IInv'
<1>1. PICK v \in Version, e, f, g \in Encryption :
         /\ secrets[e] # None /\ secrets[f] # None /\ secrets[g] # None
         /\ x = [key_version |-> v, wrapped_dek |-> secrets[e].wrapped_dek,
                 nonce |-> secrets[f].nonce, ciphertext |-> secrets[g].ciphertext]
  BY DEF Presented, Kept
<1>2. x \in Secret
  <2>1. secrets[e] \in Secret /\ secrets[f] \in Secret /\ secrets[g] \in Secret
    BY <1>1 DEF IInv, TypeOK
  <2>. QED
    BY <1>1, <2>1 DEF Secret
<1>3. /\ UNCHANGED <<file, deployed, sealing, secrets, opened>>
      /\ d \in Call /\ d \notin Encryption
      /\ stage' = [stage EXCEPT ![d] = stage'[d]]
      /\ stage'[d] \in {"ValueError", "SecretDecryptionError", "loading"}
      /\ stage'[d] = "loading" => x.key_version = deployed
      /\ provider' = [provider EXCEPT ![d] = deployed]
      /\ opening' = [opening EXCEPT ![d] = [secret |-> x, data |-> a]]
  BY EnvelopeAssumption DEF Decrypt, Advance, IInv, TypeOK, Call, resultVars
<1>4. TypeOK'
  BY <1>2, <1>3 DEF IInv, TypeOK
<1>5. /\ \A c \in Encryption : stage'[c] = stage[c] /\ provider'[c] = provider[c]
      /\ \A c \in Decryption \ {d} :
            stage'[c] = stage[c] /\ provider'[c] = provider[c] /\ opening'[c] = opening[c]
      /\ provider'[d] = deployed /\ opening'[d] = [secret |-> x, data |-> a]
  BY <1>3 DEF IInv, TypeOK, Call
<1>6. Started'
  BY <1>2, <1>3, <1>5 DEF IInv, Started, Running
<1>7. Faithful'
  BY <1>3, <1>5 DEF IInv, Faithful
<1>8. Composed'
  BY <1>1, <1>3, <1>5 DEF IInv, Composed
<1>9. Traced'
  BY <1>3, <1>5 DEF IInv, Traced
<1>. QED
  BY <1>4, <1>6, <1>7, <1>8, <1>9 DEF IInv

LEMMA OpenStep ==
    ASSUME IInv, NEW d \in Decryption, Open(d)
    PROVE  IInv'
<1>1. /\ UNCHANGED <<file, deployed, provider, sealing, opening, secrets>>
      /\ stage[d] = "reading" /\ d \in Call /\ d \notin Encryption
      /\ stage' = [stage EXCEPT ![d] = stage'[d]]
      /\ stage'[d] \in {"returned", "SecretDecryptionError"}
  BY EnvelopeAssumption DEF Open, Advance, IInv, TypeOK, Call, argumentVars
<1>2. \A c \in Call \ {d} : stage'[c] = stage[c]
  BY <1>1 DEF IInv, TypeOK
<1>3. Started'
  BY <1>1, <1>2 DEF IInv, Started, Running, Call
<1>4. Faithful'
  BY <1>1, <1>2 DEF IInv, Faithful, Call
<1>5. Composed'
  BY <1>1, <1>2 DEF IInv, Composed, Running, Call
<1>6. CASE Authentic(opening[d].secret, file.bytes, opening[d].data)
  <2>1. /\ stage'[d] = "returned"
        /\ opened' = [opened EXCEPT ![d] = opening[d].secret.ciphertext.plaintext]
    BY <1>1, <1>6 DEF Open, Advance, IInv, TypeOK
  <2>2. PICK e \in Encryption :
           /\ stage[e] = "returned"
           /\ secrets[e] = opening[d].secret
           /\ sealing[e] = [plaintext |-> opening[d].secret.ciphertext.plaintext,
                            data |-> opening[d].data]
           /\ provider[e] = provider[d]
    BY <1>1, <1>6, AuthenticIsOne
  <2>3. opening[d].secret.ciphertext.plaintext \in Plaintext
    BY <1>1 DEF IInv, Started, Running, Secret
  <2>4. TypeOK'
    BY <1>1, <2>1, <2>3 DEF IInv, TypeOK
  <2>5. /\ opened'[d] = opening[d].secret.ciphertext.plaintext
        /\ \A c \in Decryption \ {d} : opened'[c] = opened[c]
    BY <2>1 DEF IInv, TypeOK
  <2>6. Traced'
    BY <1>1, <1>2, <2>2, <2>5 DEF IInv, Traced, Call
  <2>. QED
    BY <1>3, <1>4, <1>5, <2>4, <2>6 DEF IInv
<1>7. CASE ~Authentic(opening[d].secret, file.bytes, opening[d].data)
  <2>1. stage'[d] = "SecretDecryptionError" /\ opened' = opened
    BY <1>1, <1>7 DEF Open, Advance, IInv, TypeOK
  <2>2. TypeOK'
    BY <1>1, <2>1 DEF IInv, TypeOK
  <2>3. Traced'
    BY <1>1, <1>2, <2>1 DEF IInv, Traced, Call
  <2>. QED
    BY <1>3, <1>4, <1>5, <2>2, <2>3 DEF IInv
<1>. QED
  BY <1>6, <1>7

LEMMA InductiveInvariant == Spec => []IInv
<1>1. IInv /\ [Next]_vars => IInv'
  BY QuietStep, LoadStep, EncryptStep, SealStep, DecryptStep, OpenStep DEF Next
<1>. QED
  BY InitIInv, <1>1, PTL DEF Spec

-----------------------------------------------------------------------------
(* Theorems.                                                               *)

\* Type correctness.
THEOREM TypeCorrect == Spec => []TypeOK
<1>1. IInv => TypeOK
  BY DEF IInv
<1>. QED
  BY <1>1, InductiveInvariant, PTL

\* Whatever columns a caller puts together and whatever happens to the key
\* file, decrypt_secret returns only what one encrypt_secret was given.
THEOREM OpenedIsWhatWasSealedHolds == Spec => []OpenedIsWhatWasSealed
<1>1. IInv => OpenedIsWhatWasSealed
  BY DEF IInv, Traced, OpenedIsWhatWasSealed
<1>. QED
  BY <1>1, InductiveInvariant, PTL

\* A refused secret is not the key's own: what Seal built under the version,
\* data and key that are at hand is authentic.
THEOREM SealedOpensHolds == Spec => SealedOpens
<1>1. ASSUME IInv, Next, NEW d \in Decryption, NEW e \in Encryption,
             stage[d] = "reading", stage'[d] = "SecretDecryptionError",
             secrets[e] # None, opening[d].secret = secrets[e],
             opening[d].data = sealing[e].data,
             file.bytes = secrets[e].wrapped_dek.kek
      PROVE  FALSE
  <2>1. Open(d)
    <3>1. d \notin Encryption /\ d \in Call
      BY EnvelopeAssumption DEF Call
    <3>2. ~Operate
      BY <1>1 DEF Operate, ReplaceFile, Deploy
    <3>3. \A c \in Call : ~Load(c)
      BY <1>1, <3>1 DEF Load, Inspect, Missing, NotAKey, Advance, IInv, TypeOK
    <3>4. \A f \in Encryption : ~Seal(f) /\ \A p \in Plaintext, a \in Data : ~Encrypt(f, p, a)
      BY <1>1, <3>1 DEF Seal, Encrypt, Advance, IInv, TypeOK, Call
    <3>5. \A x \in Presented, a \in Data, c \in Decryption : ~Decrypt(c, x, a)
      BY <1>1, <3>1 DEF Decrypt, Advance, IInv, TypeOK, Call
    <3>6. \A c \in Decryption : Open(c) => c = d
      BY <1>1, <3>1 DEF Open, Advance, IInv, TypeOK, Call
    <3>. QED
      BY <1>1, <3>2, <3>3, <3>4, <3>5, <3>6 DEF Next
  <2>2. ~Authentic(opening[d].secret, file.bytes, opening[d].data)
    BY <1>1, <2>1, EnvelopeAssumption DEF Open, Advance, IInv, TypeOK, Call
  <2>3. PICK k : secrets[e] = Encrypted(e, provider[e], k, sealing[e].data, sealing[e].plaintext)
    BY <1>1 DEF IInv, Faithful
  <2>. QED
    BY <1>1, <2>2, <2>3, EncryptedFields DEF Authentic
<1>2. IInv /\ [Next]_vars
        => [\A d \in Decryption, e \in Encryption :
               /\ stage[d] = "reading" /\ stage'[d] = "SecretDecryptionError"
               /\ secrets[e] # None /\ opening[d].secret = secrets[e]
               => \/ opening[d].data # sealing[e].data
                  \/ file.bytes # secrets[e].wrapped_dek.kek]_vars
  BY <1>1
<1>. QED
  BY <1>2, InductiveInvariant, PTL DEF Spec, SealedOpens

=============================================================================
