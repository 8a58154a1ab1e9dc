------------------------------ MODULE Envelopes ------------------------------
(***************************************************************************)
(* What the key service computes with its keys: the KEM and signature      *)
(* backends, the sealing of private keys under the master key, envelopes,  *)
(* data keys (crypto.py, service.py, kem/, sig/), and the message that is  *)
(* signed for a public key.                                                *)
(*                                                                         *)
(* The algorithms are symbolic: what ML-KEM, HKDF, AES-GCM and ML-DSA      *)
(* return is a tuple of what it depends on, so equal values have equal     *)
(* origins; a random draw is an argument.  A private key stands for its    *)
(* pair.  What may fail returns Done(x) or Raised.                         *)
(***************************************************************************)
EXTENDS Integers, Sequences

CONSTANTS
    Rows,        \* names and versions of the table of keys
    Secrets,     \* private keys of ML-KEM, and of ML-DSA
    Randoms,     \* what an encapsulation draws
    Nonces,
    Aads,        \* associated data
    Plaintexts,
    Bytes        \* values of one byte, for the message that is signed

ASSUME BytesAssumption == Bytes \subseteq Nat

Done(x) == <<"done", x>>
Raised == <<"raised">>

-----------------------------------------------------------------------------
(* ML-KEM-1024 as its libraries offer it *)

PublicOf(sk) == <<"public", sk>>
Shared(pk, r) == <<"shared", pk, r>>
KemText(pk, r) == <<"kem", pk, r>>

\* A ciphertext of the wrong length.
Malformed == <<"malformed">>

\* Decapsulation never tells a ciphertext that was made for another key: what
\* it returns instead depends on both (FIPS 203, implicit rejection).
DecapsLibrary(sk, ct) ==
    CASE ct = Malformed -> Raised
      [] ct # Malformed /\ ct[2] = PublicOf(sk) -> Done(Shared(ct[2], ct[3]))
      [] ct # Malformed /\ ct[2] # PublicOf(sk) -> Done(<<"rejected", sk, ct>>)

KyberEncaps(pk, r) == <<Shared(pk, r), KemText(pk, r)>>
OqsEncap(pk, r) == <<KemText(pk, r), Shared(pk, r)>>

(* kem/backends.py *)

\* KyberPyProvider and LibOQSProvider return ciphertext and shared secret.
KyberEncapsulate(pk, r) == LET e == KyberEncaps(pk, r) IN <<e[2], e[1]>>
OqsEncapsulate(pk, r) == OqsEncap(pk, r)

Encapsulate(backend, pk, r) ==
    IF backend = "liboqs" THEN OqsEncapsulate(pk, r) ELSE KyberEncapsulate(pk, r)

\* What is installed as liboqs: nothing that loads, or a library whose round
\* trip succeeds or fails.
Libraries == {"missing", "broken", "works"}
KemBackends == {"auto", "liboqs", "kyber_py"}

\* get_provider: liboqs is taken only if its self-test succeeds.
GetProvider(backend, library, pure) ==
    IF backend = pure \/ (backend = "auto" /\ library # "works") THEN Done(pure)
    ELSE IF library = "works" THEN Done("liboqs") ELSE Raised

GetKemProvider(backend, library) == GetProvider(backend, library, "kyber_py")

(* sig/backends.py *)

GetSignatureProvider(backend, library) == GetProvider(backend, library, "dilithium_py")

Sign(sk, message) == <<"signature", sk, message>>

\* verify: a malformed signature reads as invalid.
Verifies(sk, message, signature) == signature = Sign(sk, message)

-----------------------------------------------------------------------------
(* crypto.py *)

\* Base64 text.  b64decode skips what is not of its alphabet, so texts that
\* differ in stray characters have the same bytes.
Encoded(raw) == [raw |-> raw, stray |-> FALSE]
Decoded(text) == text.raw

DeriveDek(shared) == <<"dek", shared>>

Seal(key, nonce, aad, text) == <<"sealed", key, nonce, aad, text>>

\* aes_gcm_decrypt: the tag fits only what was sealed with the same arguments.
Unseal(key, nonce, aad, box) ==
    IF box = Seal(key, nonce, aad, box[5]) THEN Done(box[5]) ELSE Raised

KeyWrap == "qcg-kms/keywrap"

WrapSecret(master, nonce, secret) ==
    Encoded([nonce |-> nonce, box |-> Seal(master, nonce, KeyWrap, secret)])

UnwrapSecret(master, blob) ==
    Unseal(master, Decoded(blob).nonce, KeyWrap, Decoded(blob).box)

Version == 1

EnvelopeEncrypt(backend, pk, text, aad, r, nonce) ==
    LET e == Encapsulate(backend, pk, r)
    IN  [v |-> Version,
         kem_ct |-> Encoded(e[1]),
         nonce |-> Encoded(nonce),
         ct |-> Encoded(Seal(DeriveDek(e[2]), nonce, aad, text))]

EnvelopeDecrypt(sk, env, aad) ==
    LET shared == DecapsLibrary(sk, Decoded(env.kem_ct))
    IN  IF env.v # Version \/ shared = Raised
        THEN Raised
        ELSE Unseal(DeriveDek(shared[2]), Decoded(env.nonce), aad, Decoded(env.ct))

\* _field: the length, then the bytes.
Field(raw) == <<Len(raw)>> \o raw

\* signing_message, of the digits of the version; its constant prefix is left out.
SigningMessage(name, digits, algorithm, key) ==
    Field(name) \o Field(digits) \o Field(algorithm) \o Field(key)

-----------------------------------------------------------------------------
(* service.py *)

Unsigned == <<"unsigned">>

\* _sign_public_key; a service without a signing identity signs nothing.
SignPublicKey(identity, rec) ==
    IF identity = Unsigned
    THEN Unsigned
    ELSE Sign(identity, SigningMessage(rec.name, rec.version, rec.algorithm, rec.public_key))

\* public_key, of the active row of a name.
PublicKey(identity, rec) ==
    [name |-> rec.name, version |-> rec.version, algorithm |-> rec.algorithm,
     public_key |-> rec.public_key, signature |-> SignPublicKey(identity, rec)]

\* generate_data_key
GenerateDataKey(backend, sk, r) ==
    LET e == Encapsulate(backend, PublicOf(sk), r)
    IN  [dek |-> DeriveDek(e[2]), kem_ct |-> Encoded(e[1])]

\* decrypt and unwrap_data_key look the private key up under the name and the
\* version that the envelope says; rows are the private keys of the table.
Decrypt(rows, ref, env, aad) ==
    IF ref \in DOMAIN rows THEN EnvelopeDecrypt(rows[ref], env, aad) ELSE Raised

Unwrapped(sk, kem_ct) ==
    LET shared == DecapsLibrary(sk, Decoded(kem_ct))
    IN  IF shared = Raised THEN Raised ELSE Done(DeriveDek(shared[2]))

UnwrapDataKey(rows, ref, kem_ct) ==
    IF ref \in DOMAIN rows THEN Unwrapped(rows[ref], kem_ct) ELSE Raised

-----------------------------------------------------------------------------
\* Ciphertexts, boxes and envelopes as they may come back to the service: made by
\* it or by its client, taken from different envelopes, or altered.
KemTexts == {KemText(PublicOf(sk), r) : sk \in Secrets, r \in Randoms}

Deks == {DeriveDek(Shared(PublicOf(sk), r)) : sk \in Secrets, r \in Randoms}

AlteredBox == <<"altered", 0, 0, 0, 0>>

Boxes == {Seal(dek, nonce, aad, text) :
              dek \in Deks, nonce \in Nonces, aad \in Aads, text \in Plaintexts}

Base64Of(S) == [raw : S, stray : BOOLEAN]

Returned ==
    [v : {Version, Version + 1},
     kem_ct : Base64Of(KemTexts \union {Malformed}),
     nonce : Base64Of(Nonces),
     ct : Base64Of(Boxes \union {AlteredBox})]

\* "Both implement the identical ML-KEM-1024 algorithm, so keys and ciphertexts
\* produced by one verify under the other" (kem/backends.py:10): what is encrypted
\* to a key, with either backend, is read with its row; and nothing is read but
\* with the row, the ciphertext, the nonce and the associated data of its
\* encryption.
EnvelopeBound ==
    \A rows \in [Rows -> Secrets], ref \in Rows, aad \in Aads :
        /\ \A backend \in KemBackends, text \in Plaintexts, r \in Randoms, nonce \in Nonces :
              LET env == EnvelopeEncrypt(backend, PublicOf(rows[ref]), text, aad, r, nonce)
              IN  Decrypt(rows, ref, env, aad) = Done(text)
        /\ \A env \in Returned :
              Decrypt(rows, ref, env, aad) # Raised =>
                  \E r \in Randoms, text \in Plaintexts :
                      LET made == EnvelopeEncrypt("auto", PublicOf(rows[ref]), text, aad, r,
                                                  Decoded(env.nonce))
                      IN  /\ env.v = made.v
                          /\ Decoded(env.kem_ct) = Decoded(made.kem_ct)
                          /\ Decoded(env.ct) = Decoded(made.ct)
                          /\ Decrypt(rows, ref, env, aad) = Done(text)

\* unwrap_data_key gives back the key of the header's own ciphertext and private
\* key.  Of a header that was altered, or made for another key, it raises nothing,
\* though it says "unwrap failed (wrong key or tampered header)" (service.py:159):
\* it returns a key with which nothing that a client has sealed can be opened.
DataKeyBound ==
    \A rows \in [Rows -> Secrets], ref \in Rows, kem_ct \in Base64Of(KemTexts) :
        LET unwrapped == UnwrapDataKey(rows, ref, kem_ct) IN
          /\ unwrapped # Raised
          /\ \A backend \in KemBackends, r \in Randoms :
                LET made == GenerateDataKey(backend, rows[ref], r)
                IN  unwrapped = Done(made.dek) <=> Decoded(kem_ct) = Decoded(made.kem_ct)
          /\ Decoded(kem_ct)[2] # PublicOf(rows[ref]) =>
                \A nonce \in Nonces, aad \in Aads, box \in Boxes :
                    Unseal(unwrapped[2], nonce, aad, box) = Raised

\* A private key leaves the database only under the master key that sealed it.
SecretsSealed ==
    \A master, other, secret \in Secrets, nonce \in Nonces :
        UnwrapSecret(other, WrapSecret(master, nonce, secret)) =
            IF other = master THEN Done(secret) ELSE Raised

\* "a signature can never be lifted and replayed for a different key name or
\* version" (crypto.py:75): the signature of a public key fits no other name,
\* version, algorithm or key, whatever bytes these are made of.
SignatureBound(name1, name2, digits1, digits2, algorithm1, algorithm2, key1, key2) ==
    \A identity \in Secrets :
        LET served == PublicKey(identity, [name |-> name1, version |-> digits1,
                                           algorithm |-> algorithm1, public_key |-> key1])
        IN  Verifies(identity, SigningMessage(name2, digits2, algorithm2, key2), served.signature)
              <=> name1 = name2 /\ digits1 = digits2 /\ algorithm1 = algorithm2 /\ key1 = key2

==============================================================================
