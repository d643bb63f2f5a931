----------------------------- MODULE OpaqueCore -----------------------------
(***************************************************************************)
(* The operations of the opaque-core crate, as terms of an ideal algebra.  *)
(*                                                                         *)
(* Every value that the code keeps in a byte array is a pair               *)
(* <<tag, content>>: two values are equal exactly when they were computed  *)
(* by the same operation from the same inputs.  Randomness is represented  *)
(* by the session that drew it.  A public key is represented by its        *)
(* scalar, and a Diffie-Hellman product by the unordered pair of the two   *)
(* scalars, so that the two ends agree exactly when they multiply the same *)
(* keys.                                                                   *)
(***************************************************************************)

(* No value: an option that is empty, an output not written.               *)
None == <<"none", 0>>

(* Bytes that are not what anybody sent.  Where the code decodes the field *)
(* (a group element, a KEM key) decoding fails; elsewhere (a nonce, a MAC, *)
(* a masked envelope) the bytes are accepted and equal to nothing else.    *)
Bad == <<"bad", 0>>

(* A field of zero bytes.                                                  *)
AllZero == <<"zero", 0>>

-----------------------------------------------------------------------------
(* Group elements and the OPRF (crypto.rs, oprf.rs).                       *)

(* decode_non_identity_point, behind every key and element validation.     *)
Valid(element) == element # Bad

StaticKey(i)             == <<"static", i>>
InitiatorEphemeral(i)    == <<"initiator_ephemeral", i>>
ResponderEphemeral(r)    == <<"responder_ephemeral", r>>
RelayKey(keypair)        == <<"relay", keypair>>

Dh(a, b) == {a, b}

(* hash_to_group(input) times a fresh blind.                               *)
Blind(input, blind) == <<"blinded", [input |-> input, blind |-> blind]>>

(* derive_oprf_key: one key for each seed and account.                     *)
OprfKey(seed, account) == <<"oprf_key", <<seed, account>>>>

EvaluateOprf(blinded, key) ==
  <<"evaluated", [input |-> blinded[2].input, blind |-> blinded[2].blind, key |-> key]>>

(* oprf::finalize followed by derive_randomized_password.  The blind       *)
(* cancels only if the element was blinded with it.                        *)
RandomizedPassword(secureKey, blind, evaluated) ==
  <<"rwd", [secureKey |-> secureKey,
            input     |-> evaluated[2].input,
            key       |-> evaluated[2].key,
            residue   |-> IF evaluated[2].blind = blind
                          THEN <<>> ELSE <<evaluated[2].blind, blind>>]>>

(* What finalize yields when nothing was mixed up on the way.              *)
ProperPassword(secureKey, seed, account) ==
  <<"rwd", [secureKey |-> secureKey,
            input     |-> secureKey,
            key       |-> OprfKey(seed, account),
            residue   |-> <<>>]>>

-----------------------------------------------------------------------------
(* Envelopes and credential masking (envelope.rs, crypto.rs).              *)

FakeMaterial(seed, account)  == <<"fake", <<seed, account>>>>
DeriveKeyPair(material)      == <<"derived", material>>
FakeEnvelope(material)       == <<"expanded", material>>
MaskingKey(material)         == <<"masking", material>>

Seal(rwd, rpk, isk) == <<"sealed", [rwd |-> rwd, rpk |-> rpk, isk |-> isk]>>

(* open_raw: the key is derived from the randomized password and the       *)
(* responder key the initiator expects.                                    *)
Opens(envelope, rwd, rpk) ==
  /\ envelope[1] = "sealed"
  /\ envelope[2].rwd = rwd
  /\ envelope[2].rpk = rpk

MaskCredentialEnvelope(maskingKey, nonce, evaluated, account, envelope) ==
  <<"masked", [maskingKey |-> maskingKey, nonce |-> nonce,
               evaluated |-> evaluated, account |-> account,
               envelope |-> envelope]>>

(* The same pad applied again; any other pad leaves noise.                 *)
Unmask(maskingKey, nonce, evaluated, account, masked) ==
  IF /\ masked[1] = "masked"
     /\ masked = MaskCredentialEnvelope(maskingKey, nonce, evaluated, account,
                                        masked[2].envelope)
  THEN masked[2].envelope
  ELSE Bad

-----------------------------------------------------------------------------
(* ML-KEM and the key schedule (pq_kem.rs, crypto.rs).                     *)

KemCiphertext(pq, r) == <<"ciphertext", [pq |-> pq, by |-> r]>>
KemSecret(ciphertext) == <<"kem_secret", ciphertext>>

(* Decapsulation never fails: a ciphertext for another key, or a damaged   *)
(* one, is rejected implicitly with an unrelated secret.                   *)
Decapsulate(pq, ciphertext) ==
  IF ciphertext[1] = "ciphertext" /\ ciphertext[2].pq = pq
  THEN KemSecret(ciphertext)
  ELSE <<"implicit_reject", <<pq, ciphertext>>>>

(* combine_key_material: the pseudo-random key binds the four products,    *)
(* the KEM secret and the transcript.                                      *)
CombineKeyMaterial(ikm, kemSecret, transcript) ==
  <<"prk", [ikm |-> ikm, kemSecret |-> kemSecret, transcript |-> transcript]>>

SessionKey(prk)   == <<"session_key", prk>>
ResponderMac(prk) == <<"responder_mac", prk>>
InitiatorMac(prk) == <<"initiator_mac", prk>>

ClientExportKey(rwd, account) == <<"export_key", <<rwd, account>>>>
=============================================================================
