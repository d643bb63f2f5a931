----------------------------- MODULE WireFormat -----------------------------
(***************************************************************************)
(* The byte layout of the messages (opaque-core/src/protocol.rs and        *)
(* types.rs), with the lengths of the code, and the way of an envelope     *)
(* from the agent that sealed it through the record, the relay's           *)
(* credentials and KE2 back to the agent that opens it.                    *)
(*                                                                         *)
(* A byte is identified by the value it was taken from and its place       *)
(* there.  Offsets count from 0, as in the code.                           *)
(***************************************************************************)
EXTENDS Integers, Sequences, SequencesExt

CONSTANT Spare  \* how many bytes a buffer may be larger than needed

ASSUME SpareAssumption == Spare \in Nat

VARIABLES
  step,    \* what happened last: nothing, written, refused, arrived, parsed
  kind,    \* the kind of the message under way
  given,   \* the fields its writer was given
  buffer,  \* the bytes: the writer's buffer, then what arrives
  intact,  \* whether the transport delivered what was written
  view     \* what the parser made of it

vars == <<step, kind, given, buffer, intact, view>>

-----------------------------------------------------------------------------
(* types.rs.                                                               *)
PROTOCOL_VERSION_1    == <<"version", 1>>
PROTOCOL_VERSION      == <<"version", 2>>
VERSION_PREFIX_LENGTH == 1

PRIVATE_KEY_LENGTH          == 32
PUBLIC_KEY_LENGTH           == 32
MASKING_KEY_LENGTH          == 32
NONCE_LENGTH                == 24
MAC_LENGTH                  == 64
SECRETBOX_MAC_LENGTH        == 16
ENVELOPE_LENGTH             == 136
REGISTRATION_REQUEST_LENGTH == 32
REGISTRATION_RESPONSE_LENGTH == 64
CREDENTIAL_RESPONSE_LENGTH  == 168
KEM_PUBLIC_KEY_LENGTH       == 1184
KEM_CIPHERTEXT_LENGTH       == 1088

REGISTRATION_REQUEST_WIRE_LENGTH  == VERSION_PREFIX_LENGTH + REGISTRATION_REQUEST_LENGTH
REGISTRATION_RESPONSE_WIRE_LENGTH == VERSION_PREFIX_LENGTH + REGISTRATION_RESPONSE_LENGTH
KE1_BASE_LENGTH == REGISTRATION_REQUEST_LENGTH + PUBLIC_KEY_LENGTH + NONCE_LENGTH
KE2_BASE_LENGTH ==
  NONCE_LENGTH + PUBLIC_KEY_LENGTH + CREDENTIAL_RESPONSE_LENGTH + MAC_LENGTH
REGISTRATION_CREDENTIAL_LENGTH == MASKING_KEY_LENGTH + ENVELOPE_LENGTH
KE1_LENGTH == VERSION_PREFIX_LENGTH + KE1_BASE_LENGTH + KEM_PUBLIC_KEY_LENGTH
KE2_LENGTH == VERSION_PREFIX_LENGTH + KE2_BASE_LENGTH + KEM_CIPHERTEXT_LENGTH
KE3_LENGTH == VERSION_PREFIX_LENGTH + MAC_LENGTH
REGISTRATION_RECORD_LENGTH ==
  VERSION_PREFIX_LENGTH + REGISTRATION_CREDENTIAL_LENGTH + PUBLIC_KEY_LENGTH

(* The assertions the compiler evaluates.                                  *)
ASSUME StaticAssertions ==
  /\ CREDENTIAL_RESPONSE_LENGTH = PUBLIC_KEY_LENGTH + ENVELOPE_LENGTH
  /\ KE1_BASE_LENGTH = 88 /\ KE2_BASE_LENGTH = 288
  /\ KE1_LENGTH = 1273 /\ KE2_LENGTH = 1377 /\ KE3_LENGTH = 65
  /\ REGISTRATION_RECORD_LENGTH = 201

-----------------------------------------------------------------------------
(* protocol.rs: where each field begins.                                   *)
V == VERSION_PREFIX_LENGTH

REG_RESP_RESPONDER_KEY_OFFSET   == V + REGISTRATION_REQUEST_LENGTH
REG_RECORD_ENVELOPE_OFFSET      == V + MASKING_KEY_LENGTH
REG_RECORD_INITIATOR_KEY_OFFSET == V + REGISTRATION_CREDENTIAL_LENGTH
KE1_INITIATOR_PK_OFFSET         == V + REGISTRATION_REQUEST_LENGTH
KE1_INITIATOR_NONCE_OFFSET      == V + REGISTRATION_REQUEST_LENGTH + PUBLIC_KEY_LENGTH
KE1_PQ_PK_OFFSET                == V + KE1_BASE_LENGTH
KE2_RESP_PK_OFFSET              == V + NONCE_LENGTH
KE2_CRED_RESP_OFFSET            == V + NONCE_LENGTH + PUBLIC_KEY_LENGTH

\* Mutant: the key before the response is forgotten.
KE2_RESP_MAC_OFFSET_NoKey == V + NONCE_LENGTH + CREDENTIAL_RESPONSE_LENGTH

KE2_RESP_MAC_OFFSET ==
  V + NONCE_LENGTH + PUBLIC_KEY_LENGTH + CREDENTIAL_RESPONSE_LENGTH
KE2_KEM_CT_OFFSET == V + KE2_BASE_LENGTH

Kinds == {"request", "response", "record", "ke1", "ke2", "ke3"}

WireLength == [request  |-> REGISTRATION_REQUEST_WIRE_LENGTH,
               response |-> REGISTRATION_RESPONSE_WIRE_LENGTH,
               record   |-> REGISTRATION_RECORD_LENGTH,
               ke1 |-> KE1_LENGTH, ke2 |-> KE2_LENGTH, ke3 |-> KE3_LENGTH]

(* What a writer is given, and the length it insists on.                   *)
FieldLengths ==
  [request  |-> [payload |-> REGISTRATION_REQUEST_LENGTH],
   response |-> [evaluated_element    |-> REGISTRATION_REQUEST_LENGTH,
                 responder_public_key |-> PUBLIC_KEY_LENGTH],
   record   |-> [credential_storage   |-> REGISTRATION_CREDENTIAL_LENGTH,
                 initiator_public_key |-> PUBLIC_KEY_LENGTH],
   ke1 |-> [credential_request      |-> REGISTRATION_REQUEST_LENGTH,
            initiator_public_key    |-> PUBLIC_KEY_LENGTH,
            initiator_nonce         |-> NONCE_LENGTH,
            pq_ephemeral_public_key |-> KEM_PUBLIC_KEY_LENGTH],
   ke2 |-> [responder_nonce      |-> NONCE_LENGTH,
            responder_public_key |-> PUBLIC_KEY_LENGTH,
            credential_response  |-> CREDENTIAL_RESPONSE_LENGTH,
            responder_mac        |-> MAC_LENGTH,
            kem_ciphertext       |-> KEM_CIPHERTEXT_LENGTH],
   ke3 |-> [initiator_mac |-> MAC_LENGTH]]

(* The slices of out that write_* copies into, in this order.              *)
WriteSlices ==
  [request  |-> <<[field |-> "payload", from |-> V, to |-> REGISTRATION_REQUEST_WIRE_LENGTH]>>,
   response |->
     <<[field |-> "evaluated_element", from |-> V, to |-> REG_RESP_RESPONDER_KEY_OFFSET],
       [field |-> "responder_public_key", from |-> REG_RESP_RESPONDER_KEY_OFFSET,
        to |-> REGISTRATION_RESPONSE_WIRE_LENGTH]>>,
   record |->
     <<[field |-> "credential_storage", from |-> V, to |-> REG_RECORD_INITIATOR_KEY_OFFSET],
       [field |-> "initiator_public_key", from |-> REG_RECORD_INITIATOR_KEY_OFFSET,
        to |-> REGISTRATION_RECORD_LENGTH]>>,
   ke1 |->
     <<[field |-> "credential_request", from |-> V, to |-> KE1_INITIATOR_PK_OFFSET],
       [field |-> "initiator_public_key", from |-> KE1_INITIATOR_PK_OFFSET,
        to |-> KE1_INITIATOR_NONCE_OFFSET],
       [field |-> "initiator_nonce", from |-> KE1_INITIATOR_NONCE_OFFSET,
        to |-> KE1_PQ_PK_OFFSET],
       [field |-> "pq_ephemeral_public_key", from |-> KE1_PQ_PK_OFFSET, to |-> KE1_LENGTH]>>,
   ke2 |->
     <<[field |-> "responder_nonce", from |-> V, to |-> KE2_RESP_PK_OFFSET],
       [field |-> "responder_public_key", from |-> KE2_RESP_PK_OFFSET,
        to |-> KE2_CRED_RESP_OFFSET],
       [field |-> "credential_response", from |-> KE2_CRED_RESP_OFFSET,
        to |-> KE2_RESP_MAC_OFFSET],
       [field |-> "responder_mac", from |-> KE2_RESP_MAC_OFFSET, to |-> KE2_KEM_CT_OFFSET],
       [field |-> "kem_ciphertext", from |-> KE2_KEM_CT_OFFSET, to |-> KE2_LENGTH]>>,
   ke3 |-> <<[field |-> "initiator_mac", from |-> V, to |-> KE3_LENGTH]>>]

(* The slices of data that parse_* returns; the last one goes to the end   *)
(* of the data, whatever its length.                                       *)
RegistrationRequestRef(len) == <<[field |-> "payload", from |-> V, to |-> len]>>

\* Mutant: the two fields of a registration response are taken for each other.
RegistrationResponseRef_Swapped(len) ==
  <<[field |-> "responder_public_key", from |-> V, to |-> REG_RESP_RESPONDER_KEY_OFFSET],
    [field |-> "evaluated_element", from |-> REG_RESP_RESPONDER_KEY_OFFSET, to |-> len]>>

RegistrationResponseRef(len) ==
  <<[field |-> "evaluated_element", from |-> V, to |-> REG_RESP_RESPONDER_KEY_OFFSET],
    [field |-> "responder_public_key", from |-> REG_RESP_RESPONDER_KEY_OFFSET, to |-> len]>>

(* A record is written in two pieces and read in three.                    *)
RegistrationRecordRef(len) ==
  <<[field |-> "masking_key", from |-> V, to |-> REG_RECORD_ENVELOPE_OFFSET],
    [field |-> "envelope", from |-> REG_RECORD_ENVELOPE_OFFSET,
     to |-> REG_RECORD_INITIATOR_KEY_OFFSET],
    [field |-> "initiator_public_key", from |-> REG_RECORD_INITIATOR_KEY_OFFSET, to |-> len]>>

Ke1Ref(len) ==
  <<[field |-> "credential_request", from |-> V, to |-> KE1_INITIATOR_PK_OFFSET],
    [field |-> "initiator_public_key", from |-> KE1_INITIATOR_PK_OFFSET,
     to |-> KE1_INITIATOR_NONCE_OFFSET],
    [field |-> "initiator_nonce", from |-> KE1_INITIATOR_NONCE_OFFSET, to |-> KE1_PQ_PK_OFFSET],
    [field |-> "pq_ephemeral_public_key", from |-> KE1_PQ_PK_OFFSET, to |-> len]>>

Ke2Ref(len) ==
  <<[field |-> "responder_nonce", from |-> V, to |-> KE2_RESP_PK_OFFSET],
    [field |-> "responder_public_key", from |-> KE2_RESP_PK_OFFSET, to |-> KE2_CRED_RESP_OFFSET],
    [field |-> "credential_response", from |-> KE2_CRED_RESP_OFFSET, to |-> KE2_RESP_MAC_OFFSET],
    [field |-> "responder_mac", from |-> KE2_RESP_MAC_OFFSET, to |-> KE2_KEM_CT_OFFSET],
    [field |-> "kem_ciphertext", from |-> KE2_KEM_CT_OFFSET, to |-> len]>>

Ke3Ref(len) == <<[field |-> "initiator_mac", from |-> V, to |-> len]>>

ParseSlices(k, len) ==
  CASE k = "request"  -> RegistrationRequestRef(len)
    [] k = "response" -> RegistrationResponseRef(len)
    [] k = "record"   -> RegistrationRecordRef(len)
    [] k = "ke1" -> Ke1Ref(len)
    [] k = "ke2" -> Ke2Ref(len)
    [] k = "ke3" -> Ke3Ref(len)

-----------------------------------------------------------------------------
(* Byte arrays.                                                            *)

Bytes(name, n) == [k \in 1..n |-> <<name, k>>]

Slice(data, from, to) == SubSeq(data, from + 1, to)

(* The outcome of a slice that is out of range, or of copy_from_slice      *)
(* between slices of different lengths.                                    *)
Panic == <<>>

(* out[from..to].copy_from_slice(value)                                    *)
CopyFromSlice(out, from, to, value) ==
  IF out = Panic \/ from > to \/ to > Len(out) \/ Len(value) # to - from THEN Panic
  ELSE Slice(out, 0, from) \o value \o Slice(out, to, Len(out))

WriteAccepts(k, fields, out) ==
  /\ \A f \in DOMAIN fields : Len(fields[f]) = FieldLengths[k][f]
  /\ Len(out) >= WireLength[k]

(* write_registration_request .. write_ke3.                                *)
Written(k, fields, out) ==
  LET slices == WriteSlices[k]
      after[n \in 0..Len(slices)] ==
        IF n = 0 THEN [out EXCEPT ![1] = PROTOCOL_VERSION]
        ELSE CopyFromSlice(after[n - 1], slices[n].from, slices[n].to,
                           fields[slices[n].field])
  IN  after[Len(slices)]

\* Mutant: a message may be longer than its kind requires.
ParseAccepts_Longer(k, data) == Len(data) >= WireLength[k] /\ data[1] = PROTOCOL_VERSION

(* The length, then check_version.                                         *)
ParseAccepts(k, data) == Len(data) = WireLength[k] /\ data[1] = PROTOCOL_VERSION

Rejected(k) == [kind |-> k, ok |-> FALSE]

(* parse_registration_request .. parse_ke3.                                *)
Parsed(k, data) ==
  IF ~ParseAccepts(k, data) THEN Rejected(k)
  ELSE [kind |-> k, ok |-> TRUE, fields |->
          [f \in {s.field : s \in ToSet(ParseSlices(k, Len(data)))} |->
             LET s == CHOOSE s \in ToSet(ParseSlices(k, Len(data))) : s.field = f
             IN  Slice(data, s.from, s.to)]]

-----------------------------------------------------------------------------
(* The parts of an envelope, and how they travel.                          *)

CiphertextLength == PUBLIC_KEY_LENGTH + PRIVATE_KEY_LENGTH + PUBLIC_KEY_LENGTH

Sealed == [nonce      |-> Bytes("envelope_nonce", NONCE_LENGTH),
           ciphertext |-> Bytes("ciphertext", CiphertextLength),
           auth_tag   |-> Bytes("auth_tag", SECRETBOX_MAC_LENGTH)]

(* The end of finalize_registration.                                       *)
CredentialStorage ==
  Bytes("masking_key", MASKING_KEY_LENGTH) \o Sealed.nonce \o Sealed.ciphertext
    \o Sealed.auth_tag

(* mask_credential_envelope: byte by byte, and its own inverse.            *)
Mask(data) == [k \in DOMAIN data |-> <<"masked", data[k]>>]
Unmask(data) == [k \in DOMAIN data |-> data[k][2]]

(* generate_ke3 takes the unmasked envelope apart.                         *)
EnvelopeParts(credentialResponse) ==
  LET data == Unmask(Slice(credentialResponse, PUBLIC_KEY_LENGTH, Len(credentialResponse)))
      ctSize == ENVELOPE_LENGTH - NONCE_LENGTH - SECRETBOX_MAC_LENGTH IN
  [nonce      |-> Slice(data, 0, NONCE_LENGTH),
   ciphertext |-> Slice(data, NONCE_LENGTH, NONCE_LENGTH + ctSize),
   auth_tag   |-> Slice(data, NONCE_LENGTH + ctSize, Len(data))]

-----------------------------------------------------------------------------
Init ==
  /\ step = "nothing" /\ kind = "request" /\ intact = TRUE
  /\ given = [payload |-> <<>>] /\ buffer = Bytes("old", 1) /\ view = Rejected("none")

(* A writer gets its fields, one of them perhaps too short, and a buffer   *)
(* that may be too small or too large.                                     *)
Write(k, fields) ==
  \E short \in DOMAIN fields \cup {"none"}, room \in -1..Spare :
    LET out == Bytes("old", WireLength[k] + room)
        fs  == [f \in DOMAIN fields |->
                  IF f = short THEN SubSeq(fields[f], 1, Len(fields[f]) - 1) ELSE fields[f]]
        ok  == WriteAccepts(k, fs, out) IN
    /\ kind' = k /\ given' = fs /\ intact' = TRUE /\ view' = Rejected("none")
    /\ step' = IF ok THEN "written" ELSE "refused"
    /\ buffer' = IF ok THEN Written(k, fs, out) ELSE out

WriteMessage ==
  /\ step = "nothing"
  /\ \E k \in Kinds \ {"record", "ke2"} :
       Write(k, [f \in DOMAIN FieldLengths[k] |-> Bytes(f, FieldLengths[k][f])])

FinalizeRegistration ==
  /\ step = "nothing"
  /\ Write("record", [credential_storage   |-> CredentialStorage,
                      initiator_public_key |-> Bytes("initiator_public_key", PUBLIC_KEY_LENGTH)])

(* The message reaches a parser, or it is cut short, comes with a byte too *)
(* many or from another version of the protocol.                           *)
Deliver ==
  LET n == WireLength[kind] IN
  /\ step = "written" /\ Len(buffer) >= n
  /\ step' = "arrived"
  /\ \/ buffer' = Slice(buffer, 0, n) /\ intact' = TRUE
     \/ /\ buffer' \in {Slice(buffer, 0, n - 1), Append(Slice(buffer, 0, n), <<"extra", 1>>),
                        [Slice(buffer, 0, n) EXCEPT ![1] = PROTOCOL_VERSION_1]}
        /\ intact' = FALSE
  /\ UNCHANGED <<kind, given, view>>

Parse ==
  /\ step = "arrived"
  /\ \E k \in Kinds : view' = Parsed(k, buffer)
  /\ step' = "parsed"
  /\ UNCHANGED <<kind, given, buffer, intact>>

\* Mutant: the envelope comes before the masking key.
BuildCredentials_Reordered ==
  /\ step = "parsed" /\ view.kind = "record" /\ view.ok
  /\ Write("record", [credential_storage   |-> view.fields.envelope \o view.fields.masking_key,
                      initiator_public_key |-> view.fields.initiator_public_key])

(* opaque_relay_build_credentials: the record is parsed and written again. *)
BuildCredentials ==
  /\ step = "parsed" /\ view.kind = "record" /\ view.ok
  /\ Write("record", [credential_storage   |-> view.fields.masking_key \o view.fields.envelope,
                      initiator_public_key |-> view.fields.initiator_public_key])

(* generate_ke2 with the credentials that were parsed.                     *)
GenerateKe2 ==
  /\ step = "parsed" /\ view.kind = "record" /\ view.ok
  /\ Write("ke2", [f \in DOMAIN FieldLengths.ke2 |->
                     IF f = "credential_response"
                     THEN Bytes("evaluated_element", PUBLIC_KEY_LENGTH) \o Mask(view.fields.envelope)
                     ELSE Bytes(f, FieldLengths.ke2[f])])

Next == WriteMessage \/ FinalizeRegistration \/ Deliver \/ Parse
          \/ BuildCredentials \/ GenerateKe2

Spec == Init /\ [][Next]_vars

-----------------------------------------------------------------------------
(* Properties.                                                             *)

(* What the parser of a message returns is what its writer was given, and  *)
(* it does not refuse an intact message: the offsets of write_* and        *)
(* parse_* cut the same fields, without gaps, overlaps or exchange.        *)
RoundTrip ==
  step = "parsed" /\ intact /\ view.kind = kind =>
    /\ view.ok
    /\ IF kind = "record"
       THEN /\ view.fields.masking_key \o view.fields.envelope = given.credential_storage
            /\ view.fields.initiator_public_key = given.initiator_public_key
       ELSE view.fields = given

(* A message is taken for one of another kind only where lengths coincide: *)
(* a registration response and a KE3, which both have 65 bytes.  Nothing   *)
(* that was cut, extended or sent by another version is taken for          *)
(* anything.                                                               *)
LookAlikes ==
  step = "parsed" /\ view.ok =>
    /\ intact
    /\ view.kind = kind \/ {view.kind, kind} = {"response", "ke3"}

(* A writer that accepts its arguments never panics on a slice, fills      *)
(* every byte of the message, and leaves what lies behind it alone; one    *)
(* that refuses them writes nothing.                                       *)
WritesAreExact ==
  LET old == {k \in 1..Len(buffer) : buffer[k] = <<"old", k>>} IN
  /\ step = "written" => buffer # Panic /\ old = (WireLength[kind] + 1)..Len(buffer)
  /\ step = "refused" => old = 1..Len(buffer)

(* The envelope that generate_ke3 opens is, part by part, the one that     *)
(* finalize_registration sealed, after it went through the record, any     *)
(* number of opaque_relay_build_credentials, and KE2.                      *)
EnvelopeSurvives ==
  step = "parsed" /\ view.kind = "ke2" /\ view.ok =>
    EnvelopeParts(view.fields.credential_response) = Sealed
=============================================================================
