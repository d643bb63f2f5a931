------------------------------- MODULE Opaque -------------------------------
(***************************************************************************)
(* Registration and authentication between the agent (opaque-agent) and    *)
(* the relay (opaque-relay), one action for each function of their public  *)
(* interface.                                                              *)
(*                                                                         *)
(* Every InitiatorState and ResponderState is a one-shot object; ISess and *)
(* RSess name the objects that exist.  The transport is the weakest one    *)
(* the code must cope with: whatever was sent may be lost, repeated,       *)
(* delayed, delivered to any session, and each field of what arrives may   *)
(* come from another message of the same kind or be damaged (for the kinds *)
(* in Mangled).                                                            *)
(***************************************************************************)
EXTENDS OpaqueCore, Naturals

CONSTANTS
  ISess,       \* InitiatorState objects
  RSess,       \* ResponderState objects
  Passwords,   \* secure keys a user may type
  Accounts,    \* account identifiers
  Relays,      \* OpaqueResponder instances, each a key pair and an OPRF seed
  Pinned,      \* the key pair whose public key every OpaqueInitiator was built with
  Lifetime,    \* STATE_MAX_LIFETIME_SECS, in ticks of the clock
  Mangled,     \* the kinds of message the transport may damage or mix up
  CAbi         \* TRUE: sessions are driven through opaque-ffi; FALSE: directly

ASSUME RelaysAssumption   == \A relay \in Relays : DOMAIN relay = {"keypair", "seed"}
ASSUME PinnedAssumption   == \E relay \in Relays : relay.keypair = Pinned
ASSUME LifetimeAssumption == Lifetime \in Nat \ {0}
ASSUME CAbiAssumption     == CAbi \in BOOLEAN
ASSUME NoneAssumption     == None \notin Accounts /\ None \notin RSess

VARIABLES
  iphase,      \* InitiatorState.phase
  iage,        \* ticks since InitiatorState.created_at, up to Lifetime
  iheld,       \* the secret fields of the InitiatorState that are not zero
  input,       \* the secure key and the account the caller gave
  iview,       \* the pseudo-random key generate_ke3 computed
  iexport,     \* the export key generate_ke3 computed
  iout,        \* the keys initiator_finish handed to the caller
  rphase,      \* ResponderState.phase
  rage,        \* ticks since ResponderState.created_at, up to Lifetime
  rheld,       \* the secret fields of the ResponderState that are not zero
  served,      \* the relay, account and credentials generate_ke2 was called with
  rview,       \* the pseudo-random key generate_ke2 computed
  rout,        \* the session key responder_finish handed to the caller
  store,       \* credentials the application keeps for each account
  requests,    \* registration requests sent
  responses,   \* registration responses sent
  records,     \* registration records sent
  ke1s, ke2s, ke3s  \* key-exchange messages sent

ivars == <<iphase, iage, iheld, input, iview, iexport, iout>>
rvars == <<rphase, rage, rheld, served, rview, rout>>
net   == <<requests, responses, records, ke1s, ke2s, ke3s>>
vars  == <<ivars, rvars, store, net>>

IPhases == {"Created", "RegistrationRequested", "RegistrationFinalized",
            "Ke1Generated", "Ke3Generated", "Finished"}
RPhases == {"Created", "Ke2Generated", "Finished"}

ISecrets == {"secure_key", "blind", "private_key", "ephemeral_private_key",
             "account_context_hash", "pq_secret_key", "pq_shared_secret",
             "session_key", "export_key"}
RSecrets == {"private_key", "ephemeral_private_key", "pq_shared_secret",
             "session_key", "expected_initiator_mac"}

Init ==
  /\ iphase  = [i \in ISess |-> "Created"]
  /\ iage    = [i \in ISess |-> 0]
  /\ iheld   = [i \in ISess |-> {}]
  /\ input   = [i \in ISess |-> None]
  /\ iview   = [i \in ISess |-> None]
  /\ iexport = [i \in ISess |-> None]
  /\ iout    = [i \in ISess |-> None]
  /\ rphase  = [r \in RSess |-> "Created"]
  /\ rage    = [r \in RSess |-> 0]
  /\ rheld   = [r \in RSess |-> {}]
  /\ served  = [r \in RSess |-> None]
  /\ rview   = [r \in RSess |-> None]
  /\ rout    = [r \in RSess |-> None]
  /\ store   = [a \in Accounts |-> None]
  /\ requests = {} /\ responses = {} /\ records = {}
  /\ ke1s = {} /\ ke2s = {} /\ ke3s = {}

-----------------------------------------------------------------------------
(* Deadlines.  The clock is monotonic, so an age only grows; nothing tells *)
(* ages past Lifetime apart.                                               *)

IExpires(i) == iphase[i] \in {"RegistrationRequested", "Ke1Generated", "Ke3Generated"}
RExpires(r) == rphase[r] = "Ke2Generated"

IExpired(i) == IExpires(i) /\ iage[i] >= Lifetime
\* Mutant: the deadline is checked one second late.
RExpired_OffByOne(r) == RExpires(r) /\ rage[r] > Lifetime

RExpired(r) == RExpires(r) /\ rage[r] >= Lifetime

Older(age) == IF age < Lifetime THEN age + 1 ELSE age

(* Time passes for every session whose phase has a deadline.               *)
Tick ==
  /\ iage' = [i \in ISess |-> IF IExpires(i) THEN Older(iage[i]) ELSE iage[i]]
  /\ rage' = [r \in RSess |-> IF RExpires(r) THEN Older(rage[r]) ELSE rage[r]]
  /\ UNCHANGED <<iphase, iheld, input, iview, iexport, iout,
                 rphase, rheld, served, rview, rout, store, net>>

-----------------------------------------------------------------------------
(* Failure.                                                                *)

\* Mutant: invalidate ends the session but forgets to zeroize.
IInvalidate_KeepsSecrets(i) ==
  /\ iphase' = [iphase EXCEPT ![i] = "Finished"]
  /\ UNCHANGED <<iage, iheld, input, iview, iexport, iout, rvars, store, net>>

(* InitiatorState::invalidate, and what opaque-ffi does to the state of    *)
(* any call that fails after the state was admitted.                       *)
IInvalidate(i) ==
  /\ iphase' = [iphase EXCEPT ![i] = "Finished"]
  /\ iheld'  = [iheld EXCEPT ![i] = {}]
  /\ UNCHANGED <<iage, input, iview, iexport, iout, rvars, store, net>>

\* Mutant: a rejected call wipes the state and makes it usable again.
IReject_Reusable(i) ==
  /\ iphase' = [iphase EXCEPT ![i] = "Created"]
  /\ iheld'  = [iheld EXCEPT ![i] = {}]
  /\ UNCHANGED <<iage, input, iview, iexport, iout, rvars, store, net>>

(* An error the crate returns without touching the state: the C interface  *)
(* invalidates the state all the same.                                     *)
IReject(i) ==
  \/ CAbi /\ IInvalidate(i)
  \/ ~CAbi /\ UNCHANGED vars

\* Mutant: invalidate ends the session but forgets to zeroize.
RInvalidate_KeepsSecrets(r) ==
  /\ rphase' = [rphase EXCEPT ![r] = "Finished"]
  /\ UNCHANGED <<ivars, rage, rheld, served, rview, rout, store, net>>

RInvalidate(r) ==
  /\ rphase' = [rphase EXCEPT ![r] = "Finished"]
  /\ rheld'  = [rheld EXCEPT ![r] = {}]
  /\ UNCHANGED <<ivars, rage, served, rview, rout, store, net>>

RReject(r) ==
  \/ CAbi /\ RInvalidate(r)
  \/ ~CAbi /\ UNCHANGED vars

(* A call that panics, be it after the crate's function returned and       *)
(* before its output was committed: opaque-ffi catches the panic,          *)
(* invalidates the state, and the caller gets no output.                   *)
ICallPanics(i) == CAbi /\ IInvalidate(i)
RCallPanics(r) == CAbi /\ RInvalidate(r)

-----------------------------------------------------------------------------
(* What may arrive.  A message of the wrong length is refused before it    *)
(* reaches any state; one with the wrong version does not parse.           *)

Damaged(values) == values \cup {Bad}

Unparsed == [parsed |-> FALSE]

Arrivals(kind, sent, mangled) ==
  IF kind \in Mangled THEN mangled \cup {Unparsed} ELSE sent

ResponseArrivals == Arrivals("response", responses,
  [parsed: {TRUE},
   evaluated: Damaged({m.evaluated : m \in responses}),
   rpk: Damaged({m.rpk : m \in responses})])

RecordArrivals == Arrivals("record", records,
  [parsed: {TRUE},
   maskingKey: Damaged({m.maskingKey : m \in records}) \cup {AllZero},
   envelope: Damaged({m.envelope : m \in records}),
   ipk: Damaged({m.ipk : m \in records})])

Ke1Arrivals == Arrivals("ke1", ke1s,
  [parsed: {TRUE},
   request: Damaged({m.request : m \in ke1s}),
   eph: Damaged({m.eph : m \in ke1s}),
   nonce: Damaged({m.nonce : m \in ke1s}),
   pq: Damaged({m.pq : m \in ke1s})])

Ke2Arrivals == Arrivals("ke2", ke2s,
  [parsed: {TRUE},
   nonce: Damaged({m.nonce : m \in ke2s}),
   eph: Damaged({m.eph : m \in ke2s}),
   evaluated: Damaged({m.evaluated : m \in ke2s}),
   masked: Damaged({m.masked : m \in ke2s}),
   mac: Damaged({m.mac : m \in ke2s}),
   ciphertext: Damaged({m.ciphertext : m \in ke2s})])

Ke3Arrivals == Arrivals("ke3", ke3s,
  [parsed: {TRUE}, mac: Damaged({m.mac : m \in ke3s})])

-----------------------------------------------------------------------------
(* Registration.                                                           *)

CreateRegistrationRequest(i) ==
  \/ /\ iphase[i] # "Created"
     /\ IReject(i)
  \/ \E key \in Passwords :
       /\ iphase[i] = "Created"
       /\ input' = [input EXCEPT ![i] = <<"input", [key |-> key, account |-> None]>>]
       /\ iheld' = [iheld EXCEPT ![i] = @ \cup {"private_key", "secure_key", "blind"}]
       /\ iage' = [iage EXCEPT ![i] = 0]
       /\ iphase' = [iphase EXCEPT ![i] = "RegistrationRequested"]
       /\ requests' = requests \cup {Blind(key, i)}
       /\ UNCHANGED <<iview, iexport, iout, rvars, store, responses, records,
                      ke1s, ke2s, ke3s>>

(* Stateless: a request that does not decode changes nothing.              *)
CreateRegistrationResponse ==
  \E relay \in Relays, account \in Accounts, blinded \in requests :
    /\ responses' = responses \cup
         {[parsed |-> TRUE,
           evaluated |-> EvaluateOprf(blinded, OprfKey(relay.seed, account)),
           rpk |-> RelayKey(relay.keypair)]}
    /\ UNCHANGED <<ivars, rvars, store, requests, records, ke1s, ke2s, ke3s>>

\* Mutant: the registration key pair is not zeroized once the record is made.
SealRecord_KeepsPrivateKey(i, m) ==
  /\ LET rwd == RandomizedPassword(input[i][2].key, i, m.evaluated) IN
     records' = records \cup
       {[parsed     |-> TRUE,
         maskingKey |-> MaskingKey(rwd),
         envelope   |-> Seal(rwd, m.rpk, StaticKey(i)),
         ipk        |-> StaticKey(i)]}
  /\ iheld' = [iheld EXCEPT ![i] = @ \ {"secure_key", "blind"}]
  /\ iphase' = [iphase EXCEPT ![i] = "RegistrationFinalized"]
  /\ UNCHANGED <<iage, input, iview, iexport, iout, rvars, store, requests,
                 responses, ke1s, ke2s, ke3s>>

(* A response that finalize_registration processes: it carries the pinned  *)
(* key and an element that decodes.                                        *)
SealRecord(i, m) ==
  /\ LET rwd == RandomizedPassword(input[i][2].key, i, m.evaluated) IN
     records' = records \cup
       {[parsed     |-> TRUE,
         maskingKey |-> MaskingKey(rwd),
         envelope   |-> Seal(rwd, m.rpk, StaticKey(i)),
         ipk        |-> StaticKey(i)]}
  /\ iheld' = [iheld EXCEPT ![i] = @ \ {"secure_key", "blind", "private_key"}]
  /\ iphase' = [iphase EXCEPT ![i] = "RegistrationFinalized"]
  /\ UNCHANGED <<iage, input, iview, iexport, iout, rvars, store, requests,
                 responses, ke1s, ke2s, ke3s>>

FinalizeRegistration(i) ==
  \/ /\ iphase[i] # "RegistrationRequested"
     /\ IReject(i)
  \/ /\ iphase[i] = "RegistrationRequested" /\ IExpired(i)
     /\ IInvalidate(i)
  \/ /\ iphase[i] = "RegistrationRequested" /\ ~IExpired(i)
     /\ \E m \in ResponseArrivals :
          \/ /\ ~(m.parsed /\ Valid(m.rpk))
             /\ IReject(i)
          \/ /\ m.parsed /\ Valid(m.rpk) /\ m.rpk # RelayKey(Pinned)
             /\ IInvalidate(i)
          \/ /\ m.parsed /\ m.rpk = RelayKey(Pinned) /\ ~Valid(m.evaluated)
             /\ IReject(i)
          \/ /\ m.parsed /\ m.rpk = RelayKey(Pinned) /\ Valid(m.evaluated)
             /\ SealRecord(i, m)

(* The application files a record under an account.  The Rust interface    *)
(* refuses to build credentials twice in one ResponderCredentials; the C   *)
(* interface builds a new one for every record it is given.                *)
BuildCredentials ==
  \E account \in Accounts, m \in RecordArrivals :
    /\ CAbi \/ store[account] = None
    /\ m.parsed /\ Valid(m.ipk)
    /\ store' = [store EXCEPT ![account] = <<"record", m>>]
    /\ UNCHANGED <<ivars, rvars, net>>

-----------------------------------------------------------------------------
(* Authentication.                                                         *)

GenerateKe1(i) ==
  \/ /\ iphase[i] # "Created"
     /\ IReject(i)
  \/ \E key \in Passwords, account \in Accounts :
       /\ iphase[i] = "Created"
       /\ input' = [input EXCEPT ![i] = <<"input", [key |-> key, account |-> account]>>]
       /\ iheld' = [iheld EXCEPT ![i] = @ \cup
                     {"secure_key", "account_context_hash", "ephemeral_private_key",
                      "pq_secret_key", "blind"}]
       /\ iage' = [iage EXCEPT ![i] = 0]
       /\ iphase' = [iphase EXCEPT ![i] = "Ke1Generated"]
       /\ ke1s' = ke1s \cup {[parsed  |-> TRUE,
                              request |-> Blind(key, i),
                              eph     |-> InitiatorEphemeral(i),
                              nonce   |-> <<"initiator_nonce", i>>,
                              pq      |-> <<"pq", i>>]}
       /\ UNCHANGED <<iview, iexport, iout, rvars, store, requests, responses,
                      records, ke2s, ke3s>>

(* select_credentials: what the relay answers from, registered or not.     *)
Credentials(relay, account, record) ==
  IF record = None
  THEN LET material == FakeMaterial(relay.seed, account) IN
       [maskingKey |-> MaskingKey(material), envelope |-> FakeEnvelope(material),
        ipk |-> DeriveKeyPair(material)]
  ELSE record[2]

(* The checks of generate_ke2 that come before it writes to the state.     *)
Ke2Checks(m, record) ==
  /\ m.parsed
  /\ record # None => record[2].maskingKey # AllZero
  /\ Valid(m.request)
  /\ Valid(m.eph)

\* Mutant: the evaluator of an earlier instance of the relay is still in use.
Ke2Evaluated_StaleSeed(relay, account, m) ==
  LET first == CHOOSE x \in Relays : x.keypair = relay.keypair IN
  EvaluateOprf(m.request, OprfKey(first.seed, account))

Ke2Evaluated(relay, account, m) ==
  EvaluateOprf(m.request, OprfKey(relay.seed, account))

Ke2Masked(r, relay, account, record, m) ==
  LET creds == Credentials(relay, account, record) IN
  MaskCredentialEnvelope(creds.maskingKey, <<"responder_nonce", r>>,
                         Ke2Evaluated(relay, account, m), account, creds.envelope)

ResponderPrk(r, relay, account, record, m) ==
  LET ipk  == Credentials(relay, account, record).ipk
      rpk  == RelayKey(relay.keypair)
      eph  == ResponderEphemeral(r)
      ct   == KemCiphertext(m.pq, r)
  IN CombineKeyMaterial(
       <<Dh(rpk, ipk), Dh(rpk, m.eph), Dh(eph, ipk), Dh(eph, m.eph)>>,
       KemSecret(ct),
       [initiatorEph   |-> m.eph,
        responderEph   |-> eph,
        initiatorNonce |-> m.nonce,
        responderNonce |-> <<"responder_nonce", r>>,
        ipk            |-> ipk,
        rpk            |-> rpk,
        evaluated      |-> Ke2Evaluated(relay, account, m),
        masked         |-> Ke2Masked(r, relay, account, record, m),
        pq             |-> m.pq,
        ciphertext     |-> ct,
        account        |-> account])

\* Mutant: the C interface returns the error and keeps the state.
EncapsulateFails_NotTerminal(r) ==
  /\ rheld' = [rheld EXCEPT ![r] = @ \cup {"private_key", "ephemeral_private_key"}]
  /\ UNCHANGED <<ivars, rphase, rage, served, rview, rout, store, net>>

(* encapsulate refuses the KEM key, after the private keys were written.   *)
EncapsulateFails(r) ==
  \/ CAbi /\ RInvalidate(r)
  \/ /\ ~CAbi
     /\ rheld' = [rheld EXCEPT ![r] = @ \cup {"private_key", "ephemeral_private_key"}]
     /\ UNCHANGED <<ivars, rphase, rage, served, rview, rout, store, net>>

\* Mutant: a repeated KE1 gets the key material that was derived for it before.
Ke2Prk_Repeated(r, relay, account, m) ==
  LET before == {q \in RSess : rview[q] # None /\ rview[q][2].transcript.initiatorEph = m.eph}
  IN IF before = {} THEN ResponderPrk(r, relay, account, store[account], m)
                    ELSE rview[CHOOSE q \in before : TRUE]

(* What SendKe2 derives: nothing of an earlier session enters it, however  *)
(* often the same KE1 arrives.                                             *)
Ke2Prk(r, relay, account, m) == ResponderPrk(r, relay, account, store[account], m)

SendKe2(r, relay, account, m) ==
  /\ LET prk == Ke2Prk(r, relay, account, m) IN
     /\ rview' = [rview EXCEPT ![r] = prk]
     /\ ke2s' = ke2s \cup
          {[parsed     |-> TRUE,
            nonce      |-> <<"responder_nonce", r>>,
            eph        |-> ResponderEphemeral(r),
            evaluated  |-> Ke2Evaluated(relay, account, m),
            masked     |-> Ke2Masked(r, relay, account, store[account], m),
            mac        |-> ResponderMac(prk),
            ciphertext |-> KemCiphertext(m.pq, r)]}
  /\ served' = [served EXCEPT ![r] =
                 <<"served", [relay |-> relay, account |-> account,
                              record |-> store[account]]>>]
  /\ rheld' = [rheld EXCEPT ![r] = @ \cup RSecrets]
  /\ rage' = [rage EXCEPT ![r] = 0]
  /\ rphase' = [rphase EXCEPT ![r] = "Ke2Generated"]
  /\ UNCHANGED <<ivars, rout, store, requests, responses, records, ke1s, ke3s>>

GenerateKe2(r) ==
  \/ /\ rphase[r] # "Created"
     /\ RReject(r)
  \/ /\ rphase[r] = "Created"
     /\ \E relay \in Relays, account \in Accounts, m \in Ke1Arrivals :
          \/ /\ ~Ke2Checks(m, store[account])
             /\ RReject(r)
          \/ /\ Ke2Checks(m, store[account]) /\ ~Valid(m.pq)
             /\ EncapsulateFails(r)
          \/ /\ Ke2Checks(m, store[account]) /\ Valid(m.pq)
             /\ SendKe2(r, relay, account, m)

Ke3Password(i, m) == RandomizedPassword(input[i][2].key, i, m.evaluated)

Ke3Envelope(i, m) ==
  Unmask(MaskingKey(Ke3Password(i, m)), m.nonce, m.evaluated,
         input[i][2].account, m.masked)

InitiatorPrk(i, m) ==
  LET isk == Ke3Envelope(i, m)[2].isk
      rpk == Ke3Envelope(i, m)[2].rpk
      eph == InitiatorEphemeral(i)
  IN CombineKeyMaterial(
       <<Dh(isk, rpk), Dh(eph, rpk), Dh(isk, m.eph), Dh(eph, m.eph)>>,
       Decapsulate(<<"pq", i>>, m.ciphertext),
       [initiatorEph   |-> eph,
        responderEph   |-> m.eph,
        initiatorNonce |-> <<"initiator_nonce", i>>,
        responderNonce |-> m.nonce,
        ipk            |-> isk,
        rpk            |-> rpk,
        evaluated      |-> m.evaluated,
        masked         |-> m.masked,
        pq             |-> <<"pq", i>>,
        ciphertext     |-> m.ciphertext,
        account        |-> input[i][2].account])

\* Mutant: the responder MAC is not compared.
Ke3Checks_NoMac(i, m) ==
  /\ m.parsed
  /\ Valid(m.eph)
  /\ Valid(m.evaluated)
  /\ Opens(Ke3Envelope(i, m), Ke3Password(i, m), RelayKey(Pinned))

Ke3Checks(i, m) ==
  /\ m.parsed
  /\ Valid(m.eph)
  /\ Valid(m.evaluated)
  /\ Opens(Ke3Envelope(i, m), Ke3Password(i, m), RelayKey(Pinned))
  /\ m.mac = ResponderMac(InitiatorPrk(i, m))

\* Mutant: the export key is drawn from the session's key schedule.
Ke3ExportKey_PerSession(i, m) ==
  ClientExportKey(InitiatorPrk(i, m), input[i][2].account)

Ke3ExportKey(i, m) == ClientExportKey(Ke3Password(i, m), input[i][2].account)

SendKe3(i, m) ==
  /\ iview' = [iview EXCEPT ![i] = InitiatorPrk(i, m)]
  /\ iexport' = [iexport EXCEPT ![i] = Ke3ExportKey(i, m)]
  /\ iheld' = [iheld EXCEPT ![i] = (@ \ {"secure_key", "blind", "pq_secret_key"})
                 \cup {"pq_shared_secret", "private_key", "session_key", "export_key"}]
  /\ iage' = [iage EXCEPT ![i] = 0]
  /\ iphase' = [iphase EXCEPT ![i] = "Ke3Generated"]
  /\ ke3s' = ke3s \cup {[parsed |-> TRUE, mac |-> InitiatorMac(InitiatorPrk(i, m))]}
  /\ UNCHANGED <<input, iout, rvars, store, requests, responses, records,
                 ke1s, ke2s>>

(* Every error after the phase check invalidates the state.                *)
GenerateKe3(i) ==
  \/ /\ iphase[i] # "Ke1Generated"
     /\ IReject(i)
  \/ /\ iphase[i] = "Ke1Generated" /\ IExpired(i)
     /\ IInvalidate(i)
  \/ /\ iphase[i] = "Ke1Generated" /\ ~IExpired(i)
     /\ \E m \in Ke2Arrivals :
          \/ ~Ke3Checks(i, m) /\ IInvalidate(i)
          \/ Ke3Checks(i, m) /\ SendKe3(i, m)

(* initiator_finish does not look at the deadline.                         *)
InitiatorFinish(i) ==
  \/ /\ iphase[i] # "Ke3Generated"
     /\ IReject(i)
  \/ /\ iphase[i] = "Ke3Generated"
     /\ iout' = [iout EXCEPT ![i] =
                  <<"keys", [session |-> SessionKey(iview[i]), export |-> iexport[i]]>>]
     /\ iheld' = [iheld EXCEPT ![i] = @ \
                   {"session_key", "export_key", "pq_shared_secret", "pq_secret_key",
                    "secure_key", "account_context_hash", "blind", "private_key",
                    "ephemeral_private_key"}]
     /\ iphase' = [iphase EXCEPT ![i] = "Finished"]
     /\ UNCHANGED <<iage, input, iview, iexport, rvars, store, net>>

\* Mutant: the initiator MAC is not compared.
Ke3Matches_NoMac(r, m) == m.parsed

Ke3Matches(r, m) == m.parsed /\ m.mac = InitiatorMac(rview[r])

ResponderFinish(r) ==
  \/ /\ rphase[r] # "Ke2Generated"
     /\ RReject(r)
  \/ /\ rphase[r] = "Ke2Generated" /\ RExpired(r)
     /\ RInvalidate(r)
  \/ /\ rphase[r] = "Ke2Generated" /\ ~RExpired(r)
     /\ \E m \in Ke3Arrivals :
          \/ \* a KE3 that does not parse or does not match ends the session
             /\ ~Ke3Matches(r, m)
             /\ UNCHANGED rout
          \/ /\ Ke3Matches(r, m)
             /\ rout' = [rout EXCEPT ![r] = SessionKey(rview[r])]
     /\ rheld' = [rheld EXCEPT ![r] = @ \ RSecrets]
     /\ rphase' = [rphase EXCEPT ![r] = "Finished"]
     /\ UNCHANGED <<ivars, rage, served, rview, store, net>>

-----------------------------------------------------------------------------
Next ==
  \/ \E i \in ISess : \/ CreateRegistrationRequest(i)
                      \/ FinalizeRegistration(i)
                      \/ GenerateKe1(i)
                      \/ GenerateKe3(i)
                      \/ InitiatorFinish(i)
                      \/ ICallPanics(i)
  \/ \E r \in RSess : GenerateKe2(r) \/ ResponderFinish(r) \/ RCallPanics(r)
  \/ CreateRegistrationResponse
  \/ BuildCredentials
  \/ Tick

Spec == Init /\ [][Next]_vars

-----------------------------------------------------------------------------
(* Properties.                                                             *)

(* Every variable has the shape the code gives it.                         *)
TypeOK ==
  /\ iphase \in [ISess -> IPhases]
  /\ iage \in [ISess -> 0..Lifetime]
  /\ iheld \in [ISess -> SUBSET ISecrets]
  /\ DOMAIN input = ISess /\ DOMAIN iview = ISess
  /\ DOMAIN iexport = ISess /\ DOMAIN iout = ISess
  /\ rphase \in [RSess -> RPhases]
  /\ rage \in [RSess -> 0..Lifetime]
  /\ rheld \in [RSess -> SUBSET RSecrets]
  /\ DOMAIN served = RSess /\ DOMAIN rview = RSess /\ DOMAIN rout = RSess
  /\ DOMAIN store = Accounts

(* The two ends of one authentication: the agent session i and the relay   *)
(* session r derived the same key, for the same account, at a relay with   *)
(* the key pair the agent pinned, from a registered record sealed with the *)
(* secure key that i was given.                                            *)
Authenticated(i, r) ==
  /\ iview[i] = rview[r]
  /\ served[r][2].relay.keypair = Pinned
  /\ served[r][2].account = input[i][2].account
  /\ served[r][2].record # None
  /\ served[r][2].record[2].envelope[2].rwd[2].secureKey = input[i][2].key

(* generate_ke3 succeeds only against a genuine relay session: whatever    *)
(* the transport did to KE1 and KE2, a session that ever had a session key *)
(* shares it with a ResponderState that ran for the same account on the    *)
(* same password.  In particular the answer for an unknown account, a      *)
(* wrong password and another relay's answer never get past generate_ke3.  *)
InitiatorAuthentication ==
  \A i \in ISess : iview[i] # None => \E r \in RSess : Authenticated(i, r)

(* responder_finish hands out a session key only if an agent session that  *)
(* knew the registered password derived that very key.                     *)
ResponderAuthentication ==
  \A r \in RSess : rout[r] # None =>
    \E i \in ISess : Authenticated(i, r) /\ rout[r] = SessionKey(iview[i])

(* A login is between one agent session and one relay session: the session *)
(* key that responder_finish hands out was derived by one agent session    *)
(* alone, which authenticated this relay session, and no other relay       *)
(* session hands it out, however often KE1, KE2 and KE3 were delivered.    *)
AgreementIsInjective ==
  \A r \in RSess : rout[r] # None =>
    \E i \in ISess :
      /\ Authenticated(i, r) /\ rout[r] = SessionKey(iview[i])
      /\ \A j \in ISess : iview[j] # None /\ rout[r] = SessionKey(iview[j]) => j = i
      /\ \A q \in RSess : rout[q] = rout[r] => q = r

(* The export key is durable: it depends on the password, the account and  *)
(* the OPRF seed of the relay that answered, and on nothing else, so every *)
(* login of a user yields the same one, however registrations were         *)
(* repeated, mixed up or damaged before and however often the relay was    *)
(* restarted from its stored keys.  A relay that was restarted with        *)
(* another seed answers nobody who registered before.                      *)
ExportKeyIsDurable ==
  \A i \in ISess : iexport[i] # None =>
    \E r \in RSess :
      /\ Authenticated(i, r)
      /\ iexport[i] = ClientExportKey(
                        ProperPassword(input[i][2].key, served[r][2].relay.seed,
                                       input[i][2].account),
                        input[i][2].account)

(* Which secrets an InitiatorState holds in each phase.  Finished and      *)
(* RegistrationFinalized states hold none; a state that waits for an       *)
(* answer holds everything the answer will be processed with, so the       *)
(* all-zero checks of generate_ke3 and initiator_finish never fire.        *)
InitiatorSecrets ==
  \A i \in ISess :
    /\ iphase[i] \in {"Created", "RegistrationFinalized", "Finished"} => iheld[i] = {}
    /\ iphase[i] = "RegistrationRequested" =>
         iheld[i] = {"private_key", "secure_key", "blind"}
    /\ iphase[i] = "Ke1Generated" =>
         iheld[i] = {"secure_key", "account_context_hash", "ephemeral_private_key",
                     "pq_secret_key", "blind"}
    /\ iphase[i] = "Ke3Generated" =>
         iheld[i] = {"account_context_hash", "ephemeral_private_key",
                     "pq_shared_secret", "private_key", "session_key", "export_key"}

(* Which secrets a ResponderState holds in each phase.  A state that the   *)
(* C interface leaves in Created holds none, although encapsulate may fail *)
(* after the private keys were copied in.                                  *)
ResponderSecrets ==
  \A r \in RSess :
    /\ rphase[r] = "Ke2Generated" => rheld[r] = RSecrets
    /\ rphase[r] = "Finished" => rheld[r] = {}
    /\ rphase[r] = "Created" => rheld[r] \subseteq
         IF CAbi THEN {} ELSE {"private_key", "ephemeral_private_key"}

StaysFinished ==
  /\ \A i \in ISess : iphase[i] = "Finished" =>
       iphase'[i] = "Finished" /\ iout'[i] = iout[i] /\ iview'[i] = iview[i]
  /\ \A r \in RSess : rphase[r] = "Finished" =>
       rphase'[r] = "Finished" /\ rout'[r] = rout[r] /\ rview'[r] = rview[r]

(* A session ends for good: a Finished state never moves, and neither the  *)
(* keys it released nor the fact that it released none can change later.   *)
FinishedIsFinal == [][StaysFinished]_vars

StaysExpired ==
  /\ \A r \in RSess : rphase[r] = "Ke2Generated" /\ rage[r] = Lifetime =>
       /\ rout'[r] = rout[r]
       /\ rphase'[r] = "Finished" \/ (rphase'[r] = rphase[r] /\ rage'[r] = rage[r])
  /\ \A i \in ISess :
       iphase[i] \in {"RegistrationRequested", "Ke1Generated"} /\ iage[i] = Lifetime =>
       /\ iview'[i] = iview[i]
       /\ iphase'[i] = "Finished" \/ (iphase'[i] = iphase[i] /\ iage'[i] = iage[i])

(* A late answer cannot revive a session: once a relay session, or an      *)
(* agent session that waits for an answer, has outlived its deadline it    *)
(* stays expired until it is invalidated, and derives and releases         *)
(* nothing.                                                                *)
ExpiryIsFinal == [][StaysExpired]_vars

(* The documented lifetime: after the window has passed a state completes  *)
(* nothing any more, it hands out no key.                                  *)
NoKeyAfterDeadline ==
  [][/\ \A i \in ISess : iout'[i] # iout[i] => iage[i] < Lifetime
     /\ \A r \in RSess : rout'[r] # rout[r] => rage[r] < Lifetime]_vars

-----------------------------------------------------------------------------
(* The inductive invariant behind the two authentication properties.       *)

(* Key material exists only from the phase that derives it on.             *)
KeysFollowPhases ==
  /\ \A i \in ISess :
       /\ iphase[i] \notin {"Ke3Generated", "Finished"} => iview[i] = None
       /\ iphase[i] = "Ke3Generated" => iview[i] # None
  /\ \A r \in RSess :
       /\ rphase[r] = "Created" => rview[r] = None
       /\ rphase[r] = "Ke2Generated" => rview[r] # None
       /\ rview[r] = None => rout[r] = None

(* What a relay session bound into its key: itself, its relay, the account *)
(* and the credentials it was served with.                                 *)
ViewsAreBound ==
  \A r \in RSess : rview[r] # None =>
    LET t == rview[r][2].transcript
        s == served[r][2]
        c == Credentials(s.relay, s.account, s.record)
    IN /\ t.responderEph = ResponderEphemeral(r)
       /\ t.rpk = RelayKey(s.relay.keypair)
       /\ t.account = s.account
       /\ t.masked = MaskCredentialEnvelope(c.maskingKey, t.responderNonce,
                                            t.evaluated, s.account, c.envelope)

(* Every MAC on the wire was made by the session that derived its key.     *)
MacsAreGenuine ==
  /\ \A k \in ke2s : \E r \in RSess :
       rview[r] # None /\ k.mac = ResponderMac(rview[r])
  /\ \A k \in ke3s : \E i \in ISess :
       iview[i] # None /\ k.mac = InitiatorMac(iview[i])

(* A relay session released the key it shares with an agent session.       *)
ReleasedKeysAreShared ==
  \A r \in RSess : rout[r] # None =>
    /\ rout[r] = SessionKey(rview[r])
    /\ \E i \in ISess : iview[i] # None /\ iview[i] = rview[r]

(* The conjunction the proofs carry from state to state: none of the       *)
(* authentication properties is inductive without the provenance of the    *)
(* MACs on the wire and of the relay's transcripts.                        *)
AuthInv ==
  /\ KeysFollowPhases
  /\ ViewsAreBound
  /\ MacsAreGenuine
  /\ ReleasedKeysAreShared
  /\ InitiatorAuthentication
=============================================================================
