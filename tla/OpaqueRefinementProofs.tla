----------------------- MODULE OpaqueRefinementProofs -----------------------
(***************************************************************************)
(* More theorems about Opaque, for any constants: the export key of a user *)
(* is the same in every login, the two crates implement the abstract       *)
(* handshake, and a login is between two sessions alone.  All of them need *)
(* to know where the inputs of a session came from.                        *)
(***************************************************************************)
EXTENDS OpaqueProofs, OpaqueRefinement

-----------------------------------------------------------------------------
(* Where things come from.                                                 *)

(* Sessions that were given their input by create_registration_request and *)
(* by generate_ke1.                                                        *)
Registering == {i \in ISess : input[i] # None /\ input[i][2].account = None}
LoggingIn   == {i \in ISess : input[i] # None /\ input[i][2].account # None}

(* The elements the agent sessions have blinded.                           *)
Blinded == {Blind(input[i][2].key, i) : i \in {j \in ISess : input[j] # None}}

(* An envelope that was damaged, or sealed by one of the given sessions: a *)
(* blind that did not cancel was that session's own.                       *)
SealedBy(sessions, envelope) ==
  \/ envelope = Bad
  \/ LET residue == envelope[2].rwd[2].residue
     IN \E i \in sessions : residue = <<>> \/ residue[2] = i

(* An agent session is given one input, for one purpose.                   *)
InputsFollowPhases ==
  \A i \in ISess :
    /\ iphase[i] = "Created" => input[i] = None
    /\ iphase[i] = "RegistrationRequested" => i \in Registering
    /\ iphase[i] = "Ke1Generated" => i \in LoggingIn
    /\ iview[i] # None => i \in LoggingIn

(* Envelopes are sealed by registrations, never by logins.                 *)
EnvelopesAreRegistered ==
  /\ \A m \in records : SealedBy(Registering, m.envelope)
  /\ \A a \in Accounts : store[a] # None => SealedBy(Registering, store[a][2].envelope)
  /\ \A r \in RSess : served[r] # None /\ served[r][2].record # None =>
       SealedBy(Registering, served[r][2].record[2].envelope)

(* Relay sessions evaluate what an agent session blinded.                  *)
RequestsAreBlinded ==
  /\ \A m \in ke1s : m.request \in Blinded
  /\ \A r \in RSess : rview[r] # None =>
       \E b \in Blinded : rview[r][2].transcript.evaluated =
         EvaluateOprf(b, OprfKey(served[r][2].relay.seed, served[r][2].account))

(* A session's tables are filled together, and an agent's key names it.    *)
ViewsAreComplete ==
  /\ \A r \in RSess : rview[r] = None <=> served[r] = None
  /\ \A r \in RSess : rphase[r] # "Finished" => rout[r] = None
  /\ \A i \in ISess : iphase[i] # "Finished" => iout[i] = None
  /\ \A i \in ISess : iexport[i] # None => iview[i] # None
  /\ \A i \in ISess : iview[i] # None =>
       iview[i][2].transcript.initiatorEph = InitiatorEphemeral(i)

ProvenanceInv ==
  /\ InputsFollowPhases
  /\ EnvelopesAreRegistered
  /\ RequestsAreBlinded
  /\ ViewsAreComplete

-----------------------------------------------------------------------------
(* What a step leaves alone.                                               *)

(* What a session was given and what it derived never change.              *)
RowsStay ==
  /\ \A i \in ISess : input[i] # None => input'[i] = input[i]
  /\ \A i \in ISess : iview[i] # None => iview'[i] = iview[i] /\ iexport'[i] = iexport[i]
  /\ \A r \in RSess : rview[r] # None => rview'[r] = rview[r] /\ served'[r] = served[r]

(* The step of every action keeps them.                                    *)
LEMMA RowsStayNext ==
  TypeOK /\ AuthInv /\ InputsFollowPhases /\ [Next]_vars => RowsStay
  <1> SUFFICES ASSUME TypeOK, AuthInv, InputsFollowPhases, [Next]_vars
               PROVE  RowsStay
    OBVIOUS
  <1>0. /\ \A i \in ISess : iphase[i] = "Created" => input[i] = None
        /\ \A i \in ISess : iphase[i] = "Ke1Generated" => iview[i] = None
        /\ \A r \in RSess : rphase[r] = "Created" => rview[r] = None
    BY DEF InputsFollowPhases, AuthInv, KeysFollowPhases
  <1> USE DEF TypeOK, RowsStay
  <1>1. ASSUME NEW i \in ISess, IInvalidate(i)
        PROVE  RowsStay
    BY <1>1 DEF IInvalidate, rvars
  <1>2. ASSUME NEW r \in RSess, RInvalidate(r)
        PROVE  RowsStay
    BY <1>2 DEF RInvalidate, ivars
  <1>3. CASE UNCHANGED vars
    BY <1>3 DEF vars, ivars, rvars
  <1>4. ASSUME NEW i \in ISess, IReject(i)
        PROVE  RowsStay
    BY <1>1, <1>3, <1>4 DEF IReject
  <1>5. ASSUME NEW r \in RSess, RReject(r)
        PROVE  RowsStay
    BY <1>2, <1>3, <1>5 DEF RReject
  <1>6. ASSUME NEW i \in ISess, CreateRegistrationRequest(i)
        PROVE  RowsStay
    BY <1>0, <1>4, <1>6 DEF CreateRegistrationRequest, rvars
  <1>7. ASSUME NEW i \in ISess, FinalizeRegistration(i)
        PROVE  RowsStay
    BY <1>1, <1>4, <1>7 DEF FinalizeRegistration, SealRecord, rvars
  <1>8. ASSUME NEW i \in ISess, GenerateKe1(i)
        PROVE  RowsStay
    BY <1>0, <1>4, <1>8 DEF GenerateKe1, rvars
  <1>9. ASSUME NEW i \in ISess, GenerateKe3(i)
        PROVE  RowsStay
    BY <1>0, <1>1, <1>4, <1>9 DEF GenerateKe3, SendKe3, rvars
  <1>10. ASSUME NEW i \in ISess, InitiatorFinish(i)
         PROVE  RowsStay
    BY <1>4, <1>10 DEF InitiatorFinish, rvars
  <1>11. ASSUME NEW r \in RSess, GenerateKe2(r)
         PROVE  RowsStay
    BY <1>0, <1>2, <1>5, <1>11 DEF GenerateKe2, EncapsulateFails, SendKe2, ivars
  <1>12. ASSUME NEW r \in RSess, ResponderFinish(r)
         PROVE  RowsStay
    BY <1>2, <1>5, <1>12 DEF ResponderFinish, ivars
  <1>13. CASE CreateRegistrationResponse \/ BuildCredentials \/ Tick
    BY <1>13 DEF CreateRegistrationResponse, BuildCredentials, Tick, ivars, rvars
  <1>14. QED
    BY <1>1, <1>2, <1>3, <1>6, <1>7, <1>8, <1>9, <1>10, <1>11, <1>12, <1>13
    DEF Next, ICallPanics, RCallPanics

(* What is known of the inputs is known from then on.                      *)
LEMMA InputsGrow ==
  ASSUME \A i \in ISess : input[i] # None => input'[i] = input[i]
  PROVE  /\ Registering \subseteq Registering' /\ LoggingIn \subseteq LoggingIn'
         /\ Blinded \subseteq Blinded'
  BY DEF Registering, LoggingIn, Blinded

(* An envelope sealed by one of some sessions is sealed by one of more.    *)
LEMMA SealedByMore ==
  ASSUME NEW some, NEW more, some \subseteq more, NEW envelope, SealedBy(some, envelope)
  PROVE  SealedBy(more, envelope)
  BY DEF SealedBy

(* A step that derives no key: what it must keep to.                       *)
LEMMA ProvenanceKept ==
  ASSUME ProvenanceInv,
         \A i \in ISess : input[i] # None => input'[i] = input[i],
         UNCHANGED <<iview, iexport, rview, served>>,
         \A i \in ISess :
           \/ iphase'[i] \in {iphase[i], "Finished", "RegistrationFinalized"}
              /\ input'[i] = input[i]
           \/ iphase'[i] = "RegistrationRequested" /\ i \in Registering'
           \/ iphase'[i] = "Ke1Generated" /\ i \in LoggingIn',
         \A m \in records' : m \in records \/ SealedBy(Registering', m.envelope),
         \A a \in Accounts : store'[a] = store[a] \/ SealedBy(Registering, store'[a][2].envelope),
         \A m \in ke1s' : m \in ke1s \/ m.request \in Blinded',
         \A r \in RSess : rphase'[r] # "Finished" => rphase[r] # "Finished" /\ rout'[r] = rout[r],
         \A i \in ISess : iphase'[i] # "Finished" => iphase[i] # "Finished" /\ iout'[i] = iout[i]
  PROVE  ProvenanceInv'
  <1>1. /\ Registering \subseteq Registering' /\ LoggingIn \subseteq LoggingIn'
        /\ Blinded \subseteq Blinded'
    BY InputsGrow
  <1>2. InputsFollowPhases'
    <2> SUFFICES ASSUME NEW i \in ISess
                 PROVE  /\ iphase'[i] = "Created" => input'[i] = None
                        /\ iphase'[i] = "RegistrationRequested" => i \in Registering'
                        /\ iphase'[i] = "Ke1Generated" => i \in LoggingIn'
                        /\ iview'[i] # None => i \in LoggingIn'
      BY DEF InputsFollowPhases
    <2>1. /\ iphase[i] = "Created" => input[i] = None
          /\ iphase[i] = "RegistrationRequested" => i \in Registering
          /\ iphase[i] = "Ke1Generated" => i \in LoggingIn
          /\ iview[i] # None => i \in LoggingIn
      <3>1. InputsFollowPhases
        BY DEF ProvenanceInv
      <3>2. QED
        BY <3>1, Zenon DEF InputsFollowPhases
    <2>2. QED
      BY <1>1, <2>1
  <1>3. EnvelopesAreRegistered'
    <2>1. \A m \in records' : SealedBy(Registering', m.envelope)
      BY <1>1, SealedByMore DEF ProvenanceInv, EnvelopesAreRegistered
    <2>2. \A a \in Accounts : store'[a] # None => SealedBy(Registering', store'[a][2].envelope)
      BY <1>1, SealedByMore DEF ProvenanceInv, EnvelopesAreRegistered
    <2>3. \A r \in RSess : served'[r] # None /\ served'[r][2].record # None =>
            SealedBy(Registering', served'[r][2].record[2].envelope)
      BY <1>1, SealedByMore DEF ProvenanceInv, EnvelopesAreRegistered
    <2>4. QED
      BY <2>1, <2>2, <2>3, Zenon DEF EnvelopesAreRegistered, SealedBy
  <1>4. RequestsAreBlinded'
    BY <1>1 DEF ProvenanceInv, RequestsAreBlinded
  <1>5. ViewsAreComplete'
    BY DEF ProvenanceInv, ViewsAreComplete
  <1>6. QED
    BY <1>2, <1>3, <1>4, <1>5 DEF ProvenanceInv

(* What arrives as a record or a KE1 is what was sent, or damaged.         *)
LEMMA RecordEnvelopes ==
  ASSUME EnvelopesAreRegistered, NEW m \in RecordArrivals, m.parsed
  PROVE  SealedBy(Registering, m.envelope)
  <1>1. \A k \in records : SealedBy(Registering, k.envelope)
    BY DEF EnvelopesAreRegistered
  <1>2. CASE "record" \notin Mangled
    BY <1>1, <1>2 DEF RecordArrivals, Arrivals
  <1>3. CASE "record" \in Mangled
    <2>1. m # Unparsed
      BY DEF Unparsed
    <2>2. m.envelope \in Damaged({k.envelope : k \in records})
      BY <1>3, <2>1 DEF RecordArrivals, Arrivals
    <2>3. SealedBy(Registering, Bad)
      BY DEF SealedBy
    <2>4. QED
      BY <1>1, <2>2, <2>3 DEF Damaged
  <1>4. QED
    BY <1>2, <1>3

(* A KE1 that passes the relay's checks carries the request of a session:  *)
(* damage in transit leaves it, or spoils it beyond decoding.              *)
LEMMA Ke1Requests ==
  ASSUME RequestsAreBlinded, NEW m \in Ke1Arrivals, m.parsed, Valid(m.request)
  PROVE  m.request \in Blinded
  <1>1. \A k \in ke1s : k.request \in Blinded
    BY DEF RequestsAreBlinded
  <1>2. CASE "ke1" \notin Mangled
    BY <1>1, <1>2 DEF Ke1Arrivals, Arrivals
  <1>3. CASE "ke1" \in Mangled
    <2>1. m # Unparsed
      BY DEF Unparsed
    <2>2. m.request \in Damaged({k.request : k \in ke1s})
      BY <1>3, <2>1 DEF Ke1Arrivals, Arrivals
    <2>3. QED
      BY <1>1, <2>2 DEF Damaged, Valid
  <1>4. QED
    BY <1>2, <1>3

(* finalize_registration: a blind that did not cancel is the session's.    *)
LEMMA SealedByItself ==
  ASSUME NEW i, NEW sessions, i \in sessions, NEW key, NEW evaluated, NEW rpk, NEW isk
  PROVE  SealedBy(sessions, Seal(RandomizedPassword(key, i, evaluated), rpk, isk))
  <1> DEFINE e == Seal(RandomizedPassword(key, i, evaluated), rpk, isk)
  <1>1. e[2].rwd[2].residue = IF evaluated[2].blind = i
                              THEN <<>> ELSE <<evaluated[2].blind, i>>
    BY DEF Seal, RandomizedPassword
  <1>2. e[2].rwd[2].residue = <<>> \/ e[2].rwd[2].residue[2] = i
    BY <1>1
  <1> HIDE DEF e
  <1>3. QED
    BY <1>2 DEF SealedBy, e

(* generate_ke2 answers from the store and evaluates what it was sent.     *)
LEMMA ProvenanceSendKe2 ==
  ASSUME TypeOK, ProvenanceInv, RowsStay, NEW r \in RSess, rphase[r] = "Created",
         rview[r] = None,
         NEW relay, NEW account \in Accounts, NEW m \in Ke1Arrivals,
         Ke2Checks(m, store[account]), SendKe2(r, relay, account, m)
  PROVE  ProvenanceInv'
  <1> DEFINE prk == ResponderPrk(r, relay, account, store[account], m)
             row == <<"served", [relay |-> relay, account |-> account,
                                 record |-> store[account]]>>
  <1>1. /\ rview' = [rview EXCEPT ![r] = prk]
        /\ served' = [served EXCEPT ![r] = row]
        /\ rphase' = [rphase EXCEPT ![r] = "Ke2Generated"]
        /\ UNCHANGED <<iphase, input, iview, iexport, iout, rout, store, records, ke1s>>
    BY DEF SendKe2, Ke2Prk, ivars
  <1>2. /\ rview'[r] = prk /\ served'[r] = row
        /\ \A q \in RSess \ {r} : rview'[q] = rview[q] /\ served'[q] = served[q]
    BY <1>1 DEF TypeOK
  <1>3. /\ Registering' = Registering /\ LoggingIn' = LoggingIn /\ Blinded' = Blinded
    BY <1>1 DEF Registering, LoggingIn, Blinded
  <1>4. InputsFollowPhases'
    BY <1>1, <1>3 DEF ProvenanceInv, InputsFollowPhases
  <1>5. EnvelopesAreRegistered'
    <2>1. \A k \in records' : SealedBy(Registering, k.envelope)
      BY <1>1 DEF ProvenanceInv, EnvelopesAreRegistered
    <2>2. \A a \in Accounts : store[a] # None => SealedBy(Registering, store[a][2].envelope)
      BY DEF ProvenanceInv, EnvelopesAreRegistered
    <2>3. ASSUME NEW q \in RSess, served'[q] # None, served'[q][2].record # None
          PROVE  SealedBy(Registering, served'[q][2].record[2].envelope)
      <3>1. CASE q = r
        <4>1. served'[q][2].record = store[account]
          BY <1>2, <3>1
        <4>2. QED
          BY <2>2, <2>3, <4>1
      <3>2. CASE q # r
        BY <1>2, <2>3, <3>2 DEF ProvenanceInv, EnvelopesAreRegistered
      <3>3. QED
        BY <3>1, <3>2
    <2>4. QED
      BY <1>1, <1>3, <2>1, <2>2, <2>3, Zenon DEF EnvelopesAreRegistered, SealedBy
  <1>6. RequestsAreBlinded'
    <2>1. \A k \in ke1s' : k.request \in Blinded
      BY <1>1 DEF ProvenanceInv, RequestsAreBlinded
    <2>2. ASSUME NEW q \in RSess, rview'[q] # None
          PROVE  \E b \in Blinded : rview'[q][2].transcript.evaluated =
                   EvaluateOprf(b, OprfKey(served'[q][2].relay.seed, served'[q][2].account))
      <3>1. CASE q = r
        <4>1. m.request \in Blinded
          BY Ke1Requests DEF ProvenanceInv, Ke2Checks
        <4>2. prk[2].transcript.evaluated = EvaluateOprf(m.request, OprfKey(relay.seed, account))
          BY DEF ResponderPrk, CombineKeyMaterial, Ke2Evaluated
        <4>3. served'[q][2].relay = relay /\ served'[q][2].account = account
          BY <1>2, <3>1
        <4> HIDE DEF prk
        <4>4. QED
          BY <1>2, <3>1, <4>1, <4>2, <4>3
      <3>2. CASE q # r
        BY <1>2, <2>2, <3>2 DEF ProvenanceInv, RequestsAreBlinded
      <3>3. QED
        BY <3>1, <3>2
    <2>3. QED
      BY <1>3, <2>1, <2>2, Zenon DEF RequestsAreBlinded
  <1>7. ViewsAreComplete'
    <2>1. prk # None
      BY TermsDiffer DEF ResponderPrk
    <2>2. row # None
      BY DEF None
    <2> HIDE DEF prk, row
    <2>3. \A q \in RSess : rview'[q] = None <=> served'[q] = None
      BY <1>2, <2>1, <2>2 DEF ProvenanceInv, ViewsAreComplete
    <2>4. \A q \in RSess : rphase'[q] # "Finished" => rout'[q] = None
      BY <1>1 DEF ProvenanceInv, ViewsAreComplete, TypeOK
    <2>5. QED
      BY <1>1, <2>3, <2>4 DEF ProvenanceInv, ViewsAreComplete
  <1>8. QED
    BY <1>4, <1>5, <1>6, <1>7 DEF ProvenanceInv

(* generate_ke3 gives a session that logs in a key that names it.          *)
LEMMA ProvenanceSendKe3 ==
  ASSUME TypeOK, ProvenanceInv, NEW i \in ISess, iphase[i] = "Ke1Generated",
         NEW m, SendKe3(i, m)
  PROVE  ProvenanceInv'
  <1> DEFINE prk == InitiatorPrk(i, m)
  <1>1. /\ iview' = [iview EXCEPT ![i] = prk]
        /\ iexport' = [iexport EXCEPT ![i] = Ke3ExportKey(i, m)]
        /\ iphase' = [iphase EXCEPT ![i] = "Ke3Generated"]
        /\ UNCHANGED <<input, iout, rphase, rview, rout, served, store, records, ke1s>>
    BY DEF SendKe3, rvars
  <1>2. /\ iview'[i] = prk
        /\ \A j \in ISess \ {i} : iview'[j] = iview[j] /\ iexport'[j] = iexport[j]
    BY <1>1 DEF TypeOK
  <1>3. /\ Registering' = Registering /\ LoggingIn' = LoggingIn /\ Blinded' = Blinded
    BY <1>1 DEF Registering, LoggingIn, Blinded
  <1>4. i \in LoggingIn
    BY DEF ProvenanceInv, InputsFollowPhases
  <1>5. InputsFollowPhases'
    <2>1. InputsFollowPhases
      BY Zenon DEF ProvenanceInv
    <2> HIDE DEF prk
    <2>2. QED
      <3>1. \A j \in ISess : iphase'[j] = iphase[j] \/ (j = i /\ iphase'[j] = "Ke3Generated")
        BY <1>1 DEF TypeOK
      <3>2. \A j \in ISess : iview'[j] = iview[j] \/ j = i
        BY <1>2
      <3>3. QED
        BY <1>1, <1>3, <1>4, <2>1, <3>1, <3>2 DEF InputsFollowPhases
  <1>6. EnvelopesAreRegistered'
    BY <1>1, <1>3, Zenon DEF ProvenanceInv, EnvelopesAreRegistered, SealedBy
  <1>7. RequestsAreBlinded'
    <2>1. RequestsAreBlinded
      BY DEF ProvenanceInv
    <2>2. QED
      BY <1>1, <1>3, <2>1, Zenon DEF RequestsAreBlinded
  <1>8. ViewsAreComplete'
    <2>1. prk # None /\ prk[2].transcript.initiatorEph = InitiatorEphemeral(i)
      BY TermsDiffer DEF InitiatorPrk, CombineKeyMaterial
    <2>2. ViewsAreComplete
      BY DEF ProvenanceInv
    <2> HIDE DEF prk
    <2>3. QED
      BY <1>1, <1>2, <2>1, <2>2 DEF ViewsAreComplete, TypeOK
  <1>9. QED
    BY <1>5, <1>6, <1>7, <1>8 DEF ProvenanceInv

(* The invariant is inductive.                                             *)
LEMMA ProvenanceNext ==
  TypeOK /\ AuthInv /\ ProvenanceInv /\ [Next]_vars => ProvenanceInv'
  <1> SUFFICES ASSUME TypeOK, AuthInv, ProvenanceInv, [Next]_vars
               PROVE  ProvenanceInv'
    OBVIOUS
  <1>0. /\ RowsStay
        /\ \A i \in ISess : iphase[i] = "Created" => input[i] = None
        /\ \A i \in ISess : iphase[i] = "RegistrationRequested" => i \in Registering
        /\ \A r \in RSess : rphase[r] = "Created" => rview[r] = None
        /\ EnvelopesAreRegistered
        /\ DOMAIN input = ISess /\ DOMAIN iphase = ISess /\ DOMAIN iout = ISess
        /\ DOMAIN rphase = RSess /\ DOMAIN rout = RSess
        /\ DOMAIN store = Accounts
    BY RowsStayNext DEF ProvenanceInv, InputsFollowPhases, AuthInv, KeysFollowPhases, TypeOK
  <1>1. ASSUME NEW i \in ISess, IInvalidate(i)
        PROVE  ProvenanceInv'
    BY <1>0, <1>1, ProvenanceKept DEF IInvalidate, rvars, net
  <1>2. ASSUME NEW r \in RSess, RInvalidate(r)
        PROVE  ProvenanceInv'
    BY <1>0, <1>2, ProvenanceKept DEF RInvalidate, ivars, net
  <1>3. CASE UNCHANGED vars
    BY <1>0, <1>3, ProvenanceKept DEF vars, ivars, rvars, net
  <1>4. ASSUME NEW i \in ISess, IReject(i)
        PROVE  ProvenanceInv'
    BY <1>1, <1>3, <1>4 DEF IReject
  <1>5. ASSUME NEW r \in RSess, RReject(r)
        PROVE  ProvenanceInv'
    BY <1>2, <1>3, <1>5 DEF RReject
  <1>6. ASSUME NEW i \in ISess, CreateRegistrationRequest(i)
        PROVE  ProvenanceInv'
    <2>1. CASE IReject(i)
      BY <1>4, <2>1
    <2>2. CASE ~IReject(i)
      <3>1. PICK key \in Passwords :
              input' = [input EXCEPT ![i] = <<"input", [key |-> key, account |-> None]>>]
        BY <1>6, <2>2 DEF CreateRegistrationRequest
      <3>2. /\ iphase[i] = "Created"
            /\ iphase' = [iphase EXCEPT ![i] = "RegistrationRequested"]
            /\ UNCHANGED <<iview, iexport, iout, rphase, rview, rout, served, store,
                           records, ke1s>>
        BY <1>6, <2>2 DEF CreateRegistrationRequest, rvars
      <3>3. i \in Registering'
        <4>1. input'[i] = <<"input", [key |-> key, account |-> None]>>
          BY <1>0, <3>1
        <4>2. input'[i] # None /\ input'[i][2].account = None
          BY <4>1 DEF None
        <4>3. QED
          BY <4>2 DEF Registering
      <3>4. \A j \in ISess \ {i} : input'[j] = input[j] /\ iphase'[j] = iphase[j]
        BY <1>0, <3>1, <3>2
      <3>5. iphase'[i] = "RegistrationRequested"
        BY <1>0, <3>2
      <3>6. \A j \in ISess : input[j] # None => input'[j] = input[j]
        BY <1>0 DEF RowsStay
      <3>7. QED
        BY <3>2, <3>3, <3>4, <3>5, <3>6, ProvenanceKept
    <2>3. QED
      BY <2>1, <2>2
  <1>7. ASSUME NEW i \in ISess, FinalizeRegistration(i)
        PROVE  ProvenanceInv'
    <2>1. ASSUME iphase[i] = "RegistrationRequested", NEW m, SealRecord(i, m)
          PROVE  ProvenanceInv'
      <3>1. /\ iphase' = [iphase EXCEPT ![i] = "RegistrationFinalized"]
            /\ UNCHANGED <<input, iview, iexport, iout, rphase, rview, rout, served,
                           store, ke1s>>
        BY <2>1 DEF SealRecord, rvars
      <3>2. \A k \in records' : k \in records \/ SealedBy(Registering, k.envelope)
        <4>1. SealedBy(Registering, Seal(RandomizedPassword(input[i][2].key, i, m.evaluated),
                                         m.rpk, StaticKey(i)))
          BY <1>0, <2>1, SealedByItself
        <4>2. QED
          BY <2>1, <4>1 DEF SealRecord
      <3>3. Registering' = Registering
        BY <3>1 DEF Registering
      <3>4. QED
        BY <1>0, <2>1, <3>1, <3>2, <3>3, ProvenanceKept
    <2>2. QED
      BY <1>1, <1>4, <1>7, <2>1 DEF FinalizeRegistration
  <1>8. ASSUME NEW i \in ISess, GenerateKe1(i)
        PROVE  ProvenanceInv'
    <2>1. CASE IReject(i)
      BY <1>4, <2>1
    <2>2. CASE ~IReject(i)
      <3>1. PICK key \in Passwords, account \in Accounts :
              /\ input' = [input EXCEPT ![i] =
                            <<"input", [key |-> key, account |-> account]>>]
              /\ ke1s' = ke1s \cup {[parsed  |-> TRUE,
                                     request |-> Blind(key, i),
                                     eph     |-> InitiatorEphemeral(i),
                                     nonce   |-> <<"initiator_nonce", i>>,
                                     pq      |-> <<"pq", i>>]}
        BY <1>8, <2>2 DEF GenerateKe1
      <3>2. /\ iphase[i] = "Created"
            /\ iphase' = [iphase EXCEPT ![i] = "Ke1Generated"]
            /\ UNCHANGED <<iview, iexport, iout, rphase, rview, rout, served, store,
                           records>>
        BY <1>8, <2>2 DEF GenerateKe1, rvars
      <3>3. input'[i] = <<"input", [key |-> key, account |-> account]>>
        BY <1>0, <3>1
      <3>4. input'[i] # None /\ input'[i][2].account = account /\ input'[i][2].key = key
        BY <3>3 DEF None
      <3>5. i \in LoggingIn' /\ Blind(key, i) \in Blinded'
        BY <3>4, NoneAssumption DEF LoggingIn, Blinded
      <3>6. \A m \in ke1s' : m \in ke1s \/ m.request \in Blinded'
        BY <3>1, <3>5
      <3>7. \A j \in ISess \ {i} : input'[j] = input[j] /\ iphase'[j] = iphase[j]
        BY <1>0, <3>1, <3>2
      <3>8. iphase'[i] = "Ke1Generated"
        BY <1>0, <3>2
      <3>9. \A j \in ISess : input[j] # None => input'[j] = input[j]
        BY <1>0 DEF RowsStay
      <3>10. QED
        BY <3>2, <3>5, <3>6, <3>7, <3>8, <3>9, ProvenanceKept
    <2>3. QED
      BY <2>1, <2>2
  <1>9. ASSUME NEW i \in ISess, GenerateKe3(i)
        PROVE  ProvenanceInv'
    BY <1>1, <1>4, <1>9, ProvenanceSendKe3 DEF GenerateKe3
  <1>10. ASSUME NEW i \in ISess, InitiatorFinish(i)
         PROVE  ProvenanceInv'
    <2>1. CASE IReject(i)
      BY <1>4, <2>1
    <2>2. CASE ~IReject(i)
      BY <1>0, <1>10, <2>2, ProvenanceKept DEF InitiatorFinish, rvars, net
    <2>3. QED
      BY <2>1, <2>2
  <1>11. ASSUME NEW r \in RSess, GenerateKe2(r)
         PROVE  ProvenanceInv'
    <2>1. CASE RReject(r)
      BY <1>5, <2>1
    <2>2. CASE EncapsulateFails(r)
      <3>1. CASE RInvalidate(r)
        BY <1>2, <3>1
      <3>2. CASE ~RInvalidate(r)
        BY <1>0, <2>2, <3>2, ProvenanceKept DEF EncapsulateFails, ivars, net
      <3>3. QED
        BY <3>1, <3>2
    <2>3. ASSUME rphase[r] = "Created",
                 NEW relay, NEW account \in Accounts, NEW m \in Ke1Arrivals,
                 Ke2Checks(m, store[account]), SendKe2(r, relay, account, m)
          PROVE  ProvenanceInv'
      BY <1>0, <2>3, ProvenanceSendKe2
    <2>4. QED
      BY <1>11, <2>1, <2>2, <2>3 DEF GenerateKe2
  <1>12. ASSUME NEW r \in RSess, ResponderFinish(r)
         PROVE  ProvenanceInv'
    <2>1. CASE RReject(r) \/ RInvalidate(r)
      BY <1>2, <1>5, <2>1
    <2>2. CASE ~(RReject(r) \/ RInvalidate(r))
      <3>1. /\ rphase' = [rphase EXCEPT ![r] = "Finished"] /\ rphase[r] = "Ke2Generated"
            /\ \A q \in RSess \ {r} : rout'[q] = rout[q]
            /\ UNCHANGED <<iphase, input, iview, iexport, iout, rview, served, store,
                           records, ke1s>>
        BY <1>0, <1>12, <2>2 DEF ResponderFinish, ivars, net
      <3>2. QED
        BY <1>0, <3>1, ProvenanceKept
    <2>3. QED
      BY <2>1, <2>2
  <1>13. CASE CreateRegistrationResponse \/ Tick
    BY <1>0, <1>13, ProvenanceKept DEF CreateRegistrationResponse, Tick, ivars, rvars, net
  <1>14. CASE BuildCredentials
    <2>1. PICK account \in Accounts, m \in RecordArrivals :
            m.parsed /\ store' = [store EXCEPT ![account] = <<"record", m>>]
      BY <1>14 DEF BuildCredentials
    <2>2. SealedBy(Registering, m.envelope)
      BY <1>0, <2>1, RecordEnvelopes
    <2>3. \A a \in Accounts :
            store'[a] = store[a] \/ SealedBy(Registering, store'[a][2].envelope)
      BY <1>0, <2>1, <2>2
    <2>4. UNCHANGED <<ivars, rvars, net>>
      BY <1>14 DEF BuildCredentials
    <2>5. QED
      BY <1>0, <2>3, <2>4, ProvenanceKept DEF ivars, rvars, net
  <1>15. QED
    BY <1>1, <1>2, <1>3, <1>6, <1>7, <1>8, <1>9, <1>10, <1>11, <1>12, <1>13, <1>14
    DEF Next, ICallPanics, RCallPanics

(* Together with AuthInv it holds in every reachable state.                *)
LEMMA Provenance == Spec => [](TypeOK /\ AuthInv /\ ProvenanceInv)
  <1>1. Init => ProvenanceInv
    BY DEF Init, ProvenanceInv, InputsFollowPhases, EnvelopesAreRegistered,
           RequestsAreBlinded, ViewsAreComplete
  <1>2. QED
    BY <1>1, TypeCorrect, AuthInvInit, AuthInvNext, ProvenanceNext, PTL DEF Spec

-----------------------------------------------------------------------------
(* The export key.                                                         *)

(* The blind of a session that logs in cancels: the only envelopes there   *)
(* are carry a blind that cancelled, or one of a session that registers.   *)
LEMMA BlindsCancel ==
  ASSUME AuthInv, ProvenanceInv,
         NEW i \in LoggingIn, NEW m, NEW r \in RSess,
         rview[r] # None, rview[r] = InitiatorPrk(i, m),
         served[r][2].record # None,
         served[r][2].account = input[i][2].account,
         served[r][2].record[2].envelope[1] = "sealed",
         served[r][2].record[2].envelope[2].rwd = Ke3Password(i, m)
  PROVE  Ke3Password(i, m) =
           ProperPassword(input[i][2].key, served[r][2].relay.seed, input[i][2].account)
  <1> DEFINE e == served[r][2].record[2].envelope
             seed == served[r][2].relay.seed
             account == input[i][2].account
  <1>1. SealedBy(Registering, e)
    BY DEF ProvenanceInv, EnvelopesAreRegistered, ViewsAreComplete
  <1>2. e # Bad
    BY SMTT(20) DEF Bad
  <1>3. Ke3Password(i, m)[2].residue =
          IF m.evaluated[2].blind = i THEN <<>> ELSE <<m.evaluated[2].blind, i>>
    BY DEF Ke3Password, RandomizedPassword
  <1>4. m.evaluated[2].blind = i
    <2>1. SUFFICES ASSUME m.evaluated[2].blind # i
                   PROVE  FALSE
      OBVIOUS
    <2>2. e[2].rwd[2].residue = <<m.evaluated[2].blind, i>>
      BY <1>3, <2>1
    <2>3. e[2].rwd[2].residue # <<>> /\ e[2].rwd[2].residue[2] = i
      BY <2>2
    <2>4. i \in Registering
      BY <1>1, <1>2, <2>3 DEF SealedBy
    <2>5. QED
      BY <2>4 DEF Registering, LoggingIn
  <1>5. PICK b \in Blinded : rview[r][2].transcript.evaluated =
                               EvaluateOprf(b, OprfKey(seed, served[r][2].account))
    BY DEF ProvenanceInv, RequestsAreBlinded
  <1>6. rview[r][2].transcript.evaluated = m.evaluated
    BY DEF InitiatorPrk, CombineKeyMaterial
  <1>7. m.evaluated = EvaluateOprf(b, OprfKey(seed, account))
    BY <1>5, <1>6
  <1>8. PICK j \in ISess : b = Blind(input[j][2].key, j)
    BY DEF Blinded
  <1>9. /\ m.evaluated[2].blind = j
        /\ m.evaluated[2].input = input[j][2].key
        /\ m.evaluated[2].key = OprfKey(seed, account)
    BY <1>7, <1>8 DEF EvaluateOprf, Blind
  <1>10. j = i
    BY <1>4, <1>9
  <1>11. QED
    BY <1>3, <1>4, <1>9, <1>10 DEF Ke3Password, RandomizedPassword, ProperPassword

(* generate_ke3 is the only step that makes an export key, and it makes    *)
(* the user's.                                                             *)
LEMMA ExportKeyNext ==
  TypeOK /\ AuthInv /\ AuthInv' /\ ProvenanceInv /\ ExportKeyIsDurable /\ [Next]_vars
    => ExportKeyIsDurable'
  <1> SUFFICES ASSUME TypeOK, AuthInv, AuthInv', ProvenanceInv, ExportKeyIsDurable,
                      [Next]_vars, NEW i \in ISess, iexport'[i] # None
               PROVE  \E r \in RSess :
                        /\ Authenticated(i, r)'
                        /\ iexport'[i] = ClientExportKey(
                             ProperPassword(input'[i][2].key, served'[r][2].relay.seed,
                                            input'[i][2].account),
                             input'[i][2].account)
    BY DEF ExportKeyIsDurable, ProperPassword, ClientExportKey, OprfKey
  <1>1. RowsStay
    BY RowsStayNext DEF ProvenanceInv
  <1>2. CASE iexport'[i] = iexport[i]
    <2>1. iview[i] # None /\ input[i] # None
      BY <1>2 DEF ProvenanceInv, ViewsAreComplete, InputsFollowPhases, LoggingIn
    <2>2. PICK r \in RSess :
            /\ Authenticated(i, r)
            /\ iexport[i] = ClientExportKey(
                 ProperPassword(input[i][2].key, served[r][2].relay.seed,
                                input[i][2].account),
                 input[i][2].account)
      BY <1>2 DEF ExportKeyIsDurable
    <2>3. rview[r] # None
      BY <2>1, <2>2 DEF Authenticated
    <2>4. /\ input'[i] = input[i] /\ iview'[i] = iview[i]
          /\ rview'[r] = rview[r] /\ served'[r] = served[r]
      BY <1>1, <2>1, <2>3, Zenon DEF RowsStay
    <2>5. Authenticated(i, r)'
      BY <2>2, <2>4 DEF Authenticated
    <2>6. QED
      BY <1>2, <2>2, <2>4, <2>5
  <1>3. CASE iexport'[i] # iexport[i]
    <2>1. PICK m \in Ke2Arrivals :
            iphase[i] = "Ke1Generated" /\ Ke3Checks(i, m) /\ SendKe3(i, m)
      BY <1>3, SMTT(20) DEF Next, vars, ivars, rvars, CreateRegistrationRequest, FinalizeRegistration,
         SealRecord, GenerateKe1, GenerateKe2, EncapsulateFails, SendKe2, GenerateKe3,
         SendKe3, InitiatorFinish, ResponderFinish, IReject, IInvalidate, RReject,
         RInvalidate, ICallPanics, RCallPanics, CreateRegistrationResponse,
         BuildCredentials, Tick, TypeOK
    <2>2. i \in LoggingIn
      BY <2>1 DEF ProvenanceInv, InputsFollowPhases
    <2>3. PICK r \in RSess :
            /\ rview[r] # None
            /\ rview[r] = InitiatorPrk(i, m)
            /\ served[r][2].relay.keypair = Pinned
            /\ served[r][2].account = input[i][2].account
            /\ served[r][2].record # None
            /\ served[r][2].record[2].envelope[2].rwd[2].secureKey = input[i][2].key
            /\ served[r][2].record[2].envelope[1] = "sealed"
            /\ served[r][2].record[2].envelope[2].rwd = Ke3Password(i, m)
      <3>1. MacsAreGenuine /\ ViewsAreBound
        BY DEF AuthInv
      <3>2. QED
        BY <2>1, <3>1, AcceptedKe2, SMTT(20)
    <2>4. Ke3Password(i, m) =
            ProperPassword(input[i][2].key, served[r][2].relay.seed, input[i][2].account)
      BY <2>2, <2>3, BlindsCancel
    <2>5. /\ iview'[i] = InitiatorPrk(i, m)
          /\ iexport'[i] = ClientExportKey(Ke3Password(i, m), input[i][2].account)
          /\ UNCHANGED <<input, rview, served>>
      BY <2>1 DEF SendKe3, Ke3ExportKey, rvars, TypeOK
    <2>6. Authenticated(i, r)'
      BY <2>3, <2>5 DEF Authenticated
    <2>7. QED
      BY <2>4, <2>5, <2>6
  <1>4. QED
    BY <1>2, <1>3

(* The export key is durable: every login of a user with the same password *)
(* yields the same one, however registrations were repeated, mixed up or   *)
(* damaged, and however often the relay was restarted from its stored      *)
(* keys.                                                                   *)
THEOREM DurableExportKey == Spec => []ExportKeyIsDurable
  <1>1. Init => ExportKeyIsDurable
    BY DEF Init, ExportKeyIsDurable
  <1>2. QED
    BY <1>1, Provenance, ExportKeyNext, PTL DEF Spec

-----------------------------------------------------------------------------
(* The refinement of MutualAuthentication.                                 *)

(* The variables of the abstract handshake, as OpaqueRefinement maps them. *)
Wanted    == [i \in ISess |-> IF input[i] = None THEN None ELSE input[i][2].account]
Offered   == [r \in RSess |-> IF served[r] = None THEN None ELSE served[r][2].account]
Peers     == [i \in ISess |-> IF iview[i] = None THEN None ELSE Peer(i)]
Accepted  == {r \in RSess : rout[r] # None}
Delivered == {i \in ISess : iout[i] # None}

(* No two relay sessions have the same key: the transcript names one.      *)
LEMMA ViewsDiffer ==
  ViewsAreBound =>
    \A q, r \in RSess : rview[q] # None /\ rview[q] = rview[r] => q = r
  BY DEF ViewsAreBound, ResponderEphemeral

(* The relay session that has the key of an agent session is its peer.     *)
PeersAreUnique ==
  \A i \in ISess, r \in RSess : iview[i] # None /\ rview[r] = iview[i] => Peer(i) = r

(* It is, before a step and after it.                                      *)
LEMMA PeerIs == AuthInv => PeersAreUnique
  <1> SUFFICES ASSUME AuthInv, NEW i \in ISess, NEW r \in RSess,
                      iview[i] # None, rview[r] = iview[i]
               PROVE  Peer(i) = r
    BY DEF PeersAreUnique
  <1>1. \A q \in RSess : rview[q] = iview[i] => q = r
    BY ViewsDiffer DEF AuthInv
  <1>2. QED
    BY <1>1 DEF Peer

(* The same of the next state.                                             *)
LEMMA PeerIsNext == AuthInv' => PeersAreUnique'
  BY PeerIs, PTL

(* Every session with a key has a peer.                                    *)
LEMMA PeerExists ==
  ASSUME AuthInv, NEW i \in ISess, iview[i] # None
  PROVE  Peer(i) \in RSess /\ rview[Peer(i)] = iview[i]
  <1>1. PICK r \in RSess : Authenticated(i, r)
    BY Zenon DEF AuthInv, InitiatorAuthentication
  <1>2. rview[r] = iview[i]
    BY <1>1 DEF Authenticated
  <1>3. QED
    BY <1>2, PeerIs DEF PeersAreUnique

(* A peer is a peer for good.                                              *)
LEMMA PeersStay ==
  ASSUME AuthInv, AuthInv', RowsStay
  PROVE  \A i \in ISess : iview'[i] = iview[i] => Peers'[i] = Peers[i]
  <1> SUFFICES ASSUME NEW i \in ISess, iview'[i] = iview[i]
               PROVE  Peers'[i] = Peers[i]
    OBVIOUS
  <1>1. CASE iview[i] = None
    BY <1>1 DEF Peers
  <1>2. CASE iview[i] # None
    <2>1. Peer(i) \in RSess /\ rview[Peer(i)] = iview[i]
      BY <1>2, PeerExists
    <2>2. rview'[Peer(i)] = iview'[i]
      BY <1>2, <2>1 DEF RowsStay
    <2>3. Peer(i)' = Peer(i)
      BY <1>2, <2>1, <2>2, PeerIsNext DEF PeersAreUnique, Peer
    <2>4. QED
      BY <1>2, <2>3 DEF Peers
  <1>3. QED
    BY <1>1, <1>2

(* A step that leaves inputs, keys and outputs alone shows nothing.        *)
LEMMA HandshakeUnchanged ==
  ASSUME AuthInv, AuthInv', RowsStay,
         Wanted' = Wanted, UNCHANGED <<iview, served, rout, iout>>
  PROVE  UNCHANGED Auth!avars
  <1>1. Peers' = Peers
    BY PeersStay DEF Peers
  <1>2. Offered' = Offered /\ Accepted' = Accepted /\ Delivered' = Delivered
    BY DEF Offered, Accepted, Delivered
  <1>3. QED
    BY <1>1, <1>2 DEF Auth!avars, Wanted, Offered, Peers, Accepted, Delivered

(* generate_ke1 asks for an account.                                       *)
LEMMA KE1Wants ==
  ASSUME TypeOK, AuthInv, AuthInv', RowsStay, NEW i \in ISess, input[i] = None,
         NEW key, NEW account \in Accounts,
         input' = [input EXCEPT ![i] = <<"input", [key |-> key, account |-> account]>>],
         UNCHANGED <<iview, served, rout, iout>>
  PROVE  Auth!ANext
  <1>1. /\ input'[i] = <<"input", [key |-> key, account |-> account]>>
        /\ \A j \in ISess \ {i} : input'[j] = input[j]
    BY DEF TypeOK
  <1>2. input'[i] # None /\ input'[i][2].account = account
    BY <1>1 DEF None
  <1>3. Wanted[i] = None /\ Wanted' = [Wanted EXCEPT ![i] = account]
    <2>1. Wanted[i] = None
      BY DEF Wanted
    <2>2. Wanted'[i] = account
      BY <1>2 DEF Wanted
    <2>3. \A j \in ISess \ {i} : Wanted'[j] = Wanted[j]
      BY <1>1 DEF Wanted
    <2>4. /\ Wanted = [j \in ISess |-> Wanted[j]]
          /\ Wanted' = [j \in ISess |-> Wanted'[j]]
      BY DEF Wanted
    <2>5. QED
      BY <2>1, <2>2, <2>3, <2>4
  <1>4. Peers' = Peers
    BY PeersStay DEF Peers
  <1>5. Offered' = Offered /\ Accepted' = Accepted /\ Delivered' = Delivered
    BY DEF Offered, Accepted, Delivered
  <1>6. Auth!Want(i, account)
    BY <1>3, <1>4, <1>5 DEF Auth!Want, Wanted, Offered, Peers, Accepted, Delivered
  <1>7. QED
    BY <1>6 DEF Auth!ANext

(* generate_ke2 offers a relay session for an account.                     *)
LEMMA KE2Offers ==
  ASSUME TypeOK, AuthInv, AuthInv', ProvenanceInv, RowsStay,
         NEW r \in RSess, rphase[r] = "Created",
         NEW relay, NEW account \in Accounts, NEW m, SendKe2(r, relay, account, m)
  PROVE  Auth!ANext
  <1>1. /\ served' = [served EXCEPT ![r] =
                       <<"served", [relay |-> relay, account |-> account,
                                    record |-> store[account]]>>]
        /\ UNCHANGED <<input, iview, rout, iout>>
    BY DEF SendKe2, ivars
  <1>2. served[r] = None
    BY DEF AuthInv, KeysFollowPhases, ProvenanceInv, ViewsAreComplete
  <1>3. /\ served'[r] = <<"served", [relay |-> relay, account |-> account,
                                     record |-> store[account]]>>
        /\ \A q \in RSess \ {r} : served'[q] = served[q]
    BY <1>1 DEF TypeOK
  <1>4. served'[r] # None /\ served'[r][2].account = account
    BY <1>3 DEF None
  <1>5. Offered[r] = None /\ Offered' = [Offered EXCEPT ![r] = account]
    BY <1>2, <1>3, <1>4 DEF Offered
  <1>6. Peers' = Peers
    BY <1>1, PeersStay DEF Peers
  <1>7. Wanted' = Wanted /\ Accepted' = Accepted /\ Delivered' = Delivered
    BY <1>1 DEF Wanted, Accepted, Delivered
  <1>8. Auth!Offer(r, account)
    BY <1>5, <1>6, <1>7 DEF Auth!Offer, Wanted, Offered, Peers, Accepted, Delivered
  <1>9. QED
    BY <1>8 DEF Auth!ANext

(* generate_ke3 commits to the relay session AcceptedKe2 finds; no other   *)
(* agent session can have it, since the key names its agent session too.   *)
LEMMA KE3Commits ==
  ASSUME TypeOK, AuthInv, AuthInv', ProvenanceInv, RowsStay,
         NEW i \in ISess, iphase[i] = "Ke1Generated",
         NEW m \in Ke2Arrivals, Ke3Checks(i, m), SendKe3(i, m)
  PROVE  Auth!ANext
  <1>1. /\ iview'[i] = InitiatorPrk(i, m)
        /\ \A j \in ISess \ {i} : iview'[j] = iview[j]
        /\ UNCHANGED <<input, rview, served, rout, iout>>
    BY DEF SendKe3, rvars, TypeOK
  <1>2. PICK r \in RSess :
          /\ rview[r] # None
          /\ rview[r] = InitiatorPrk(i, m)
          /\ served[r][2].account = input[i][2].account
    <2>1. MacsAreGenuine /\ ViewsAreBound
      BY DEF AuthInv
    <2>2. QED
      BY <2>1, AcceptedKe2, SMTT(20)
  <1>3. iview[i] = None
    BY DEF AuthInv, KeysFollowPhases
  <1>4. i \in LoggingIn
    BY DEF ProvenanceInv, InputsFollowPhases
  <1>5. served[r] # None
    BY <1>2 DEF ProvenanceInv, ViewsAreComplete
  <1>6. Wanted[i] # None /\ Offered[r] = Wanted[i]
    BY <1>2, <1>4, <1>5 DEF Wanted, Offered, LoggingIn
  <1>7. \A j \in ISess : Peers[j] # r
    <2> SUFFICES ASSUME NEW j \in ISess, Peers[j] = r
                 PROVE  FALSE
      OBVIOUS
    <2>1. iview[j] # None /\ Peer(j) = r
      BY NoneAssumption DEF Peers
    <2>2. rview[r] = iview[j]
      BY <2>1, PeerExists
    <2>3. iview[j][2].transcript.initiatorEph = InitiatorEphemeral(j)
      BY <2>1 DEF ProvenanceInv, ViewsAreComplete
    <2>4. iview[j][2].transcript.initiatorEph = InitiatorEphemeral(i)
      BY <1>2, <2>2 DEF InitiatorPrk, CombineKeyMaterial
    <2>5. i = j
      BY <2>3, <2>4 DEF InitiatorEphemeral
    <2>6. QED
      BY <1>3, <2>1, <2>5
  <1>8. Peers' = [Peers EXCEPT ![i] = r]
    <2>1. iview'[i] # None /\ rview'[r] = iview'[i]
      BY <1>1, <1>2
    <2>2. Peer(i)' = r
      BY <2>1, PeerIsNext DEF PeersAreUnique, Peer
    <2>3. Peers'[i] = r
      BY <2>1, <2>2 DEF Peers
    <2>4. \A j \in ISess \ {i} : Peers'[j] = Peers[j]
      BY <1>1, PeersStay
    <2>5. QED
      BY <2>3, <2>4 DEF Peers
  <1>9. Peers[i] = None
    BY <1>3 DEF Peers
  <1>10. Wanted' = Wanted /\ Offered' = Offered /\ Accepted' = Accepted /\ Delivered' = Delivered
    BY <1>1 DEF Wanted, Offered, Accepted, Delivered
  <1>11. Auth!Commit(i, r)
    BY <1>6, <1>7, <1>8, <1>9, <1>10
    DEF Auth!Commit, Wanted, Offered, Peers, Accepted, Delivered
  <1>12. QED
    BY <1>11 DEF Auth!ANext

(* initiator_finish delivers the keys of a session with a peer.            *)
LEMMA FinishDelivers ==
  ASSUME TypeOK, AuthInv, AuthInv', ProvenanceInv, RowsStay,
         NEW i \in ISess, iphase[i] = "Ke3Generated",
         NEW keys, keys # None, iout' = [iout EXCEPT ![i] = keys],
         UNCHANGED <<input, iview, served, rout>>
  PROVE  Auth!ANext
  <1>1. iview[i] # None
    BY DEF AuthInv, KeysFollowPhases
  <1>2. Peers[i] # None
    BY <1>1, PeerExists, NoneAssumption DEF Peers
  <1>3. iout[i] = None
    BY DEF ProvenanceInv, ViewsAreComplete
  <1>4. i \notin Delivered /\ Delivered' = Delivered \cup {i}
    BY <1>3 DEF Delivered, TypeOK
  <1>5. Peers' = Peers
    BY PeersStay DEF Peers
  <1>6. Wanted' = Wanted /\ Offered' = Offered /\ Accepted' = Accepted
    BY DEF Wanted, Offered, Accepted
  <1>7. Auth!Deliver(i)
    BY <1>2, <1>4, <1>5, <1>6 DEF Auth!Deliver, Wanted, Offered, Peers, Accepted, Delivered
  <1>8. QED
    BY <1>7 DEF Auth!ANext

(* responder_finish accepts: ReleasedKeysAreShared finds the agent session *)
(* that has committed.                                                     *)
LEMMA FinishAccepts ==
  ASSUME TypeOK, AuthInv, AuthInv', ProvenanceInv, RowsStay,
         NEW r \in RSess, rphase[r] = "Ke2Generated",
         rout' = [rout EXCEPT ![r] = SessionKey(rview[r])],
         UNCHANGED <<input, iview, rview, served, iout>>
  PROVE  Auth!ANext
  <1>1. rout[r] = None
    BY DEF ProvenanceInv, ViewsAreComplete
  <1>2. rout'[r] # None /\ \A q \in RSess \ {r} : rout'[q] = rout[q]
    BY TermsDiffer DEF TypeOK
  <1>3. r \notin Accepted /\ Accepted' = Accepted \cup {r}
    BY <1>1, <1>2 DEF Accepted
  <1>4. PICK i \in ISess : iview[i] # None /\ iview[i] = rview[r]
    BY <1>2 DEF AuthInv, ReleasedKeysAreShared
  <1>5. Peers[i] = r
    BY <1>4, PeerIs DEF Peers, PeersAreUnique
  <1>6. Peers' = Peers
    BY PeersStay DEF Peers
  <1>7. Wanted' = Wanted /\ Offered' = Offered /\ Delivered' = Delivered
    BY DEF Wanted, Offered, Delivered
  <1>8. Auth!Accept(r)
    BY <1>3, <1>5, <1>6, <1>7 DEF Auth!Accept, Wanted, Offered, Peers, Accepted, Delivered
  <1>9. QED
    BY <1>8 DEF Auth!ANext

(* Every step is a step of the abstract handshake, or none.                *)
LEMMA HandshakeNext ==
  TypeOK /\ AuthInv /\ AuthInv' /\ ProvenanceInv /\ [Next]_vars
    => [Auth!ANext]_Auth!avars
  <1> SUFFICES ASSUME TypeOK, AuthInv, AuthInv', ProvenanceInv, [Next]_vars
               PROVE  [Auth!ANext]_Auth!avars
    OBVIOUS
  <1>0. /\ RowsStay
        /\ \A i \in ISess : iphase[i] = "Created" => input[i] = None
    BY RowsStayNext DEF ProvenanceInv, InputsFollowPhases
  <1>1. CASE UNCHANGED <<input, iview, served, rout, iout>>
    BY <1>0, <1>1, HandshakeUnchanged DEF Wanted
  <1>2. ASSUME NEW i \in ISess, IInvalidate(i)
        PROVE  UNCHANGED <<input, iview, served, rout, iout>>
    BY <1>2 DEF IInvalidate, rvars
  <1>3. ASSUME NEW r \in RSess, RInvalidate(r)
        PROVE  UNCHANGED <<input, iview, served, rout, iout>>
    BY <1>3 DEF RInvalidate, ivars
  <1>4. ASSUME NEW i \in ISess, IReject(i)
        PROVE  UNCHANGED <<input, iview, served, rout, iout>>
    BY <1>2, <1>4 DEF IReject, vars, ivars, rvars
  <1>5. ASSUME NEW r \in RSess, RReject(r)
        PROVE  UNCHANGED <<input, iview, served, rout, iout>>
    BY <1>3, <1>5 DEF RReject, vars, ivars, rvars
  <1>6. ASSUME NEW i \in ISess, CreateRegistrationRequest(i)
        PROVE  [Auth!ANext]_Auth!avars
    <2>1. CASE IReject(i)
      BY <1>1, <1>4, <2>1
    <2>2. CASE ~IReject(i)
      <3>1. PICK key \in Passwords :
              input' = [input EXCEPT ![i] = <<"input", [key |-> key, account |-> None]>>]
        BY <1>6, <2>2 DEF CreateRegistrationRequest
      <3>2. input[i] = None /\ UNCHANGED <<iview, served, rout, iout>>
        BY <1>0, <1>6, <2>2 DEF CreateRegistrationRequest, rvars
      <3>3. input'[i][2].account = None /\ \A j \in ISess \ {i} : input'[j] = input[j]
        BY <3>1 DEF TypeOK
      <3>4. Wanted' = Wanted
        BY <3>2, <3>3 DEF Wanted
      <3>5. QED
        BY <1>0, <3>2, <3>4, HandshakeUnchanged
    <2>3. QED
      BY <2>1, <2>2
  <1>7. ASSUME NEW i \in ISess, FinalizeRegistration(i)
        PROVE  [Auth!ANext]_Auth!avars
    BY <1>1, <1>2, <1>4, <1>7 DEF FinalizeRegistration, SealRecord, rvars
  <1>8. ASSUME NEW i \in ISess, GenerateKe1(i)
        PROVE  [Auth!ANext]_Auth!avars
    <2>1. CASE IReject(i)
      BY <1>1, <1>4, <2>1
    <2>2. CASE ~IReject(i)
      <3>1. PICK key \in Passwords, account \in Accounts :
              input' = [input EXCEPT ![i] = <<"input", [key |-> key, account |-> account]>>]
        BY <1>8, <2>2 DEF GenerateKe1
      <3>2. input[i] = None /\ UNCHANGED <<iview, served, rout, iout>>
        BY <1>0, <1>8, <2>2 DEF GenerateKe1, rvars
      <3>3. QED
        BY <1>0, <3>1, <3>2, KE1Wants
    <2>3. QED
      BY <2>1, <2>2
  <1>9. ASSUME NEW i \in ISess, GenerateKe3(i)
        PROVE  [Auth!ANext]_Auth!avars
    BY <1>0, <1>1, <1>2, <1>4, <1>9, KE3Commits DEF GenerateKe3
  <1>10. ASSUME NEW i \in ISess, InitiatorFinish(i)
         PROVE  [Auth!ANext]_Auth!avars
    <2>1. CASE IReject(i)
      BY <1>1, <1>4, <2>1
    <2>2. CASE ~IReject(i)
      <3> DEFINE keys == <<"keys", [session |-> SessionKey(iview[i]), export |-> iexport[i]]>>
      <3>1. /\ iphase[i] = "Ke3Generated" /\ iout' = [iout EXCEPT ![i] = keys]
            /\ UNCHANGED <<input, iview, served, rout>>
        BY <1>10, <2>2 DEF InitiatorFinish, rvars
      <3>2. keys # None
        BY DEF None
      <3> HIDE DEF keys
      <3>3. QED
        BY <1>0, <3>1, <3>2, FinishDelivers
    <2>3. QED
      BY <2>1, <2>2
  <1>11. ASSUME NEW r \in RSess, GenerateKe2(r)
         PROVE  [Auth!ANext]_Auth!avars
    <2>1. CASE RReject(r)
      BY <1>1, <1>5, <2>1
    <2>2. CASE EncapsulateFails(r)
      BY <1>1, <1>3, <2>2 DEF EncapsulateFails, ivars
    <2>3. ASSUME rphase[r] = "Created",
                 NEW relay, NEW account \in Accounts, NEW m, SendKe2(r, relay, account, m)
          PROVE  Auth!ANext
      BY <1>0, <2>3, KE2Offers
    <2>4. QED
      BY <1>11, <2>1, <2>2, <2>3 DEF GenerateKe2
  <1>12. ASSUME NEW r \in RSess, ResponderFinish(r)
         PROVE  [Auth!ANext]_Auth!avars
    <2>1. CASE RReject(r) \/ RInvalidate(r)
      BY <1>1, <1>3, <1>5, <2>1
    <2>2. CASE ~(RReject(r) \/ RInvalidate(r))
      <3>1. /\ rphase[r] = "Ke2Generated"
            /\ UNCHANGED <<input, iview, rview, served, iout>>
            /\ UNCHANGED rout \/ rout' = [rout EXCEPT ![r] = SessionKey(rview[r])]
        BY <1>12, <2>2 DEF ResponderFinish, ivars
      <3>2. CASE UNCHANGED rout
        BY <1>1, <3>1, <3>2
      <3>3. CASE rout' = [rout EXCEPT ![r] = SessionKey(rview[r])]
        BY <1>0, <3>1, <3>3, FinishAccepts
      <3>4. QED
        BY <3>1, <3>2, <3>3
    <2>3. QED
      BY <2>1, <2>2
  <1>13. CASE CreateRegistrationResponse \/ BuildCredentials \/ Tick \/ UNCHANGED vars
    BY <1>1, <1>13 DEF CreateRegistrationResponse, BuildCredentials, Tick, vars, ivars, rvars
  <1>14. QED
    BY <1>1, <1>2, <1>3, <1>6, <1>7, <1>8, <1>9, <1>10, <1>11, <1>12, <1>13
    DEF Next, ICallPanics, RCallPanics

(* Over the weakest transport, for any number of sessions, the two crates  *)
(* implement the abstract handshake: generate_ke3 commits to one relay     *)
(* session that runs for its account and that no other agent session has,  *)
(* responder_finish accepts only after that, initiator_finish delivers     *)
(* only after that.                                                        *)
THEOREM HandshakeIsImplemented == Spec => ImplementsMutualAuthentication
  <1>1. Init => Auth!AInit
    BY DEF Init, Auth!AInit
  <1>2. QED
    BY <1>1, Provenance, HandshakeNext, PTL
    DEF Spec, ImplementsMutualAuthentication, Auth!ASpec

-----------------------------------------------------------------------------
(* Agreement is injective.                                                 *)

(* No two agent sessions have the same key: the transcript names one.      *)
LEMMA AgentsDiffer ==
  ViewsAreComplete =>
    \A i, j \in ISess : iview[i] # None /\ iview[i] = iview[j] => i = j
  BY DEF ViewsAreComplete, InitiatorEphemeral

(* For any number of sessions and whatever the transport repeats, no agent *)
(* session makes two relay sessions release its key, and no relay session  *)
(* releases the key of two agent sessions.                                 *)
THEOREM LoginsAreInjective == Spec => []AgreementIsInjective
  <1>1. ASSUME AuthInv, ProvenanceInv
        PROVE  AgreementIsInjective
    <2> SUFFICES ASSUME NEW r \in RSess, rout[r] # None
                 PROVE  \E i \in ISess :
                          /\ Authenticated(i, r) /\ rout[r] = SessionKey(iview[i])
                          /\ \A j \in ISess : iview[j] # None /\ rout[r] = SessionKey(iview[j])
                               => j = i
                          /\ \A q \in RSess : rout[q] = rout[r] => q = r
      BY DEF AgreementIsInjective
    <2>1. PICK i \in ISess : iview[i] # None /\ iview[i] = rview[r]
      BY <1>1 DEF AuthInv, ReleasedKeysAreShared
    <2>2. rout[r] = SessionKey(rview[r])
      BY <1>1 DEF AuthInv, ReleasedKeysAreShared
    <2>3. Authenticated(i, r)
      <3>1. PICK q \in RSess : Authenticated(i, q)
        BY <1>1, <2>1 DEF AuthInv, InitiatorAuthentication
      <3>2. q = r
        BY <1>1, <2>1, <3>1, ViewsDiffer DEF AuthInv, Authenticated
      <3>3. QED
        BY <3>1, <3>2
    <2>4. ASSUME NEW j \in ISess, iview[j] # None, rout[r] = SessionKey(iview[j])
          PROVE  j = i
      <3>1. iview[j] = iview[i]
        BY <2>1, <2>2, <2>4 DEF SessionKey
      <3>2. QED
        BY <1>1, <2>1, <3>1, AgentsDiffer DEF ProvenanceInv
    <2>5. ASSUME NEW q \in RSess, rout[q] = rout[r]
          PROVE  q = r
      <3>1. rout[q] = SessionKey(rview[q])
        BY <1>1, <2>5 DEF AuthInv, ReleasedKeysAreShared
      <3>2. rview[q] = rview[r] /\ rview[r] # None
        BY <2>1, <2>2, <2>5, <3>1 DEF SessionKey
      <3>3. QED
        BY <1>1, <3>2, ViewsDiffer DEF AuthInv
    <2>6. QED
      BY <2>1, <2>2, <2>3, <2>4, <2>5
  <1>2. QED
    BY <1>1, Provenance, PTL
=============================================================================
