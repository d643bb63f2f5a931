---------------------------- MODULE OpaqueProofs ----------------------------
(* Theorems about Opaque, for any number of sessions, passwords, accounts  *)
(* and relays, any lifetime, either interface and any transport.           *)
EXTENDS Opaque, TLAPS

-----------------------------------------------------------------------------
(* Facts about the terms of OpaqueCore.                                    *)

(* None and Bad are no key and no MAC.                                     *)
LEMMA TermsDiffer ==
  ASSUME NEW x, NEW y, NEW z
  PROVE  /\ CombineKeyMaterial(x, y, z) # None
         /\ SessionKey(x) # None
         /\ ResponderMac(x) # Bad
         /\ InitiatorMac(x) # Bad
  BY DEF CombineKeyMaterial, SessionKey, ResponderMac, InitiatorMac, None, Bad

(* A MAC and a key determine the pseudo-random key they were made from.    *)
LEMMA MacsAreInjective ==
  ASSUME NEW x, NEW y
  PROVE  /\ ResponderMac(x) = ResponderMac(y) => x = y
         /\ InitiatorMac(x) = InitiatorMac(y) => x = y
  BY DEF ResponderMac, InitiatorMac

(* An envelope that opens was masked for this very nonce, element and      *)
(* account, with the key of the password it is opened with.                *)
LEMMA OpenedEnvelope ==
  ASSUME NEW key, NEW nonce, NEW evaluated, NEW account, NEW masked,
         NEW rwd, NEW rpk,
         NEW key2, NEW nonce2, NEW evaluated2, NEW account2, NEW envelope2,
         Opens(Unmask(key, nonce, evaluated, account, masked), rwd, rpk),
         masked = MaskCredentialEnvelope(key2, nonce2, evaluated2, account2, envelope2)
  PROVE  /\ Unmask(key, nonce, evaluated, account, masked) = envelope2
         /\ envelope2[1] = "sealed"
         /\ envelope2[2].rwd = rwd
         /\ envelope2[2].rpk = rpk
  <1>1. Unmask(key, nonce, evaluated, account, masked) # Bad
    BY DEF Opens, Bad
  <1>2. Unmask(key, nonce, evaluated, account, masked) = masked[2].envelope
    BY <1>1 DEF Unmask
  <1>3. masked[2].envelope = envelope2
    BY DEF MaskCredentialEnvelope
  <1>4. QED
    BY <1>2, <1>3 DEF Opens

-----------------------------------------------------------------------------
(* Type correctness.                                                       *)

(* An age stays within the lifetime.                                       *)
LEMMA OlderType ==
  ASSUME NEW age \in 0..Lifetime
  PROVE  Older(age) \in 0..Lifetime
  BY LifetimeAssumption DEF Older

(* Every reachable state has the shape TypeOK describes: the phases of the *)
(* two crates, ages cut off at the lifetime, secrets among the fields the  *)
(* state structs have.                                                     *)
THEOREM TypeCorrect == Spec => []TypeOK
  <1>1. Init => TypeOK
    BY LifetimeAssumption DEF Init, TypeOK, IPhases, RPhases
  <1>2. TypeOK /\ [Next]_vars => TypeOK'
    <2> SUFFICES ASSUME TypeOK, [Next]_vars
                 PROVE  TypeOK'
      OBVIOUS
    <2> USE DEF TypeOK
    <2>1. ASSUME NEW i \in ISess, IInvalidate(i)
          PROVE  TypeOK'
      BY <2>1 DEF IInvalidate, rvars, net, IPhases
    <2>2. ASSUME NEW r \in RSess, RInvalidate(r)
          PROVE  TypeOK'
      BY <2>2 DEF RInvalidate, ivars, net, RPhases
    <2>3. CASE UNCHANGED vars
      BY <2>3 DEF vars, ivars, rvars, net
    <2>4. ASSUME NEW i \in ISess, IReject(i)
          PROVE  TypeOK'
      BY <2>1, <2>3, <2>4 DEF IReject
    <2>5. ASSUME NEW r \in RSess, RReject(r)
          PROVE  TypeOK'
      BY <2>2, <2>3, <2>5 DEF RReject
    <2>6. ASSUME NEW i \in ISess, CreateRegistrationRequest(i)
          PROVE  TypeOK'
      BY <2>4, <2>6, LifetimeAssumption
      DEF CreateRegistrationRequest, rvars, IPhases, ISecrets
    <2>7. ASSUME NEW i \in ISess, FinalizeRegistration(i)
          PROVE  TypeOK'
      BY <2>1, <2>4, <2>7 DEF FinalizeRegistration, SealRecord, rvars, IPhases
    <2>8. ASSUME NEW i \in ISess, GenerateKe1(i)
          PROVE  TypeOK'
      BY <2>4, <2>8, LifetimeAssumption DEF GenerateKe1, rvars, IPhases, ISecrets
    <2>9. ASSUME NEW i \in ISess, GenerateKe3(i)
          PROVE  TypeOK'
      BY <2>1, <2>4, <2>9, LifetimeAssumption
      DEF GenerateKe3, SendKe3, rvars, IPhases, ISecrets
    <2>10. ASSUME NEW i \in ISess, InitiatorFinish(i)
           PROVE  TypeOK'
      BY <2>4, <2>10 DEF InitiatorFinish, rvars, net, IPhases
    <2>11. ASSUME NEW r \in RSess, GenerateKe2(r)
           PROVE  TypeOK'
      BY <2>2, <2>5, <2>11, LifetimeAssumption
      DEF GenerateKe2, EncapsulateFails, SendKe2, ivars, net, RPhases, RSecrets
    <2>12. ASSUME NEW r \in RSess, ResponderFinish(r)
           PROVE  TypeOK'
      BY <2>2, <2>5, <2>12 DEF ResponderFinish, ivars, net, RPhases
    <2>13. CASE CreateRegistrationResponse
      BY <2>13 DEF CreateRegistrationResponse, ivars, rvars
    <2>14. CASE BuildCredentials
      BY <2>14 DEF BuildCredentials, ivars, rvars, net
    <2>15. CASE Tick
      BY <2>15, OlderType DEF Tick, net
    <2>16. QED
      BY <2>1, <2>2, <2>3, <2>6, <2>7, <2>8, <2>9, <2>10, <2>11, <2>12, <2>13,
         <2>14, <2>15
      DEF Next, ICallPanics, RCallPanics
  <1>3. QED
    BY <1>1, <1>2, PTL DEF Spec

-----------------------------------------------------------------------------
(* Secrets by phase.                                                       *)

(* In every reachable state the secrets a session holds are those of its   *)
(* phase: a finished session, however it ended, holds none, and a session  *)
(* that waits holds all it needs.                                          *)
THEOREM SecretsFollowPhases == Spec => [](InitiatorSecrets /\ ResponderSecrets)
  <1> DEFINE Inv == InitiatorSecrets /\ ResponderSecrets
  <1>1. Init => Inv
    BY DEF Init, InitiatorSecrets, ResponderSecrets
  <1>2. TypeOK /\ Inv /\ [Next]_vars => Inv'
    <2> SUFFICES ASSUME TypeOK, Inv, [Next]_vars
                 PROVE  Inv'
      OBVIOUS
    <2> USE DEF TypeOK, InitiatorSecrets, ResponderSecrets
    <2>1. ASSUME NEW i \in ISess, IInvalidate(i)
          PROVE  Inv'
      BY <2>1 DEF IInvalidate, rvars
    <2>2. ASSUME NEW r \in RSess, RInvalidate(r)
          PROVE  Inv'
      BY <2>2 DEF RInvalidate, ivars
    <2>3. CASE UNCHANGED vars
      BY <2>3 DEF vars, ivars, rvars
    <2>4. ASSUME NEW i \in ISess, IReject(i)
          PROVE  Inv'
      BY <2>1, <2>3, <2>4 DEF IReject
    <2>5. ASSUME NEW r \in RSess, RReject(r)
          PROVE  Inv'
      BY <2>2, <2>3, <2>5 DEF RReject
    <2>6. ASSUME NEW i \in ISess, CreateRegistrationRequest(i)
          PROVE  Inv'
      BY <2>4, <2>6 DEF CreateRegistrationRequest, rvars
    <2>7. ASSUME NEW i \in ISess, FinalizeRegistration(i)
          PROVE  Inv'
      BY <2>1, <2>4, <2>7 DEF FinalizeRegistration, SealRecord, rvars
    <2>8. ASSUME NEW i \in ISess, GenerateKe1(i)
          PROVE  Inv'
      BY <2>4, <2>8 DEF GenerateKe1, rvars
    <2>9. ASSUME NEW i \in ISess, GenerateKe3(i)
          PROVE  Inv'
      BY <2>1, <2>4, <2>9 DEF GenerateKe3, SendKe3, rvars
    <2>10. ASSUME NEW i \in ISess, InitiatorFinish(i)
           PROVE  Inv'
      BY <2>4, <2>10 DEF InitiatorFinish, rvars
    <2>11. ASSUME NEW r \in RSess, GenerateKe2(r)
           PROVE  Inv'
      <3>1. CASE RReject(r)
        BY <2>5, <3>1
      <3>2. CASE rphase[r] = "Created" /\ EncapsulateFails(r)
        <4>1. CASE CAbi
          BY <2>2, <3>2, <4>1 DEF EncapsulateFails
        <4>2. CASE ~CAbi
          <5>1. InitiatorSecrets'
            BY <3>2, <4>2 DEF EncapsulateFails, ivars
          <5>2. ResponderSecrets'
            BY <3>2, <4>2 DEF EncapsulateFails
          <5>3. QED
            BY <5>1, <5>2
        <4>3. QED
          BY <4>1, <4>2
      <3>3. ASSUME NEW relay, NEW account, NEW m, SendKe2(r, relay, account, m)
            PROVE  Inv'
        <4>1. InitiatorSecrets'
          BY <3>3 DEF SendKe2, ivars
        <4>2. rheld[r] \cup RSecrets = RSecrets
          BY DEF TypeOK
        <4>3. ResponderSecrets'
          BY <3>3, <4>2 DEF SendKe2
        <4>4. QED
          BY <4>1, <4>3
      <3>4. QED
        BY <2>11, <3>1, <3>2, <3>3 DEF GenerateKe2
    <2>12. ASSUME NEW r \in RSess, ResponderFinish(r)
           PROVE  Inv'
      BY <2>2, <2>5, <2>12 DEF ResponderFinish, ivars
    <2>13. CASE CreateRegistrationResponse
      BY <2>13 DEF CreateRegistrationResponse, ivars, rvars
    <2>14. CASE BuildCredentials
      BY <2>14 DEF BuildCredentials, ivars, rvars
    <2>15. CASE Tick
      BY <2>15 DEF Tick
    <2>16. QED
      BY <2>1, <2>2, <2>3, <2>6, <2>7, <2>8, <2>9, <2>10, <2>11, <2>12, <2>13,
         <2>14, <2>15
      DEF Next, ICallPanics, RCallPanics
  <1>3. QED
    BY <1>1, <1>2, TypeCorrect, PTL DEF Spec

-----------------------------------------------------------------------------
(* Authentication.                                                         *)

(* A KE2 that parses carries a damaged MAC or one that a relay session     *)
(* made, however the transport recombined what was sent.                   *)
LEMMA Ke2MacIsGenuine ==
  ASSUME MacsAreGenuine, NEW m \in Ke2Arrivals, m.parsed
  PROVE  \/ m.mac = Bad
         \/ \E r \in RSess : rview[r] # None /\ m.mac = ResponderMac(rview[r])
  <1>1. \A k \in ke2s : \E r \in RSess :
          rview[r] # None /\ k.mac = ResponderMac(rview[r])
    BY DEF MacsAreGenuine
  <1>2. CASE "ke2" \notin Mangled
    BY <1>1, <1>2 DEF Ke2Arrivals, Arrivals
  <1>3. CASE "ke2" \in Mangled
    <2>1. m # Unparsed
      BY DEF Unparsed
    <2>2. m.mac \in Damaged({k.mac : k \in ke2s})
      BY <1>3, <2>1 DEF Ke2Arrivals, Arrivals
    <2>3. QED
      BY <1>1, <2>2 DEF Damaged
  <1>4. QED
    BY <1>2, <1>3

(* The same for KE3 and agent sessions.                                    *)
LEMMA Ke3MacIsGenuine ==
  ASSUME MacsAreGenuine, NEW m \in Ke3Arrivals, m.parsed
  PROVE  \/ m.mac = Bad
         \/ \E i \in ISess : iview[i] # None /\ m.mac = InitiatorMac(iview[i])
  <1>1. \A k \in ke3s : \E i \in ISess :
          iview[i] # None /\ k.mac = InitiatorMac(iview[i])
    BY DEF MacsAreGenuine
  <1>2. CASE "ke3" \notin Mangled
    BY <1>1, <1>2 DEF Ke3Arrivals, Arrivals
  <1>3. CASE "ke3" \in Mangled
    <2>1. m # Unparsed
      BY DEF Unparsed
    <2>2. m.mac \in Damaged({k.mac : k \in ke3s})
      BY <1>3, <2>1 DEF Ke3Arrivals, Arrivals
    <2>3. QED
      BY <1>1, <2>2 DEF Damaged
  <1>4. QED
    BY <1>2, <1>3

(* The step that matters: a KE2 that passes the checks of generate_ke3     *)
(* comes from a relay session at the pinned relay that served the account  *)
(* of this agent session from a record sealed with its secure key, and     *)
(* both ends derive the same key.                                          *)
LEMMA AcceptedKe2 ==
  ASSUME MacsAreGenuine, ViewsAreBound,
         NEW i \in ISess, NEW m \in Ke2Arrivals, Ke3Checks(i, m)
  PROVE  \E r \in RSess :
           /\ rview[r] # None
           /\ rview[r] = InitiatorPrk(i, m)
           /\ served[r][2].relay.keypair = Pinned
           /\ served[r][2].account = input[i][2].account
           /\ served[r][2].record # None
           /\ served[r][2].record[2].envelope[2].rwd[2].secureKey = input[i][2].key
           /\ served[r][2].record[2].envelope[1] = "sealed"
           /\ served[r][2].record[2].envelope[2].rwd = Ke3Password(i, m)
  <1>1. m.mac = ResponderMac(InitiatorPrk(i, m))
    BY DEF Ke3Checks
  <1>2. PICK r \in RSess : rview[r] # None /\ m.mac = ResponderMac(rview[r])
    BY <1>1, Ke2MacIsGenuine, TermsDiffer DEF Ke3Checks
  <1>3. rview[r] = InitiatorPrk(i, m)
    BY <1>1, <1>2, MacsAreInjective
  <1> DEFINE t == rview[r][2].transcript
             s == served[r][2]
             c == Credentials(s.relay, s.account, s.record)
             e == Ke3Envelope(i, m)
  <1>4. /\ t.rpk = RelayKey(s.relay.keypair)
        /\ t.account = s.account
        /\ t.masked = MaskCredentialEnvelope(c.maskingKey, t.responderNonce,
                                             t.evaluated, s.account, c.envelope)
    BY <1>2 DEF ViewsAreBound
  <1>5. /\ t.masked = m.masked
        /\ t.rpk = e[2].rpk
        /\ t.account = input[i][2].account
    BY <1>3 DEF InitiatorPrk, CombineKeyMaterial
  <1>6. Opens(e, Ke3Password(i, m), RelayKey(Pinned))
    BY DEF Ke3Checks
  <1>7. /\ e = c.envelope
        /\ c.envelope[1] = "sealed"
        /\ c.envelope[2].rwd = Ke3Password(i, m)
        /\ c.envelope[2].rpk = RelayKey(Pinned)
    <2>1. m.masked = MaskCredentialEnvelope(c.maskingKey, t.responderNonce,
                                            t.evaluated, s.account, c.envelope)
      BY <1>4, <1>5
    <2> HIDE DEF t, s, c
    <2>2. QED
      BY <1>6, <2>1, OpenedEnvelope DEF Ke3Envelope
  <1>8. s.relay.keypair = Pinned
    <2>1. RelayKey(s.relay.keypair) = RelayKey(Pinned)
      BY <1>4, <1>5, <1>7
    <2>2. QED
      BY <2>1 DEF RelayKey
  <1>9. s.record # None
    BY <1>7 DEF Credentials, FakeEnvelope
  <1>10. /\ s.record[2].envelope[1] = "sealed"
         /\ s.record[2].envelope[2].rwd = Ke3Password(i, m)
    BY <1>7, <1>9 DEF Credentials
  <1>11. Ke3Password(i, m)[2].secureKey = input[i][2].key
    BY DEF Ke3Password, RandomizedPassword
  <1>12. QED
    BY <1>2, <1>3, <1>4, <1>5, <1>8, <1>9, <1>10, <1>11

(* The invariant holds at the start.                                       *)
LEMMA AuthInvInit == Init => AuthInv
  BY DEF Init, AuthInv, KeysFollowPhases, ViewsAreBound, MacsAreGenuine,
         ReleasedKeysAreShared, InitiatorAuthentication

(* generate_ke2 on a fresh state: the other relay sessions keep their      *)
(* keys, and the new one is bound as ViewsAreBound says.                   *)
LEMMA AuthInvSendKe2 ==
  ASSUME TypeOK, AuthInv, NEW r \in RSess, rphase[r] = "Created",
         NEW relay, NEW account, NEW m, SendKe2(r, relay, account, m)
  PROVE  AuthInv'
  <1> DEFINE prk == ResponderPrk(r, relay, account, store[account], m)
  <1>1. /\ rview' = [rview EXCEPT ![r] = prk]
        /\ served' = [served EXCEPT ![r] =
                       <<"served", [relay |-> relay, account |-> account,
                                    record |-> store[account]]>>]
        /\ rphase' = [rphase EXCEPT ![r] = "Ke2Generated"]
        /\ UNCHANGED <<iphase, iview, input, rout, ke3s>>
    BY DEF SendKe2, Ke2Prk, ivars
  <1>2. prk # None
    BY TermsDiffer DEF ResponderPrk
  <1>3. rview[r] = None /\ rout[r] = None
    BY DEF AuthInv, KeysFollowPhases
  <1>4. \A q \in RSess : q # r => rview'[q] = rview[q] /\ served'[q] = served[q]
    BY <1>1 DEF TypeOK
  <1>5. rview'[r] = prk
    BY <1>1 DEF TypeOK
  <1> HIDE DEF prk
  <1>6. KeysFollowPhases'
    BY <1>1, <1>2, <1>3, <1>4, <1>5 DEF KeysFollowPhases, AuthInv, TypeOK
  <1>7. ViewsAreBound'
    <2> SUFFICES ASSUME NEW q \in RSess, rview'[q] # None
                 PROVE  LET t == rview'[q][2].transcript
                            s == served'[q][2]
                            c == Credentials(s.relay, s.account, s.record)
                        IN /\ t.responderEph = ResponderEphemeral(q)
                           /\ t.rpk = RelayKey(s.relay.keypair)
                           /\ t.account = s.account
                           /\ t.masked = MaskCredentialEnvelope(c.maskingKey,
                                t.responderNonce, t.evaluated, s.account, c.envelope)
      BY DEF ViewsAreBound, Credentials
    <2>1. CASE q # r
      BY <2>1, <1>4 DEF ViewsAreBound, AuthInv
    <2>2. CASE q = r
      <3>1. served'[r][2] = [relay |-> relay, account |-> account,
                             record |-> store[account]]
        BY <1>1 DEF TypeOK
      <3>2. QED
        BY <2>2, <3>1, <1>5
        DEF prk, ResponderPrk, CombineKeyMaterial, Ke2Masked
    <2>3. QED
      BY <2>1, <2>2
  <1>8. MacsAreGenuine'
    <2>1. \A k \in ke2s' : k \in ke2s \/ k.mac = ResponderMac(prk)
      BY DEF SendKe2, Ke2Prk, prk
    <2>2. QED
      BY <2>1, <1>1, <1>2, <1>3, <1>4, <1>5 DEF MacsAreGenuine, AuthInv
  <1>9. ReleasedKeysAreShared'
    BY <1>1, <1>3, <1>4 DEF ReleasedKeysAreShared, AuthInv
  <1>10. InitiatorAuthentication'
    <2> SUFFICES ASSUME NEW i \in ISess, iview'[i] # None
                 PROVE  \E q \in RSess : Authenticated(i, q)'
      BY DEF InitiatorAuthentication
    <2>1. iview'[i] = iview[i] /\ input'[i] = input[i]
      BY <1>1
    <2>2. PICK q \in RSess : Authenticated(i, q)
      <3>1. InitiatorAuthentication
        BY SMTT(20) DEF AuthInv
      <3>2. QED
        BY <2>1, <3>1, SMTT(20) DEF InitiatorAuthentication
    <2>3. q # r
      BY <2>1, <2>2, <1>3, SMTT(20) DEF Authenticated
    <2>4. rview'[q] = rview[q] /\ served'[q] = served[q]
      BY <2>3, <1>4, Zenon
    <2>5. Authenticated(i, q)'
      BY <2>1, <2>2, <2>4 DEF Authenticated
    <2>6. QED
      BY <2>5
  <1>11. QED
    BY <1>6, <1>7, <1>8, <1>9, <1>10 DEF AuthInv

(* generate_ke3 on a state that waits: by AcceptedKe2 the new key is       *)
(* shared with a relay session.                                            *)
LEMMA AuthInvSendKe3 ==
  ASSUME TypeOK, AuthInv, NEW i \in ISess, iphase[i] = "Ke1Generated",
         NEW m \in Ke2Arrivals, Ke3Checks(i, m), SendKe3(i, m)
  PROVE  AuthInv'
  <1> DEFINE prk == InitiatorPrk(i, m)
  <1>1. /\ iview' = [iview EXCEPT ![i] = prk]
        /\ iphase' = [iphase EXCEPT ![i] = "Ke3Generated"]
        /\ UNCHANGED <<input, rphase, rview, rout, served, ke2s>>
    BY DEF SendKe3, rvars
  <1>2. prk # None
    BY TermsDiffer DEF InitiatorPrk
  <1>3. iview[i] = None
    BY DEF AuthInv, KeysFollowPhases
  <1>4. iview'[i] = prk /\ \A j \in ISess : j # i => iview'[j] = iview[j]
    BY <1>1, SMTT(20) DEF TypeOK
  <1>5. PICK r \in RSess :
           /\ rview[r] = prk
           /\ served[r][2].relay.keypair = Pinned
           /\ served[r][2].account = input[i][2].account
           /\ served[r][2].record # None
           /\ served[r][2].record[2].envelope[2].rwd[2].secureKey = input[i][2].key
    BY AcceptedKe2 DEF AuthInv
  <1> HIDE DEF prk
  <1>6. KeysFollowPhases'
    BY <1>1, <1>2, <1>4 DEF KeysFollowPhases, AuthInv, TypeOK
  <1>7. ViewsAreBound'
    BY <1>1 DEF ViewsAreBound, AuthInv, Credentials
  <1>8. MacsAreGenuine'
    <2>1. \A k \in ke3s' : k \in ke3s \/ k.mac = InitiatorMac(prk)
      BY DEF SendKe3, prk
    <2>2. QED
      BY <2>1, <1>1, <1>2, <1>3, <1>4 DEF MacsAreGenuine, AuthInv
  <1>9. ReleasedKeysAreShared'
    BY <1>1, <1>3, <1>4 DEF ReleasedKeysAreShared, AuthInv
  <1>10. InitiatorAuthentication'
    <2> SUFFICES ASSUME NEW j \in ISess, iview'[j] # None
                 PROVE  \E q \in RSess : Authenticated(j, q)'
      BY DEF InitiatorAuthentication
    <2>1. CASE j = i
      <3>1. iview'[j] = rview'[r] /\ input'[j] = input[i] /\ served'[r] = served[r]
        BY <2>1, <1>1, <1>4, <1>5
      <3>2. Authenticated(j, r)'
        BY <3>1, <1>5 DEF Authenticated
      <3>3. QED
        BY <3>2, SMTT(20)
    <2>2. CASE j # i
      <3>1. iview'[j] = iview[j]
        BY <2>2, <1>4
      <3>2. PICK q \in RSess : Authenticated(j, q)
        <4>1. InitiatorAuthentication
          BY Zenon DEF AuthInv
        <4>2. QED
          BY <3>1, <4>1, SMTT(20) DEF InitiatorAuthentication
      <3>3. Authenticated(j, q)'
        BY <3>1, <3>2, <1>1 DEF Authenticated
      <3>4. QED
        BY <3>3
    <2>3. QED
      BY <2>1, <2>2
  <1>11. QED
    BY <1>6, <1>7, <1>8, <1>9, <1>10 DEF AuthInv

(* responder_finish: the key released is the one an agent session made its *)
(* KE3 with.                                                               *)
LEMMA AuthInvResponderFinish ==
  ASSUME TypeOK, AuthInv, NEW r \in RSess, rphase[r] = "Ke2Generated",
         NEW m \in Ke3Arrivals,
         \/ ~Ke3Matches(r, m) /\ UNCHANGED rout
         \/ Ke3Matches(r, m) /\ rout' = [rout EXCEPT ![r] = SessionKey(rview[r])],
         rphase' = [rphase EXCEPT ![r] = "Finished"],
         UNCHANGED <<iphase, iview, input, served, rview, ke2s, ke3s>>
  PROVE  AuthInv'
  <1>1. rview[r] # None
    BY DEF AuthInv, KeysFollowPhases
  <1>2. KeysFollowPhases'
    BY <1>1 DEF KeysFollowPhases, AuthInv, TypeOK
  <1>3. ViewsAreBound'
    BY DEF ViewsAreBound, AuthInv, Credentials
  <1>4. MacsAreGenuine'
    BY DEF MacsAreGenuine, AuthInv
  <1>5. ReleasedKeysAreShared'
    <2>1. CASE UNCHANGED rout
      BY <2>1 DEF ReleasedKeysAreShared, AuthInv
    <2>2. CASE Ke3Matches(r, m) /\ rout' = [rout EXCEPT ![r] = SessionKey(rview[r])]
      <3>1. m.parsed /\ m.mac = InitiatorMac(rview[r])
        BY <2>2 DEF Ke3Matches
      <3>2. PICK i \in ISess : iview[i] # None /\ m.mac = InitiatorMac(iview[i])
        BY <3>1, Ke3MacIsGenuine, TermsDiffer DEF AuthInv
      <3>3. iview[i] = rview[r]
        BY <3>1, <3>2, MacsAreInjective
      <3>4. QED
        BY <2>2, <3>2, <3>3 DEF ReleasedKeysAreShared, AuthInv, TypeOK
    <2>3. QED
      BY <2>1, <2>2
  <1>6. InitiatorAuthentication'
    BY SMTT(20) DEF InitiatorAuthentication, Authenticated, AuthInv
  <1>7. QED
    BY <1>2, <1>3, <1>4, <1>5, <1>6 DEF AuthInv

(* Every other step leaves keys and MACs alone, moves phases only to       *)
(* Finished or among phases without a key, and gives an input only to a    *)
(* session without a key.                                                  *)
LEMMA AuthInvFrame ==
  ASSUME AuthInv,
         UNCHANGED <<iview, rview, rout, served, ke2s, ke3s>>,
         \A i \in ISess : \/ iphase'[i] \in {iphase[i], "Finished"}
                          \/ iview[i] = None /\ iphase'[i] # "Ke3Generated",
         \A i \in ISess : iview[i] # None => input'[i] = input[i],
         \A r \in RSess : rphase'[r] \in {rphase[r], "Finished"}
  PROVE  AuthInv'
  <1>1. KeysFollowPhases'
    BY DEF KeysFollowPhases, AuthInv
  <1>2. ViewsAreBound'
    BY DEF ViewsAreBound, AuthInv, Credentials
  <1>3. MacsAreGenuine'
    BY DEF MacsAreGenuine, AuthInv
  <1>4. ReleasedKeysAreShared'
    BY SMTT(20) DEF ReleasedKeysAreShared, AuthInv
  <1>5. InitiatorAuthentication'
    BY SMTT(20) DEF InitiatorAuthentication, Authenticated, AuthInv
  <1>6. QED
    BY <1>1, <1>2, <1>3, <1>4, <1>5 DEF AuthInv

(* The invariant is inductive, given the types.                            *)
LEMMA AuthInvNext == TypeOK /\ AuthInv /\ [Next]_vars => AuthInv'
  <1> SUFFICES ASSUME TypeOK, AuthInv, [Next]_vars
               PROVE  AuthInv'
    OBVIOUS
  <1>0. /\ \A i \in ISess : iphase[i] \notin {"Ke3Generated", "Finished"} => iview[i] = None
        /\ DOMAIN iphase = ISess /\ DOMAIN rphase = RSess /\ DOMAIN input = ISess
    BY DEF AuthInv, KeysFollowPhases, TypeOK
  <1>1. ASSUME NEW i \in ISess, IInvalidate(i)
        PROVE  AuthInv'
    BY <1>0, <1>1, AuthInvFrame DEF IInvalidate, rvars, net
  <1>2. ASSUME NEW r \in RSess, RInvalidate(r)
        PROVE  AuthInv'
    BY <1>0, <1>2, AuthInvFrame DEF RInvalidate, ivars, net
  <1>3. CASE UNCHANGED vars
    BY <1>3, AuthInvFrame DEF vars, ivars, rvars, net
  <1>4. ASSUME NEW i \in ISess, IReject(i)
        PROVE  AuthInv'
    BY <1>1, <1>3, <1>4 DEF IReject
  <1>5. ASSUME NEW r \in RSess, RReject(r)
        PROVE  AuthInv'
    BY <1>2, <1>3, <1>5 DEF RReject
  <1>6. ASSUME NEW i \in ISess, CreateRegistrationRequest(i)
        PROVE  AuthInv'
    <2>1. CASE IReject(i)
      BY <1>4, <2>1
    <2>2. CASE ~IReject(i)
      BY <1>0, <1>6, <2>2, AuthInvFrame DEF CreateRegistrationRequest, rvars
    <2>3. QED
      BY <2>1, <2>2
  <1>7. ASSUME NEW i \in ISess, FinalizeRegistration(i)
        PROVE  AuthInv'
    <2>1. ASSUME iphase[i] = "RegistrationRequested", NEW m, SealRecord(i, m)
          PROVE  AuthInv'
      BY <1>0, <2>1, AuthInvFrame DEF SealRecord, rvars
    <2>2. QED
      BY <1>1, <1>4, <1>7, <2>1 DEF FinalizeRegistration
  <1>8. ASSUME NEW i \in ISess, GenerateKe1(i)
        PROVE  AuthInv'
    <2>1. CASE IReject(i)
      BY <1>4, <2>1
    <2>2. CASE ~IReject(i)
      BY <1>0, <1>8, <2>2, AuthInvFrame DEF GenerateKe1, rvars
    <2>3. QED
      BY <2>1, <2>2
  <1>9. ASSUME NEW i \in ISess, GenerateKe3(i)
        PROVE  AuthInv'
    BY <1>1, <1>4, <1>9, AuthInvSendKe3 DEF GenerateKe3
  <1>10. ASSUME NEW i \in ISess, InitiatorFinish(i)
         PROVE  AuthInv'
    <2>1. CASE IReject(i)
      BY <1>4, <2>1
    <2>2. CASE ~IReject(i)
      BY <1>0, <1>10, <2>2, AuthInvFrame DEF InitiatorFinish, rvars, net
    <2>3. QED
      BY <2>1, <2>2
  <1>11. ASSUME NEW r \in RSess, GenerateKe2(r)
         PROVE  AuthInv'
    <2>1. CASE RReject(r)
      BY <1>5, <2>1
    <2>2. CASE EncapsulateFails(r)
      <3>1. CASE RInvalidate(r)
        BY <1>2, <3>1
      <3>2. CASE ~RInvalidate(r)
        BY <2>2, <3>2, AuthInvFrame DEF EncapsulateFails, ivars, net
      <3>3. QED
        BY <3>1, <3>2
    <2>3. ASSUME rphase[r] = "Created",
                 NEW relay, NEW account, NEW m, SendKe2(r, relay, account, m)
          PROVE  AuthInv'
      BY <2>3, AuthInvSendKe2
    <2>4. QED
      BY <1>11, <2>1, <2>2, <2>3 DEF GenerateKe2
  <1>12. ASSUME NEW r \in RSess, ResponderFinish(r)
         PROVE  AuthInv'
    <2>1. CASE RReject(r) \/ RInvalidate(r)
      BY <1>2, <1>5, <2>1
    <2>2. CASE ~(RReject(r) \/ RInvalidate(r))
      <3>1. /\ rphase[r] = "Ke2Generated"
            /\ rphase' = [rphase EXCEPT ![r] = "Finished"]
            /\ UNCHANGED <<iphase, iview, input, served, rview, ke2s, ke3s>>
        BY <1>12, <2>2 DEF ResponderFinish, ivars, net
      <3>2. PICK m \in Ke3Arrivals :
              \/ ~Ke3Matches(r, m) /\ UNCHANGED rout
              \/ Ke3Matches(r, m) /\ rout' = [rout EXCEPT ![r] = SessionKey(rview[r])]
        BY <1>12, <2>2 DEF ResponderFinish
      <3>3. QED
        BY <3>1, <3>2, AuthInvResponderFinish
    <2>3. QED
      BY <2>1, <2>2
  <1>13. CASE CreateRegistrationResponse
    BY <1>13, AuthInvFrame DEF CreateRegistrationResponse, ivars, rvars
  <1>14. CASE BuildCredentials
    BY <1>14, AuthInvFrame DEF BuildCredentials, ivars, rvars, net
  <1>15. CASE Tick
    BY <1>15, AuthInvFrame DEF Tick, net
  <1>16. QED
    BY <1>1, <1>2, <1>3, <1>6, <1>7, <1>8, <1>9, <1>10, <1>11, <1>12, <1>13,
       <1>14, <1>15
    DEF Next, ICallPanics, RCallPanics

(* What AuthInv says of a relay session that released its key: the agent   *)
(* session it shares the key with authenticated this relay session and no  *)
(* other, since the ephemeral key in the transcript names the session.     *)
LEMMA AuthInvImpliesResponderAuthentication == AuthInv => ResponderAuthentication
  <1> SUFFICES ASSUME AuthInv, NEW r \in RSess, rout[r] # None
               PROVE  \E i \in ISess :
                        Authenticated(i, r) /\ rout[r] = SessionKey(iview[i])
    BY DEF ResponderAuthentication
  <1>1. rview[r] # None
    BY DEF AuthInv, KeysFollowPhases
  <1>2. PICK i \in ISess : iview[i] # None /\ iview[i] = rview[r]
    BY DEF AuthInv, ReleasedKeysAreShared
  <1>3. PICK q \in RSess : Authenticated(i, q)
    BY <1>2 DEF AuthInv, InitiatorAuthentication
  <1>4. rview[q] = rview[r]
    BY <1>2, <1>3 DEF Authenticated
  <1>5. ResponderEphemeral(q) = ResponderEphemeral(r)
    BY <1>1, <1>4 DEF AuthInv, ViewsAreBound
  <1>6. q = r
    BY <1>5 DEF ResponderEphemeral
  <1>7. QED
    BY <1>2, <1>3, <1>6 DEF AuthInv, ReleasedKeysAreShared

(* Mutual authentication, for any number of sessions and any behaviour of  *)
(* the transport: generate_ke3 succeeds only against a relay session at    *)
(* the pinned relay that served the same account from a record sealed with *)
(* the secure key typed in, and responder_finish releases a session key    *)
(* only if such an agent session derived that key.                         *)
THEOREM Authentication ==
  Spec => [](InitiatorAuthentication /\ ResponderAuthentication)
  <1>1. AuthInv => InitiatorAuthentication /\ ResponderAuthentication
    BY AuthInvImpliesResponderAuthentication DEF AuthInv
  <1>2. QED
    BY <1>1, AuthInvInit, AuthInvNext, TypeCorrect, PTL DEF Spec

(* The relay's half on its own: a session key released by responder_finish *)
(* is the key of an agent session that authenticated this relay session.   *)
THEOREM RelayReleasesSharedKeys == Spec => []ResponderAuthentication
  BY Authentication, PTL

(* The relay's secrets on their own: what a ResponderState holds is what   *)
(* its phase needs, whichever check or call of generate_ke2 or             *)
(* responder_finish failed.                                                *)
THEOREM RelaySecretsFollowPhases == Spec => []ResponderSecrets
  BY SecretsFollowPhases, PTL

-----------------------------------------------------------------------------
(* One-shot sessions.                                                      *)

(* A finished session is over: no call, late message or passing of time    *)
(* moves it out of Finished or changes what it released.                   *)
THEOREM SessionsAreOneShot == Spec => FinishedIsFinal
  <1>1. TypeOK /\ [Next]_vars => [StaysFinished]_vars
    <2> SUFFICES ASSUME TypeOK, [Next]_vars
                 PROVE  StaysFinished
      OBVIOUS
    <2> USE DEF TypeOK, StaysFinished
    <2>1. ASSUME NEW i \in ISess, IInvalidate(i)
          PROVE  StaysFinished
      BY <2>1 DEF IInvalidate, rvars
    <2>2. ASSUME NEW r \in RSess, RInvalidate(r)
          PROVE  StaysFinished
      BY <2>2 DEF RInvalidate, ivars
    <2>3. CASE UNCHANGED vars
      BY <2>3 DEF vars, ivars, rvars
    <2>4. ASSUME NEW i \in ISess, IReject(i)
          PROVE  StaysFinished
      BY <2>1, <2>3, <2>4 DEF IReject
    <2>5. ASSUME NEW r \in RSess, RReject(r)
          PROVE  StaysFinished
      BY <2>2, <2>3, <2>5 DEF RReject
    <2>6. ASSUME NEW i \in ISess, CreateRegistrationRequest(i)
          PROVE  StaysFinished
      BY <2>4, <2>6 DEF CreateRegistrationRequest, rvars
    <2>7. ASSUME NEW i \in ISess, FinalizeRegistration(i)
          PROVE  StaysFinished
      BY <2>1, <2>4, <2>7 DEF FinalizeRegistration, SealRecord, rvars
    <2>8. ASSUME NEW i \in ISess, GenerateKe1(i)
          PROVE  StaysFinished
      BY <2>4, <2>8 DEF GenerateKe1, rvars
    <2>9. ASSUME NEW i \in ISess, GenerateKe3(i)
          PROVE  StaysFinished
      BY <2>1, <2>4, <2>9 DEF GenerateKe3, SendKe3, rvars
    <2>10. ASSUME NEW i \in ISess, InitiatorFinish(i)
           PROVE  StaysFinished
      BY <2>4, <2>10 DEF InitiatorFinish, rvars
    <2>11. ASSUME NEW r \in RSess, GenerateKe2(r)
           PROVE  StaysFinished
      BY <2>2, <2>5, <2>11 DEF GenerateKe2, EncapsulateFails, SendKe2, ivars
    <2>12. ASSUME NEW r \in RSess, ResponderFinish(r)
           PROVE  StaysFinished
      BY <2>2, <2>5, <2>12 DEF ResponderFinish, ivars
    <2>13. CASE CreateRegistrationResponse
      BY <2>13 DEF CreateRegistrationResponse, ivars, rvars
    <2>14. CASE BuildCredentials
      BY <2>14 DEF BuildCredentials, ivars, rvars
    <2>15. CASE Tick
      BY <2>15 DEF Tick
    <2>16. QED
      BY <2>1, <2>2, <2>3, <2>6, <2>7, <2>8, <2>9, <2>10, <2>11, <2>12, <2>13,
         <2>14, <2>15
      DEF Next, ICallPanics, RCallPanics
  <1>2. QED
    BY <1>1, TypeCorrect, PTL DEF Spec, FinishedIsFinal

(* A session that has outlived its deadline derives and releases nothing   *)
(* any more, and only invalidation moves it (agent sessions that already   *)
(* hold their keys excepted).                                              *)
THEOREM ExpiredSessionsAreDead == Spec => ExpiryIsFinal
  <1>1. TypeOK /\ [Next]_vars => [StaysExpired]_vars
    <2> SUFFICES ASSUME TypeOK, [Next]_vars
                 PROVE  StaysExpired
      OBVIOUS
    <2> USE DEF TypeOK, StaysExpired, IExpired, RExpired, IExpires, RExpires
    <2>1. ASSUME NEW i \in ISess, IInvalidate(i)
          PROVE  StaysExpired
      BY <2>1 DEF IInvalidate, rvars
    <2>2. ASSUME NEW r \in RSess, RInvalidate(r)
          PROVE  StaysExpired
      BY <2>2 DEF RInvalidate, ivars
    <2>3. CASE UNCHANGED vars
      BY <2>3 DEF vars, ivars, rvars
    <2>4. ASSUME NEW i \in ISess, IReject(i)
          PROVE  StaysExpired
      BY <2>1, <2>3, <2>4 DEF IReject
    <2>5. ASSUME NEW r \in RSess, RReject(r)
          PROVE  StaysExpired
      BY <2>2, <2>3, <2>5 DEF RReject
    <2>6. ASSUME NEW i \in ISess, CreateRegistrationRequest(i)
          PROVE  StaysExpired
      BY <2>4, <2>6 DEF CreateRegistrationRequest, rvars
    <2>7. ASSUME NEW i \in ISess, FinalizeRegistration(i)
          PROVE  StaysExpired
      BY <2>1, <2>4, <2>7 DEF FinalizeRegistration, SealRecord, rvars
    <2>8. ASSUME NEW i \in ISess, GenerateKe1(i)
          PROVE  StaysExpired
      BY <2>4, <2>8 DEF GenerateKe1, rvars
    <2>9. ASSUME NEW i \in ISess, GenerateKe3(i)
          PROVE  StaysExpired
      BY <2>1, <2>4, <2>9 DEF GenerateKe3, SendKe3, rvars
    <2>10. ASSUME NEW i \in ISess, InitiatorFinish(i)
           PROVE  StaysExpired
      BY <2>4, <2>10 DEF InitiatorFinish, rvars
    <2>11. ASSUME NEW r \in RSess, GenerateKe2(r)
           PROVE  StaysExpired
      BY <2>2, <2>5, <2>11 DEF GenerateKe2, EncapsulateFails, SendKe2, ivars
    <2>12. ASSUME NEW r \in RSess, ResponderFinish(r)
           PROVE  StaysExpired
      BY <2>2, <2>5, <2>12 DEF ResponderFinish, ivars
    <2>13. CASE CreateRegistrationResponse
      BY <2>13 DEF CreateRegistrationResponse, ivars, rvars
    <2>14. CASE BuildCredentials
      BY <2>14 DEF BuildCredentials, ivars, rvars
    <2>15. CASE Tick
      BY <2>15, LifetimeAssumption DEF Tick, Older
    <2>16. QED
      BY <2>1, <2>2, <2>3, <2>6, <2>7, <2>8, <2>9, <2>10, <2>11, <2>12, <2>13,
         <2>14, <2>15
      DEF Next, ICallPanics, RCallPanics
  <1>2. QED
    BY <1>1, TypeCorrect, PTL DEF Spec, ExpiryIsFinal
=============================================================================
