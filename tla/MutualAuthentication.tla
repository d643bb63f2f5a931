------------------------ MODULE MutualAuthentication ------------------------
(***************************************************************************)
(* What the handshake promises, without messages, keys or passwords.       *)
(*                                                                         *)
(* An agent session asks for an account; a relay session offers itself for *)
(* an account; an agent session commits to one relay session that offers   *)
(* its account and that no other agent session has; a relay session        *)
(* accepts only after an agent session has committed to it.                *)
(***************************************************************************)
CONSTANTS
  ISess,       \* agent sessions
  RSess,       \* relay sessions
  Accounts,    \* account identifiers
  Nobody       \* no account, no peer

VARIABLES
  wanted,      \* the account an agent session asks for
  offered,     \* the account a relay session offers itself for
  peer,        \* the relay session an agent session has committed to
  accepted,    \* the relay sessions that gave the application a session key
  delivered    \* the agent sessions that gave the application their keys

avars == <<wanted, offered, peer, accepted, delivered>>

AInit ==
  /\ wanted = [i \in ISess |-> Nobody]
  /\ offered = [r \in RSess |-> Nobody]
  /\ peer = [i \in ISess |-> Nobody]
  /\ accepted = {}
  /\ delivered = {}

Want(i, account) ==
  /\ wanted[i] = Nobody
  /\ wanted' = [wanted EXCEPT ![i] = account]
  /\ UNCHANGED <<offered, peer, accepted, delivered>>

Offer(r, account) ==
  /\ offered[r] = Nobody
  /\ offered' = [offered EXCEPT ![r] = account]
  /\ UNCHANGED <<wanted, peer, accepted, delivered>>

Commit(i, r) ==
  /\ peer[i] = Nobody
  /\ wanted[i] # Nobody
  /\ offered[r] = wanted[i]
  /\ \A j \in ISess : peer[j] # r
  /\ peer' = [peer EXCEPT ![i] = r]
  /\ UNCHANGED <<wanted, offered, accepted, delivered>>

Accept(r) ==
  /\ r \notin accepted
  /\ \E i \in ISess : peer[i] = r
  /\ accepted' = accepted \cup {r}
  /\ UNCHANGED <<wanted, offered, peer, delivered>>

Deliver(i) ==
  /\ i \notin delivered
  /\ peer[i] # Nobody
  /\ delivered' = delivered \cup {i}
  /\ UNCHANGED <<wanted, offered, peer, accepted>>

ANext ==
  \/ \E i \in ISess, account \in Accounts : Want(i, account)
  \/ \E r \in RSess, account \in Accounts : Offer(r, account)
  \/ \E i \in ISess, r \in RSess : Commit(i, r)
  \/ \E r \in RSess : Accept(r)
  \/ \E i \in ISess : Deliver(i)

ASpec == AInit /\ [][ANext]_avars
=============================================================================
