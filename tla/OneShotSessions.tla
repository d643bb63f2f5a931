--------------------------- MODULE OneShotSessions ---------------------------
(***************************************************************************)
(* What the C interface promises the owner of a state handle, whatever the *)
(* threads do: a state is good for one registration or one login.  Its     *)
(* outputs come in the order of the protocol and each of them once; a      *)
(* session that was broken off hands out nothing more.                     *)
(***************************************************************************)
EXTENDS SequencesExt

CONSTANT Sessions

VARIABLES
  open,       \* sessions that exist
  delivered,  \* the outputs of each session, in order
  broken      \* sessions broken off before their last output

vars == <<open, delivered, broken>>

(* The outputs of a registration, of an agent's login, of a relay's.       *)
Protocols == {<<"registration_request", "registration_record">>,
              <<"ke1", "ke3", "agent_keys">>,
              <<"ke2", "relay_key">>}

Outputs == {"registration_request", "registration_record", "ke1", "ke3",
            "agent_keys", "ke2", "relay_key"}

Init ==
  /\ open = {} /\ broken = {}
  /\ delivered = [s \in Sessions |-> <<>>]

Open(s) ==
  /\ s \notin open
  /\ open' = open \cup {s}
  /\ UNCHANGED <<delivered, broken>>

(* The owner of the session gets its next output.                          *)
Deliver(s) ==
  /\ s \in open \ broken
  /\ \E output \in Outputs :
       /\ \E p \in Protocols : IsPrefix(Append(delivered[s], output), p)
       /\ delivered' = [delivered EXCEPT ![s] = Append(@, output)]
  /\ UNCHANGED <<open, broken>>

BreakOff(s) ==
  /\ s \in open \ broken
  /\ broken' = broken \cup {s}
  /\ UNCHANGED <<open, delivered>>

(* The handle is destroyed; its slot may be used for another session.      *)
Close(s) ==
  /\ s \in open
  /\ open' = open \ {s}
  /\ delivered' = [delivered EXCEPT ![s] = <<>>]
  /\ broken' = broken \ {s}

Next == \E s \in Sessions : Open(s) \/ Deliver(s) \/ BreakOff(s) \/ Close(s)

Spec == Init /\ [][Next]_vars
=============================================================================
