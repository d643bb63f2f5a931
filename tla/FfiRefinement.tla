---------------------------- MODULE FfiRefinement ----------------------------
(* The C interface under concurrent calls implements one-shot sessions.    *)
EXTENDS FfiHandles

(* A state that is over without its last output.  While a finished call    *)
(* has still to copy its output the session is not broken off, and once it *)
(* has copied it the session is complete.                                  *)
BrokenOff ==
  {s \in live \cap States :
    /\ phase[s] = "Finished"
    /\ \A t \in Threads : ~(pc[t] = "commit" /\ call[t].state = s)
    /\ ~\E n \in DOMAIN outputs[s] : outputs[s][n] \in {"agent_keys", "relay_key"}}

Promise == INSTANCE OneShotSessions WITH
  Sessions  <- States,
  open      <- live \cap States,
  delivered <- outputs,
  broken    <- BrokenOff

(* However the calls of several threads on a state interleave, fail or     *)
(* panic, its owner sees a one-shot session: the outputs in the order of   *)
(* the protocol, none twice, and none after a failure.                     *)
ImplementsOneShotSessions == Promise!Spec
=============================================================================
