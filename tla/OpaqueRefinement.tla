-------------------------- MODULE OpaqueRefinement --------------------------
(* Opaque implements MutualAuthentication.                                 *)
EXTENDS Opaque

(* The relay session that derived the key of agent session i.              *)
Peer(i) == CHOOSE r \in RSess : rview[r] = iview[i]

Auth == INSTANCE MutualAuthentication WITH
  Nobody    <- None,
  wanted    <- [i \in ISess |-> IF input[i] = None THEN None ELSE input[i][2].account],
  offered   <- [r \in RSess |-> IF served[r] = None THEN None ELSE served[r][2].account],
  peer      <- [i \in ISess |-> IF iview[i] = None THEN None ELSE Peer(i)],
  accepted  <- {r \in RSess : rout[r] # None},
  delivered <- {i \in ISess : iout[i] # None}

(* Every behaviour of the two crates, over the weakest transport, is a     *)
(* behaviour of the abstract handshake: one-to-one, for one account, the   *)
(* agent committed before the relay accepts.                               *)
ImplementsMutualAuthentication == Auth!ASpec
=============================================================================
