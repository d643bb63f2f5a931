------------------------------ MODULE MCOpaque ------------------------------
(* Small instances of Opaque for TLC.                                      *)
EXTENDS OpaqueRefinement, TLC

CONSTANTS Seed, OtherSeed, Keypair, OtherKeypair

(* One relay; the same, which may be restarted with another OPRF seed, and *)
(* a relay of somebody else.                                               *)
OneRelay == {[keypair |-> Keypair, seed |-> Seed]}
AllRelays == OneRelay \cup {[keypair |-> Keypair, seed |-> OtherSeed],
                            [keypair |-> OtherKeypair, seed |-> OtherSeed]}

(* Sessions are interchangeable objects, and so are accounts.              *)
Sessions == Permutations(ISess) \cup Permutations(RSess)
SessionsAndAccounts == Sessions \cup Permutations(Accounts)
=============================================================================
