---------------------------- MODULE MCSwiftAgent -----------------------------
(* Small instances of SwiftAgent for TLC.                                  *)
EXTENDS SwiftAgent, TLC

(* Threads, objects of one kind and handles of one kind are                *)
(* interchangeable.                                                        *)
Interchangeable ==
  Permutations(Threads) \cup Permutations(Agents) \cup Permutations(AgentObjects)
  \cup Permutations(StateObjects) \cup Permutations(AgentStates)
  \cup Permutations(KeysObjects)
=============================================================================
