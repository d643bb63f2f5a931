---------------------------- MODULE MCFfiHandles ----------------------------
(* Small instances of FfiHandles for TLC.                                  *)
EXTENDS FfiRefinement, TLC

(* Threads, and the handles of one kind, are interchangeable.              *)
Interchangeable == Permutations(Threads) \cup Permutations(Agents)
=============================================================================
