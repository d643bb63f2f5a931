----------------------------- MODULE MCSwiftKeys -----------------------------
(* Small instances of SwiftKeys for TLC.                                   *)
EXTENDS SwiftKeys, TLC

Interchangeable == Permutations(Threads) \cup Permutations(Keys)
=============================================================================
