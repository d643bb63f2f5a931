-------------------------- MODULE MCKeyDerivation --------------------------
(* Blocks of three bytes, counters of three bits.                          *)
EXTENDS KeyDerivation
=============================================================================
