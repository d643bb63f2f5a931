---------------------------- MODULE MCWireFormat ----------------------------
(* The byte layout with the lengths of the code.                           *)
EXTENDS WireFormat
=============================================================================
