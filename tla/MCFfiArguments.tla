--------------------------- MODULE MCFfiArguments ---------------------------
(* A memory of seven bytes, in which the ranges of every call just fit.    *)
EXTENDS FfiArguments
=============================================================================
