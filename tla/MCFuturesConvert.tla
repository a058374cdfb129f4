-------------------------- MODULE MCFuturesConvert --------------------------
(* FuturesConvert for TLC. *)
EXTENDS FuturesConvert

=============================================================================
