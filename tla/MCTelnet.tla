------------------------------ MODULE MCTelnet ------------------------------
(***************************************************************************)
(* Instances of Telnet for TLC: the model's bound is the stream's length.  *)
(***************************************************************************)
EXTENDS Telnet
=============================================================================
