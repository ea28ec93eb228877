----------------------------- MODULE MCSession ------------------------------
(***************************************************************************)
(* Instances of Session for TLC.  A cookie is only compared for equality   *)
(* with those in use, of which there are at most Cardinality(Tasks) + 2.   *)
(***************************************************************************)
EXTENDS Session
=============================================================================
