----------------------------- MODULE MCLabLock ------------------------------
(***************************************************************************)
(* Instance of LabLock for TLC.                                            *)
(***************************************************************************)
EXTENDS LabLock
=============================================================================
