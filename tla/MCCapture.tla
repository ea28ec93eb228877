----------------------------- MODULE MCCapture -----------------------------
(***************************************************************************)
(* An instance of CaptureRelay for TLC: one agent and one desktop, whose   *)
(* two streams are in the relay together, and seconds that are as few as   *)
(* the order of the timers allows.                                         *)
(***************************************************************************)
EXTENDS CaptureRelay

CONSTANTS c1, c2

SomeRequests ==
  {[tool |-> "list"], [tool |-> "get", by |-> "neither"],
   [tool |-> "get", by |-> "position", at |-> 1], [tool |-> "get", by |-> "position", at |-> 2],
   [tool |-> "get", by |-> "container", among |-> {c2}]}
=============================================================================
