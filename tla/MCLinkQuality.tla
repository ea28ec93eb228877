--------------------------- MODULE MCLinkQuality ----------------------------
(***************************************************************************)
(* Instances of LinkQuality for TLC.                                       *)
(***************************************************************************)
EXTENDS LinkQuality, TLC

CONSTANTS n1, n2, cloud, delay, loss

Symmetry == Permutations(Calls)

End(n, i) == [node |-> n, iface |-> i]
A == End(n1, 0)
B == End(n2, 0)
C == End(n1, 1)

Link(s, d) == [src |-> s, dst |-> d]

\* A connection of two nodes, one of a node to a network, one that is drawn the other
\* way, and one of a node to itself.
MCEnds == {A, B, C}
MCLinks == {Link(A, B), Link(cloud, C), Link(B, C), Link(A, C)}

Q(d, l) == (delay :> d) @@ (loss :> l)

Get(e, byName) ==
  [tool |-> "get", end |-> e, byName |-> byName, value |-> Zero, far |-> << >>, persist |-> TRUE]
Set(e, value, far, persist) ==
  [tool |-> "set", end |-> e, byName |-> FALSE, value |-> value, far |-> far, persist |-> persist]

MCRequests ==
  {Set(A, Q(1, 0), << >>, TRUE), Set(B, Q(0, 1), delay :> 1, TRUE), Set(B, Q(1, 1), << >>, FALSE),
   Set(C, Q(1, 0), << >>, TRUE), Get(B, FALSE), Get(C, TRUE)}
=============================================================================
