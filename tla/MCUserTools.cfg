SPECIFICATION Spec
CONSTANTS
  Calls = {c1, c2}
  Users = {1, 2, 3}
  Requests <- MCRequests
  ListLimit = 2
SYMMETRY Symmetry
INVARIANT IInv
PROPERTIES
  LosesOnlyInRace
  NamedDeletesAsShown
