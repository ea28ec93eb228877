SPECIFICATION EditingSpec
CONSTANTS
  Calls = {c1, c2}
  NoCall = NoCall
  Requests <- EditingRequests
  Nodes = {1, 2, 3}
  Ifaces = {0}
  NetIds = {1}
  Names = {"a", "b", "p2p"}
  NoName = NoName
  LineName = "p2p"
  NotGiven = NotGiven
  Pro = FALSE
  PollAttempts = 2
SYMMETRY Symmetry
VIEW LabView
INVARIANTS
  IInv
  EditedWhileStopped
PROPERTIES
  PaddingNeverRenames
  NoSilentDuplicate
  DeletesWhatMatched
  NoPileUp
  HideNeverDeletes
