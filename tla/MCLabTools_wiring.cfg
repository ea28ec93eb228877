SPECIFICATION WiringSpec
CONSTANTS
  Calls = {c1, c2}
  NoCall = NoCall
  Requests <- WiringRequests
  Nodes = {1, 2}
  Ifaces = {0, 1}
  NetIds = {1, 2}
  Names = {"a", "b", "p2p"}
  NoName = NoName
  LineName = "p2p"
  NotGiven = NotGiven
  Pro = FALSE
  PollAttempts = 2
INVARIANTS
  WiredWhileStopped
PROPERTIES
  NoSilentRewire
  LineDrawn
  CallsFinish
