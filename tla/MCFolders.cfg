SPECIFICATION FairSpec
CONSTANTS
  Path <- MCPath
  InOrder <- Ascending
  NameCount = 1
  Running = 2
  Requests <- MCRequests
  MaxDepth = 2
  MaxFolders = 4
  MaxChanges = 3
INVARIANTS
  IInv
  FindsLabsThatStay
  FindsFoldersThatStay
  StaysBelowStart
PROPERTIES
  EmptyUnlessInTime
  WalksEnd
