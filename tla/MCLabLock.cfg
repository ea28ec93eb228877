SPECIFICATION FairSpec
CONSTANTS
  Tasks = {t1, t2, t3, t4}
  Labs = {la, lb}
  NoTask = NoTask
INVARIANTS
  MutualExclusion
  NoLostWakeup
  IInv
PROPERTIES
  ImplementsMutex
  NoStarvation
