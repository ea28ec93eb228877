SPECIFICATION Spec
CONSTANTS
  Tasks = {t1, t2}
  NoTask = NoTask
  Cookies = {k1, k2, k3, k4, k5}
  NoCookie = NoCookie
  Shared = FALSE
INVARIANT DedicatedAccountSuffices
