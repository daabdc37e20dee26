\* epoll, default fhs reuse, the owning thread alone.
CONSTANTS
  FD <- MCFD
  Owner = Owner
  Foreign = {}
  NoThread = NoThread
  Interests <- MCInterests
  BestMethod = "EPOLL"
  MaxFds = 2
  Reuse0 = TRUE
  TimerDelay = 1000
  IntWidth = 16
  SwitchTo = {}
  ReuseValues = {}
  SetsizeZero = FALSE
  MaxRecs = 2
  MaxEnters = 0
  f1 = f1
  f2 = f2
SPECIFICATION Spec
INVARIANT TypeOK
INVARIANT RegistryConsistent
INVARIANT EpollMirrorsRegistry
PROPERTY FdRegistryRefined
