CONSTANTS
  FD <- MCFD
  Owner = Owner
  Foreign = {}
  NoThread = NoThread
  Interests <- MCInterests
  BestMethod = "POLL"
  MaxFds = 1
  Reuse0 = TRUE
  TimerDelay = 1000
  IntWidth = 16
  SwitchTo = {"POLL", "EPOLL"}
  ReuseValues = {}
  SetsizeZero = FALSE
  MaxRecs = 2
  MaxEnters = 0
  f1 = f1
  f2 = f2
SPECIFICATION Spec
INVARIANT TypeOK
INVARIANT RegistryConsistent
PROPERTY FdRegistryRefined
