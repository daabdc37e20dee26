CONSTANTS
  FD <- MCFD
  Owner = Owner
  Foreign = {}
  NoThread = NoThread
  Interests <- MCInterests
  BestMethod = "EPOLL"
  MaxFds = 2
  Reuse0 = TRUE
  TimerDelay = 1000
  IntWidth = 16
  SwitchTo = {}
  ReuseValues = {FALSE}
  SetsizeZero = FALSE
  MaxRecs = 3
  MaxEnters = 0
  f1 = f1
  f2 = f2
SPECIFICATION Spec
INVARIANT RegistryConsistent
