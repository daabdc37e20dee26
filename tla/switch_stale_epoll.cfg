\* epoll, switched to poll and back at run time, fhs reuse turned off.
CONSTANTS
  FD <- MCFD
  Owner = Owner
  Foreign = {}
  NoThread = NoThread
  Interests <- MCInterests
  BestMethod = "EPOLL"
  MaxFds = 2
  Reuse0 = TRUE
  TimerDelay = 1000
  IntWidth = 16
  SwitchTo = {"POLL", "EPOLL"}
  ReuseValues = {FALSE}
  SetsizeZero = FALSE
  MaxRecs = 2
  MaxEnters = 0
  f1 = f1
  f2 = f2
SPECIFICATION Spec
INVARIANT NoUseAfterFree
