\* epoll, one foreign thread that may re_cancel inside its window; a timer due in 1000 ms.
CONSTANTS
  FD <- MCFD1
  Owner = Owner
  Foreign <- MCForeign1
  NoThread = NoThread
  Interests <- MCInterests
  BestMethod = "EPOLL"
  MaxFds = 2
  Reuse0 = TRUE
  TimerDelay = 1000
  IntWidth = 16
  SwitchTo = {}
  ReuseValues = {TRUE, FALSE}
  SetsizeZero = TRUE
  MaxRecs = 1
  MaxEnters = 2
  f1 = f1
  f2 = f2
SPECIFICATION Spec
INVARIANT TypeOK
PROPERTY CancelReturns
