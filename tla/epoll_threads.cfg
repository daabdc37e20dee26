\* epoll, two foreign threads: one enters (once), the other calls without entering.
CONSTANTS
  FD <- MCFD
  Owner = Owner
  Foreign <- MCForeign2
  NoThread = NoThread
  Interests <- MCInterests
  BestMethod = "EPOLL"
  MaxFds = 2
  Reuse0 = TRUE
  TimerDelay = 1000
  IntWidth = 16
  SwitchTo = {}
  ReuseValues = {}
  SetsizeZero = FALSE
  MaxRecs = 2
  MaxEnters = 1
  f1 = f1
  f2 = f2
SPECIFICATION Spec
SYMMETRY ForeignSym
INVARIANT TypeOK
INVARIANT ForeignWindowExclusive
