CONSTANTS
  FD <- MCFD
  Owner = Owner
  Foreign = {}
  NoThread = NoThread
  Interests <- MCInterests
  BestMethod = "POLL"
  MaxFds = 2
  Reuse0 = TRUE
  TimerDelay = 1000
  IntWidth = 16
  SwitchTo = {}
  ReuseValues = {}
  SetsizeZero = FALSE
  MaxRecs = 2
  MaxEnters = 0
  f1 = f1
  f2 = f2
SPECIFICATION Spec
INVARIANT PollCoversRegistry
