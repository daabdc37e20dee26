CONSTANTS
  t1 = t1
  t2 = t2
  t3 = t3
  Threads <- MCThreads
  MaxRe = 3
  AllowAttach = TRUE
  ExitAfterClose = TRUE
  TssSetMayFail = FALSE
SPECIFICATION Spec
SYMMETRY ThreadSym
CHECK_DEADLOCK FALSE
INVARIANT TypeOK FallbackLive
