SPECIFICATION FairSpec
CONSTANTS
  NoShell = NoShell
  Clients = {c1, c2}
  Stoppers = {t1, t2}
  Shells = {s1, s2}
  MaxLen = 1
  BatchSize = 2
  Bulk = FALSE
  MemLimited = TRUE
  MaxReq = 1
INVARIANT NoSendOnClosed
INVARIANT StopIsFinal
PROPERTY CallsReturn
PROPERTY StopReturns
\* Callers have used up their writes, or wait in nothing: the system may stop.
CHECK_DEADLOCK FALSE
