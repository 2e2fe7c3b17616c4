SPECIFICATION FairSpec
CONSTANTS
  EmptyKey = EmptyKey
  Absent = Absent
  NoEntry = NoEntry
  Procs = {p1, p2, p3}
  Keys = {k1}
  MaxLen = 1
  MemLimited = TRUE
  MaxOps = 1
PROPERTY CallsReturn
\* Goroutines have used up their calls: the system may stop.
CHECK_DEADLOCK FALSE
