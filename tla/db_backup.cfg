SPECIFICATION Spec
CONSTANTS
  EmptyKey = EmptyKey
  Absent = Absent
  NoEntry = NoEntry
  Procs = {p1, p2}
  Keys = {k1}
  MaxLen = 1
  MemLimited = FALSE
  MaxOps = 1
INVARIANT NobodyMeetsClosedPebble
\* Goroutines have used up their calls: the system may stop.
CHECK_DEADLOCK FALSE
