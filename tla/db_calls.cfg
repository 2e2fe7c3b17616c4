SPECIFICATION DurableSpec
CONSTANTS
  EmptyKey = EmptyKey
  Absent = Absent
  NoEntry = NoEntry
  Procs = {p1, p2, p3}
  Keys = {k1, k2}
  MaxLen = 1
  MemLimited = FALSE
  MaxOps = 1
  Configs <- MCConfigs
  MaxRestarts = 1
SYMMETRY Symmetry
INVARIANT DurableTypeOK
INVARIANT StaleOnlyAfterRace
INVARIANT LateWritesSayClosed
INVARIANT PebbleOpenWhileUsed
INVARIANT ForcedIsDurable
PROPERTY CleanRestartLosesNothing
PROPERTY ImplementsDurableWrites
\* Goroutines have used up their calls: the system may stop.
CHECK_DEADLOCK FALSE
