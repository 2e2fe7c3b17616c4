SPECIFICATION Spec
CONSTANTS
  NoShell = NoShell
  Clients = {c1, c2, c3}
  Stoppers = {t1}
  Shells = {s1, s2, s3}
  MaxLen = 2
  BatchSize = 3
  Bulk = TRUE
  MemLimited = FALSE
  MaxReq = 2
SYMMETRY Symmetry
INVARIANT TypeOK
INVARIANT InFlightShellsAreOwned
INVARIANT NoAcceptedWriteLost
INVARIANT OutcomeIsTruthful
INVARIANT AppliedInOrder
PROPERTY ImplementsAtomicWrites
\* Callers have used up their writes, or wait in nothing: the system may stop.
CHECK_DEADLOCK FALSE
