SPECIFICATION MCSpec
CONSTANTS
  None = None
  Keys = {k1, k2, k3}
  Entries = {e1, e2, e3}
  Getters = {g1, g2}
  Sizes = {1, 2}
  MaxBytes = 3
  MaxItemBytes = 2
  TTL = 1
  MaxTime = 3
  Recorders = {1, 2}
  Seen = {1, 2, 3}
  Rows = 2
  Width = 2
  Hash1 <- MCHash1
  Hash2 <- MCHash2
  Saturation = 3
  Period = 2
  Threshold = 2
  MaxRecords = 4
SYMMETRY Symmetry
INVARIANT MapListAndBytesAgree
INVARIANT BudgetKept
INVARIANT SweepMissesOnlyBehindRenewed
INVARIANT HotKeysAreAdmitted
INVARIANT ColdKeysAreRefused
PROPERTY OnlyExpiredExpire
\* The clock is bounded and the sweeper may be stopped.
CHECK_DEADLOCK FALSE
