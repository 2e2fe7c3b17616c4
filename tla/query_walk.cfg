SPECIFICATION Spec
CONSTANTS
  None = None
  Pks = {1, 2, 3}
  Values = {1, 2}
  Limits = {1, 2}
  MaxEvents = 2
INVARIANT WalkAscends
INVARIANT NoSteadyRowSkipped
INVARIANT ResultsMatch
\* The walk ends.
CHECK_DEADLOCK FALSE
