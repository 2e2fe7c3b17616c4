SPECIFICATION Spec
CONSTANTS
  None = None
  Clients = {c1, c2}
  Pks = {p1, p2, p3}
  Uniques = {u1, u2}
  Normals = {n1, n2}
  TTL = 1
  MaxOps = 4
  MaxTime = 2
SYMMETRY Symmetry
CONSTRAINT Bounded
INVARIANT TypeOK
INVARIANT RowsAreIndexed
INVARIANT EntriesExactUnlessRaced
INVARIANT UniqueUnlessRaced
\* Clients have used up their calls: the system may stop.
CHECK_DEADLOCK FALSE
