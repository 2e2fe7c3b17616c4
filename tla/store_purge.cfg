SPECIFICATION Spec
CONSTANTS
  None = None
  Clients = {c1, c2}
  Pks = {p1}
  Uniques = {u1}
  Normals = {n1}
  TTL = 1
  MaxOps = 2
  MaxTime = 2
PROPERTY PurgeSparesFresh
\* Clients have used up their calls: the system may stop.
CHECK_DEADLOCK FALSE
