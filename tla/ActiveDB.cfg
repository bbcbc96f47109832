CONSTANTS
  Proc = {p, q}
  Group = {"g1", "g2", "g3"}
  Buckets = 2
  Hash <- MCHash
  Lists <- MCLists
  TTL = 1
  GroupTimeout = 1
  MaxTime = 2
  PerPage = 2
  MaxFaults = 1
SPECIFICATION Spec
INVARIANTS WalkComplete
PROPERTIES GroupsKept NoRepeatedTransfer OperationsEnd
