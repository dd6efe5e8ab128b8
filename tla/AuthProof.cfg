SPECIFICATION Spec
CONSTANTS
  Proof = {p1, p2}
  Delivery = {d1, d2, d3}
  Backends = {"memory", "postgres"}
  Window = 2
  Skew = 1
  ClientDrift <- ClientClocks
  ReplicaDrift <- ReplicaClocks
  MaxTime = 7
INVARIANTS
  TypeOK
  SingleUseWhileValid
  NoNonceBurnt
  ReuseMeansUsed
  RecordsExpire
SYMMETRY Symmetric
CHECK_DEADLOCK FALSE
