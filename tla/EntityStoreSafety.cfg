\* Every service, three overlapping requests, replication, two failures.
CONSTANTS
  r1 = r1
  r2 = r2
  r3 = r3
  Request = {r1, r2, r3}
  Op <- MCAll
  Replicated = TRUE
  MaxFailures = 2
SPECIFICATION Spec
INVARIANTS TypeOK PeerBatchesOneRow LossNeedsOverlap
PROPERTY SerialImplementsMap
SYMMETRY MCSymmetry
