\* Everything at once: peer batches, and one failure or one restart.
CONSTANTS
  k1 = k1
  Key = {k1}
  PeerSync = TRUE
  MaxWrites = 3
  MaxUpsets = 1
SPECIFICATION Spec
INVARIANTS TypeOK AtMostTwice PendingBacked
PROPERTY StableAnnounced
