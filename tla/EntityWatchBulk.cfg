\* A large batch of another broker, posted to this one.
CONSTANTS
  k1 = k1
  Key = {k1}
  PeerSync = TRUE
  MaxWrites = 1
  MaxUpsets = 0
SPECIFICATION Spec
PROPERTY BulkAnnounced
