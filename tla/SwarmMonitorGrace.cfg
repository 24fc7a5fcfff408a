\* A broker that goes down, a grace of which two polls are not yet all.
CONSTANTS
  d1 = d1
  d2 = d2
  b1 = b1
  b2 = b2
  Defra = {d1, d2}
  Broker = {b1, b2}
  DefraSeeds <- MCDefraSeeds
  BrokerSeeds <- MCBrokerSeeds
  Peers <- MCPeers
  Colocated <- MCColocated
  i1 = i1
  i2 = i2
  i3 = i3
  Ids <- MCIds
  FirstId <- MCFirstId
  MaxOutages = 1
  Grace = 3
  MaxLog = 0
SPECIFICATION Spec
PROPERTY BrokerGraceKept
