\* Nodes that go down, come back and restart, and a mutation that is consumed.
CONSTANTS
  d1 = d1
  d2 = d2
  b1 = b1
  b2 = b2
  Defra = {d1, d2}
  Broker = {b1, b2}
  DefraSeeds <- MCDefraSeeds
  BrokerSeeds <- MCBrokerSeeds
  Peers <- MCPeers
  Colocated <- MCColocated
  i1 = i1
  i2 = i2
  i3 = i3
  Ids <- MCIds
  FirstId <- MCFirstId
  MaxOutages = 2
  Grace = 1
  MaxLog = 1
SPECIFICATION Spec
INVARIANTS TypeOK OneEntryPerAddress CountedOnce
PROPERTIES GraceKept DownIsShown
