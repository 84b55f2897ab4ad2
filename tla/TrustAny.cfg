CONSTANTS
  alice = alice
  bob = bob
  Damaged = Damaged
  Unsure = Unsure
  Peers = {alice, bob}
  MaxStores = 3
  MaxTime = 3
  MaxCalls = 2
SPECIFICATION Spec
SYMMETRY Symmetric
INVARIANTS TypeOK KeepsWord CacheFollows
CHECK_DEADLOCK FALSE
