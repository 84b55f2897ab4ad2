CONSTANTS
  alice = alice
  bob = bob
  desk = desk
  Devices = {alice, bob}
  Hosts = {desk}
  Service = Service
  Fallback = Fallback
  Tools = {bob}
  Nowhere = Nowhere
  Nobody = Nobody
  MaxMoves = 3
  MaxOnWay = 2
SPECIFICATION Spec
INVARIANTS TypeOK ReachesChosen ListedServed
PROPERTY CatchesUp
CHECK_DEADLOCK FALSE
