CONSTANTS
  alice = alice
  bob = bob
  i1 = i1
  i2 = i2
  Absent = Absent
  Peers = {alice, bob}
  Infos = {i1, i2}
  Emitters = {"read", "prune"}
  Capacity = 2
SPECIFICATION ListSpec
INVARIANTS ListTypeOK UpToDate
