CONSTANTS
  u1 = u1
  u2 = u2
  u3 = u3
  User = User
  Uploads = {u1, u2, u3}
  NameOf <- Named
  Kept <- There
  Droppers = {u1, u2, u3}
SPECIFICATION Spec
INVARIANTS TypeOK NoOverwrite KeptWhole NoRemains
CHECK_DEADLOCK FALSE
