CONSTANTS
  old = old
  new = new
  unwritable = unwritable
  Settings = {old, new, unwritable}
  BadSettings = {unwritable}
  Default = old
  Damaged = Damaged
  MaxStarts = 4
SPECIFICATION Spec
INVARIANTS TypeOK OwnedOnly KeepsFingerprint NewestSettings
PROPERTY StartSucceeds
CHECK_DEADLOCK FALSE
