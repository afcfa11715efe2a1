\* One writer at a time in each vault, any of which may be killed.
SPECIFICATION Spec
CONSTANTS
  w1 = w1
  w2 = w2
  w3 = w3
  d1 = d1
  NoFile = NoFile
  Writers = {w1, w2, w3}
  Deleters = {d1}
  Readers = {r1}
  Listers = {l1}
  VaultOf <- BothVaults
  Exclusive = TRUE
  Crashes = TRUE
INVARIANTS
  ReadableIsLastStored
  NothingLost
PROPERTIES
  ImplementsRecordStore
