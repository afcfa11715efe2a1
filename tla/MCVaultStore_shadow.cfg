\* A resolution while the project record is being rewritten.
SPECIFICATION Spec
CONSTANTS
  w1 = w1
  w2 = w2
  w3 = w3
  d1 = d1
  NoFile = NoFile
  Writers = {w1}
  Deleters = {d1}
  Readers = {r1}
  Listers = {}
  VaultOf <- OneVault
  Exclusive = TRUE
  Crashes = FALSE
INVARIANTS
  ShadowHolds
