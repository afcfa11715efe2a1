\* One of the owner's shells, two packages, a tick, two keys or salts.
SPECIFICATION Spec
CONSTANTS
  opened = opened
  guarded = guarded
  live = live
  Coordinates = {opened, guarded, live}
  Prod = {live}
  High = {guarded, live}
  Owners = {shell}
  MaxMaterial = 2
  Ttl = 0
  MaxPackages = 2
  MaxIdentities = 1
  Budgets <- SomeBudgets
  None = None
INVARIANTS
  ImportsAreSanctioned
  NothingIsStranded
PROPERTY
  UnforcedImportKeeps
CHECK_DEADLOCK FALSE
