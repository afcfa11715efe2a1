\* One project, the same sessions: where the values come from.
SPECIFICATION Spec
CONSTANTS
  shop = shop
  db = db
  kv = kv
  Environments = {"prod", "dev", ""}
  Projects = {shop}
  Global = Global
  Placeholder = Placeholder
  Contracts <- SomeContracts
  Names = {db}
  Stock <- SomeStock
  References = {kv}
  MaxRotations = 0
  SessionScopes <- SomeScopes
  None = None
INVARIANT
  ScopeContainment
