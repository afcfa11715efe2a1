\* Two variables, a provider that rotates twice, the two faces, four scopes.
SPECIFICATION Spec
CONSTANTS
  shop = shop
  db = db
  kv = kv
  Environments = {"prod", "dev", ""}
  Projects = {shop}
  Global = Global
  Placeholder = Placeholder
  Contracts <- SomeContracts
  Names = {db}
  Stock <- SomeStock
  References = {kv}
  MaxRotations = 2
  SessionScopes <- SomeScopes
  None = None
INVARIANTS
  ChildIsGated
  OneValuePerReference
  InvocationsAreAudited
  LogTellsTheChild
  SessionIsContained
  NoFallbackInProd
