\* All faces, edits and deletes included.
SPECIFICATION Spec
CONSTANTS
  Environments = {"prod", "dev"}
  Projects = {"shop", "lab"}
  Global = Global
  Placeholder = Placeholder
  Ops = {o1}
  Faces = {"cli", "webui", "mcp"}
  Regimes <- SingleOperation
  Initial = Initial
  NoRecord = NoRecord
SYMMETRY Symmetry
INVARIANTS
  EveryFaceGates
