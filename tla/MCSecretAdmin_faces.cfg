\* All faces: two operations that overlap, or three one by one edited by people,
\* or two with imports.
SPECIFICATION Spec
CONSTANTS
  Environments = {"prod", "dev"}
  Projects = {"shop", "lab"}
  Global = Global
  Placeholder = Placeholder
  Ops = {o1, o2, o3}
  Faces = {"cli", "webui", "mcp"}
  Regimes <- SomeRegimes
  Initial = Initial
  NoRecord = NoRecord
SYMMETRY Symmetry
INVARIANTS
  AgentContext
  HumanScreens
  HighKeysAreUsedAttended
  DowngradesAreAudited
PROPERTIES
  CriticalLoweredOnlyByApproval
  BrowserDeletesByApproval
  GuardedStaysIn
