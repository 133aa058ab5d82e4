SPECIFICATION Spec
CONSTANTS
  Users = {"u1", "u2"}
  Nobody = Nobody
  None = None
  Names <- MCNames
  KindOf <- MCKindOf
  Types <- MCTypes
  General = "general"
  Sources <- MCSources
  OwnMail = "m1"
  PlanLimit = 4
  PromptLimit = 2
  MaxCycles = 2
  Capabilities <- MCCapabilities
  Policies <- MCPolicies
  Confidences = {80}
  Extracts <- MCExtracts
  Grounded <- MCGrounded
  MaxRuns = 2
  MaxCalls = 3
  MaxFaults = 1
INVARIANTS  RowsMatchState 
PROPERTIES ImplementsRun
CHECK_DEADLOCK FALSE
