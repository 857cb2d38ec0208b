SPECIFICATION MCSpec
CONSTANTS
  i1 = i1
  i2 = i2
  alice = alice
  bob = bob
  read = read
  write = write
  cap = cap
  Identities = {i1, i2}
  Agents = {alice, bob}
  Payloads = {read, write}
  Caps = {cap}
  Needs <- MCNeeds
  CapsOf <- MCCapsOf
  MaxCalls = 2
  Scenarios <- MCScenarios
  Message = 3
  MaxOutput = 3
  PipeSize = 2
  \* ContextView
  MaxViewItems = 4
  MaxViewBytes = 9
  TokenBytes = 4
  TextSizes = {1, 5, 10}
  DefaultPolicy <- MCDefaultPolicy
  ChosenPolicies <- MCPolicies
  PressureInputs <- MCPressures
  SoftPercent = 65
  HardPercent = 90
  MaxTokenSum = 20
  MaxTurnItems = 5
CHECK_DEADLOCK FALSE
INVARIANTS AtMostOnce OutcomeIsReported EffectsAreSettled ContextIsFaithful
PROPERTIES ExecutionReturns
