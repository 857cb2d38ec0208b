SPECIFICATION Spec
CONSTANTS
    CallId = {1}
    Args = {"a", "b"}
    MaxActive = 1
    MaxAgents = 2
    MaxTurns = 1
    MaxCalls = 1
    MaxOperations = 2
    ConfigValue <- MCConfigValue
    MaxRevision = 1
    Observed = {}
    MaxCrashes = 1
INVARIANT EffectsWereReviewed
INVARIANT PendingTurnOwnerIsActive
INVARIANT ClosedWasSeen
