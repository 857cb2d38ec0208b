\* One Tool-using Turn and a successor: approvals that outlive their Turn,
\* crashes between effect and continuation, a fallback chain of two.
CONSTANTS
    Agents = {a1}
    Nobody = Nobody
    Configs <- OneConfig
    CallIds <- TwoCalls
    FailureStages <- TwoStages
    MaxChain = 1
    MaxTurns = 2
    MaxAttempts = 2
    MaxHead = 0
SPECIFICATION Spec
INVARIANTS FoldIsQuiescent
PROPERTIES OutputIsFinal
