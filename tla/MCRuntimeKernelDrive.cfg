\* Fallback chains of up to three candidates under the fairness of the thread,
\* with staged selections and checkpoints before the Turn.
CONSTANTS
    Agents = {a1}
    Nobody = Nobody
    Configs <- TwoConfigs
    CallIds <- OneCall
    FailureStages <- AllStages
    MaxChain = 2
    MaxTurns = 1
    MaxAttempts = 3
    MaxHead = 2
SPECIFICATION FairSpec
INVARIANTS AttemptsAreSafe
PROPERTIES StagedGoesToItsTurn DriveReturns
