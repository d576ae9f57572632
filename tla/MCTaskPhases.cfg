SPECIFICATION Spec
SYMMETRY Symmetric
CONSTANTS
    x = x  y = y
    Plan <- TwoPhases
    MaxFailed = 2
    Verifier <- TwoVerifiers
    MaxLog = 13
    MaxAttempt = 2
    MaxAside = 1
INVARIANTS
    TypeOK
    CitedIsRequired
    InterruptedBlockRecovers
    StreakBounded
    PhasesInOrder
PROPERTIES
    ApprovalLiftsItsOwnBlock
    BlockedPhaseStandsStill
    OnlyLateAnswersBreak
CHECK_DEADLOCK FALSE
