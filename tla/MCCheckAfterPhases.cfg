SPECIFICATION Spec
CONSTANTS
    x = x  y = y
    Plan <- OnePhase
    MaxFailed = 2
    Verifier <- TwoVerifiers
    MaxLog = 10
    MaxAttempt = 2
    MaxAside = 1
PROPERTY OfferedCheckKeepsReadable
CHECK_DEADLOCK FALSE
