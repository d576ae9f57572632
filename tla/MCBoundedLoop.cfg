SPECIFICATION Spec
CONSTANTS
    k1 = k1  k2 = k2  m1 = m1  v1 = v1  v2 = v2
    Contract <- Contracts
    Artifact <- OneArtifact
    Verifier <- TwoVerifiers
    Refusal = {"critical"}
    MinPasses = 2
    MaxEdits <- EditsOf
    MaxDecisions <- DecisionsOf
INVARIANTS
    TypeOK
PROPERTIES
    PassedIsReviewed
    ApproverSawWhatPasses
    CleanIterationPasses
    LoopKeepsToPolicy
    RunEnds
CHECK_DEADLOCK FALSE
