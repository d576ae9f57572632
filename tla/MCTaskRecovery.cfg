SPECIFICATION Spec
SYMMETRY Workspaces
CONSTANTS
    a1 = a1  a2 = a2  v1 = v1  v2 = v2  c1 = c1  p1 = p1  f1 = f1  k1 = k1
    x = x  y = y  w1 = w1  w2 = w2
    Action <- TwoActions
    Irreversible <- SecondAction
    Check <- OneCheck
    Completion <- NoCompletion
    PlanApproval <- OnePlan
    FinalApproval <- OneFinal
    KindApproval <- OneKind
    Verifier <- NoVerifier
    Vote = {"pass", "critical"}
    Workspace <- TwoWorkspaces
    ApprovalRequired = TRUE
INVARIANTS
    EffectAtMostOnce
    OneDecisionPerEffect
PROPERTIES
    OrphansBlockWork
