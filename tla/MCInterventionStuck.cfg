SPECIFICATION Spec
CONSTANTS
    a1 = a1  a2 = a2  v1 = v1  v2 = v2  c1 = c1  p1 = p1  f1 = f1  k1 = k1
    x = x  y = y  w1 = w1  w2 = w2
    Action <- NoAction
    Irreversible <- NoAction
    Check <- OneCheck
    Completion <- OneCompletion
    PlanApproval <- OnePlan
    FinalApproval <- OneFinal
    KindApproval <- OneKind
    Verifier <- TwoVerifiers
    Vote = {"pass", "critical"}
    Workspace <- OneWorkspace
    ApprovalRequired = TRUE
INVARIANTS
    InterventionIsRetryable
CHECK_DEADLOCK FALSE
