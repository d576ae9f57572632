SPECIFICATION Spec
CONSTANTS
    a1 = a1  a2 = a2  v1 = v1  v2 = v2  c1 = c1  p1 = p1  f1 = f1  k1 = k1
    x = x  y = y  w1 = w1  w2 = w2
    Action <- TwoActions
    Irreversible <- NoAction
    Check <- NoCheck
    Completion <- NoCompletion
    PlanApproval <- NoApproval
    FinalApproval <- NoApproval
    KindApproval <- NoApproval
    Verifier <- NoVerifier
    Vote = {"pass", "critical"}
    Workspace <- OneWorkspace
    ApprovalRequired = FALSE
INVARIANTS
    RetriesKeepTaskReadable
CHECK_DEADLOCK FALSE
