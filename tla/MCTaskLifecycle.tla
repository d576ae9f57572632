-------------------------- MODULE MCTaskLifecycle --------------------------
(***************************************************************************)
(* Small instances of TaskLifecycle: each run takes the requests that its  *)
(* question needs.                                                         *)
(***************************************************************************)
EXTENDS TaskLifecycle, TLC

CONSTANTS a1, a2, v1, v2, c1, p1, f1, k1, x, y, w1, w2

NoAction == {}
OneAction == {a1}
SecondAction == {a2}
TwoActions == {a1, a2}
NoCheck == {}
OneCheck == {v1}
TwoChecks == {v1, v2}
NoCompletion == {}
OneCompletion == {c1}
NoApproval == {}
OnePlan == {p1}
OneFinal == {f1}
OneKind == {k1}
NoVerifier == {}
TwoVerifiers == {x, y}
OneWorkspace == {w1}
TwoWorkspaces == {w1, w2}

Workspaces == Permutations(TwoWorkspaces)
Symmetric == Permutations(TwoVerifiers) \cup Workspaces
=============================================================================
