---------------------------- MODULE MCTaskPhases ----------------------------
(***************************************************************************)
(* Small instances of TaskPhases: a debugging phase, alone or before a fix *)
(* that needs an action and a check.                                       *)
(***************************************************************************)
EXTENDS TaskPhases, TLC

CONSTANTS x, y

Debug == [debugging |-> TRUE, action |-> FALSE, verification |-> FALSE, verdicts |-> 1]
Fix == [debugging |-> FALSE, action |-> TRUE, verification |-> TRUE, verdicts |-> 2]

OnePhase == <<Debug>>
TwoPhases == <<Debug, Fix>>
TwoVerifiers == {x, y}
Symmetric == Permutations(TwoVerifiers)
=============================================================================
