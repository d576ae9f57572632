-------------------------- MODULE MCEvidenceLedger --------------------------
(***************************************************************************)
(* EvidenceLedger for TLC: instances and events are model values, and the  *)
(* ledger starts empty or on an old-format history of at most two events.  *)
(***************************************************************************)
EXTENDS EvidenceLedger, TLC

CONSTANTS w1, w2, e1, e2, e3, e4

Writers == {w1, w2}
Events == {e1, e2, e3, e4}
Histories == {<<>>, <<e1>>, <<e1, e2>>}

\* The writers are interchangeable (the events are not: histories name them).
Symmetry == Permutations({w1, w2})
=============================================================================
