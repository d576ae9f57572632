--------------------------- MODULE MCLedgerDamage ---------------------------
(***************************************************************************)
(* LedgerDamage for TLC: two instances, three events, an empty or a short  *)
(* old-format history, one loss.                                           *)
(***************************************************************************)
EXTENDS LedgerDamage, TLC

CONSTANTS w1, w2, e1, e2, e3

Writers == {w1, w2}
Events == {e1, e2, e3}
Histories == {<<>>, <<e1>>}
Symmetry == Permutations({w1, w2})
=============================================================================
