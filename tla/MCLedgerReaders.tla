--------------------------- MODULE MCLedgerReaders ---------------------------
(***************************************************************************)
(* Two instances that read and write, up to two appends, over a ledger     *)
(* that is new or holds one row of the older format: enough for a rotation *)
(* or two between any two steps of a read.                                 *)
(***************************************************************************)
EXTENDS LedgerReaders, TLC

CONSTANTS w1, w2, e1, e2

MCWriter == {w1, w2}
MCEvent == {e1, e2}
MCHistory == {<<>>, <<e1>>}

Symmetry == Permutations(MCWriter)
=============================================================================
