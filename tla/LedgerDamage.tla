---------------------------- MODULE LedgerDamage ----------------------------
(***************************************************************************)
(* The evidence ledger on files that lose data between operations: a row   *)
(* or the whole current file disappears (a restored backup, an edit by     *)
(* hand, a deleted segment), or the .head sidecar does.  The hash links    *)
(* and the tail anchor are there to notice (src/causality/ledger.py,       *)
(* _append_base_hash_locked and _verify_chain_locked).                     *)
(***************************************************************************)
EXTENDS EvidenceLedger

VARIABLES
    damaged,          \* an acknowledged row of an anchored ledger was lost
    tailLost          \* ... and it was the last one of the chain

damageVars == <<archived, seams, segment, torn, anchor, indexed, lock, pc, draft,
                base, cache, issued, acked, damaged, tailLost>>

Without(rows, k) == [i \in 1..(Len(rows) - 1) |-> IF i < k THEN rows[i] ELSE rows[i + 1]]

\* Losses strike one ledger once, between operations.  Only a version-1
\* anchor claims to notice them.
MayDamage ==
    /\ ~damaged
    /\ lock = Nobody
    /\ anchor.version = "v1"

LoseArchivedRow ==
    /\ MayDamage
    /\ \E k \in 1..Len(archived) :
        /\ archived' = Without(archived, k)
        /\ seams' = [n \in 1..Len(seams) |-> IF seams[n] >= k THEN seams[n] - 1 ELSE seams[n]]
        /\ tailLost' = (k = Len(Chain))
        /\ damaged' = TRUE
    /\ cache' = AllStale
    /\ UNCHANGED <<segment, torn, anchor, indexed, lock, pc, draft, base, issued, acked>>

\* A row that no caller was told about may vanish: it is not a loss.
LoseRow ==
    /\ MayDamage
    /\ \E k \in 1..Len(segment) :
        /\ segment[k].id \in acked
        /\ segment' = Without(segment, k)
        /\ tailLost' = (k = Len(segment))
    /\ damaged' = TRUE
    /\ cache' = AllStale
    /\ UNCHANGED <<archived, seams, torn, anchor, indexed, lock, pc, draft, base, issued, acked>>

LoseSegment ==
    /\ MayDamage
    /\ Ids(segment) \cap acked # {}
    /\ segment' = <<>>
    /\ torn' = FALSE
    /\ damaged' = TRUE
    /\ tailLost' = TRUE
    /\ cache' = AllStale
    /\ UNCHANGED <<archived, seams, anchor, indexed, lock, pc, draft, base, issued, acked>>

LoseHead ==
    /\ MayDamage
    /\ SomeRowAnchored \/ seams # <<>>
    /\ anchor' = [version |-> "none", committed |-> NoHash, pending |-> NoHash]
    /\ damaged' = TRUE
    /\ cache' = AllStale
    /\ UNCHANGED <<archived, seams, segment, torn, indexed, lock, pc, draft, base,
                   issued, acked, tailLost>>

DamageInit ==
    /\ Init
    /\ damaged = FALSE
    /\ tailLost = FALSE

DamageNext ==
    \/ Next /\ UNCHANGED <<damaged, tailLost>>
    \/ LoseArchivedRow
    \/ LoseRow
    \/ LoseSegment
    \/ LoseHead

DamageSpec == DamageInit /\ [][DamageNext]_damageVars

-----------------------------------------------------------------------------
\* Once an acknowledged row, a whole segment or the anchor of an anchored
\* ledger is lost, no recovery, append or rotation ever turns the files into
\* a chain that verifies again (_verify_chain_locked).
LossNeverBlessed == damaged => ~Verified

\* A ledger whose last rows are lost never grows again: append() notices
\* without parsing the chain, also when the rows were all of the current
\* segment and the anchor is all that is left to chain onto
\* (_append_base_hash_locked, the fast path's conditions).
TailLossStopsAppends == [][tailLost => Len(Chain') <= Len(Chain)]_damageVars
=============================================================================
