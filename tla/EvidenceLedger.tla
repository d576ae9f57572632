--------------------------- MODULE EvidenceLedger ---------------------------
(***************************************************************************)
(* The hash-chained evidence ledger of src/causality/ledger.py on top of   *)
(* the durable file helpers of src/causality/durable.py.                   *)
(*                                                                         *)
(* Disk.  The chain lives in sealed archives <path>.1, <path>.2, ... and   *)
(* in the current segment <path>; the sidecar <path>.head is the two-phase *)
(* anchor.  `archived' is the concatenation of the archives, `seams' the   *)
(* chain length at the end of each of them, `segment' the complete rows of *)
(* the current file and `torn' says that a partial row follows them.       *)
(*                                                                         *)
(* Writers.  A writer is one EvidenceLedger instance in one process.  All  *)
(* its disk writes happen under file_lock(path), one action per durable    *)
(* write, so that a crash (the process dies and loses its caches) or an    *)
(* I/O exception (the instance survives with its caches) can fall between  *)
(* any two of them.                                                        *)
(*                                                                         *)
(* Abstractions.  Hashes are collision free, so a row's entry_hash is its  *)
(* identity.  The stat token of the two files, which the code compares to  *)
(* decide whether a cached tail may be used, is the flag cache.synced:     *)
(* every write of either file clears it for every instance.                *)
(***************************************************************************)
EXTENDS Sequences, Naturals

CONSTANTS
    Writer,           \* ledger instances
    Event,            \* event identities; the hash of a row is its event
    History,          \* event sequences an older version may have left on disk
    NoHash,           \* Python's None as a hash
    Nobody            \* the lock is free

ASSUME NoHashAssumption == NoHash \notin Event
ASSUME NobodyAssumption == Nobody \notin Writer
ASSUME HistoryAssumption ==
    \A h \in History :
        /\ h \in Seq(Event)
        /\ \A i, j \in 1..Len(h) : h[i] = h[j] => i = j

VARIABLES
    archived, seams, segment, torn, anchor, indexed,    \* disk
    lock,                                               \* file_lock(path)
    pc, draft, base, cache,                             \* per writer
    issued,           \* event identities handed out by uuid4()
    acked             \* events whose append() returned

disk == <<archived, seams, segment, torn, anchor, indexed>>
vars == <<archived, seams, segment, torn, anchor, indexed,
          lock, pc, draft, base, cache, issued, acked>>

-----------------------------------------------------------------------------
Hash == Event \cup {NoHash}

\* A row: its identity, the hash it chains onto, and whether it was written
\* by the anchored format ("anchor_version": 1) or by the older one.
Row == [id : Event, prev : Hash, anchored : BOOLEAN]

\* "none": no .head file.  "legacy": a .head holding a bare hash (version 0).
Anchor == [version : {"none", "legacy", "v1"}, committed : Hash, pending : Hash]

Anchored(committed, pending) ==
    [version |-> "v1", committed |-> committed, pending |-> pending]

Chain == archived \o segment

Ids(rows) == {rows[i].id : i \in 1..Len(rows)}

TailHash(rows) == IF rows = <<>> THEN NoHash ELSE rows[Len(rows)].id

-----------------------------------------------------------------------------
\* _verify_chain_locked: the links of all segments, then the anchor.
Linked ==
    \A i \in 1..Len(Chain) :
        Chain[i].prev = IF i = 1 THEN NoHash ELSE Chain[i - 1].id

NoEmptyArchive ==
    \A k \in 1..Len(seams) : seams[k] > IF k = 1 THEN 0 ELSE seams[k - 1]

SomeRowAnchored == \E i \in 1..Len(Chain) : Chain[i].anchored

\* The crashed append wrote its row: fast-forward to it.
RollForward ==
    /\ Chain # <<>>
    /\ TailHash(Chain) = anchor.pending
    /\ Chain[Len(Chain)].prev = anchor.committed

\* Mutant: an intent is dropped whenever its row is not there.
RollBackWithoutTail == anchor.pending \notin Ids(Chain)

\* The crashed append did not write its row: drop the intent.
RollBack ==
    /\ TailHash(Chain) = anchor.committed
    /\ anchor.pending \notin Ids(Chain)

Verified ==
    /\ Linked
    /\ NoEmptyArchive
    /\ CASE anchor.version = "none"   -> seams = <<>> /\ ~SomeRowAnchored
         [] anchor.version = "legacy" -> /\ seams # <<>>
                                         /\ anchor.committed = TailHash(archived)
                                         /\ ~SomeRowAnchored
         [] anchor.version = "v1" /\ anchor.pending = NoHash ->
                anchor.committed = TailHash(Chain)
         [] OTHER -> RollForward \/ RollBack

\* Verification rewrites the anchor when it migrates or recovers it.
Repairs == anchor.version = "legacy" \/ anchor.pending # NoHash

RepairedAnchor == IF Repairs THEN Anchored(TailHash(Chain), NoHash) ELSE anchor

-----------------------------------------------------------------------------
\* Per-instance cache of the chain tail, valid while the stat token is.
ColdCache == [tail |-> NoHash, hasEvents |-> FALSE, synced |-> FALSE]

Cache == [tail : Hash, hasEvents : BOOLEAN, synced : BOOLEAN]

\* Mutant: the size guard is gone, an instance trusts its cache for ever.
AllStaleWithoutGuard == cache

\* A write of <path> or <path>.head changes the token, so that no instance
\* uses what it remembered any more.
AllStale == [v \in Writer |-> ColdCache]

\* latest_hash(): what it reads from disk when the token does not match.
\* With an empty current segment the tail is the anchor's committed hash; a
\* torn file never validates the token.
ReadTail(a) == IF segment # <<>> THEN TailHash(segment) ELSE a.committed

FreshCache(a) ==
    [tail |-> ReadTail(a), hasEvents |-> segment # <<>>, synced |-> ~torn]

Remembered(c) == IF c.synced THEN c ELSE ColdCache

LatestCache(w) == IF cache[w].synced THEN cache[w] ELSE FreshCache(anchor)

\* Mutant: the anchor alone is believed when the current segment is empty.
FastPathOnAnchorAlone(w) ==
    /\ anchor.version = "v1"
    /\ anchor.pending = NoHash
    /\ anchor.committed = LatestCache(w).tail

\* _append_base_hash_locked accepts the tail without a full verification.
FastPath(w) ==
    /\ anchor.version = "v1"
    /\ anchor.pending = NoHash
    /\ anchor.committed = LatestCache(w).tail
    /\ LatestCache(w).tail = NoHash \/ LatestCache(w).hasEvents

-----------------------------------------------------------------------------
\* Rows of the older format: chained, without "anchor_version".
OldRows(h) ==
    [i \in 1..Len(h) |-> [id |-> h[i], prev |-> IF i = 1 THEN NoHash ELSE h[i - 1],
                          anchored |-> FALSE]]

\* The ledger is opened on nothing, on an unrotated file of the old format
\* (k = 0), or on an old-format ledger that was rotated after k rows, whose
\* .head is a bare hash.
OldHistory ==
    \E h \in History : \E k \in 0..Len(h) :
        /\ archived = SubSeq(OldRows(h), 1, k)
        /\ segment = SubSeq(OldRows(h), k + 1, Len(h))
        /\ seams = IF k = 0 THEN <<>> ELSE <<k>>
        /\ anchor = [version |-> IF k = 0 THEN "none" ELSE "legacy",
                     committed |-> IF k = 0 THEN NoHash ELSE h[k],
                     pending |-> NoHash]

Start ==
    /\ torn = FALSE
    /\ indexed = {}
    /\ lock = Nobody
    /\ pc = [w \in Writer |-> "idle"]
    /\ draft = [w \in Writer |-> NoHash]
    /\ base = [w \in Writer |-> NoHash]
    /\ cache = [w \in Writer |-> ColdCache]
    /\ issued = Ids(Chain)
    /\ acked = Ids(Chain)

Init == OldHistory /\ Start

-----------------------------------------------------------------------------
Acquire(w, step) ==
    /\ lock = Nobody
    /\ pc[w] = "idle"
    /\ lock' = w
    /\ pc' = [pc EXCEPT ![w] = step]

Goto(w, step) == pc' = [pc EXCEPT ![w] = step] /\ UNCHANGED lock

\* The operation returns or raises: the lock is free, its locals are gone.
Release(w) ==
    /\ pc' = [pc EXCEPT ![w] = "idle"]
    /\ lock' = Nobody
    /\ draft' = [draft EXCEPT ![w] = NoHash]
    /\ base' = [base EXCEPT ![w] = NoHash]

\* append(): the row gets its event_id under the lock.
BeginAppend(w, e) ==
    /\ e \notin issued
    /\ Acquire(w, "base")
    /\ draft' = [draft EXCEPT ![w] = e]
    /\ issued' = issued \cup {e}
    /\ UNCHANGED <<disk, base, cache, acked>>

\* The anchor agrees with the tail: no parse of the whole chain.
TrustTail(w) ==
    /\ pc[w] = "base"
    /\ FastPath(w)
    /\ base' = [base EXCEPT ![w] = LatestCache(w).tail]
    /\ cache' = [cache EXCEPT ![w] = Remembered(LatestCache(w))]
    /\ Goto(w, "intent")
    /\ UNCHANGED <<disk, draft, issued, acked>>

\* The verified chain's tail, the anchor being migrated or recovered.
ExtendVerified(w) ==
    /\ anchor' = RepairedAnchor
    /\ LET latest == IF Repairs THEN FreshCache(RepairedAnchor) ELSE LatestCache(w)
       IN  /\ base' = [base EXCEPT ![w] = latest.tail]
           /\ cache' = [(IF Repairs THEN AllStale ELSE cache) EXCEPT ![w] = Remembered(latest)]
    /\ Goto(w, "intent")
    /\ UNCHANGED draft

\* "cannot append to an invalid ledger chain"
RefuseInvalid(w) ==
    /\ cache' = [cache EXCEPT ![w] = Remembered(LatestCache(w))]
    /\ Release(w)
    /\ UNCHANGED anchor

\* Otherwise the chain is verified, recovering a crashed append on the way.
VerifyTail(w) ==
    /\ pc[w] = "base"
    /\ ~FastPath(w)
    /\ IF Verified THEN ExtendVerified(w) ELSE RefuseInvalid(w)
    /\ UNCHANGED <<archived, seams, segment, torn, indexed, issued, acked>>

\* Mutant: a single-phase anchor, committed before the row is written.
WriteAnchorOnce(w) ==
    /\ pc[w] = "intent"
    /\ anchor' = Anchored(draft[w], NoHash)
    /\ cache' = AllStale
    /\ Goto(w, "row")
    /\ UNCHANGED <<archived, seams, segment, torn, indexed, draft, base, issued, acked>>

\* First phase of the anchor: committed stays, pending names the new row.
WriteIntent(w) ==
    /\ pc[w] = "intent"
    /\ anchor' = Anchored(base[w], draft[w])
    /\ cache' = AllStale
    /\ Goto(w, "row")
    /\ UNCHANGED <<archived, seams, segment, torn, indexed, draft, base, issued, acked>>

\* Mutant: the cut is one newline too far to the left.
RepairCutsLastRow(w) ==
    /\ pc[w] = "row"
    /\ torn
    /\ torn' = FALSE
    /\ segment' = IF segment = <<>> THEN segment ELSE SubSeq(segment, 1, Len(segment) - 1)
    /\ cache' = AllStale
    /\ UNCHANGED <<archived, seams, anchor, indexed,
                   lock, pc, draft, base, issued, acked>>

\* DurableJsonl.append: a torn tail is cut off by an atomic rewrite first.
RepairTornTail(w) ==
    /\ pc[w] = "row"
    /\ torn
    /\ torn' = FALSE
    /\ cache' = AllStale
    /\ UNCHANGED <<archived, seams, segment, anchor, indexed,
                   lock, pc, draft, base, issued, acked>>

NewRow(w) == [id |-> draft[w], prev |-> base[w], anchored |-> TRUE]

WriteRow(w) ==
    /\ pc[w] = "row"
    /\ ~torn
    /\ segment' = Append(segment, NewRow(w))
    /\ cache' = AllStale
    /\ Goto(w, "commit")
    /\ UNCHANGED <<archived, seams, torn, anchor, indexed, draft, base, issued, acked>>

\* Mutant: the second phase forgets which row it was for.
CommitForgetsDraft(w) ==
    /\ pc[w] = "commit"
    /\ anchor' = Anchored(draft[w], NoHash)
    /\ draft' = [draft EXCEPT ![w] = NoHash]
    /\ cache' = AllStale
    /\ Goto(w, "return")
    /\ UNCHANGED <<archived, seams, segment, torn, indexed, base, issued, acked>>

\* Second phase of the anchor; the instance now knows the tail.
CommitAnchor(w) ==
    /\ pc[w] = "commit"
    /\ anchor' = Anchored(draft[w], NoHash)
    /\ cache' = [AllStale EXCEPT
                    ![w] = [tail |-> draft[w], hasEvents |-> TRUE, synced |-> TRUE]]
    /\ Goto(w, "return")
    /\ UNCHANGED <<archived, seams, segment, torn, indexed, draft, base, issued, acked>>

ReturnAppend(w) ==
    /\ pc[w] = "return"
    /\ acked' = acked \cup {draft[w]}
    /\ Release(w)
    /\ UNCHANGED <<disk, cache, issued>>

-----------------------------------------------------------------------------
\* verify_chain(): lock, verify, repair the anchor if need be, unlock.
VerifyChain(w) ==
    /\ lock = Nobody
    /\ pc[w] = "idle"
    /\ Verified
    /\ Repairs
    /\ anchor' = RepairedAnchor
    /\ cache' = AllStale
    /\ UNCHANGED <<archived, seams, segment, torn, indexed,
                   lock, pc, draft, base, issued, acked>>

\* rotate()
BeginRotate(w) ==
    /\ Acquire(w, "seal")
    /\ UNCHANGED <<disk, draft, base, cache, issued, acked>>

\* An invalid chain, a torn or an empty current segment is not sealed;
\* verification may still have repaired the anchor.
RefuseSeal(w) ==
    /\ pc[w] = "seal"
    /\ ~Verified \/ torn \/ segment = <<>>
    /\ anchor' = IF Verified THEN RepairedAnchor ELSE anchor
    /\ cache' = IF Verified /\ Repairs THEN AllStale ELSE cache
    /\ Release(w)
    /\ UNCHANGED <<archived, seams, segment, torn, indexed, issued, acked>>

\* The tail is anchored before the file is renamed away.
SealAnchor(w) ==
    /\ pc[w] = "seal"
    /\ Verified
    /\ ~torn
    /\ segment # <<>>
    /\ anchor' = Anchored(TailHash(segment), NoHash)
    /\ cache' = AllStale
    /\ Goto(w, "rename")
    /\ UNCHANGED <<archived, seams, segment, torn, indexed, draft, base, issued, acked>>

\* Mutant: the new archive takes the number of the last one and replaces it.
RenameOverLastArchive(w) ==
    /\ pc[w] = "rename"
    /\ LET kept == IF Len(seams) < 2 THEN 0 ELSE seams[Len(seams) - 1]
       IN  /\ archived' = SubSeq(archived, 1, kept) \o segment
           /\ seams' = Append(SubSeq(seams, 1, Len(seams) - 1), kept + Len(segment))
    /\ segment' = <<>>
    /\ cache' = AllStale
    /\ Goto(w, "index")
    /\ UNCHANGED <<torn, anchor, indexed, draft, base, issued, acked>>

RenameSegment(w) ==
    /\ pc[w] = "rename"
    /\ archived' = Chain
    /\ seams' = Append(seams, Len(Chain))
    /\ segment' = <<>>
    /\ cache' = AllStale
    /\ Goto(w, "index")
    /\ UNCHANGED <<torn, anchor, indexed, draft, base, issued, acked>>

\* The offset index is advisory: a crash may leave an archive without one.
BuildIndex(w) ==
    /\ pc[w] = "index"
    /\ indexed' = indexed \cup {Len(seams)}
    /\ cache' = [cache EXCEPT ![w] = ColdCache]
    /\ Release(w)
    /\ UNCHANGED <<archived, seams, segment, torn, anchor, issued, acked>>

-----------------------------------------------------------------------------
\* The operation ends here: the process dies (its caches with it) or an I/O
\* error propagates (the instance, caches included, lives on).  The kernel
\* or the context manager releases the lock.
Abandon(w) ==
    /\ Release(w)
    /\ UNCHANGED <<issued, acked>>

Interrupt(w) ==
    /\ pc[w] # "idle"
    /\ cache' \in {cache, [cache EXCEPT ![w] = ColdCache]}
    /\ Abandon(w)
    /\ UNCHANGED disk

\* Only part of the row reached the file.
TearRow(w) ==
    /\ pc[w] = "row"
    /\ ~torn
    /\ torn' = TRUE
    /\ cache' = AllStale
    /\ Abandon(w)
    /\ UNCHANGED <<archived, seams, segment, anchor, indexed>>

Next ==
    \E w \in Writer :
        \/ \E e \in Event : BeginAppend(w, e)
        \/ TrustTail(w) \/ VerifyTail(w)
        \/ WriteIntent(w) \/ RepairTornTail(w) \/ WriteRow(w)
        \/ CommitAnchor(w) \/ ReturnAppend(w)
        \/ VerifyChain(w)
        \/ BeginRotate(w) \/ RefuseSeal(w) \/ SealAnchor(w)
        \/ RenameSegment(w) \/ BuildIndex(w)
        \/ Interrupt(w) \/ TearRow(w)

Spec == Init /\ [][Next]_vars

-----------------------------------------------------------------------------
(***************************************************************************)
(* Properties.                                                             *)
(***************************************************************************)

TypeOK ==
    /\ archived \in Seq(Row)
    /\ segment \in Seq(Row)
    /\ seams \in Seq(Nat)
    /\ torn \in BOOLEAN
    /\ anchor \in Anchor
    /\ indexed \subseteq Nat
    /\ lock \in Writer \cup {Nobody}
    /\ pc \in [Writer -> {"idle", "base", "intent", "row", "commit", "return",
                          "seal", "rename", "index"}]
    /\ draft \in [Writer -> Hash]
    /\ base \in [Writer -> Hash]
    /\ cache \in [Writer -> Cache]
    /\ issued \subseteq Event
    /\ acked \subseteq Event

\* Whatever crash or failed write happened, at any point of an append, a
\* verification or a rotation, the files left behind verify: no interruption
\* turns the ledger into one that refuses every later append
\* (_verify_chain_locked, _append_base_hash_locked).
AlwaysVerifiable == Verified

\* The tail an instance remembers under an unchanged stat token is the one a
\* reader of the files would compute (latest_hash): the cache never lets an
\* append chain onto an old tail, whoever wrote in between.
WarmTailIsDiskTail ==
    \A w \in Writer :
        cache[w].synced =>
            /\ cache[w].tail = ReadTail(anchor)
            /\ cache[w].hasEvents = (segment # <<>>)

\* The chain is an append-only log that holds everything acknowledged: the
\* lock, the two-phase anchor and the torn-tail repair together implement
\* EvidenceLog, an append taking effect when its row is complete on disk.
Log == INSTANCE EvidenceLog WITH
           log <- [i \in 1..Len(Chain) |-> Chain[i].id]

ImplementsLog == Log!Spec

\* An append whose caller saw it succeed is never rolled back (append,
\* rotate, verify_chain).
AckedDurable == acked \subseteq Ids(Chain)
=============================================================================
