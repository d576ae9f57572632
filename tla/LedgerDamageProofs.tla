------------------------- MODULE LedgerDamageProofs -------------------------
(***************************************************************************)
(* Proofs about LedgerDamage for any number of instances and events, and   *)
(* a loss at any moment between operations: a loss is never blessed, and a *)
(* ledger that lost its tail never grows again.                            *)
(*                                                                         *)
(* Up to the loss the invariant of EvidenceLedgerProofs holds, with three  *)
(* facts about what an interrupted append leaves.  From the loss on either *)
(* the links are broken, for good, or the files are frozen.                *)
(***************************************************************************)
EXTENDS LedgerDamage, EvidenceLedgerProofs

\* No event is in the chain twice.
DistinctIds == \A i, j \in 1..Len(Chain) : Chain[i].id = Chain[j].id => i = j

\* The append that the anchor is in doubt about was acknowledged to nobody,
\* and if its row is there, it is in the current segment.
DoubtInv ==
    InDoubt => /\ anchor.pending \notin acked
               /\ RollForward => segment # <<>>

\* An append that is about to return has settled the anchor.
ReturnInv == \A w \in Writer : pc[w] = "return" => anchor.pending = NoHash

Intact == IInv /\ DistinctIds /\ DoubtInv /\ ReturnInv

\* append() cannot take the fast path.
TailRejected ==
    ~ /\ anchor.version = "v1"
      /\ anchor.pending = NoHash
      /\ anchor.committed = ReadTail(anchor)
      /\ ReadTail(anchor) = NoHash \/ segment # <<>>

\* Nobody can get as far as a write.
Frozen ==
    /\ ~Verified
    /\ TailRejected
    /\ \A w \in Writer : pc[w] \in {"idle", "base", "seal"}
    /\ \A w \in Writer : cache[w].synced => cache[w] = FreshCache(anchor)

DamageInv ==
    /\ WriterType /\ DraftIsEvent
    /\ ~damaged => Intact /\ ~tailLost
    /\ damaged => ~Linked \/ Frozen
    /\ tailLost => Frozen

-----------------------------------------------------------------------------
(* Rows.                                                                   *)

LEMMA ChainRows ==
    ASSUME archived \in Seq(Row), segment \in Seq(Row)
    PROVE  /\ Chain \in Seq(Row)
           /\ Len(Chain) = Len(archived) + Len(segment)
           /\ Len(archived) \in Nat /\ Len(segment) \in Nat
           /\ \A i \in 1..Len(archived) : Chain[i] = archived[i]
           /\ \A j \in 1..Len(segment) : Chain[Len(archived) + j] = segment[j]
           /\ \A i \in 1..Len(Chain) : Chain[i] \in Row /\ Chain[i].id \in Event
                                       /\ Chain[i].id # NoHash
<1>1. /\ Chain \in Seq(Row)
      /\ Len(Chain) = Len(archived) + Len(segment)
      /\ Len(archived) \in Nat /\ Len(segment) \in Nat
      /\ \A i \in 1..Len(archived) + Len(segment) :
            Chain[i] = IF i <= Len(archived) THEN archived[i] ELSE segment[i - Len(archived)]
  BY ConcatProperties DEF Chain
<1>2. \A i \in 1..Len(Chain) : Chain[i] \in Row
  BY <1>1, ElementOfSeq
<1>3. \A row \in Row : row.id \in Event /\ row.id # NoHash
  BY NoHashAssumption DEF Row
<1>4. \A i \in 1..Len(archived) : Chain[i] = archived[i]
  BY <1>1
<1>5. \A j \in 1..Len(segment) : Chain[Len(archived) + j] = segment[j]
  BY <1>1
<1>6. QED
  BY <1>1, <1>2, <1>3, <1>4, <1>5

LEMMA WithoutRow ==
    ASSUME NEW rows \in Seq(Row), NEW k \in 1..Len(rows)
    PROVE  /\ Without(rows, k) \in Seq(Row)
           /\ Len(Without(rows, k)) = Len(rows) - 1
           /\ \A i \in 1..(Len(rows) - 1) :
                  Without(rows, k)[i] = IF i < k THEN rows[i] ELSE rows[i + 1]
<1>1. Len(rows) \in Nat /\ Len(rows) - 1 \in Nat
  OBVIOUS
<1>2. ASSUME NEW i \in 1..(Len(rows) - 1)
      PROVE  (IF i < k THEN rows[i] ELSE rows[i + 1]) \in Row
  <2>1. i \in 1..Len(rows) /\ i + 1 \in 1..Len(rows)
    BY <1>1
  <2>2. QED
    BY <2>1, ElementOfSeq
<1>3. QED
  BY <1>1, <1>2 DEF Without

\* A row in the middle is missed by the row after it.
LEMMA LostMiddle ==
    ASSUME Chain \in Seq(Row), Linked, DistinctIds,
           \A i \in 1..Len(Chain) : Chain[i].id # NoHash,
           NEW k \in 1..Len(Chain), k # Len(Chain), Chain' = Without(Chain, k)
    PROVE  ~Linked'
<1>1. Len(Chain) \in Nat /\ k + 1 \in 1..Len(Chain) /\ k \in 1..(Len(Chain) - 1)
  OBVIOUS
<1>2. Len(Chain') = Len(Chain) - 1 /\ Chain'[k] = Chain[k + 1]
      /\ (k # 1 => Chain'[k - 1] = Chain[k - 1])
  BY <1>1, WithoutRow
<1>3. Chain'[k].prev = Chain[k].id
  BY <1>1, <1>2 DEF Linked
<1>4. SUFFICES ASSUME Linked' PROVE FALSE
  OBVIOUS
<1>5. Chain'[k].prev = IF k = 1 THEN NoHash ELSE Chain'[k - 1].id
  BY <1>1, <1>2, <1>4 DEF Linked
<1>6. CASE k = 1
  BY <1>3, <1>5, <1>6
<1>7. CASE k # 1
  <2>1. Chain[k].id = Chain[k - 1].id /\ k - 1 \in 1..Len(Chain)
    BY <1>1, <1>2, <1>3, <1>5, <1>7
  <2>2. QED
    BY <2>1 DEF DistinctIds
<1>8. QED
  BY <1>6, <1>7

\* The last row is missed by the anchor.
LEMMA LostTail ==
    ASSUME Chain \in Seq(Row), DistinctIds, Chain # <<>>,
           \A i \in 1..Len(Chain) : Chain[i].id # NoHash,
           Chain' = Without(Chain, Len(Chain))
    PROVE  /\ TailHash(Chain') # TailHash(Chain) /\ TailHash(Chain) # NoHash
           /\ Ids(Chain') \subseteq Ids(Chain)
<1>1. Len(Chain) \in Nat /\ Len(Chain) \in 1..Len(Chain)
  BY EmptySeq
<1>2. /\ Len(Chain') = Len(Chain) - 1 /\ Chain' \in Seq(Row)
      /\ \A i \in 1..(Len(Chain) - 1) : Chain'[i] = Chain[i]
  BY <1>1, WithoutRow
<1>3. TailHash(Chain) = Chain[Len(Chain)].id /\ TailHash(Chain) # NoHash
  BY <1>1 DEF TailHash
<1>4. Ids(Chain') \subseteq Ids(Chain)
  BY <1>1, <1>2 DEF Ids
<1>5. TailHash(Chain') # TailHash(Chain)
  <2>1. CASE Chain' = <<>>
    BY <1>3, <2>1 DEF TailHash
  <2>2. CASE Chain' # <<>>
    <3>1. Len(Chain') \in 1..(Len(Chain) - 1)
      BY <1>1, <1>2, <2>2, EmptySeq
    <3>2. TailHash(Chain') = Chain[Len(Chain) - 1].id
      BY <1>2, <2>2, <3>1 DEF TailHash
    <3>3. QED
      BY <1>1, <1>2, <1>3, <3>1, <3>2 DEF DistinctIds
  <2>3. QED
    BY <2>1, <2>2
<1>6. QED
  BY <1>3, <1>4, <1>5
-----------------------------------------------------------------------------
(* Up to the loss.                                                         *)

LEMMA DistinctKept ==
    ASSUME IInv, DistinctIds, NEW w \in Writer, WriterAction(w)
    PROVE  DistinctIds'
<1>1. CASE UNCHANGED <<archived, segment>>
  BY <1>1, SameRows DEF DistinctIds
<1>2. CASE AddsRow(w)
  <2>1. WriteRow(w)
    BY <1>2 DEF AddsRow, WriterAction, BeginAppend, TrustTail, VerifyTail, WriteIntent,
                RepairTornTail, CommitAnchor, ReturnAppend, VerifyChain, BeginRotate,
                RefuseSeal, SealAnchor, RenameSegment, BuildIndex, Interrupt, TearRow,
                Acquire, Goto, Release, Abandon, IInv, TypeOK
  <2>2. /\ Chain' = Append(Chain, NewRow(w)) /\ NewRow(w).id \notin Ids(Chain)
        /\ NewRow(w) \in Row /\ Chain \in Seq(Row)
    BY <2>1, WriteRowAppends, ChainRows DEF NewRow, IInv, TypeOK
  <2>3. /\ Len(Chain') = Len(Chain) + 1 /\ Len(Chain) \in Nat
        /\ \A i \in 1..Len(Chain) : Chain'[i] = Chain[i] /\ Chain[i].id # NewRow(w).id
        /\ Chain'[Len(Chain) + 1] = NewRow(w)
    BY <2>2 DEF Ids
  <2>4. QED
    BY <2>3 DEF DistinctIds
<1>3. CASE SealsRows(w)
  <2>1. Chain' = Chain
    <3>1. Chain' = Chain \o <<>> /\ Chain \in Seq(Row)
      BY <1>3, ChainRows DEF SealsRows, Chain, IInv, TypeOK
    <3>2. QED
      BY <3>1, ConcatEmptySeq
  <2>2. QED
    BY <2>1 DEF DistinctIds
<1>4. QED
  BY <1>1, <1>2, <1>3, RowsOfStep

\* An interrupted append is either undone in the chain or found in the current
\* segment, and its caller knows nothing of it.
LEMMA DoubtKept ==
    ASSUME Intact, NEW w \in Writer, WriterAction(w)
    PROVE  DoubtInv'
<1> USE DEF Intact, Goto, disk
<1>1. CASE /\ UNCHANGED <<archived, segment, anchor, acked>>
  <2>1. InDoubt' = InDoubt /\ RollForward' = RollForward
    BY <1>1 DEF InDoubt, RollForward, Chain, TailHash
  <2>2. QED
    BY <1>1, <2>1 DEF DoubtInv
<1>2. CASE anchor'.pending = NoHash
  BY <1>2 DEF DoubtInv, InDoubt
<1>3. CASE WriteIntent(w)
  <2>1. /\ anchor'.pending = draft[w] /\ draft[w] \notin Ids(Chain)
        /\ acked' = acked /\ acked \subseteq Ids(Chain) /\ UNCHANGED <<archived, segment>>
    BY <1>3 DEF WriteIntent, Anchored, IInv, DraftInv, ChainInv
  <2>2. Chain' = Chain /\ (Chain # <<>> => TailHash(Chain) \in Ids(Chain))
    BY <2>1, ChainRows, TailHashType, SameRows DEF IInv, TypeOK
  <2>3. ~RollForward'
    BY <2>1, <2>2 DEF RollForward
  <2>4. QED
    BY <2>1, <2>3 DEF DoubtInv
<1>4. CASE WriteRow(w)
  <2>1. /\ anchor' = Anchored(base[w], draft[w]) /\ acked' = acked
        /\ draft[w] \notin Ids(Chain) /\ NewRow(w) \in Row
        /\ segment' = Append(segment, NewRow(w))
    BY <1>4, WriteRowAppends DEF WriteRow
  <2>2. segment' # <<>>
    BY <2>1, AppendRow DEF IInv, TypeOK
  <2>3. anchor'.pending \notin acked'
    BY <2>1 DEF Anchored, IInv, ChainInv
  <2>4. QED
    BY <2>2, <2>3 DEF DoubtInv
<1>5. CASE VerifyTail(w) \/ VerifyChain(w) \/ RefuseSeal(w)
  <2>1. anchor' = RepairedAnchor
    BY <1>5, InvariantVerifies DEF VerifyTail, ExtendVerified, VerifyChain, RefuseSeal
  <2>2. QED
    BY <1>2, <2>1, RepairSettles
<1>6. CASE SealAnchor(w) \/ CommitAnchor(w)
  BY <1>2, <1>6 DEF SealAnchor, CommitAnchor, Anchored
<1>7. CASE ReturnAppend(w)
  BY <1>2, <1>7 DEF ReturnAppend, ReturnInv
<1>8. CASE RenameSegment(w)
  BY <1>2, <1>8 DEF RenameSegment, IInv, SealInv, Anchored
<1>9. CASE (\E e \in Event : BeginAppend(w, e)) \/ TrustTail(w) \/ RepairTornTail(w)
           \/ BeginRotate(w) \/ BuildIndex(w) \/ Interrupt(w) \/ TearRow(w)
  BY <1>1, <1>9 DEF BeginAppend, TrustTail, RepairTornTail, BeginRotate, BuildIndex,
                    Interrupt, TearRow, Abandon
<1>10. QED
  BY <1>3, <1>4, <1>5, <1>6, <1>7, <1>8, <1>9 DEF WriterAction

LEMMA ReturnKept ==
    ASSUME Intact, WriterType, NEW w \in Writer, WriterAction(w)
    PROVE  ReturnInv'
<1> USE DEF Intact
<1>1. \A v \in Writer : v # w => pc'[v] = "idle"
  BY LockOfStep, NobodyAssumption DEF LockStep, WriterType, IInv, LockInv
<1>2. pc'[w] = "return" => CommitAnchor(w)
  <2>1. ASSUME NEW e \in Event, BeginAppend(w, e)
        PROVE  pc'[w] = "base"
    BY <2>1 DEF BeginAppend, Acquire, WriterType
  <2>2. QED
    BY <2>1, OneHolder
       DEF WriterAction, TrustTail, VerifyTail, ExtendVerified, RefuseInvalid, WriteIntent,
           RepairTornTail, WriteRow, ReturnAppend, VerifyChain, BeginRotate, RefuseSeal,
           SealAnchor, RenameSegment, BuildIndex, Interrupt, TearRow, Acquire, Goto,
           Release, Abandon, WriterType
<1>3. CommitAnchor(w) => anchor'.pending = NoHash
  BY DEF CommitAnchor, Anchored
<1>4. QED
  BY <1>1, <1>2, <1>3 DEF ReturnInv

LEMMA IntactKept ==
    ASSUME Intact, WriterType, NEW w \in Writer, WriterAction(w)
    PROVE  Intact'
<1>1. IInv'
  <2>1. Next
    BY DEF WriterAction, Next
  <2>2. QED
    BY <2>1, StepKeepsInvariant DEF Intact
<1>2. QED
  BY <1>1, DistinctKept, DoubtKept, ReturnKept DEF Intact

-----------------------------------------------------------------------------
(* After the loss.                                                         *)

\* Rows are only ever added behind a broken link.
LEMMA BrokenStaysBroken ==
    ASSUME WriterType, DraftIsEvent, ~Linked, NEW w \in Writer, WriterAction(w)
    PROVE  ~Linked'
<1>1. Chain \in Seq(Row) /\ Len(Chain) \in Nat
  BY ChainRows DEF WriterType
<1>2. CASE UNCHANGED <<archived, segment>>
  BY <1>2, SameRows
<1>3. CASE AddsRow(w)
  <2>1. <<NewRow(w)>> \in Seq(Row) /\ Chain' = Chain \o <<NewRow(w)>>
    BY <1>3, AppendedChain
  <2>2. PICK i \in 1..Len(Chain) :
            Chain[i].prev # IF i = 1 THEN NoHash ELSE Chain[i - 1].id
    BY DEF Linked
  <2>3. /\ i \in 1..Len(Chain') /\ Chain'[i] = Chain[i]
        /\ i # 1 => Chain'[i - 1] = Chain[i - 1]
    BY <1>1, <2>1, ConcatProperties
  <2>4. Chain'[i].prev # IF i = 1 THEN NoHash ELSE Chain'[i - 1].id
    BY <2>2, <2>3
  <2>5. QED
    BY <2>3, <2>4 DEF Linked
<1>4. CASE SealsRows(w)
  BY <1>4, SealedChain DEF Linked
<1>5. QED
  BY <1>2, <1>3, <1>4, RowsOfStep

\* What an instance remembers of frozen files is what is in them.
LEMMA FrozenTail ==
    ASSUME WriterType, Frozen, NEW w \in Writer
    PROVE  /\ LatestCache(w) = FreshCache(anchor)
           /\ ~FastPath(w)
<1>1. LatestCache(w) = FreshCache(anchor)
  BY DEF LatestCache, Frozen
<1>2. LatestCache(w).tail = ReadTail(anchor) /\ LatestCache(w).hasEvents = (segment # <<>>)
  BY <1>1 DEF FreshCache
<1>3. QED
  BY <1>1, <1>2 DEF FastPath, Frozen, TailRejected

LEMMA FrozenStep ==
    ASSUME WriterType, Frozen, NEW w \in Writer, WriterAction(w)
    PROVE  /\ UNCHANGED <<archived, seams, segment, torn, anchor>>
           /\ \A v \in Writer : pc'[v] \in {"idle", "base", "seal"}
           /\ \A v \in Writer : cache'[v].synced => cache'[v] = FreshCache(anchor)
<1> USE DEF disk, Acquire, Release, Abandon, WriterType
<1>1. ~Verified /\ \A v \in Writer : pc[v] \in {"idle", "base", "seal"}
  BY DEF Frozen
<1>2. ASSUME NEW e \in Event, BeginAppend(w, e)
      PROVE  /\ UNCHANGED <<disk, cache>>
             /\ \A v \in Writer : pc'[v] \in {"idle", "base", "seal"}
  BY <1>1, <1>2 DEF BeginAppend
<1>3. CASE VerifyTail(w)
  <2>1. /\ UNCHANGED disk
        /\ \A v \in Writer : pc'[v] \in {"idle", "base", "seal"}
        /\ cache' = [cache EXCEPT ![w] = Remembered(LatestCache(w))]
    BY <1>1, <1>3 DEF VerifyTail, RefuseInvalid
  <2>2. cache'[w].synced => cache'[w] = FreshCache(anchor)
    BY <2>1, FrozenTail DEF Remembered, ColdCache
  <2>3. QED
    BY <2>1, <2>2 DEF Frozen
<1>4. CASE BeginRotate(w)
  BY <1>1, <1>4 DEF BeginRotate, Frozen
<1>5. CASE RefuseSeal(w)
  BY <1>1, <1>5 DEF RefuseSeal, Frozen
<1>6. CASE Interrupt(w)
  <2>1. /\ UNCHANGED disk
        /\ \A v \in Writer : pc'[v] \in {"idle", "base", "seal"}
        /\ \A v \in Writer : cache'[v] \in {cache[v], ColdCache}
    BY <1>1, <1>6 DEF Interrupt
  <2>2. ~ColdCache.synced
    BY DEF ColdCache
  <2>3. QED
    BY <2>1, <2>2 DEF Frozen
<1>7. ~TrustTail(w) /\ ~VerifyChain(w) /\ ~SealAnchor(w)
  BY <1>1, FrozenTail DEF TrustTail, VerifyChain, SealAnchor
<1>8. /\ ~WriteIntent(w) /\ ~RepairTornTail(w) /\ ~WriteRow(w) /\ ~CommitAnchor(w)
      /\ ~ReturnAppend(w) /\ ~RenameSegment(w) /\ ~BuildIndex(w) /\ ~TearRow(w)
  BY <1>1 DEF WriteIntent, RepairTornTail, WriteRow, CommitAnchor, ReturnAppend,
              RenameSegment, BuildIndex, TearRow
<1>9. QED
  BY <1>2, <1>3, <1>4, <1>5, <1>6, <1>7, <1>8 DEF WriterAction, Frozen

LEMMA FrozenKept ==
    ASSUME Frozen, UNCHANGED <<archived, seams, segment, torn, anchor>>,
           \A v \in Writer : pc'[v] \in {"idle", "base", "seal"},
           \A v \in Writer : cache'[v].synced => cache'[v] = FreshCache(anchor)
    PROVE  Frozen'
<1>1. Verified' = Verified
  BY DEF Verified, Linked, NoEmptyArchive, SomeRowAnchored, RollForward, RollBack, Chain,
         TailHash, Ids
<1>2. TailRejected' = TailRejected /\ FreshCache(anchor)' = FreshCache(anchor)
  BY DEF TailRejected, ReadTail, FreshCache
<1>3. QED
  BY <1>1, <1>2 DEF Frozen
-----------------------------------------------------------------------------
(* The loss.                                                               *)

LEMMA IntactChain ==
    ASSUME Intact
    PROVE  /\ archived \in Seq(Row) /\ segment \in Seq(Row) /\ Chain \in Seq(Row)
           /\ Linked /\ DistinctIds
           /\ \A i \in 1..Len(Chain) : Chain[i].id # NoHash
  BY ChainRows DEF Intact, IInv, TypeOK, ChainInv

LEMMA LossTypes ==
    ASSUME WriterType, DraftIsEvent, UNCHANGED <<lock, pc, draft, base>>, cache' = AllStale,
           archived' \in Seq(Row), segment' \in Seq(Row), torn' \in BOOLEAN, anchor' \in Anchor
    PROVE  WriterType' /\ DraftIsEvent'
  BY TailTypes, AllStaleWarm DEF WriterType, DraftIsEvent

\* Losses strike between operations.
LEMMA LossIsQuiet ==
    ASSUME Intact, MayDamage, UNCHANGED pc, cache' = AllStale
    PROVE  /\ \A w \in Writer : pc'[w] \in {"idle", "base", "seal"}
           /\ \A w \in Writer : ~cache'[w].synced
  BY OneHolder DEF MayDamage, Intact, IInv, AllStale, ColdCache

\* Files whose tail is not the anchored one verify no more, and append() sees
\* it at once, also when the current segment is gone.
LEMMA LostTailFreezes ==
    ASSUME Intact, MayDamage, UNCHANGED <<pc, anchor>>, cache' = AllStale,
           archived' \in Seq(Row), segment' \in Seq(Row),
           TailHash(Chain') # TailHash(Chain), TailHash(Chain) # NoHash,
           InDoubt => ~RollForward' /\ ~RollBack'
    PROVE  Frozen'
<1>1. anchor.version = "v1" /\ anchor'.version = "v1" /\ anchor' = anchor
  BY DEF MayDamage
<1>2. anchor.pending = NoHash => anchor.committed = TailHash(Chain)
  BY <1>1 DEF Intact, IInv, AnchorInv, Unanchored, LegacyHead, Settled, InDoubt
<1>3. ~Verified'
  BY <1>1, <1>2 DEF Verified, InDoubt
<1>4. TailRejected'
  <2>1. CASE anchor.pending # NoHash
    BY <1>1, <2>1 DEF TailRejected
  <2>2. CASE anchor.pending = NoHash /\ segment' = <<>>
    BY <1>1, <1>2, <2>2 DEF TailRejected, ReadTail
  <2>3. CASE anchor.pending = NoHash /\ segment' # <<>>
    <3>1. TailHash(Chain') = TailHash(segment')
      <4>1. /\ Len(Chain') = Len(archived') + Len(segment') /\ Len(archived') \in Nat
            /\ Len(segment') \in Nat /\ Len(segment') > 0
            /\ \A i \in 1..Len(archived') + Len(segment') :
                  Chain'[i] = IF i <= Len(archived') THEN archived'[i]
                                                     ELSE segment'[i - Len(archived')]
        BY <2>3, ConcatProperties, EmptySeq DEF Chain
      <4>2. Chain'[Len(Chain')] = segment'[Len(segment')] /\ Chain' # <<>>
        <5>1. Len(Chain') \in 1..Len(archived') + Len(segment') /\ ~(Len(Chain') <= Len(archived'))
              /\ Len(Chain') - Len(archived') = Len(segment') /\ Len(Chain') # 0
          BY <4>1
        <5>2. QED
          BY <4>1, <5>1, EmptySeq
      <4>3. QED
        BY <2>3, <4>2 DEF TailHash
    <3>2. QED
      BY <1>1, <1>2, <2>3, <3>1 DEF TailRejected, ReadTail
  <2>4. QED
    BY <2>1, <2>2, <2>3
<1>5. QED
  BY <1>3, <1>4, LossIsQuiet DEF Frozen

\* With an append in doubt: if its row was not there, the tail it was to
\* follow is gone.
LEMMA LostBase ==
    ASSUME RollBack, UNCHANGED anchor, TailHash(Chain') # TailHash(Chain),
           Chain' # <<>> => TailHash(Chain') \in Ids(Chain)
    PROVE  ~RollForward' /\ ~RollBack'
  BY DEF RollForward, RollBack

LEMMA DoubtIsBetween ==
    ASSUME Intact, InDoubt
    PROVE  RollForward \/ RollBack
  BY DEF Intact, IInv, AnchorInv, InDoubt, Unanchored, LegacyHead, Settled

LEMMA NonEmptyTail ==
    ASSUME NEW rows \in Seq(Row), rows # <<>>
    PROVE  TailHash(rows) \in Ids(rows)
  BY TailHashType

\* A lost row either breaks the links or takes the tail.
LEMMA LostRow ==
    ASSUME Intact, MayDamage, UNCHANGED <<pc, anchor>>, cache' = AllStale,
           archived' \in Seq(Row), segment' \in Seq(Row),
           NEW k \in 1..Len(Chain), Chain' = Without(Chain, k),
           k = Len(Chain) /\ InDoubt => ~RollForward
    PROVE  /\ k # Len(Chain) => ~Linked'
           /\ k = Len(Chain) => Frozen'
<1>1. k # Len(Chain) => ~Linked'
  BY IntactChain, LostMiddle
<1>2. ASSUME k = Len(Chain)
      PROVE  Frozen'
  <2>1. /\ TailHash(Chain') # TailHash(Chain) /\ TailHash(Chain) # NoHash
        /\ Ids(Chain') \subseteq Ids(Chain) /\ Chain' \in Seq(Row)
    <3>1. Chain # <<>>
      BY IntactChain, EmptySeq
    <3>2. QED
      BY <1>2, <3>1, IntactChain, LostTail, WithoutRow
  <2>2. Chain' # <<>> => TailHash(Chain') \in Ids(Chain)
    BY <2>1, NonEmptyTail
  <2>3. InDoubt => ~RollForward' /\ ~RollBack'
    BY <1>2, <2>1, <2>2, DoubtIsBetween, LostBase
  <2>4. QED
    BY <2>1, <2>3, LostTailFreezes
<1>3. QED
  BY <1>1, <1>2

LEMMA LoseArchivedRowKeeps ==
    ASSUME DamageInv, LoseArchivedRow
    PROVE  DamageInv'
<1>1. Intact /\ MayDamage /\ WriterType /\ DraftIsEvent /\ ~tailLost
  BY DEF DamageInv, LoseArchivedRow, MayDamage
<1>2. PICK k \in 1..Len(archived) : archived' = Without(archived, k) /\ tailLost' = (k = Len(Chain))
  BY DEF LoseArchivedRow
<1>3. /\ UNCHANGED <<segment, torn, anchor, lock, pc, draft, base>> /\ cache' = AllStale
      /\ damaged' = TRUE
  BY DEF LoseArchivedRow
<1>4. /\ archived \in Seq(Row) /\ segment \in Seq(Row) /\ archived' \in Seq(Row)
      /\ Len(archived') = Len(archived) - 1
      /\ \A i \in 1..(Len(archived) - 1) :
             archived'[i] = IF i < k THEN archived[i] ELSE archived[i + 1]
  BY <1>1, <1>2, IntactChain, WithoutRow
<1>5. /\ k \in 1..Len(Chain) /\ Len(Chain) = Len(archived) + Len(segment)
      /\ Len(segment) \in Nat /\ Len(archived) \in Nat /\ Chain \in Seq(Row)
  BY <1>4, ChainRows
<1>6. Chain' = Without(Chain, k)
  <2>1. /\ Chain' \in Seq(Row) /\ Len(Chain') = Len(Chain) - 1
        /\ \A i \in 1..(Len(Chain) - 1) :
               Chain'[i] = IF i <= Len(archived) - 1 THEN archived'[i]
                                                     ELSE segment[i - (Len(archived) - 1)]
    <3>1. /\ Chain' \in Seq(Row) /\ Len(Chain') = Len(archived') + Len(segment)
          /\ \A i \in 1..Len(archived') + Len(segment) :
                Chain'[i] = IF i <= Len(archived') THEN archived'[i]
                                                   ELSE segment[i - Len(archived')]
      BY <1>3, <1>4, ConcatProperties DEF Chain
    <3>2. Len(archived') + Len(segment) = Len(Chain) - 1
      BY <1>4, <1>5
    <3>3. QED
      BY <1>4, <3>1, <3>2
  <2>2. /\ Without(Chain, k) \in Seq(Row) /\ Len(Without(Chain, k)) = Len(Chain) - 1
        /\ \A i \in 1..(Len(Chain) - 1) :
               Without(Chain, k)[i] = IF i < k THEN Chain[i] ELSE Chain[i + 1]
    BY <1>5, WithoutRow
  <2>3. ASSUME NEW i \in 1..(Len(Chain) - 1)
        PROVE  Chain'[i] = Without(Chain, k)[i]
    <3>1. CASE i <= Len(archived) - 1
      <4>1. Chain[i] = archived[i] /\ Chain[i + 1] = archived[i + 1]
        BY <1>4, <1>5, <3>1, ChainRows
      <4>2. QED
        BY <1>4, <1>5, <2>1, <2>2, <3>1, <4>1
    <3>2. CASE ~(i <= Len(archived) - 1)
      <4>1. i + 1 - Len(archived) \in 1..Len(segment) /\ ~(i < k)
            /\ Len(archived) + (i + 1 - Len(archived)) = i + 1
            /\ i - (Len(archived) - 1) = i + 1 - Len(archived)
        BY <1>5, <3>2
      <4>2. Chain[i + 1] = segment[i + 1 - Len(archived)]
        BY <1>4, <4>1, ChainRows
      <4>3. QED
        BY <2>1, <2>2, <3>2, <4>1, <4>2
    <3>3. QED
      BY <3>1, <3>2
  <2>4. QED
    BY <2>1, <2>2, <2>3, SeqEqual
<1>7. k = Len(Chain) /\ InDoubt => ~RollForward
  <2>1. k = Len(Chain) => segment = <<>>
    BY <1>4, <1>5, EmptySeq
  <2>2. QED
    BY <1>1, <2>1 DEF Intact, DoubtInv
<1>8. (k # Len(Chain) => ~Linked') /\ (k = Len(Chain) => Frozen')
  BY <1>1, <1>3, <1>4, <1>5, <1>6, <1>7, LostRow
<1>9. WriterType' /\ DraftIsEvent'
  BY <1>1, <1>3, <1>4, LossTypes DEF WriterType
<1>10. QED
  BY <1>2, <1>3, <1>8, <1>9 DEF DamageInv
LEMMA LoseRowKeeps ==
    ASSUME DamageInv, LoseRow
    PROVE  DamageInv'
<1>1. Intact /\ MayDamage /\ WriterType /\ DraftIsEvent /\ ~tailLost
  BY DEF DamageInv, LoseRow, MayDamage
<1>2. PICK k \in 1..Len(segment) : /\ segment[k].id \in acked /\ segment' = Without(segment, k)
                                  /\ tailLost' = (k = Len(segment))
  BY DEF LoseRow
<1>3. /\ UNCHANGED <<archived, torn, anchor, lock, pc, draft, base>> /\ cache' = AllStale
      /\ damaged' = TRUE
  BY DEF LoseRow
<1>4. /\ archived \in Seq(Row) /\ segment \in Seq(Row) /\ segment' \in Seq(Row)
      /\ Len(segment') = Len(segment) - 1
      /\ \A i \in 1..(Len(segment) - 1) :
             segment'[i] = IF i < k THEN segment[i] ELSE segment[i + 1]
  BY <1>1, <1>2, IntactChain, WithoutRow
<1> DEFINE n == Len(archived) + k
<1>5. /\ n \in 1..Len(Chain) /\ Len(Chain) = Len(archived) + Len(segment)
      /\ Len(segment) \in Nat /\ Len(archived) \in Nat /\ Chain \in Seq(Row)
      /\ n = Len(Chain) <=> k = Len(segment)
  BY <1>4, ChainRows
<1>6. Chain' = Without(Chain, n)
  <2>1. /\ Chain' \in Seq(Row) /\ Len(Chain') = Len(Chain) - 1
        /\ \A i \in 1..(Len(Chain) - 1) :
               Chain'[i] = IF i <= Len(archived) THEN archived[i]
                                                 ELSE segment'[i - Len(archived)]
    <3>1. /\ Chain' \in Seq(Row) /\ Len(Chain') = Len(archived) + Len(segment')
          /\ \A i \in 1..Len(archived) + Len(segment') :
                Chain'[i] = IF i <= Len(archived) THEN archived[i]
                                                  ELSE segment'[i - Len(archived)]
      BY <1>3, <1>4, ConcatProperties DEF Chain
    <3>2. Len(archived) + Len(segment') = Len(Chain) - 1
      BY <1>4, <1>5
    <3>3. QED
      BY <3>1, <3>2
  <2>2. /\ Without(Chain, n) \in Seq(Row) /\ Len(Without(Chain, n)) = Len(Chain) - 1
        /\ \A i \in 1..(Len(Chain) - 1) :
               Without(Chain, n)[i] = IF i < n THEN Chain[i] ELSE Chain[i + 1]
    BY <1>5, WithoutRow
  <2>3. ASSUME NEW i \in 1..(Len(Chain) - 1)
        PROVE  Chain'[i] = Without(Chain, n)[i]
    <3>1. CASE i <= Len(archived)
      <4>1. Chain[i] = archived[i] /\ i < n
        BY <1>4, <1>5, <3>1, ChainRows
      <4>2. QED
        BY <2>1, <2>2, <3>1, <4>1
    <3>2. CASE ~(i <= Len(archived))
      <4> DEFINE j == i - Len(archived)
      <4>1. /\ j \in 1..(Len(segment) - 1) /\ j \in 1..Len(segment) /\ j + 1 \in 1..Len(segment)
            /\ Len(archived) + j = i /\ Len(archived) + (j + 1) = i + 1
            /\ i < n <=> j < k
        BY <1>5, <3>2
      <4>2. Chain[i] = segment[j] /\ Chain[i + 1] = segment[j + 1]
        <5>1. \A m \in 1..Len(segment) : Chain[Len(archived) + m] = segment[m]
          BY <1>4, ChainRows
        <5>2. Chain[Len(archived) + j] = segment[j]
              /\ Chain[Len(archived) + (j + 1)] = segment[j + 1]
          BY <4>1, <5>1
        <5>3. QED
          BY <4>1, <5>2
      <4>3. Chain'[i] = segment'[j]
        BY <2>1, <3>2
      <4>4. segment'[j] = IF j < k THEN segment[j] ELSE segment[j + 1]
        BY <1>4, <4>1
      <4> HIDE DEF j
      <4>5. QED
        BY <2>2, <4>1, <4>2, <4>3, <4>4
    <3>3. QED
      BY <3>1, <3>2
  <2>4. QED
    BY <2>1, <2>2, <2>3, SeqEqual
<1>7. n = Len(Chain) /\ InDoubt => ~RollForward
  <2>1. ASSUME n = Len(Chain)
        PROVE  TailHash(Chain) = segment[k].id
    <3>1. Chain # <<>> /\ Chain[Len(Chain)] = segment[k]
      BY <1>4, <1>5, <2>1, ChainRows, EmptySeq
    <3>2. QED
      BY <3>1 DEF TailHash
  <2>2. QED
    BY <1>1, <1>2, <2>1 DEF Intact, DoubtInv, RollForward
<1> HIDE DEF n
<1>8. (n # Len(Chain) => ~Linked') /\ (n = Len(Chain) => Frozen')
  BY <1>1, <1>3, <1>4, <1>5, <1>6, <1>7, LostRow
<1>9. WriterType' /\ DraftIsEvent'
  BY <1>1, <1>3, <1>4, LossTypes DEF WriterType
<1>10. QED
  BY <1>2, <1>3, <1>5, <1>8, <1>9 DEF DamageInv

\* An append in doubt whose row goes with the segment: the row it followed is
\* in the segment too, for some row of the segment was acknowledged.
LEMMA LostWithBase ==
    ASSUME Intact, InDoubt, RollForward, Ids(segment) \cap acked # {}
    PROVE  anchor.committed \in Ids(segment) /\ anchor.pending \in Ids(segment)
<1>1. /\ archived \in Seq(Row) /\ segment \in Seq(Row) /\ Linked
      /\ Len(Chain) = Len(archived) + Len(segment)
      /\ Len(archived) \in Nat /\ Len(segment) \in Nat
      /\ \A j \in 1..Len(segment) : Chain[Len(archived) + j] = segment[j]
  BY IntactChain, ChainRows
<1>2. PICK j \in 1..Len(segment) : segment[j].id \in acked
  BY DEF Ids
<1>3. Chain # <<>> /\ Chain[Len(Chain)].id = anchor.pending
      /\ Chain[Len(Chain)].prev = anchor.committed
  BY DEF RollForward, TailHash
<1>4. Len(segment) \in 1..Len(segment) /\ segment[Len(segment)].id = anchor.pending
  <2>1. Len(segment) \in 1..Len(segment)
    BY <1>1, <1>2
  <2>2. Chain[Len(Chain)] = segment[Len(segment)]
    BY <1>1, <2>1
  <2>3. QED
    BY <1>3, <2>1, <2>2
<1>5. j # Len(segment)
  BY <1>2, <1>4 DEF Intact, DoubtInv
<1>6. Len(segment) - 1 \in 1..Len(segment) /\ Len(Chain) - 1 = Len(archived) + (Len(segment) - 1)
  BY <1>1, <1>2, <1>5
<1>7. Chain[Len(Chain) - 1] = segment[Len(segment) - 1]
  BY <1>1, <1>6
<1>8. Chain[Len(Chain)].prev = Chain[Len(Chain) - 1].id
  <2>1. Len(Chain) \in 1..Len(Chain) /\ Len(Chain) # 1
    BY <1>1, <1>6
  <2>2. QED
    BY <1>1, <2>1 DEF Linked
<1>9. segment[Len(segment) - 1].id = anchor.committed
  BY <1>3, <1>7, <1>8
<1>10. QED
  BY <1>4, <1>6, <1>9 DEF Ids

LEMMA PartsAreDistinct ==
    ASSUME Intact
    PROVE  Ids(archived) \cap Ids(segment) = {}
<1>1. /\ archived \in Seq(Row) /\ segment \in Seq(Row) /\ DistinctIds
      /\ Len(Chain) = Len(archived) + Len(segment)
      /\ Len(archived) \in Nat /\ Len(segment) \in Nat
      /\ \A i \in 1..Len(archived) : Chain[i] = archived[i]
      /\ \A j \in 1..Len(segment) : Chain[Len(archived) + j] = segment[j]
  BY IntactChain, ChainRows
<1>2. ASSUME NEW i \in 1..Len(archived), NEW j \in 1..Len(segment),
             archived[i].id = segment[j].id
      PROVE  FALSE
  <2>1. /\ i \in 1..Len(Chain) /\ Len(archived) + j \in 1..Len(Chain) /\ i # Len(archived) + j
        /\ Chain[i].id = Chain[Len(archived) + j].id
    BY <1>1, <1>2
  <2>2. QED
    BY <1>1, <2>1 DEF DistinctIds
<1>3. QED
  BY <1>2 DEF Ids
LEMMA LoseSegmentKeeps ==
    ASSUME DamageInv, LoseSegment
    PROVE  DamageInv'
<1>1. Intact /\ MayDamage /\ WriterType /\ DraftIsEvent
  BY DEF DamageInv, LoseSegment, MayDamage
<1>2. /\ UNCHANGED <<archived, anchor, lock, pc, draft, base>> /\ cache' = AllStale
      /\ segment' = <<>> /\ torn' = FALSE /\ damaged' = TRUE
      /\ Ids(segment) \cap acked # {}
  BY DEF LoseSegment
<1>3. /\ archived \in Seq(Row) /\ segment \in Seq(Row) /\ segment' \in Seq(Row)
  BY <1>1, <1>2, IntactChain, EmptySeq
<1>4. Chain' = archived
  BY <1>2, <1>3, ConcatEmptySeq DEF Chain
<1>5. segment # <<>>
  BY <1>2, EmptySeq DEF Ids
<1>6. TailHash(Chain) \in Ids(segment)
  BY <1>3, <1>5, ChainTail, NonEmptyTail
<1>7. NoHash \notin Ids(segment)
  BY <1>3, TailHashType, NoHashAssumption
<1>8. TailHash(Chain') \notin Ids(segment)
  <2>1. TailHash(archived) = NoHash \/ TailHash(archived) \in Ids(archived)
    BY <1>3, NonEmptyTail DEF TailHash
  <2>2. QED
    BY <1>1, <1>4, <1>7, <2>1, PartsAreDistinct
<1>9. TailHash(Chain') # TailHash(Chain) /\ TailHash(Chain) # NoHash
  BY <1>6, <1>7, <1>8
<1>10. InDoubt => ~RollForward' /\ ~RollBack'
  <2>1. CASE InDoubt /\ RollForward
    <3>1. anchor.committed \in Ids(segment) /\ anchor.pending \in Ids(segment)
      BY <1>1, <1>2, <2>1, LostWithBase
    <3>2. QED
      BY <1>2, <1>8, <3>1 DEF RollForward, RollBack
  <2>2. CASE InDoubt /\ RollBack
    <3>1. Chain' # <<>> => TailHash(Chain') \in Ids(Chain)
      <4>1. Ids(archived) \subseteq Ids(Chain)
        <5>1. /\ Len(archived) \in Nat /\ Len(segment) \in Nat
              /\ Len(Chain) = Len(archived) + Len(segment)
              /\ \A i \in 1..Len(archived) : Chain[i] = archived[i]
          BY <1>3, ChainRows
        <5>2. QED
          BY <5>1 DEF Ids
      <4>2. QED
        BY <1>3, <1>4, <4>1, NonEmptyTail
    <3>2. QED
      BY <1>2, <1>9, <2>2, <3>1, LostBase
  <2>3. QED
    BY <1>1, <2>1, <2>2, DoubtIsBetween
<1>11. Frozen'
  BY <1>1, <1>2, <1>3, <1>9, <1>10, LostTailFreezes
<1>12. WriterType' /\ DraftIsEvent'
  BY <1>1, <1>2, <1>3, LossTypes DEF WriterType
<1>13. QED
  BY <1>2, <1>11, <1>12 DEF DamageInv

\* Without its anchor an anchored ledger does not pass for an older one.
LEMMA LoseHeadKeeps ==
    ASSUME DamageInv, LoseHead
    PROVE  DamageInv'
<1>1. Intact /\ MayDamage /\ WriterType /\ DraftIsEvent /\ ~tailLost
  BY DEF DamageInv, LoseHead, MayDamage
<1>2. /\ UNCHANGED <<archived, seams, segment, torn, lock, pc, draft, base, tailLost>>
      /\ cache' = AllStale /\ damaged' = TRUE
      /\ anchor' = [version |-> "none", committed |-> NoHash, pending |-> NoHash]
      /\ SomeRowAnchored \/ seams # <<>>
  BY DEF LoseHead
<1>3. ~Verified'
  <2>1. (SomeRowAnchored' <=> SomeRowAnchored) /\ anchor'.version = "none"
    BY <1>2, SameRows
  <2>2. QED
    BY <1>2, <2>1 DEF Verified
<1>4. TailRejected'
  BY <1>2 DEF TailRejected
<1>5. Frozen'
  BY <1>1, <1>2, <1>3, <1>4, LossIsQuiet DEF Frozen
<1>6. WriterType' /\ DraftIsEvent'
  BY <1>1, <1>2, LossTypes DEF WriterType, Anchor, Hash
<1>7. QED
  BY <1>1, <1>2, <1>5, <1>6 DEF DamageInv

\* The writers before and after the loss.
LEMMA WritersKeep ==
    ASSUME DamageInv, NEW w \in Writer, WriterAction(w), UNCHANGED <<damaged, tailLost>>
    PROVE  DamageInv'
<1>1. WriterType /\ DraftIsEvent /\ WriterType' /\ DraftIsEvent'
  BY WriterTypeKept DEF DamageInv
<1>2. ~damaged => Intact'
  BY <1>1, IntactKept DEF DamageInv
<1>3. ~Linked => ~Linked'
  BY <1>1, BrokenStaysBroken
<1>4. Frozen => Frozen'
  BY <1>1, FrozenStep, FrozenKept
<1>5. QED
  BY <1>1, <1>2, <1>3, <1>4 DEF DamageInv

-----------------------------------------------------------------------------
(* The theorems.                                                           *)

LEMMA StartIsIntact == DamageInit => DamageInv
<1> SUFFICES ASSUME DamageInit PROVE DamageInv
  OBVIOUS
<1>1. IInv /\ Init /\ damaged = FALSE /\ tailLost = FALSE
  BY InitEstablishesInvariant DEF DamageInit
<1>2. DistinctIds
  <2>1. PICK h \in History : \E k \in 0..Len(h) :
            /\ archived = SubSeq(OldRows(h), 1, k)
            /\ segment = SubSeq(OldRows(h), k + 1, Len(h))
    BY <1>1 DEF Init, OldHistory
  <2>2. Chain = OldRows(h)
    BY <2>1, OldRowsLinked
  <2>3. h \in Seq(Event) /\ \A i, j \in 1..Len(h) : h[i] = h[j] => i = j
    BY HistoryAssumption
  <2>4. Len(OldRows(h)) = Len(h) /\ \A i \in 1..Len(h) : OldRows(h)[i].id = h[i]
    BY <2>3 DEF OldRows
  <2>5. QED
    BY <2>2, <2>3, <2>4 DEF DistinctIds
<1>3. ReturnInv /\ anchor.pending = NoHash
  BY <1>1 DEF Init, Start, OldHistory, ReturnInv
<1>4. WriterType /\ DraftIsEvent
  BY <1>1 DEF IInv, TypeOK, WriterType, Step, DraftIsEvent, Init, Start
<1>5. QED
  BY <1>1, <1>2, <1>3, <1>4 DEF DamageInv, Intact, DoubtInv, InDoubt

LEMMA IdleKeepsDamageInv ==
    ASSUME DamageInv, UNCHANGED damageVars
    PROVE  DamageInv'
<1> USE DEF damageVars
<1>1. WriterType' /\ DraftIsEvent'
  BY DEF DamageInv, WriterType, DraftIsEvent
<1>2. /\ Chain' = Chain /\ (Linked' <=> Linked) /\ InDoubt' = InDoubt
      /\ RollForward' = RollForward
  BY SameRows DEF InDoubt, RollForward, Chain, TailHash
<1>3. Intact => Intact'
  <2>1. IInv => IInv'
    BY StepKeepsInvariant DEF vars
  <2>2. QED
    BY <1>2, <2>1 DEF Intact, DistinctIds, DoubtInv, ReturnInv
<1>4. Frozen => Frozen'
  BY FrozenKept DEF Frozen
<1>5. QED
  BY <1>1, <1>2, <1>3, <1>4 DEF DamageInv

LEMMA StepKeepsDamageInv == DamageInv /\ [DamageNext]_damageVars => DamageInv'
<1> SUFFICES ASSUME DamageInv, [DamageNext]_damageVars PROVE DamageInv'
  OBVIOUS
<1>1. CASE UNCHANGED damageVars
  BY <1>1, IdleKeepsDamageInv
<1>2. CASE Next /\ UNCHANGED <<damaged, tailLost>>
  <2>1. \E w \in Writer : WriterAction(w)
    BY <1>2 DEF Next, WriterAction
  <2>2. QED
    BY <1>2, <2>1, WritersKeep
<1>3. CASE LoseArchivedRow
  BY <1>3, LoseArchivedRowKeeps
<1>4. CASE LoseRow
  BY <1>4, LoseRowKeeps
<1>5. CASE LoseSegment
  BY <1>5, LoseSegmentKeeps
<1>6. CASE LoseHead
  BY <1>6, LoseHeadKeeps
<1>7. QED
  BY <1>1, <1>2, <1>3, <1>4, <1>5, <1>6 DEF DamageNext

LEMMA DamageInvHolds == DamageSpec => []DamageInv
  BY StartIsIntact, StepKeepsDamageInv, PTL DEF DamageSpec

\* Once an acknowledged row, the current segment or the anchor of an anchored
\* ledger is lost, no recovery, append or rotation makes the files verify
\* again (_verify_chain_locked).
THEOREM LossStaysVisible == DamageSpec => []LossNeverBlessed
<1>1. DamageInv => LossNeverBlessed
  BY DEF DamageInv, LossNeverBlessed, Frozen, Verified
<1>2. QED
  BY <1>1, DamageInvHolds, PTL

\* A ledger whose last rows are lost never grows again, although append()
\* does not parse the chain (_append_base_hash_locked).
THEOREM TailLossIsFinal == DamageSpec => TailLossStopsAppends
<1>1. ASSUME DamageInv, [DamageNext]_damageVars, tailLost
      PROVE  Len(Chain') <= Len(Chain)
  <2>1. WriterType /\ Frozen /\ damaged
    BY <1>1 DEF DamageInv
  <2>2. Len(Chain) \in Nat
    BY <2>1, ChainRows DEF WriterType
  <2>3. CASE UNCHANGED damageVars
    BY <2>2, <2>3 DEF damageVars, Chain
  <2>4. CASE Next
    <3>1. PICK w \in Writer : WriterAction(w)
      BY <2>4 DEF Next, WriterAction
    <3>2. Chain' = Chain
      BY <2>1, <3>1, FrozenStep DEF Chain
    <3>3. QED
      BY <2>2, <3>2
  <2>5. QED
    BY <1>1, <2>1, <2>3, <2>4
       DEF DamageNext, LoseArchivedRow, LoseRow, LoseSegment, LoseHead, MayDamage
<1>2. DamageInv /\ [DamageNext]_damageVars
          => [tailLost => Len(Chain') <= Len(Chain)]_damageVars
  BY <1>1
<1>3. QED
  BY <1>2, DamageInvHolds, PTL DEF DamageSpec, TailLossStopsAppends
=============================================================================
