------------------------ MODULE LedgerReadersProofs ------------------------
(***************************************************************************)
(* Proofs about LedgerReaders for any number of instances and events: a    *)
(* warm read answers like a cold one, a locked read is the whole chain,    *)
(* and an unlocked one never repeats, reorders or invents a row.           *)
(*                                                                         *)
(* The invariant of EvidenceLedgerProofs does not hold here, because a     *)
(* reader holds the lock without being in a writer's operation.  It is not *)
(* needed either: what a read returns does not depend on the anchor.       *)
(***************************************************************************)
EXTENDS LedgerReaders, EvidenceLedgerProofs

View == [rows : Seq(Row), synced : BOOLEAN]

Scan == [at : {"idle", "list", "stat", "read", "return"}, all : BOOLEAN,
         locked : BOOLEAN, got : Seq(Row), token : BOOLEAN, before : Nat]

ReaderType ==
    /\ view \in [Writer -> View]
    /\ kept \in [Writer -> View]
    /\ scan \in [Writer -> Scan]

\* The lock is held exactly by the instance in the middle of a write or of a
\* locked read, and no instance reads while it writes.
Holds(w) == pc[w] # "idle" \/ (Reading(w) /\ scan[w].locked)

HolderInv ==
    \A w \in Writer : /\ Holds(w) <=> lock = w
                      /\ pc[w] # "idle" => ~Reading(w)

\* The cache that an append will extend holds the rows that were in the file
\* before the append's own.
KeptInv ==
    \A w \in Writer :
        kept[w].synced =>
            \/ pc[w] = "row" /\ kept[w].rows = segment
            \/ pc[w] = "commit" /\ Append(kept[w].rows, NewRow(w)) = segment

\* A read that has listed the archives has a start of them; under the lock
\* it has them all.
ListedInv ==
    \A w \in Writer :
        scan[w].at \in {"stat", "read"} /\ scan[w].all =>
            /\ \E n \in 0..Len(archived) : scan[w].got = SubSeq(archived, 1, n)
            /\ scan[w].locked => scan[w].got = archived

\* What an unlocked read may hand out.
Cut(rows) ==
    \E i, j, k \in 0..Len(Chain) :
        /\ i <= j
        /\ rows = SubSeq(Chain, 1, i) \o SubSeq(Chain, j + 1, k)

CutInv == \A w \in Writer : scan[w].at = "return" /\ scan[w].all => Cut(scan[w].got)

ReadInv ==
    /\ WriterType /\ DraftIsEvent /\ ReaderType
    /\ HolderInv /\ KeptInv /\ WarmViewIsDisk
    /\ ListedInv /\ LockedReadIsChain /\ CutInv

-----------------------------------------------------------------------------
(* What is handed out.                                                     *)

\* Archives as they were listed and the segment as it was parsed later are
\* two parts of the chain in their order.
LEMMA ListedThenParsed ==
    ASSUME archived \in Seq(Row), segment \in Seq(Row), NEW n \in 0..Len(archived)
    PROVE  Cut(SubSeq(archived, 1, n) \o segment)
<1>1. SubSeq(Chain, 1, n) = SubSeq(archived, 1, n)
  <2>1. Len(archived) \in Nat
    BY SegmentOfChain
  <2>2. QED
    BY <2>1, PartOfExtension DEF Chain
<1>2. /\ n \in 0..Len(Chain) /\ Len(archived) \in 0..Len(Chain)
      /\ Len(Chain) \in 0..Len(Chain) /\ n <= Len(archived)
  BY SegmentOfChain
<1>3. SubSeq(archived, 1, n) \o segment
          = SubSeq(Chain, 1, n) \o SubSeq(Chain, Len(archived) + 1, Len(Chain))
  BY <1>1, SegmentOfChain
<1>4. QED
  BY <1>2, <1>3 DEF Cut

\* The chain only grows under a read, so that what was cut out of it stays
\* cut out of it.
LEMMA CutOfExtension ==
    ASSUME Chain \in Seq(Row), NEW t \in Seq(Row), Chain' = Chain \o t, NEW rows, Cut(rows)
    PROVE  Cut(rows)'
<1>1. PICK i, j, k \in 0..Len(Chain) :
          i <= j /\ rows = SubSeq(Chain, 1, i) \o SubSeq(Chain, j + 1, k)
  BY DEF Cut
<1>2. Len(Chain) \in Nat /\ Len(t) \in Nat /\ Len(Chain') = Len(Chain) + Len(t)
  BY ConcatProperties
<1>3. i \in 0..Len(Chain') /\ j \in 0..Len(Chain') /\ k \in 0..Len(Chain')
  BY <1>2
<1>4. SubSeq(Chain', 1, i) = SubSeq(Chain, 1, i)
  BY <1>2, PartOfExtension
<1>5. SubSeq(Chain', j + 1, k) = SubSeq(Chain, j + 1, k)
  BY <1>2, PartOfExtension
<1>6. QED
  BY <1>1, <1>3, <1>4, <1>5 DEF Cut

-----------------------------------------------------------------------------
(* A writer among readers.                                                 *)

\* The steps of a writer among readers: what they write, and that they touch
\* nothing of a read but its token.
SameScans ==
    \A v \in Writer : /\ scan'[v].at = scan[v].at /\ scan'[v].all = scan[v].all
                      /\ scan'[v].locked = scan[v].locked /\ scan'[v].got = scan[v].got

LEMMA WriterAmongReaders ==
    ASSUME ReaderType, NEW w \in Writer, WriterStep(w)
    PROVE  WriterAction(w) /\ ~Reading(w) /\ SameScans /\ scan' \in [Writer -> Scan]
<1>1. WriterAction(w) /\ ~Reading(w)
  BY DEF WriterStep, AppendNotesCache, AppendExtendsCache, SealLosesTokens,
         InterruptedWriter, TornAppend, OtherWriterStep, WriterAction
<1>2. scan' = scan \/ scan' = TokensLost
  BY DEF WriterStep, AppendNotesCache, AppendExtendsCache, SealLosesTokens,
         InterruptedWriter, TornAppend, OtherWriterStep
<1>3. TokensLost \in [Writer -> Scan]
  BY DEF TokensLost, ReaderType, Scan
<1>4. ASSUME NEW v \in Writer
      PROVE  /\ TokensLost[v].at = scan[v].at /\ TokensLost[v].all = scan[v].all
             /\ TokensLost[v].locked = scan[v].locked /\ TokensLost[v].got = scan[v].got
  <2>1. scan[v] \in Scan /\ TokensLost[v] = [scan[v] EXCEPT !.token = FALSE]
    BY DEF TokensLost, ReaderType
  <2>2. QED
    BY <2>1 DEF Scan
<1>5. QED
  BY <1>1, <1>2, <1>3, <1>4 DEF SameScans, ReaderType

LEMMA WriterKeepsHolder ==
    ASSUME ReadInv, NEW w \in Writer, WriterStep(w)
    PROVE  HolderInv'
<1>1. WriterAction(w) /\ ~Reading(w) /\ SameScans
  BY WriterAmongReaders DEF ReadInv
<1>2. LockStep(w)
  BY <1>1, LockOfStep DEF ReadInv
<1>3. \A v \in Writer : /\ Reading(v)' <=> Reading(v)
                        /\ v # w => (pc'[v] = pc[v] /\ (Holds(v)' <=> Holds(v)))
  BY <1>1, <1>2 DEF LockStep, SameScans, Reading, Holds, ReadInv, WriterType
<1>4. ~Reading(w)' /\ (Holds(w)' <=> pc'[w] # "idle") /\ (Holds(w) <=> pc[w] # "idle")
  BY <1>1, <1>3 DEF Holds, SameScans
<1>5. ASSUME NEW v \in Writer, v # w
      PROVE  (Holds(v)' <=> lock' = v) /\ (pc'[v] # "idle" => ~Reading(v)')
  BY <1>2, <1>3, <1>4, <1>5, NobodyAssumption DEF LockStep, ReadInv, HolderInv
<1>6. Holds(w)' <=> lock' = w
  BY <1>2, <1>4, NobodyAssumption DEF LockStep, ReadInv, HolderInv, WriterType
<1>7. QED
  BY <1>4, <1>5, <1>6 DEF HolderInv

\* Only the holder of the lock keeps a cache to extend.
LEMMA OnlyHolderKeeps ==
    ASSUME ReadInv, NEW w \in Writer, lock \in {w, Nobody}
    PROVE  /\ \A v \in Writer : v # w => ~kept[v].synced /\ pc[v] = "idle"
           /\ pc[w] \notin {"row", "commit"} => ~kept[w].synced
  BY NobodyAssumption DEF ReadInv, HolderInv, Holds, KeptInv

LEMMA WriterHasLock ==
    ASSUME ReadInv, NEW w \in Writer, WriterStep(w)
    PROVE  lock \in {w, Nobody}
<1>1. LockStep(w)
  BY WriterAmongReaders, LockOfStep DEF ReadInv
<1>2. QED
  BY <1>1 DEF LockStep, ReadInv, HolderInv, Holds

-----------------------------------------------------------------------------
(* A writer's step among readers keeps what the caches hold.               *)

\* Forgetting everything makes every cache right.
LEMMA UnreadIsWarm ==
    /\ AllUnread \in [Writer -> View] /\ Unread \in View /\ ~Unread.synced
    /\ \A v \in Writer : ~AllUnread[v].synced
  BY EmptySeq DEF AllUnread, Unread, View

CachesKept == ReaderType' /\ KeptInv' /\ WarmViewIsDisk'

LEMMA AppendNotesCacheKeeps ==
    ASSUME ReadInv, NEW w \in Writer, AppendNotesCache(w), scan' \in [Writer -> Scan],
           lock \in {w, Nobody}
    PROVE  CachesKept
<1> USE DEF ReadInv
<1>1. /\ pc' = [pc EXCEPT ![w] = "row"] /\ segment' = segment
      /\ kept' = [kept EXCEPT ![w] = view[w]] /\ view' = AllUnread
  BY DEF AppendNotesCache, WriteIntent, Goto
<1>2. KeptInv'
  <2>1. kept'[w] = view[w] /\ pc'[w] = "row"
    BY <1>1 DEF ReaderType, WriterType
  <2>2. kept'[w].synced => kept'[w].rows = segment'
    BY <1>1, <2>1 DEF WarmViewIsDisk
  <2>3. \A v \in Writer : v # w => ~kept'[v].synced
    BY <1>1, OnlyHolderKeeps DEF ReaderType
  <2>4. QED
    BY <2>1, <2>2, <2>3 DEF KeptInv
<1>3. QED
  BY <1>1, <1>2, UnreadIsWarm DEF CachesKept, ReaderType, WarmViewIsDisk

LEMMA AppendExtendsCacheKeeps ==
    ASSUME ReadInv, NEW w \in Writer, AppendExtendsCache(w), scan' \in [Writer -> Scan],
           lock \in {w, Nobody}
    PROVE  CachesKept
<1> USE DEF ReadInv
<1>1. /\ pc[w] = "commit" /\ segment' = segment
      /\ kept' = [kept EXCEPT ![w] = Unread]
      /\ view' = [AllUnread EXCEPT ![w] = ExtendedView(w)]
  BY DEF AppendExtendsCache, CommitAnchor
<1>2. NewRow(w) \in Row
  BY <1>1 DEF NewRow, Row, WriterType, DraftIsEvent
<1>3. CASE kept[w].synced
  <2>1. Append(kept[w].rows, NewRow(w)) = segment
    BY <1>1, <1>3 DEF KeptInv
  <2>2. ExtendedView(w) = [rows |-> segment, synced |-> TRUE]
    BY <1>3, <2>1 DEF ExtendedView, Parsed
  <2>3. ExtendedView(w) \in View /\ ExtendedView(w).rows = segment'
    BY <1>1, <2>2 DEF View, WriterType
  <2>4. QED
    BY <1>1, <2>3, UnreadIsWarm, OnlyHolderKeeps
       DEF CachesKept, ReaderType, WarmViewIsDisk, KeptInv
<1>4. CASE ~kept[w].synced
  <2>1. ExtendedView(w) = Unread
    BY <1>4 DEF ExtendedView
  <2>2. QED
    BY <1>1, <2>1, UnreadIsWarm, OnlyHolderKeeps
       DEF CachesKept, ReaderType, WarmViewIsDisk, KeptInv
<1>5. QED
  BY <1>3, <1>4

\* The steps in which an instance gives up its operation, or that keep no
\* cache and end the validity of all.
LEMMA SealLosesTokensKeeps ==
    ASSUME ReadInv, NEW w \in Writer, SealLosesTokens(w), scan' \in [Writer -> Scan],
           lock \in {w, Nobody}
    PROVE  CachesKept
<1>1. pc[w] = "seal" /\ kept' = kept /\ view' = AllUnread
  BY DEF SealLosesTokens, SealAnchor
<1>2. \A v \in Writer : ~kept[v].synced
  BY <1>1, OnlyHolderKeeps
<1>3. QED
  BY <1>1, <1>2, UnreadIsWarm DEF CachesKept, ReadInv, ReaderType, WarmViewIsDisk, KeptInv

LEMMA InterruptedWriterKeeps ==
    ASSUME ReadInv, NEW w \in Writer, InterruptedWriter(w) \/ TornAppend(w),
           scan' \in [Writer -> Scan], lock \in {w, Nobody}
    PROVE  CachesKept
<1>1. /\ segment' = segment /\ kept' = [kept EXCEPT ![w] = Unread]
      /\ view' \in {view, [view EXCEPT ![w] = Unread], AllUnread}
  BY DEF InterruptedWriter, TornAppend, Interrupt, TearRow, disk
<1>2. \A v \in Writer : ~kept'[v].synced
  BY <1>1, OnlyHolderKeeps, UnreadIsWarm DEF ReadInv, ReaderType
<1>3. \A v \in Writer : view'[v].synced => view'[v] = view[v]
  BY <1>1, UnreadIsWarm DEF ReadInv, ReaderType
<1>4. view' \in [Writer -> View] /\ kept' \in [Writer -> View]
  BY <1>1, UnreadIsWarm DEF ReadInv, ReaderType
<1>5. QED
  BY <1>1, <1>2, <1>3, <1>4 DEF CachesKept, ReadInv, ReaderType, WarmViewIsDisk, KeptInv

LEMMA OtherWriterStepKeeps ==
    ASSUME ReadInv, NEW w \in Writer, OtherWriterStep(w), scan' \in [Writer -> Scan],
           lock \in {w, Nobody}
    PROVE  CachesKept
<1> USE DEF ReadInv
<1>1. kept' = kept /\ (view' = AllUnread \/ (view' = view /\ segment' = segment))
  BY DEF OtherWriterStep, disk
<1>2. KeptInv'
  <2>1. CASE WriteRow(w)
    <3>1. /\ pc[w] = "row" /\ pc' = [pc EXCEPT ![w] = "commit"]
          /\ segment' = Append(segment, NewRow(w)) /\ NewRow(w)' = NewRow(w)
      BY <2>1 DEF WriteRow, Goto, NewRow
    <3>2. pc'[w] = "commit" /\ (kept[w].synced => kept[w].rows = segment)
      BY <3>1 DEF KeptInv, WriterType
    <3>3. QED
      BY <1>1, <3>1, <3>2, OnlyHolderKeeps DEF KeptInv
  <2>2. CASE RepairTornTail(w)
    BY <1>1, <2>2 DEF RepairTornTail, KeptInv, NewRow
  <2>3. CASE ~WriteRow(w) /\ ~RepairTornTail(w)
    <3>1. pc[w] \notin {"row", "commit"}
      BY <2>3 DEF OtherWriterStep, BeginAppend, TrustTail, VerifyTail, ReturnAppend,
                  VerifyChain, BeginRotate, RefuseSeal, RenameSegment, BuildIndex, Acquire
    <3>2. \A v \in Writer : ~kept[v].synced
      BY <3>1, OnlyHolderKeeps
    <3>3. QED
      BY <1>1, <3>2 DEF KeptInv
  <2>4. QED
    BY <2>1, <2>2, <2>3
<1>3. QED
  BY <1>1, <1>2, UnreadIsWarm DEF CachesKept, ReaderType, WarmViewIsDisk

LEMMA WriterKeepsCaches ==
    ASSUME ReadInv, NEW w \in Writer, WriterStep(w)
    PROVE  CachesKept
<1>1. scan' \in [Writer -> Scan] /\ lock \in {w, Nobody}
  BY WriterAmongReaders, WriterHasLock DEF ReadInv
<1>2. QED
  BY <1>1, AppendNotesCacheKeeps, AppendExtendsCacheKeeps, SealLosesTokensKeeps,
     InterruptedWriterKeeps, OtherWriterStepKeeps DEF WriterStep

-----------------------------------------------------------------------------
(* A writer's step among readers keeps what the reads have collected.      *)

ScansKept == ListedInv' /\ LockedReadIsChain' /\ CutInv'

LEMMA WriterKeepsScans ==
    ASSUME ReadInv, NEW w \in Writer, WriterStep(w)
    PROVE  ScansKept
<1> USE DEF ReadInv
<1>1. WriterAction(w) /\ ~Reading(w) /\ SameScans
  BY WriterAmongReaders
<1>2. Chain \in Seq(Row) /\ Len(archived) \in Nat /\ Len(segment) \in Nat
  BY SegmentOfChain DEF WriterType
<1>3. ASSUME pc[w] # "idle", NEW v \in Writer, Reading(v)
      PROVE  ~scan[v].locked
  BY <1>1, <1>3 DEF HolderInv, Holds
<1>4. CASE UNCHANGED <<archived, segment>>
  <2>1. Chain' = Chain /\ \A rows : Cut(rows)' <=> Cut(rows)
    BY <1>4 DEF Chain, Cut
  <2>2. QED
    <3>1. ListedInv' /\ LockedReadIsChain'
      BY <1>1, <1>4, <2>1 DEF SameScans, ListedInv, LockedReadIsChain
    <3>2. CutInv'
      BY <1>1, <2>1 DEF SameScans, CutInv
    <3>3. QED
      BY <3>1, <3>2 DEF ScansKept
<1>5. CASE AddsRow(w)
  <2>1. pc[w] # "idle"
    BY <1>5 DEF AddsRow
  <2>2. archived' = archived /\ \A rows : Cut(rows) => Cut(rows)'
    BY <1>2, <1>5, AppendedChain, CutOfExtension
  <2>3. ListedInv'
    BY <1>1, <2>2 DEF SameScans, ListedInv
  <2>4. LockedReadIsChain'
    BY <1>1, <1>3, <2>1 DEF SameScans, LockedReadIsChain, Reading
  <2>5. CutInv'
    BY <1>1, <2>2 DEF SameScans, CutInv
  <2>6. QED
    BY <2>3, <2>4, <2>5 DEF ScansKept
<1>6. CASE SealsRows(w)
  <2>1. pc[w] # "idle"
    BY <1>6 DEF SealsRows
  <2>2. Chain' = Chain /\ archived' = archived \o segment
        /\ Len(archived') = Len(archived) + Len(segment)
    BY <1>6, SealedChain, ConcatProperties DEF WriterType
  <2>3. ListedInv'
    <3>1. ASSUME NEW v \in Writer, scan'[v].at \in {"stat", "read"}, scan'[v].all
          PROVE  /\ \E n \in 0..Len(archived') : scan'[v].got = SubSeq(archived', 1, n)
                 /\ ~scan'[v].locked
      <4>1. scan[v].at \in {"stat", "read"} /\ scan[v].all
            /\ scan'[v].got = scan[v].got /\ ~scan[v].locked
        BY <1>1, <1>3, <2>1, <3>1 DEF SameScans, Reading
      <4>2. PICK n \in 0..Len(archived) : scan[v].got = SubSeq(archived, 1, n)
        BY <4>1 DEF ListedInv
      <4>3. SubSeq(archived', 1, n) = SubSeq(archived, 1, n)
        BY <1>2, <2>2, PartOfExtension DEF WriterType
      <4>4. n \in 0..Len(archived')
        BY <1>2, <2>2
      <4>5. QED
        BY <1>1, <4>1, <4>2, <4>3, <4>4 DEF SameScans
    <3>2. QED
      BY <3>1 DEF ListedInv
  <2>4. LockedReadIsChain'
    BY <1>1, <2>2 DEF SameScans, LockedReadIsChain
  <2>5. \A rows : Cut(rows)' <=> Cut(rows)
    BY <2>2 DEF Cut
  <2>6. CutInv'
    BY <1>1, <2>5 DEF SameScans, CutInv
  <2>7. QED
    BY <2>3, <2>4, <2>6 DEF ScansKept
<1>7. QED
  BY <1>1, <1>4, <1>5, <1>6, RowsOfStep

LEMMA WriterKeeps ==
    ASSUME ReadInv, NEW w \in Writer, WriterStep(w)
    PROVE  ReadInv'
<1>1. WriterType' /\ DraftIsEvent'
  BY WriterAmongReaders, WriterTypeKept DEF ReadInv
<1>2. QED
  BY <1>1, WriterKeepsHolder, WriterKeepsCaches, WriterKeepsScans
     DEF ReadInv, CachesKept, ScansKept

-----------------------------------------------------------------------------
(* The steps of a read.                                                    *)

\* They leave the files and the writers alone; what is to be shown of them
\* is about their own scan.
ReaderStep(w) ==
    /\ UNCHANGED <<disk, pc, draft, base, kept>>
    /\ cache' \in {cache, [cache EXCEPT ![w] = ColdCache]}
    /\ view' \in [Writer -> View]
    /\ \A v \in Writer : v # w => view'[v] = view[v] /\ scan'[v] = scan[v]
    /\ scan' \in [Writer -> Scan]

LEMMA ReaderStepKeeps ==
    ASSUME ReadInv, NEW w \in Writer, ReaderStep(w), HolderInv',
           view'[w].synced => view'[w].rows = segment,
           scan'[w].at \in {"stat", "read"} /\ scan'[w].all =>
               /\ \E n \in 0..Len(archived) : scan'[w].got = SubSeq(archived, 1, n)
               /\ scan'[w].locked => scan'[w].got = archived,
           scan'[w].at = "return" /\ scan'[w].all =>
               /\ Cut(scan'[w].got)
               /\ scan'[w].locked => scan'[w].got = Chain
    PROVE  ReadInv'
<1> USE DEF ReadInv, ReaderStep, disk
<1>1. WriterType' /\ DraftIsEvent' /\ ReaderType'
  BY ColdCacheType DEF WriterType, DraftIsEvent, ReaderType
<1>2. KeptInv'
  BY DEF KeptInv, NewRow
<1>3. WarmViewIsDisk'
  BY DEF WarmViewIsDisk
<1>4. ListedInv'
  BY DEF ListedInv
<1>5. Chain' = Chain /\ \A rows : Cut(rows)' <=> Cut(rows)
  BY DEF Chain, Cut
<1>6. LockedReadIsChain'
  BY <1>5 DEF LockedReadIsChain
<1>7. CutInv'
  BY <1>5 DEF CutInv
<1>8. QED
  BY <1>1, <1>2, <1>3, <1>4, <1>6, <1>7

\* A read that goes on keeps its hold of the lock.
LEMMA GoesOnHolds ==
    ASSUME ReadInv, NEW w \in Writer, ReaderStep(w), lock' = lock, Reading(w),
           scan'[w].at # "idle", scan'[w].locked = scan[w].locked
    PROVE  HolderInv'
  BY DEF ReadInv, HolderInv, Holds, Reading, ReaderStep

\* A read that ends, or dies, gives the lock back.
LEMMA EndScanHolds ==
    ASSUME ReadInv, NEW w \in Writer, ReaderStep(w), EndScan(w), Reading(w)
    PROVE  HolderInv' /\ scan'[w].at = "idle"
<1>1. scan'[w].at = "idle"
  BY DEF EndScan, NoScan, ReadInv, ReaderType
<1>2. lock' = IF scan[w].locked THEN Nobody ELSE lock
  BY DEF EndScan
<1>3. (scan[w].locked <=> lock = w) /\ pc[w] = "idle"
  BY DEF ReadInv, HolderInv, Holds
<1>4. QED
  BY <1>1, <1>2, <1>3, NobodyAssumption DEF ReadInv, HolderInv, Holds, Reading, ReaderStep
LEMMA BeginReadKeeps ==
    ASSUME ReadInv, NEW w \in Writer, NEW all \in BOOLEAN, NEW locked \in BOOLEAN,
           BeginRead(w, all, locked)
    PROVE  ReadInv'
<1> DEFINE new == [NoScan EXCEPT !.at = IF all THEN "list" ELSE "stat",
                                 !.all = all, !.locked = locked, !.before = Len(Chain)]
<1>1. /\ new \in Scan /\ new.at = (IF all THEN "list" ELSE "stat")
      /\ new.all = all /\ new.locked = locked
  <2>1. Len(Chain) \in Nat
    BY SegmentOfChain DEF ReadInv, WriterType
  <2>2. QED
    BY <2>1, EmptySeq DEF NoScan, Scan
<1>2. scan' = [scan EXCEPT ![w] = new]
  BY DEF BeginRead
<1> HIDE DEF new
<1>3. ReaderStep(w) /\ scan'[w] = new
  BY <1>1, <1>2 DEF BeginRead, ReaderStep, ReadInv, ReaderType, WriterType, disk
<1>4. /\ pc[w] = "idle" /\ ~Reading(w) /\ (locked => lock = Nobody)
      /\ lock' = IF locked THEN w ELSE lock
  BY DEF BeginRead
<1>5. HolderInv'
  <2>1. Reading(w)' /\ (Holds(w)' <=> locked) /\ lock # w
    BY <1>1, <1>3, <1>4, NobodyAssumption
       DEF Reading, Holds, ReaderStep, ReadInv, HolderInv
  <2>2. \A v \in Writer : v # w => (Holds(v)' <=> Holds(v)) /\ (Reading(v)' <=> Reading(v))
    BY <1>3 DEF Reading, Holds, ReaderStep
  <2>3. QED
    BY <1>3, <1>4, <2>1, <2>2, NobodyAssumption DEF ReaderStep, ReadInv, HolderInv
<1>6. view' = view
  BY DEF BeginRead
<1>7. scan'[w].at # "return" /\ ~(scan'[w].at \in {"stat", "read"} /\ scan'[w].all)
  BY <1>1, <1>3
<1>8. QED
  BY <1>3, <1>5, <1>6, <1>7, ReaderStepKeeps DEF ReadInv, WarmViewIsDisk

LEMMA ListArchivesKeeps ==
    ASSUME ReadInv, NEW w \in Writer, ListArchives(w)
    PROVE  ReadInv'
<1> USE DEF ReadInv
<1>1. /\ scan[w] \in Scan /\ scan[w].at = "list"
      /\ scan' = [scan EXCEPT ![w].at = "stat", ![w].got = archived]
      /\ UNCHANGED <<vars, view, kept>>
  BY DEF ListArchives, ReaderType
<1>2. /\ scan'[w].at = "stat" /\ scan'[w].got = archived
      /\ scan'[w].locked = scan[w].locked /\ scan' \in [Writer -> Scan]
  BY <1>1 DEF ReaderType, WriterType, Scan
<1>3. ReaderStep(w)
  BY <1>1, <1>2 DEF ReaderStep, ReaderType, WriterType, disk, vars
<1>4. HolderInv'
  BY <1>1, <1>2, <1>3, GoesOnHolds DEF Reading, vars
<1>5. archived = SubSeq(archived, 1, Len(archived)) /\ Len(archived) \in 0..Len(archived)
  BY SubSeqFull, SegmentOfChain DEF WriterType
<1>6. QED
  BY <1>1, <1>2, <1>3, <1>4, <1>5, ReaderStepKeeps DEF WarmViewIsDisk

\* The rows of the current segment, parsed or remembered, after those listed.
LEMMA CollectsSegment ==
    ASSUME ReadInv, NEW w \in Writer, scan[w].at \in {"stat", "read"}, ReaderStep(w),
           lock' = lock, scan'[w].at = "return", scan'[w].all = scan[w].all,
           scan'[w].locked = scan[w].locked, scan'[w].got = scan[w].got \o segment,
           view'[w].synced => view'[w].rows = segment
    PROVE  ReadInv'
<1>1. HolderInv'
  BY GoesOnHolds DEF Reading
<1>2. ASSUME scan[w].all
      PROVE  /\ Cut(scan'[w].got)
             /\ scan'[w].locked => scan'[w].got = Chain
  <2>1. PICK n \in 0..Len(archived) : scan[w].got = SubSeq(archived, 1, n)
    BY <1>2 DEF ReadInv, ListedInv
  <2>2. Cut(scan'[w].got)
    BY <2>1, ListedThenParsed DEF ReadInv, WriterType
  <2>3. scan'[w].locked => scan'[w].got = Chain
    BY <1>2 DEF ReadInv, ListedInv, Chain
  <2>4. QED
    BY <2>2, <2>3
<1>3. QED
  BY <1>1, <1>2, ReaderStepKeeps

LEMMA ReuseViewKeeps ==
    ASSUME ReadInv, NEW w \in Writer, ReuseView(w)
    PROVE  ReadInv'
<1> USE DEF ReadInv
<1>1. /\ scan[w] \in Scan /\ scan[w].at = "stat" /\ view[w].rows = segment
      /\ scan' = [scan EXCEPT ![w].at = "return", ![w].got = @ \o view[w].rows]
      /\ UNCHANGED <<vars, view, kept>>
  BY DEF ReuseView, ReaderType, WarmViewIsDisk
<1>2. scan[w].got \o segment \in Seq(Row)
  BY <1>1, ConcatProperties DEF Scan, WriterType
<1>3. /\ scan'[w].at = "return" /\ scan'[w].got = scan[w].got \o segment
      /\ scan'[w].all = scan[w].all /\ scan'[w].locked = scan[w].locked
      /\ scan' \in [Writer -> Scan]
  BY <1>1, <1>2 DEF ReaderType, WriterType, Scan
<1>4. ReaderStep(w)
  BY <1>1, <1>3 DEF ReaderStep, ReaderType, WriterType, disk, vars
<1>5. QED
  BY <1>1, <1>3, <1>4, CollectsSegment DEF vars, WarmViewIsDisk

LEMMA TakeTokenKeeps ==
    ASSUME ReadInv, NEW w \in Writer, TakeToken(w)
    PROVE  ReadInv'
<1> USE DEF ReadInv
<1>1. /\ scan[w] \in Scan /\ scan[w].at = "stat"
      /\ scan' = [scan EXCEPT ![w].at = "read", ![w].token = TRUE]
      /\ UNCHANGED <<vars, view, kept>>
  BY DEF TakeToken, ReaderType
<1>2. /\ scan'[w].at = "read" /\ scan'[w].got = scan[w].got /\ scan'[w].all = scan[w].all
      /\ scan'[w].locked = scan[w].locked /\ scan' \in [Writer -> Scan]
  BY <1>1 DEF ReaderType, WriterType, Scan
<1>3. ReaderStep(w)
  BY <1>1, <1>2 DEF ReaderStep, ReaderType, WriterType, disk, vars
<1>4. HolderInv'
  BY <1>1, <1>2, <1>3, GoesOnHolds DEF Reading, vars
<1>5. scan[w].all => /\ \E n \in 0..Len(archived) : scan[w].got = SubSeq(archived, 1, n)
                     /\ scan[w].locked => scan[w].got = archived
  BY <1>1 DEF ListedInv
<1>6. QED
  BY <1>1, <1>2, <1>3, <1>4, <1>5, ReaderStepKeeps DEF WarmViewIsDisk

LEMMA LoadEventsKeeps ==
    ASSUME ReadInv, NEW w \in Writer, LoadEvents(w)
    PROVE  ReadInv'
<1> USE DEF ReadInv
<1> DEFINE parsed == IF scan[w].token /\ ~torn THEN Parsed(segment) ELSE Unread
<1>1. /\ scan[w] \in Scan /\ scan[w].at = "read"
      /\ scan' = [scan EXCEPT ![w].at = "return", ![w].got = @ \o segment]
      /\ view' = [view EXCEPT ![w] = parsed]
      /\ UNCHANGED <<vars, kept>>
  BY DEF LoadEvents, ReaderType
<1>2. parsed \in View /\ (parsed.synced => parsed.rows = segment)
  BY UnreadIsWarm DEF Parsed, View, WriterType
<1> HIDE DEF parsed
<1>3. scan[w].got \o segment \in Seq(Row)
  BY <1>1, ConcatProperties DEF Scan, WriterType
<1>4. /\ scan'[w].at = "return" /\ scan'[w].got = scan[w].got \o segment
      /\ scan'[w].all = scan[w].all /\ scan'[w].locked = scan[w].locked
      /\ scan' \in [Writer -> Scan]
  BY <1>1, <1>3 DEF ReaderType, WriterType, Scan
<1>5. ReaderStep(w) /\ view'[w] = parsed
  BY <1>1, <1>2, <1>4 DEF ReaderStep, ReaderType, WriterType, disk, vars
<1>6. QED
  BY <1>1, <1>2, <1>4, <1>5, CollectsSegment DEF vars

LEMMA EndedReadKeeps ==
    ASSUME ReadInv, NEW w \in Writer, ReturnRows(w) \/ ReaderDies(w)
    PROVE  ReadInv'
<1> USE DEF ReadInv
<1>1. /\ EndScan(w) /\ Reading(w)
      /\ UNCHANGED <<disk, pc, draft, base, kept>>
      /\ cache' \in {cache, [cache EXCEPT ![w] = ColdCache]}
      /\ view' \in {view, [view EXCEPT ![w] = Unread]}
  BY DEF ReturnRows, ReaderDies, Reading
<1>2. NoScan \in Scan /\ scan' = [scan EXCEPT ![w] = NoScan]
  BY <1>1, EmptySeq DEF EndScan, NoScan, Scan
<1>3. view' \in [Writer -> View] /\ view'[w] \in {view[w], Unread}
      /\ \A v \in Writer : v # w => view'[v] = view[v]
  BY <1>1, UnreadIsWarm DEF ReaderType
<1>4. ReaderStep(w)
  BY <1>1, <1>2, <1>3 DEF ReaderStep, ReaderType
<1>5. HolderInv' /\ scan'[w].at = "idle"
  BY <1>1, <1>4, EndScanHolds
<1>6. view'[w].synced => view'[w].rows = segment
  BY <1>3, UnreadIsWarm DEF WarmViewIsDisk
<1>7. QED
  BY <1>4, <1>5, <1>6, ReaderStepKeeps

-----------------------------------------------------------------------------
(* The theorems.                                                           *)

LEMMA StartEstablishesReadInv == ReadersInit => ReadInv
<1> SUFFICES ASSUME ReadersInit PROVE ReadInv
  OBVIOUS
<1>1. IInv
  BY InitEstablishesInvariant DEF ReadersInit
<1>2. /\ lock = Nobody /\ pc = [w \in Writer |-> "idle"]
      /\ view = AllUnread /\ kept = AllUnread /\ scan = [w \in Writer |-> NoScan]
  BY DEF ReadersInit, Init, Start
<1>3. NoScan \in Scan /\ NoScan.at = "idle"
  BY EmptySeq DEF NoScan, Scan
<1>4. WriterType /\ DraftIsEvent
  BY <1>1, <1>2 DEF IInv, TypeOK, WriterType, DraftIsEvent, Step
<1>5. ReaderType /\ KeptInv /\ WarmViewIsDisk
  BY <1>2, <1>3, UnreadIsWarm DEF ReaderType, KeptInv, WarmViewIsDisk
<1>6. HolderInv
  BY <1>2, <1>3, NobodyAssumption DEF HolderInv, Holds, Reading
<1>7. ListedInv /\ LockedReadIsChain /\ CutInv
  BY <1>2, <1>3 DEF ListedInv, LockedReadIsChain, CutInv
<1>8. QED
  BY <1>4, <1>5, <1>6, <1>7 DEF ReadInv

LEMMA StepKeepsReadInv == ReadInv /\ [ReadersNext]_allVars => ReadInv'
<1> SUFFICES ASSUME ReadInv, [ReadersNext]_allVars PROVE ReadInv'
  OBVIOUS
<1>1. CASE UNCHANGED allVars
  <2> USE <1>1 DEF allVars, vars
  <2>1. WriterType' /\ DraftIsEvent' /\ ReaderType' /\ HolderInv'
    BY DEF ReadInv, WriterType, DraftIsEvent, ReaderType, HolderInv, Holds, Reading
  <2>2. KeptInv' /\ WarmViewIsDisk'
    BY DEF ReadInv, KeptInv, NewRow, WarmViewIsDisk
  <2>3. Chain' = Chain /\ \A rows : Cut(rows)' <=> Cut(rows)
    BY DEF Chain, Cut
  <2>4. ListedInv' /\ LockedReadIsChain'
    BY <2>3 DEF ReadInv, ListedInv, LockedReadIsChain
  <2>5. CutInv'
    BY <2>3 DEF ReadInv, CutInv
  <2>6. QED
    BY <2>1, <2>2, <2>4, <2>5 DEF ReadInv
<1>2. ASSUME NEW w \in Writer, WriterStep(w)
      PROVE  ReadInv'
  BY <1>2, WriterKeeps
<1>3. ASSUME NEW w \in Writer, NEW all \in BOOLEAN, NEW locked \in BOOLEAN,
             BeginRead(w, all, locked)
      PROVE  ReadInv'
  BY <1>3, BeginReadKeeps
<1>4. ASSUME NEW w \in Writer,
             ListArchives(w) \/ ReuseView(w) \/ TakeToken(w) \/ LoadEvents(w)
                 \/ ReturnRows(w) \/ ReaderDies(w)
      PROVE  ReadInv'
  BY <1>4, ListArchivesKeeps, ReuseViewKeeps, TakeTokenKeeps, LoadEventsKeeps, EndedReadKeeps
<1>5. QED
  BY <1>1, <1>2, <1>3, <1>4 DEF ReadersNext

LEMMA ReadInvHolds == ReadersSpec => []ReadInv
  BY StartEstablishesReadInv, StepKeepsReadInv, PTL DEF ReadersSpec

\* A warm events() or find() answers like a cold one: under an unchanged stat
\* token the parsed-event cache holds what the file holds, for any number of
\* instances that append, rotate, repair and die (_load_events, append).
THEOREM WarmReadsAreCurrent == ReadersSpec => []WarmViewIsDisk
<1>1. ReadInv => WarmViewIsDisk
  BY DEF ReadInv
<1>2. QED
  BY <1>1, ReadInvHolds, PTL

\* What TaskLifecycle.get and HITLGate.complete read under the lock is the
\* whole chain, in its order, whatever ran before they had it.
THEOREM LockedReadsAreComplete == ReadersSpec => []LockedReadIsChain
<1>1. ReadInv => LockedReadIsChain
  BY DEF ReadInv
<1>2. QED
  BY <1>1, ReadInvHolds, PTL

\* An unlocked read of all segments may miss rows that a rotation moved, but
\* never repeats, reorders or invents one (events(all_segments=True)).
THEOREM UnlockedReadsKeepOrder == ReadersSpec => []UnlockedReadInOrder
<1>1. ReadInv => UnlockedReadInOrder
  BY DEF ReadInv, CutInv, Cut, UnlockedReadInOrder
<1>2. QED
  BY <1>1, ReadInvHolds, PTL
=============================================================================
