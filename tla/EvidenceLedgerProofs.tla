------------------------ MODULE EvidenceLedgerProofs ------------------------
(***************************************************************************)
(* Proofs about EvidenceLedger for any number of instances, any set of     *)
(* events and any old-format history: the files always verify, the cached  *)
(* tail is never stale, an acknowledged append is never lost, and the      *)
(* chain implements EvidenceLog.                                           *)
(***************************************************************************)
EXTENDS EvidenceLedger, SequenceTheorems, TLAPS

(***************************************************************************)
(* The inductive invariant.                                                *)
(***************************************************************************)

\* The lock is held exactly by the writer in the middle of an operation.
LockInv == \A w \in Writer : (pc[w] # "idle") <=> (lock = w)

\* The rows are linked, come from issued events, and hold what was promised.
ChainInv ==
    /\ Linked
    /\ Ids(Chain) \subseteq issued
    /\ acked \subseteq Ids(Chain)

\* The seams partition the archived rows into non-empty archives.
SeamInv ==
    /\ NoEmptyArchive
    /\ seams = <<>> => archived = <<>>
    /\ seams # <<>> => seams[Len(seams)] = Len(archived)

Unanchored == anchor.version = "none" /\ anchor.committed = NoHash /\ anchor.pending = NoHash

LegacyHead == anchor.version = "legacy" /\ anchor.pending = NoHash

Settled == anchor.version = "v1" /\ anchor.pending = NoHash

InDoubt == anchor.version = "v1" /\ anchor.pending # NoHash

\* The anchor says where the chain ends, up to the one append it announces.
AnchorInv ==
    \/ Unanchored /\ seams = <<>> /\ ~SomeRowAnchored
    \/ /\ LegacyHead /\ seams # <<>> /\ ~SomeRowAnchored
       /\ anchor.committed = TailHash(archived)
    \/ Settled /\ anchor.committed = TailHash(Chain)
    \/ InDoubt /\ (RollForward \/ RollBack)

\* What the lock holder knows at each step of an append or a rotation.
DraftInv ==
    \A w \in Writer :
        /\ pc[w] \in {"base", "intent", "row", "commit", "return"} =>
               draft[w] \in Event /\ draft[w] \in issued
        /\ pc[w] \in {"base", "intent", "row"} => draft[w] \notin Ids(Chain)
        /\ pc[w] \in {"intent", "row"} => base[w] = TailHash(Chain)
        /\ pc[w] \in {"row", "commit"} => anchor = Anchored(base[w], draft[w])
        /\ pc[w] = "commit" => /\ segment # <<>>
                               /\ TailHash(segment) = draft[w]
                               /\ segment[Len(segment)].prev = base[w]
        /\ pc[w] = "return" => draft[w] \in Ids(Chain)

SealInv ==
    \A w \in Writer :
        pc[w] = "rename" => /\ segment # <<>>
                            /\ anchor = Anchored(TailHash(Chain), NoHash)

IInv ==
    /\ TypeOK
    /\ LockInv
    /\ ChainInv
    /\ SeamInv
    /\ AnchorInv
    /\ DraftInv
    /\ SealInv
    /\ WarmTailIsDiskTail

-----------------------------------------------------------------------------
(***************************************************************************)
(* Rows and chains.                                                        *)
(***************************************************************************)

\* The hash of a tail is a hash, and the tail row's when there is one.
LEMMA TailHashType ==
    ASSUME NEW rows \in Seq(Row)
    PROVE  /\ TailHash(rows) \in Hash
           /\ rows # <<>> => /\ TailHash(rows) \in Event
                             /\ TailHash(rows) \in Ids(rows)
                             /\ rows[Len(rows)] \in Row
           /\ Ids(rows) \subseteq Event
<1>1. \A i \in 1..Len(rows) : rows[i] \in Row /\ rows[i].id \in Event
  <2>1. \A i \in 1..Len(rows) : rows[i] \in Row
    BY ElementOfSeq
  <2>2. \A row \in Row : row.id \in Event
    BY DEF Row
  <2>3. QED
    BY <2>1, <2>2
<1>2. Ids(rows) \subseteq Event
  BY <1>1 DEF Ids
<1>3. ASSUME rows # <<>>
      PROVE  /\ TailHash(rows) \in Ids(rows)
             /\ rows[Len(rows)] \in Row
  <2>1. Len(rows) \in 1..Len(rows)
    BY <1>3, EmptySeq
  <2>2. TailHash(rows) = rows[Len(rows)].id
    BY <1>3 DEF TailHash
  <2>3. QED
    BY <1>1, <2>1, <2>2 DEF Ids
<1>4. TailHash(rows) \in Hash
  BY <1>2, <1>3 DEF TailHash, Hash
<1>5. QED
  BY <1>2, <1>3, <1>4

\* Reading the archives and then the current segment gives a chain whose
\* tail is the segment's, unless the segment is empty.
LEMMA ChainTail ==
    ASSUME archived \in Seq(Row), segment \in Seq(Row)
    PROVE  /\ Chain \in Seq(Row)
           /\ segment # <<>> => /\ Chain # <<>>
                                /\ TailHash(Chain) = TailHash(segment)
                                /\ Chain[Len(Chain)] = segment[Len(segment)]
           /\ segment = <<>> => Chain = archived
           /\ archived = <<>> => Chain = segment
           /\ Len(Chain) = Len(archived) + Len(segment)
<1>1. /\ Chain \in Seq(Row)
      /\ Len(Chain) = Len(archived) + Len(segment)
      /\ \A i \in 1..Len(archived) + Len(segment) :
            Chain[i] = IF i <= Len(archived) THEN archived[i]
                                             ELSE segment[i - Len(archived)]
  BY ConcatProperties DEF Chain
<1>2. segment = <<>> => Chain = archived
  BY ConcatEmptySeq DEF Chain
<1>3. archived = <<>> => Chain = segment
  BY ConcatEmptySeq DEF Chain
<1>4. ASSUME segment # <<>>
      PROVE  /\ Chain # <<>>
             /\ TailHash(Chain) = TailHash(segment)
             /\ Chain[Len(Chain)] = segment[Len(segment)]
  <2>1. Len(segment) \in Nat /\ Len(segment) > 0 /\ Len(archived) \in Nat
    BY <1>4, EmptySeq
  <2>2. Len(Chain) > 0
    BY <1>1, <2>1
  <2>3. Chain[Len(Chain)] = segment[Len(segment)]
    BY <1>1, <2>1
  <2>4. QED
    BY <1>4, <2>2, <2>3, EmptySeq DEF TailHash
<1>5. QED
  BY <1>1, <1>2, <1>3, <1>4

\* A row appended to a linked sequence of rows, chained onto its tail.
LEMMA AppendRow ==
    ASSUME NEW rows \in Seq(Row), NEW row \in Row
    PROVE  /\ Append(rows, row) \in Seq(Row)
           /\ Append(rows, row) # <<>>
           /\ TailHash(Append(rows, row)) = row.id
           /\ Append(rows, row)[Len(Append(rows, row))] = row
           /\ Ids(Append(rows, row)) = Ids(rows) \cup {row.id}
<1>1. /\ Append(rows, row) \in Seq(Row)
      /\ Len(Append(rows, row)) = Len(rows) + 1
      /\ Append(rows, row)[Len(rows) + 1] = row
      /\ \A i \in 1..Len(rows) : Append(rows, row)[i] = rows[i]
      /\ Append(rows, row) # <<>>
  OBVIOUS
<1>2. Ids(Append(rows, row)) = Ids(rows) \cup {row.id}
  <2>1. ASSUME NEW i \in 1..(Len(rows) + 1)
        PROVE  Append(rows, row)[i].id \in Ids(rows) \cup {row.id}
    <3>1. CASE i = Len(rows) + 1
      BY <3>1, <1>1
    <3>2. CASE i # Len(rows) + 1
      <4>1. i \in 1..Len(rows)
        BY <3>2
      <4>2. QED
        BY <4>1, <1>1 DEF Ids
    <3>3. QED
      BY <3>1, <3>2
  <2>2. ASSUME NEW i \in 1..Len(rows)
        PROVE  rows[i].id \in Ids(Append(rows, row))
    <3>1. i \in 1..Len(Append(rows, row)) /\ rows[i].id = Append(rows, row)[i].id
      BY <1>1
    <3>2. QED
      BY <3>1 DEF Ids
  <2>3. row.id \in Ids(Append(rows, row))
    <3>1. /\ Len(rows) + 1 \in 1..Len(Append(rows, row))
          /\ row.id = Append(rows, row)[Len(rows) + 1].id
      BY <1>1
    <3>2. QED
      BY <3>1 DEF Ids
  <2>4. QED
    BY <1>1, <2>1, <2>2, <2>3 DEF Ids
<1>3. QED
  BY <1>1, <1>2 DEF TailHash

\* With the anchor settled, latest_hash() reads the tail of the whole chain,
\* also right after a rotation, when the current segment is empty.
LEMMA ReadTailIsChainTail ==
    ASSUME TypeOK, SeamInv, AnchorInv, ~InDoubt
    PROVE  ReadTail(anchor) = TailHash(Chain)
<1> USE DEF TypeOK
<1>1. CASE segment # <<>>
  BY <1>1, ChainTail DEF ReadTail
<1>2. CASE segment = <<>>
  <2>1. Chain = archived /\ ReadTail(anchor) = anchor.committed
    BY <1>2, ChainTail DEF ReadTail
  <2>2. CASE Unanchored /\ seams = <<>>
    BY <2>1, <2>2 DEF SeamInv, TailHash, Unanchored
  <2>3. CASE LegacyHead /\ anchor.committed = TailHash(archived)
    BY <2>1, <2>3
  <2>4. CASE Settled /\ anchor.committed = TailHash(Chain)
    BY <2>1, <2>4
  <2>5. QED
    BY <2>2, <2>3, <2>4 DEF AnchorInv
<1>3. QED
  BY <1>1, <1>2

\* The invariant is what verify_chain() checks.
LEMMA InvariantVerifies == IInv => Verified
<1> SUFFICES ASSUME IInv PROVE Verified
  OBVIOUS
<1>1. Linked /\ NoEmptyArchive
  BY DEF IInv, ChainInv, SeamInv
<1>2. CASE Unanchored /\ seams = <<>> /\ ~SomeRowAnchored
  BY <1>1, <1>2 DEF Verified, Unanchored
<1>3. CASE LegacyHead /\ seams # <<>> /\ ~SomeRowAnchored /\ anchor.committed = TailHash(archived)
  BY <1>1, <1>3 DEF Verified, LegacyHead
<1>4. CASE Settled /\ anchor.committed = TailHash(Chain)
  BY <1>1, <1>4 DEF Verified, Settled
<1>5. CASE InDoubt /\ (RollForward \/ RollBack)
  BY <1>1, <1>5 DEF Verified, InDoubt
<1>6. QED
  BY <1>2, <1>3, <1>4, <1>5 DEF IInv, AnchorInv

\* After a repair the anchor is settled on the tail of the chain; without
\* need of one it was not in doubt.
LEMMA RepairSettles ==
    ASSUME IInv
    PROVE  /\ RepairedAnchor \in Anchor
           /\ Repairs => RepairedAnchor = Anchored(TailHash(Chain), NoHash)
           /\ ~Repairs => RepairedAnchor = anchor /\ ~InDoubt /\ anchor.version # "legacy"
           /\ RepairedAnchor.version # "legacy" /\ RepairedAnchor.pending = NoHash
           /\ ReadTail(RepairedAnchor) = TailHash(Chain)
           /\ ReadTail(RepairedAnchor) \in Hash
<1> USE DEF IInv, TypeOK
<1>1. TailHash(Chain) \in Hash
  BY ChainTail, TailHashType
<1>2. CASE Repairs
  <2>1. RepairedAnchor = Anchored(TailHash(Chain), NoHash)
    BY <1>2 DEF RepairedAnchor
  <2>2. RepairedAnchor \in Anchor
    BY <2>1, <1>1 DEF Anchored, Anchor, Hash
  <2>3. ReadTail(RepairedAnchor) = TailHash(Chain)
    <3>1. CASE segment = <<>>
      BY <3>1, <2>1 DEF ReadTail, Anchored
    <3>2. CASE segment # <<>>
      BY <3>2, ChainTail DEF ReadTail
    <3>3. QED
      BY <3>1, <3>2
  <2>4. QED
    BY <1>1, <1>2, <2>1, <2>2, <2>3 DEF Anchored
<1>3. CASE ~Repairs
  <2>1. RepairedAnchor = anchor /\ anchor.pending = NoHash /\ anchor.version # "legacy"
    BY <1>3 DEF RepairedAnchor, Repairs
  <2>2. ~InDoubt
    BY <2>1 DEF InDoubt
  <2>3. QED
    BY <1>1, <1>3, <2>1, <2>2, ReadTailIsChainTail
<1>4. QED
  BY <1>2, <1>3

-----------------------------------------------------------------------------
(***************************************************************************)
(* What a step preserves, by what it leaves alone.                         *)
(***************************************************************************)

\* file_lock: while one writer is in an operation all the others are idle.
LEMMA OneHolder ==
    ASSUME TypeOK, LockInv
    PROVE  /\ \A w \in Writer : pc[w] # "idle" => \A v \in Writer \ {w} : pc[v] = "idle"
           /\ lock = Nobody => \A w \in Writer : pc[w] = "idle"
  BY NobodyAssumption DEF LockInv

\* Steps that write no row and rename nothing keep the chain as it is.
LEMMA SameRows ==
    ASSUME UNCHANGED <<archived, segment>>
    PROVE  /\ Chain' = Chain
           /\ Linked' <=> Linked
           /\ SomeRowAnchored' <=> SomeRowAnchored
  BY DEF Chain, Linked, SomeRowAnchored

LEMMA SameRowsKeepChain ==
    ASSUME IInv, UNCHANGED <<archived, segment, seams>>,
           issued \subseteq issued', acked' \subseteq Ids(Chain)
    PROVE  ChainInv' /\ SeamInv'
<1>1. Chain' = Chain /\ (Linked' <=> Linked)
  BY SameRows
<1>2. ChainInv'
  BY <1>1 DEF IInv, ChainInv
<1>3. SeamInv'
  BY DEF IInv, SeamInv, NoEmptyArchive
<1>4. QED
  BY <1>2, <1>3

LEMMA SameAnchorKeepsAnchorInv ==
    ASSUME AnchorInv, UNCHANGED <<archived, segment, seams, anchor>>
    PROVE  AnchorInv'
<1>1. Chain' = Chain /\ (SomeRowAnchored' <=> SomeRowAnchored)
  BY SameRows
<1>2. /\ RollForward' <=> RollForward
      /\ RollBack' <=> RollBack
  BY <1>1 DEF RollForward, RollBack
<1>3. QED
  BY <1>1, <1>2 DEF AnchorInv, Unanchored, LegacyHead, Settled, InDoubt

LEMMA SettledAnchorInv ==
    ASSUME Chain' = Chain, anchor' = Anchored(TailHash(Chain), NoHash)
    PROVE  AnchorInv'
  BY DEF AnchorInv, Settled, Anchored

LEMMA RepairKeepsAnchorInv ==
    ASSUME IInv, UNCHANGED <<archived, segment, seams>>, anchor' = RepairedAnchor
    PROVE  AnchorInv'
<1>1. CASE Repairs
  BY <1>1, RepairSettles, SettledAnchorInv, SameRows
<1>2. CASE ~Repairs
  BY <1>2, RepairSettles, SameAnchorKeepsAnchorInv DEF IInv
<1>3. QED
  BY <1>1, <1>2

LEMMA ColdCacheType == ColdCache \in Cache
  BY DEF ColdCache, Cache, Hash

\* Any write of the two files invalidates every instance's remembered tail.
LEMMA AllStaleWarm ==
    ASSUME cache' = AllStale
    PROVE  WarmTailIsDiskTail' /\ cache' \in [Writer -> Cache]
  BY DEF WarmTailIsDiskTail, AllStale, ColdCache, Cache, Hash

\* A step that touches neither file and makes no instance remember more.
LEMMA SameFilesWarm ==
    ASSUME TypeOK, WarmTailIsDiskTail, UNCHANGED <<segment, anchor>>,
           \A v \in Writer : cache'[v] \in {cache[v], ColdCache}
    PROVE  WarmTailIsDiskTail'
<1>1. ReadTail(anchor)' = ReadTail(anchor)
  BY DEF ReadTail
<1>2. \A v \in Writer : cache'[v].synced => cache'[v] = cache[v]
  BY DEF ColdCache
<1>3. QED
  BY <1>1, <1>2 DEF WarmTailIsDiskTail

\* latest_hash() refreshes an instance's memory from the files.
LEMMA LatestIsDiskTail ==
    ASSUME IInv, NEW w \in Writer
    PROVE  /\ LatestCache(w) \in Cache
           /\ LatestCache(w).tail = ReadTail(anchor)
           /\ LatestCache(w).hasEvents = (segment # <<>>)
<1> USE DEF IInv, TypeOK
<1>1. ReadTail(anchor) \in Hash
  BY TailHashType DEF ReadTail, Anchor
<1>2. FreshCache(anchor) \in Cache
  BY <1>1 DEF FreshCache, Cache
<1>3. CASE cache[w].synced
  BY <1>3 DEF LatestCache, WarmTailIsDiskTail
<1>4. CASE ~cache[w].synced
  BY <1>4, <1>2 DEF LatestCache, FreshCache
<1>5. QED
  BY <1>3, <1>4

\* The end of an operation: nobody is in the middle of anything.
LEMMA ReleaseKeeps ==
    ASSUME IInv, NEW w \in Writer, pc[w] # "idle", Release(w)
    PROVE  /\ LockInv' /\ DraftInv' /\ SealInv'
           /\ lock' \in Writer \cup {Nobody}
           /\ pc' \in [Writer -> {"idle", "base", "intent", "row", "commit",
                                  "return", "seal", "rename", "index"}]
           /\ draft' \in [Writer -> Hash]
           /\ base' \in [Writer -> Hash]
<1>1. \A v \in Writer : pc'[v] = "idle"
  BY OneHolder DEF IInv, TypeOK, Release
<1>2. lock' = Nobody
  BY DEF Release
<1>3. LockInv'
  BY <1>1, <1>2, NobodyAssumption DEF LockInv
<1>4. DraftInv' /\ SealInv'
  BY <1>1 DEF DraftInv, SealInv
<1>5. QED
  BY <1>2, <1>3, <1>4 DEF Release, IInv, TypeOK, Hash

-----------------------------------------------------------------------------
(***************************************************************************)
(* One lemma per action.                                                   *)
(***************************************************************************)

LEMMA BeginAppendKeeps ==
    ASSUME IInv, NEW w \in Writer, NEW e \in Event, BeginAppend(w, e)
    PROVE  IInv'
<1> USE DEF BeginAppend, Acquire, disk
<1>1. TypeOK'
  BY DEF IInv, TypeOK, Hash
<1>2. LockInv'
  BY OneHolder, NobodyAssumption DEF IInv, TypeOK, LockInv
<1>3. ChainInv' /\ SeamInv' /\ AnchorInv'
  BY SameRowsKeepChain, SameAnchorKeepsAnchorInv DEF IInv, ChainInv
<1>4. e \notin Ids(Chain) /\ Chain' = Chain
  BY SameRows DEF IInv, ChainInv
<1>5. \A v \in Writer : v # w => pc'[v] = "idle"
  BY OneHolder DEF IInv, TypeOK
<1>6. DraftInv'
  <2>1. pc'[w] = "base" /\ draft'[w] = e
    BY DEF IInv, TypeOK
  <2>2. QED
    BY <1>4, <1>5, <2>1 DEF DraftInv
<1>7. SealInv'
  BY <1>5 DEF SealInv, IInv, TypeOK
<1>8. WarmTailIsDiskTail'
  BY SameFilesWarm DEF IInv
<1>9. QED
  BY <1>1, <1>2, <1>3, <1>6, <1>7, <1>8 DEF IInv

\* Both ways to learn the tail hand the append the tail of the chain.
LEMMA TrustTailKeeps ==
    ASSUME IInv, NEW w \in Writer, TrustTail(w)
    PROVE  IInv'
<1> USE DEF TrustTail, Goto, disk
<1>1. LatestCache(w) \in Cache /\ Remembered(LatestCache(w)) \in Cache
  BY LatestIsDiskTail DEF Remembered, ColdCache, Cache, Hash
<1>2. TypeOK'
  BY <1>1 DEF IInv, TypeOK, Cache
<1>3. LockInv'
  BY DEF IInv, TypeOK, LockInv
<1>4. ChainInv' /\ SeamInv' /\ AnchorInv' /\ Chain' = Chain
  BY SameRowsKeepChain, SameAnchorKeepsAnchorInv, SameRows DEF IInv, ChainInv
<1>5. LatestCache(w).tail = TailHash(Chain)
  BY DEF FastPath, IInv, AnchorInv, Settled, Unanchored, LegacyHead, InDoubt
<1>6. \A v \in Writer : v # w => pc'[v] = "idle"
  BY OneHolder DEF IInv, TypeOK
<1>7. DraftInv'
  <2>1. pc'[w] = "intent" /\ base'[w] = TailHash(Chain)
    BY <1>5 DEF IInv, TypeOK
  <2>2. QED
    BY <1>4, <1>6, <2>1 DEF IInv, DraftInv
<1>8. SealInv'
  BY <1>6 DEF SealInv, IInv, TypeOK
<1>9. WarmTailIsDiskTail'
  <2>1. ReadTail(anchor)' = ReadTail(anchor)
    BY DEF ReadTail
  <2>2. cache'[w] = Remembered(LatestCache(w))
    BY DEF IInv, TypeOK
  <2>3. cache'[w].synced => cache'[w] = LatestCache(w)
    BY <2>2 DEF Remembered, ColdCache
  <2>4. QED
    BY <2>1, <2>3, LatestIsDiskTail DEF IInv, TypeOK, WarmTailIsDiskTail
<1>10. QED
  BY <1>2, <1>3, <1>4, <1>7, <1>8, <1>9 DEF IInv

\* The invariant leaves no room for "cannot append to an invalid ledger".
LEMMA VerifyTailKeeps ==
    ASSUME IInv, NEW w \in Writer, VerifyTail(w)
    PROVE  IInv'
<1> DEFINE latest == IF Repairs THEN FreshCache(RepairedAnchor) ELSE LatestCache(w)
<1>1. /\ pc[w] = "base" /\ anchor' = RepairedAnchor
      /\ base' = [base EXCEPT ![w] = latest.tail]
      /\ cache' = [(IF Repairs THEN AllStale ELSE cache) EXCEPT ![w] = Remembered(latest)]
      /\ Goto(w, "intent")
      /\ UNCHANGED <<archived, seams, segment, torn, indexed, draft, issued, acked>>
  BY InvariantVerifies DEF VerifyTail, ExtendVerified
<1>2. /\ latest \in Cache
      /\ latest.tail = ReadTail(RepairedAnchor)
      /\ latest.hasEvents = (segment # <<>>)
  <2>1. CASE Repairs
    BY <2>1, RepairSettles DEF FreshCache, Cache, IInv, TypeOK
  <2>2. CASE ~Repairs
    BY <2>2, LatestIsDiskTail, RepairSettles
  <2>3. QED
    BY <2>1, <2>2
<1>3. latest.tail = TailHash(Chain) /\ latest.tail \in Hash
  BY <1>2, RepairSettles
<1> HIDE DEF latest
<1>4. Remembered(latest) \in Cache /\ AllStale \in [Writer -> Cache]
  BY <1>2 DEF Remembered, ColdCache, AllStale, Cache, Hash
<1>5. TypeOK'
  <2>1. cache' \in [Writer -> Cache]
    BY <1>1, <1>4 DEF IInv, TypeOK
  <2>2. anchor' \in Anchor
    BY <1>1, RepairSettles
  <2>3. QED
    BY <1>1, <1>3, <2>1, <2>2 DEF IInv, TypeOK, Goto
<1>6. LockInv'
  BY <1>1 DEF IInv, TypeOK, LockInv, Goto
<1>7. ChainInv' /\ SeamInv' /\ AnchorInv' /\ Chain' = Chain
  BY <1>1, SameRowsKeepChain, RepairKeepsAnchorInv, SameRows DEF IInv, ChainInv
<1>8. \A v \in Writer : v # w => pc'[v] = "idle"
  BY <1>1, OneHolder DEF IInv, TypeOK, Goto
<1>9. DraftInv'
  <2>1. pc'[w] = "intent" /\ base'[w] = TailHash(Chain)
    BY <1>1, <1>3 DEF IInv, TypeOK, Goto
  <2>2. QED
    BY <1>1, <1>7, <1>8, <2>1 DEF IInv, DraftInv
<1>10. SealInv'
  BY <1>1, <1>8 DEF SealInv, IInv, TypeOK, Goto
<1>11. WarmTailIsDiskTail'
  <2>1. ReadTail(anchor)' = ReadTail(RepairedAnchor)
    BY <1>1 DEF ReadTail
  <2>2. cache'[w] = Remembered(latest)
    BY <1>1, <1>4 DEF IInv, TypeOK
  <2>3. cache'[w].synced => cache'[w] = latest
    BY <2>2 DEF Remembered, ColdCache
  <2>4. ASSUME NEW v \in Writer, v # w, cache'[v].synced
        PROVE  cache'[v] = cache[v] /\ RepairedAnchor = anchor
    <3>1. CASE Repairs
      BY <1>1, <2>4, <3>1 DEF AllStale, ColdCache
    <3>2. CASE ~Repairs
      BY <1>1, <2>4, <3>2, RepairSettles DEF IInv, TypeOK
    <3>3. QED
      BY <3>1, <3>2
  <2>5. QED
    BY <1>1, <1>2, <2>1, <2>3, <2>4 DEF IInv, WarmTailIsDiskTail
<1>12. QED
  BY <1>5, <1>6, <1>7, <1>9, <1>10, <1>11 DEF IInv

LEMMA WriteIntentKeeps ==
    ASSUME IInv, NEW w \in Writer, WriteIntent(w)
    PROVE  IInv'
<1> USE DEF WriteIntent, Goto
<1>1. /\ draft[w] \in Event /\ draft[w] \notin Ids(Chain)
      /\ base[w] = TailHash(Chain)
  BY DEF IInv, DraftInv
<1>2. TypeOK'
  <2>1. anchor' \in Anchor
    BY DEF IInv, TypeOK, Anchor, Anchored
  <2>2. QED
    BY <2>1, AllStaleWarm DEF IInv, TypeOK
<1>3. LockInv'
  BY DEF IInv, TypeOK, LockInv
<1>4. ChainInv' /\ SeamInv' /\ Chain' = Chain
  BY SameRowsKeepChain, SameRows DEF IInv, ChainInv
<1>5. AnchorInv'
  <2>1. anchor'.committed = TailHash(Chain') /\ anchor'.pending = draft[w] /\ anchor'.version = "v1"
    BY <1>1, <1>4 DEF Anchored
  <2>2. RollBack' /\ InDoubt'
    BY <1>1, <1>4, <2>1, NoHashAssumption DEF RollBack, InDoubt
  <2>3. QED
    BY <2>2 DEF AnchorInv
<1>6. \A v \in Writer : v # w => pc'[v] = "idle"
  BY OneHolder DEF IInv, TypeOK
<1>7. DraftInv'
  <2>1. pc'[w] = "row"
    BY DEF IInv, TypeOK
  <2>2. QED
    BY <1>1, <1>4, <1>6, <2>1 DEF IInv, DraftInv
<1>8. SealInv'
  BY <1>6 DEF SealInv, IInv, TypeOK
<1>9. QED
  BY <1>2, <1>3, <1>4, <1>5, <1>7, <1>8, AllStaleWarm DEF IInv

LEMMA RepairTornTailKeeps ==
    ASSUME IInv, NEW w \in Writer, RepairTornTail(w)
    PROVE  IInv'
<1> USE DEF RepairTornTail
<1>1. TypeOK'
  BY AllStaleWarm DEF IInv, TypeOK
<1>2. LockInv'
  BY DEF IInv, LockInv
<1>3. ChainInv' /\ SeamInv' /\ AnchorInv' /\ Chain' = Chain
  BY SameRowsKeepChain, SameAnchorKeepsAnchorInv, SameRows DEF IInv, ChainInv
<1>4. DraftInv' /\ SealInv'
  BY <1>3 DEF IInv, DraftInv, SealInv
<1>5. QED
  BY <1>1, <1>2, <1>3, <1>4, AllStaleWarm DEF IInv

\* The row lands at the end of the chain, where the pending anchor says.
LEMMA WriteRowAppends ==
    ASSUME IInv, NEW w \in Writer, WriteRow(w)
    PROVE  /\ NewRow(w) \in Row
           /\ Chain' = Append(Chain, NewRow(w))
           /\ draft[w] \in Event /\ draft[w] \notin Ids(Chain)
           /\ base[w] = TailHash(Chain)
           /\ anchor = Anchored(base[w], draft[w])
<1>1. /\ draft[w] \in Event /\ draft[w] \notin Ids(Chain)
      /\ base[w] = TailHash(Chain)
      /\ anchor = Anchored(base[w], draft[w])
  BY DEF WriteRow, IInv, DraftInv
<1>2. NewRow(w) \in Row
  BY <1>1 DEF NewRow, Row, IInv, TypeOK
<1>3. Chain' = Append(Chain, NewRow(w))
  BY <1>2, AppendIsConcat, ConcatAssociative, ChainTail
     DEF WriteRow, Chain, IInv, TypeOK
<1>4. QED
  BY <1>1, <1>2, <1>3

LEMMA WriteRowKeeps ==
    ASSUME IInv, NEW w \in Writer, WriteRow(w)
    PROVE  IInv'
<1> USE DEF Goto
<1>1. /\ pc[w] = "row" /\ segment' = Append(segment, NewRow(w)) /\ cache' = AllStale
      /\ lock' = lock /\ pc' = [pc EXCEPT ![w] = "commit"]
      /\ UNCHANGED <<archived, seams, torn, anchor, indexed, draft, base, issued, acked>>
  BY DEF WriteRow
<1>2. /\ NewRow(w) \in Row
      /\ Chain' = Append(Chain, NewRow(w)) /\ Chain \in Seq(Row)
      /\ draft[w] \in Event /\ draft[w] \notin Ids(Chain) /\ draft[w] \in issued
      /\ base[w] = TailHash(Chain)
      /\ anchor = Anchored(base[w], draft[w])
      /\ NewRow(w).id = draft[w] /\ NewRow(w).prev = base[w]
  BY WriteRowAppends, ChainTail, <1>1 DEF NewRow, IInv, TypeOK, DraftInv
<1>3. TypeOK'
  <2>1. segment' \in Seq(Row)
    BY <1>1, <1>2 DEF IInv, TypeOK
  <2>2. QED
    BY <1>1, <2>1, AllStaleWarm DEF IInv, TypeOK
<1>4. LockInv'
  BY <1>1 DEF IInv, TypeOK, LockInv
<1>5. ChainInv'
  <2>1. Ids(Chain') = Ids(Chain) \cup {draft[w]}
    BY <1>2, AppendRow
  <2>2. Linked'
    <3>1. /\ Len(Chain') = Len(Chain) + 1 /\ Len(Chain) \in Nat
          /\ Chain'[Len(Chain) + 1] = NewRow(w)
          /\ \A i \in 1..Len(Chain) : Chain'[i] = Chain[i]
      BY <1>2
    <3>2. ASSUME NEW i \in 1..Len(Chain)
          PROVE  Chain'[i].prev = IF i = 1 THEN NoHash ELSE Chain'[i - 1].id
      <4>1. Chain[i].prev = IF i = 1 THEN NoHash ELSE Chain[i - 1].id
        BY DEF IInv, ChainInv, Linked
      <4>2. i # 1 => i - 1 \in 1..Len(Chain)
        BY <3>1
      <4>3. QED
        BY <3>1, <4>1, <4>2
    <3>3. NewRow(w).prev = IF Len(Chain) + 1 = 1 THEN NoHash ELSE Chain'[Len(Chain)].id
      <4>1. CASE Chain = <<>>
        BY <4>1, <1>2 DEF TailHash
      <4>2. CASE Chain # <<>>
        <5>1. Len(Chain) \in 1..Len(Chain)
          BY <4>2, <1>2, EmptySeq
        <5>2. QED
          BY <5>1, <4>2, <3>1, <1>2 DEF TailHash
      <4>3. QED
        BY <4>1, <4>2
    <3>4. ASSUME NEW i \in 1..Len(Chain')
          PROVE  Chain'[i].prev = IF i = 1 THEN NoHash ELSE Chain'[i - 1].id
      <4>1. CASE i \in 1..Len(Chain)
        BY <4>1, <3>2
      <4>2. CASE i = Len(Chain) + 1
        BY <4>2, <3>1, <3>3
      <4>3. QED
        BY <3>1, <4>1, <4>2
    <3>5. QED
      BY <3>4 DEF Linked
  <2>3. QED
    BY <1>1, <1>2, <2>1, <2>2 DEF IInv, ChainInv
<1>6. SeamInv'
  BY <1>1 DEF IInv, SeamInv, NoEmptyArchive
<1>7. AnchorInv'
  <2>1. RollForward'
    <3>1. /\ Chain' # <<>> /\ TailHash(Chain') = draft[w]
          /\ Chain'[Len(Chain')].prev = base[w]
      BY <1>2, AppendRow
    <3>2. QED
      BY <1>1, <1>2, <3>1 DEF RollForward, Anchored
  <2>2. InDoubt'
    BY <1>1, <1>2, NoHashAssumption DEF InDoubt, Anchored
  <2>3. QED
    BY <2>1, <2>2 DEF AnchorInv
<1>8. \A v \in Writer : v # w => pc'[v] = "idle"
  BY <1>1, OneHolder DEF IInv, TypeOK
<1>9. DraftInv'
  <2>1. pc'[w] = "commit"
    BY <1>1 DEF IInv, TypeOK
  <2>2. /\ segment' # <<>> /\ TailHash(segment') = draft[w]
        /\ segment'[Len(segment')].prev = base[w]
    BY <1>1, <1>2, AppendRow DEF IInv, TypeOK
  <2>3. QED
    BY <1>1, <1>2, <1>8, <2>1, <2>2 DEF DraftInv
<1>10. SealInv'
  BY <1>1, <1>8 DEF SealInv, IInv, TypeOK
<1>11. QED
  BY <1>1, <1>3, <1>4, <1>5, <1>6, <1>7, <1>9, <1>10, AllStaleWarm DEF IInv

LEMMA CommitAnchorKeeps ==
    ASSUME IInv, NEW w \in Writer, CommitAnchor(w)
    PROVE  IInv'
<1> USE DEF CommitAnchor, Goto
<1>1. /\ draft[w] \in Event /\ draft[w] \in issued
      /\ segment # <<>> /\ TailHash(segment) = draft[w]
      /\ TailHash(Chain) = draft[w] /\ draft[w] \in Ids(Chain)
  <2>1. /\ draft[w] \in Event /\ draft[w] \in issued
        /\ segment # <<>> /\ TailHash(segment) = draft[w]
    BY DEF IInv, DraftInv
  <2>2. QED
    BY <2>1, ChainTail, TailHashType DEF IInv, TypeOK
<1>2. Anchored(draft[w], NoHash) \in Anchor
  BY <1>1 DEF Anchored, Anchor, Hash
<1>3. cache' \in [Writer -> Cache]
  BY <1>1 DEF AllStale, ColdCache, Cache, Hash
<1>4. TypeOK'
  BY <1>2, <1>3 DEF IInv, TypeOK
<1>5. LockInv'
  BY DEF IInv, TypeOK, LockInv
<1>6. ChainInv' /\ SeamInv' /\ Chain' = Chain
  BY SameRowsKeepChain, SameRows DEF IInv, ChainInv
<1>7. AnchorInv'
  BY <1>1, <1>6, SettledAnchorInv
<1>8. \A v \in Writer : v # w => pc'[v] = "idle"
  BY OneHolder DEF IInv, TypeOK
<1>9. DraftInv'
  <2>1. pc'[w] = "return"
    BY DEF IInv, TypeOK
  <2>2. QED
    BY <1>1, <1>6, <1>8, <2>1 DEF DraftInv
<1>10. SealInv'
  BY <1>8 DEF SealInv, IInv, TypeOK
<1>11. WarmTailIsDiskTail'
  <2>1. ReadTail(anchor)' = draft[w]
    BY <1>1 DEF ReadTail
  <2>2. \A v \in Writer : cache'[v] = IF v = w
                               THEN [tail |-> draft[w], hasEvents |-> TRUE, synced |-> TRUE]
                               ELSE ColdCache
    BY DEF AllStale
  <2>3. \A v \in Writer : cache'[v].synced =>
            cache'[v].tail = draft[w] /\ cache'[v].hasEvents = TRUE
    BY <2>2 DEF ColdCache
  <2>4. (segment' # <<>>) = TRUE
    BY <1>1
  <2>5. QED
    BY <2>1, <2>3, <2>4 DEF WarmTailIsDiskTail
<1>12. QED
  BY <1>4, <1>5, <1>6, <1>7, <1>9, <1>10, <1>11 DEF IInv

LEMMA ReturnAppendKeeps ==
    ASSUME IInv, NEW w \in Writer, ReturnAppend(w)
    PROVE  IInv'
<1> USE DEF ReturnAppend, disk
<1>1. draft[w] \in Event /\ draft[w] \in Ids(Chain)
  BY DEF IInv, DraftInv
<1>2. LockInv' /\ DraftInv' /\ SealInv' /\ TypeOK'
  BY <1>1, ReleaseKeeps DEF IInv, TypeOK
<1>3. ChainInv' /\ SeamInv' /\ AnchorInv'
  BY <1>1, SameRowsKeepChain, SameAnchorKeepsAnchorInv DEF IInv, ChainInv
<1>4. WarmTailIsDiskTail'
  BY SameFilesWarm DEF IInv
<1>5. QED
  BY <1>2, <1>3, <1>4 DEF IInv

LEMMA VerifyChainKeeps ==
    ASSUME IInv, NEW w \in Writer, VerifyChain(w)
    PROVE  IInv'
<1> USE DEF VerifyChain
<1>1. TypeOK'
  BY RepairSettles, AllStaleWarm DEF IInv, TypeOK
<1>2. LockInv'
  BY DEF IInv, LockInv
<1>3. ChainInv' /\ SeamInv' /\ AnchorInv'
  BY SameRowsKeepChain, RepairKeepsAnchorInv DEF IInv, ChainInv
<1>4. \A v \in Writer : pc'[v] = "idle"
  BY OneHolder DEF IInv
<1>5. DraftInv' /\ SealInv'
  BY <1>4 DEF DraftInv, SealInv
<1>6. QED
  BY <1>1, <1>2, <1>3, <1>5, AllStaleWarm DEF IInv

LEMMA BeginRotateKeeps ==
    ASSUME IInv, NEW w \in Writer, BeginRotate(w)
    PROVE  IInv'
<1> USE DEF BeginRotate, Acquire, disk
<1>1. TypeOK'
  BY DEF IInv, TypeOK
<1>2. LockInv'
  BY OneHolder, NobodyAssumption DEF IInv, TypeOK, LockInv
<1>3. ChainInv' /\ SeamInv' /\ AnchorInv'
  BY SameRowsKeepChain, SameAnchorKeepsAnchorInv DEF IInv, ChainInv
<1>4. \A v \in Writer : pc'[v] \in {"idle", "seal"}
  BY OneHolder DEF IInv, TypeOK
<1>5. DraftInv' /\ SealInv'
  BY <1>4 DEF DraftInv, SealInv
<1>6. WarmTailIsDiskTail'
  BY SameFilesWarm DEF IInv
<1>7. QED
  BY <1>1, <1>2, <1>3, <1>5, <1>6 DEF IInv

LEMMA RefuseSealKeeps ==
    ASSUME IInv, NEW w \in Writer, RefuseSeal(w)
    PROVE  IInv'
<1> USE InvariantVerifies DEF RefuseSeal
<1>1. cache' \in [Writer -> Cache] /\ WarmTailIsDiskTail'
  <2>1. CASE Repairs
    BY <2>1, AllStaleWarm
  <2>2. CASE ~Repairs
    BY <2>2, RepairSettles, SameFilesWarm DEF IInv, TypeOK
  <2>3. QED
    BY <2>1, <2>2
<1>2. LockInv' /\ DraftInv' /\ SealInv' /\ TypeOK'
  BY <1>1, ReleaseKeeps, RepairSettles DEF IInv, TypeOK
<1>3. ChainInv' /\ SeamInv' /\ AnchorInv'
  BY SameRowsKeepChain, RepairKeepsAnchorInv DEF IInv, ChainInv
<1>4. QED
  BY <1>1, <1>2, <1>3 DEF IInv

LEMMA SealAnchorKeeps ==
    ASSUME IInv, NEW w \in Writer, SealAnchor(w)
    PROVE  IInv'
<1> USE DEF SealAnchor, Goto
<1>1. TailHash(segment) = TailHash(Chain) /\ TailHash(Chain) \in Hash
  BY ChainTail, TailHashType DEF IInv, TypeOK
<1>2. TypeOK'
  <2>1. anchor' \in Anchor
    BY <1>1 DEF Anchored, Anchor, Hash
  <2>2. QED
    BY <2>1, AllStaleWarm DEF IInv, TypeOK
<1>3. LockInv'
  BY DEF IInv, TypeOK, LockInv
<1>4. ChainInv' /\ SeamInv' /\ AnchorInv' /\ Chain' = Chain
  BY <1>1, SameRowsKeepChain, SettledAnchorInv, SameRows DEF IInv, ChainInv
<1>5. \A v \in Writer : v # w => pc'[v] = "idle"
  BY OneHolder DEF IInv, TypeOK
<1>6. pc'[w] = "rename"
  BY DEF IInv, TypeOK
<1>7. DraftInv'
  BY <1>5, <1>6 DEF DraftInv
<1>8. SealInv'
  BY <1>1, <1>4, <1>5, <1>6 DEF SealInv
<1>9. QED
  BY <1>2, <1>3, <1>4, <1>7, <1>8, AllStaleWarm DEF IInv

LEMMA RenameSegmentKeeps ==
    ASSUME IInv, NEW w \in Writer, RenameSegment(w)
    PROVE  IInv'
<1> USE DEF Goto
<1>1. /\ pc[w] = "rename" /\ archived' = Chain /\ seams' = Append(seams, Len(Chain))
      /\ segment' = <<>> /\ cache' = AllStale
      /\ lock' = lock /\ pc' = [pc EXCEPT ![w] = "index"]
      /\ UNCHANGED <<torn, anchor, indexed, draft, base, issued, acked>>
  BY DEF RenameSegment
<1>2. /\ Chain \in Seq(Row) /\ Len(Chain) \in Nat
      /\ Len(Chain) = Len(archived) + Len(segment)
      /\ segment # <<>> /\ anchor = Anchored(TailHash(Chain), NoHash)
  BY <1>1, ChainTail DEF IInv, TypeOK, SealInv
<1>3. Chain' = Chain
  <2>1. Chain' = Chain \o <<>>
    BY <1>1 DEF Chain
  <2>2. QED
    BY <2>1, <1>2, ConcatEmptySeq
<1>4. TypeOK'
  <2>1. segment' \in Seq(Row) /\ archived' \in Seq(Row)
    BY <1>1, <1>2, EmptySeq
  <2>2. seams' \in Seq(Nat)
    BY <1>1, <1>2 DEF IInv, TypeOK
  <2>3. QED
    BY <1>1, <2>1, <2>2, AllStaleWarm DEF IInv, TypeOK
<1>5. LockInv'
  BY <1>1 DEF IInv, TypeOK, LockInv
<1>6. ChainInv'
  BY <1>1, <1>3 DEF IInv, ChainInv, Linked
<1>7. SeamInv'
  <2>1. /\ seams \in Seq(Nat) /\ seams' \in Seq(Nat)
        /\ Len(seams) \in Nat /\ Len(seams') = Len(seams) + 1
        /\ seams'[Len(seams) + 1] = Len(Chain)
        /\ \A k \in 1..Len(seams) : seams'[k] = seams[k]
    BY <1>1, <1>2 DEF IInv, TypeOK
  <2>2. Len(Chain) > IF Len(seams) + 1 = 1 THEN 0 ELSE seams'[Len(seams)]
    <3>1. Len(segment) > 0 /\ Len(segment) \in Nat /\ Len(archived) \in Nat
      BY <1>2, EmptySeq DEF IInv, TypeOK
    <3>2. CASE seams = <<>>
      BY <3>1, <3>2, <1>2
    <3>3. CASE seams # <<>>
      <4>1. Len(seams) \in 1..Len(seams) /\ Len(seams) + 1 # 1
        BY <3>3, <2>1, EmptySeq
      <4>2. seams'[Len(seams)] = Len(archived)
        BY <3>3, <4>1, <2>1 DEF IInv, SeamInv
      <4>3. QED
        BY <4>1, <4>2, <3>1, <1>2
    <3>4. QED
      BY <3>2, <3>3
  <2>3. ASSUME NEW k \in 1..Len(seams)
        PROVE  seams'[k] > IF k = 1 THEN 0 ELSE seams'[k - 1]
    <3>1. seams[k] > IF k = 1 THEN 0 ELSE seams[k - 1]
      BY DEF IInv, SeamInv, NoEmptyArchive
    <3>2. k # 1 => k - 1 \in 1..Len(seams)
      BY <2>1
    <3>3. QED
      BY <2>1, <3>1, <3>2
  <2>4. NoEmptyArchive'
    <3>1. ASSUME NEW k \in 1..Len(seams')
          PROVE  seams'[k] > IF k = 1 THEN 0 ELSE seams'[k - 1]
      <4>1. CASE k \in 1..Len(seams)
        BY <4>1, <2>3
      <4>2. CASE k = Len(seams) + 1
        BY <4>2, <2>1, <2>2
      <4>3. QED
        BY <4>1, <4>2, <2>1
    <3>2. QED
      BY <3>1 DEF NoEmptyArchive
  <2>5. seams' # <<>>
    BY <2>1, EmptySeq
  <2>6. seams'[Len(seams')] = Len(archived')
    BY <1>1, <2>1
  <2>7. QED
    BY <2>4, <2>5, <2>6 DEF SeamInv
<1>8. AnchorInv'
  BY <1>1, <1>2, <1>3, SettledAnchorInv
<1>9. \A v \in Writer : v # w => pc'[v] = "idle"
  BY <1>1, OneHolder DEF IInv, TypeOK
<1>10. pc'[w] = "index"
  BY <1>1 DEF IInv, TypeOK
<1>11. DraftInv' /\ SealInv'
  BY <1>9, <1>10 DEF DraftInv, SealInv
<1>12. QED
  BY <1>1, <1>4, <1>5, <1>6, <1>7, <1>8, <1>11, AllStaleWarm DEF IInv

LEMMA BuildIndexKeeps ==
    ASSUME IInv, NEW w \in Writer, BuildIndex(w)
    PROVE  IInv'
<1> USE DEF BuildIndex
<1>1. \A v \in Writer : cache'[v] \in {cache[v], ColdCache}
  BY DEF IInv, TypeOK
<1>2. WarmTailIsDiskTail'
  BY <1>1, SameFilesWarm DEF IInv
<1>3. cache' \in [Writer -> Cache]
  BY ColdCacheType DEF IInv, TypeOK
<1>4. LockInv' /\ DraftInv' /\ SealInv' /\ TypeOK'
  <2>1. Len(seams) \in Nat
    BY DEF IInv, TypeOK
  <2>2. QED
    BY <1>3, <2>1, ReleaseKeeps DEF IInv, TypeOK
<1>5. ChainInv' /\ SeamInv' /\ AnchorInv'
  BY SameRowsKeepChain, SameAnchorKeepsAnchorInv DEF IInv, ChainInv
<1>6. QED
  BY <1>2, <1>4, <1>5 DEF IInv

LEMMA InterruptKeeps ==
    ASSUME IInv, NEW w \in Writer, Interrupt(w)
    PROVE  IInv'
<1> USE DEF Interrupt, Abandon, disk
<1>1. \A v \in Writer : cache'[v] \in {cache[v], ColdCache}
  BY DEF IInv, TypeOK
<1>2. WarmTailIsDiskTail'
  BY <1>1, SameFilesWarm DEF IInv
<1>3. cache' \in [Writer -> Cache]
  BY ColdCacheType DEF IInv, TypeOK
<1>4. LockInv' /\ DraftInv' /\ SealInv' /\ TypeOK'
  BY <1>3, ReleaseKeeps DEF IInv, TypeOK
<1>5. ChainInv' /\ SeamInv' /\ AnchorInv'
  BY SameRowsKeepChain, SameAnchorKeepsAnchorInv DEF IInv, ChainInv
<1>6. QED
  BY <1>2, <1>4, <1>5 DEF IInv

LEMMA TearRowKeeps ==
    ASSUME IInv, NEW w \in Writer, TearRow(w)
    PROVE  IInv'
<1> USE DEF TearRow, Abandon
<1>1. LockInv' /\ DraftInv' /\ SealInv' /\ TypeOK'
  BY ReleaseKeeps, AllStaleWarm DEF IInv, TypeOK
<1>2. ChainInv' /\ SeamInv' /\ AnchorInv'
  BY SameRowsKeepChain, SameAnchorKeepsAnchorInv DEF IInv, ChainInv
<1>3. QED
  BY <1>1, <1>2, AllStaleWarm DEF IInv

-----------------------------------------------------------------------------
\* A history of the older format is a linked chain of unanchored rows.
LEMMA OldRowsLinked ==
    ASSUME NEW h \in History, NEW k \in 0..Len(h),
           archived = SubSeq(OldRows(h), 1, k),
           segment = SubSeq(OldRows(h), k + 1, Len(h))
    PROVE  /\ archived \in Seq(Row) /\ segment \in Seq(Row)
           /\ Chain = OldRows(h)
           /\ Len(archived) = k
           /\ k > 0 => TailHash(archived) = h[k] /\ h[k] \in Event
           /\ Linked /\ ~SomeRowAnchored
           /\ Ids(Chain) \subseteq Event
<1> DEFINE rows == OldRows(h)
<1>1. h \in Seq(Event) /\ Len(h) \in Nat
  BY HistoryAssumption
<1>2. \A i \in 1..Len(h) : h[i] \in Event
  BY <1>1, ElementOfSeq
<1>3. ASSUME NEW i \in 1..Len(h)
      PROVE  rows[i] \in Row
  <2>1. i # 1 => i - 1 \in 1..Len(h)
    BY <1>1
  <2>2. (IF i = 1 THEN NoHash ELSE h[i - 1]) \in Hash
    BY <1>2, <2>1 DEF Hash
  <2>3. QED
    BY <1>2, <2>2 DEF Row, OldRows
<1>4. rows \in Seq(Row) /\ Len(rows) = Len(h)
  BY <1>1, <1>3 DEF OldRows
<1>5. /\ \A i \in 1..Len(h) : rows[i].id = h[i]
      /\ \A i \in 1..Len(h) : rows[i].prev = IF i = 1 THEN NoHash ELSE h[i - 1]
      /\ \A i \in 1..Len(h) : rows[i].anchored = FALSE
  BY DEF OldRows
<1> HIDE DEF rows
<1>6. /\ archived = SubSeq(rows, 1, k)
      /\ segment = SubSeq(rows, k + 1, Len(rows))
  BY <1>4 DEF rows
<1>7. archived \in Seq(Row) /\ segment \in Seq(Row)
  <2>1. \A i \in 1..k : rows[i] \in Row
    BY <1>1, <1>4, ElementOfSeq
  <2>2. \A i \in (k + 1)..Len(rows) : rows[i] \in Row
    BY <1>1, <1>4, ElementOfSeq
  <2>3. SubSeq(rows, 1, k) \in Seq(Row)
    BY <2>1, <1>1, SubSeqProperties
  <2>4. SubSeq(rows, k + 1, Len(rows)) \in Seq(Row)
    BY <2>2, <1>1, <1>4, SubSeqProperties
  <2>5. QED
    BY <1>6, <2>3, <2>4
<1>8. Chain = rows
  <2>1. /\ 1 \in 1..(Len(rows) + 1)
        /\ k \in (1 - 1)..Len(rows)
        /\ Len(rows) \in k..Len(rows)
    BY <1>1, <1>4
  <2>2. SubSeq(rows, 1, k) \o SubSeq(rows, k + 1, Len(rows)) = SubSeq(rows, 1, Len(rows))
    BY <1>4, <2>1, ConcatAdjacentSubSeq
  <2>3. SubSeq(rows, 1, Len(rows)) = rows
    BY <1>4, SubSeqFull
  <2>4. QED
    BY <1>6, <2>2, <2>3 DEF Chain
<1>9. /\ Len(archived) = k
      /\ \A i \in 1..k : archived[i] = rows[i]
  <2>1. \A i \in 1..k : rows[i] \in Row
    BY <1>1, <1>4, ElementOfSeq
  <2>2. QED
    BY <1>1, <1>6, <2>1, SubSeqProperties
<1>10. k > 0 => TailHash(archived) = h[k] /\ h[k] \in Event
  <2>1. SUFFICES ASSUME k > 0 PROVE TailHash(archived) = h[k] /\ h[k] \in Event
    OBVIOUS
  <2>2. k \in 1..k /\ k \in 1..Len(h)
    BY <1>1, <2>1
  <2>3. archived[k].id = h[k] /\ h[k] \in Event
    BY <1>2, <1>5, <1>9, <2>2
  <2>4. archived # <<>>
    <3>1. Len(archived) # 0
      BY <1>9, <2>1
    <3>2. QED
      BY <3>1
  <2>5. QED
    BY <1>9, <2>3, <2>4 DEF TailHash
<1>11. ~SomeRowAnchored
  BY <1>4, <1>5, <1>8 DEF SomeRowAnchored
<1>12. Linked
  <2>1. ASSUME NEW i \in 1..Len(rows)
        PROVE  rows[i].prev = IF i = 1 THEN NoHash ELSE rows[i - 1].id
    <3>1. i # 1 => i - 1 \in 1..Len(h)
      BY <1>1, <1>4
    <3>2. QED
      BY <3>1, <1>4, <1>5
  <2>2. QED
    BY <1>8, <2>1 DEF Linked
<1>13. Ids(Chain) \subseteq Event
  BY <1>4, <1>8, TailHashType
<1>14. QED
  BY <1>7, <1>8, <1>9, <1>10, <1>11, <1>12, <1>13 DEF rows

LEMMA InitEstablishesInvariant == Init => IInv
<1> SUFFICES ASSUME Init PROVE IInv
  OBVIOUS
<1>0. PICK h \in History : \E k \in 0..Len(h) :
        /\ archived = SubSeq(OldRows(h), 1, k)
        /\ segment = SubSeq(OldRows(h), k + 1, Len(h))
        /\ seams = IF k = 0 THEN <<>> ELSE <<k>>
        /\ anchor = [version |-> IF k = 0 THEN "none" ELSE "legacy",
                     committed |-> IF k = 0 THEN NoHash ELSE h[k],
                     pending |-> NoHash]
  BY DEF Init, OldHistory
<1>1. PICK k \in 0..Len(h) :
        /\ archived = SubSeq(OldRows(h), 1, k)
        /\ segment = SubSeq(OldRows(h), k + 1, Len(h))
        /\ seams = IF k = 0 THEN <<>> ELSE <<k>>
        /\ anchor = [version |-> IF k = 0 THEN "none" ELSE "legacy",
                     committed |-> IF k = 0 THEN NoHash ELSE h[k],
                     pending |-> NoHash]
  BY <1>0
<1>2. /\ archived \in Seq(Row) /\ segment \in Seq(Row) /\ Len(archived) = k
      /\ k > 0 => TailHash(archived) = h[k] /\ h[k] \in Event
      /\ Linked /\ ~SomeRowAnchored /\ Ids(Chain) \subseteq Event
  BY <1>1, OldRowsLinked
<1>3. h \in Seq(Event) /\ k \in Nat
  BY HistoryAssumption
<1>4. anchor \in Anchor
  BY <1>1, <1>2, <1>3 DEF Anchor, Hash
<1>5. seams \in Seq(Nat)
  BY <1>1, <1>3
<1>6. TypeOK
  BY <1>2, <1>4, <1>5, ColdCacheType DEF TypeOK, Init, Start, Hash
<1>7. LockInv /\ DraftInv /\ SealInv
  BY NobodyAssumption DEF LockInv, DraftInv, SealInv, Init, Start
<1>8. ChainInv
  BY <1>2 DEF ChainInv, Init, Start
<1>9. SeamInv
  <2>1. CASE k = 0
    BY <2>1, <1>1, <1>2, EmptySeq DEF SeamInv, NoEmptyArchive
  <2>2. CASE k # 0
    <3>1. seams = <<k>> /\ Len(seams) = 1 /\ seams[1] = k /\ seams # <<>>
      BY <2>2, <1>1
    <3>2. NoEmptyArchive
      BY <2>2, <3>1, <1>3 DEF NoEmptyArchive
    <3>3. QED
      BY <3>1, <3>2, <1>2 DEF SeamInv
  <2>3. QED
    BY <2>1, <2>2
<1>10. AnchorInv
  <2>1. CASE k = 0
    BY <2>1, <1>1, <1>2 DEF AnchorInv, Unanchored
  <2>2. CASE k # 0
    BY <2>2, <1>1, <1>2, <1>3 DEF AnchorInv, LegacyHead
  <2>3. QED
    BY <2>1, <2>2
<1>11. WarmTailIsDiskTail
  BY DEF WarmTailIsDiskTail, ColdCache, Init, Start
<1>12. QED
  BY <1>6, <1>7, <1>8, <1>9, <1>10, <1>11 DEF IInv

LEMMA StepKeepsInvariant == IInv /\ [Next]_vars => IInv'
<1> SUFFICES ASSUME IInv, [Next]_vars PROVE IInv'
  OBVIOUS
<1>1. ASSUME NEW w \in Writer, NEW e \in Event, BeginAppend(w, e)
      PROVE  IInv'
  BY <1>1, BeginAppendKeeps
<1>2. ASSUME NEW w \in Writer,
             \/ TrustTail(w) \/ VerifyTail(w)
             \/ WriteIntent(w) \/ RepairTornTail(w) \/ WriteRow(w)
             \/ CommitAnchor(w) \/ ReturnAppend(w)
      PROVE  IInv'
  BY <1>2, TrustTailKeeps, VerifyTailKeeps, WriteIntentKeeps,
     RepairTornTailKeeps, WriteRowKeeps, CommitAnchorKeeps, ReturnAppendKeeps
<1>3. ASSUME NEW w \in Writer,
             \/ VerifyChain(w)
             \/ BeginRotate(w) \/ RefuseSeal(w) \/ SealAnchor(w)
             \/ RenameSegment(w) \/ BuildIndex(w)
             \/ Interrupt(w) \/ TearRow(w)
      PROVE  IInv'
  BY <1>3, VerifyChainKeeps, BeginRotateKeeps, RefuseSealKeeps, SealAnchorKeeps,
     RenameSegmentKeeps, BuildIndexKeeps, InterruptKeeps, TearRowKeeps
<1>4. CASE UNCHANGED vars
  <2>1. TypeOK' /\ LockInv'
    BY <1>4 DEF vars, IInv, TypeOK, LockInv
  <2>2. ChainInv' /\ SeamInv' /\ AnchorInv'
    BY <1>4, SameRowsKeepChain, SameAnchorKeepsAnchorInv DEF vars, IInv, ChainInv
  <2>3. DraftInv' /\ SealInv'
    BY <1>4, SameRows DEF vars, IInv, DraftInv, SealInv
  <2>4. WarmTailIsDiskTail'
    BY <1>4, SameFilesWarm DEF vars, IInv
  <2>5. QED
    BY <2>1, <2>2, <2>3, <2>4 DEF IInv
<1>5. QED
  BY <1>1, <1>2, <1>3, <1>4 DEF Next

LEMMA InvariantHolds == Spec => []IInv
  BY InitEstablishesInvariant, StepKeepsInvariant, PTL DEF Spec

-----------------------------------------------------------------------------
\* The variables keep their types (ledger.py, all operations).
THEOREM TypeCorrect == Spec => []TypeOK
<1>1. IInv => TypeOK
  BY DEF IInv
<1>2. QED
  BY <1>1, InvariantHolds, PTL

\* No crash or failed write, in any operation, leaves files that
\* verify_chain() rejects, and so append() never refuses to continue.
THEOREM LedgerAlwaysVerifies == Spec => []AlwaysVerifiable
<1>1. IInv => AlwaysVerifiable
  BY InvariantVerifies DEF AlwaysVerifiable
<1>2. QED
  BY <1>1, InvariantHolds, PTL

\* A tail remembered under an unchanged stat token is the tail on disk.
THEOREM CachedTailIsCurrent == Spec => []WarmTailIsDiskTail
<1>1. IInv => WarmTailIsDiskTail
  BY DEF IInv
<1>2. QED
  BY <1>1, InvariantHolds, PTL

\* What append() returned for is in the chain, for good.
THEOREM AcknowledgedIsDurable == Spec => []AckedDurable
<1>1. IInv => AckedDurable
  BY DEF IInv, ChainInv, AckedDurable
<1>2. QED
  BY <1>1, InvariantHolds, PTL

-----------------------------------------------------------------------------
(***************************************************************************)
(* Refinement.                                                             *)
(***************************************************************************)

LEMMA LoggedIsIds ==
    ASSUME Chain \in Seq(Row)
    PROVE  Log!Logged = Ids(Chain)
<1> DEFINE log == [i \in 1..Len(Chain) |-> Chain[i].id]
<1>1. Len(Chain) \in Nat
  OBVIOUS
<1>2. log \in Seq(Event) /\ Len(log) = Len(Chain)
  <2>1. \A i \in 1..Len(Chain) : Chain[i].id \in Event
    BY TailHashType DEF Ids
  <2>2. QED
    BY <1>1, <2>1
<1>3. \A i \in 1..Len(Chain) : log[i] = Chain[i].id
  OBVIOUS
<1>4. Log!Logged = {log[i] : i \in 1..Len(log)}
  BY DEF Log!Logged
<1>5. QED
  BY <1>2, <1>3, <1>4 DEF Ids

LEMMA SameChainSameLog ==
    ASSUME Chain' = Chain, acked' = acked
    PROVE  UNCHANGED Log!vars
  BY DEF Log!vars

LEMMA InitRefines == Init /\ IInv => Log!Init
<1> SUFFICES ASSUME Init, IInv PROVE Log!Init
  OBVIOUS
<1>1. Chain \in Seq(Row)
  BY ChainTail DEF IInv, TypeOK
<1>2. \A i \in 1..Len(Chain) : Chain[i].id \in Event
  BY <1>1, TailHashType DEF Ids
<1>3. [i \in 1..Len(Chain) |-> Chain[i].id] \in Seq(Event)
  BY <1>1, <1>2
<1>4. acked = Log!Logged
  BY <1>1, LoggedIsIds DEF Init, Start
<1>5. QED
  BY <1>3, <1>4 DEF Log!Init

\* Only the step that completes the row extends the log, by that one event;
\* only the return acknowledges; everything else is invisible.
LEMMA StepRefines == IInv /\ [Next]_vars => [Log!Next]_(Log!vars)
<1> SUFFICES ASSUME IInv, [Next]_vars PROVE [Log!Next]_(Log!vars)
  OBVIOUS
<1>1. Chain \in Seq(Row)
  BY ChainTail DEF IInv, TypeOK
<1>2. ASSUME NEW w \in Writer, WriteRow(w)
      PROVE  Log!Next
  <2>1. /\ NewRow(w) \in Row /\ NewRow(w).id = draft[w]
        /\ Chain' = Append(Chain, NewRow(w))
        /\ draft[w] \in Event /\ draft[w] \notin Log!Logged
        /\ acked' = acked
    BY <1>1, <1>2, WriteRowAppends, LoggedIsIds DEF NewRow, WriteRow
  <2>2. [i \in 1..Len(Chain') |-> Chain'[i].id]
            = Append([i \in 1..Len(Chain) |-> Chain[i].id], draft[w])
    <3>1. /\ Len(Chain') = Len(Chain) + 1 /\ Len(Chain) \in Nat
          /\ Chain'[Len(Chain) + 1].id = draft[w]
          /\ \A i \in 1..Len(Chain) : Chain'[i].id = Chain[i].id
      BY <1>1, <2>1
    <3>2. \A i \in 1..Len(Chain) : Chain[i].id \in Event
      BY <1>1, TailHashType DEF Ids
    <3>3. [i \in 1..Len(Chain) |-> Chain[i].id] \in Seq(Event)
      BY <3>1, <3>2
    <3>4. QED
      BY <2>1, <3>1, <3>3
  <2>3. PICK e \in Event : e = draft[w]
    BY <2>1
  <2>4. Log!Record(e)
    BY <2>1, <2>2, <2>3 DEF Log!Record
  <2>5. QED
    BY <2>4 DEF Log!Next
<1>3. ASSUME NEW w \in Writer, ReturnAppend(w)
      PROVE  Log!Next
  <2>1. draft[w] \in Event /\ draft[w] \in Log!Logged
    BY <1>1, <1>3, LoggedIsIds DEF ReturnAppend, IInv, DraftInv
  <2>2. Chain' = Chain /\ acked' = acked \cup {draft[w]}
    BY <1>3, SameRows DEF ReturnAppend, disk
  <2>3. Log!Acknowledge(draft[w])
    BY <2>1, <2>2 DEF Log!Acknowledge
  <2>4. QED
    BY <2>1, <2>3 DEF Log!Next
<1>4. ASSUME NEW w \in Writer, RenameSegment(w)
      PROVE  UNCHANGED Log!vars
  <2>1. Chain' = Chain \o <<>> /\ acked' = acked
    BY <1>4 DEF RenameSegment, Chain
  <2>2. Chain' = Chain
    BY <1>1, <2>1, ConcatEmptySeq
  <2>3. QED
    BY <2>1, <2>2, SameChainSameLog
<1>5. ASSUME NEW w \in Writer,
             \/ \E e \in Event : BeginAppend(w, e)
             \/ TrustTail(w) \/ VerifyTail(w)
             \/ WriteIntent(w) \/ RepairTornTail(w) \/ CommitAnchor(w)
             \/ VerifyChain(w)
             \/ BeginRotate(w) \/ RefuseSeal(w) \/ SealAnchor(w) \/ BuildIndex(w)
             \/ Interrupt(w) \/ TearRow(w)
      PROVE  UNCHANGED Log!vars
  <2>1. UNCHANGED <<archived, segment, acked>>
    BY <1>5 DEF BeginAppend, TrustTail, VerifyTail, WriteIntent,
       RepairTornTail, CommitAnchor, VerifyChain, BeginRotate, RefuseSeal,
       SealAnchor, BuildIndex, Interrupt, TearRow, Abandon, disk
  <2>2. QED
    BY <2>1, SameRows, SameChainSameLog
<1>6. CASE UNCHANGED vars
  BY <1>6, SameRows, SameChainSameLog DEF vars
<1>7. QED
  BY <1>2, <1>3, <1>4, <1>5, <1>6 DEF Next

\* The ledger implements the append-only log it promises (EvidenceLog),
\* through crashes, failed writes, recovery and rotation.
THEOREM LedgerImplementsLog == Spec => ImplementsLog
<1>1. Init => IInv /\ Log!Init
  BY InitEstablishesInvariant, InitRefines
<1>2. QED
  BY <1>1, InvariantHolds, StepRefines, PTL DEF Spec, ImplementsLog, Log!Spec

-----------------------------------------------------------------------------
(***************************************************************************)
(* What one step of a writer does to the types, the rows and the lock,     *)
(* whatever the files hold.  LedgerReaders and LedgerDamage run the same   *)
(* writers where the invariant above does not hold: beside readers that    *)
(* take the lock, and on damaged files.                                    *)
(***************************************************************************)

Step == {"idle", "base", "intent", "row", "commit", "return", "seal", "rename", "index"}

\* The files and what a writer works on have their types.
WriterType ==
    /\ archived \in Seq(Row)
    /\ segment \in Seq(Row)
    /\ torn \in BOOLEAN
    /\ anchor \in Anchor
    /\ pc \in [Writer -> Step]
    /\ draft \in [Writer -> Hash]
    /\ base \in [Writer -> Hash]
    /\ cache \in [Writer -> Cache]

DraftIsEvent ==
    \A w \in Writer : pc[w] \in {"base", "intent", "row", "commit"} => draft[w] \in Event

-----------------------------------------------------------------------------
(* Rows.                                                                   *)

\* A start of a sequence is a start of every extension of it, and so is any
\* part of it.
LEMMA PartOfExtension ==
    ASSUME NEW S, NEW s \in Seq(S), NEW t \in Seq(S),
           NEW a \in 1..(Len(s) + 1), NEW b \in 0..Len(s)
    PROVE  SubSeq(s \o t, a, b) = SubSeq(s, a, b)
<1>1. CASE a <= b
  BY <1>1, SubSeqOfConcat1
<1>2. CASE ~(a <= b)
  BY <1>2, SubSeqEmpty
<1>3. QED
  BY <1>1, <1>2

\* The current segment is the part of the chain after the archives.
LEMMA SegmentOfChain ==
    ASSUME archived \in Seq(Row), segment \in Seq(Row)
    PROVE  /\ Chain \in Seq(Row)
           /\ Len(Chain) = Len(archived) + Len(segment)
           /\ Len(archived) \in Nat /\ Len(segment) \in Nat
           /\ SubSeq(Chain, Len(archived) + 1, Len(Chain)) = segment
<1>1. /\ Chain \in Seq(Row)
      /\ Len(Chain) = Len(archived) + Len(segment)
      /\ Len(archived) \in Nat /\ Len(segment) \in Nat
  BY ConcatProperties DEF Chain
<1>2. CASE Len(segment) = 0
  BY <1>1, <1>2, SubSeqEmpty, EmptySeq
<1>3. CASE Len(segment) # 0
  <2>1. SubSeq(Chain, Len(archived) + 1, Len(Chain)) = SubSeq(segment, 1, Len(segment))
    BY <1>1, <1>3, SubSeqOfConcat2 DEF Chain
  <2>2. QED
    BY <1>1, <2>1, SubSeqFull
<1>4. QED
  BY <1>1, <1>2, <1>3

-----------------------------------------------------------------------------
(* What a writer's step does to the types, the rows and the lock.          *)

WriterAction(w) ==
    \/ \E e \in Event : BeginAppend(w, e)
    \/ TrustTail(w) \/ VerifyTail(w)
    \/ WriteIntent(w) \/ RepairTornTail(w) \/ WriteRow(w)
    \/ CommitAnchor(w) \/ ReturnAppend(w)
    \/ VerifyChain(w)
    \/ BeginRotate(w) \/ RefuseSeal(w) \/ SealAnchor(w)
    \/ RenameSegment(w) \/ BuildIndex(w)
    \/ Interrupt(w) \/ TearRow(w)

\* Every tail, cached or read, is a hash.
LEMMA TailTypes ==
    ASSUME WriterType, NEW w \in Writer
    PROVE  /\ Chain \in Seq(Row) /\ TailHash(Chain) \in Hash /\ TailHash(segment) \in Hash
           /\ RepairedAnchor \in Anchor
           /\ \A a \in Anchor : FreshCache(a) \in Cache
           /\ LatestCache(w) \in Cache
           /\ \A c \in Cache : Remembered(c) \in Cache
           /\ AllStale \in [Writer -> Cache]
<1>1. /\ Chain \in Seq(Row) /\ TailHash(Chain) \in Hash /\ TailHash(segment) \in Hash
  BY ChainTail, TailHashType DEF WriterType
<1>2. RepairedAnchor \in Anchor
  BY <1>1 DEF RepairedAnchor, Anchored, Anchor, Hash, WriterType
<1>3. \A a \in Anchor : FreshCache(a) \in Cache
  BY <1>1 DEF FreshCache, ReadTail, Cache, Anchor, WriterType
<1>4. LatestCache(w) \in Cache
  BY <1>3 DEF LatestCache, WriterType
<1>5. AllStale \in [Writer -> Cache] /\ \A c \in Cache : Remembered(c) \in Cache
  BY ColdCacheType DEF AllStale, Remembered
<1>6. QED
  BY <1>1, <1>2, <1>3, <1>4, <1>5

LEMMA WriterTypeKept ==
    ASSUME WriterType, DraftIsEvent, NEW w \in Writer, WriterAction(w)
    PROVE  WriterType' /\ DraftIsEvent'
<1> USE TailTypes DEF disk, Goto, Acquire, Release, Abandon
<1>1. ASSUME NEW e \in Event, BeginAppend(w, e)
      PROVE  WriterType' /\ DraftIsEvent'
  BY <1>1 DEF BeginAppend, WriterType, DraftIsEvent, Hash, Step
<1>2. CASE TrustTail(w)
  <2>1. LatestCache(w).tail \in Hash
    BY DEF Cache
  <2>2. QED
    BY <1>2, <2>1 DEF TrustTail, WriterType, DraftIsEvent, Step
<1>3. CASE VerifyTail(w)
  <2>1. CASE Verified
    <3> DEFINE latest == IF Repairs THEN FreshCache(RepairedAnchor) ELSE LatestCache(w)
    <3>1. latest \in Cache /\ latest.tail \in Hash /\ Remembered(latest) \in Cache
      BY DEF Cache
    <3>2. /\ pc[w] = "base" /\ anchor' = RepairedAnchor
          /\ base' = [base EXCEPT ![w] = latest.tail]
          /\ cache' = [(IF Repairs THEN AllStale ELSE cache) EXCEPT ![w] = Remembered(latest)]
          /\ pc' = [pc EXCEPT ![w] = "intent"]
          /\ UNCHANGED <<archived, segment, torn, draft>>
      BY <1>3, <2>1 DEF VerifyTail, ExtendVerified
    <3> HIDE DEF latest
    <3>3. cache' \in [Writer -> Cache]
      BY <3>1, <3>2 DEF WriterType
    <3>4. QED
      BY <3>1, <3>2, <3>3 DEF WriterType, DraftIsEvent, Step
  <2>2. CASE ~Verified
    BY <1>3, <2>2 DEF VerifyTail, RefuseInvalid, WriterType, DraftIsEvent, Hash, Step
  <2>3. QED
    BY <2>1, <2>2
<1>4. CASE WriteIntent(w)
  BY <1>4 DEF WriteIntent, Anchored, Anchor, WriterType, DraftIsEvent, Step
<1>5. CASE RepairTornTail(w)
  BY <1>5 DEF RepairTornTail, WriterType, DraftIsEvent
<1>6. CASE WriteRow(w)
  <2>1. NewRow(w) \in Row
    BY <1>6 DEF WriteRow, NewRow, Row, WriterType, DraftIsEvent
  <2>2. QED
    BY <1>6, <2>1 DEF WriteRow, WriterType, DraftIsEvent, Step
<1>7. CASE CommitAnchor(w)
  <2>1. draft[w] \in Hash /\ [tail |-> draft[w], hasEvents |-> TRUE, synced |-> TRUE] \in Cache
    BY DEF Cache, WriterType
  <2>2. anchor' \in Anchor /\ cache' \in [Writer -> Cache]
    BY <1>7, <2>1 DEF CommitAnchor, Anchored, Anchor, Hash
  <2>3. QED
    BY <1>7, <2>2 DEF CommitAnchor, WriterType, DraftIsEvent, Step
<1>8. CASE ReturnAppend(w)
  BY <1>8 DEF ReturnAppend, WriterType, DraftIsEvent, Hash, Step
<1>9. CASE VerifyChain(w)
  BY <1>9 DEF VerifyChain, WriterType, DraftIsEvent
<1>10. CASE BeginRotate(w)
  BY <1>10 DEF BeginRotate, WriterType, DraftIsEvent, Step
<1>11. CASE RefuseSeal(w)
  BY <1>11 DEF RefuseSeal, WriterType, DraftIsEvent, Hash, Step
<1>12. CASE SealAnchor(w)
  BY <1>12 DEF SealAnchor, Anchored, Anchor, Hash, WriterType, DraftIsEvent, Step
<1>13. CASE RenameSegment(w)
  BY <1>13, EmptySeq DEF RenameSegment, WriterType, DraftIsEvent, Step
<1>14. CASE BuildIndex(w)
  BY <1>14, ColdCacheType DEF BuildIndex, WriterType, DraftIsEvent, Hash, Step
<1>15. CASE Interrupt(w)
  BY <1>15, ColdCacheType DEF Interrupt, WriterType, DraftIsEvent, Hash, Step
<1>16. CASE TearRow(w)
  BY <1>16 DEF TearRow, WriterType, DraftIsEvent, Hash, Step
<1>17. QED
  BY <1>1, <1>2, <1>3, <1>4, <1>5, <1>6, <1>7, <1>8, <1>9, <1>10, <1>11,
     <1>12, <1>13, <1>14, <1>15, <1>16 DEF WriterAction

\* Only two steps change rows: one adds a row, one moves them all into the
\* archives.
AddsRow(w) ==
    /\ pc[w] = "row" /\ pc' = [pc EXCEPT ![w] = "commit"]
    /\ archived' = archived /\ segment' = Append(segment, NewRow(w))
    /\ UNCHANGED <<draft, base>>

SealsRows(w) == pc[w] = "rename" /\ archived' = Chain /\ segment' = <<>>

LEMMA RowsOfStep ==
    ASSUME NEW w \in Writer, WriterAction(w)
    PROVE  UNCHANGED <<archived, segment>> \/ AddsRow(w) \/ SealsRows(w)
<1> USE DEF disk, Goto
<1>1. CASE WriteRow(w)
  BY <1>1 DEF WriteRow, AddsRow
<1>2. CASE RenameSegment(w)
  BY <1>2 DEF RenameSegment, SealsRows
<1>3. CASE ~WriteRow(w) /\ ~RenameSegment(w)
  BY <1>3 DEF WriterAction, BeginAppend, TrustTail, VerifyTail, WriteIntent, RepairTornTail,
              CommitAnchor, ReturnAppend, VerifyChain, BeginRotate, RefuseSeal, SealAnchor,
              BuildIndex, Interrupt, TearRow
<1>4. QED
  BY <1>1, <1>2, <1>3

\* A step takes the lock, goes on under it, releases it, or does all of its
\* work while nobody has it.
LockStep(w) ==
    \/ lock = Nobody /\ lock' \in {w, Nobody} /\ pc[w] = "idle"
       /\ \E step \in Step : pc' = [pc EXCEPT ![w] = step] /\ (lock' = w <=> step # "idle")
    \/ pc[w] # "idle" /\ lock' = lock
       /\ \E step \in Step \ {"idle"} : pc' = [pc EXCEPT ![w] = step]
    \/ pc[w] # "idle" /\ lock' = Nobody /\ pc' = [pc EXCEPT ![w] = "idle"]

LEMMA LockOfStep ==
    ASSUME WriterType, NEW w \in Writer, WriterAction(w)
    PROVE  LockStep(w)
<1> USE DEF Step, Acquire, Goto, Release, Abandon, LockStep
<1>1. ASSUME NEW e \in Event, BeginAppend(w, e)
      PROVE  LockStep(w)
  BY <1>1, NobodyAssumption DEF BeginAppend
<1>2. CASE TrustTail(w) \/ WriteIntent(w) \/ WriteRow(w) \/ CommitAnchor(w)
           \/ SealAnchor(w) \/ RenameSegment(w)
  BY <1>2 DEF TrustTail, WriteIntent, WriteRow, CommitAnchor, SealAnchor, RenameSegment
<1>3. CASE VerifyTail(w)
  BY <1>3 DEF VerifyTail, ExtendVerified, RefuseInvalid
<1>4. CASE RepairTornTail(w)
  <2>1. pc' = [pc EXCEPT ![w] = "row"]
    BY <1>4 DEF RepairTornTail, WriterType
  <2>2. QED
    BY <1>4, <2>1 DEF RepairTornTail
<1>5. CASE VerifyChain(w)
  <2>1. pc' = [pc EXCEPT ![w] = "idle"]
    BY <1>5 DEF VerifyChain, WriterType
  <2>2. QED
    BY <1>5, <2>1, NobodyAssumption DEF VerifyChain
<1>6. CASE BeginRotate(w)
  BY <1>6, NobodyAssumption DEF BeginRotate
<1>7. CASE ReturnAppend(w) \/ RefuseSeal(w) \/ BuildIndex(w) \/ Interrupt(w) \/ TearRow(w)
  BY <1>7 DEF ReturnAppend, RefuseSeal, BuildIndex, Interrupt, TearRow
<1>8. QED
  BY <1>1, <1>2, <1>3, <1>4, <1>5, <1>6, <1>7 DEF WriterAction

\* The row goes to the end of the chain ...
LEMMA AppendedChain ==
    ASSUME WriterType, DraftIsEvent, NEW w \in Writer, AddsRow(w)
    PROVE  /\ archived' = archived
           /\ <<NewRow(w)>> \in Seq(Row) /\ Chain' = Chain \o <<NewRow(w)>>
<1>1. NewRow(w) \in Row /\ <<NewRow(w)>> \in Seq(Row)
  BY DEF AddsRow, NewRow, Row, WriterType, DraftIsEvent
<1>2. Append(segment, NewRow(w)) = segment \o <<NewRow(w)>>
  BY <1>1, AppendIsConcat DEF WriterType
<1>3. QED
  BY <1>1, <1>2, ConcatAssociative DEF AddsRow, Chain, WriterType

\* ... and a rotation keeps the chain.
LEMMA SealedChain ==
    ASSUME WriterType, DraftIsEvent, NEW w \in Writer, SealsRows(w)
    PROVE  archived' = archived \o segment /\ Chain' = Chain
<1>1. Chain \in Seq(Row)
  BY SegmentOfChain DEF WriterType
<1>2. Chain' = Chain \o <<>>
  BY DEF SealsRows, Chain
<1>3. QED
  BY <1>1, <1>2, ConcatEmptySeq DEF SealsRows, Chain
=============================================================================
