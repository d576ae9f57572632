---------------------------- MODULE LedgerReaders ----------------------------
(***************************************************************************)
(* Reading the evidence ledger while others append to it and rotate it.    *)
(*                                                                         *)
(* EvidenceLedger.events / events_for_contract / contract_snapshot take no *)
(* lock: they list and parse the archives, then take the stat token of the *)
(* current file and its anchor, and parse the current file unless the      *)
(* token is the one their parsed-event cache was filled under.             *)
(* TaskLifecycle.get and HITLGate.complete do the same under file_lock.    *)
(*                                                                         *)
(* The writers are those of EvidenceLedger, step for step; an instance     *)
(* does one thing at a time, so it reads while it is not writing.          *)
(***************************************************************************)
EXTENDS EvidenceLedger

VARIABLES
    view,             \* per instance: the parsed-event cache of the current file
    kept,             \* the cache found valid under pre_token, in append()
    scan              \* per instance: the read in progress

readers == <<view, kept, scan>>
allVars == <<vars, view, kept, scan>>

-----------------------------------------------------------------------------
\* _cached_events and _events_synced_token; rows nobody can use are dropped.
Unread == [rows |-> <<>>, synced |-> FALSE]

Parsed(rows) == [rows |-> rows, synced |-> TRUE]

AllUnread == [w \in Writer |-> Unread]

\* at: where the read is; got: the rows collected; token: no write happened
\* since the stat token was taken; before: rows in the chain at the call.
NoScan == [at |-> "idle", all |-> FALSE, locked |-> FALSE, got |-> <<>>,
           token |-> FALSE, before |-> 0]

\* A write ends the validity of every token taken so far.
TokensLost == [w \in Writer |-> [scan[w] EXCEPT !.token = FALSE]]

ReadersInit ==
    /\ Init
    /\ view = AllUnread
    /\ kept = AllUnread
    /\ scan = [w \in Writer |-> NoScan]

-----------------------------------------------------------------------------
Reading(w) == scan[w].at # "idle"

\* append(): the cache is extended by the new row only if it was valid right
\* before the append's first write.
AppendNotesCache(w) ==
    /\ WriteIntent(w)
    /\ kept' = [kept EXCEPT ![w] = view[w]]
    /\ view' = AllUnread
    /\ scan' = TokensLost

\* Mutant: the cache is extended without comparing pre_token.
ExtendedViewUnchecked(w) == Parsed(Append(kept[w].rows, NewRow(w)))

ExtendedView(w) ==
    IF kept[w].synced THEN Parsed(Append(kept[w].rows, NewRow(w))) ELSE Unread

AppendExtendsCache(w) ==
    /\ CommitAnchor(w)
    /\ view' = [AllUnread EXCEPT ![w] = ExtendedView(w)]
    /\ kept' = [kept EXCEPT ![w] = Unread]
    /\ scan' = TokensLost

\* rotate() rewrites the anchor even when its text does not change.
SealLosesTokens(w) ==
    /\ SealAnchor(w)
    /\ view' = AllUnread
    /\ scan' = TokensLost
    /\ UNCHANGED kept

\* The process dies or the operation raises.
InterruptedWriter(w) ==
    /\ Interrupt(w)
    /\ view' \in {view, [view EXCEPT ![w] = Unread]}
    /\ kept' = [kept EXCEPT ![w] = Unread]
    /\ UNCHANGED scan

TornAppend(w) ==
    /\ TearRow(w)
    /\ view' = AllUnread
    /\ kept' = [kept EXCEPT ![w] = Unread]
    /\ scan' = TokensLost

\* Every other step of a writer: tokens are lost if it wrote a file.
OtherWriterStep(w) ==
    /\ \/ \E e \in Event : BeginAppend(w, e)
       \/ TrustTail(w) \/ VerifyTail(w)
       \/ RepairTornTail(w) \/ WriteRow(w) \/ ReturnAppend(w)
       \/ VerifyChain(w)
       \/ BeginRotate(w) \/ RefuseSeal(w)
       \/ RenameSegment(w) \/ BuildIndex(w)
    /\ IF disk' = disk THEN UNCHANGED <<view, scan>>
                       ELSE view' = AllUnread /\ scan' = TokensLost
    /\ UNCHANGED kept

WriterStep(w) ==
    /\ ~Reading(w)
    /\ \/ AppendNotesCache(w) \/ AppendExtendsCache(w) \/ SealLosesTokens(w)
       \/ InterruptedWriter(w) \/ TornAppend(w) \/ OtherWriterStep(w)

-----------------------------------------------------------------------------
\* Mutant: a caller that reads before it has the lock.
BeginReadUnlocked(w, all, locked) ==
    /\ pc[w] = "idle"
    /\ ~Reading(w)
    /\ scan' = [scan EXCEPT ![w] = [NoScan EXCEPT !.at = IF all THEN "list" ELSE "stat",
                                                  !.all = all, !.locked = locked,
                                                  !.before = Len(Chain)]]
    /\ UNCHANGED <<vars, view, kept>>

\* events(all_segments=...), without and with the lock held by the caller.
BeginRead(w, all, locked) ==
    /\ pc[w] = "idle"
    /\ ~Reading(w)
    /\ locked => lock = Nobody
    /\ lock' = IF locked THEN w ELSE lock
    /\ scan' = [scan EXCEPT ![w] = [NoScan EXCEPT !.at = IF all THEN "list" ELSE "stat",
                                                  !.all = all, !.locked = locked,
                                                  !.before = Len(Chain)]]
    /\ UNCHANGED <<disk, pc, draft, base, cache, issued, acked, view, kept>>

\* Mutant: the current file is listed among the archives.
ListEverySegment(w) ==
    /\ scan[w].at = "list"
    /\ scan' = [scan EXCEPT ![w].at = "stat", ![w].got = Chain]
    /\ UNCHANGED <<vars, view, kept>>

\* _archived_events: a sealed archive never changes, so that parsing them is
\* one step with listing them.
ListArchives(w) ==
    /\ scan[w].at = "list"
    /\ scan' = [scan EXCEPT ![w].at = "stat", ![w].got = archived]
    /\ UNCHANGED <<vars, view, kept>>

\* _load_events: the token first ...
ReuseView(w) ==
    /\ scan[w].at = "stat"
    /\ view[w].synced
    /\ scan' = [scan EXCEPT ![w].at = "return", ![w].got = @ \o view[w].rows]
    /\ UNCHANGED <<vars, view, kept>>

TakeToken(w) ==
    /\ scan[w].at = "stat"
    /\ ~view[w].synced
    /\ scan' = [scan EXCEPT ![w].at = "read", ![w].token = TRUE]
    /\ UNCHANGED <<vars, view, kept>>

\* ... then the rows; a torn file never validates the token.
LoadEvents(w) ==
    /\ scan[w].at = "read"
    /\ view' = [view EXCEPT ![w] =
                    IF scan[w].token /\ ~torn THEN Parsed(segment) ELSE Unread]
    /\ scan' = [scan EXCEPT ![w].at = "return", ![w].got = @ \o segment]
    /\ UNCHANGED <<vars, kept>>

EndScan(w) ==
    /\ scan' = [scan EXCEPT ![w] = NoScan]
    /\ lock' = IF scan[w].locked THEN Nobody ELSE lock

ReturnRows(w) ==
    /\ scan[w].at = "return"
    /\ EndScan(w)
    /\ UNCHANGED <<disk, pc, draft, base, cache, issued, acked, view, kept>>

\* The reader's process dies, with its caches.
ReaderDies(w) ==
    /\ Reading(w)
    /\ EndScan(w)
    /\ view' = [view EXCEPT ![w] = Unread]
    /\ cache' = [cache EXCEPT ![w] = ColdCache]
    /\ UNCHANGED <<disk, pc, draft, base, issued, acked, kept>>

ReadersNext ==
    \E w \in Writer :
        \/ WriterStep(w)
        \/ \E all, locked \in BOOLEAN : BeginRead(w, all, locked)
        \/ ListArchives(w) \/ ReuseView(w) \/ TakeToken(w) \/ LoadEvents(w)
        \/ ReturnRows(w) \/ ReaderDies(w)

ReadersSpec == ReadersInit /\ [][ReadersNext]_allVars

-----------------------------------------------------------------------------
\* A parsed-event cache under an unchanged token holds what the file holds:
\* a warm events() or find() answers like a cold one, whichever instance
\* appended, rotated or repaired the file since it was filled (_load_events,
\* append).
WarmViewIsDisk ==
    \A w \in Writer : view[w].synced => view[w].rows = segment

\* Under the lock (TaskLifecycle.get, HITLGate.complete) the rows handed out
\* are the whole chain, in order, whatever ran before the lock was taken.
LockedReadIsChain ==
    \A w \in Writer :
        scan[w].at = "return" /\ scan[w].all /\ scan[w].locked => scan[w].got = Chain

\* Without the lock a read of all segments may miss sealed rows, but never
\* repeats, reorders or invents one: it is a start of the chain followed by
\* a later run of it.
UnlockedReadInOrder ==
    \A w \in Writer :
        scan[w].at = "return" /\ scan[w].all =>
            \E i, j, k \in 0..Len(Chain) :
                /\ i <= j
                /\ scan[w].got = SubSeq(Chain, 1, i) \o SubSeq(Chain, j + 1, k)

\* events(): "all_segments=True returns the full chain in order across them",
\* the rows there were at the call at the very least.
AllSegmentsIsFullChain ==
    \A w \in Writer :
        scan[w].at = "return" /\ scan[w].all =>
            /\ Len(scan[w].got) >= scan[w].before
            /\ SubSeq(scan[w].got, 1, scan[w].before) = SubSeq(Chain, 1, scan[w].before)
=============================================================================
