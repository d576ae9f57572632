----------------------------- MODULE EvidenceLog -----------------------------
(***************************************************************************)
(* What the evidence ledger promises its clients, with files, anchors,     *)
(* segments, locks and crashes abstracted away: one totally ordered log    *)
(* that only ever grows at its end, by one event at a time, and an         *)
(* acknowledgement (the return of EvidenceLedger.append) that is only      *)
(* given for an event the log already holds.                               *)
(***************************************************************************)
EXTENDS Sequences, Naturals

CONSTANT Event        \* identities of ledger events (event_id, and its hash)

VARIABLES
    log,              \* the durable chain of events, oldest first
    acked             \* events whose append() returned to its caller

vars == <<log, acked>>

Logged == {log[i] : i \in 1..Len(log)}

\* A ledger may be opened on a history written earlier.
Init ==
    /\ log \in Seq(Event)
    /\ acked = Logged

\* The event becomes durable. An append that dies right after this step is
\* one whose caller never learns that the event is in the log.
Record(e) ==
    /\ e \notin Logged
    /\ log' = Append(log, e)
    /\ UNCHANGED acked

Acknowledge(e) ==
    /\ e \in Logged
    /\ acked' = acked \cup {e}
    /\ UNCHANGED log

Next == \E e \in Event : Record(e) \/ Acknowledge(e)

Spec == Init /\ [][Next]_vars

-----------------------------------------------------------------------------
\* Every acknowledged event is, and stays, in the log.
AckedLogged == acked \subseteq Logged
=============================================================================
