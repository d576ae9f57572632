------------------------------- MODULE Agenda -------------------------------
(***************************************************************************)
(* causality.agenda.Agenda: the backlog.  An instance loads the file when  *)
(* it is created and writes its whole list after every change; nothing     *)
(* locks the file or reads it again.  Items are numbers in the order of    *)
(* items(): higher priority first, then the older one.                     *)
(***************************************************************************)
EXTENDS Naturals, FiniteSets, FiniteSetsExt

CONSTANTS Item, Instance

ASSUME ItemAssumption == Item \subseteq Nat

VARIABLES
    saved,      \* the file: the status of every item
    held,       \* the list of every instance
    clobbered   \* items whose saved status an old list has replaced

agenda == <<saved, held, clobbered>>

Status == {"absent", "pending", "active", "done", "dropped"}
NoItems == [it \in Item |-> "absent"]

AgendaInit ==
    /\ saved = NoItems
    /\ held = [i \in Instance |-> NoItems]
    /\ clobbered = {}

\* _transition and add: the list changes in one place, all of it is saved.
Save(i, it, status) ==
    /\ held' = [held EXCEPT ![i][it] = status]
    /\ saved' = held'[i]
    /\ clobbered' = clobbered \cup {x \in Item : held[i][x] # saved[x]}

Add(i, it) ==
    /\ \A j \in Instance : held[j][it] = "absent"
    /\ saved[it] = "absent" /\ it \notin clobbered
    /\ Save(i, it, "pending")

\* People leave what is done alone.
Drop(i, it) ==
    /\ held[i][it] \in {"pending", "active"}
    /\ Save(i, it, "dropped")

NextPending(i) == {it \in Item : /\ held[i][it] = "pending"
                                 /\ \A x \in Item : held[i][x] = "pending" => it <= x}

Activate(i, it) == Save(i, it, "active")
MarkDone(i, it) == Save(i, it, "done")
Defer(i, it) == Save(i, it, "pending")

\* __post_init__ of a new instance, and the end of an old one.
Load(i) ==
    /\ held' = [held EXCEPT ![i] = saved]
    /\ UNCHANGED <<saved, clobbered>>

Forget(i) ==
    /\ held' = [held EXCEPT ![i] = NoItems]
    /\ UNCHANGED <<saved, clobbered>>

=============================================================================
