---------------------------- MODULE TypedMemory ----------------------------
(***************************************************************************)
(* causality.memory.TypedMemory: one log of entries per type.  Every write *)
(* looks and writes under the lock of its log, so it is one step.  Logs    *)
(* may be rewritten: entries are revoked, and swept when they have expired.*)
(***************************************************************************)
EXTENDS Naturals, Sequences, FiniteSets, SequencesExt

CONSTANT MaxDay     \* bound: how often the date changes

ASSUME DayAssumption == MaxDay \in Nat

VARIABLES
    memory,     \* the log of every type
    day,        \* the date
    gone        \* ids of entries that were revoked or swept

memoryVars == <<memory, day, gone>>

MemoryType == {"retrospectives", "failures"}

MemoryInit ==
    /\ memory = [type \in MemoryType |-> <<>>]
    /\ day = 0
    /\ gone = {}

Written(type, id) == {e \in Range(memory[type]) : e.id = id}

\* Mutant: the log is not searched before the entry is written.
RecordBlindly(type, e) ==
    /\ memory' = [memory EXCEPT ![type] = Append(@, e)]
    /\ UNCHANGED <<day, gone>>

\* record_once refuses an id that is there with other content.
Refuses(type, e) == \E x \in Written(type, e.id) : x # e

RecordOnce(type, e) ==
    /\ memory' = IF Written(type, e.id) = {}
                 THEN [memory EXCEPT ![type] = Append(@, e)] ELSE memory
    /\ UNCHANGED <<day, gone>>

\* A time to live of 0 is none.
Expired(e) == e.ttl # 0 /\ day >= e.created + e.ttl

\* Some numbers in their order.
Ascending(S) ==
    [k \in 1..Cardinality(S) |-> CHOOSE i \in S : Cardinality({j \in S : j <= i}) = k]

\* What is left of a log, in its order.
Without(log, out) ==
    LET kept == Ascending({i \in DOMAIN log : log[i] \notin out})
    IN  [k \in DOMAIN kept |-> log[kept[k]]]

Discard(type, out) ==
    /\ out # {}
    /\ memory' = [memory EXCEPT ![type] = Without(@, out)]
    /\ gone' = gone \cup {e.id : e \in out}
    /\ UNCHANGED day

Revoke(type, id) == Discard(type, Written(type, id))

Sweep(type) == Discard(type, {e \in Range(memory[type]) : Expired(e)})

NextDay ==
    /\ day < MaxDay
    /\ day' = day + 1
    /\ UNCHANGED <<memory, gone>>

=============================================================================
