----------------------------- MODULE TaskPromise -----------------------------
(***************************************************************************)
(* What a task promises to whoever reads its log, with sessions, keys,     *)
(* retries, crashes and the order of the appends abstracted away: effects  *)
(* are announced one at a time and done at most once, each only while it   *)
(* is announced; a task is verified only when nothing is left announced    *)
(* and its result is reviewed; and with an outcome everything ends.        *)
(***************************************************************************)
CONSTANT Effect     \* what a task announces before it does it

VARIABLES
    begun,          \* effects that were announced
    open,           \* those of which nobody has yet told the result
    done,           \* effects that have been done
    reviewed,       \* the result as it is has its check, reviews, approvals
    outcome         \* "open", "verified" or "rejected"

vars == <<begun, open, done, reviewed, outcome>>

Init ==
    /\ begun = {} /\ open = {} /\ done = {}
    /\ reviewed = FALSE
    /\ outcome = "open"

Begin(e) ==
    /\ outcome = "open" /\ open = {} /\ e \notin begun
    /\ begun' = begun \cup {e}
    /\ open' = {e}
    /\ UNCHANGED <<done, reviewed, outcome>>

\* The world changes; who asked for it may never learn that it did.
Perform(e) ==
    /\ outcome = "open" /\ e \in open /\ e \notin done
    /\ done' = done \cup {e}
    /\ UNCHANGED <<begun, open, reviewed, outcome>>

\* The task itself records the result, or a person answers for it.
Close(e) ==
    /\ outcome = "open" /\ e \in open
    /\ open' = open \ {e}
    /\ UNCHANGED <<begun, done, reviewed, outcome>>

\* Checks, verdicts, approvals, and whatever makes them stale.
Review ==
    /\ outcome = "open"
    /\ reviewed' \in BOOLEAN
    /\ UNCHANGED <<begun, open, done, outcome>>

Accept ==
    /\ outcome = "open" /\ open = {} /\ reviewed
    /\ outcome' = "verified"
    /\ UNCHANGED <<begun, open, done, reviewed>>

Reject ==
    /\ outcome = "open"
    /\ outcome' = "rejected"
    /\ UNCHANGED <<begun, open, done, reviewed>>

Next ==
    \/ \E e \in Effect : Begin(e) \/ Perform(e) \/ Close(e)
    \/ Review \/ Accept \/ Reject

Spec == Init /\ [][Next]_vars

=============================================================================
