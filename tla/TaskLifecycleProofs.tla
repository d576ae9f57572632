------------------------ MODULE TaskLifecycleProofs ------------------------
(***************************************************************************)
(* Proofs about TaskLifecycle for any requests, reviewers and workspaces:  *)
(* an effect runs at most once, a verified task was reviewed as it is, the *)
(* outcome of a task is final, and a task keeps what TaskPromise promises. *)
(***************************************************************************)
EXTENDS TaskLifecycle, FiniteSetTheorems, TLAPS

(***************************************************************************)
(* The inductive invariant.                                                *)
(***************************************************************************)

\* A handler that records a completion has decided it, one that finishes it
\* has recorded it, and nothing is written between the look at the history
\* and the append that rests on it.
GateInv ==
    job.op = "complete" =>
        /\ job.at \in {"record", "append"} => gate[job.key].status # "none"
        /\ job.at \in {"finish", "settle"} => gate[job.key].status = "recorded"
        /\ job.at \in {"append", "settle"} => gate[job.key].fresh

\* An effect has not run before its intent is in the log, nor between the
\* intent and the handler that wrote it starting the effect.
IntentInv ==
    /\ \A a \in Action : ran[a] <= 1 /\ (work[a] = "none" => ran[a] = 0)
    /\ job.op = "action" /\ job.at = "start" => work[job.key] = "none"
    /\ job.op = "action" /\ job.at = "effect" =>
           work[job.key] = "open" /\ ran[job.key] = 0

\* Once the outcome is in the log, nothing is in flight but its own handler
\* and an approval that has not yet looked at the state of the task.
EndInv ==
    rejected \/ durable \in Terminal =>
        /\ job.op \in {"idle", "approve", "reject"}
        /\ job.op = "approve" => job.at = "decided"

\* At most one thing is unresolved, and nothing else is in flight with it:
\* handlers that work start from a resolved log, and an effect in flight is
\* its only orphan.
BlockInv ==
    /\ \A e, f \in Orphans : e = f
    /\ Orphans # {} => Unfinished = {}
    /\ job # Idle /\ job.at = "start" => Unresolved = {}
    /\ job.op \in {"action", "verify"} /\ job.at \notin {"start", "block"} =>
           Orphans = {job.key} /\ Unfinished = {}
    /\ job.op = "complete" => Orphans = {}

\* An answer is about the effect it finds open, which it then closes; the
\* reservation lets no second answer begin in between.
RecoveryInv ==
    /\ \A r \in Recovery :
         /\ recovery[r] = "decided" => work[Target(r)] = "open"
         /\ recovery[r] \in {"recorded", "settled"} => work[Target(r)] = "resolved"
    /\ \A r, q \in Recovery : recovery[r] = "decided" /\ recovery[q] = "decided" => r = q
    /\ OneDecisionPerEffect
    /\ job.op \in {"action", "verify"} => \A r \in Recovery : recovery[r] # "decided"
    /\ job.op \in {"action", "verify"} /\ job.at = "start" => work[job.key] = "none"
    /\ job.op = "resolve" =>
         /\ job.at = "blocked" => /\ work[Target(job.key)] = "open"
                                  /\ \A r \in Recovery : recovery[r] # "decided"
         /\ job.at # "blocked" => recovery[job.key] = job.at

\* A decision that nothing has followed still has its review.
FreshInv ==
    \A c \in Completion :
        gate[c].fresh => /\ gate[c].status # "none"
                         /\ gate[c].decision = "pass" => Reviewed

\* A pass that nothing has followed rests on the check of the workspace the
\* gate examined; a handler that is about to write the transition of a pass
\* has seen the workspace that the decision names.
SnapshotInv ==
    /\ \A c \in Completion :
         gate[c].fresh /\ gate[c].decision = "pass" =>
             review.check = <<"pass", gate[c].examined>>
    /\ job.op = "complete" /\ job.at = "settle" =>
         job.edited \/ (gate[job.key].decision = "pass" =>
                           gate[job.key].workspace = workspace)

\* An approval that is being recorded has been decided.
ApproveInv == job.op = "approve" => approval[job.key] # "none"

IInv ==
    /\ TypeOK
    /\ ApproveInv
    /\ GateInv
    /\ IntentInv
    /\ EndInv
    /\ BlockInv
    /\ RecoveryInv
    /\ FreshInv
    /\ SnapshotInv
    /\ Certified

-----------------------------------------------------------------------------
(***************************************************************************)
(* Handlers in flight and completion decisions.                            *)
(***************************************************************************)

\* The operation of a handler in flight says which shape it has.
LEMMA JobByOp ==
    ASSUME job \in JobType
    PROVE  /\ job.op = "idle" <=> job = Idle
           /\ job.op = "action" => job \in ActionJob
           /\ job.op = "verify" /\ job.at \in {"start", "effect"} => job \in CheckJob
           /\ job.op = "verify" /\ job.at \notin {"start", "effect"} => job \in CheckedJob
           /\ job.op \in {"verdict", "append_evidence"} => job \in ReviewJob
           /\ job.op = "complete" /\ job.at \notin {"decide", "settle"} => job \in CompleteJob
           /\ job.op = "complete" /\ job.at = "decide" => job \in DecideJob
           /\ job.at = "settle" /\ job # Idle => job \in SettleJob
           /\ job.op = "approve" => job \in ApproveJob
           /\ job.op = "reject" => job \in RejectJob
           /\ job.op = "resolve" => job \in ResolveJob
<1>1. CASE job = Idle
  BY <1>1 DEF Idle
<1>2. CASE job \in ActionJob
  BY <1>2 DEF ActionJob, Idle
<1>3. CASE job \in CheckJob
  BY <1>3 DEF CheckJob, Idle
<1>4. CASE job \in CheckedJob
  BY <1>4 DEF CheckedJob, Idle
<1>5. CASE job \in ReviewJob
  BY <1>5 DEF ReviewJob, Idle
<1>6. CASE job \in CompleteJob
  BY <1>6 DEF CompleteJob, Idle
<1>7. CASE job \in DecideJob
  BY <1>7 DEF DecideJob, Idle
<1>8. CASE job \in ApproveJob
  BY <1>8 DEF ApproveJob, Idle
<1>9. CASE job \in RejectJob
  BY <1>9 DEF RejectJob, Idle
<1>10. CASE job \in ResolveJob
  BY <1>10 DEF ResolveJob, Idle
<1>11. CASE job \in SettleJob
  BY <1>11 DEF SettleJob, Idle
<1>12. QED
  BY <1>1, <1>2, <1>3, <1>4, <1>5, <1>6, <1>7, <1>8, <1>9, <1>10, <1>11 DEF JobType

\* A handler that goes on to its next step stays the handler it is.
LEMMA JobAdvances ==
    ASSUME job \in JobType, job # Idle, NEW at
    PROVE  /\ [job EXCEPT !.at = at].op = job.op
           /\ [job EXCEPT !.at = at].key = job.key
           /\ [job EXCEPT !.at = at].at = at
<1>1. CASE job \in ActionJob
  BY <1>1 DEF ActionJob
<1>2. CASE job \in CheckJob
  BY <1>2 DEF CheckJob
<1>3. CASE job \in CheckedJob
  BY <1>3 DEF CheckedJob
<1>4. CASE job \in ReviewJob
  BY <1>4 DEF ReviewJob
<1>5. CASE job \in CompleteJob
  BY <1>5 DEF CompleteJob
<1>6. CASE job \in DecideJob
  BY <1>6 DEF DecideJob
<1>7. CASE job \in ApproveJob
  BY <1>7 DEF ApproveJob
<1>8. CASE job \in RejectJob
  BY <1>8 DEF RejectJob
<1>9. CASE job \in ResolveJob
  BY <1>9 DEF ResolveJob
<1>10. CASE job \in SettleJob
  BY <1>10 DEF SettleJob
<1>11. QED
  BY <1>1, <1>2, <1>3, <1>4, <1>5, <1>6, <1>7, <1>8, <1>9, <1>10 DEF JobType

\* ... and keeps its type.
LEMMA JobMoves ==
    ASSUME job \in JobType
    PROVE  /\ \A at \in {"effect", "ran", "uncertain", "result"} :
                 job.op = "action" => [job EXCEPT !.at = at] \in JobType
           /\ job.op = "verify" /\ job.at = "start" => [job EXCEPT !.at = "effect"] \in JobType
           /\ \A at \in {"result", "block"} :
                 job.op = "verify" /\ job.at \notin {"start", "effect"} =>
                     [job EXCEPT !.at = at] \in JobType
           /\ \A at \in {"append", "finish"} :
                 job.op = "complete" /\ job.at \in {"record", "append"} =>
                     [job EXCEPT !.at = at] \in JobType
           /\ job.op = "approve" => [job EXCEPT !.at = "reopen"] \in JobType
           /\ \A at \in {"decided", "recorded"} :
                 job.op = "resolve" => [job EXCEPT !.at = at] \in JobType
<1>1. ASSUME NEW at \in {"effect", "ran", "uncertain", "result"}, job \in ActionJob
      PROVE  [job EXCEPT !.at = at] \in ActionJob
  BY <1>1 DEF ActionJob
<1>2. ASSUME job \in CheckJob
      PROVE  [job EXCEPT !.at = "effect"] \in CheckJob
  BY <1>2 DEF CheckJob
<1>3. ASSUME NEW at \in {"result", "block"}, job \in CheckedJob
      PROVE  [job EXCEPT !.at = at] \in CheckedJob
  BY <1>3 DEF CheckedJob
<1>4. ASSUME NEW at \in {"append", "finish"}, job \in CompleteJob
      PROVE  [job EXCEPT !.at = at] \in CompleteJob
  BY <1>4 DEF CompleteJob
<1>5. ASSUME job \in ApproveJob
      PROVE  [job EXCEPT !.at = "reopen"] \in ApproveJob
  BY <1>5 DEF ApproveJob
<1>6. ASSUME NEW at \in {"decided", "recorded"}, job \in ResolveJob
      PROVE  [job EXCEPT !.at = at] \in ResolveJob
  BY <1>6 DEF ResolveJob
<1>7. QED
  BY <1>1, <1>2, <1>3, <1>4, <1>5, <1>6, JobByOp DEF JobType

\* The parts of a handler in flight.
LEMMA JobParts ==
    ASSUME job \in JobType
    PROVE  /\ job.op = "action" => job.key \in Action
           /\ job.op = "verify" => job.key \in Check
           /\ job \in CheckedJob => job.status \in {"pass", "fail", "timeout", "unsafe"}
                                    /\ job.seen \in Workspace
           /\ job.op = "complete" => job.key \in Completion
           /\ job \in DecideJob => job.seen \in Workspace
           /\ job.op = "approve" => job.key \in Approval
           /\ job.op = "resolve" => job.key \in Recovery
<1>1. /\ job \in ActionJob => job.key \in Action
      /\ job \in CheckJob => job.key \in Check
      /\ job \in CheckedJob => job.key \in Check
                               /\ job.status \in {"pass", "fail", "timeout", "unsafe"}
                               /\ job.seen \in Workspace
      /\ job \in CompleteJob => job.key \in Completion
      /\ job \in DecideJob => job.key \in Completion /\ job.seen \in Workspace
      /\ job \in SettleJob => job.key \in Completion
      /\ job \in ApproveJob => job.key \in Approval
      /\ job \in ResolveJob => job.key \in Recovery
  BY DEF ActionJob, CheckJob, CheckedJob, CompleteJob, DecideJob, SettleJob,
         ApproveJob, ResolveJob
<1>2. QED
  BY <1>1, JobByOp

\* An edit leaves the handler in flight as it is, except that one about to
\* write a transition is now late.
LEMMA DriftJob ==
    ASSUME job \in JobType, Drift
    PROVE  /\ job' \in JobType
           /\ \/ job' = job /\ ~(job.op = "complete" /\ job.at = "settle")
              \/ /\ job.op = "complete" /\ job.at = "settle"
                 /\ job'.op = "complete" /\ job'.at = "settle"
                 /\ job'.key = job.key /\ job'.edited
<1>1. CASE job # Idle /\ job.at = "settle"
  <2>1. job \in SettleJob
    BY <1>1, JobByOp
  <2>2. job' = [job EXCEPT !.edited = TRUE]
    BY <1>1 DEF Drift
  <2>3. QED
    BY <2>1, <2>2 DEF SettleJob, JobType
<1>2. CASE ~(job # Idle /\ job.at = "settle")
  <2>1. job' = job
    BY <1>2 DEF Drift
  <2>2. QED
    BY <1>2, <2>1 DEF Idle
<1>3. QED
  BY <1>1, <1>2

\* What a handler about to write a transition looks like.
LEMMA SettlingType ==
    ASSUME NEW c \in Completion
    PROVE  /\ Settling(c) \in JobType
           /\ Settling(c).op = "complete" /\ Settling(c).at = "settle"
           /\ Settling(c).key = c
  BY DEF Settling, SettleJob, JobType

\* An event makes decisions stale and changes nothing else of them.
LEMMA StaleType ==
    ASSUME gate \in [Completion -> Ungated \cup Gated]
    PROVE  /\ Stale \in [Completion -> Ungated \cup Gated]
           /\ \A c \in Completion : /\ Stale[c].status = gate[c].status
                                    /\ gate[c].status = "none" <=> gate[c] \notin Gated
                                    /\ Stale[c] \in Gated <=> gate[c] \in Gated
<1>1. ASSUME NEW c \in Completion
      PROVE  /\ [gate[c] EXCEPT !.fresh = FALSE] \in Ungated \cup Gated
             /\ [gate[c] EXCEPT !.fresh = FALSE].status = gate[c].status
             /\ gate[c].status = "none" <=> gate[c] \notin Gated
             /\ [gate[c] EXCEPT !.fresh = FALSE] \in Gated <=> gate[c] \in Gated
  <2>1. CASE gate[c] \in Ungated
    BY <2>1 DEF Ungated, Gated
  <2>2. CASE gate[c] \in Gated
    BY <2>2 DEF Ungated, Gated
  <2>3. QED
    BY <2>1, <2>2
<1>2. QED
  BY <1>1 DEF Stale

\* The types of what the steps write.
LEMMA TransitionType ==
    ASSUME durable \in TaskState, NEW from, NEW to \in TaskState, Transition(from, to)
    PROVE  durable' \in TaskState /\ broken' \in BOOLEAN
  BY DEF Transition

LEMMA DecisionType ==
    ASSUME gate \in [Completion -> Ungated \cup Gated], NEW c \in Completion
    PROVE  /\ \A w, x \in Workspace :
                [Stale EXCEPT ![c] = [status |-> "gated", fresh |-> TRUE,
                                      decision |-> GateVerdict, workspace |-> w,
                                      examined |-> x]]
                    \in [Completion -> Ungated \cup Gated]
           /\ \A status \in {"recorded", "settled"} : gate[c].status # "none" =>
                /\ [Stale EXCEPT ![c] = [gate[c] EXCEPT !.status = status]]
                       \in [Completion -> Ungated \cup Gated]
                /\ [Stale EXCEPT ![c] = [Stale[c] EXCEPT !.status = status]]
                       \in [Completion -> Ungated \cup Gated]
                /\ [gate[c] EXCEPT !.status = status].status = status
<1>1. ASSUME NEW w \in Workspace, NEW x \in Workspace
      PROVE  [status |-> "gated", fresh |-> TRUE, decision |-> GateVerdict, workspace |-> w,
              examined |-> x] \in Gated
  <2>1. GateVerdict \in {"pass", "repair", "escalate"}
    BY DEF GateVerdict
  <2>2. QED
    BY <2>1 DEF Gated
<1>2. ASSUME NEW d \in Gated, NEW status \in {"recorded", "settled"}
      PROVE  [d EXCEPT !.status = status] \in Gated /\ [d EXCEPT !.status = status].status = status
  BY DEF Gated
<1>3. gate[c].status # "none" => gate[c] \in Gated /\ Stale[c] \in Gated
  BY StaleType
<1>4. QED
  BY <1>1, <1>2, <1>3, StaleType

Review == [check : {<<>>} \cup ({"pass", "fail", "timeout"} \X Workspace),
           votes : [Verifier -> {"none", "twice"} \cup Vote],
           final : BOOLEAN]

LEMMA ReviewType ==
    ASSUME review \in Review
    PROVE  /\ NoReview \in Review
           /\ \A status \in {"pass", "fail", "timeout"}, w \in Workspace :
                [NoReview EXCEPT !.check = <<status, w>>] \in Review
           /\ [review EXCEPT !.final = TRUE] \in Review
           /\ \A x \in Verifier, vote \in Vote :
                [review EXCEPT !.votes[x] = IF @ = "none" THEN vote ELSE "twice",
                               !.final = FALSE] \in Review
<1>1. NoReview \in Review
  BY DEF NoReview, Review
<1>2. \A status \in {"pass", "fail", "timeout"}, w \in Workspace :
         [NoReview EXCEPT !.check = <<status, w>>] \in Review
  BY DEF NoReview, Review
<1>3. [review EXCEPT !.final = TRUE] \in Review
  BY DEF Review
<1>4. ASSUME NEW x \in Verifier, NEW vote \in Vote
      PROVE  [review EXCEPT !.votes[x] = IF @ = "none" THEN vote ELSE "twice",
                            !.final = FALSE] \in Review
  BY DEF Review
<1>5. QED
  BY <1>1, <1>2, <1>3, <1>4

-----------------------------------------------------------------------------
(***************************************************************************)
(* Every step keeps the types, and no completion is recorded undecided.    *)
(***************************************************************************)

LEMMA StartType ==
    ASSUME IInv, NEW op, NEW key, Start(op, key),
           [op |-> op, key |-> key, at |-> "start"] \in JobType
    PROVE  TypeOK' /\ GateInv'
  BY DEF IInv, TypeOK, GateInv, Start, records

LEMMA ExecuteType == IInv /\ Execute => TypeOK' /\ GateInv'
<1> SUFFICES ASSUME IInv, Execute PROVE TypeOK' /\ GateInv'
  OBVIOUS
<1> USE DEF IInv, TypeOK, records
<1>1. CASE PassPlanGate
  <2>1. TypeOK'
    BY <1>1, TransitionType, StaleType DEF PassPlanGate, TaskState, JobType
  <2>2. GateInv'
    BY <1>1 DEF PassPlanGate, GateInv, Idle
  <2>3. QED
    BY <2>1, <2>2
<1>2. CASE BeginExecuting
  <2>1. TypeOK'
    BY <1>2, TransitionType, StaleType DEF BeginExecuting, TaskState
  <2>2. GateInv'
    BY <1>2 DEF BeginExecuting, GateInv
  <2>3. QED
    BY <2>1, <2>2
<1>3. ASSUME NEW a \in Action, BeginAction(a)
      PROVE  TypeOK' /\ GateInv'
  <2>1. [op |-> "action", key |-> a, at |-> "start"] \in JobType
    BY DEF ActionJob, JobType
  <2>2. QED
    BY <1>3, <2>1, StartType DEF BeginAction
<1>4. ASSUME NEW v \in Check, BeginCheck(v)
      PROVE  TypeOK' /\ GateInv'
  <2>1. [op |-> "verify", key |-> v, at |-> "start"] \in JobType
    BY DEF CheckJob, JobType
  <2>2. QED
    BY <1>4, <2>1, StartType DEF BeginCheck
<1>5. ASSUME NEW v \in Check, ReplayCheck(v)
      PROVE  TypeOK' /\ GateInv'
  <2>1. TypeOK'
    BY <1>5, TransitionType, StaleType DEF ReplayCheck, TaskState
  <2>2. GateInv'
    BY <1>5 DEF ReplayCheck, GateInv, Free, Idle
  <2>3. QED
    BY <2>1, <2>2
<1>6. CASE RefuseAction
  BY <1>6, StaleType DEF RefuseAction, GateInv, Idle, JobType
<1>7. CASE WriteIntent
  <2>1. /\ [job EXCEPT !.at = "effect"] \in JobType
        /\ job.key \in Effect
        /\ [job EXCEPT !.at = "effect"].at = "effect"
    BY <1>7, JobMoves, JobParts, JobAdvances
       DEF WriteIntent, Running, InStep, Effect, Idle
  <2>2. TypeOK'
    BY <1>7, <2>1, StaleType DEF WriteIntent
  <2>3. GateInv'
    BY <1>7, <2>1 DEF WriteIntent, GateInv
  <2>4. QED
    BY <2>2, <2>3
<1>8. CASE RunEffect
  <2>1. PICK at \in {"ran", "uncertain"} : job' = [job EXCEPT !.at = at]
    BY <1>8 DEF RunEffect
  <2>2. /\ job' \in JobType /\ job'.at = at /\ job.key \in Action
    <3>1. job.op = "action" /\ job # Idle /\ job \in JobType
      BY <1>8 DEF RunEffect, InStep, Idle
    <3>2. at \in {"effect", "ran", "uncertain", "result"}
      OBVIOUS
    <3>3. [job EXCEPT !.at = at] \in JobType
      BY <3>1, <3>2, JobMoves
    <3>4. QED
      BY <2>1, <3>1, <3>3, JobParts, JobAdvances
  <2>3. ran' \in [Action -> Nat]
    BY <1>8, <2>2 DEF RunEffect
  <2>4. TypeOK'
    BY <1>8, <2>2, <2>3 DEF RunEffect
  <2>5. GateInv'
    BY <2>2 DEF GateInv
  <2>6. QED
    BY <2>4, <2>5
<1>9. CASE RecordEffect
  <2>1. /\ [job EXCEPT !.at = "result"] \in JobType
        /\ [job EXCEPT !.at = "result"].at = "result"
    BY <1>9, JobMoves, JobAdvances DEF RecordEffect, InStep, Idle
  <2>2. QED
    BY <1>9, <2>1, StaleType, ReviewType DEF RecordEffect, GateInv, Review
<1>10. CASE RecordUncertain
  BY <1>10, StaleType, ReviewType DEF RecordUncertain, GateInv, Review, Idle, JobType
<1>11. CASE WriteResult
  <2>1. job.key \in Effect
    BY <1>11, JobParts DEF WriteResult, InStep, Effect
  <2>2. QED
    BY <1>11, <2>1, StaleType DEF WriteResult, GateInv, Idle, JobType
<1>12. CASE RunCheck
  <2>1. PICK status \in {"pass", "fail", "timeout", "unsafe"} :
           job' = [op |-> "verify", key |-> job.key, at |-> "evidence",
                   status |-> status, seen |-> workspace']
    BY <1>12 DEF RunCheck
  <2>2. job' \in JobType
    BY <1>12, <2>1, JobParts DEF RunCheck, InStep, CheckedJob, JobType
  <2>3. QED
    BY <1>12, <2>1, <2>2 DEF RunCheck, GateInv
<1>13. CASE RecordEvidence
  <2>1. /\ [job EXCEPT !.at = "result"] \in JobType
        /\ [job EXCEPT !.at = "result"].at = "result"
        /\ job.status \in {"pass", "fail", "timeout", "unsafe"} /\ job.seen \in Workspace
    BY <1>13, JobMoves, JobAdvances, JobByOp, JobParts DEF RecordEvidence, InStep, Idle
  <2>2. review' \in Review
    <3>1. review \in Review
      BY DEF Review
    <3>2. CASE job.status = "unsafe"
      BY <1>13, <3>1, <3>2, ReviewType DEF RecordEvidence
    <3>3. CASE job.status # "unsafe"
      <4>1. job.status \in {"pass", "fail", "timeout"}
        BY <2>1, <3>3
      <4>2. [NoReview EXCEPT !.check = <<job.status, job.seen>>] \in Review
        BY <2>1, <3>1, <4>1, ReviewType
      <4>3. QED
        BY <1>13, <3>3, <4>2 DEF RecordEvidence
    <3>4. QED
      BY <3>2, <3>3
  <2>3. QED
    BY <1>13, <2>1, <2>2, StaleType DEF RecordEvidence, GateInv, Review
<1>14. CASE WriteCheckResult
  <2>1. /\ [job EXCEPT !.at = "block"] \in JobType
        /\ [job EXCEPT !.at = "block"].at = "block"
        /\ job.key \in Effect
    BY <1>14, JobMoves, JobAdvances, JobParts DEF WriteCheckResult, InStep, Idle, Effect
  <2>2. job' \in JobType /\ (job' = Idle \/ job'.at = "block")
    BY <1>14, <2>1 DEF WriteCheckResult, JobType
  <2>3. GateInv'
    BY <2>2 DEF GateInv, Idle
  <2>4. QED
    BY <1>14, <2>1, <2>2, <2>3, StaleType DEF WriteCheckResult
<1>15. CASE BlockAfterCheck
  BY <1>15, TransitionType, StaleType DEF BlockAfterCheck, TaskState, GateInv, Idle, JobType
<1>16. CASE BeginVerdict \/ BeginEvidence
  <2>1. \A op \in {"verdict", "append_evidence"} :
          [op |-> op, key |-> "new", at |-> "start"] \in JobType
    BY DEF ReviewJob, JobType
  <2>2. CASE BeginVerdict
    BY <2>1, <2>2, StartType DEF BeginVerdict
  <2>3. CASE BeginEvidence
    BY <2>1, <2>3, StartType DEF BeginEvidence
  <2>4. QED
    BY <1>16, <2>2, <2>3
<1>17. CASE CastVerdict
  <2>1. review' \in Review
    <3>1. PICK x \in Verifier, vote \in Vote :
             review' = [review EXCEPT
                          !.votes[x] = IF @ = "none" THEN vote ELSE "twice",
                          !.final = FALSE]
      BY <1>17 DEF CastVerdict
    <3>2. review \in Review
      BY DEF Review
    <3>3. QED
      BY <3>1, <3>2, ReviewType
  <2>2. QED
    BY <1>17, <2>1, StaleType DEF CastVerdict, GateInv, Idle, JobType, Review
<1>18. CASE AppendEvidence
  BY <1>18, StaleType DEF AppendEvidence, GateInv, Idle, JobType
<1>19. QED
  BY <1>1, <1>2, <1>3, <1>4, <1>5, <1>6, <1>7, <1>8, <1>9, <1>10, <1>11, <1>12, <1>13,
     <1>14, <1>15, <1>16, <1>17, <1>18 DEF Execute

LEMMA CompleteType == IInv /\ Complete => TypeOK' /\ GateInv'
<1> SUFFICES ASSUME IInv, Complete PROVE TypeOK' /\ GateInv'
  OBVIOUS
<1> USE DEF IInv, TypeOK, records
<1>1. ASSUME NEW c \in Completion, BeginComplete(c)
      PROVE  TypeOK' /\ GateInv'
  <2>1. [op |-> "complete", key |-> c, at |-> "start"] \in JobType
    BY DEF CompleteJob, JobType
  <2>2. QED
    BY <1>1, <2>1, StartType DEF BeginComplete
<1>2. ASSUME NEW c \in Completion, ResumeComplete(c)
      PROVE  TypeOK' /\ GateInv'
  <2>1. [op |-> "complete", key |-> c, at |-> "record"] \in JobType
    BY DEF CompleteJob, JobType
  <2>2. QED
    BY <1>2, <2>1 DEF ResumeComplete, GateInv
<1>3. ASSUME NEW c \in Completion, ReplayIntervention(c)
      PROVE  TypeOK' /\ GateInv'
  <2>1. /\ \E from : SettleCompletion(c, from)
        /\ gate[c].status = "recorded" /\ job = Idle
        /\ UNCHANGED <<rejected, records, review, workspace, ran, job>>
    BY <1>3 DEF ReplayIntervention, Free
  <2>2. PICK from : SettleCompletion(c, from)
    BY <2>1
  <2>3. CompletionTarget(c) \in TaskState
    BY DEF CompletionTarget, TaskState
  <2>4. durable' \in TaskState /\ broken' \in BOOLEAN
    BY <2>2, <2>3, TransitionType DEF SettleCompletion
  <2>5. gate' \in [Completion -> Ungated \cup Gated]
    BY <2>1, <2>2, DecisionType DEF SettleCompletion
  <2>6. GateInv'
    BY <2>1 DEF GateInv, Idle
  <2>7. QED
    BY <2>1, <2>4, <2>5, <2>6
<1>4. CASE TakeFingerprint
  <2>1. job' \in JobType
    BY <1>4, JobParts DEF TakeFingerprint, Running, InStep, DecideJob, JobType
  <2>2. QED
    BY <1>4, <2>1 DEF TakeFingerprint, GateInv
<1>5. CASE DecideCompletion
  <2>1. job.key \in Completion /\ job.seen \in Workspace
    BY <1>5, JobParts, JobByOp DEF DecideCompletion, InStep
  <2>2. job' \in JobType
    BY <1>5, <2>1 DEF DecideCompletion, CompleteJob, JobType
  <2>3. gate' \in [Completion -> Ungated \cup Gated] /\ gate'[job.key].status = "gated"
    BY <1>5, <2>1, DecisionType, StaleType DEF DecideCompletion
  <2>4. QED
    BY <1>5, <2>2, <2>3 DEF DecideCompletion, GateInv
<1>6. CASE RefuseStale
  BY <1>6 DEF RefuseStale, GateInv, Idle, JobType
<1>7. CASE RecordCompletion
  <2>1. /\ job.key \in Completion /\ gate[job.key].status # "none"
        /\ job' \in JobType /\ job'.key = job.key /\ job'.at = "finish"
    BY <1>7, JobParts, JobMoves, JobAdvances DEF RecordCompletion, InStep, GateInv, Idle
  <2>2. gate' \in [Completion -> Ungated \cup Gated] /\ gate'[job.key].status = "recorded"
    BY <1>7, <2>1, DecisionType, StaleType DEF RecordCompletion
  <2>3. QED
    BY <1>7, <2>1, <2>2 DEF RecordCompletion, AppendOperation, GateInv
<1>8. CASE FinishCompletion
  <2>1. job.key \in Completion /\ gate[job.key].status # "none"
    BY <1>8, JobParts DEF FinishCompletion, InStep, GateInv
  <2>2. CompletionTarget(job.key) \in TaskState
    BY DEF CompletionTarget, TaskState
  <2>3. durable' \in TaskState /\ broken' \in BOOLEAN
    BY <1>8, <2>2, TransitionType DEF FinishCompletion, SettleCompletion
  <2>4. gate' \in [Completion -> Ungated \cup Gated]
    <3>1. [Stale EXCEPT ![job.key] = [Stale[job.key] EXCEPT !.status = "settled"]]
              \in [Completion -> Ungated \cup Gated]
      BY <2>1, DecisionType
    <3>2. CASE gate[job.key].decision = "repair"
      BY <1>8, <3>2 DEF FinishCompletion
    <3>3. CASE gate[job.key].decision # "repair"
      BY <1>8, <3>1, <3>3 DEF FinishCompletion, SettleCompletion
    <3>4. QED
      BY <3>2, <3>3
  <2>5. QED
    BY <1>8, <2>3, <2>4 DEF FinishCompletion, GateInv, Idle, JobType
<1>9. CASE ConfirmDecision
  <2>1. /\ gate[job.key].status # "none" /\ gate[job.key].fresh
        /\ job' \in JobType /\ job'.key = job.key /\ job'.at = "append"
    BY <1>9, JobMoves, JobAdvances DEF ConfirmDecision, InStep, GateInv, Current, Idle
  <2>2. QED
    BY <1>9, <2>1 DEF ConfirmDecision, GateInv
<1>10. ASSUME NEW c \in Completion, gate[c].status = "recorded", Current(c),
              job' = Settling(c), UNCHANGED <<durable, broken, rejected, records, gate,
                                              review, workspace, ran>>
       PROVE  TypeOK' /\ GateInv'
  BY <1>10, SettlingType DEF GateInv, Current
<1>11. CASE ConfirmRecord
  <2>1. job.key \in Completion /\ gate[job.key].status = "recorded"
    BY <1>11, JobParts DEF ConfirmRecord, InStep, GateInv
  <2>2. QED
    BY <1>10, <1>11, <2>1 DEF ConfirmRecord
<1>12. ASSUME NEW c \in Completion, ReplayCompletion(c)
       PROVE  TypeOK' /\ GateInv'
  BY <1>10, <1>12 DEF ReplayCompletion
<1>13. QED
  BY <1>1, <1>2, <1>3, <1>4, <1>5, <1>6, <1>7, <1>8, <1>9, <1>11, <1>12 DEF Complete

LEMMA ApproveType == IInv /\ Approve => TypeOK' /\ GateInv'
<1> SUFFICES ASSUME IInv, Approve PROVE TypeOK' /\ GateInv'
  OBVIOUS
<1> USE DEF IInv, TypeOK, records
<1>1. \A a \in Approval : [op |-> "approve", key |-> a, at |-> "decided"] \in JobType
  BY DEF ApproveJob, JobType
<1>2. ASSUME NEW a \in Approval, DecideApproval(a)
      PROVE  TypeOK' /\ GateInv'
  <2>1. review' \in Review
    BY <1>2, ReviewType DEF DecideApproval, Review
  <2>2. QED
    BY <1>1, <1>2, <2>1, StaleType DEF DecideApproval, GateInv, Review
<1>3. ASSUME NEW a \in Approval, ResumeApproval(a)
      PROVE  TypeOK' /\ GateInv'
  BY <1>1, <1>3 DEF ResumeApproval, GateInv
<1>4. ASSUME NEW a \in Approval, ReplayApproval(a)
      PROVE  TypeOK' /\ GateInv'
  <2>1. durable' \in TaskState /\ broken' \in BOOLEAN
    BY <1>4, TransitionType DEF ReplayApproval, TaskState
  <2>2. QED
    BY <1>4, <2>1, StaleType DEF ReplayApproval, GateInv, Free, Idle
<1>5. CASE ApprovePlan
  <2>1. durable' \in TaskState /\ broken' \in BOOLEAN
    BY <1>5, TransitionType DEF ApprovePlan, TaskState
  <2>2. QED
    BY <1>5, <2>1, StaleType DEF ApprovePlan, InStep, GateInv
<1>6. CASE RecordApproval
  <2>1. /\ job.key \in Approval /\ [job EXCEPT !.at = "reopen"] \in JobType
        /\ [job EXCEPT !.at = "reopen"].op = "approve"
    BY <1>6, JobParts, JobMoves, JobAdvances DEF RecordApproval, InStep, Idle
  <2>2. job' \in JobType /\ job'.op # "complete"
    BY <1>6, <2>1 DEF RecordApproval, JobType, Idle
  <2>3. QED
    BY <1>6, <2>1, <2>2, StaleType DEF RecordApproval, AppendOperation, GateInv
<1>7. CASE ReopenApproved
  <2>1. durable' \in TaskState /\ broken' \in BOOLEAN
    BY <1>7, TransitionType DEF ReopenApproved, TaskState
  <2>2. job.key \in Approval
    BY <1>7, JobParts DEF ReopenApproved, InStep
  <2>3. QED
    BY <1>7, <2>1, <2>2, StaleType DEF ReopenApproved, GateInv, Idle, JobType
<1>8. CASE DecideRejection
  <2>1. job' \in JobType
    BY <1>8 DEF DecideRejection, RejectJob, JobType
  <2>2. QED
    BY <1>8, <2>1, StaleType DEF DecideRejection, GateInv
<1>9. CASE ApplyRejection
  <2>1. durable' \in TaskState /\ broken' \in BOOLEAN
    BY <1>9, TransitionType DEF ApplyRejection, TaskState
  <2>2. QED
    BY <1>9, <2>1, StaleType DEF ApplyRejection, GateInv, Idle, JobType
<1>10. QED
  BY <1>2, <1>3, <1>4, <1>5, <1>6, <1>7, <1>8, <1>9 DEF Approve

LEMMA ResolveType == IInv /\ Resolve => TypeOK' /\ GateInv'
<1> SUFFICES ASSUME IInv, Resolve PROVE TypeOK' /\ GateInv'
  OBVIOUS
<1> USE DEF IInv, TypeOK, records
<1>1. ASSUME NEW r \in Recovery, SettleRecovery(r)
      PROVE  /\ durable' \in TaskState /\ broken' \in BOOLEAN
             /\ recovery' \in [Recovery -> {"none", "decided", "recorded", "settled"}]
             /\ gate' \in [Completion -> Ungated \cup Gated]
             /\ UNCHANGED <<rejected, work, approval, review, workspace, ran>>
  <2>1. (IF Answer(r) = "reject" THEN "rejected" ELSE "executing") \in TaskState
    BY DEF TaskState
  <2>2. durable' \in TaskState /\ broken' \in BOOLEAN
    BY <1>1, <2>1, TransitionType DEF SettleRecovery
  <2>3. QED
    BY <1>1, <2>2, StaleType DEF SettleRecovery
<1>2. ASSUME NEW r \in Recovery, BeginRecovery(r)
      PROVE  TypeOK' /\ GateInv'
  <2>1. durable' \in TaskState /\ broken' \in BOOLEAN
    BY <1>2, TransitionType DEF BeginRecovery, TaskState
  <2>2. job' \in JobType /\ job'.op = "resolve"
    BY <1>2 DEF BeginRecovery, ResolveJob, JobType
  <2>3. QED
    BY <1>2, <2>1, <2>2, StaleType DEF BeginRecovery, GateInv
<1>3. ASSUME NEW r \in Recovery, ReplayRecovery(r)
      PROVE  TypeOK' /\ GateInv'
  BY <1>1, <1>3 DEF ReplayRecovery, Free, GateInv, Idle
<1>4. job.op = "resolve" =>
        /\ job.key \in Recovery /\ Target(job.key) \in Effect
        /\ \A at \in {"decided", "recorded"} :
             /\ [job EXCEPT !.at = at] \in JobType
             /\ [job EXCEPT !.at = at].op = "resolve"
  BY JobParts, JobMoves, JobAdvances DEF Idle, Recovery, Target
<1>5. CASE DecideRecovery
  BY <1>4, <1>5, StaleType DEF DecideRecovery, InStep, GateInv
<1>6. CASE RecordRecovery
  <2>1. job' \in JobType /\ job'.op # "complete"
    BY <1>4, <1>6 DEF RecordRecovery, InStep, Idle, JobType
  <2>2. QED
    BY <1>4, <1>6, <2>1, StaleType DEF RecordRecovery, InStep, AppendOperation, GateInv
<1>7. CASE ApplyRecovery
  BY <1>1, <1>4, <1>7 DEF ApplyRecovery, InStep, GateInv, Idle, JobType
<1>8. QED
  BY <1>2, <1>3, <1>5, <1>6, <1>7 DEF Resolve

LEMMA StepType == IInv /\ [Next]_vars => TypeOK' /\ GateInv'
<1> SUFFICES ASSUME IInv, [Next]_vars PROVE TypeOK' /\ GateInv'
  OBVIOUS
<1> USE DEF IInv, TypeOK, records
<1>1. CASE Crash
  BY <1>1 DEF Crash, GateInv, Idle, JobType
<1>2. CASE Drift
  <2>1. UNCHANGED <<durable, broken, rejected, records, gate, review, ran>>
        /\ workspace' \in Workspace
    BY <1>2 DEF Drift
  <2>2. /\ job' \in JobType
        /\ job' = job \/ (/\ job.op = "complete" /\ job.at = "settle" /\ job'.at = "settle"
                          /\ job'.key = job.key)
    BY <1>2, DriftJob
  <2>3. GateInv'
    BY <2>1, <2>2 DEF GateInv
  <2>4. QED
    BY <2>1, <2>2, <2>3
<1>3. CASE UNCHANGED vars
  BY <1>3 DEF vars, GateInv
<1>4. QED
  BY <1>1, <1>2, <1>3, ExecuteType, CompleteType, ApproveType, ResolveType DEF Next

-----------------------------------------------------------------------------
(***************************************************************************)
(* Intents and effects.                                                    *)
(***************************************************************************)

\* Records and effects are as they were, and no action is in flight.
LEMMA NoActionInFlight ==
    ASSUME IInv, UNCHANGED <<work, ran>>, job'.op # "action"
    PROVE  IntentInv'
  BY DEF IInv, IntentInv

LEMMA SameHandler ==
    ASSUME IInv, UNCHANGED <<work, ran, job>>
    PROVE  IntentInv'
  BY DEF IInv, IntentInv

\* An effect that is neither unrecorded before nor after.
LEMMA RecordedEffect ==
    ASSUME IInv, NEW e \in Effect, NEW status \in {"completed", "blocking", "resolved"},
           work' = [work EXCEPT ![e] = status], ran' = ran, job'.op # "action"
    PROVE  IntentInv'
  BY DEF IInv, TypeOK, IntentInv, Effect

LEMMA ExecuteIntent == IInv /\ Execute => IntentInv'
<1> SUFFICES ASSUME IInv, Execute PROVE IntentInv'
  OBVIOUS
<1> USE DEF records
<1>1. Idle.op = "idle"
  BY DEF Idle
<1>2. job \in JobType
  BY DEF IInv, TypeOK
<1>3. ASSUME NEW a \in Action, BeginAction(a)
      PROVE  IntentInv'
  <2>1. /\ job' = [op |-> "action", key |-> a, at |-> "start"]
        /\ work[a] = "none" /\ UNCHANGED <<work, ran>>
    BY <1>3 DEF BeginAction, Unrecorded, Start
  <2>2. QED
    BY <2>1 DEF IInv, IntentInv
<1>4. CASE WriteIntent
  <2>1. /\ work' = [work EXCEPT ![job.key] = "open"] /\ ran' = ran
        /\ job' = [job EXCEPT !.at = "effect"]
        /\ job.op \in {"action", "verify"} /\ job.at = "start" /\ job # Idle
    BY <1>1, <1>4 DEF WriteIntent, Running, InStep
  <2>2. job'.op = job.op /\ job'.key = job.key /\ job'.at = "effect"
    BY <1>2, <2>1, JobAdvances
  <2>3. job.op = "action" => job.key \in Action /\ ran[job.key] = 0
    BY <1>2, <2>1, JobParts DEF IInv, IntentInv
  <2>4. job.key \in Effect
    BY <1>2, <2>1, JobParts DEF Effect
  <2>5. QED
    BY <2>1, <2>2, <2>3, <2>4 DEF IInv, TypeOK, IntentInv, Effect
<1>5. CASE RunEffect
  <2>1. /\ job.op = "action" /\ job.at = "effect" /\ job # Idle
        /\ work' = work /\ ran' = [ran EXCEPT ![job.key] = @ + 1]
    BY <1>1, <1>5 DEF RunEffect, InStep
  <2>2. PICK at \in {"ran", "uncertain"} : job' = [job EXCEPT !.at = at]
    BY <1>5 DEF RunEffect
  <2>3. job'.at = at
    BY <1>2, <2>1, <2>2, JobAdvances
  <2>4. job.key \in Action /\ work[job.key] = "open" /\ ran[job.key] = 0
    BY <1>2, <2>1, JobParts DEF IInv, IntentInv
  <2>5. QED
    BY <2>1, <2>3, <2>4 DEF IInv, TypeOK, IntentInv
<1>6. CASE RecordEffect
  <2>1. /\ job.op = "action" /\ job # Idle /\ job' = [job EXCEPT !.at = "result"]
        /\ UNCHANGED <<work, ran>>
    BY <1>1, <1>6 DEF RecordEffect, InStep
  <2>2. job'.at = "result"
    BY <1>2, <2>1, JobAdvances
  <2>3. QED
    BY <2>1, <2>2 DEF IInv, IntentInv
<1>7. CASE WriteResult
  <2>1. job.key \in Effect
    BY <1>2, <1>7, JobParts DEF WriteResult, InStep, Effect
  <2>2. QED
    BY <1>1, <1>7, <2>1, RecordedEffect DEF WriteResult
<1>8. CASE WriteCheckResult
  <2>1. job.op = "verify" /\ job.key \in Effect /\ job # Idle
    BY <1>1, <1>2, <1>8, JobParts DEF WriteCheckResult, InStep, Effect
  <2>2. job'.op # "action"
    BY <1>1, <1>2, <1>8, <2>1, JobAdvances DEF WriteCheckResult
  <2>3. QED
    BY <1>8, <2>1, <2>2, RecordedEffect DEF WriteCheckResult
<1>9. CASE RecordEvidence
  <2>1. job.op = "verify" /\ job # Idle /\ job' = [job EXCEPT !.at = "result"]
    BY <1>1, <1>9 DEF RecordEvidence, InStep
  <2>2. job'.op # "action"
    BY <1>2, <2>1, JobAdvances
  <2>3. QED
    BY <1>9, <2>2, NoActionInFlight DEF RecordEvidence
<1>10. CASE BeginVerdict \/ BeginEvidence \/ \E v \in Check : BeginCheck(v)
  BY <1>10, NoActionInFlight DEF BeginVerdict, BeginEvidence, BeginCheck, Start
<1>11. CASE \/ RefuseAction \/ RecordUncertain \/ BlockAfterCheck
            \/ CastVerdict \/ AppendEvidence
  BY <1>1, <1>11, NoActionInFlight
     DEF RefuseAction, RecordUncertain, BlockAfterCheck, CastVerdict, AppendEvidence
<1>12. CASE BeginExecuting \/ \E v \in Check : ReplayCheck(v)
  BY <1>12, SameHandler DEF BeginExecuting, ReplayCheck
<1>13. CASE PassPlanGate
  BY <1>1, <1>13, NoActionInFlight, SameHandler DEF PassPlanGate
<1>14. CASE RunCheck
  <2>1. job'.op = "verify" /\ UNCHANGED <<work, ran>>
    BY <1>14 DEF RunCheck
  <2>2. QED
    BY <2>1, NoActionInFlight
<1>15. QED
  BY <1>3, <1>4, <1>5, <1>6, <1>7, <1>8, <1>9, <1>10, <1>11, <1>12, <1>13, <1>14 DEF Execute

LEMMA StepIntent == IInv /\ [Next]_vars => IntentInv'
<1> SUFFICES ASSUME IInv, [Next]_vars PROVE IntentInv'
  OBVIOUS
<1> USE DEF records
<1>1. Idle.op = "idle"
  BY DEF Idle
<1>2. job \in JobType
  BY DEF IInv, TypeOK
<1>3. CASE Complete
  <2>1. CASE \E c \in Completion : BeginComplete(c) \/ ResumeComplete(c)
    BY <2>1, NoActionInFlight DEF BeginComplete, ResumeComplete, Start
  <2>2. CASE \E c \in Completion : ReplayCompletion(c) \/ ReplayIntervention(c)
    BY <2>2, SameHandler, NoActionInFlight, SettlingType
       DEF ReplayCompletion, ReplayIntervention
  <2>3. CASE \/ TakeFingerprint \/ DecideCompletion \/ RefuseStale
             \/ ConfirmRecord \/ FinishCompletion
    BY <1>1, <2>3, NoActionInFlight
       DEF TakeFingerprint, DecideCompletion, RefuseStale, ConfirmRecord, Settling,
           FinishCompletion
  <2>4. CASE ConfirmDecision \/ RecordCompletion
    <3>1. job.op = "complete" /\ job # Idle
      BY <1>1, <2>4 DEF ConfirmDecision, RecordCompletion, InStep
    <3>2. \E at : job' = [job EXCEPT !.at = at]
      BY <2>4 DEF ConfirmDecision, RecordCompletion
    <3>3. job'.op # "action"
      BY <1>2, <3>1, <3>2, JobAdvances
    <3>4. UNCHANGED <<work, ran>>
      BY <2>4 DEF ConfirmDecision, RecordCompletion
    <3>5. QED
      BY <3>3, <3>4, NoActionInFlight
  <2>5. QED
    BY <1>3, <2>1, <2>2, <2>3, <2>4 DEF Complete
<1>4. CASE Approve
  <2>1. CASE \/ \E a \in Approval : DecideApproval(a) \/ ResumeApproval(a)
             \/ DecideRejection \/ ReopenApproved \/ ApplyRejection
    BY <1>1, <2>1, NoActionInFlight
       DEF DecideApproval, ResumeApproval, DecideRejection, ReopenApproved, ApplyRejection
  <2>2. CASE ApprovePlan \/ \E a \in Approval : ReplayApproval(a)
    BY <2>2, SameHandler DEF ApprovePlan, ReplayApproval
  <2>3. CASE RecordApproval
    <3>1. job.op = "approve" /\ job # Idle
      BY <1>1, <2>3 DEF RecordApproval, InStep
    <3>2. job'.op # "action"
      BY <1>1, <1>2, <2>3, <3>1, JobAdvances DEF RecordApproval
    <3>3. QED
      BY <2>3, <3>2, NoActionInFlight DEF RecordApproval
  <2>4. QED
    BY <1>4, <2>1, <2>2, <2>3 DEF Approve
<1>5. CASE Resolve
  <2>1. CASE \E r \in Recovery : BeginRecovery(r)
    BY <2>1, NoActionInFlight DEF BeginRecovery
  <2>2. CASE \E r \in Recovery : ReplayRecovery(r)
    BY <2>2, SameHandler DEF ReplayRecovery, SettleRecovery
  <2>3. CASE ApplyRecovery
    BY <1>1, <2>3, NoActionInFlight DEF ApplyRecovery, SettleRecovery
  <2>4. CASE DecideRecovery
    <3>1. job.op = "resolve" /\ job # Idle
      BY <1>1, <2>4 DEF DecideRecovery, InStep
    <3>2. job'.op # "action"
      BY <1>2, <2>4, <3>1, JobAdvances DEF DecideRecovery
    <3>3. QED
      BY <2>4, <3>2, NoActionInFlight DEF DecideRecovery
  <2>5. CASE RecordRecovery
    <3>1. job.op = "resolve" /\ job # Idle
      BY <1>1, <2>5 DEF RecordRecovery, InStep
    <3>2. job'.op # "action"
      BY <1>1, <1>2, <2>5, <3>1, JobAdvances DEF RecordRecovery
    <3>3. Target(job.key) \in Effect
      BY <1>2, <3>1, JobParts DEF Recovery, Target
    <3>4. QED
      BY <2>5, <3>2, <3>3, RecordedEffect DEF RecordRecovery
  <2>6. QED
    BY <1>5, <2>1, <2>2, <2>3, <2>4, <2>5 DEF Resolve
<1>6. CASE Crash
  BY <1>1, <1>6, NoActionInFlight DEF Crash
<1>7. CASE Drift \/ UNCHANGED vars
  BY <1>2, <1>7, DriftJob, SameHandler, NoActionInFlight DEF Drift, vars
<1>8. QED
  BY <1>3, <1>4, <1>5, <1>6, <1>7, ExecuteIntent DEF Next

-----------------------------------------------------------------------------
(***************************************************************************)
(* The outcome of a task.                                                  *)
(***************************************************************************)

Ended == rejected \/ durable \in Terminal

\* A readable log with an outcome shows it, whatever else is in it.
LEMMA EndedShows ==
    ASSUME Readable, Session \notin Terminal
    PROVE  ~Ended
<1>1. ~rejected
  BY DEF Session, Terminal
<1>2. CASE Unresolved # {}
  BY <1>1, <1>2 DEF Unresolved, Readable, Ended
<1>3. CASE Unresolved = {}
  BY <1>1, <1>3 DEF Session, Ended
<1>4. QED
  BY <1>2, <1>3

LEMMA StartEnds ==
    ASSUME NEW op, NEW key, Start(op, key)
    PROVE  ~Ended /\ ~Ended'
  BY EndedShows DEF Start, Free, Ended

\* What is in flight when the outcome is in the log.
LEMMA EndedJob ==
    ASSUME IInv, Ended
    PROVE  /\ job.op \in {"idle", "approve", "reject"}
           /\ job.op = "approve" => job.at = "decided"
           /\ job # Idle => job.at # "start"
<1>1. job \in JobType
  BY DEF IInv, TypeOK
<1>2. job \in RejectJob => job.at # "start"
  BY DEF RejectJob
<1>3. QED
  BY <1>1, <1>2, JobByOp DEF IInv, EndInv, Ended

\* With an outcome in the log, only these steps are left.
LEMMA EndedSteps ==
    ASSUME IInv, Ended, [Next]_vars
    PROVE  \/ \E a \in Approval : ResumeApproval(a)
           \/ RecordApproval /\ job' = Idle
           \/ ApplyRejection
           \/ Crash
           \/ Drift
           \/ UNCHANGED vars
<1> USE EndedJob
<1>1. ASSUME Readable PROVE Session \in Terminal
  BY <1>1, EndedShows
<1>2. "blocked" \notin Terminal /\ "executing" \notin Terminal /\ "planned" \notin Terminal
  BY DEF Terminal
<1>3. ASSUME Execute PROVE FALSE
  <2>1. /\ \A a \in Action : ~BeginAction(a)
        /\ \A v \in Check : ~BeginCheck(v) /\ ~ReplayCheck(v)
        /\ ~BeginVerdict /\ ~BeginEvidence
    BY <1>1, <1>2, StartEnds
       DEF BeginAction, BeginCheck, ReplayCheck, Free, BeginVerdict, BeginEvidence
  <2>2. /\ ~PassPlanGate /\ ~BeginExecuting /\ ~RefuseAction /\ ~WriteIntent
        /\ ~RunEffect /\ ~RecordEffect /\ ~RecordUncertain /\ ~WriteResult
        /\ ~RunCheck /\ ~RecordEvidence /\ ~WriteCheckResult /\ ~BlockAfterCheck
        /\ ~CastVerdict /\ ~AppendEvidence
    BY DEF PassPlanGate, BeginExecuting, RefuseAction, WriteIntent, RunEffect,
           RecordEffect, RecordUncertain, WriteResult, RunCheck, RecordEvidence,
           WriteCheckResult, BlockAfterCheck, CastVerdict, AppendEvidence, Running, InStep
  <2>3. QED
    BY <1>3, <2>1, <2>2 DEF Execute
<1>4. ASSUME Complete PROVE FALSE
  <2>1. \A c \in Completion : ~BeginComplete(c) /\ ~ResumeComplete(c)
    BY <1>1, StartEnds DEF BeginComplete, ResumeComplete, Free
  <2>2. \A c \in Completion : ~ReplayCompletion(c) /\ ~ReplayIntervention(c)
    BY <1>1, <1>2 DEF ReplayCompletion, ReplayIntervention, Free
  <2>3. /\ ~TakeFingerprint /\ ~DecideCompletion /\ ~RefuseStale
        /\ ~ConfirmDecision /\ ~RecordCompletion /\ ~ConfirmRecord /\ ~FinishCompletion
    BY DEF TakeFingerprint, DecideCompletion, RefuseStale, ConfirmDecision,
           RecordCompletion, ConfirmRecord, FinishCompletion, Running, InStep
  <2>4. QED
    BY <1>4, <2>1, <2>2, <2>3 DEF Complete
<1>5. ASSUME Approve
      PROVE  \/ \E a \in Approval : ResumeApproval(a)
             \/ RecordApproval /\ job' = Idle
             \/ ApplyRejection
  <2>1. /\ \A a \in Approval : ~DecideApproval(a) /\ ~ReplayApproval(a)
        /\ ~ApprovePlan /\ ~DecideRejection
    BY <1>1, <1>2 DEF DecideApproval, MayApprove, ReplayApproval, ApprovePlan,
                      DecideRejection, Free, InStep
  <2>2. ~ReopenApproved
    BY DEF ReopenApproved, InStep
  <2>3. RecordApproval => job' = Idle
    BY <1>1, <1>2 DEF RecordApproval, InStep
  <2>4. QED
    BY <1>5, <2>1, <2>2, <2>3 DEF Approve
<1>6. ASSUME Resolve PROVE FALSE
  <2>1. \A r \in Recovery : ~BeginRecovery(r)
    BY DEF BeginRecovery, Free, Readable, Ended
  <2>2. \A r \in Recovery : ~ReplayRecovery(r)
    BY <1>1, <1>2 DEF ReplayRecovery, Free
  <2>3. ~DecideRecovery /\ ~RecordRecovery /\ ~ApplyRecovery
    BY DEF DecideRecovery, RecordRecovery, ApplyRecovery, InStep
  <2>4. QED
    BY <1>6, <2>1, <2>2, <2>3 DEF Resolve
<1>7. QED
  BY <1>3, <1>4, <1>5, <1>6 DEF Next

\* A transition to a state that is not terminal ends nothing.
LEMMA GoesOn ==
    ASSUME ~Ended, rejected' = rejected,
           \/ durable' = durable
           \/ \E from, to : Transition(from, to) /\ to \notin Terminal
    PROVE  EndInv'
  BY DEF Ended, EndInv, Transition

LEMMA NobodyEnds ==
    ASSUME job' = Idle \/ job'.op = "reject"
    PROVE  EndInv'
  BY DEF EndInv, Idle

LEMMA StepEnd == IInv /\ [Next]_vars => EndInv'
<1> SUFFICES ASSUME IInv, [Next]_vars PROVE EndInv'
  OBVIOUS
<1>1. CASE Ended
  <2>1. CASE \E a \in Approval : ResumeApproval(a)
    BY <2>1 DEF ResumeApproval, EndInv
  <2>2. CASE (RecordApproval /\ job' = Idle) \/ ApplyRejection \/ Crash
    BY <2>2, NobodyEnds DEF ApplyRejection, Crash
  <2>3. CASE Drift \/ UNCHANGED vars
    <3>1. job' = job
      BY <1>1, <2>3, EndedJob, DriftJob DEF vars, IInv, TypeOK
    <3>2. QED
      BY <2>3, <3>1 DEF Drift, vars, IInv, EndInv
  <2>4. QED
    BY <1>1, <2>1, <2>2, <2>3, EndedSteps
<1>2. CASE ~Ended
  <2> USE <1>2
  <2>1. \A to \in {"approved", "executing", "blocked"} : to \notin Terminal
    BY DEF Terminal
  <2>2. CASE Execute
    <3>1. CASE PassPlanGate
      BY <2>1, <3>1, GoesOn DEF PassPlanGate
    <3>2. CASE BeginExecuting
      BY <2>1, <3>2, GoesOn DEF BeginExecuting
    <3>3. CASE BlockAfterCheck \/ \E v \in Check : ReplayCheck(v)
      BY <2>1, <3>3, GoesOn DEF BlockAfterCheck, ReplayCheck
    <3>4. CASE \/ \E a \in Action : BeginAction(a)
               \/ \E v \in Check : BeginCheck(v)
               \/ BeginVerdict \/ BeginEvidence
      BY <3>4, GoesOn DEF BeginAction, BeginCheck, BeginVerdict, BeginEvidence, Start
    <3>5. CASE \/ RefuseAction \/ WriteIntent \/ RunEffect \/ RecordEffect
               \/ RecordUncertain \/ WriteResult
      BY <3>5, GoesOn DEF RefuseAction, WriteIntent, RunEffect, RecordEffect,
                          RecordUncertain, WriteResult
    <3>6. CASE \/ RunCheck \/ RecordEvidence \/ WriteCheckResult
               \/ CastVerdict \/ AppendEvidence
      BY <3>6, GoesOn DEF RunCheck, RecordEvidence, WriteCheckResult, CastVerdict,
                          AppendEvidence
    <3>7. QED
      BY <2>2, <3>1, <3>2, <3>3, <3>4, <3>5, <3>6 DEF Execute
  <2>3. CASE Complete
    <3>1. CASE \E c \in Completion : BeginComplete(c) \/ ResumeComplete(c)
      BY <3>1, GoesOn DEF BeginComplete, ResumeComplete, Start
    <3>2. CASE \E c \in Completion : ReplayCompletion(c) \/ ReplayIntervention(c)
      BY <3>2, GoesOn, NobodyEnds DEF ReplayCompletion, ReplayIntervention, Free
    <3>3. CASE \/ TakeFingerprint \/ DecideCompletion \/ ConfirmDecision
               \/ RecordCompletion \/ ConfirmRecord
      BY <3>3, GoesOn DEF TakeFingerprint, DecideCompletion, ConfirmDecision,
                          RecordCompletion, ConfirmRecord
    <3>4. CASE RefuseStale \/ FinishCompletion
      BY <3>4, NobodyEnds DEF RefuseStale, FinishCompletion
    <3>5. QED
      BY <2>3, <3>1, <3>2, <3>3, <3>4 DEF Complete
  <2>4. CASE Approve
    <3>1. CASE \/ \E a \in Approval : DecideApproval(a) \/ ResumeApproval(a)
               \/ RecordApproval
      BY <3>1, GoesOn DEF DecideApproval, ResumeApproval, RecordApproval, records
    <3>2. CASE ApprovePlan \/ ReopenApproved
      BY <2>1, <3>2, GoesOn DEF ApprovePlan, ReopenApproved
    <3>3. CASE \E a \in Approval : ReplayApproval(a)
      BY <2>1, <3>3, GoesOn DEF ReplayApproval
    <3>4. CASE DecideRejection \/ ApplyRejection
      BY <3>4, NobodyEnds DEF DecideRejection, ApplyRejection
    <3>5. QED
      BY <2>4, <3>1, <3>2, <3>3, <3>4 DEF Approve
  <2>5. CASE Resolve
    <3>1. CASE \E r \in Recovery : BeginRecovery(r)
      BY <2>1, <3>1, GoesOn DEF BeginRecovery
    <3>2. CASE DecideRecovery \/ RecordRecovery
      BY <3>2, GoesOn DEF DecideRecovery, RecordRecovery
    <3>3. CASE ApplyRecovery \/ \E r \in Recovery : ReplayRecovery(r)
      BY <3>3, NobodyEnds DEF ApplyRecovery, ReplayRecovery, Free
    <3>4. QED
      BY <2>5, <3>1, <3>2, <3>3 DEF Resolve
  <2>6. CASE Crash \/ Drift \/ UNCHANGED vars
    BY <2>6, GoesOn DEF Crash, Drift, vars
  <2>7. QED
    BY <2>2, <2>3, <2>4, <2>5, <2>6 DEF Next
<1>3. QED
  BY <1>1, <1>2

-----------------------------------------------------------------------------
(***************************************************************************)
(* What is unresolved.                                                     *)
(***************************************************************************)

\* Appending an event leaves the decisions as they were, but for freshness.
LEMMA StaleDecisions ==
    ASSUME gate \in [Completion -> Ungated \cup Gated], NEW c \in Completion
    PROVE  /\ Stale[c].status = gate[c].status
           /\ gate[c].status # "none" => Stale[c].decision = gate[c].decision
           /\ ~Stale[c].fresh
<1>1. ASSUME NEW g \in Ungated
      PROVE  /\ [g EXCEPT !.fresh = FALSE].status = g.status /\ g.status = "none"
             /\ ~[g EXCEPT !.fresh = FALSE].fresh
  BY <1>1 DEF Ungated
<1>2. ASSUME NEW g \in Gated
      PROVE  /\ [g EXCEPT !.fresh = FALSE].status = g.status
             /\ [g EXCEPT !.fresh = FALSE].decision = g.decision
             /\ ~[g EXCEPT !.fresh = FALSE].fresh
  BY <1>2 DEF Gated
<1>3. gate[c] \in Ungated \/ gate[c] \in Gated
  OBVIOUS
<1>4. Stale[c] = [gate[c] EXCEPT !.fresh = FALSE]
  BY DEF Stale
<1>5. QED
  BY <1>1, <1>2, <1>3, <1>4

LEMMA SameUnfinished ==
    ASSUME IInv, gate' = gate \/ gate' = Stale
    PROVE  Unfinished' = Unfinished
<1>1. gate \in [Completion -> Ungated \cup Gated]
  BY DEF IInv, TypeOK
<1>2. \A c \in Completion : /\ gate'[c].status = gate[c].status
                            /\ gate[c].status # "none" => gate'[c].decision = gate[c].decision
  BY <1>1, StaleDecisions
<1>3. QED
  BY <1>2 DEF Unfinished

\* A decision that is settled is unfinished no more.
LEMMA SettledNotUnfinished ==
    ASSUME IInv, NEW c \in Completion, NEW from, SettleCompletion(c, from),
           gate[c].status # "none"
    PROVE  /\ Unfinished' \subseteq Unfinished
           /\ gate'[c].status = "settled"
           /\ \A d \in Completion : ~gate'[d].fresh
           /\ gate[c].status # "none" => gate'[c].decision = gate[c].decision
<1>1. gate \in [Completion -> Ungated \cup Gated]
  BY DEF IInv, TypeOK
<1>2. \A d \in Completion : /\ Stale[d].status = gate[d].status
                            /\ gate[d].status # "none" => Stale[d].decision = gate[d].decision
                            /\ ~Stale[d].fresh
  BY <1>1, StaleDecisions
<1>3. Stale \in [Completion -> Ungated \cup Gated] /\ Stale[c] \in Gated
  BY <1>1, StaleType
<1>4. \A g \in Gated : /\ [g EXCEPT !.status = "settled"].status = "settled"
                       /\ ~g.fresh => ~[g EXCEPT !.status = "settled"].fresh
                       /\ [g EXCEPT !.status = "settled"].decision = g.decision
  BY DEF Gated
<1>5. gate' = [Stale EXCEPT ![c] = [Stale[c] EXCEPT !.status = "settled"]]
  BY DEF SettleCompletion
<1>6. /\ gate'[c] = [Stale[c] EXCEPT !.status = "settled"]
      /\ \A d \in Completion \ {c} : gate'[d] = Stale[d]
  BY <1>3, <1>5
<1>7. /\ gate'[c].status = "settled" /\ gate'[c].decision = gate[c].decision
      /\ \A d \in Completion : ~gate'[d].fresh
  <2>1. gate'[c].status = "settled" /\ gate'[c].decision = gate[c].decision
    BY <1>2, <1>3, <1>4, <1>6
  <2>2. ~gate'[c].fresh
    BY <1>2, <1>3, <1>4, <1>6
  <2>3. QED
    BY <1>2, <1>6, <2>1, <2>2
<1>8. Unfinished' \subseteq Unfinished
  BY <1>2, <1>6, <1>7 DEF Unfinished
<1>9. QED
  BY <1>7, <1>8

\* Work starts only when nothing is unresolved.
LEMMA StartResolved ==
    ASSUME NEW op, NEW key, Start(op, key)
    PROVE  Unresolved = {}
  BY DEF Start, Session, Terminal

\* A step that writes no record and decides nothing, by what is in flight
\* after it.
LEMMA QuietBlock ==
    ASSUME IInv, work' = work, gate' = gate \/ gate' = Stale,
           \/ job' = job
           \/ job' = Idle
           \/ job'.op \in {"approve", "reject", "resolve"} /\ job'.at # "start"
           \/ job.op = "complete" /\ job'.op = "complete" /\ job'.at # "start"
           \/ /\ job'.op \in {"action", "verify"} /\ job'.op = job.op
              /\ job'.key = job.key
              /\ job.at \notin {"start", "block"} /\ job'.at # "start"
    PROVE  BlockInv'
<1>1. Orphans' = Orphans /\ Unfinished' = Unfinished /\ Unresolved' = Unresolved
  BY SameUnfinished DEF Orphans, Unresolved
<1>2. QED
  BY <1>1 DEF IInv, BlockInv, Idle

LEMMA StartBlock ==
    ASSUME IInv, NEW op, NEW key, Start(op, key)
    PROVE  BlockInv'
<1>1. Unresolved = {}
  BY StartResolved
<1>2. Unresolved' = {} /\ Orphans' = {}
  BY <1>1, SameUnfinished DEF Start, records, Orphans, Unresolved
<1>3. job'.at = "start"
  BY DEF Start
<1>4. QED
  BY <1>2, <1>3 DEF BlockInv

\* The record of the one open effect gets its outcome.
LEMMA ClosingBlock ==
    ASSUME IInv, NEW e \in Effect, NEW status \in {"completed", "blocking", "resolved"},
           work' = [work EXCEPT ![e] = status], gate' = Stale, e \in Orphans,
           \/ job' = Idle
           \/ job'.op = "verify" /\ job'.at = "block"
           \/ job'.op = "resolve" /\ job'.at # "start"
    PROVE  BlockInv'
<1>1. Orphans' = {}
  BY DEF IInv, TypeOK, BlockInv, Orphans
<1>2. QED
  BY <1>1 DEF BlockInv, Idle

LEMMA ExecuteBlock == IInv /\ Execute => BlockInv'
<1> SUFFICES ASSUME IInv, Execute PROVE BlockInv'
  OBVIOUS
<1> USE DEF records
<1>1. Idle.op = "idle"
  BY DEF Idle
<1>2. job \in JobType
  BY DEF IInv, TypeOK
<1>3. CASE \/ \E a \in Action : BeginAction(a)
           \/ \E v \in Check : BeginCheck(v)
           \/ BeginVerdict \/ BeginEvidence
  BY <1>3, StartBlock DEF BeginAction, BeginCheck, BeginVerdict, BeginEvidence
<1>4. CASE PassPlanGate \/ BeginExecuting \/ \E v \in Check : ReplayCheck(v)
  BY <1>4, QuietBlock DEF PassPlanGate, BeginExecuting, ReplayCheck
<1>5. CASE \/ RefuseAction \/ RecordUncertain \/ BlockAfterCheck
           \/ CastVerdict \/ AppendEvidence
  BY <1>5, QuietBlock
     DEF RefuseAction, RecordUncertain, BlockAfterCheck, CastVerdict, AppendEvidence
<1>6. CASE WriteIntent
  <2>1. /\ work' = [work EXCEPT ![job.key] = "open"] /\ gate' = Stale
        /\ job' = [job EXCEPT !.at = "effect"]
        /\ job.op \in {"action", "verify"} /\ job.at = "start" /\ job # Idle
    BY <1>1, <1>6 DEF WriteIntent, Running, InStep
  <2>2. job'.op = job.op /\ job'.key = job.key /\ job'.at = "effect"
    BY <1>2, <2>1, JobAdvances
  <2>3. job.key \in Effect
    BY <1>2, <2>1, JobParts DEF Effect
  <2>4. Orphans = {} /\ Unfinished = {}
    BY <2>1 DEF IInv, BlockInv, Unresolved
  <2>5. Orphans' = {job.key} /\ Unfinished' = {}
    BY <2>1, <2>3, <2>4, SameUnfinished DEF IInv, TypeOK, Orphans
  <2>6. QED
    BY <2>1, <2>2, <2>5 DEF BlockInv, Idle
<1>7. CASE RunEffect
  <2>1. /\ job.op = "action" /\ job.at = "effect" /\ job # Idle
        /\ work' = work /\ gate' = gate
    BY <1>1, <1>7 DEF RunEffect, InStep
  <2>2. PICK at \in {"ran", "uncertain"} : job' = [job EXCEPT !.at = at]
    BY <1>7 DEF RunEffect
  <2>3. job'.op = job.op /\ job'.key = job.key /\ job'.at = at
    BY <1>2, <2>1, <2>2, JobAdvances
  <2>4. QED
    BY <2>1, <2>3, QuietBlock
<1>8. CASE RecordEffect \/ RecordEvidence
  <2>1. /\ job.op \in {"action", "verify"} /\ job.at \in {"ran", "evidence"} /\ job # Idle
        /\ job' = [job EXCEPT !.at = "result"]
        /\ work' = work /\ gate' = Stale
    BY <1>1, <1>8 DEF RecordEffect, RecordEvidence, InStep
  <2>2. job'.op = job.op /\ job'.key = job.key /\ job'.at = "result"
    BY <1>2, <2>1, JobAdvances
  <2>3. QED
    BY <2>1, <2>2, QuietBlock
<1>9. CASE RunCheck
  <2>1. /\ job.op = "verify" /\ job.at = "effect" /\ work' = work /\ gate' = gate
        /\ job'.op = "verify" /\ job'.key = job.key /\ job'.at = "evidence"
    BY <1>9 DEF RunCheck, InStep
  <2>2. QED
    BY <2>1, QuietBlock
<1>10. CASE WriteResult
  <2>1. job.op = "action" /\ job.at = "result"
    BY <1>10 DEF WriteResult, InStep
  <2>2. job.key \in Effect /\ job.key \in Orphans
    BY <1>2, <2>1, JobParts DEF IInv, BlockInv, Effect
  <2>3. QED
    BY <1>10, <2>2, ClosingBlock DEF WriteResult
<1>11. CASE WriteCheckResult
  <2>1. job.op = "verify" /\ job.at = "result" /\ job # Idle
    BY <1>1, <1>11 DEF WriteCheckResult, InStep
  <2>2. job.key \in Effect /\ job.key \in Orphans
    BY <1>2, <2>1, JobParts DEF IInv, BlockInv, Effect
  <2>3. job' = Idle \/ (job'.op = "verify" /\ job'.at = "block")
    BY <1>2, <1>11, <2>1, JobAdvances DEF WriteCheckResult
  <2>4. QED
    BY <1>11, <2>2, <2>3, ClosingBlock DEF WriteCheckResult
<1>12. QED
  BY <1>3, <1>4, <1>5, <1>6, <1>7, <1>8, <1>9, <1>10, <1>11 DEF Execute

LEMMA CompleteBlock == IInv /\ Complete => BlockInv'
<1> SUFFICES ASSUME IInv, Complete PROVE BlockInv'
  OBVIOUS
<1> USE DEF records
<1>1. Idle.op = "idle"
  BY DEF Idle
<1>2. job \in JobType
  BY DEF IInv, TypeOK
\* Nothing is open, before and after.
<1>3. ASSUME Orphans = {}, work' = work, job' = Idle \/ job'.op = "complete",
             job' # Idle => job'.at # "start"
      PROVE  BlockInv'
  <2>1. Orphans' = {}
    BY <1>3 DEF Orphans
  <2>2. QED
    BY <1>1, <1>3, <2>1 DEF BlockInv
<1>4. job.op = "complete" => Orphans = {}
  BY DEF IInv, BlockInv
<1>5. CASE \E c \in Completion : BeginComplete(c)
  BY <1>5, StartBlock DEF BeginComplete
<1>6. CASE \E c \in Completion : ResumeComplete(c)
  <2>1. Orphans = {}
    BY <1>6, ConstantsAssumption DEF ResumeComplete, Unresolved, Orphans, Effect
  <2>2. QED
    BY <1>3, <1>6, <2>1 DEF ResumeComplete
<1>7. CASE \E c \in Completion : ReplayIntervention(c)
  <2>1. PICK c \in Completion : ReplayIntervention(c)
    BY <1>7
  <2>2. PICK from : SettleCompletion(c, from)
    BY <2>1 DEF ReplayIntervention
  <2>3. work' = work /\ job' = Idle /\ gate[c].status = "recorded"
    BY <2>1 DEF ReplayIntervention, Free
  <2>4. Unfinished' \subseteq Unfinished
    BY <2>2, <2>3, SettledNotUnfinished
  <2>5. Orphans' = Orphans
    BY <2>3 DEF Orphans
  <2>6. QED
    BY <1>1, <2>3, <2>4, <2>5 DEF IInv, BlockInv
<1>8. CASE \/ TakeFingerprint \/ DecideCompletion \/ RefuseStale
           \/ ConfirmRecord \/ FinishCompletion
  <2>1. job.op = "complete" /\ work' = work
    BY <1>8 DEF TakeFingerprint, DecideCompletion, RefuseStale, ConfirmRecord,
                FinishCompletion, Running, InStep
  <2>2. job' = Idle \/ (job'.op = "complete" /\ job'.at # "start")
    BY <1>8 DEF TakeFingerprint, DecideCompletion, RefuseStale, ConfirmRecord, Settling,
                FinishCompletion
  <2>3. QED
    BY <1>3, <1>4, <2>1, <2>2
<1>9. CASE ConfirmDecision \/ RecordCompletion
  <2>1. /\ job.op = "complete" /\ job # Idle /\ work' = work
        /\ \E at \in {"append", "finish"} : job' = [job EXCEPT !.at = at]
    BY <1>1, <1>9 DEF ConfirmDecision, RecordCompletion, InStep
  <2>2. job'.op = "complete" /\ job'.at \in {"append", "finish"}
    BY <1>2, <2>1, JobAdvances
  <2>3. QED
    BY <1>3, <1>4, <2>1, <2>2
<1>10. CASE \E c \in Completion : ReplayCompletion(c)
  <2>1. Orphans = {}
    BY <1>10 DEF ReplayCompletion, Session, Unresolved
  <2>2. QED
    BY <1>3, <1>10, <2>1 DEF ReplayCompletion, Settling
<1>11. QED
  BY <1>5, <1>6, <1>7, <1>8, <1>9, <1>10 DEF Complete

LEMMA StepBlock == IInv /\ [Next]_vars => BlockInv'
<1> SUFFICES ASSUME IInv, [Next]_vars PROVE BlockInv'
  OBVIOUS
<1> USE DEF records
<1>1. Idle.op = "idle"
  BY DEF Idle
<1>2. job \in JobType
  BY DEF IInv, TypeOK
<1>3. CASE Approve
  <2>1. CASE \/ \E a \in Approval : DecideApproval(a) \/ ResumeApproval(a)
             \/ DecideRejection \/ ReopenApproved \/ ApplyRejection
    BY <2>1, QuietBlock
       DEF DecideApproval, ResumeApproval, DecideRejection, ReopenApproved, ApplyRejection
  <2>2. CASE ApprovePlan \/ \E a \in Approval : ReplayApproval(a)
    BY <2>2, QuietBlock DEF ApprovePlan, ReplayApproval
  <2>3. CASE RecordApproval
    <3>1. job.op = "approve" /\ job # Idle
      BY <1>1, <2>3 DEF RecordApproval, InStep
    <3>2. job' = Idle \/ (job'.op = "approve" /\ job'.at = "reopen")
      BY <1>2, <2>3, <3>1, JobAdvances DEF RecordApproval
    <3>3. QED
      BY <2>3, <3>2, QuietBlock DEF RecordApproval
  <2>4. QED
    BY <1>3, <2>1, <2>2, <2>3 DEF Approve
<1>4. CASE Resolve
  <2>1. CASE \E r \in Recovery : BeginRecovery(r)
    <3>1. /\ work' = work /\ (gate' = gate \/ gate' = Stale)
          /\ job'.op = "resolve" /\ job'.at # "start"
      BY <2>1 DEF BeginRecovery
    <3>2. QED
      BY <3>1, QuietBlock
  <2>2. CASE ApplyRecovery \/ \E r \in Recovery : ReplayRecovery(r)
    BY <2>2, QuietBlock DEF ReplayRecovery, ApplyRecovery, SettleRecovery
  <2>3. CASE DecideRecovery
    <3>1. job.op = "resolve" /\ job # Idle
      BY <1>1, <2>3 DEF DecideRecovery, InStep
    <3>2. job'.op = "resolve" /\ job'.at = "decided"
      BY <1>2, <2>3, <3>1, JobAdvances DEF DecideRecovery
    <3>3. QED
      BY <2>3, <3>2, QuietBlock DEF DecideRecovery
  <2>4. CASE RecordRecovery
    <3>1. job.op = "resolve" /\ job.at = "decided" /\ job # Idle
      BY <1>1, <2>4 DEF RecordRecovery, InStep
    <3>2. job' = Idle \/ (job'.op = "resolve" /\ job'.at = "recorded")
      BY <1>2, <2>4, <3>1, JobAdvances DEF RecordRecovery
    <3>3. job.key \in Recovery /\ Target(job.key) \in Effect
      BY <1>2, <3>1, JobParts DEF Recovery, Target
    <3>4. Target(job.key) \in Orphans
      BY <3>1, <3>3 DEF IInv, RecoveryInv, Orphans
    <3>5. QED
      BY <2>4, <3>2, <3>3, <3>4, ClosingBlock DEF RecordRecovery
  <2>5. QED
    BY <1>4, <2>1, <2>2, <2>3, <2>4 DEF Resolve
<1>5. CASE Crash \/ Drift \/ UNCHANGED vars
  <2>1. Drift => job' = job \/ (/\ job.op = "complete" /\ job'.op = "complete"
                                /\ job'.at # "start")
    BY DriftJob DEF IInv, TypeOK
  <2>2. QED
    BY <1>5, <2>1, QuietBlock DEF Crash, Drift, vars
<1>6. QED
  BY <1>3, <1>4, <1>5, ExecuteBlock, CompleteBlock DEF Next

-----------------------------------------------------------------------------
(***************************************************************************)
(* Answers about uncertain effects.                                        *)
(***************************************************************************)

\* A step that writes no record, by what is in flight after it.
LEMMA QuietRecovery ==
    ASSUME IInv, UNCHANGED <<work, recovery>>,
           \/ job' = job
           \/ job' = Idle
           \/ job'.op \notin {"action", "verify", "resolve"}
           \/ /\ job.op \in {"action", "verify"} /\ job'.op = job.op
              /\ job'.at # "start"
    PROVE  RecoveryInv'
  BY DEF IInv, RecoveryInv, OneDecisionPerEffect, Idle

\* Work on an effect starts when no answer is being given.
LEMMA StartRecovery ==
    ASSUME IInv, NEW op \in {"action", "verify"}, NEW e \in Effect, Unrecorded(e), Start(op, e)
    PROVE  RecoveryInv'
<1>1. Orphans = {}
  BY StartResolved DEF Unresolved
<1>2. \A r \in Recovery : Target(r) \in Effect
  BY DEF Recovery, Target
<1>3. \A r \in Recovery : recovery[r] # "decided"
  BY <1>1, <1>2 DEF IInv, RecoveryInv, Orphans
<1>4. /\ UNCHANGED <<work, recovery>> /\ work[e] = "none"
      /\ job' = [op |-> op, key |-> e, at |-> "start"]
  BY DEF Start, records, Unrecorded
<1>5. QED
  BY <1>3, <1>4 DEF IInv, RecoveryInv, OneDecisionPerEffect

LEMMA ExecuteRecovery == IInv /\ Execute => RecoveryInv'
<1> SUFFICES ASSUME IInv, Execute PROVE RecoveryInv'
  OBVIOUS
<1> USE DEF records
<1>1. Idle.op = "idle"
  BY DEF Idle
<1>2. job \in JobType
  BY DEF IInv, TypeOK
<1>3. CASE \/ \E a \in Action : BeginAction(a)
           \/ \E v \in Check : BeginCheck(v)
  BY <1>3, StartRecovery DEF BeginAction, BeginCheck, Effect
<1>4. CASE BeginVerdict \/ BeginEvidence
  BY <1>4, QuietRecovery DEF BeginVerdict, BeginEvidence, Start
<1>5. CASE PassPlanGate \/ BeginExecuting \/ \E v \in Check : ReplayCheck(v)
  BY <1>5, QuietRecovery DEF PassPlanGate, BeginExecuting, ReplayCheck
<1>6. CASE \/ RefuseAction \/ RecordUncertain \/ BlockAfterCheck
           \/ CastVerdict \/ AppendEvidence
  BY <1>6, QuietRecovery
     DEF RefuseAction, RecordUncertain, BlockAfterCheck, CastVerdict, AppendEvidence
<1>7. CASE RunEffect
  <2>1. job.op = "action" /\ job # Idle /\ UNCHANGED <<work, recovery>>
    BY <1>1, <1>7 DEF RunEffect, InStep
  <2>2. PICK at \in {"ran", "uncertain"} : job' = [job EXCEPT !.at = at]
    BY <1>7 DEF RunEffect
  <2>3. job'.op = job.op /\ job'.at = at
    BY <1>2, <2>1, <2>2, JobAdvances
  <2>4. QED
    BY <2>1, <2>3, QuietRecovery
<1>8. CASE RecordEffect \/ RecordEvidence
  <2>1. /\ job.op \in {"action", "verify"} /\ job # Idle
        /\ job' = [job EXCEPT !.at = "result"] /\ UNCHANGED <<work, recovery>>
    BY <1>1, <1>8 DEF RecordEffect, RecordEvidence, InStep
  <2>2. job'.op = job.op /\ job'.at = "result"
    BY <1>2, <2>1, JobAdvances
  <2>3. QED
    BY <2>1, <2>2, QuietRecovery
<1>9. CASE RunCheck
  <2>1. /\ job.op = "verify" /\ UNCHANGED <<work, recovery>>
        /\ job'.op = "verify" /\ job'.at = "evidence"
    BY <1>9 DEF RunCheck, InStep
  <2>2. QED
    BY <2>1, QuietRecovery
\* The record of the effect in flight changes, and nothing was answered on it.
<1>10. ASSUME NEW e \in Effect, NEW status, work' = [work EXCEPT ![e] = status],
              recovery' = recovery, work[e] \in {"none", "open"},
              job.op \in {"action", "verify"},
              job' = Idle \/ (job'.op = job.op /\ job'.at # "start")
       PROVE  RecoveryInv'
  <2>1. \A r \in Recovery : recovery[r] # "decided" /\ Target(r) \in Effect
    BY <1>10 DEF IInv, RecoveryInv, Recovery, Target
  <2>2. \A r \in Recovery :
           recovery[r] \in {"recorded", "settled"} => work'[Target(r)] = "resolved"
    BY <1>10, <2>1 DEF IInv, TypeOK, RecoveryInv
  <2>3. QED
    BY <1>1, <1>10, <2>1, <2>2 DEF IInv, RecoveryInv, OneDecisionPerEffect
<1>11. CASE WriteIntent
  <2>1. /\ job' = [job EXCEPT !.at = "effect"]
        /\ job.op \in {"action", "verify"} /\ job.at = "start" /\ job # Idle
    BY <1>1, <1>11 DEF WriteIntent, Running, InStep
  <2>2. job'.op = job.op /\ job'.at = "effect"
    BY <1>2, <2>1, JobAdvances
  <2>3. job.key \in Effect /\ work[job.key] = "none"
    BY <1>2, <2>1, JobParts DEF IInv, RecoveryInv, Effect
  <2>4. QED
    BY <1>10, <1>11, <2>1, <2>2, <2>3 DEF WriteIntent
<1>12. CASE WriteResult \/ WriteCheckResult
  <2>1. job.op \in {"action", "verify"} /\ job.at = "result" /\ job # Idle
    BY <1>1, <1>12 DEF WriteResult, WriteCheckResult, InStep
  <2>2. job.key \in Effect /\ work[job.key] = "open"
    BY <1>2, <2>1, JobParts DEF IInv, BlockInv, Effect, Orphans
  <2>3. job' = Idle \/ (job'.op = job.op /\ job'.at # "start")
    <3>1. job' = Idle \/ job' = [job EXCEPT !.at = "block"]
      BY <1>12 DEF WriteResult, WriteCheckResult
    <3>2. [job EXCEPT !.at = "block"].op = job.op /\ [job EXCEPT !.at = "block"].at = "block"
      BY <1>2, <2>1, JobAdvances
    <3>3. QED
      BY <3>1, <3>2
  <2>4. recovery' = recovery
    BY <1>12 DEF WriteResult, WriteCheckResult
  <2>5. CASE WriteResult
    BY <1>10, <2>1, <2>2, <2>3, <2>4, <2>5 DEF WriteResult
  <2>6. CASE WriteCheckResult
    BY <1>10, <2>1, <2>2, <2>3, <2>4, <2>6 DEF WriteCheckResult
  <2>7. QED
    BY <1>12, <2>5, <2>6
<1>13. QED
  BY <1>3, <1>4, <1>5, <1>6, <1>7, <1>8, <1>9, <1>11, <1>12 DEF Execute

LEMMA ResolveRecovery == IInv /\ Resolve => RecoveryInv'
<1> SUFFICES ASSUME IInv, Resolve PROVE RecoveryInv'
  OBVIOUS
<1> USE DEF records
<1>1. Idle.op = "idle"
  BY DEF Idle
<1>2. job \in JobType
  BY DEF IInv, TypeOK
<1>3. \A r \in Recovery : Target(r) \in Effect
  BY DEF Recovery, Target
<1>4. ASSUME NEW r \in Recovery, BeginRecovery(r)
      PROVE  RecoveryInv'
  <2>1. /\ UNCHANGED <<work, recovery>> /\ work[Target(r)] = "open"
        /\ job' = [op |-> "resolve", key |-> r,
                   at |-> IF recovery[r] = "none" THEN "blocked" ELSE "decided"]
        /\ recovery[r] \in {"none", "decided"}
    BY <1>4 DEF BeginRecovery, Orphans
  <2>2. recovery[r] = "none" => \A q \in Recovery : recovery[q] # "decided"
    BY <1>4 DEF BeginRecovery, Reserved
  <2>3. QED
    BY <2>1, <2>2 DEF IInv, RecoveryInv, OneDecisionPerEffect
\* An answer that was recorded becomes settled.
<1>5. ASSUME NEW r \in Recovery, SettleRecovery(r), recovery[r] \in {"recorded", "settled"},
             job' = Idle
      PROVE  RecoveryInv'
  <2>1. work' = work /\ recovery' = [recovery EXCEPT ![r] = "settled"]
    BY <1>5 DEF SettleRecovery
  <2>2. QED
    BY <1>1, <1>5, <2>1 DEF IInv, TypeOK, RecoveryInv, OneDecisionPerEffect
<1>6. CASE \E r \in Recovery : ReplayRecovery(r)
  BY <1>5, <1>6 DEF ReplayRecovery, Free
<1>7. CASE ApplyRecovery
  <2>1. job.op = "resolve" /\ job.at = "recorded"
    BY <1>7 DEF ApplyRecovery, InStep
  <2>2. job.key \in Recovery /\ recovery[job.key] = "recorded"
    BY <1>2, <2>1, JobParts DEF IInv, RecoveryInv
  <2>3. QED
    BY <1>5, <1>7, <2>2 DEF ApplyRecovery
<1>8. CASE DecideRecovery
  <2>1. /\ job.op = "resolve" /\ job.at = "blocked" /\ job # Idle
        /\ job' = [job EXCEPT !.at = "decided"]
    BY <1>1, <1>8 DEF DecideRecovery, InStep
  <2>2. job'.op = "resolve" /\ job'.key = job.key /\ job'.at = "decided"
    BY <1>2, <2>1, JobAdvances
  <2>3. /\ job.key \in Recovery /\ work[Target(job.key)] = "open"
        /\ \A r \in Recovery : recovery[r] # "decided"
    BY <1>2, <2>1, JobParts DEF IInv, RecoveryInv
  <2>4. work' = work /\ recovery' = [recovery EXCEPT ![job.key] = "decided"]
    BY <1>8 DEF DecideRecovery
  <2>5. \A r \in Recovery : recovery[r] # "none" => Target(r) # Target(job.key)
    BY <2>3 DEF IInv, TypeOK, RecoveryInv
  <2>6. \A r \in Recovery : recovery'[r] = IF r = job.key THEN "decided" ELSE recovery[r]
    BY <2>3, <2>4 DEF IInv, TypeOK
  <2>7. OneDecisionPerEffect'
    BY <2>5, <2>6 DEF IInv, RecoveryInv, OneDecisionPerEffect
  <2>8. QED
    BY <2>2, <2>3, <2>4, <2>6, <2>7 DEF IInv, RecoveryInv
<1>9. CASE RecordRecovery
  <2>1. job.op = "resolve" /\ job.at = "decided" /\ job # Idle
    BY <1>1, <1>9 DEF RecordRecovery, InStep
  <2>2. job' = Idle \/ (job'.op = "resolve" /\ job'.key = job.key /\ job'.at = "recorded")
    BY <1>2, <1>9, <2>1, JobAdvances DEF RecordRecovery
  <2>3. job.key \in Recovery /\ recovery[job.key] = "decided"
    BY <1>2, <2>1, JobParts DEF IInv, RecoveryInv
  <2>4. /\ work' = [work EXCEPT ![Target(job.key)] = "resolved"]
        /\ recovery' = [recovery EXCEPT ![job.key] = "recorded"]
    BY <1>9 DEF RecordRecovery
  <2>5. \A r \in Recovery : /\ recovery'[r] = IF r = job.key THEN "recorded" ELSE recovery[r]
                            /\ recovery'[r] # "decided"
    BY <2>3, <2>4 DEF IInv, TypeOK, RecoveryInv
  <2>6. \A e \in Effect : work'[e] = IF e = Target(job.key) THEN "resolved" ELSE work[e]
    BY <1>3, <2>3, <2>4 DEF IInv, TypeOK
  <2>7. OneDecisionPerEffect'
    BY <2>3, <2>5 DEF IInv, RecoveryInv, OneDecisionPerEffect
  <2>8. \A r \in Recovery :
           recovery'[r] \in {"recorded", "settled"} => work'[Target(r)] = "resolved"
    BY <1>3, <2>3, <2>5, <2>6 DEF IInv, RecoveryInv
  <2>9. QED
    BY <1>1, <2>2, <2>3, <2>5, <2>7, <2>8 DEF RecoveryInv
<1>10. QED
  BY <1>4, <1>6, <1>7, <1>8, <1>9 DEF Resolve

LEMMA StepRecovery == IInv /\ [Next]_vars => RecoveryInv'
<1> SUFFICES ASSUME IInv, [Next]_vars PROVE RecoveryInv'
  OBVIOUS
<1> USE DEF records
<1>1. Idle.op = "idle"
  BY DEF Idle
<1>2. job \in JobType
  BY DEF IInv, TypeOK
<1>3. CASE Complete
  <2>1. CASE \E c \in Completion : \/ BeginComplete(c) \/ ResumeComplete(c)
                                   \/ ReplayCompletion(c) \/ ReplayIntervention(c)
    BY <2>1, QuietRecovery DEF BeginComplete, ResumeComplete, ReplayCompletion,
                               ReplayIntervention, Settling, Start
  <2>2. CASE \/ TakeFingerprint \/ DecideCompletion \/ RefuseStale
             \/ ConfirmRecord \/ FinishCompletion
    BY <2>2, QuietRecovery
       DEF TakeFingerprint, DecideCompletion, RefuseStale, ConfirmRecord, Settling,
           FinishCompletion
  <2>3. CASE ConfirmDecision \/ RecordCompletion
    <3>1. /\ job.op = "complete" /\ job # Idle /\ UNCHANGED <<work, recovery>>
          /\ \E at : job' = [job EXCEPT !.at = at]
      BY <1>1, <2>3 DEF ConfirmDecision, RecordCompletion, InStep
    <3>2. job'.op = "complete"
      BY <1>2, <3>1, JobAdvances
    <3>3. QED
      BY <3>1, <3>2, QuietRecovery
  <2>4. QED
    BY <1>3, <2>1, <2>2, <2>3 DEF Complete
<1>4. CASE Approve
  <2>1. CASE \/ \E a \in Approval : DecideApproval(a) \/ ResumeApproval(a)
             \/ DecideRejection \/ ReopenApproved \/ ApplyRejection
    BY <2>1, QuietRecovery
       DEF DecideApproval, ResumeApproval, DecideRejection, ReopenApproved, ApplyRejection
  <2>2. CASE ApprovePlan \/ \E a \in Approval : ReplayApproval(a)
    BY <2>2, QuietRecovery DEF ApprovePlan, ReplayApproval
  <2>3. CASE RecordApproval
    <3>1. job.op = "approve" /\ job # Idle /\ UNCHANGED <<work, recovery>>
      BY <1>1, <2>3 DEF RecordApproval, InStep
    <3>2. job' = Idle \/ job'.op = "approve"
      BY <1>2, <2>3, <3>1, JobAdvances DEF RecordApproval
    <3>3. QED
      BY <3>1, <3>2, QuietRecovery
  <2>4. QED
    BY <1>4, <2>1, <2>2, <2>3 DEF Approve
<1>5. CASE Crash \/ Drift \/ UNCHANGED vars
  BY <1>2, <1>5, DriftJob, QuietRecovery DEF Crash, Drift, vars
<1>6. QED
  BY <1>3, <1>4, <1>5, ExecuteRecovery, ResolveRecovery DEF Next

-----------------------------------------------------------------------------
(***************************************************************************)
(* What a verified task rests on.                                          *)
(***************************************************************************)

LEMMA SameReview ==
    ASSUME UNCHANGED <<review, approval>>
    PROVE  Reviewed' <=> Reviewed
  BY DEF Reviewed, VotesOf, PlanApproved

LEMMA EqualReview ==
    ASSUME UNCHANGED <<review, approval>>
    PROVE  Reviewed' = Reviewed
  BY DEF Reviewed, VotesOf, PlanApproved

\* After an event no earlier decision is fresh.
LEMMA StaleFresh ==
    ASSUME IInv, gate' = Stale
    PROVE  FreshInv'
<1>1. gate \in [Completion -> Ungated \cup Gated]
  BY DEF IInv, TypeOK
<1>2. \A c \in Completion : ~gate'[c].fresh
  BY <1>1, StaleDecisions
<1>3. QED
  BY <1>2 DEF FreshInv

\* A step that appends nothing leaves the review as it was.
LEMMA SameFresh ==
    ASSUME IInv, UNCHANGED <<gate, review, approval>>
    PROVE  FreshInv'
  BY SameReview DEF IInv, FreshInv

LEMMA CompleteFresh == IInv /\ Complete => FreshInv'
<1> SUFFICES ASSUME IInv, Complete PROVE FreshInv'
  OBVIOUS
<1> USE DEF records
<1>0. gate \in [Completion -> Ungated \cup Gated] /\ job \in JobType
  BY DEF IInv, TypeOK
<1>1. CASE \/ \E c \in Completion : BeginComplete(c) \/ ResumeComplete(c)
           \/ \E c \in Completion : ReplayCompletion(c)
           \/ TakeFingerprint \/ RefuseStale \/ ConfirmDecision \/ ConfirmRecord
  BY <1>1, SameFresh DEF BeginComplete, ResumeComplete, ReplayCompletion, Start,
                         TakeFingerprint, RefuseStale, ConfirmDecision, ConfirmRecord
<1>2. CASE \E c \in Completion : ReplayIntervention(c)
  <2>1. PICK c \in Completion :
           \E from : SettleCompletion(c, from) /\ gate[c].status = "recorded"
    BY <1>2 DEF ReplayIntervention
  <2>2. \A d \in Completion : ~gate'[d].fresh
    BY <2>1, SettledNotUnfinished
  <2>3. QED
    BY <2>2 DEF FreshInv
<1>3. CASE DecideCompletion
  <2>1. job.key \in Completion /\ UNCHANGED <<review, approval>>
    BY <1>0, <1>3, JobParts DEF DecideCompletion, InStep
  <2>2. gate' = [Stale EXCEPT ![job.key] =
                   [status |-> "gated", fresh |-> TRUE,
                    decision |-> GateVerdict, workspace |-> job.seen,
                    examined |-> workspace]]
    BY <1>3 DEF DecideCompletion
  <2>3. Stale \in [Completion -> Ungated \cup Gated]
    BY <1>0, StaleType
  <2>4. /\ gate'[job.key].status = "gated" /\ gate'[job.key].decision = GateVerdict
        /\ \A c \in Completion \ {job.key} : gate'[c] = Stale[c]
    BY <2>1, <2>2, <2>3
  <2>5. GateVerdict = "pass" => Reviewed
    <3>1. review.votes \in [Verifier -> {"none", "twice"} \cup Vote] /\ workspace \in Workspace
      BY DEF IInv, TypeOK
    <3>2. VotesOf("pass") \subseteq Verifier
      BY DEF VotesOf
    <3>3. Cardinality(VotesOf("pass")) \in Nat
      BY <3>2, ConstantsAssumption, FS_Subset, FS_CardinalityType
    <3>4. SUFFICES ASSUME GateVerdict = "pass" PROVE Reviewed
      OBVIOUS
    <3>5. /\ CurrentEvidence
          /\ ~(Cardinality(VotesOf("pass")) < 2)
          /\ VotesOf("twice") \cup VotesOf("critical") = {}
          /\ ApprovalRequired => PlanApproved /\ review.final
      BY <3>4 DEF GateVerdict
    <3>6. Cardinality(VotesOf("pass")) >= 2
      BY <3>3, <3>5
    <3>7. QED
      BY <3>1, <3>5, <3>6 DEF Reviewed, CurrentEvidence
  <2>6. QED
    BY <1>0, <2>1, <2>4, <2>5, SameReview, StaleDecisions DEF FreshInv
<1>4. CASE RecordCompletion
  <2>1. /\ job.key \in Completion /\ gate[job.key].status # "none"
        /\ gate[job.key].fresh /\ UNCHANGED <<review, approval>>
    BY <1>0, <1>4, JobParts DEF RecordCompletion, InStep, IInv, GateInv
  <2>2. gate' = [Stale EXCEPT ![job.key] = [gate[job.key] EXCEPT !.status = "recorded"]]
    BY <1>4 DEF RecordCompletion
  <2>3. gate[job.key] \in Gated /\ Stale \in [Completion -> Ungated \cup Gated]
    BY <1>0, <2>1, StaleType
  <2>4. /\ gate'[job.key] = [gate[job.key] EXCEPT !.status = "recorded"]
        /\ \A c \in Completion \ {job.key} : gate'[c] = Stale[c]
    BY <2>1, <2>2, <2>3
  <2>5. /\ gate'[job.key].status = "recorded"
        /\ gate'[job.key].decision = gate[job.key].decision
        /\ gate[job.key].fresh
    BY <2>1, <2>3, <2>4 DEF Gated
  <2>6. gate[job.key].decision = "pass" => Reviewed
    BY <2>1, <2>5 DEF IInv, FreshInv
  <2>7. QED
    BY <1>0, <2>1, <2>4, <2>5, <2>6, SameReview, StaleDecisions DEF FreshInv
<1>5. CASE FinishCompletion
  <2>1. /\ job.key \in Completion /\ gate[job.key].status = "recorded"
        /\ UNCHANGED <<review, approval>>
    BY <1>0, <1>5, JobParts DEF FinishCompletion, InStep, IInv, GateInv
  <2>2. CASE gate' = gate
    BY <2>1, <2>2, SameFresh
  <2>3. CASE SettleCompletion(job.key, durable)
    <3>1. \A d \in Completion : ~gate'[d].fresh
      BY <2>1, <2>3, SettledNotUnfinished
    <3>2. QED
      BY <3>1 DEF FreshInv
  <2>4. QED
    BY <1>5, <2>2, <2>3 DEF FinishCompletion
<1>6. QED
  BY <1>1, <1>2, <1>3, <1>4, <1>5 DEF Complete

LEMMA StepFresh == IInv /\ [Next]_vars => FreshInv'
<1> SUFFICES ASSUME IInv, [Next]_vars PROVE FreshInv'
  OBVIOUS
<1> USE DEF records
<1>1. CASE Execute
  <2>1. CASE \/ \E a \in Action : BeginAction(a)
             \/ \E v \in Check : BeginCheck(v)
             \/ BeginVerdict \/ BeginEvidence \/ RunEffect
    BY <2>1, SameFresh
       DEF BeginAction, BeginCheck, BeginVerdict, BeginEvidence, Start, RunEffect
  <2>2. CASE RunCheck
    <3>1. UNCHANGED <<gate, review, approval>>
      BY <2>2 DEF RunCheck
    <3>2. QED
      BY <3>1, SameFresh
  <2>3. CASE \/ PassPlanGate \/ BeginExecuting \/ RefuseAction \/ WriteIntent
             \/ RecordEffect \/ RecordUncertain \/ WriteResult
    BY <2>3, StaleFresh DEF PassPlanGate, BeginExecuting, RefuseAction, WriteIntent,
                            RecordEffect, RecordUncertain, WriteResult
  <2>4. CASE \/ RecordEvidence \/ WriteCheckResult \/ BlockAfterCheck
             \/ CastVerdict \/ AppendEvidence
             \/ \E v \in Check : ReplayCheck(v)
    BY <2>4, StaleFresh DEF RecordEvidence, WriteCheckResult, BlockAfterCheck,
                            CastVerdict, AppendEvidence, ReplayCheck
  <2>5. QED
    BY <1>1, <2>1, <2>2, <2>3, <2>4 DEF Execute
<1>2. CASE Approve
  <2>1. CASE \E a \in Approval : ResumeApproval(a)
    BY <2>1, SameFresh DEF ResumeApproval
  <2>2. CASE \/ \E a \in Approval : DecideApproval(a) \/ ReplayApproval(a)
             \/ ApprovePlan \/ RecordApproval \/ ReopenApproved
             \/ DecideRejection \/ ApplyRejection
    BY <2>2, StaleFresh DEF DecideApproval, ReplayApproval, ApprovePlan, RecordApproval,
                            ReopenApproved, DecideRejection, ApplyRejection
  <2>3. QED
    BY <1>2, <2>1, <2>2 DEF Approve
<1>3. CASE Resolve
  <2>1. CASE \E r \in Recovery : BeginRecovery(r)
    <3>1. gate' = Stale \/ UNCHANGED <<gate, review, approval>>
      BY <2>1 DEF BeginRecovery
    <3>2. QED
      BY <3>1, StaleFresh, SameFresh
  <2>2. CASE \/ \E r \in Recovery : ReplayRecovery(r)
             \/ DecideRecovery \/ RecordRecovery \/ ApplyRecovery
    BY <2>2, StaleFresh DEF ReplayRecovery, DecideRecovery, RecordRecovery, ApplyRecovery,
                            SettleRecovery
  <2>3. QED
    BY <1>3, <2>1, <2>2 DEF Resolve
<1>4. CASE Crash \/ Drift \/ UNCHANGED vars
  BY <1>4, SameFresh DEF Crash, Drift, vars
<1>5. QED
  BY <1>1, <1>2, <1>3, <1>4, CompleteFresh DEF Next

\* Whatever a decision rests on holds after steps that leave it alone.
LEMMA StaleSnapshot ==
    ASSUME IInv, gate' = Stale, ~(job'.op = "complete" /\ job'.at = "settle")
    PROVE  SnapshotInv'
<1>1. \A c \in Completion : ~gate'[c].fresh
  BY StaleDecisions DEF IInv, TypeOK
<1>2. QED
  BY <1>1 DEF SnapshotInv

LEMMA SameSnapshot ==
    ASSUME IInv, UNCHANGED <<gate, review>>,
           \/ ~(job'.op = "complete" /\ job'.at = "settle")
           \/ job'.edited
           \/ UNCHANGED <<job, workspace>>
    PROVE  SnapshotInv'
  BY DEF IInv, SnapshotInv

\* Only complete and an edit are about a snapshot.
LEMMA OtherSteps ==
    ASSUME IInv, Execute \/ Approve \/ Resolve
    PROVE  /\ gate' = Stale \/ UNCHANGED <<gate, review>>
           /\ ~(job'.op = "complete" /\ job'.at = "settle")
<1> USE DEF records
<1>1. Idle.op = "idle" /\ job \in JobType
  BY DEF Idle, IInv, TypeOK
<1>2. ASSUME NEW at, job.op \notin {"idle", "complete"}
      PROVE  [job EXCEPT !.at = at].op # "complete"
  BY <1>1, <1>2, JobAdvances
<1>3. CASE Execute
  <2>1. CASE PassPlanGate \/ BeginExecuting \/ \E v \in Check : ReplayCheck(v)
    BY <1>1, <2>1 DEF PassPlanGate, BeginExecuting, ReplayCheck, Free
  <2>2. CASE \/ \E a \in Action : BeginAction(a)
             \/ \E v \in Check : BeginCheck(v)
             \/ BeginVerdict \/ BeginEvidence
    BY <2>2 DEF BeginAction, BeginCheck, BeginVerdict, BeginEvidence, Start
  <2>3. CASE \/ RefuseAction \/ RecordUncertain \/ WriteResult \/ BlockAfterCheck
             \/ CastVerdict \/ AppendEvidence
    BY <1>1, <2>3 DEF RefuseAction, RecordUncertain, WriteResult, BlockAfterCheck,
                      CastVerdict, AppendEvidence
  <2>4. CASE WriteIntent \/ RecordEffect \/ RecordEvidence \/ WriteCheckResult
    BY <1>1, <1>2, <2>4
       DEF WriteIntent, RecordEffect, RecordEvidence, WriteCheckResult, Running, InStep
  <2>5. CASE RunEffect
    BY <1>2, <2>5 DEF RunEffect, InStep
  <2>6. CASE RunCheck
    BY <2>6 DEF RunCheck
  <2>7. QED
    BY <1>3, <2>1, <2>2, <2>3, <2>4, <2>5, <2>6 DEF Execute
<1>4. CASE Approve
  <2>1. CASE \E a \in Approval : DecideApproval(a) \/ ResumeApproval(a) \/ ReplayApproval(a)
    BY <1>1, <2>1 DEF DecideApproval, ResumeApproval, ReplayApproval, Free
  <2>2. CASE ApprovePlan \/ ReopenApproved \/ DecideRejection \/ ApplyRejection
    BY <1>1, <2>2 DEF ApprovePlan, InStep, ReopenApproved, DecideRejection, ApplyRejection
  <2>3. CASE RecordApproval
    BY <1>1, <1>2, <2>3 DEF RecordApproval, InStep
  <2>4. QED
    BY <1>4, <2>1, <2>2, <2>3 DEF Approve
<1>5. CASE Resolve
  <2>1. CASE \E r \in Recovery : BeginRecovery(r)
    BY <2>1 DEF BeginRecovery
  <2>2. CASE ApplyRecovery \/ \E r \in Recovery : ReplayRecovery(r)
    BY <1>1, <2>2 DEF ApplyRecovery, ReplayRecovery, SettleRecovery, Free
  <2>3. CASE DecideRecovery \/ RecordRecovery
    BY <1>1, <1>2, <2>3 DEF DecideRecovery, RecordRecovery, InStep
  <2>4. QED
    BY <1>5, <2>1, <2>2, <2>3 DEF Resolve
<1>6. QED
  BY <1>3, <1>4, <1>5

\* The gate passes only on a check of the workspace it examines itself.
LEMMA CompleteSnapshot == IInv /\ Complete => SnapshotInv'
<1> SUFFICES ASSUME IInv, Complete PROVE SnapshotInv'
  OBVIOUS
<1> USE DEF records
<1>0. gate \in [Completion -> Ungated \cup Gated] /\ job \in JobType
  BY DEF IInv, TypeOK
<1>1. CASE \/ \E c \in Completion : BeginComplete(c) \/ ResumeComplete(c)
           \/ TakeFingerprint \/ RefuseStale
  BY <1>1, SameSnapshot
     DEF BeginComplete, ResumeComplete, Start, TakeFingerprint, RefuseStale, Idle
<1>2. CASE ConfirmDecision
  <2>1. job # Idle /\ job' = [job EXCEPT !.at = "append"] /\ UNCHANGED <<gate, review>>
    BY <1>2 DEF ConfirmDecision, InStep, Idle
  <2>2. job'.at = "append"
    BY <1>0, <2>1, JobAdvances
  <2>3. QED
    BY <2>1, <2>2, SameSnapshot
\* Looking at the snapshot.
<1>3. ASSUME NEW c \in Completion, Current(c), job' = Settling(c),
             UNCHANGED <<gate, review, workspace>>
      PROVE  SnapshotInv'
  BY <1>3, SettlingType DEF IInv, SnapshotInv, Current
<1>4. CASE ConfirmRecord \/ \E c \in Completion : ReplayCompletion(c)
  <2>1. CASE ConfirmRecord
    BY <1>0, <1>3, <2>1, JobParts DEF ConfirmRecord, InStep
  <2>2. CASE \E c \in Completion : ReplayCompletion(c)
    BY <1>3, <2>2 DEF ReplayCompletion
  <2>3. QED
    BY <1>4, <2>1, <2>2
<1>5. CASE DecideCompletion
  <2>1. /\ job.key \in Completion /\ review' = review
        /\ ~(job'.op = "complete" /\ job'.at = "settle")
    BY <1>0, <1>5, JobParts DEF DecideCompletion, InStep
  <2>2. gate' = [Stale EXCEPT ![job.key] =
                   [status |-> "gated", fresh |-> TRUE,
                    decision |-> GateVerdict, workspace |-> job.seen,
                    examined |-> workspace]]
    BY <1>5 DEF DecideCompletion
  <2>3. Stale \in [Completion -> Ungated \cup Gated]
    BY <1>0, StaleType
  <2>4. /\ gate'[job.key].decision = GateVerdict /\ gate'[job.key].examined = workspace
        /\ \A c \in Completion \ {job.key} : gate'[c] = Stale[c]
    BY <2>1, <2>2, <2>3
  <2>5. GateVerdict = "pass" => review.check = <<"pass", workspace>>
    BY DEF GateVerdict, CurrentEvidence
  <2>6. QED
    BY <1>0, <2>1, <2>4, <2>5, StaleDecisions DEF SnapshotInv
<1>6. CASE RecordCompletion
  <2>1. /\ job.key \in Completion /\ gate[job.key].status # "none"
        /\ gate[job.key].fresh /\ review' = review
    BY <1>0, <1>6, JobParts DEF RecordCompletion, InStep, IInv, GateInv
  <2>2. gate' = [Stale EXCEPT ![job.key] = [gate[job.key] EXCEPT !.status = "recorded"]]
    BY <1>6 DEF RecordCompletion
  <2>3. gate[job.key] \in Gated /\ Stale \in [Completion -> Ungated \cup Gated]
    BY <1>0, <2>1, StaleType
  <2>4. /\ gate'[job.key] = [gate[job.key] EXCEPT !.status = "recorded"]
        /\ \A c \in Completion \ {job.key} : gate'[c] = Stale[c]
    BY <2>1, <2>2, <2>3
  <2>5. /\ gate'[job.key].decision = gate[job.key].decision
        /\ gate'[job.key].examined = gate[job.key].examined
    BY <2>3, <2>4 DEF Gated
  <2>6. job # Idle /\ job' = [job EXCEPT !.at = "finish"]
    BY <1>6 DEF RecordCompletion, InStep, Idle
  <2>7. job'.at = "finish"
    BY <1>0, <2>6, JobAdvances
  <2>8. \A c \in Completion \ {job.key} : ~gate'[c].fresh
    BY <1>0, <2>4, StaleDecisions
  <2>9. gate[job.key].decision = "pass" => review.check = <<"pass", gate[job.key].examined>>
    BY <2>1 DEF IInv, SnapshotInv
  <2>10. QED
    BY <2>1, <2>5, <2>7, <2>8, <2>9 DEF SnapshotInv
<1>7. CASE FinishCompletion \/ \E c \in Completion : ReplayIntervention(c)
  <2>1. job' = Idle /\ review' = review
    BY <1>7 DEF FinishCompletion, ReplayIntervention, Free
  <2>2. \/ gate' = gate
        \/ \E c \in Completion : \E from : SettleCompletion(c, from) /\ gate[c].status # "none"
    <3>1. CASE FinishCompletion
      BY <1>0, <3>1, JobParts DEF FinishCompletion, InStep, IInv, GateInv
    <3>2. CASE \E c \in Completion : ReplayIntervention(c)
      BY <3>2 DEF ReplayIntervention
    <3>3. QED
      BY <1>7, <3>1, <3>2
  <2>3. CASE gate' = gate
    BY <2>1, <2>3, SameSnapshot DEF Idle
  <2>4. CASE \E c \in Completion :
               \E from : SettleCompletion(c, from) /\ gate[c].status # "none"
    <3>1. \A d \in Completion : ~gate'[d].fresh
      BY <2>4, SettledNotUnfinished
    <3>2. QED
      BY <2>1, <3>1 DEF SnapshotInv, Idle
  <2>5. QED
    BY <2>2, <2>3, <2>4
<1>8. QED
  BY <1>1, <1>2, <1>4, <1>5, <1>6, <1>7 DEF Complete

LEMMA StepSnapshot == IInv /\ [Next]_vars => SnapshotInv'
<1> SUFFICES ASSUME IInv, [Next]_vars PROVE SnapshotInv'
  OBVIOUS
<1>1. CASE Execute \/ Approve \/ Resolve
  BY <1>1, OtherSteps, StaleSnapshot, SameSnapshot
<1>2. CASE Crash \/ UNCHANGED vars
  BY <1>2, SameSnapshot DEF Crash, Idle, vars
<1>3. CASE Drift
  <2>1. UNCHANGED <<gate, review>>
    BY <1>3 DEF Drift
  <2>2. job \in JobType
    BY DEF IInv, TypeOK
  <2>3. job'.edited \/ ~(job'.op = "complete" /\ job'.at = "settle")
    BY <1>3, <2>2, DriftJob
  <2>4. QED
    BY <2>1, <2>3, SameSnapshot
<1>4. QED
  BY <1>1, <1>2, <1>3, CompleteSnapshot DEF Next

\* Only a handler that has recorded a pass and looked at it again makes a
\* task verified.
VerifyStep ==
    /\ job.op = "complete" /\ job.at = "settle" /\ job.key \in Completion
    /\ gate[job.key].status = "recorded" /\ gate[job.key].decision = "pass"
    /\ gate[job.key].fresh
    /\ SettleCompletion(job.key, durable)
    /\ Orphans = {} /\ UNCHANGED <<review, work, approval, workspace>>

LEMMA VerifiedBy ==
    ASSUME IInv, [Next]_vars, durable # "verified", durable' = "verified"
    PROVE  VerifyStep
<1> USE DEF records
<1>1. ASSUME NEW from, NEW to, Transition(from, to), to # "verified" PROVE FALSE
  BY <1>1 DEF Transition
<1>2. durable' # durable
  OBVIOUS
<1>3. ~Execute
  <2>1. /\ ~PassPlanGate /\ ~BeginExecuting /\ ~BlockAfterCheck
        /\ \A v \in Check : ~ReplayCheck(v)
    BY <1>1, <1>2 DEF PassPlanGate, BeginExecuting, BlockAfterCheck, ReplayCheck
  <2>2. /\ \A a \in Action : ~BeginAction(a)
        /\ \A v \in Check : ~BeginCheck(v)
        /\ ~BeginVerdict /\ ~BeginEvidence
    BY <1>2 DEF BeginAction, BeginCheck, BeginVerdict, BeginEvidence, Start
  <2>3. /\ ~RefuseAction /\ ~WriteIntent /\ ~RunEffect /\ ~RecordEffect
        /\ ~RecordUncertain /\ ~WriteResult
    BY <1>2 DEF RefuseAction, WriteIntent, RunEffect, RecordEffect, RecordUncertain, WriteResult
  <2>4. /\ ~RunCheck /\ ~RecordEvidence /\ ~WriteCheckResult
        /\ ~CastVerdict /\ ~AppendEvidence
    BY <1>2 DEF RunCheck, RecordEvidence, WriteCheckResult, CastVerdict, AppendEvidence
  <2>5. QED
    BY <2>1, <2>2, <2>3, <2>4 DEF Execute
<1>4. ~Approve
  <2>1. /\ ~ApprovePlan /\ ~ReopenApproved /\ ~ApplyRejection
        /\ \A a \in Approval : ~ReplayApproval(a)
    BY <1>1 DEF ApprovePlan, ReopenApproved, ApplyRejection, ReplayApproval
  <2>2. /\ ~RecordApproval /\ ~DecideRejection
        /\ \A a \in Approval : ~DecideApproval(a) /\ ~ResumeApproval(a)
    BY <1>2 DEF RecordApproval, DecideRejection, DecideApproval, ResumeApproval
  <2>3. QED
    BY <2>1, <2>2 DEF Approve
<1>5. ~Resolve
  <2>1. \A r \in Recovery : ~BeginRecovery(r)
    BY <1>1, <1>2 DEF BeginRecovery
  <2>2. \A r : ~SettleRecovery(r)
    BY <1>1 DEF SettleRecovery
  <2>3. ~DecideRecovery /\ ~RecordRecovery
    BY <1>2 DEF DecideRecovery, RecordRecovery
  <2>4. QED
    BY <2>1, <2>2, <2>3 DEF Resolve, ReplayRecovery, ApplyRecovery
<1>6. ~Crash /\ ~Drift /\ ~UNCHANGED vars
  BY <1>2 DEF Crash, Drift, vars
<1>7. Complete
  BY <1>3, <1>4, <1>5, <1>6 DEF Next
<1>8. \A c \in Completion : \A from : SettleCompletion(c, from) => gate[c].decision = "pass"
  BY <1>1 DEF SettleCompletion, CompletionTarget
<1>9. \A c \in Completion : ~ReplayIntervention(c)
  BY <1>8 DEF ReplayIntervention, Unfinished
<1>10. CASE FinishCompletion
  <2>1. /\ job.op = "complete" /\ job.at = "settle"
        /\ UNCHANGED <<review, work, approval, workspace>>
    BY <1>10 DEF FinishCompletion, InStep
  <2>2. SettleCompletion(job.key, durable)
    BY <1>2, <1>10 DEF FinishCompletion
  <2>3. /\ job.key \in Completion /\ gate[job.key].status = "recorded"
        /\ gate[job.key].fresh /\ Orphans = {}
    BY <2>1, JobParts DEF IInv, TypeOK, GateInv, BlockInv
  <2>4. QED
    BY <1>8, <2>1, <2>2, <2>3 DEF VerifyStep
<1>11. QED
  <2>1. /\ \A c \in Completion : ~BeginComplete(c) /\ ~ResumeComplete(c) /\ ~ReplayCompletion(c)
        /\ ~TakeFingerprint /\ ~DecideCompletion /\ ~RefuseStale
        /\ ~ConfirmDecision /\ ~RecordCompletion /\ ~ConfirmRecord
    BY <1>2 DEF BeginComplete, ResumeComplete, ReplayCompletion, Start, TakeFingerprint,
                DecideCompletion, RefuseStale, ConfirmDecision, RecordCompletion, ConfirmRecord
  <2>2. QED
    BY <1>7, <1>9, <1>10, <2>1 DEF Complete

LEMMA StepCertified == IInv /\ [Next]_vars => Certified'
<1> SUFFICES ASSUME IInv, [Next]_vars, durable' = "verified" PROVE Certified'
  BY DEF Certified
<1>0. gate \in [Completion -> Ungated \cup Gated]
  BY DEF IInv, TypeOK
<1>1. CASE durable # "verified"
  <2>1. PICK c \in Completion :
          /\ gate[c].status = "recorded" /\ gate[c].decision = "pass"
          /\ gate[c].fresh /\ SettleCompletion(c, durable)
          /\ Orphans = {} /\ UNCHANGED <<review, work, approval, workspace>>
    BY <1>1, VerifiedBy DEF VerifyStep
  <2>2. gate'[c].status = "settled" /\ gate'[c].decision = "pass"
    BY <2>1, SettledNotUnfinished
  <2>3. Reviewed'
    BY <2>1, SameReview DEF IInv, FreshInv
  <2>4. Orphans' = {}
    BY <2>1 DEF Orphans
  <2>5. QED
    BY <2>2, <2>3, <2>4 DEF Certified, Reviewed
<1>2. CASE durable = "verified"
  <2>1. Ended
    BY <1>2 DEF Ended, Terminal
  <2>2. /\ UNCHANGED <<review, work>>
        /\ gate' = gate \/ gate' = Stale
        /\ \A a \in Approval : approval[a] # "none" => approval'[a] # "none"
    <3>1. CASE \E a \in Approval : ResumeApproval(a)
      BY <3>1 DEF ResumeApproval, records
    <3>2. CASE RecordApproval
      BY <3>2 DEF RecordApproval, IInv, TypeOK
    <3>3. CASE ApplyRejection \/ Crash \/ Drift \/ UNCHANGED vars
      BY <3>3 DEF ApplyRejection, Crash, Drift, vars, records
    <3>4. QED
      BY <2>1, <3>1, <3>2, <3>3, EndedSteps
  <2>3. PlanApproved => PlanApproved'
    BY <2>2 DEF PlanApproved, Approval
  <2>4. PICK c \in Completion : gate[c].status = "settled" /\ gate[c].decision = "pass"
    BY <1>2 DEF IInv, Certified
  <2>5. gate'[c].status = "settled" /\ gate'[c].decision = "pass"
    BY <1>0, <2>2, <2>4, StaleDecisions
  <2>6. Orphans' = Orphans /\ \A vote : VotesOf(vote)' = VotesOf(vote)
    BY <2>2 DEF Orphans, VotesOf
  <2>7. QED
    BY <1>2, <2>2, <2>3, <2>5, <2>6 DEF IInv, Certified, Reviewed
<1>3. QED
  BY <1>1, <1>2

-----------------------------------------------------------------------------
(***************************************************************************)
(* Approvals that are being recorded.                                      *)
(***************************************************************************)

LEMMA KeepsApprove ==
    ASSUME ApproveInv, approval' = approval, job' = job \/ job'.op # "approve"
    PROVE  ApproveInv'
  BY DEF ApproveInv

\* A handler of another kind goes on to its next step.
LEMMA OtherAdvances ==
    ASSUME ApproveInv, job \in JobType, NEW at, job' = [job EXCEPT !.at = at],
           approval' = approval, job.op \notin {"idle", "approve"}
    PROVE  ApproveInv'
<1>1. job # Idle
  BY DEF Idle
<1>2. job'.op = job.op
  BY <1>1, JobAdvances
<1>3. QED
  BY <1>2, KeepsApprove

LEMMA ExecuteApprove == IInv /\ Execute => ApproveInv'
<1> SUFFICES ASSUME IInv, Execute PROVE ApproveInv'
  OBVIOUS
<1> USE DEF records
<1>1. job \in JobType /\ ApproveInv
  BY DEF IInv, TypeOK
<1>2. Idle.op = "idle"
  BY DEF Idle
<1>4. CASE PassPlanGate \/ BeginExecuting \/ \E v \in Check : ReplayCheck(v)
  BY <1>1, <1>2, <1>4, KeepsApprove DEF PassPlanGate, BeginExecuting, ReplayCheck
<1>5. CASE \/ \E a \in Action : BeginAction(a)
           \/ \E v \in Check : BeginCheck(v)
           \/ BeginVerdict \/ BeginEvidence
  BY <1>1, <1>5, KeepsApprove DEF BeginAction, BeginCheck, BeginVerdict, BeginEvidence, Start
<1>6. CASE \/ RefuseAction \/ RecordUncertain \/ WriteResult \/ BlockAfterCheck
           \/ CastVerdict \/ AppendEvidence
  BY <1>1, <1>2, <1>6, KeepsApprove
     DEF RefuseAction, RecordUncertain, WriteResult, BlockAfterCheck, CastVerdict, AppendEvidence
<1>3. CASE RunCheck
  BY <1>1, <1>3, KeepsApprove DEF RunCheck
<1>7. CASE WriteIntent \/ RunEffect \/ RecordEffect \/ RecordEvidence
  BY <1>1, <1>7, OtherAdvances
     DEF WriteIntent, RunEffect, RecordEffect, RecordEvidence, Running, InStep
<1>8. CASE WriteCheckResult
  BY <1>1, <1>2, <1>8, KeepsApprove, OtherAdvances DEF WriteCheckResult, InStep
<1>9. QED
  BY <1>3, <1>4, <1>5, <1>6, <1>7, <1>8 DEF Execute

LEMMA StepApprove == IInv /\ [Next]_vars => ApproveInv'
<1> SUFFICES ASSUME IInv, [Next]_vars PROVE ApproveInv'
  OBVIOUS
<1> USE DEF records
<1>1. /\ job \in JobType /\ ApproveInv
      /\ approval \in [Approval -> {"none", "decided", "recorded", "settled"}]
  BY DEF IInv, TypeOK
<1>2. Idle.op = "idle"
  BY DEF Idle
<1>3. ASSUME NEW at PROVE job # Idle => /\ [job EXCEPT !.at = at].op = job.op
                                        /\ [job EXCEPT !.at = at].key = job.key
  BY <1>1, JobAdvances
<1>4. CASE Complete
  <2>1. CASE \/ TakeFingerprint \/ DecideCompletion \/ RefuseStale \/ ConfirmDecision
             \/ RecordCompletion \/ ConfirmRecord \/ FinishCompletion
    BY <1>1, <1>2, <2>1, KeepsApprove, OtherAdvances
       DEF TakeFingerprint, DecideCompletion, RefuseStale, ConfirmDecision,
           RecordCompletion, ConfirmRecord, Settling, FinishCompletion, InStep
  <2>2. CASE \E c \in Completion : \/ BeginComplete(c) \/ ResumeComplete(c)
                                  \/ ReplayCompletion(c) \/ ReplayIntervention(c)
    BY <1>1, <2>2, KeepsApprove DEF BeginComplete, Start, ResumeComplete, ReplayCompletion,
                                    ReplayIntervention, Settling
  <2>3. QED
    BY <1>4, <2>1, <2>2 DEF Complete
<1>5. CASE Approve
  <2>1. CASE \E a \in Approval : DecideApproval(a)
    BY <1>1, <2>1 DEF DecideApproval, ApproveInv
  <2>2. CASE \E a \in Approval : ResumeApproval(a)
    BY <1>1, <2>2 DEF ResumeApproval, ApproveInv
  <2>3. CASE \E a \in Approval : ReplayApproval(a)
    BY <1>1, <1>2, <2>3 DEF ReplayApproval, Free, ApproveInv
  <2>4. CASE RecordApproval
    <3>1. job.op = "approve" /\ job # Idle /\ job.key \in Approval
      BY <1>1, <1>2, <2>4, JobParts DEF RecordApproval, InStep
    <3>2. approval'[job.key] # "none"
      BY <1>1, <2>4, <3>1 DEF RecordApproval
    <3>3. job' = Idle \/ job'.key = job.key
      BY <1>3, <2>4, <3>1 DEF RecordApproval
    <3>4. QED
      BY <1>2, <3>2, <3>3 DEF ApproveInv
  <2>5. CASE ReopenApproved
    BY <1>2, <2>5 DEF ReopenApproved, ApproveInv
  <2>6. CASE ApprovePlan \/ DecideRejection \/ ApplyRejection
    BY <1>1, <1>2, <2>6, KeepsApprove DEF ApprovePlan, DecideRejection, ApplyRejection
  <2>7. QED
    BY <1>5, <2>1, <2>2, <2>3, <2>4, <2>5, <2>6 DEF Approve
<1>6. CASE Resolve
  <2>1. CASE \E r \in Recovery : BeginRecovery(r) \/ ReplayRecovery(r)
    BY <1>1, <2>1, KeepsApprove DEF BeginRecovery, ReplayRecovery, SettleRecovery
  <2>2. CASE DecideRecovery \/ RecordRecovery \/ ApplyRecovery
    BY <1>1, <1>2, <2>2, KeepsApprove, OtherAdvances
       DEF DecideRecovery, RecordRecovery, ApplyRecovery, SettleRecovery, InStep
  <2>3. QED
    BY <1>6, <2>1, <2>2 DEF Resolve
<1>7. CASE Crash \/ Drift \/ UNCHANGED vars
  BY <1>1, <1>2, <1>7, DriftJob, KeepsApprove DEF Crash, Drift, vars
<1>8. QED
  BY <1>4, <1>5, <1>6, <1>7, ExecuteApprove DEF Next

-----------------------------------------------------------------------------
LEMMA InitEstablishesInvariant == Init => IInv
<1> SUFFICES ASSUME Init PROVE IInv
  OBVIOUS
<1>1. NoGate \in Ungated /\ NoReview \in Review
  BY DEF NoGate, Ungated, NoReview, Review
<1>2. TypeOK
  BY <1>1 DEF Init, TypeOK, TaskState, JobType, Review
<1>3. GateInv /\ IntentInv
  BY DEF Init, GateInv, IntentInv, Idle, Effect
<1>4. EndInv
  BY DEF Init, EndInv, Idle
<1>5. Orphans = {} /\ Unfinished = {}
  BY DEF Init, Orphans, Unfinished, NoGate
<1>6. BlockInv
  BY <1>5 DEF Init, BlockInv, Idle
<1>7. RecoveryInv
  BY DEF Init, RecoveryInv, OneDecisionPerEffect, Idle
<1>8. FreshInv /\ SnapshotInv /\ Certified /\ ApproveInv
  BY DEF Init, FreshInv, SnapshotInv, NoGate, Certified, ApproveInv, Idle
<1>9. QED
  BY <1>2, <1>3, <1>4, <1>6, <1>7, <1>8 DEF IInv

LEMMA StepKeepsInvariant == IInv /\ [Next]_vars => IInv'
  BY StepType, StepApprove, StepIntent, StepEnd, StepBlock, StepRecovery, StepFresh,
     StepSnapshot, StepCertified DEF IInv

LEMMA InvariantHolds == Spec => []IInv
  BY InitEstablishesInvariant, StepKeepsInvariant, PTL DEF Spec

-----------------------------------------------------------------------------
\* The variables keep their types (task_lifecycle.py, all handlers).
THEOREM TaskTypeCorrect == Spec => []TypeOK
<1>1. IInv => TypeOK
  BY DEF IInv
<1>2. QED
  BY <1>1, InvariantHolds, PTL

\* However many requests, crashes, retries and recoveries there are, the
\* effect of an action never runs twice (perform_action).
THEOREM EffectsRunAtMostOnce == Spec => []EffectAtMostOnce
<1>1. IInv => EffectAtMostOnce
  BY DEF IInv, IntentInv, EffectAtMostOnce
<1>2. QED
  BY <1>1, InvariantHolds, PTL

\* A task is verified on a complete review that is still current, with no
\* effect in doubt (HITLGate.complete, complete and its replays).
THEOREM VerifiedIsCertified == Spec => []Certified
<1>1. IInv => Certified
  BY DEF IInv
<1>2. QED
  BY <1>1, InvariantHolds, PTL

\* ... and in the workspace its check saw, whatever was edited meanwhile,
\* unless an edit came after the last look at the snapshot or between the
\* two fingerprints of the decision (complete,
\* _assert_completion_snapshot_current).
THEOREM VerifiedInCheckedWorkspace == Spec => VerifiedAsChecked
<1>1. ASSUME IInv, [Next]_vars, durable # "verified", durable' = "verified"
      PROVE  /\ job.op = "complete" /\ job.at = "settle"
             /\ \/ job.edited
                \/ gate[job.key].examined # gate[job.key].workspace
                \/ CurrentEvidence
  <2>1. VerifyStep
    BY <1>1, VerifiedBy
  <2>2. review.check = <<"pass", gate[job.key].examined>>
    BY <1>1, <2>1 DEF VerifyStep, IInv, SnapshotInv
  <2>3. job.edited \/ gate[job.key].workspace = workspace
    BY <1>1, <2>1 DEF VerifyStep, IInv, SnapshotInv
  <2>4. QED
    BY <2>1, <2>2, <2>3 DEF VerifyStep, CurrentEvidence
<1>2. QED
  BY <1>1, InvariantHolds, PTL DEF Spec, VerifiedAsChecked

\* No two answers are ever given about one uncertain effect (resolve).
THEOREM EffectsAreDecidedOnce == Spec => []OneDecisionPerEffect
<1>1. IInv => OneDecisionPerEffect
  BY DEF IInv, RecoveryInv
<1>2. QED
  BY <1>1, InvariantHolds, PTL

\* The outcome of a task is final: no request, retry, recovery or late
\* approval runs an effect, records a result or changes the outcome.
THEOREM OutcomeIsFinal == Spec => TerminalNeverReopens
<1>1. ASSUME IInv, [Next]_vars, rejected \/ durable \in Terminal
      PROVE  /\ ran' = ran
             /\ review' = review
             /\ durable' = durable \/ (durable' = "rejected" /\ rejected)
  <2>1. Ended
    BY <1>1 DEF Ended
  <2>2. CASE ApplyRejection
    <3>1. durable \notin Terminal
      BY <2>2 DEF ApplyRejection, Transition, Edges, Terminal
    <3>2. QED
      BY <1>1, <2>2, <3>1 DEF ApplyRejection, Transition
  <2>3. CASE \E a \in Approval : ResumeApproval(a)
    BY <2>3 DEF ResumeApproval
  <2>4. CASE RecordApproval \/ Crash \/ Drift \/ UNCHANGED vars
    BY <2>4 DEF RecordApproval, Crash, Drift, vars
  <2>5. QED
    BY <1>1, <2>1, <2>2, <2>3, <2>4, EndedSteps
<1>2. QED
  BY <1>1, InvariantHolds, PTL DEF Spec, TerminalNeverReopens

\* While the outcome of an effect is unknown and its handler is gone, the
\* task does nothing but receive the answer (_ensure_executing, resolve).
THEOREM UncertaintyBlocksWork == Spec => OrphansBlockWork
<1>1. ASSUME IInv, [Next]_vars, NEW e \in Orphans, job = Idle \/ job.key # e
      PROVE  /\ ran' = ran
             /\ review' = review
             /\ \A c \in Completion : gate'[c].status = gate[c].status
             /\ \A d \in Effect : work'[d] # work[d] => d = e /\ work'[d] = "resolved"
  <2> USE DEF records
  <2>0. gate \in [Completion -> Ungated \cup Gated] /\ job \in JobType
    BY <1>1 DEF IInv, TypeOK
  <2>1. \A f \in Orphans : f = e
    BY <1>1 DEF IInv, BlockInv
  <2>2. Readable => Session = "blocked"
    BY <1>1 DEF Readable, Session, Unresolved
  <2>3. /\ job # Idle => job.at # "start"
        /\ job.op # "complete"
        /\ job.op \in {"action", "verify"} => job.op = "verify" /\ job.at = "block"
    <3>1. job # Idle => job.at # "start"
      BY <1>1 DEF IInv, BlockInv, Unresolved
    <3>2. job.op # "complete"
      BY <1>1 DEF IInv, BlockInv
    <3>3. ASSUME job.op \in {"action", "verify"} PROVE job.at = "block"
      <4>1. job # Idle
        BY <3>3 DEF Idle
      <4>2. QED
        BY <1>1, <3>1, <3>3, <4>1 DEF IInv, BlockInv
    <3>4. job.op = "action" => job.at # "block"
      BY <2>0, JobByOp DEF ActionJob
    <3>5. QED
      BY <3>1, <3>2, <3>3, <3>4
  <2>4. (gate' = gate \/ gate' = Stale) =>
           \A c \in Completion : gate'[c].status = gate[c].status
    BY <2>0, StaleDecisions
  <2>5. SUFFICES /\ UNCHANGED <<ran, review>>
                 /\ gate' = gate \/ gate' = Stale
                 /\ \/ work' = work
                    \/ work' = [work EXCEPT ![e] = "resolved"]
    BY <1>1, <2>4 DEF IInv, TypeOK
  <2>6. CASE Execute
    <3>1. /\ \A a \in Action : ~BeginAction(a)
          /\ \A v \in Check : ~BeginCheck(v) /\ ~ReplayCheck(v)
          /\ ~BeginVerdict /\ ~BeginEvidence
      BY <2>2 DEF BeginAction, BeginCheck, ReplayCheck, BeginVerdict, BeginEvidence,
                  Start, Free
    <3>2. /\ ~PassPlanGate /\ ~BeginExecuting /\ ~RefuseAction /\ ~WriteIntent
          /\ ~CastVerdict /\ ~AppendEvidence
      <4>1. \A op : op # "idle" => ~Running(op)
        BY <2>0, <2>3, JobByOp DEF Running, InStep
      <4>2. ~RefuseAction /\ ~WriteIntent /\ ~CastVerdict /\ ~AppendEvidence
        BY <4>1 DEF RefuseAction, WriteIntent, CastVerdict, AppendEvidence
      <4>3. QED
        BY <2>3, <4>2 DEF PassPlanGate, BeginExecuting
    <3>3. /\ ~RunEffect /\ ~RecordEffect /\ ~RecordUncertain /\ ~WriteResult
          /\ ~RunCheck /\ ~RecordEvidence /\ ~WriteCheckResult
      BY <2>3 DEF RunEffect, RecordEffect, RecordUncertain, WriteResult, RunCheck,
                  RecordEvidence, WriteCheckResult, InStep
    <3>4. BlockAfterCheck
      BY <2>6, <3>1, <3>2, <3>3 DEF Execute
    <3>5. QED
      BY <3>4 DEF BlockAfterCheck
  <2>7. CASE Complete
    <3>1. \A c \in Completion : ~BeginComplete(c)
      BY <2>2 DEF BeginComplete, Start, Free
    <3>2. \A c \in Completion : ~ResumeComplete(c)
      BY <1>1, ConstantsAssumption DEF ResumeComplete, Unresolved, Orphans, Effect
    <3>3. \A c \in Completion : ~ReplayCompletion(c) /\ ~ReplayIntervention(c)
      BY <1>1, <2>2 DEF ReplayCompletion, ReplayIntervention, Free, IInv, BlockInv
    <3>4. /\ ~TakeFingerprint /\ ~DecideCompletion /\ ~RefuseStale /\ ~ConfirmDecision
          /\ ~RecordCompletion /\ ~ConfirmRecord /\ ~FinishCompletion
      BY <2>3 DEF TakeFingerprint, DecideCompletion, RefuseStale, ConfirmDecision,
                  RecordCompletion, ConfirmRecord, FinishCompletion, Running, InStep
    <3>5. QED
      BY <2>7, <3>1, <3>2, <3>3, <3>4 DEF Complete
  <2>8. CASE Approve
    <3>1. ASSUME NEW a \in Approval, DecideApproval(a)
          PROVE  UNCHANGED <<ran, review, work>> /\ gate' = Stale
      <4>1. a \notin FinalApproval
        BY <1>1, <2>2, <3>1 DEF DecideApproval, MayApprove, Free, Unresolved
      <4>2. QED
        BY <3>1, <4>1 DEF DecideApproval
    <3>2. CASE \E a \in Approval : ResumeApproval(a) \/ ReplayApproval(a)
      BY <3>2 DEF ResumeApproval, ReplayApproval
    <3>3. CASE \/ ApprovePlan \/ RecordApproval \/ ReopenApproved
               \/ DecideRejection \/ ApplyRejection
      BY <3>3 DEF ApprovePlan, RecordApproval, ReopenApproved, DecideRejection, ApplyRejection
    <3>4. QED
      BY <2>8, <3>1, <3>2, <3>3 DEF Approve
  <2>9. CASE Resolve
    <3>1. CASE \E r \in Recovery : BeginRecovery(r)
      BY <3>1 DEF BeginRecovery
    <3>2. CASE ApplyRecovery \/ DecideRecovery \/ \E r \in Recovery : ReplayRecovery(r)
      BY <3>2 DEF ApplyRecovery, DecideRecovery, ReplayRecovery, SettleRecovery
    <3>3. CASE RecordRecovery
      <4>1. job.op = "resolve" /\ job.at = "decided"
        BY <3>3 DEF RecordRecovery, InStep
      <4>2. job.key \in Recovery /\ work[Target(job.key)] = "open"
        BY <2>0, <1>1, <4>1, JobParts DEF IInv, RecoveryInv
      <4>3. Target(job.key) = e
        BY <2>1, <4>2 DEF Orphans, Recovery, Target
      <4>4. QED
        BY <3>3, <4>3 DEF RecordRecovery
    <3>4. QED
      BY <2>9, <3>1, <3>2, <3>3 DEF Resolve
  <2>10. CASE Crash \/ Drift \/ UNCHANGED vars
    BY <2>10 DEF Crash, Drift, vars
  <2>11. QED
    BY <1>1, <2>6, <2>7, <2>8, <2>9, <2>10 DEF Next
<1>2. IInv /\ [Next]_vars =>
        \A e \in Orphans : (job = Idle \/ job.key # e) =>
          /\ ran' = ran
          /\ review' = review
          /\ \A c \in Completion : gate'[c].status = gate[c].status
          /\ \A d \in Effect : work'[d] # work[d] => d = e /\ work'[d] = "resolved"
  BY <1>1
<1>3. QED
  BY <1>2, InvariantHolds, PTL DEF Spec, OrphansBlockWork
-----------------------------------------------------------------------------
(***************************************************************************)
(* The promise of a task.                                                  *)
(***************************************************************************)

\* Only these steps announce, do or answer for an effect.
LEMMA WorkSteps ==
    ASSUME [Next]_vars
    PROVE  \/ UNCHANGED <<work, ran>>
           \/ WriteIntent \/ RunEffect \/ WriteResult \/ WriteCheckResult
           \/ RecordRecovery
<1> USE DEF records
<1>1. CASE Execute
  <2>1. CASE PassPlanGate \/ BeginExecuting \/ \E v \in Check : ReplayCheck(v)
    BY <2>1 DEF PassPlanGate, BeginExecuting, ReplayCheck
  <2>2. CASE \/ \E a \in Action : BeginAction(a)
             \/ \E v \in Check : BeginCheck(v)
             \/ BeginVerdict \/ BeginEvidence
    BY <2>2 DEF BeginAction, BeginCheck, BeginVerdict, BeginEvidence, Start
  <2>3. CASE \/ RefuseAction \/ RecordEffect \/ RecordUncertain \/ RunCheck
             \/ RecordEvidence \/ BlockAfterCheck \/ CastVerdict \/ AppendEvidence
    BY <2>3 DEF RefuseAction, RecordEffect, RecordUncertain, RunCheck,
                RecordEvidence, BlockAfterCheck, CastVerdict, AppendEvidence
  <2>4. QED
    BY <1>1, <2>1, <2>2, <2>3 DEF Execute
<1>2. CASE Complete
  BY <1>2 DEF Complete, BeginComplete, Start, ResumeComplete, ReplayCompletion,
              ReplayIntervention, TakeFingerprint, DecideCompletion, RefuseStale,
              ConfirmDecision, RecordCompletion, ConfirmRecord, FinishCompletion
<1>3. CASE Approve
  BY <1>3 DEF Approve, DecideApproval, ResumeApproval, ReplayApproval, ApprovePlan,
              RecordApproval, ReopenApproved, DecideRejection, ApplyRejection
<1>4. CASE Resolve
  BY <1>4 DEF Resolve, BeginRecovery, ReplayRecovery, SettleRecovery,
              DecideRecovery, ApplyRecovery
<1>5. CASE Crash \/ Drift \/ UNCHANGED vars
  BY <1>5 DEF Crash, Drift, vars
<1>6. QED
  BY <1>1, <1>2, <1>3, <1>4, <1>5 DEF Next

\* A step that rejects an open task leaves its review as it was.
LEMMA RejectedBy ==
    ASSUME IInv, [Next]_vars, ~Ended, rejected' \/ durable' = "rejected"
    PROVE  UNCHANGED <<review, approval>> /\ durable' # "verified"
<1> USE DEF records
<1>1. ~rejected /\ durable # "rejected" /\ durable # "verified"
  BY DEF Ended, Terminal
<1>2. ASSUME NEW from, NEW to, Transition(from, to), to # "rejected", rejected' = rejected
      PROVE  FALSE
  BY <1>1, <1>2 DEF Transition
<1>3. ASSUME durable' = durable, rejected' = rejected PROVE FALSE
  BY <1>1, <1>3
<1>4. ~Execute
  <2>1. /\ ~PassPlanGate /\ ~BeginExecuting /\ ~BlockAfterCheck
        /\ \A v \in Check : ~ReplayCheck(v)
    BY <1>2, <1>3 DEF PassPlanGate, BeginExecuting, BlockAfterCheck, ReplayCheck
  <2>2. /\ \A a \in Action : ~BeginAction(a)
        /\ \A v \in Check : ~BeginCheck(v)
        /\ ~BeginVerdict /\ ~BeginEvidence
    BY <1>3 DEF BeginAction, BeginCheck, BeginVerdict, BeginEvidence, Start
  <2>3. /\ ~RefuseAction /\ ~WriteIntent /\ ~RunEffect /\ ~RecordEffect
        /\ ~RecordUncertain /\ ~WriteResult
    BY <1>3 DEF RefuseAction, WriteIntent, RunEffect, RecordEffect, RecordUncertain, WriteResult
  <2>4. /\ ~RunCheck /\ ~RecordEvidence /\ ~WriteCheckResult
        /\ ~CastVerdict /\ ~AppendEvidence
    BY <1>3 DEF RunCheck, RecordEvidence, WriteCheckResult, CastVerdict, AppendEvidence
  <2>5. QED
    BY <2>1, <2>2, <2>3, <2>4 DEF Execute
<1>5. ~Complete
  <2>1. \A c, from : SettleCompletion(c, from) => rejected' # rejected
    BY <1>2 DEF SettleCompletion, CompletionTarget
  <2>2. /\ ~FinishCompletion
        /\ \A c \in Completion : ~ReplayIntervention(c)
    BY <1>3, <2>1 DEF FinishCompletion, ReplayIntervention
  <2>3. /\ \A c \in Completion : ~BeginComplete(c) /\ ~ResumeComplete(c) /\ ~ReplayCompletion(c)
        /\ ~TakeFingerprint /\ ~DecideCompletion /\ ~RefuseStale
        /\ ~ConfirmDecision /\ ~RecordCompletion /\ ~ConfirmRecord
    BY <1>3 DEF BeginComplete, ResumeComplete, ReplayCompletion, Start, TakeFingerprint,
                DecideCompletion, RefuseStale, ConfirmDecision, RecordCompletion, ConfirmRecord
  <2>4. QED
    BY <2>2, <2>3 DEF Complete
<1>6. CASE Approve
  <2>1. /\ ~ApprovePlan /\ ~ReopenApproved
        /\ \A a \in Approval : ~ReplayApproval(a)
    BY <1>2 DEF ApprovePlan, ReopenApproved, ReplayApproval
  <2>2. /\ ~RecordApproval
        /\ \A a \in Approval : ~DecideApproval(a) /\ ~ResumeApproval(a)
    BY <1>3 DEF RecordApproval, DecideApproval, ResumeApproval
  <2>3. CASE DecideRejection
    BY <1>1, <2>3 DEF DecideRejection
  <2>4. CASE ApplyRejection
    BY <1>1, <2>4 DEF ApplyRejection, Transition
  <2>5. QED
    BY <1>6, <2>1, <2>2, <2>3, <2>4 DEF Approve
<1>7. CASE Resolve
  <2>1. ~DecideRecovery /\ ~RecordRecovery
    BY <1>3 DEF DecideRecovery, RecordRecovery
  <2>2. \A r \in Recovery : ~BeginRecovery(r)
    BY <1>2, <1>3 DEF BeginRecovery
  <2>3. \A r : SettleRecovery(r) => UNCHANGED <<review, approval>> /\ durable' # "verified"
    BY <1>1 DEF SettleRecovery, Transition
  <2>4. QED
    BY <1>7, <2>1, <2>2, <2>3 DEF Resolve, ReplayRecovery, ApplyRecovery
<1>8. ~Crash /\ ~Drift /\ ~UNCHANGED vars
  BY <1>3 DEF Crash, Drift, vars
<1>9. QED
  BY <1>4, <1>5, <1>6, <1>7, <1>8 DEF Next

\* What one open effect looks like once it is closed.
LEMMA Closing ==
    ASSUME IInv, NEW e \in Effect, NEW status \in {"completed", "blocking", "resolved"},
           work' = [work EXCEPT ![e] = status], e \in Orphans
    PROVE  Orphans' = Orphans \ {e} /\ Announced' = Announced
<1>1. work \in [Effect -> {"none", "open", "completed", "blocking", "resolved"}]
  BY DEF IInv, TypeOK
<1>2. work[e] = "open"
  BY DEF Orphans
<1>3. QED
  BY <1>1, <1>2 DEF Orphans, Announced

LEMMA ReviewedIsBoolean == Reviewed \in BOOLEAN
  BY DEF Reviewed

\* Steps of the log that tell nothing new.
LEMMA SameTold ==
    ASSUME UNCHANGED <<work, ran>>
    PROVE  UNCHANGED <<Announced, Orphans, Performed>>
  BY DEF Announced, Orphans, Performed

LEMMA OutcomeOpen == Outcome = "open" <=> ~Ended
  BY DEF Outcome, Ended, Terminal

\* With an outcome every step of a task is a stutter of the promise.
LEMMA EndedKeepsPromise ==
    ASSUME IInv, Ended, [Next]_vars
    PROVE  UNCHANGED Promise!vars
<1> USE DEF records
<1>1. UNCHANGED <<work, ran, review, rejected>>
  <2>1. CASE \E a \in Approval : ResumeApproval(a)
    BY <2>1 DEF ResumeApproval
  <2>2. CASE RecordApproval \/ ApplyRejection \/ Crash \/ Drift \/ UNCHANGED vars
    BY <2>2 DEF RecordApproval, ApplyRejection, Crash, Drift, vars
  <2>3. QED
    BY <2>1, <2>2, EndedSteps
<1>2. \A a \in Approval : approval'[a] = "none" <=> approval[a] = "none"
  <2>1. CASE \E a \in Approval : ResumeApproval(a)
    BY <2>1 DEF ResumeApproval
  <2>2. CASE RecordApproval
    <3>1. job.op = "approve" /\ job \in JobType /\ approval[job.key] # "none"
      BY <2>2 DEF RecordApproval, InStep, IInv, TypeOK, ApproveInv
    <3>2. QED
      BY <2>2, <3>1, JobParts DEF RecordApproval, IInv, TypeOK
  <2>3. CASE ApplyRejection \/ Crash \/ Drift \/ UNCHANGED vars
    BY <2>3 DEF ApplyRejection, Crash, Drift, vars
  <2>4. QED
    BY <2>1, <2>2, <2>3, EndedSteps
<1>3. Reviewed' = Reviewed
  <2>1. PlanApproved' <=> PlanApproved
    BY <1>2 DEF PlanApproved, Approval
  <2>2. \A vote : VotesOf(vote)' = VotesOf(vote)
    BY <1>1 DEF VotesOf
  <2>3. QED
    BY <1>1, <2>1, <2>2 DEF Reviewed
<1>4. Outcome' = Outcome
  <2>1. CASE rejected
    BY <1>1, <2>1 DEF Outcome
  <2>2. CASE ~rejected
    <3>1. durable \in Terminal
      BY <2>2 DEF Ended
    <3>2. durable' = durable
      <4>1. CASE \E a \in Approval : ResumeApproval(a)
        BY <4>1 DEF ResumeApproval
      <4>2. CASE RecordApproval \/ Crash \/ Drift \/ UNCHANGED vars
        BY <4>2 DEF RecordApproval, Crash, Drift, vars
      <4>3. ~ApplyRejection
        BY <3>1 DEF ApplyRejection, Transition, Edges, Terminal
      <4>4. QED
        BY <4>1, <4>2, <4>3, EndedSteps
    <3>3. QED
      BY <1>1, <3>2 DEF Outcome
  <2>3. QED
    BY <2>1, <2>2
<1>5. QED
  BY <1>1, <1>3, <1>4, SameTold DEF Promise!vars

LEMMA StepKeepsPromise ==
    ASSUME IInv, [Next]_vars
    PROVE  [Promise!Next]_(Promise!vars)
<1> USE DEF records
<1>1. CASE Ended
  BY <1>1, EndedKeepsPromise
<1>2. CASE ~Ended /\ UNCHANGED <<work, ran>>
  <2>1. Outcome = "open" /\ UNCHANGED <<Announced, Orphans, Performed>>
    BY <1>2, SameTold, OutcomeOpen
  <2>2. CASE rejected' \/ durable' = "rejected"
    <3>1. UNCHANGED <<review, approval>> /\ durable' # "verified"
      BY <1>2, <2>2, RejectedBy
    <3>2. Outcome' = "rejected" /\ Reviewed' = Reviewed
      BY <2>2, <3>1, EqualReview DEF Outcome, Terminal
    <3>3. Promise!Reject
      BY <2>1, <3>2 DEF Promise!Reject
    <3>4. QED
      BY <3>3 DEF Promise!Next
  <2>3. CASE ~rejected' /\ durable' = "verified"
    <3>1. /\ \E c \in Completion : gate[c].decision = "pass" /\ gate[c].fresh
          /\ Orphans = {} /\ UNCHANGED <<review, approval>>
      BY <1>2, <2>3, VerifiedBy DEF Ended, Terminal, VerifyStep
    <3>2. Reviewed /\ Reviewed' = Reviewed
      BY <3>1, EqualReview DEF IInv, FreshInv
    <3>3. Outcome' = "verified"
      BY <2>3 DEF Outcome, Terminal
    <3>4. Promise!Accept
      BY <2>1, <3>1, <3>2, <3>3 DEF Promise!Accept
    <3>5. QED
      BY <3>4 DEF Promise!Next
  <2>4. CASE ~rejected' /\ durable' \notin Terminal
    <3>1. Outcome' = Outcome
      BY <2>1, <2>4 DEF Outcome
    <3>2. Promise!Review
      BY <2>1, <3>1, ReviewedIsBoolean DEF Promise!Review, Reviewed
    <3>3. QED
      BY <3>2 DEF Promise!Next
  <2>5. QED
    BY <2>2, <2>3, <2>4 DEF Terminal
<1>3. ASSUME ~Ended, \/ WriteIntent \/ RunEffect \/ WriteResult \/ WriteCheckResult
                     \/ RecordRecovery
      PROVE  /\ job \in JobType
             /\ Outcome = "open" /\ Outcome' = "open" /\ Reviewed' = Reviewed
  <2>1. UNCHANGED <<rejected, durable, review>>
    BY <1>3 DEF WriteIntent, RunEffect, WriteResult, WriteCheckResult, RecordRecovery
  <2>2. approval' = approval
    BY <1>3 DEF WriteIntent, RunEffect, WriteResult, WriteCheckResult, RecordRecovery
  <2>3. QED
    BY <1>3, <2>1, <2>2, OutcomeOpen, EqualReview DEF Outcome, IInv, TypeOK
<1>4. CASE ~Ended /\ WriteIntent
  <2>1. /\ job.op \in {"action", "verify"} /\ job.at = "start"
        /\ ran' = ran
        /\ work' = [work EXCEPT ![job.key] = "open"]
    BY <1>4 DEF WriteIntent, Running, InStep
  <2>2. job.key \in Effect /\ job # Idle
    BY <1>3, <1>4, <2>1, JobParts DEF Effect, Idle
  <2>3. work[job.key] = "none" /\ Orphans = {}
    BY <2>1, <2>2 DEF IInv, RecoveryInv, BlockInv, Unresolved
  <2>4. work \in [Effect -> {"none", "open", "completed", "blocking", "resolved"}]
    BY DEF IInv, TypeOK
  <2>5. Announced' = Announced \cup {job.key} /\ Orphans' = {job.key}
    BY <2>1, <2>2, <2>3, <2>4 DEF Announced, Orphans
  <2>6. job.key \notin Announced /\ Performed' = Performed
    BY <2>1, <2>3 DEF Announced, Performed
  <2>7. Promise!Begin(job.key)
    BY <1>3, <1>4, <2>3, <2>5, <2>6 DEF Promise!Begin
  <2>8. QED
    BY <2>2, <2>7 DEF Promise!Next
<1>5. CASE ~Ended /\ RunEffect
  <2>1. /\ job.op = "action" /\ job.at = "effect"
        /\ ran' = [ran EXCEPT ![job.key] = @ + 1] /\ work' = work
    BY <1>5 DEF RunEffect, InStep
  <2>2. job.key \in Action /\ job.key \in Effect
    BY <1>3, <1>5, <2>1, JobParts DEF Effect
  <2>3. work[job.key] = "open" /\ ran[job.key] = 0 /\ ran \in [Action -> Nat]
    BY <2>1 DEF IInv, IntentInv, TypeOK
  <2>4. Performed' = Performed \cup {job.key} /\ job.key \notin Performed
    BY <2>1, <2>2, <2>3 DEF Performed
  <2>5. job.key \in Orphans /\ Announced' = Announced /\ Orphans' = Orphans
    BY <2>1, <2>2, <2>3 DEF Orphans, Announced
  <2>6. Promise!Perform(job.key)
    BY <1>3, <1>5, <2>4, <2>5 DEF Promise!Perform
  <2>7. QED
    BY <2>2, <2>6 DEF Promise!Next
<1>6. ASSUME ~Ended, Outcome = "open" /\ Outcome' = "open" /\ Reviewed' = Reviewed,
             NEW e \in Effect, e \in Orphans, ran' = ran,
             NEW status \in {"completed", "blocking", "resolved"},
             work' = [work EXCEPT ![e] = status]
      PROVE  Promise!Next
  <2>1. Orphans' = Orphans \ {e} /\ Announced' = Announced
    BY <1>6, Closing
  <2>2. Performed' = Performed
    BY <1>6 DEF Performed
  <2>3. Promise!Close(e)
    BY <1>6, <2>1, <2>2 DEF Promise!Close
  <2>4. QED
    BY <2>3 DEF Promise!Next
<1>7. CASE ~Ended /\ (WriteResult \/ WriteCheckResult)
  <2>1. /\ job.op \in {"action", "verify"} /\ job.at = "result" /\ ran' = ran
        /\ \E status \in {"completed", "blocking"} : work' = [work EXCEPT ![job.key] = status]
    BY <1>7 DEF WriteResult, WriteCheckResult, InStep
  <2>2. job.key \in Effect /\ job.key \in Orphans
    BY <1>3, <1>7, <2>1, JobParts DEF Effect, IInv, BlockInv
  <2>3. QED
    BY <1>3, <1>6, <1>7, <2>1, <2>2
<1>8. CASE ~Ended /\ RecordRecovery
  <2>1. /\ job.op = "resolve" /\ job.at = "decided" /\ ran' = ran
        /\ work' = [work EXCEPT ![Target(job.key)] = "resolved"]
    BY <1>8 DEF RecordRecovery, InStep
  <2>2. job.key \in Recovery /\ Target(job.key) \in Effect
    BY <1>3, <1>8, <2>1, JobParts DEF Recovery, Target
  <2>3. Target(job.key) \in Orphans
    BY <2>1, <2>2 DEF IInv, RecoveryInv, Orphans
  <2>4. QED
    BY <1>3, <1>6, <1>8, <2>1, <2>2, <2>3
<1>9. QED
  BY <1>1, <1>2, <1>4, <1>5, <1>7, <1>8, WorkSteps

\* However its handlers are interrupted, retried and recovered, a task keeps
\* the promise its log makes (TaskPromise): one effect at a time, announced
\* and done once, an outcome only on a current review, nothing after it.
THEOREM TaskKeepsPromise == Spec => KeepsPromise
<1>1. Init => Promise!Init
  <2> SUFFICES ASSUME Init PROVE Promise!Init
    OBVIOUS
  <2>1. Announced = {} /\ Orphans = {} /\ Performed = {}
    BY DEF Init, Announced, Orphans, Performed
  <2>2. ~Reviewed
    BY DEF Init, NoReview, Reviewed
  <2>3. Outcome = "open"
    BY DEF Init, Outcome, Terminal
  <2>4. QED
    BY <2>1, <2>2, <2>3, ReviewedIsBoolean DEF Promise!Init
<1>2. IInv /\ [Next]_vars => [Promise!Next]_(Promise!vars)
  BY StepKeepsPromise
<1>3. QED
  BY <1>1, <1>2, InvariantHolds, PTL DEF Spec, KeepsPromise, Promise!Spec
=============================================================================
