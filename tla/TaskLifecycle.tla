--------------------------- MODULE TaskLifecycle ---------------------------
(***************************************************************************)
(* One task of causality.task_lifecycle.TaskLifecycle without workflow     *)
(* phases: action, verify, verdict, append_evidence, approve, resolve and  *)
(* complete, each a sequence of durable appends that a crash may cut       *)
(* anywhere, and each callable again with the key it was called with.      *)
(*                                                                         *)
(* Every handler runs under the execution lock, so at most one is in       *)
(* flight (job); what interleaves with its steps is a crash and a change   *)
(* of the workspace by somebody else (Drift).  The log is kept as the      *)
(* projection that _project folds from it: one status for each request,    *)
(* the durable state, the review window and the completion decisions.      *)
(***************************************************************************)
EXTENDS Naturals, FiniteSets

CONSTANTS
    Action,             \* the action requests a client may make
    Irreversible,       \* those whose kind needs an approval of its own
    Check,              \* the verify requests
    Completion,         \* the complete requests
    FinalApproval,      \* the approvals of stage final
    KindApproval,       \* the approvals of an irreversible action kind
    PlanApproval,       \* the approvals of stage plan
    Verifier,           \* the reviewers that give verdicts
    Vote,               \* what they may say
    Workspace,          \* the fingerprints the project directory can have
    ApprovalRequired    \* the contract is high risk

ASSUME ConstantsAssumption ==
    /\ Irreversible \subseteq Action
    /\ ApprovalRequired \in BOOLEAN
    /\ IsFiniteSet(Verifier)
    /\ Vote \subseteq {"pass", "fail", "critical"}
    /\ Action \cap Check = {}
    /\ Completion \cap (Action \cup Check) = {}
    /\ FinalApproval \cap KindApproval = {}
    /\ PlanApproval \cap (FinalApproval \cup KindApproval) = {}

Effect == Action \cup Check                 \* what writes an intent first
Approval == PlanApproval \cup FinalApproval \cup KindApproval
Resolution == {"applied", "not_applied", "reject"}
Recovery == Effect \X Resolution            \* a resolve request

TaskState == {"planned", "approved", "executing", "blocked",
              "verified", "rejected"}
Terminal == {"verified", "rejected"}

\* The edges a state transition may take.
Edges == [planned   |-> {"approved", "executing", "rejected"},
          approved  |-> {"executing", "blocked", "rejected"},
          executing |-> {"verified", "blocked", "rejected"},
          blocked   |-> {"executing", "rejected"},
          verified  |-> {},
          rejected  |-> {}]

VARIABLES
    durable,    \* the state the transitions in the log add up to
    broken,     \* the log holds an event that the projection refuses
    rejected,   \* a trusted rejection of the plan or the result is in the log
    work,       \* the idempotency record of each effect
    recovery,   \* how far each resolve request has got
    approval,   \* how far each approve request has got
    gate,       \* the decision of each complete request
    review,     \* latest verification result, and what was said after it
    workspace,  \* the fingerprint of the project directory now
    ran,        \* how often each action's effect has run in the world
    job         \* the handler in flight

vars == <<durable, broken, rejected, work, recovery, approval, gate, review,
          workspace, ran, job>>
records == <<work, recovery, approval>>

Idle == [op |-> "idle"]
NoReview == [check |-> <<>>, votes |-> [x \in Verifier |-> "none"],
             final |-> FALSE]
NoGate == [status |-> "none", fresh |-> FALSE]

Init ==
    /\ durable = "planned"
    /\ broken = FALSE
    /\ rejected = FALSE
    /\ work = [e \in Effect |-> "none"]
    /\ recovery = [r \in Recovery |-> "none"]
    /\ approval = [a \in Approval |-> "none"]
    /\ gate = [c \in Completion |-> NoGate]
    /\ review = NoReview
    /\ workspace \in Workspace
    /\ ran = [a \in Action |-> 0]
    /\ job = Idle

-----------------------------------------------------------------------------
(* What the projection says of the log.                                    *)

Orphans == {e \in Effect : work[e] = "open"}

\* An ESCALATE without its operation, or whose BLOCKED was never written.
Unfinished == {c \in Completion :
                 /\ gate[c].status \in {"gated", "recorded"}
                 /\ gate[c].decision = "escalate"}

Unresolved == Orphans \cup Unfinished

\* Mutant: an effect left open does not block the task.
SessionWithoutOrphans == IF rejected THEN "rejected"
                         ELSE IF Unfinished # {} THEN "blocked"
                         ELSE durable

\* Mutant: a rejection counts once its transition is written.
SessionWithoutRejection == IF Unresolved # {} THEN "blocked" ELSE durable

Session == IF rejected THEN "rejected"
           ELSE IF Unresolved # {} THEN "blocked"
           ELSE durable

\* The projection of the log raises no error.
Readable ==
    /\ ~broken
    /\ Orphans # {} => durable \notin Terminal /\ ~rejected
    /\ Unfinished # {} => durable \notin Terminal

Free == job = Idle /\ Readable
InStep(op, at) == job.op = op /\ job.at = at /\ Readable

\* Any event makes an earlier completion decision stale.
Stale == [c \in Completion |-> [gate[c] EXCEPT !.fresh = FALSE]]

\* Append the transition from -> to; the projection refuses a from that is
\* not the state the earlier transitions add up to.
Transition(from, to) ==
    /\ to \in Edges[from]
    /\ broken' = (from # durable)
    /\ durable' = IF from = durable THEN to ELSE durable

\* Append an operation; a terminal log refuses it.
AppendOperation == broken' = (durable \in Terminal)

PlanApproved == \E a \in PlanApproval : approval[a] # "none"
KindApproved == \E a \in KindApproval : approval[a] # "none"

\* The required check passed, and the workspace is still what it saw.
CurrentEvidence == review.check = <<"pass", workspace>>

\* The work requests that have been recorded answer from the record.
Unrecorded(e) == work[e] = "none"

-----------------------------------------------------------------------------
(* _ensure_executing, which action, verify, verdict, append_evidence and   *)
(* complete begin with: a planned task passes the plan gate, becomes       *)
(* approved and then executing.                                            *)

Start(op, key) ==
    /\ Free
    /\ Session \notin Terminal \cup {"blocked"}
    /\ job' = [op |-> op, key |-> key, at |-> "start"]
    /\ UNCHANGED <<durable, broken, rejected, records, gate, review,
                   workspace, ran>>

PassPlanGate ==
    /\ job # Idle /\ job.at = "start" /\ Readable
    /\ durable = "planned"
    /\ gate' = Stale
    /\ IF ApprovalRequired /\ ~PlanApproved
       THEN job' = Idle /\ UNCHANGED <<durable, broken>>
       ELSE Transition("planned", "approved") /\ UNCHANGED job
    /\ UNCHANGED <<rejected, records, review, workspace, ran>>

BeginExecuting ==
    /\ job # Idle /\ job.at = "start" /\ Readable
    /\ durable = "approved"
    /\ Transition("approved", "executing")
    /\ gate' = Stale
    /\ UNCHANGED <<rejected, records, review, workspace, ran, job>>

Running(op) == InStep(op, "start") /\ durable = "executing"

-----------------------------------------------------------------------------
(* perform_action and the executed form of verify: the execution gates,    *)
(* the intent, the effect, its provenance, the result.                     *)

BeginAction(a) == Unrecorded(a) /\ Start("action", a)
BeginCheck(v) == Unrecorded(v) /\ Start("verify", v)

\* A gate refuses the action, or it fails before its effect.
RefuseAction ==
    /\ Running("action")
    /\ job' = Idle
    /\ gate' = Stale
    /\ UNCHANGED <<durable, broken, rejected, records, review, workspace, ran>>

\* Mutant: the effect starts before its intent is durable.
StartWithoutIntent ==
    /\ Running("action") \/ Running("verify")
    /\ job.key \in Irreversible => KindApproved
    /\ job' = [job EXCEPT !.at = "effect"]
    /\ UNCHANGED <<durable, broken, rejected, records, gate, review,
                   workspace, ran>>

WriteIntent ==
    /\ Running("action") \/ Running("verify")
    /\ job.key \in Irreversible => KindApproved
    /\ work' = [work EXCEPT ![job.key] = "open"]
    /\ gate' = Stale
    /\ job' = [job EXCEPT !.at = "effect"]
    /\ UNCHANGED <<durable, broken, rejected, recovery, approval, review,
                   workspace, ran>>

\* The effect runs; an exception may come back from it whatever it did.
RunEffect ==
    /\ InStep("action", "effect")
    /\ ran' = [ran EXCEPT ![job.key] = @ + 1]
    /\ workspace' \in Workspace
    /\ \E at \in {"ran", "uncertain"} : job' = [job EXCEPT !.at = at]
    /\ UNCHANGED <<durable, broken, rejected, records, gate, review>>

\* A TOOL_CALL that mutates the task makes every earlier result stale.
RecordEffect ==
    /\ InStep("action", "ran")
    /\ review' = NoReview
    /\ gate' = Stale
    /\ job' = [job EXCEPT !.at = "result"]
    /\ UNCHANGED <<durable, broken, rejected, records, workspace, ran>>

\* After an exception the intent stays without a result.
RecordUncertain ==
    /\ InStep("action", "uncertain")
    /\ review' = NoReview
    /\ gate' = Stale
    /\ job' = Idle
    /\ UNCHANGED <<durable, broken, rejected, records, workspace, ran>>

WriteResult ==
    /\ InStep("action", "result")
    /\ work' = [work EXCEPT ![job.key] = "completed"]
    /\ gate' = Stale
    /\ job' = Idle
    /\ UNCHANGED <<durable, broken, rejected, recovery, approval, review,
                   workspace, ran>>

\* The command of a check ends with a status, which is taken together with
\* the fingerprint after it; one that changed the workspace is unsafe.
RunCheck ==
    /\ InStep("verify", "effect")
    /\ workspace' \in Workspace
    /\ \E status \in {"pass", "fail", "timeout", "unsafe"} :
         /\ status = "unsafe" <=> workspace' # workspace
         /\ job' = [op |-> "verify", key |-> job.key, at |-> "evidence",
                    status |-> status, seen |-> workspace']
    /\ UNCHANGED <<durable, broken, rejected, records, gate, review, ran>>

\* Mutant: an unsafe check counts as a result.
RecordUnsafeAsResult ==
    /\ InStep("verify", "evidence")
    /\ review' = [NoReview EXCEPT !.check = <<job.status, job.seen>>]
    /\ gate' = Stale
    /\ job' = [job EXCEPT !.at = "result"]
    /\ UNCHANGED <<durable, broken, rejected, records, workspace, ran>>

\* The evidence of an unsafe check is itself a mutation.
RecordEvidence ==
    /\ InStep("verify", "evidence")
    /\ review' = IF job.status = "unsafe" THEN NoReview
                 ELSE [NoReview EXCEPT !.check = <<job.status, job.seen>>]
    /\ gate' = Stale
    /\ job' = [job EXCEPT !.at = "result"]
    /\ UNCHANGED <<durable, broken, rejected, records, workspace, ran>>

MustBlock(status) == status \in {"timeout", "unsafe"}

WriteCheckResult ==
    /\ InStep("verify", "result")
    /\ work' = [work EXCEPT ![job.key] =
                  IF MustBlock(job.status) THEN "blocking" ELSE "completed"]
    /\ gate' = Stale
    /\ job' = IF MustBlock(job.status) THEN [job EXCEPT !.at = "block"] ELSE Idle
    /\ UNCHANGED <<durable, broken, rejected, recovery, approval, review,
                   workspace, ran>>

BlockAfterCheck ==
    /\ InStep("verify", "block")
    /\ Transition(Session, "blocked")
    /\ gate' = Stale
    /\ job' = Idle
    /\ UNCHANGED <<rejected, records, review, workspace, ran>>

\* Called again, a check that had to block blocks an executing task.
ReplayCheck(v) ==
    /\ Free
    /\ work[v] = "blocking"
    /\ Session = "executing"
    /\ Transition(Session, "blocked")
    /\ gate' = Stale
    /\ UNCHANGED <<rejected, records, review, workspace, ran, job>>

-----------------------------------------------------------------------------
(* verdict and append_evidence.  A key whose record exists answers without *)
(* a write, so only calls with a new key are steps.                        *)

BeginVerdict == Start("verdict", "new")
BeginEvidence == Start("append_evidence", "new")

\* Two decisions of one verifier after the same evidence cancel the attempt.
CastVerdict ==
    /\ Running("verdict")
    /\ CurrentEvidence
    /\ \E x \in Verifier, vote \in Vote :
         review' = [review EXCEPT
                      !.votes[x] = IF @ = "none" THEN vote ELSE "twice",
                      !.final = FALSE]
    /\ gate' = Stale
    /\ job' = Idle
    /\ UNCHANGED <<durable, broken, rejected, records, workspace, ran>>

AppendEvidence ==
    /\ Running("append_evidence")
    /\ gate' = Stale
    /\ job' = Idle
    /\ UNCHANGED <<durable, broken, rejected, records, review, workspace, ran>>

-----------------------------------------------------------------------------
(* complete: fingerprint, gate, decision event, operation, transition.     *)

VotesOf(vote) == {x \in Verifier : review.votes[x] = vote}

\* HITLGate.complete over the structured requirement of the contract.
GateVerdict ==
    IF ApprovalRequired /\ ~PlanApproved THEN "escalate"
    ELSE IF \/ ~CurrentEvidence
            \/ VotesOf("twice") \cup VotesOf("critical") # {}
            \/ Cardinality(VotesOf("pass")) < 2
         THEN "repair"
    ELSE IF ApprovalRequired /\ ~review.final THEN "escalate"
    ELSE "pass"

\* Mutant: events after the decision are not looked for.
CurrentWorkspaceOnly(c) == gate[c].decision = "pass" => gate[c].workspace = workspace

\* _assert_completion_snapshot_current: nothing but its own operation
\* follows the decision, and a pass still has its workspace.
Current(c) ==
    /\ gate[c].fresh
    /\ gate[c].decision = "pass" => gate[c].workspace = workspace

BeginComplete(c) == gate[c].status = "none" /\ Start("complete", c)

\* Called again when the decision is in the log but its operation is not.
ResumeComplete(c) ==
    /\ Free
    /\ gate[c].status = "gated"
    /\ Session \notin Terminal
    /\ Unresolved \subseteq {c}
    /\ job' = [op |-> "complete", key |-> c, at |-> "record"]
    /\ UNCHANGED <<durable, broken, rejected, records, gate, review,
                   workspace, ran>>

TakeFingerprint ==
    /\ Running("complete")
    /\ job' = [op |-> "complete", key |-> job.key, at |-> "decide",
               seen |-> workspace]
    /\ UNCHANGED <<durable, broken, rejected, records, gate, review,
                   workspace, ran>>

\* The decision names the fingerprint complete took; the gate compares the
\* check with one it takes itself, and nobody compares the two.
DecideCompletion ==
    /\ InStep("complete", "decide")
    /\ gate' = [Stale EXCEPT ![job.key] =
                  [status |-> "gated", fresh |-> TRUE,
                   decision |-> GateVerdict, workspace |-> job.seen,
                   examined |-> workspace]]
    /\ job' = [op |-> "complete", key |-> job.key, at |-> "record"]
    /\ UNCHANGED <<durable, broken, rejected, records, review, workspace, ran>>

RefuseStale ==
    /\ InStep("complete", "record") \/ InStep("complete", "finish")
    /\ ~Current(job.key)
    /\ job' = Idle
    /\ UNCHANGED <<durable, broken, rejected, records, gate, review,
                   workspace, ran>>

\* The snapshot is looked at, and only then is the operation appended.
ConfirmDecision ==
    /\ InStep("complete", "record")
    /\ Current(job.key)
    /\ job' = [job EXCEPT !.at = "append"]
    /\ UNCHANGED <<durable, broken, rejected, records, gate, review,
                   workspace, ran>>

RecordCompletion ==
    /\ InStep("complete", "append")
    /\ AppendOperation
    /\ gate' = [Stale EXCEPT ![job.key] = [gate[job.key] EXCEPT !.status = "recorded"]]
    /\ job' = [job EXCEPT !.at = "finish"]
    /\ UNCHANGED <<durable, rejected, records, review, workspace, ran>>

\* The transition a decision calls for, from the durable state.
CompletionTarget(c) == IF gate[c].decision = "pass" THEN "verified" ELSE "blocked"

SettleCompletion(c, from) ==
    /\ Transition(from, CompletionTarget(c))
    /\ gate' = [Stale EXCEPT ![c] = [Stale[c] EXCEPT !.status = "settled"]]

\* The handler goes on to the transition; "edited" is history: whether
\* somebody edited the directory since the snapshot was looked at.
Settling(c) == [op |-> "complete", key |-> c, at |-> "settle", edited |-> FALSE]

\* Mutant: the snapshot is not looked at again before the transition.
ConfirmNothing ==
    /\ InStep("complete", "finish")
    /\ job' = Settling(job.key)
    /\ UNCHANGED <<durable, broken, rejected, records, gate, review,
                   workspace, ran>>

\* The snapshot is looked at again, and only then is the transition appended.
ConfirmRecord ==
    /\ InStep("complete", "finish")
    /\ Current(job.key)
    /\ job' = Settling(job.key)
    /\ UNCHANGED <<durable, broken, rejected, records, gate, review,
                   workspace, ran>>

\* Called again when the operation of a pass is in the log but its
\* transition is not.
ReplayCompletion(c) ==
    /\ Free
    /\ gate[c].status = "recorded" /\ gate[c].decision = "pass"
    /\ Session = "executing"
    /\ Current(c)
    /\ job' = Settling(c)
    /\ UNCHANGED <<durable, broken, rejected, records, gate, review,
                   workspace, ran>>

FinishCompletion ==
    /\ InStep("complete", "settle")
    /\ IF gate[job.key].decision = "repair"
       THEN UNCHANGED <<durable, broken, gate>>
       ELSE SettleCompletion(job.key, durable)
    /\ job' = Idle
    /\ UNCHANGED <<rejected, records, review, workspace, ran>>

\* Called again, an intervention is written whatever the workspace is now.
ReplayIntervention(c) ==
    /\ Free
    /\ c \in Unfinished /\ gate[c].status = "recorded"
    /\ Session = "blocked" /\ durable # "blocked"
    /\ SettleCompletion(c, durable)
    /\ UNCHANGED <<rejected, records, review, workspace, ran, job>>

-----------------------------------------------------------------------------
(* approve: the decision, then its operation and the transition it causes. *)

MayApprove(a) ==
    /\ Session \notin Terminal
    /\ a \in PlanApproval => Session = "planned"
    /\ a \in FinalApproval =>
         /\ Session \in {"executing", "blocked"}
         /\ Session = "blocked" => Unresolved = {}
         /\ CurrentEvidence

DecideApproval(a) ==
    /\ Free
    /\ approval[a] = "none"
    /\ MayApprove(a)
    /\ approval' = [approval EXCEPT ![a] = "decided"]
    /\ review' = IF a \in FinalApproval THEN [review EXCEPT !.final = TRUE]
                 ELSE review
    /\ gate' = Stale
    /\ job' = [op |-> "approve", key |-> a, at |-> "decided"]
    /\ UNCHANGED <<durable, broken, rejected, work, recovery, workspace, ran>>

\* Called again when the decision is in the log but its operation is not:
\* none of the conditions of MayApprove is looked at.
ResumeApproval(a) ==
    /\ Free
    /\ approval[a] = "decided"
    /\ job' = [op |-> "approve", key |-> a, at |-> "decided"]
    /\ UNCHANGED <<durable, broken, rejected, records, gate, review,
                   workspace, ran>>

ApprovePlan ==
    /\ InStep("approve", "decided")
    /\ job.key \in PlanApproval
    /\ Session = "planned"
    /\ Transition(Session, "approved")
    /\ gate' = Stale
    /\ UNCHANGED <<rejected, records, review, workspace, ran, job>>

\* A final approval of a blocked task goes on to reopen it.
RecordApproval ==
    /\ InStep("approve", "decided")
    /\ ~(job.key \in PlanApproval /\ Session = "planned")
    /\ AppendOperation
    /\ LET reopens == job.key \in FinalApproval /\ Session = "blocked"
       IN  /\ approval' = [approval EXCEPT
                             ![job.key] = IF reopens THEN "recorded" ELSE "settled"]
           /\ job' = IF reopens THEN [job EXCEPT !.at = "reopen"] ELSE Idle
    /\ gate' = Stale
    /\ UNCHANGED <<durable, rejected, work, recovery, review, workspace, ran>>

\* The session the handler captured was blocked.
ReopenApproved ==
    /\ InStep("approve", "reopen")
    /\ Transition("blocked", "executing")
    /\ approval' = [approval EXCEPT ![job.key] = "settled"]
    /\ gate' = Stale
    /\ job' = Idle
    /\ UNCHANGED <<rejected, work, recovery, review, workspace, ran>>

\* Called again after its operation, a final approval reopens a blocked task.
ReplayApproval(a) ==
    /\ Free
    /\ a \in FinalApproval
    /\ approval[a] \in {"recorded", "settled"}
    /\ Session = "blocked" /\ Unresolved = {}
    /\ Transition(Session, "executing")
    /\ approval' = [approval EXCEPT ![a] = "settled"]
    /\ gate' = Stale
    /\ UNCHANGED <<rejected, work, recovery, review, workspace, ran, job>>

\* A rejection of the plan or of the result is authoritative by itself.
DecideRejection ==
    /\ Free
    /\ Session \in {"planned", "executing", "blocked"}
    /\ Session = "blocked" => Unresolved = {}
    /\ rejected' = TRUE
    /\ gate' = Stale
    /\ job' = [op |-> "reject", key |-> "new", at |-> "decided"]
    /\ UNCHANGED <<durable, broken, records, review, workspace, ran>>

ApplyRejection ==
    /\ InStep("reject", "decided")
    /\ Transition(durable, "rejected")
    /\ gate' = Stale
    /\ job' = Idle
    /\ UNCHANGED <<rejected, records, review, workspace, ran>>

-----------------------------------------------------------------------------
(* resolve: a person says what became of the effect of an orphaned intent. *)

Target(r) == r[1]
Answer(r) == r[2]

\* Mutant: a second answer may overtake an unfinished first.
ReservedByNobody(r) == TRUE

\* The first decision in the log that has no operation yet owns the effect.
Reserved(r) == {q \in Recovery : recovery[q] = "decided"} \subseteq {r}

BeginRecovery(r) ==
    /\ Free
    /\ Reserved(r)
    /\ recovery[r] \in {"none", "decided"}
    /\ Target(r) \in Orphans
    /\ IF durable = "blocked" THEN UNCHANGED <<durable, broken, gate>>
       ELSE Transition(durable, "blocked") /\ gate' = Stale
    /\ job' = [op |-> "resolve", key |-> r,
               at |-> IF recovery[r] = "none" THEN "blocked" ELSE "decided"]
    /\ UNCHANGED <<rejected, records, review, workspace, ran>>

DecideRecovery ==
    /\ InStep("resolve", "blocked")
    /\ recovery' = [recovery EXCEPT ![job.key] = "decided"]
    /\ gate' = Stale
    /\ job' = [job EXCEPT !.at = "decided"]
    /\ UNCHANGED <<durable, broken, rejected, work, approval, review,
                   workspace, ran>>

\* The operation gives the intent its outcome.
RecordRecovery ==
    /\ InStep("resolve", "decided")
    /\ AppendOperation
    /\ work' = [work EXCEPT ![Target(job.key)] = "resolved"]
    /\ recovery' = [recovery EXCEPT ![job.key] = "recorded"]
    /\ gate' = Stale
    /\ job' = IF Answer(job.key) = "applied" THEN Idle
              ELSE [job EXCEPT !.at = "recorded"]
    /\ UNCHANGED <<durable, rejected, approval, review, workspace, ran>>

\* Write the transition an answer calls for, from the session's state.
SettleRecovery(r) ==
    /\ Transition(Session, IF Answer(r) = "reject" THEN "rejected" ELSE "executing")
    /\ recovery' = [recovery EXCEPT ![r] = "settled"]
    /\ gate' = Stale
    /\ UNCHANGED <<rejected, work, approval, review, workspace, ran>>

ApplyRecovery ==
    /\ InStep("resolve", "recorded")
    /\ SettleRecovery(job.key)
    /\ job' = Idle

\* Called again after its operation, on whatever the task is blocked by now.
ReplayRecovery(r) ==
    /\ Free
    /\ Reserved(r)
    /\ recovery[r] \in {"recorded", "settled"}
    /\ Answer(r) # "applied"
    /\ Session = "blocked"
    /\ SettleRecovery(r)
    /\ UNCHANGED job

-----------------------------------------------------------------------------
(* What the process does not do itself.                                    *)

\* The process dies, or an error leaves the handler, between two appends.
Crash ==
    /\ job # Idle
    /\ job' = Idle
    /\ UNCHANGED <<durable, broken, rejected, records, gate, review,
                   workspace, ran>>

\* Somebody edits the project directory.
Drift ==
    /\ workspace' \in Workspace \ {workspace}
    /\ job' = IF job # Idle /\ job.at = "settle" THEN [job EXCEPT !.edited = TRUE]
              ELSE job
    /\ UNCHANGED <<durable, broken, rejected, records, gate, review, ran>>

Execute ==
    \/ PassPlanGate \/ BeginExecuting
    \/ \E a \in Action : BeginAction(a)
    \/ \E v \in Check : BeginCheck(v) \/ ReplayCheck(v)
    \/ RefuseAction \/ WriteIntent \/ RunEffect \/ RecordEffect
    \/ RecordUncertain \/ WriteResult
    \/ RunCheck \/ RecordEvidence \/ WriteCheckResult \/ BlockAfterCheck
    \/ BeginVerdict \/ BeginEvidence \/ CastVerdict \/ AppendEvidence

Complete ==
    \/ \E c \in Completion :
         \/ BeginComplete(c) \/ ResumeComplete(c)
         \/ ReplayCompletion(c) \/ ReplayIntervention(c)
    \/ TakeFingerprint \/ DecideCompletion \/ RefuseStale
    \/ ConfirmDecision \/ RecordCompletion \/ ConfirmRecord \/ FinishCompletion

Approve ==
    \/ \E a \in Approval :
         DecideApproval(a) \/ ResumeApproval(a) \/ ReplayApproval(a)
    \/ ApprovePlan \/ RecordApproval \/ ReopenApproved
    \/ DecideRejection \/ ApplyRejection

Resolve ==
    \/ \E r \in Recovery : BeginRecovery(r) \/ ReplayRecovery(r)
    \/ DecideRecovery \/ RecordRecovery \/ ApplyRecovery

Next == Execute \/ Complete \/ Approve \/ Resolve \/ Crash \/ Drift

Spec == Init /\ [][Next]_vars

-----------------------------------------------------------------------------
(* Properties.                                                             *)

ActionJob == [op : {"action"}, key : Action,
              at : {"start", "effect", "ran", "uncertain", "result"}]
CheckJob == [op : {"verify"}, key : Check, at : {"start", "effect"}]
CheckedJob == [op : {"verify"}, key : Check, at : {"evidence", "result", "block"},
               status : {"pass", "fail", "timeout", "unsafe"}, seen : Workspace]
ReviewJob == [op : {"verdict", "append_evidence"}, key : {"new"}, at : {"start"}]
CompleteJob == [op : {"complete"}, key : Completion,
                at : {"start", "record", "append", "finish"}]
DecideJob == [op : {"complete"}, key : Completion, at : {"decide"}, seen : Workspace]
SettleJob == [op : {"complete"}, key : Completion, at : {"settle"}, edited : BOOLEAN]
ApproveJob == [op : {"approve"}, key : Approval, at : {"decided", "reopen"}]
RejectJob == [op : {"reject"}, key : {"new"}, at : {"decided"}]
ResolveJob == [op : {"resolve"}, key : Recovery, at : {"blocked", "decided", "recorded"}]

JobType == {Idle} \cup ActionJob \cup CheckJob \cup CheckedJob \cup ReviewJob
           \cup CompleteJob \cup DecideJob \cup SettleJob \cup ApproveJob
           \cup RejectJob \cup ResolveJob

Ungated == [status : {"none"}, fresh : BOOLEAN]
Gated == [status : {"gated", "recorded", "settled"}, fresh : BOOLEAN,
          decision : {"pass", "repair", "escalate"},
          workspace : Workspace, examined : Workspace]

\* The variables have their types.
TypeOK ==
    /\ durable \in TaskState
    /\ broken \in BOOLEAN
    /\ rejected \in BOOLEAN
    /\ work \in [Effect -> {"none", "open", "completed", "blocking", "resolved"}]
    /\ recovery \in [Recovery -> {"none", "decided", "recorded", "settled"}]
    /\ approval \in [Approval -> {"none", "decided", "recorded", "settled"}]
    /\ gate \in [Completion -> Ungated \cup Gated]
    /\ review \in [check : {<<>>} \cup ({"pass", "fail", "timeout"} \X Workspace),
                   votes : [Verifier -> {"none", "twice"} \cup Vote],
                   final : BOOLEAN]
    /\ workspace \in Workspace
    /\ ran \in [Action -> Nat]
    /\ job \in JobType

\* The required check passed, and two verifiers and where needed a person
\* approved that result: a complete review that nothing has made stale.
Reviewed ==
    /\ \E w \in Workspace : review.check = <<"pass", w>>
    /\ Cardinality(VotesOf("pass")) >= 2
    /\ VotesOf("twice") \cup VotesOf("critical") = {}
    /\ ApprovalRequired => PlanApproved /\ review.final

\* A verified task was certified on a complete current review: its required
\* check passed, nothing mutated the task since, two verifiers and where
\* needed a person approved that result, and no effect was left uncertain
\* (gates.py completion, task_lifecycle.complete, across crashes and replays).
Certified ==
    durable = "verified" =>
        /\ \E c \in Completion :
             gate[c].status = "settled" /\ gate[c].decision = "pass"
        /\ Reviewed
        /\ Orphans = {}

\* Whatever was edited while the process was dead or between two of its
\* steps, a task becomes VERIFIED in a workspace in which its check passed,
\* save for the two races the code leaves open: an edit after the last look
\* at the snapshot, and a decision that names another workspace than the
\* gate examined (complete, _assert_completion_snapshot_current).
VerifiedAsChecked ==
    [][durable # "verified" /\ durable' = "verified" =>
         /\ job.op = "complete" /\ job.at = "settle"
         /\ \/ job.edited
            \/ gate[job.key].examined # gate[job.key].workspace
            \/ CurrentEvidence]_vars

\* However often an action is asked for, and wherever the process dies, its
\* effect runs at most once (the intent of perform_action).
EffectAtMostOnce == \A a \in Action : ran[a] <= 1

\* At most one answer is ever given about one uncertain effect
\* (the reservation in resolve).
OneDecisionPerEffect ==
    \A r, q \in Recovery :
        recovery[r] # "none" /\ recovery[q] # "none" /\ Target(r) = Target(q)
            => r = q

\* A verified or rejected task, and one whose rejection is in the log, runs
\* nothing, records no result and never gets another outcome.
TerminalNeverReopens ==
    [][(rejected \/ durable \in Terminal) =>
         /\ ran' = ran
         /\ review' = review
         /\ durable' = durable \/ (durable' = "rejected" /\ rejected)]_vars

\* While an effect's outcome is unknown and its handler is gone, nothing else
\* runs, is reviewed or is decided, and only resolve closes the intent.
OrphansBlockWork ==
    [][\A e \in Orphans : (job = Idle \/ job.key # e) =>
         /\ ran' = ran
         /\ review' = review
         /\ \A c \in Completion : gate'[c].status = gate[c].status
         /\ \A d \in Effect : work'[d] # work[d] => d = e /\ work'[d] = "resolved"]_vars

Announced == {e \in Effect : work[e] # "none"}
Performed == {a \in Action : ran[a] > 0}
Outcome == IF rejected THEN "rejected"
           ELSE IF durable \in Terminal THEN durable
           ELSE "open"

\* A task keeps what TaskPromise promises, whatever its handlers were doing
\* when their process died and whatever is called, retried and recovered
\* then: an effect is announced by its intent and done when it runs, a review
\* is what the gate would accept, and a rejection counts from its decision on
\* (perform_action, complete, approve, resolve).
Promise == INSTANCE TaskPromise WITH
               begun <- Announced, open <- Orphans, done <- Performed,
               reviewed <- Reviewed, outcome <- Outcome

KeepsPromise == Promise!Spec

\* A call repeated exactly never makes the task unreadable.
RetriesKeepTaskReadable == ~broken

\* When a completion was decided but not passed, calling complete again with
\* its key, the only thing allowed_next offers, is not refused as stale.
InterventionIsRetryable ==
    \A c \in Unfinished :
        job = Idle /\ Readable /\ gate[c].status = "gated" => Current(c)

=============================================================================
