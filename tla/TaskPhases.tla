----------------------------- MODULE TaskPhases -----------------------------
(***************************************************************************)
(* A task of causality.task_lifecycle.TaskLifecycle with workflow phases:  *)
(* begin, phase start and finish, hypothesis, the check, work and verdict  *)
(* that a running phase allows, approve of the stages phase, final and     *)
(* irreversible kind, and complete.                                        *)
(*                                                                         *)
(* The log holds the events that move phases.  task is what _project folds *)
(* from it event by event; the handlers also look back into the log        *)
(* themselves (why is the phase blocked, which rejections count), and the  *)
(* two must agree.  Every append is a step of its own, so that a death     *)
(* may come after any of them: the call that was cut, repeated exactly,    *)
(* takes the same step that it would have taken next.                      *)
(***************************************************************************)
EXTENDS Naturals, Sequences, FiniteSets, FiniteSetsExt

CONSTANTS
    Plan,           \* the frozen phases: [debugging, action, verification, verdicts]
    MaxFailed,      \* max_failed_hypotheses of the stopping policy
    Verifier,       \* who gives verdicts
    MaxLog,         \* bound: calls are made while the log is shorter
    MaxAttempt,     \* bound: how often a phase is started
    MaxAside        \* bound: hypotheses and decisions that move no phase

ASSUME PlanAssumption ==
    /\ Plan \in Seq([debugging : BOOLEAN, action : BOOLEAN,
                     verification : BOOLEAN, verdicts : Nat \ {0}])
    /\ Len(Plan) > 0
ASSUME BoundsAssumption == {MaxFailed, MaxLog, MaxAttempt, MaxAside} \subseteq Nat
ASSUME VerifierAssumption == IsFiniteSet(Verifier)

VARIABLES
    begun,      \* how far begin has got: the contract, then task_started
    log,        \* the task's events that move its state or its phases
    task,       \* their projection
    window      \* what the running phase may cite, and the current review

vars == <<begun, log, task, window>>

Phase == 1..Len(Plan)
Terminal == {"verified", "rejected"}
Edges == [planned   |-> {"approved", "executing", "rejected"},
          approved  |-> {"executing", "blocked", "rejected"},
          executing |-> {"verified", "blocked", "rejected"},
          blocked   |-> {"executing", "rejected"},
          verified  |-> {},
          rejected  |-> {}]

NewWindow == [worked |-> FALSE, fresh |-> FALSE,
              votes |-> {}, citable |-> FALSE, current |-> FALSE]

NewTask == [state |-> "planned", rejected |-> FALSE, readable |-> TRUE,
            phases |-> [p \in Phase |-> [status |-> "pending", attempt |-> 0]],
            failed |-> 0, streak |-> {}, gate |-> 0, block |-> 0]

Init ==
    /\ begun = "none"
    /\ log = <<>>
    /\ task = NewTask
    /\ window = NewWindow

-----------------------------------------------------------------------------
(* _project, one event at a time: t is the projection so far, n the place  *)
(* of event e in the log.                                                  *)

Having(t, status) == {p \in Phase : t.phases[p].status = status}

\* Mutant: a failed phase is not taken up again before the next one.
CurrentPending(t) ==
    IF Having(t, "running") # {} THEN Min(Having(t, "running"))
    ELSE IF Having(t, "pending") # {} THEN Min(Having(t, "pending"))
    ELSE 0

\* The running phase, else the first that has not passed, else none.
Current(t) ==
    IF Having(t, "running") # {} THEN Min(Having(t, "running"))
    ELSE IF Having(t, "passed") # Phase THEN Min(Phase \ Having(t, "passed"))
    ELSE 0

CurrentStatus(t) == IF Current(t) = 0 THEN "none" ELSE t.phases[Current(t)].status
PhaseBlocked(t) == Having(t, "blocked") # {}

Refuse(t) == [t EXCEPT !.readable = FALSE]
SetStatus(t, status) == [t EXCEPT !.phases[Current(t)].status = status]

ProjectTransition(t, e) ==
    IF e.from = t.state /\ e.to \in Edges[e.from] THEN [t EXCEPT !.state = e.to]
    ELSE Refuse(t)

\* What must hold of every operation before what its own kind asks.
TakesOperation(t, e) ==
    /\ t.state \notin Terminal
    /\ PhaseBlocked(t) => e.type = "approve" /\ e.stage = "phase"

ProjectPhase(t, e, n) ==
    IF /\ TakesOperation(t, e)
       /\ t.state = "executing"
       /\ e.phase = Current(t)
       /\ e.from = CurrentStatus(t)
       /\ IF e.status = "running" THEN e.from \in {"pending", "failed"}
          ELSE e.from = "running"
    THEN [SetStatus(t, e.status) EXCEPT
            !.phases[e.phase].attempt = IF e.status = "running" THEN @ + 1 ELSE @,
            !.block = IF e.status = "blocked" THEN n ELSE @]
    ELSE Refuse(t)

\* Mutant: the phase blocks one rejection too late.
ProjectHypothesisLate(t, e, n) ==
    LET counted == IF e.status = "rejected"
                   THEN [t EXCEPT !.failed = @ + 1, !.streak = @ \cup {n}]
                   ELSE t
    IN  IF TakesOperation(t, e) /\ t.state = "executing" /\ CurrentStatus(t) = "running"
        THEN IF MaxFailed > 0 /\ counted.failed > MaxFailed
             THEN SetStatus(counted, "blocked")
             ELSE counted
        ELSE Refuse(t)

ProjectHypothesis(t, e, n) ==
    LET counted == IF e.status = "rejected"
                   THEN [t EXCEPT !.failed = @ + 1, !.streak = @ \cup {n}]
                   ELSE t
    IN  IF /\ TakesOperation(t, e)
           /\ t.state = "executing"
           /\ CurrentStatus(t) = "running"
           /\ e.failed = counted.failed
        THEN IF MaxFailed > 0 /\ counted.failed >= MaxFailed
             THEN SetStatus(counted, "blocked")
             ELSE counted
        ELSE Refuse(t)

\* The escalation gate of the rejection that reached the limit.
ProjectGate(t, e, n) ==
    IF t.gate = 0 /\ e.of \in t.streak /\ Cardinality(t.streak) >= MaxFailed
    THEN [t EXCEPT !.gate = n]
    ELSE Refuse(t)

\* The result of a check that timed out, failed to run or changed the task.
ProjectCheck(t, e, n) ==
    IF CurrentStatus(t) = "running"
    THEN [SetStatus(t, "blocked") EXCEPT !.block = n]
    ELSE Refuse(t)

\* Mutant: rejections are asked for even when they did not cause the block.
RequiredRefsAnyStreak(t) ==
    IF t.streak # {} THEN t.streak \cup ({t.gate} \ {0})
    ELSE IF t.block # 0 THEN {t.block}
    ELSE {}

\* What an approval of the blocked phase has to cite.
RequiredRefs(t) ==
    IF t.gate # 0 THEN t.streak \cup {t.gate}
    ELSE IF t.block # 0 THEN {t.block}
    ELSE {}

\* Mutant: an approval resumes the blocked attempt.
UnblockRunning(t) == [SetStatus(t, "running") EXCEPT
                        !.failed = 0, !.streak = {}, !.gate = 0, !.block = 0]

Unblock(t) == [SetStatus(t, "failed") EXCEPT
                 !.failed = 0, !.streak = {}, !.gate = 0, !.block = 0]

\* Mutant: the refs of an approval are not compared with the block.
ProjectApprovalAnyRefs(t, e) ==
    IF ~TakesOperation(t, e) THEN Refuse(t)
    ELSE IF e.stage # "phase" THEN t
    ELSE IF t.state # "blocked" \/ CurrentStatus(t) # "blocked" THEN Refuse(t)
    ELSE IF e.approved THEN Unblock(t)
    ELSE t

ProjectApproval(t, e) ==
    IF ~TakesOperation(t, e) THEN Refuse(t)
    ELSE IF e.stage # "phase" THEN t
    ELSE IF t.state # "blocked" \/ CurrentStatus(t) # "blocked"
            \/ e.refs = {} \/ e.refs # RequiredRefs(t)
         THEN Refuse(t)
    ELSE IF e.approved THEN Unblock(t)
    ELSE t

\* A trusted rejection of the plan or the result is authoritative by itself.
ProjectDecision(t, e) ==
    IF e.stage \in {"plan", "final"} /\ ~e.approved
    THEN [t EXCEPT !.rejected = TRUE]
    ELSE t

Project(t, e, n) ==
    CASE e.type = "transition" -> ProjectTransition(t, e)
      [] e.type = "phase"      -> ProjectPhase(t, e, n)
      [] e.type = "hypothesis" -> ProjectHypothesis(t, e, n)
      [] e.type = "gate"       -> ProjectGate(t, e, n)
      [] e.type = "check"      -> ProjectCheck(t, e, n)
      [] e.type = "approve"    -> ProjectApproval(t, e)
      [] e.type = "decision"   -> ProjectDecision(t, e)

\* The state a session shows: a blocked phase blocks the task although its
\* transition has not been written.
Session == IF task.rejected THEN "rejected"
           ELSE IF PhaseBlocked(task) THEN "blocked"
           ELSE task.state

-----------------------------------------------------------------------------
(* What the handlers find in the log themselves.                           *)

Events(type) == {i \in DOMAIN log : log[i].type = type}
LastOf(S) == Max(S \cup {0})

LastPhaseApproval ==
    LastOf({i \in Events("approve") : log[i].stage = "phase" /\ log[i].approved})

CurrentHypotheses == {i \in Events("hypothesis") : i > LastPhaseApproval}
Rejections == {i \in CurrentHypotheses : log[i].status = "rejected"}

\* The latest hypothesis that reached the limit.
HypothesisBlock ==
    IF MaxFailed < 1 THEN 0
    ELSE LastOf({i \in CurrentHypotheses : log[i].failed >= MaxFailed})

GateOf(h) == LastOf({i \in Events("gate") : log[i].of = h})

\* Mutant: only a phase_finish is taken for a cause of the block.
PhaseBlockEventFinish ==
    LET started == LastOf({i \in Events("phase") :
                             log[i].phase = Current(task) /\ log[i].status = "running"})
    IN  LastOf({i \in Events("phase") : i > started /\ log[i].status = "blocked"})

\* Searching backwards from the end to the start of the current attempt.
PhaseBlockEvent ==
    LET started == LastOf({i \in Events("phase") :
                             log[i].phase = Current(task) /\ log[i].status = "running"})
    IN  LastOf({i \in Events("check") : i > started}
               \cup {i \in Events("phase") : /\ i > started
                                             /\ log[i].phase = Current(task)
                                             /\ log[i].status = "blocked"})

\* What the session tells the approver to cite.
ApprovalEvidence ==
    IF HypothesisBlock = 0 THEN {PhaseBlockEvent} \ {0}
    ELSE IF GateOf(HypothesisBlock) = 0 THEN {}
    ELSE Rejections \cup {GateOf(HypothesisBlock)}

-----------------------------------------------------------------------------
\* Mutant: the event is projected as if one more had come before it.
Append1OffByOne(e) ==
    /\ log' = Append(log, e)
    /\ task' = Project(task, e, Len(log) + 2)

Append1(e) ==
    /\ log' = Append(log, e)
    /\ task' = Project(task, e, Len(log) + 1)

Append2(e, f) ==
    /\ log' = log \o <<e, f>>
    /\ task' = Project(Project(task, e, Len(log) + 1), f, Len(log) + 2)

Transition(from, to) == [type |-> "transition", from |-> from, to |-> to]

\* A call reaches the lifecycle and finds a log that it can read.
Call == begun = "started" /\ task.readable /\ Len(log) < MaxLog

\* A call that moves no phase; MaxAside bounds them.
Asides ==
    {d \in Events("decision") : log[d].stage # "phase" \/ ~log[d].approved}
    \cup {h \in Events("hypothesis") : log[h].status # "rejected"}
CallAside == Call /\ Cardinality(Asides) < MaxAside

Running == CurrentStatus(task) = "running"
MayWork == Call /\ Running /\ Session = "executing"
AllPassed == Current(task) = 0

(* begin: the contract, then the task; called again, it finds what it wrote *)

CreateContract ==
    /\ begun = "none"
    /\ begun' = "contract"
    /\ UNCHANGED <<log, task, window>>

StartTask ==
    /\ begun = "contract"
    /\ begun' = "started"
    /\ UNCHANGED <<log, task, window>>

(* phase start, with the transitions of _ensure_executing.                 *)

MayStart ==
    /\ Call
    /\ CurrentStatus(task) \in {"pending", "failed"}
    /\ task.phases[Current(task)].attempt < MaxAttempt

PassPlanGate ==
    /\ MayStart /\ Session = "planned"
    /\ Append1(Transition(Session, "approved"))
    /\ UNCHANGED <<begun, window>>

BeginExecuting ==
    /\ MayStart /\ Session = "approved"
    /\ Append1(Transition(Session, "executing"))
    /\ UNCHANGED <<begun, window>>

StartPhase ==
    /\ MayStart /\ Session = "executing"
    /\ Append1([type |-> "phase", phase |-> Current(task), status |-> "running",
                from |-> CurrentStatus(task)])
    /\ window' = [NewWindow EXCEPT !.current = window.current]
    /\ UNCHANGED begun

(* phase finish.  The caller cites events since the start of the attempt;  *)
(* for passed they are all positive and meet what the phase requires: a    *)
(* counted verdict implies a passing check of this attempt.                *)

MayPass(p) ==
    /\ Plan[p].action => window.worked
    /\ Plan[p].verification => window.fresh
    /\ Cardinality(window.votes) >= Plan[p].verdicts

FinishPhase(status) ==
    /\ MayWork
    /\ window.citable
    /\ status = "passed" => MayPass(Current(task))
    /\ Append1([type |-> "phase", phase |-> Current(task), status |-> status,
                from |-> "running"])
    /\ UNCHANGED <<begun, window>>

(* hypothesis.  An inconclusive one counts as little as a supported one.   *)

FailedWith(status) ==
    Cardinality(Rejections) + (IF status = "rejected" THEN 1 ELSE 0)

ProposeHypothesis(status) ==
    /\ MayWork
    /\ Plan[Current(task)].debugging
    /\ window.citable
    /\ status # "rejected" => CallAside
    /\ Append1([type |-> "hypothesis", status |-> status,
                failed |-> FailedWith(status)])
    /\ UNCHANGED <<begun, window>>

(* verify, action and verdict, as far as phases see them.  A check also    *)
(* runs after the last phase has passed.                                   *)

Work ==
    /\ MayWork
    /\ window' = [worked |-> TRUE, fresh |-> FALSE,
                  votes |-> {}, citable |-> TRUE, current |-> FALSE]
    /\ UNCHANGED <<begun, log, task>>

MayCheck == Call /\ (Running \/ AllPassed) /\ Session = "executing"

Verify(status) ==
    /\ MayCheck
    /\ window' =
         [window EXCEPT !.fresh = IF status = "unsafe" THEN FALSE ELSE @ \/ status = "pass",
                        !.votes = IF status = "unsafe" THEN {} ELSE @,
                        !.citable = TRUE,
                        !.current = (status = "pass")]
    /\ IF status \in {"timeout", "unsafe"}
       THEN Append1([type |-> "check"])
       ELSE UNCHANGED <<log, task>>
    /\ UNCHANGED begun

\* A pass cites the current check; it counts for the phase when that check
\* belongs to this attempt.
CastVerdict(v) ==
    /\ MayCheck
    /\ window.current
    /\ window' = [window EXCEPT !.votes = IF window.fresh THEN @ \cup {v} ELSE @,
                                !.citable = TRUE]
    /\ UNCHANGED <<begun, log, task>>

-----------------------------------------------------------------------------
(* _reconcile_phase_block: the end of a phase, hypothesis or verify call,  *)
(* and of its exact repetition, for the operation at place i.              *)

Repeatable(i) == i \in Events("phase") \cup Events("hypothesis") \cup Events("check")

\* The operation whose repetition writes the missing transition.
Cause == IF HypothesisBlock # 0 THEN HypothesisBlock ELSE PhaseBlockEvent

IsCause(i) == Repeatable(i) /\ i = Cause

MayReconcile(i) ==
    /\ Call
    /\ Session \notin Terminal
    /\ CurrentStatus(task) = "blocked"
    /\ IsCause(i)

\* Mutant: a repeated call escalates once more.
EscalateAgain(i) ==
    /\ MayReconcile(i)
    /\ i = HypothesisBlock
    /\ Append1([type |-> "gate", of |-> i])
    /\ UNCHANGED <<begun, window>>

EscalateHypotheses(i) ==
    /\ MayReconcile(i)
    /\ i = HypothesisBlock
    /\ GateOf(i) = 0
    /\ Append1([type |-> "gate", of |-> i])
    /\ UNCHANGED <<begun, window>>

BlockPhase(i) ==
    /\ MayReconcile(i)
    /\ i = HypothesisBlock => GateOf(i) # 0
    /\ task.state = "executing"
    /\ Append1(Transition(task.state, "blocked"))
    /\ UNCHANGED <<begun, window>>

-----------------------------------------------------------------------------
(* approve                                                                 *)

Decision(stage, approved, refs) ==
    [type |-> "decision", stage |-> stage, approved |-> approved, refs |-> refs]

MayDecidePhase(refs) ==
    /\ Call
    /\ task.state = "blocked" /\ Session = "blocked"
    /\ CurrentStatus(task) = "blocked"
    /\ refs # {} /\ refs = ApprovalEvidence

DecidePhase(approved) ==
    /\ MayDecidePhase(ApprovalEvidence)
    /\ approved \/ CallAside
    /\ Append1(Decision("phase", approved, ApprovalEvidence))
    /\ UNCHANGED <<begun, window>>

DecideFinal ==
    /\ Session \in {"executing", "blocked"}
    /\ window.current
    /\ CallAside
    /\ Append1(Decision("final", TRUE, {}))
    /\ UNCHANGED <<begun, window>>

\* The approval of an irreversible action kind is taken in any open state.
DecideKind ==
    /\ CallAside
    /\ Session \notin Terminal
    /\ Append1(Decision("kind", TRUE, {}))
    /\ UNCHANGED <<begun, window>>

\* A decision that has no operation yet, of a stage that gets one.
Unrecorded ==
    {d \in Events("decision") :
        /\ log[d].stage \in {"plan", "final"} => log[d].approved
        /\ \A i \in Events("approve") : log[i].of # d}

\* The call goes on from its decision to its operation, at once or when it is
\* repeated after a death: nothing is checked again.
RecordApproval(d) ==
    /\ Call
    /\ d \in Unrecorded
    /\ Append1([type |-> "approve", stage |-> log[d].stage, of |-> d,
                approved |-> log[d].approved, refs |-> log[d].refs])
    /\ UNCHANGED <<begun, window>>

\* An approved phase leaves the task blocked until this transition.
RestartPhase(i) ==
    /\ Call
    /\ log[i].stage = "phase" /\ log[i].approved
    /\ Session = "blocked" /\ CurrentStatus(task) = "failed"
    /\ Append1(Transition(Session, "executing"))
    /\ UNCHANGED <<begun, window>>

\* A final approval reopens the task whenever the session is blocked.
ReopenFinal(i) ==
    /\ Call
    /\ log[i].stage = "final"
    /\ Session = "blocked"
    /\ Append1(Transition(Session, "executing"))
    /\ UNCHANGED <<begun, window>>

\* A rejection writes its decision and then, unless it dies in between, the
\* transition from the state the session showed when the call began.
Reject(stage) ==
    /\ IF stage = "plan" THEN Session = "planned"
       ELSE Session \in {"executing", "blocked"}
    /\ CallAside
    /\ \/ Append1(Decision(stage, FALSE, {}))
       \/ Append2(Decision(stage, FALSE, {}), Transition(Session, "rejected"))
    /\ UNCHANGED <<begun, window>>

\* complete, once every phase has passed, with a gate that passes.
Complete ==
    /\ Call
    /\ AllPassed
    /\ Session = "executing"
    /\ window.current
    /\ Append1(Transition("executing", "verified"))
    /\ UNCHANGED <<begun, window>>

-----------------------------------------------------------------------------
(* allowed_next of a session, as far as this module has the operations.    *)

RecoveryCall ==
    IF HypothesisBlock # 0 THEN "hypothesis"
    ELSE IF PhaseBlockEvent \in Events("check") THEN "verify"
    ELSE "phase_finish"

AllowedNext ==
    IF Session \in Terminal THEN {"reflect"}
    ELSE IF PhaseBlocked(task) /\ task.state # "blocked" THEN {RecoveryCall, "reject"}
    ELSE IF Session = "blocked" THEN {"approve"}
    ELSE IF AllPassed THEN {"verify", "verdict", "append_evidence", "complete"}
    ELSE IF Running
    THEN {"action", "verify", "verdict", "append_evidence", "phase_finish", "reject"}
         \cup (IF Plan[Current(task)].debugging THEN {"hypothesis"} ELSE {})
    ELSE {"phase_start", "reject"}
         \cup (IF Session = "planned" THEN {"approve"} ELSE {})

-----------------------------------------------------------------------------
Begin == CreateContract \/ StartTask

Execute ==
    \/ PassPlanGate \/ BeginExecuting \/ StartPhase
    \/ \E status \in {"passed", "failed", "blocked"} : FinishPhase(status)
    \/ \E status \in {"supported", "rejected"} : ProposeHypothesis(status)
    \/ Work
    \/ \E status \in {"pass", "fail", "timeout", "unsafe"} : Verify(status)
    \/ \E v \in Verifier : CastVerdict(v)
    \/ Complete

Reconcile == EscalateHypotheses(Cause) \/ BlockPhase(Cause)

Approve ==
    \/ \E approved \in BOOLEAN : DecidePhase(approved)
    \/ DecideFinal \/ DecideKind
    \/ \E d \in Unrecorded : RecordApproval(d)
    \/ \E i \in Events("approve") : RestartPhase(i) \/ ReopenFinal(i)
    \/ \E stage \in {"plan", "final"} : Reject(stage)

Next == Begin \/ Execute \/ Reconcile \/ Approve

Spec == Init /\ [][Next]_vars

-----------------------------------------------------------------------------
(* Properties.                                                             *)

Status == {"pending", "running", "passed", "failed", "blocked"}

\* The variables have their types.
TypeOK ==
    /\ begun \in {"none", "contract", "started"}
    /\ \A e \in {log[i] : i \in DOMAIN log} :
         e.type \in {"transition", "phase", "hypothesis", "gate", "check",
                     "decision", "approve"}
    /\ task.state \in DOMAIN Edges
    /\ task.phases \in [Phase -> [status : Status, attempt : Nat]]
    /\ task.streak \subseteq DOMAIN log
    /\ {task.gate, task.block} \subseteq (DOMAIN log) \cup {0}
    /\ window \in [worked : BOOLEAN, fresh : BOOLEAN,
                   votes : SUBSET Verifier, citable : BOOLEAN, current : BOOLEAN]

\* What the session tells the approver of a blocked phase to cite is what
\* the projection will ask of the approval, however the block came about and
\* wherever the calls before it died: _phase_approval_evidence, searched in
\* the log, and required_phase_refs, folded by _project, never disagree.
CitedIsRequired ==
    task.readable /\ task.state = "blocked" /\ PhaseBlocked(task) =>
        ApprovalEvidence # {} /\ ApprovalEvidence = RequiredRefs(task)

\* A phase that is blocked before its transition is durable always has one
\* call whose exact repetition goes on to write it
\* (_reconcile_phase_block, recovery_required).
InterruptedBlockRecovers ==
    task.readable /\ PhaseBlocked(task) /\ Session # "rejected"
        /\ task.state = "executing" =>
        Repeatable(Cause)

\* A phase leaves blocked only by an approval, decided while this very block
\* was in force: it cites events of the attempt it lets go
\* (approve of stage phase, phase_block_hash and the streak).
ApprovalLiftsItsOwnBlock ==
    [][\A p \in Phase :
         /\ task.phases[p].status = "blocked"
         /\ task'.phases[p].status # "blocked"
         => LET e == log'[Len(log')]
            IN  /\ e.type = "approve" /\ e.stage = "phase" /\ e.approved
                /\ Cause \in e.refs
                /\ \A i \in Events("approve") :
                     log[i].stage = "phase" /\ log[i].approved =>
                       \A r \in e.refs : r > i]_vars

\* The rejected hypotheses that no approval has answered never exceed the
\* limit, and a phase that has reached it does not run on, whatever else
\* blocked, failed or restarted it in between (max_failed_hypotheses).
StreakBounded ==
    task.readable /\ MaxFailed > 0 =>
        /\ Cardinality(Rejections) <= MaxFailed
        /\ Running => Cardinality(Rejections) < MaxFailed

\* Between a block and its approval nothing is done, checked, reviewed or
\* tried for the task, from the event that blocks it on and not only from
\* its transition on (workflow_blocked in _project).
BlockedPhaseStandsStill ==
    [][PhaseBlocked(task) =>
         /\ window' = window
         /\ \A p \in Phase : task'.phases[p] # task.phases[p] =>
              task.phases[p].status = "blocked" /\ task'.phases[p].status = "failed"]_vars

\* A task is verified only when every phase passed, and while a phase runs
\* all before it have passed and none after it was begun.
PhasesInOrder ==
    task.readable =>
        /\ task.state = "verified" => Having(task, "passed") = Phase
        /\ \A p \in Phase : task.phases[p].attempt > 0 =>
             \A q \in 1..(p - 1) : task.phases[q].status = "passed"

\* No call of this module, repeated or interleaved however, writes an event that
\* the projection cannot read, but in three cases, all about people: a check after
\* the last phase; a rejection, or the repeated approval of the result, while
\* a block waits for its transition; and an approval of another stage during a
\* block, or one recorded only after other events had followed its decision
\* (_project raises on every later read).
OnlyLateAnswersBreak ==
    [][task.readable /\ ~task'.readable =>
         LET e == log'[Len(log')]
         IN  \/ e.type = "check" /\ AllPassed
             \/ /\ e.type = "transition" /\ e.from = "blocked"
                /\ PhaseBlocked(task) /\ task.state = "executing"
             \/ /\ e.type = "approve"
                /\ e.of < Len(log) \/ (PhaseBlocked(task) /\ e.stage # "phase")]_vars

\* A check that allowed_next offers does not make the task unreadable,
\* whatever it ends with.
OfferedCheckKeepsReadable ==
    [][/\ "verify" \in AllowedNext
       /\ \E status \in {"pass", "fail", "timeout", "unsafe"} : Verify(status)
       => task'.readable]_vars

=============================================================================
