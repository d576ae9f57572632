----------------------------- MODULE BoundedLoop -----------------------------
(***************************************************************************)
(* causality.engine.CausalityEngine.run_task up to its loop's result, and  *)
(* the loop itself (loop.run_bounded_loop): work, the executed checks      *)
(* (verification.execute_requirement), a review (review.run_review) and    *)
(* the completion gate.  People decide and record evidence, and files are  *)
(* edited, meanwhile.                                                      *)
(*                                                                         *)
(* work and the verifiers are callbacks: they may do anything that the     *)
(* facade lets them do, raise, and are taken to return in the end.  An     *)
(* edit never brings an older content of the workspace back.  A death of   *)
(* the process needs no action: nothing ever takes up a contract again.    *)
(***************************************************************************)
EXTENDS CompletionGate

CONSTANTS
    Contract,       \* what run_task may bind: [checks, manual, kinds, high, stop]
    Artifact,       \* requirements whose command may write a declared file
    Verifier,       \* the verifiers of a review, a sequence of names
    Refusal,        \* verdicts other than a pass: "fail", "critical"
    MinPasses,      \* min_passes
    MaxEdits(_),    \* bound: how often the workspace changes under a contract
    MaxDecisions(_) \* bound: what people record for a contract

ASSUME LoopAssumption ==
    /\ MinPasses \in Nat
    /\ Verifier \in Seq(Range(Verifier))
    /\ \A c \in Contract :
         /\ c.checks \in Seq(Executed(c)) /\ IsInjective(c.checks)
         /\ c.stop.iterations \in Nat \ {0}
         /\ {c.stop.noProgress, c.stop.failed} \subseteq Nat

VARIABLES
    log,        \* the events of the contract
    ws,         \* the content of the workspace
    run         \* the run: where it is, its contract, counters, result

vars == <<log, ws, run>>

NoContract == [checks |-> <<>>, manual |-> {}, kinds |-> {}, high |-> FALSE,
               stop |-> [iterations |-> 1, noProgress |-> 0, failed |-> 0]]

Init ==
    /\ log = <<>>
    /\ ws = 0
    /\ run = [at |-> "begin", contract |-> NoContract, iterations |-> 0, noProgress |-> 0,
              failed |-> 0, k |-> 0, before |-> 0, result |-> "none"]

Record(e) == log' = Append(log, e)

\* The run is decided: the model forgets all else of it.
Decide(result) ==
    /\ run' = [at |-> "ended", contract |-> NoContract, iterations |-> 0, noProgress |-> 0,
               failed |-> 0, k |-> 0, before |-> 0, result |-> result]
    /\ log' = <<>>

Goto(at) == run' = [run EXCEPT !.at = at]
Edit == ws < MaxEdits(run.contract) /\ ws' = ws + 1
Edited(changes) == IF changes THEN Edit ELSE UNCHANGED ws

-----------------------------------------------------------------------------
(* run_task up to the plan gate.                                           *)

\* run_bounded_loop without an engine, for a contract that bind would refuse:
\* one without requirements, whose step is a review.
StartLoop(c) ==
    /\ run.at = "begin"
    /\ ~Structured(c)
    /\ run' = [run EXCEPT !.at = "poll", !.contract = c]
    /\ UNCHANGED <<log, ws>>

\* bind, then the approve_plan hook: it approves or returns nothing.
Bind(c, approves) ==
    /\ run.at = "begin"
    /\ Structured(c)
    /\ approves => c.high
    /\ run' = [run EXCEPT !.at = "plan", !.contract = c]
    /\ IF approves
       THEN Record([type |-> "human", stage |-> "plan", approved |-> TRUE, saw |-> ws,
                    refs |-> {}])
       ELSE UNCHANGED log
    /\ UNCHANGED ws

\* evaluate_plan: a refused plan ends the run before any work.
PlanGate ==
    /\ run.at = "plan"
    /\ IF PlanAllowed(run.contract, log) THEN Goto("poll") /\ UNCHANGED log
       ELSE Decide("ESCALATE")
    /\ UNCHANGED ws

-----------------------------------------------------------------------------
(* run_bounded_loop.                                                       *)

PollWith(state) ==
    /\ run.at = "poll"
    /\ LET stop == ShouldStop(run.contract.stop, state)
       IN  IF stop = "PASS" THEN Goto("work") /\ UNCHANGED log
           ELSE Decide(stop)
    /\ UNCHANGED ws

\* Mutant: the ceilings are looked at after the iteration that passes them.
PollLate == PollWith([run EXCEPT !.iterations = IF @ > 0 THEN @ - 1 ELSE 0])

\* Mutant: a stop is asked for again.
PollAgain ==
    /\ run.at = "poll"
    /\ IF ShouldStop(run.contract.stop, run) = "PASS" THEN Goto("work") ELSE UNCHANGED run
    /\ UNCHANGED <<log, ws>>

Poll == PollWith(run)

\* Work that uses the adapter, when the gates of the action pass: a command,
\* taken to change the task, or a file that is written and recorded.
Act(type) ==
    /\ run.at = "work"
    /\ PlanAllowed(run.contract, log)
    /\ Edit
    /\ Record(IF type = "tool" THEN [type |-> "tool", mutates |-> TRUE]
              ELSE [type |-> "evidence", kind |-> "artifact_hash", ws |-> ws', mutates |-> TRUE])
    /\ UNCHANGED run

WorkReturns ==
    /\ run.at = "work"
    /\ run' = [run EXCEPT !.at = "check", !.k = 1]
    /\ UNCHANGED <<log, ws>>

\* ActionBlocked ends the loop with the gate's decision.
WorkRefused(decision) ==
    /\ run.at = "work"
    /\ Decide(decision)
    /\ UNCHANGED ws

-----------------------------------------------------------------------------
(* execute_requirement for every executed requirement, in order.           *)

\* A command that the gates refuse does not run, one that times out or fails to start leaves
\* no record of a command; whatever it was, it may have changed the declared
\* file (artifact), or a file that it must not touch, which makes it a failure.
Check(outcome, touches) ==
    LET c == run.contract
        r == c.checks[run.k]
        status == IF touches = "undeclared" THEN "fail" ELSE outcome
        tool == IF outcome \in {"pass", "fail"} THEN <<[type |-> "tool", mutates |-> FALSE]>>
                ELSE <<>>
        change == IF touches = "artifact" THEN <<[type |-> "tool", mutates |-> TRUE]>> ELSE <<>>
        first == Len(log) + 1
        result == [type |-> "check", req |-> r, status |-> status, ws |-> ws',
                   mutates |-> touches = "undeclared",
                   tool |-> IF tool = <<>> THEN 0 ELSE first,
                   own |-> IF change = <<>> THEN 0 ELSE first + Len(tool)]
        ended == status \in {"timeout", "blocked"}
        block == IF (ended \/ touches = "undeclared") /\ ~Blocked(c, log)
                 THEN <<[type |-> "transition", state |-> "blocked"]>> ELSE <<>>
    IN  /\ run.at = "check" /\ run.k <= Len(c.checks)
        /\ ~PlanAllowed(c, log) => outcome = "blocked"
        /\ outcome = "blocked" => touches = "nothing"
        /\ touches = "artifact" => r \in Artifact
        /\ Edited(touches # "nothing")
        /\ log' = log \o tool \o change \o <<result>> \o block
        /\ run' = IF ended THEN [run EXCEPT !.at = "count"] ELSE [run EXCEPT !.k = @ + 1]

-----------------------------------------------------------------------------
(* run_review: every verifier in turn, between two fingerprints.           *)

BeginReview ==
    /\ run.at = "check" /\ run.k > Len(run.contract.checks)
    /\ run' = [run EXCEPT !.at = "review", !.k = 1, !.before = ws]
    /\ UNCHANGED <<log, ws>>

FirstEvidence == {Min({i \in DOMAIN log : log[i].type \in {"check", "evidence"}} \cup {1})}

\* What verifiers say: of a contract that asks for evidence they cite all that
\* counts now, or something else; of one that does not they say why, or not.
Opinion ==
    LET c == run.contract
        asks == Structured(c) \/ c.kinds # {}
    IN  [status : {"pass"}, rationale : {asks, TRUE},
         refs : IF asks THEN {RequirementHashes(c, log, ws), FirstEvidence} ELSE {{}}]
        \cup [status : Refusal, rationale : {TRUE}, refs : {{}}]

\* A verifier looks at the workspace and its decision is recorded.  saw is what
\* it looked at; the ledger does not keep it.
Review(o) ==
    /\ run.at = "review" /\ run.k <= Len(Verifier)
    /\ Record([type |-> "verdict", verifier |-> Verifier[run.k], status |-> o.status,
               refs |-> o.refs, rationale |-> o.rationale, saw |-> ws])
    /\ run' = [run EXCEPT !.k = @ + 1]
    /\ UNCHANGED ws

\* The verdicts of this review, each verifier's last one.
RoundVerdicts == {i \in LatestVerdicts(log) : i > LastIn(Places(log, "gate"))}

\* ReviewResult.approved.
Approved ==
    /\ Cardinality({i \in RoundVerdicts :
         CountsAsPass(log[i], Structured(run.contract))}) >= MinPasses
    /\ \A i \in RoundVerdicts : log[i].status # "critical"

\* run_task's step looks whether anything changed under the verifiers.
Changed == Structured(run.contract) /\ run.before # ws

Count(progress) ==
    run' = [run EXCEPT !.at = "complete", !.iterations = @ + 1,
                       !.noProgress = IF progress THEN 0 ELSE @ + 1]

\* A step makes progress when its review approves and nothing has changed.
EndReview ==
    /\ run.at = "review" /\ run.k > Len(Verifier)
    /\ log' = IF Changed
              THEN log \o <<[type |-> "tool", mutates |-> TRUE],
                            [type |-> "transition", state |-> "blocked"]>>
              ELSE log
    /\ Count(Approved /\ ~Changed)
    /\ UNCHANGED ws

\* A check that was refused, or did not end, ends the step.
EndStep ==
    /\ run.at = "count"
    /\ Count(FALSE)
    /\ UNCHANGED <<log, ws>>

\* The completion gate, and what the loop makes of it.
Complete ==
    /\ run.at = "complete"
    /\ \E decision \in {GateComplete(run.contract, log, ws, MinPasses)} :
         \/ /\ decision = "REPAIR"
            /\ Record([type |-> "gate", decision |-> decision])
            /\ run' = [run EXCEPT !.at = "poll", !.k = 0]
         \/ decision # "REPAIR" /\ Decide(decision)
    /\ UNCHANGED ws

\* Anything that a callback or the ledger raises leaves run_task.
Raise ==
    /\ run.at # "ended"
    /\ Decide("raised")
    /\ UNCHANGED ws

-----------------------------------------------------------------------------
(* What happens around the loop.                                           *)

\* An edit that nobody records: by work of the two-argument form, by a verifier
\* or by somebody else.  At other times it is seen no sooner than at these.
Drift ==
    /\ run.at \in {"work", "check", "review", "complete"}
    /\ Edit
    /\ UNCHANGED <<log, run>>

ByPeople ==
    {i \in DOMAIN log : \/ log[i].type \in {"human", "manual"}
                        \/ log[i].type = "evidence" /\ ~log[i].mutates}

\* Somebody records something for the contract that is being run.
PeopleMay ==
    /\ run.at \in {"work", "check", "review", "complete"}
    /\ Cardinality(ByPeople) < MaxDecisions(run.contract)

DecideStage(stage, approved) ==
    /\ PeopleMay /\ run.contract.high
    /\ Record([type |-> "human", stage |-> stage, approved |-> approved, saw |-> ws,
               refs |-> IF stage = "final" /\ approved
                        THEN RequirementHashes(run.contract, log, ws) ELSE {}])
    /\ UNCHANGED <<ws, run>>

RecordEvidence(kind) ==
    /\ PeopleMay /\ run.contract.kinds \cup run.contract.manual # {}
    /\ Record([type |-> "evidence", kind |-> kind, ws |-> ws, mutates |-> FALSE])
    /\ UNCHANGED <<ws, run>>

RecordManual(r, approved, cites) ==
    /\ PeopleMay /\ r \in run.contract.manual
    /\ Record([type |-> "manual", req |-> r, approved |-> approved, cites |-> cites, ws |-> ws])
    /\ UNCHANGED <<ws, run>>

-----------------------------------------------------------------------------
AllKinds == (UNION {c.kinds : c \in Contract}) \cup {"note"}
AllManual == UNION {c.manual : c \in Contract}

Step ==
    \/ PlanGate \/ Poll \/ WorkReturns \/ BeginReview \/ EndReview \/ EndStep \/ Complete
    \/ \E o \in Opinion : Review(o)
    \/ \E outcome \in {"pass", "fail", "timeout", "blocked"},
          touches \in {"nothing", "artifact", "undeclared"} : Check(outcome, touches)
    \/ \E type \in {"tool", "evidence"} : Act(type)
    \/ \E decision \in {"STOP", "ESCALATE"} : WorkRefused(decision)
    \/ \E c \in Contract : StartLoop(c)
    \/ \E c \in Contract, approves \in BOOLEAN : Bind(c, approves)

People ==
    \/ \E stage \in {"plan", "final"}, approved \in BOOLEAN : DecideStage(stage, approved)
    \/ \E kind \in AllKinds : RecordEvidence(kind)
    \/ \E r \in AllManual, approved \in BOOLEAN,
          cites \in {0} \cup Places(log, "evidence") \cup Places(log, "check") :
         RecordManual(r, approved, cites)

Next == Step \/ Raise \/ People \/ Drift

\* The loop's own steps are taken when they can be: it is ordinary
\* code, and work and verifiers return.
Spec == Init /\ [][Next]_vars /\ WF_vars(Step)

-----------------------------------------------------------------------------
(* Properties.                                                             *)

\* The variables have their types.
TypeOK ==
    /\ ws \in Nat
    /\ run.at \in {"begin", "plan", "poll", "work", "check", "review", "count", "complete",
                   "ended"}
    /\ run.result \in {"none", "PASS", "STOP", "ESCALATE", "raised"}
    /\ run.contract \in Contract \cup {NoContract}
    /\ {run.iterations, run.noProgress, run.failed} \subseteq 0..run.contract.stop.iterations
    /\ run.k \in Nat /\ run.before \in 0..ws
    /\ \A e \in Range(log) : e.type \in {"human", "manual", "tool", "check", "evidence",
                                         "verdict", "transition", "gate"}

\* What passes is what was checked and reviewed: when the gate of a contract
\* that asks for evidence says PASS, every required command last ran, and at
\* least two verifiers last looked, at the workspace as it is now
\* (HITLGate._complete_locked; no single row says this).
PassedIsReviewed ==
    [][run.at = "complete" /\ run'.result = "PASS"
         /\ (Structured(run.contract) \/ run.contract.kinds # {})
       => /\ \A r \in Executed(run.contract) : log[LastCheck(log, r)].ws = ws
          /\ Cardinality({i \in LatestVerdicts(log) :
                            log[i].status = "pass" /\ log[i].saw = ws}) >= Max({2, MinPasses})
      ]_vars

\* A high-risk run passes only with a person's final approval, given for the
\* workspace as it is now and after all of its work, checks and verdicts,
\* while no later decision takes it or the plan's approval back.
ApproverSawWhatPasses ==
    [][run.at = "complete" /\ run.contract.high /\ run'.result = "PASS"
       => /\ HumanApproval(log, "plan")
          /\ \E d \in Decisions(log, "final") :
               /\ log[d].approved /\ log[d].saw = ws
               /\ \A i \in DOMAIN log :
                    \/ IsWork(log[i]) \/ log[i].type \in {"check", "verdict"}
                    \/ log[i].type = "human" /\ log[i].stage = "final"
                    => i <= d
      ]_vars

\* The events of the iteration that is being completed.
Round == {i \in DOMAIN log : i > LastIn(Places(log, "gate"))}

\* Nothing that earlier iterations left behind stands in the way: when in this
\* iteration the work came first, every check passed on the workspace as it
\* is, and every verifier's pass cites these results, or says why when there
\* are none, the gate says PASS (the latest results win; an already fixed
\* critical failure does not block).
CleanIterationPasses ==
    [][LET c == run.contract
           results == {LastCheck(log, r) : r \in Executed(c)}
       IN  /\ run.at = "complete" /\ run'.at \in {"poll", "ended"}  /\ run'.result # "raised"
           /\ c.manual = {} /\ c.kinds = {} /\ ~c.high
           /\ results \subseteq Round
           /\ \A i \in results : log[i].status = "pass" /\ log[i].ws = ws
           /\ \A i \in Round, j \in results : Mutates(log[i]) => i < j - 1
           /\ \A v \in Range(Verifier) : \E i \in Round :
                /\ log[i].type = "verdict" /\ log[i].verifier = v /\ log[i].status = "pass"
                /\ IF results = {} THEN log[i].rationale ELSE log[i].refs = results
           /\ Cardinality(Range(Verifier)) = Len(Verifier) /\ Len(Verifier) >= Max({2, MinPasses})
           => run'.result = "PASS"]_vars

\* The iterations of this run, each from the gate decision before it to its own.
Gates == Places(log, "gate")

\* The review of the iteration that ended with gate g approved, and nothing was
\* changed once its first verdict was in.
Fruitful(g) ==
    LET start == LastIn({h \in Gates : h < g})
        verdicts == {i \in Places(log, "verdict") : start < i /\ i < g}
        last == {i \in verdicts : \A j \in verdicts : log[j].verifier = log[i].verifier => j <= i}
    IN  /\ Cardinality({i \in last : CountsAsPass(log[i], Structured(run.contract))}) >= MinPasses
        /\ \A i \in last : log[i].status # "critical"
        /\ \A i \in DOMAIN log : Mutates(log[i]) /\ start < i /\ i < g => i < Min(verdicts)

\* The loop keeps to the stopping policy, neither longer nor shorter: it goes on
\* exactly when the record shows fewer iterations than the ceiling, and one
\* with progress among the last few.  The counters are its only knowledge of
\* that (run_bounded_loop, should_stop).
LoopKeepsToPolicy ==
    [][LET stop == run.contract.stop
       IN  run.at = "poll" /\ run'.at \in {"work", "ended"} /\ run'.result # "raised" =>
             (run'.at = "work" <=>
                /\ Cardinality(Gates) < stop.iterations
                /\ \/ ~Reached(Cardinality(Gates), stop.noProgress)
                   \/ \E g \in Gates : /\ Fruitful(g)
                                       /\ Cardinality({h \in Gates : h > g}) < stop.noProgress)
      ]_vars

\* Every run ends, whatever its work, checks, verifiers and people do
\* (max_iterations is the unconditional backstop).
RunEnds == <>(run.at = "ended")

=============================================================================
