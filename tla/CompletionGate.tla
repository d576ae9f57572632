--------------------------- MODULE CompletionGate ---------------------------
(***************************************************************************)
(* causality.gates.HITLGate: the plan gate, the gate in front of an action *)
(* and the completion gate, as operators of the events that a contract has *)
(* in the ledger (log, oldest first) and of the workspace (ws, a number    *)
(* that every edit raises).  An event's hash is its place in the log.      *)
(*                                                                         *)
(* A contract c says which requirements are executed, in order (checks),   *)
(* which need a person's verdict (manual), which generic kinds of evidence *)
(* it asks for (kinds) and whether it needs approval (high).               *)
(***************************************************************************)
EXTENDS Naturals, Sequences, FiniteSets, FiniteSetsExt, Functions

LastIn(S) == Max(S \cup {0})
Places(log, type) == {i \in DOMAIN log : log[i].type = type}

\* Commands and artifact changes, results of checks and recorded writes.
Mutates(e) == e.type \in {"tool", "check", "evidence"} /\ e.mutates
LastMutation(log) == LastIn({i \in DOMAIN log : Mutates(log[i])})

Executed(c) == Range(c.checks)
Structured(c) == Executed(c) \cup c.manual # {}

-----------------------------------------------------------------------------
(* People's decisions.                                                     *)

Decisions(log, stage) == {i \in Places(log, "human") : log[i].stage = stage}

HumanApproval(log, stage) ==
    LET d == LastIn(Decisions(log, stage)) IN d # 0 /\ log[d].approved

\* evaluate_plan, and can_execute_action for a kind that can be taken back.
PlanAllowed(c, log) == c.high => HumanApproval(log, "plan")

IsWork(e) == e.type \in {"tool", "manual"} \/ Mutates(e)

\* The plan is approved now and was at every event of work.
PlanIssue(log) ==
    \/ ~HumanApproval(log, "plan")
    \/ \E i \in DOMAIN log :
         IsWork(log[i]) /\ ~HumanApproval(SubSeq(log, 1, i - 1), "plan")

-----------------------------------------------------------------------------
(* The latest result of every requirement and kind, and what it is worth.  *)

LastCheck(log, r) == LastIn({i \in Places(log, "check") : log[i].req = r})
LastManual(log, r) == LastIn({i \in Places(log, "manual") : log[i].req = r})
LastEvidence(log, k) == LastIn({i \in Places(log, "evidence") : log[i].kind = k})

\* The command ran after the last mutation, or that one is the change which
\* the command itself made to the requirement's declared artifact.
FreshTool(log, e) ==
    /\ e.tool # 0
    /\ e.tool > LastMutation(log) \/ (e.own # 0 /\ e.own = LastMutation(log))

\* Mutant: a result counts although something was changed after it.
CheckValidStale(log, ws, r) ==
    LET i == LastCheck(log, r) IN i # 0 /\ log[i].status = "pass"

CheckValid(log, ws, r) ==
    LET i == LastCheck(log, r)
    IN  /\ i # 0
        /\ i > LastMutation(log)
        /\ log[i].status = "pass"
        /\ FreshTool(log, log[i])
        /\ log[i].ws = ws

\* The evidence that the verdict cites, when it can be cited.
ManualEvidence(log, r) ==
    LET i == LastManual(log, r)
    IN  IF i # 0 /\ log[i].cites # 0 /\ log[i].cites >= LastMutation(log)
           /\ log[log[i].cites].ws = log[i].ws
        THEN {log[i].cites} ELSE {}

ManualValid(log, ws, r) ==
    LET i == LastManual(log, r)
    IN  /\ i > LastMutation(log)
        /\ log[i].approved
        /\ ManualEvidence(log, r) # {}
        /\ log[i].ws = ws

GenericValid(log, ws, k) ==
    LET i == LastEvidence(log, k)
    IN  i # 0 /\ i >= LastMutation(log) /\ log[i].ws = ws

RequirementIssues(c, log, ws) ==
    \/ \E r \in Executed(c) : ~CheckValid(log, ws, r)
    \/ \E r \in c.manual : ~ManualValid(log, ws, r)
    \/ \E k \in c.kinds : ~GenericValid(log, ws, k)

\* What a verdict and the final approval have to cite, no less and no more.
RequirementHashes(c, log, ws) ==
    {LastCheck(log, r) : r \in {r \in Executed(c) : CheckValid(log, ws, r)}}
    \cup (UNION {ManualEvidence(log, r) : r \in c.manual})
    \cup {LastEvidence(log, k) : k \in {k \in c.kinds : GenericValid(log, ws, k)}}

\* Verdicts count when they come after all of it.
ReviewAfter(c, log) ==
    LastIn({LastMutation(log)}
           \cup {LastCheck(log, r) : r \in Executed(c)}
           \cup {LastManual(log, r) : r \in c.manual}
           \cup {LastEvidence(log, k) : k \in c.kinds})

-----------------------------------------------------------------------------
(* The review.                                                             *)

Verdicts(c, log) == {i \in Places(log, "verdict") : i > ReviewAfter(c, log)}

VerifierIssues(c, log, ws, minPasses) ==
    LET passes == {i \in Verdicts(c, log) : log[i].status = "pass"}
        cited == {i \in passes : log[i].refs # {}
                                 /\ log[i].refs = RequirementHashes(c, log, ws)}
    IN  \/ \E i, j \in Verdicts(c, log) : i # j /\ log[i].verifier = log[j].verifier
        \/ \E i \in Verdicts(c, log) : log[i].status = "critical"
        \/ passes # cited
        \/ Cardinality(cited) < Max({2, minPasses})

\* Mutant: an approval from before the checks or the verdicts still counts.
FinalApprovalEver(c, log, ws) ==
    LET d == LastIn(Decisions(log, "final")) IN d = 0 \/ ~log[d].approved

FinalApprovalIssue(c, log, ws) ==
    LET d == LastIn(Decisions(log, "final"))
    IN  \/ d <= LastIn({ReviewAfter(c, log)} \cup Verdicts(c, log))
        \/ ~log[d].approved
        \/ log[d].refs = {}
        \/ log[d].refs # RequirementHashes(c, log, ws)

Blocked(c, log) ==
    /\ Structured(c)
    /\ LET t == LastIn(Places(log, "transition")) IN t # 0 /\ log[t].state = "blocked"

\* complete for a contract that asks for anything.
CompleteStructured(c, log, ws, minPasses) ==
    IF c.high /\ PlanIssue(log) THEN "ESCALATE"
    ELSE IF Blocked(c, log) THEN "ESCALATE"
    ELSE IF RequirementIssues(c, log, ws) \/ VerifierIssues(c, log, ws, minPasses)
    THEN "REPAIR"
    ELSE IF c.high /\ FinalApprovalIssue(c, log, ws) THEN "ESCALATE"
    ELSE "PASS"

\* Mutant: every verdict counts, not each verifier's latest.
LatestVerdictsAll(log) == Places(log, "verdict")

\* A verifier's verdict is its latest decision.
LatestVerdicts(log) ==
    {i \in Places(log, "verdict") :
       \A j \in Places(log, "verdict") : log[j].verifier = log[i].verifier => j <= i}

\* A pass counts when it cites evidence or, unless that is demanded, states a
\* rationale.
CountsAsPass(e, requireEvidence) ==
    e.status = "pass" /\ (e.refs # {} \/ (e.rationale /\ ~requireEvidence))

\* complete for a contract that asks for nothing but a review.
CompleteReviewed(log, minPasses) ==
    LET latest == LatestVerdicts(log)
    IN  IF \/ \E i \in latest : log[i].status = "critical"
           \/ Cardinality({i \in latest : CountsAsPass(log[i], FALSE)}) < Max({2, minPasses})
        THEN "REPAIR"
        ELSE "PASS"

GateComplete(c, log, ws, minPasses) ==
    IF Structured(c) \/ c.kinds # {} \/ c.high
    THEN CompleteStructured(c, log, ws, minPasses)
    ELSE CompleteReviewed(log, minPasses)

-----------------------------------------------------------------------------
(* should_stop, before every iteration.  s counts iterations, iterations   *)
(* without progress and failed hypotheses; a ceiling of 0 is none.         *)

Reached(count, ceiling) == ceiling > 0 /\ count >= ceiling

ShouldStop(policy, s) ==
    IF Reached(s.iterations, policy.iterations) \/ Reached(s.noProgress, policy.noProgress)
    THEN "STOP"
    ELSE IF Reached(s.failed, policy.failed) THEN "ESCALATE"
    ELSE "PASS"

=============================================================================
