---------------------------- MODULE PhaseProofs ----------------------------
(***************************************************************************)
(* Proofs about TaskPhases for any plan, limit and verifiers: what the     *)
(* projection folds from the log is what the handlers find when they       *)
(* search it, through every interleaving of calls, deaths and retries.     *)
(***************************************************************************)
EXTENDS TaskPhases, FiniteSetTheorems, WellFoundedInduction, TLAPS

Tasks == [state : DOMAIN Edges, rejected : BOOLEAN, readable : BOOLEAN,
          phases : [Phase -> [status : Status, attempt : Nat]],
          failed : Nat, streak : SUBSET Nat, gate : Nat, block : Nat]

TaskType == task \in Tasks

\* Phases are begun in order: what comes before one that was begun has passed,
\* and what was not begun is pending.
OrderOf(phases) ==
    /\ \A p \in Phase : phases[p].status # "pending" <=> phases[p].attempt > 0
    /\ \A p, q \in Phase : q < p /\ phases[p].attempt > 0 => phases[q].status = "passed"

StateInv ==
    /\ task.state = "rejected" => task.rejected
    /\ task.state = "verified" => \A p \in Phase : task.phases[p].status = "passed"
    /\ task.state \in {"planned", "approved"} => \A p \in Phase : task.phases[p].attempt = 0

\* The streak is the rejections that no approval of the phase has followed.
StreakInv ==
    /\ task.streak = Rejections
    /\ task.failed = Cardinality(task.streak)

Limit == MaxFailed > 0 /\ Cardinality(task.streak) >= MaxFailed

NoCause ==
    /\ ~Limit /\ HypothesisBlock = 0
    /\ task.gate = 0 /\ task.block = 0

\* The phase is blocked by its rejected hypotheses, and the task is not before
\* that is escalated.
AtLimit ==
    /\ MaxFailed > 0 /\ Cardinality(task.streak) = MaxFailed
    /\ HypothesisBlock \in task.streak /\ task.gate = GateOf(HypothesisBlock)
    /\ task.block = 0
    /\ task.state = "blocked" => task.gate # 0

\* The phase is blocked by its finish or by a check.
ByEvent ==
    /\ ~Limit /\ HypothesisBlock = 0 /\ task.gate = 0
    /\ task.block \in Events("phase") \cup Events("check")
    /\ task.block = PhaseBlockEvent
    /\ task.block > LastPhaseApproval

CauseInv == IF PhaseBlocked(task) THEN AtLimit \/ ByEvent ELSE NoCause

\* A decision that nothing has followed can still be recorded.
DecisionInv ==
    \A d \in DOMAIN log :
       /\ d = Len(log) /\ log[d].type = "decision"
       /\ log[d].stage \in {"plan", "final"} => log[d].approved
       => /\ task.state \notin Terminal
          /\ log[d].stage = "phase" =>
               /\ task.state = "blocked" /\ PhaseBlocked(task)
               /\ log[d].refs # {} /\ log[d].refs = RequiredRefs(task)

Kind == {"transition", "phase", "hypothesis", "gate", "check", "decision", "approve"}

LogInv ==
    /\ \E S : log \in Seq(S)
    /\ \A i \in DOMAIN log : log[i].type \in Kind
    /\ \A i \in DOMAIN log : log[i].type = "gate" => log[i].of \in 1..(i - 1)

\* What the projection points at are events of the log.
Within == /\ task.streak \subseteq 1..Len(log)
          /\ task.gate \in 0..Len(log) /\ task.block \in 0..Len(log)

Facts == OrderOf(task.phases) /\ StateInv /\ StreakInv /\ CauseInv /\ DecisionInv

Core == LogInv /\ TaskType /\ Within /\ (task.readable => Facts)

IInv ==
    /\ Core
    /\ begun \in {"none", "contract", "started"}
    /\ window \in [worked : BOOLEAN, fresh : BOOLEAN,
                   votes : SUBSET Verifier, citable : BOOLEAN, current : BOOLEAN]

-----------------------------------------------------------------------------
(* Numbers.                                                                *)

LEMMA LastOfIs ==
    ASSUME NEW n \in Nat, NEW S \in SUBSET (0..n)
    PROVE  /\ LastOf(S) \in S \cup {0} /\ LastOf(S) \in 0..n
           /\ \A i \in S : i <= LastOf(S)
<1> DEFINE T == S \cup {0}
           U == {n - i : i \in T}
           R == OpToRel(<, Nat)
<1>1. U \subseteq Nat /\ U # {} /\ T \subseteq 0..n
  OBVIOUS
<1>2. \A y, m \in Nat : <<y, m>> \in R <=> y < m
  BY DEF OpToRel
<1>3. IsWellFoundedOn(R, Nat)
  BY NatLessThanWellFounded
<1> HIDE DEF R
<1>4. PICK m \in U : \A y \in U : ~(<<y, m>> \in R)
  <2> HIDE DEF U
  <2>1. QED
    BY <1>1, <1>3, WFMin
<1>5. \A y \in U : m <= y
  <2> HIDE DEF U
  <2>1. m \in Nat /\ U \subseteq Nat
    BY <1>1, <1>4
  <2>2. ASSUME NEW y \in U, y < m
        PROVE  FALSE
    BY <1>2, <1>4, <2>1, <2>2
  <2>3. QED
    BY <2>1, <2>2
<1>6. PICK x \in T : m = n - x
  BY <1>4
<1>7. \A y \in T : x >= y
  BY <1>1, <1>5, <1>6
<1>8. Max(T) \in T /\ \A y \in T : Max(T) >= y
  BY <1>7 DEF Max
<1>9. QED
  BY <1>1, <1>8 DEF LastOf

\* It is the only such place.
LEMMA OnlyLast ==
    ASSUME NEW n \in Nat, NEW S \in SUBSET (0..n), NEW m \in S, \A i \in S : i <= m
    PROVE  LastOf(S) = m
<1>1. LastOf(S) \in S \cup {0} /\ LastOf(S) \in 0..n /\ \A i \in S : i <= LastOf(S)
  BY LastOfIs
<1>2. QED
  BY <1>1

LEMMA NoLast == LastOf({}) = 0
  BY LastOfIs, 0 \in Nat

LEMMA LeastIs ==
    ASSUME NEW S \in SUBSET Nat, S # {}
    PROVE  Min(S) \in S /\ \A i \in S : Min(S) <= i
<1> DEFINE R == OpToRel(<, Nat)
<1>1. \A y, m \in Nat : <<y, m>> \in R <=> y < m
  BY DEF OpToRel
<1>2. IsWellFoundedOn(R, Nat)
  BY NatLessThanWellFounded
<1> HIDE DEF R
<1>3. PICK m \in S : \A y \in S : ~(<<y, m>> \in R)
  BY <1>2, WFMin
<1>4. \A y \in S : m <= y
  <2>1. ASSUME NEW y \in S, y < m
        PROVE  FALSE
    BY <1>1, <1>3, <2>1
  <2>2. QED
    BY <2>1
<1>5. QED
  BY <1>4 DEF Min

-----------------------------------------------------------------------------
(* The phase that is current.                                              *)

\* When phases are begun in order, the current one is the first that has not
\* passed, and no other is running, blocked or failed.
LEMMA CurrentIs ==
    ASSUME NEW t, t.phases \in [Phase -> [status : Status, attempt : Nat]],
           OrderOf(t.phases)
    PROVE  /\ Current(t) \in Phase \cup {0}
           /\ Current(t) = 0 <=> \A p \in Phase : t.phases[p].status = "passed"
           /\ Current(t) = 0 <=> CurrentStatus(t) = "none"
           /\ Current(t) # 0 =>
                /\ CurrentStatus(t) = t.phases[Current(t)].status
                /\ CurrentStatus(t) \in Status \ {"passed"}
                /\ \A q \in Phase : q < Current(t) => t.phases[q].status = "passed"
                /\ \A q \in Phase : q > Current(t) => t.phases[q].attempt = 0
           /\ \A p \in Phase : t.phases[p].status \in {"running", "failed", "blocked"} =>
                 p = Current(t)
           /\ PhaseBlocked(t) <=> CurrentStatus(t) = "blocked"
<1> DEFINE st(p) == t.phases[p].status
<1>1. Phase \subseteq Nat \ {0} /\ \A p \in Phase : st(p) \in Status /\ t.phases[p].attempt \in Nat
  BY PlanAssumption DEF Phase
<1>2. /\ \A p \in Phase : st(p) # "pending" <=> t.phases[p].attempt > 0
      /\ \A p, q \in Phase : q < p /\ st(p) # "pending" => st(q) = "passed"
  BY DEF OrderOf
<1>3. Current(t) \in Phase \cup {0}
  BY <1>1, LeastIs DEF Current, Having
<1>4. ASSUME NEW p \in Phase, st(p) # "passed", \A q \in Phase : q < p => st(q) = "passed"
      PROVE  Current(t) = p
  <2>1. CASE Having(t, "running") # {}
    <3>1. Min(Having(t, "running")) \in Having(t, "running")
      BY <1>1, <2>1, LeastIs DEF Having
    <3> DEFINE r == Min(Having(t, "running"))
    <3>2. r \in Phase /\ st(r) = "running" /\ Current(t) = r
      BY <2>1, <3>1 DEF Having, Current
    <3> HIDE DEF r
    <3>3. ~(p < r)
      BY <1>2, <1>4, <3>2
    <3>4. ~(r < p)
      BY <1>4, <3>2
    <3>5. QED
      BY <1>1, <3>2, <3>3, <3>4
  <2>2. CASE Having(t, "running") = {}
    <3> DEFINE S == Phase \ Having(t, "passed")
               r == Min(S)
    <3>1. p \in S /\ S \subseteq Nat
      BY <1>1, <1>4 DEF Having
    <3>2. r \in S /\ r <= p
      BY <3>1, LeastIs
    <3>3. Current(t) = r
      BY <2>2, <3>1 DEF Current
    <3>4. r \in Phase /\ st(r) # "passed"
      BY <3>2 DEF Having
    <3> HIDE DEF r, S
    <3>5. QED
      BY <1>1, <1>4, <3>2, <3>3, <3>4
  <2>3. QED
    BY <2>1, <2>2
<1>5. CASE \A p \in Phase : st(p) = "passed"
  <2>1. Current(t) = 0
    BY <1>1, <1>5 DEF Current, Having
  <2>2. QED
    BY <1>1, <1>5, <2>1 DEF CurrentStatus, PhaseBlocked, Having
<1>6. CASE \E p \in Phase : st(p) # "passed"
  <2> DEFINE S == {p \in Phase : st(p) # "passed"}
             c == Min(S)
  <2>1. c \in S /\ \A i \in S : c <= i
    BY <1>1, <1>6, LeastIs
  <2> HIDE DEF c
  <2>2. c \in Phase /\ st(c) # "passed" /\ \A q \in Phase : q < c => st(q) = "passed"
    BY <1>1, <2>1
  <2>3. Current(t) = c /\ c # 0
    BY <1>1, <1>4, <2>2
  <2>4. CurrentStatus(t) = st(c)
    BY <2>3 DEF CurrentStatus
  <2>5. \A q \in Phase : q > c => t.phases[q].attempt = 0
    BY <1>1, <1>2, <2>2
  <2>6. \A p \in Phase : st(p) \in {"running", "failed", "blocked"} => p = c
    BY <1>1, <1>2, <2>2
  <2>7. PhaseBlocked(t) <=> st(c) = "blocked"
    BY <2>2, <2>6 DEF PhaseBlocked, Having
  <2>8. st(c) \in Status \ {"passed"} /\ st(c) # "none"
    BY <1>1, <2>2 DEF Status
  <2>9. QED
    BY <2>2, <2>3, <2>4, <2>5, <2>6, <2>7, <2>8
<1>7. QED
  BY <1>5, <1>6
-----------------------------------------------------------------------------
(* The log, extended.                                                      *)

Grown ==
    /\ \E S : log' \in Seq(S)
    /\ Len(log') > Len(log)
    /\ \A i \in 1..Len(log) : log'[i] = log[i]

LEMMA LogDomain ==
    ASSUME LogInv
    PROVE  Len(log) \in Nat /\ DOMAIN log = 1..Len(log)
BY DEF LogInv

LEMMA AppendGrows ==
    ASSUME LogInv, NEW e, log' = Append(log, e)
    PROVE  Grown /\ Len(log') = Len(log) + 1 /\ log'[Len(log) + 1] = e
<1>1. PICK S : log \in Seq(S)
  BY DEF LogInv
<1>2. log \in Seq(S \cup {e})
  BY <1>1
<1>3. log' \in Seq(S \cup {e}) /\ Len(log') = Len(log) + 1 /\ log'[Len(log) + 1] = e
  BY <1>2
<1>4. \A i \in 1..Len(log) : log'[i] = log[i]
  BY <1>2
<1>5. QED
  BY <1>3, <1>4, LogDomain DEF Grown

LEMMA TwoGrow ==
    ASSUME LogInv, NEW e, NEW f, log' = log \o <<e, f>>
    PROVE  /\ Grown /\ Len(log') = Len(log) + 2
           /\ log'[Len(log) + 1] = e /\ log'[Len(log) + 2] = f
<1>1. PICK S : log \in Seq(S)
  BY DEF LogInv
<1>2. log \in Seq(S \cup {e, f}) /\ <<e, f>> \in Seq(S \cup {e, f})
  BY <1>1
<1>3. /\ log' \in Seq(S \cup {e, f}) /\ Len(log') = Len(log) + 2
      /\ log'[Len(log) + 1] = e /\ log'[Len(log) + 2] = f
  BY <1>2
<1>4. \A i \in 1..Len(log) : log'[i] = log[i]
  BY <1>2
<1>5. QED
  BY <1>3, <1>4, LogDomain DEF Grown

\* The events of a kind that none was added of.
LEMMA EventsSame ==
    ASSUME LogInv, Grown, NEW type,
           \A i \in (Len(log) + 1)..Len(log') : log'[i].type # type
    PROVE  Events(type)' = Events(type)
<1>1. DOMAIN log' = 1..Len(log') /\ Len(log') \in Nat
  BY DEF Grown
<1>2. QED
  BY <1>1, LogDomain DEF Events, Grown

LEMMA EventsAre ==
    ASSUME LogInv
    PROVE  \A type : /\ Events(type) \subseteq 1..Len(log)
                     /\ \A i \in Events(type) : log[i].type = type
BY LogDomain DEF Events

LEMMA ApprovalSame ==
    ASSUME LogInv, Grown,
           \A i \in (Len(log) + 1)..Len(log') :
              log'[i].type = "approve" => ~(log'[i].stage = "phase" /\ log'[i].approved)
    PROVE  LastPhaseApproval' = LastPhaseApproval
<1>1. DOMAIN log' = 1..Len(log') /\ Len(log') \in Nat
  BY DEF Grown
<1>2. {i \in Events("approve") : log[i].stage = "phase" /\ log[i].approved}'
        = {i \in Events("approve") : log[i].stage = "phase" /\ log[i].approved}
  BY <1>1, LogDomain DEF Events, Grown
<1>3. QED
  BY <1>2 DEF LastPhaseApproval

\* Without a new hypothesis or an approval, the rejections stay what they are.
LEMMA StreakSame ==
    ASSUME LogInv, Grown, LastPhaseApproval' = LastPhaseApproval,
           Events("hypothesis")' = Events("hypothesis")
    PROVE  /\ CurrentHypotheses' = CurrentHypotheses
           /\ Rejections' = Rejections /\ HypothesisBlock' = HypothesisBlock
<1>1. CurrentHypotheses' = CurrentHypotheses
  BY DEF CurrentHypotheses
<1>2. \A i \in CurrentHypotheses : log'[i] = log[i]
  BY EventsAre DEF CurrentHypotheses, Grown
<1>3. Rejections' = Rejections
  BY <1>1, <1>2 DEF Rejections
<1>4. {i \in CurrentHypotheses : log[i].failed >= MaxFailed}'
        = {i \in CurrentHypotheses : log[i].failed >= MaxFailed}
  BY <1>1, <1>2
<1>5. HypothesisBlock' = HypothesisBlock
  BY <1>4 DEF HypothesisBlock
<1>6. QED
  BY <1>1, <1>3, <1>5

LEMMA GateSame ==
    ASSUME LogInv, Grown, Events("gate")' = Events("gate"), NEW h
    PROVE  GateOf(h)' = GateOf(h)
<1>1. \A i \in Events("gate") : log'[i] = log[i]
  BY EventsAre DEF Grown
<1>2. {i \in Events("gate") : log[i].of = h}' = {i \in Events("gate") : log[i].of = h}
  BY <1>1
<1>3. QED
  BY <1>2 DEF GateOf

LEMMA CurrentSame ==
    ASSUME task'.phases = task.phases
    PROVE  /\ Current(task)' = Current(task) /\ CurrentStatus(task)' = CurrentStatus(task)
           /\ PhaseBlocked(task)' = PhaseBlocked(task)
           /\ \A s : Having(task, s)' = Having(task, s)
<1>1. \A s : Having(task, s)' = Having(task, s)
  BY DEF Having
<1>2. Current(task)' = Current(task)
  BY <1>1 DEF Current
<1>3. QED
  BY <1>1, <1>2 DEF CurrentStatus, PhaseBlocked

LEMMA BlockEventSame ==
    ASSUME LogInv, Grown, Events("phase")' = Events("phase"),
           Events("check")' = Events("check"), Current(task)' = Current(task)
    PROVE  PhaseBlockEvent' = PhaseBlockEvent
<1>1. \A i \in Events("phase") : log'[i] = log[i]
  BY EventsAre DEF Grown
<1>2. {i \in Events("phase") : log[i].phase = Current(task) /\ log[i].status = "running"}'
        = {i \in Events("phase") : log[i].phase = Current(task) /\ log[i].status = "running"}
  BY <1>1
<1> DEFINE started == LastOf({i \in Events("phase") :
                                log[i].phase = Current(task) /\ log[i].status = "running"})
<1>3. started' = started
  BY <1>2
<1> HIDE DEF started
<1>4. ({i \in Events("check") : i > started}
        \cup {i \in Events("phase") : i > started /\ log[i].phase = Current(task)
                                                 /\ log[i].status = "blocked"})'
      = {i \in Events("check") : i > started}
        \cup {i \in Events("phase") : i > started /\ log[i].phase = Current(task)
                                                 /\ log[i].status = "blocked"}
  BY <1>1, <1>3
<1>5. QED
  BY <1>4 DEF PhaseBlockEvent, started

LEMMA LogKept ==
    ASSUME LogInv, Grown,
           \A i \in (Len(log) + 1)..Len(log') :
              /\ log'[i].type \in Kind
              /\ log'[i].type = "gate" => log'[i].of \in 1..(i - 1)
    PROVE  LogInv'
<1>1. DOMAIN log' = 1..Len(log') /\ Len(log') \in Nat
  BY DEF Grown
<1>2. \A i \in 1..Len(log') : i \in 1..Len(log) \/ i \in (Len(log) + 1)..Len(log')
  BY <1>1, LogDomain
<1>3. \A i \in DOMAIN log' : /\ log'[i].type \in Kind
                             /\ log'[i].type = "gate" => log'[i].of \in 1..(i - 1)
  BY <1>1, <1>2, LogDomain DEF LogInv, Grown
<1>4. QED
  BY <1>3 DEF LogInv, Grown

-----------------------------------------------------------------------------
(* The projection's types.                                                 *)

LEMMA StatusSet ==
    ASSUME NEW t \in Tasks, NEW status \in Status
    PROVE  /\ SetStatus(t, status) \in Tasks
           /\ SetStatus(t, status) = [t EXCEPT !.phases = SetStatus(t, status).phases]
           /\ \A p \in Phase :
                SetStatus(t, status).phases[p]
                  = IF p = Current(t) THEN [t.phases[p] EXCEPT !.status = status]
                    ELSE t.phases[p]
<1> DEFINE new == [t.phases EXCEPT ![Current(t)] = [@ EXCEPT !.status = status]]
<1>1. t.phases \in [Phase -> [status : Status, attempt : Nat]]
  BY DEF Tasks
<1>2. new \in [Phase -> [status : Status, attempt : Nat]]
  BY <1>1
<1>3. SetStatus(t, status) = [t EXCEPT !.phases = new]
  BY DEF SetStatus
<1>4. \A p \in Phase : new[p] = IF p = Current(t) THEN [t.phases[p] EXCEPT !.status = status]
                                ELSE t.phases[p]
  BY <1>1
<1> HIDE DEF new
<1>5. [t EXCEPT !.phases = new] \in Tasks /\ [t EXCEPT !.phases = new].phases = new
  BY <1>2 DEF Tasks
<1>6. QED
  BY <1>3, <1>4, <1>5

-----------------------------------------------------------------------------
(* Events that move no phase: transitions, decisions and the approvals that *)
(* lift no block.                                                           *)

Quiet(e) == \/ e.type \in {"transition", "decision"}
            \/ e.type = "approve" /\ ~(e.stage = "phase" /\ e.approved)

LEMMA QuietSame ==
    ASSUME LogInv, Grown, task'.phases = task.phases,
           \A i \in (Len(log) + 1)..Len(log') : Quiet(log'[i])
    PROVE  /\ Events("phase")' = Events("phase") /\ Events("check")' = Events("check")
           /\ LastPhaseApproval' = LastPhaseApproval
           /\ Rejections' = Rejections /\ HypothesisBlock' = HypothesisBlock
           /\ GateOf(HypothesisBlock)' = GateOf(HypothesisBlock)
           /\ PhaseBlockEvent' = PhaseBlockEvent
           /\ PhaseBlocked(task)' = PhaseBlocked(task)
<1>1. /\ Events("phase")' = Events("phase") /\ Events("check")' = Events("check")
      /\ Events("gate")' = Events("gate") /\ Events("hypothesis")' = Events("hypothesis")
  <2>1. \A i \in (Len(log) + 1)..Len(log') :
           log'[i].type \notin {"phase", "check", "gate", "hypothesis"}
    BY DEF Quiet
  <2>2. QED
    BY <2>1, EventsSame
<1>2. LastPhaseApproval' = LastPhaseApproval
  BY ApprovalSame DEF Quiet
<1>3. Rejections' = Rejections /\ HypothesisBlock' = HypothesisBlock
  BY <1>1, <1>2, StreakSame
<1>4. \A h : GateOf(h)' = GateOf(h)
  BY <1>1, GateSame
<1>5. GateOf(HypothesisBlock)' = GateOf(HypothesisBlock)
  <2>1. GateOf(HypothesisBlock)' = LastOf({i \in Events("gate") : log[i].of = HypothesisBlock})'
    BY DEF GateOf
  <2>2. {i \in Events("gate") : log[i].of = HypothesisBlock}'
          = {i \in Events("gate") : log[i].of = HypothesisBlock}
    BY <1>1, <1>3, EventsAre DEF Grown
  <2>3. QED
    BY <2>1, <2>2 DEF GateOf
<1>6. PhaseBlockEvent' = PhaseBlockEvent /\ PhaseBlocked(task)' = PhaseBlocked(task)
  BY <1>1, CurrentSame, BlockEventSame
<1>7. QED
  BY <1>1, <1>2, <1>3, <1>5, <1>6

\* They keep the invariant when the new state fits the phases.
LEMMA QuietKeeps ==
    ASSUME Core, task.readable, Grown,
           \A i \in (Len(log) + 1)..Len(log') : Quiet(log'[i]),
           NEW s \in DOMAIN Edges, NEW r \in BOOLEAN, NEW b \in BOOLEAN,
           task' = [task EXCEPT !.state = s, !.rejected = r, !.readable = b],
           b => /\ s = "rejected" => r
                /\ s = "verified" => \A p \in Phase : task.phases[p].status = "passed"
                /\ s \in {"planned", "approved"} => task.state \in {"planned", "approved"}
                /\ s = "blocked" /\ PhaseBlocked(task) /\ AtLimit => task.gate # 0
                /\ DecisionInv'
    PROVE  Core'
<1>1. /\ task' \in Tasks /\ task'.state = s /\ task'.rejected = r /\ task'.readable = b
      /\ task'.phases = task.phases /\ task'.failed = task.failed
      /\ task'.streak = task.streak /\ task'.gate = task.gate /\ task'.block = task.block
  BY DEF Core, TaskType, Tasks
<1>2. Quiet(log'[Len(log')])
  BY LogDomain DEF Grown, Core
<1>3. LogInv'
  BY LogKept DEF Core, Quiet, Kind
<1>4. Within'
  BY <1>1, LogDomain DEF Core, Within, Grown
<1>5. ASSUME b
      PROVE  Facts'
  <2>1. /\ Events("phase")' = Events("phase") /\ Events("check")' = Events("check")
        /\ LastPhaseApproval' = LastPhaseApproval
        /\ Rejections' = Rejections /\ HypothesisBlock' = HypothesisBlock
        /\ GateOf(HypothesisBlock)' = GateOf(HypothesisBlock)
        /\ PhaseBlockEvent' = PhaseBlockEvent
        /\ PhaseBlocked(task)' = PhaseBlocked(task)
    BY <1>1, QuietSame DEF Core
  <2>2. OrderOf(task.phases)'
    BY <1>1 DEF Core, Facts, OrderOf
  <2>3. StateInv'
    BY <1>1, <1>5 DEF Core, Facts, StateInv
  <2>4. StreakInv'
    BY <1>1, <2>1 DEF Core, Facts, StreakInv
  <2>5. CauseInv'
    <3>1. NoCause => NoCause'
      BY <1>1, <2>1 DEF NoCause, Limit
    <3>2. ByEvent => ByEvent'
      BY <1>1, <2>1 DEF ByEvent, Limit
    <3>3. PhaseBlocked(task) /\ AtLimit => AtLimit'
      BY <1>1, <1>5, <2>1 DEF AtLimit
    <3>4. CauseInv
      BY DEF Core, Facts
    <3>5. QED
      BY <2>1, <3>1, <3>2, <3>3, <3>4 DEF CauseInv
  <2>6. QED
    BY <1>5, <2>2, <2>3, <2>4, <2>5 DEF Facts
<1>6. QED
  BY <1>1, <1>3, <1>4, <1>5 DEF Core, TaskType, Tasks

LEMMA TransitionKeeps ==
    ASSUME Core, task.readable, NEW from, NEW to,
           log' = Append(log, Transition(from, to)),
           task' = Project(task, Transition(from, to), Len(log) + 1),
           from = task.state /\ to \in Edges[from] =>
              /\ to # "rejected"
              /\ to = "verified" => \A p \in Phase : task.phases[p].status = "passed"
              /\ to = "blocked" /\ PhaseBlocked(task) /\ AtLimit => task.gate # 0
    PROVE  /\ Core' /\ task'.phases = task.phases
           /\ ~task'.readable => from # task.state \/ to \notin Edges[from]
<1> DEFINE e == Transition(from, to)
<1>1. Grown /\ Len(log') = Len(log) + 1 /\ log'[Len(log) + 1] = e
  BY AppendGrows DEF Core
<1>2. e.type = "transition" /\ e.from = from /\ e.to = to
  BY DEF Transition
<1>3. \A i \in (Len(log) + 1)..Len(log') : Quiet(log'[i])
  BY <1>1, <1>2, LogDomain DEF Quiet, Core
<1>4. DecisionInv'
  BY <1>1, <1>2, LogDomain DEF DecisionInv, Core
<1>5. task' = ProjectTransition(task, e)
  BY <1>2 DEF Project
<1>6. task.state \in DOMAIN Edges /\ task.rejected \in BOOLEAN
  BY DEF Core, TaskType, Tasks
<1> HIDE DEF e
<1>7. CASE from = task.state /\ to \in Edges[from]
  <2>1. task' = [task EXCEPT !.state = to]
    BY <1>2, <1>5, <1>7 DEF ProjectTransition
  <2>2. task' = [task EXCEPT !.state = to, !.rejected = task.rejected, !.readable = TRUE]
    BY <2>1 DEF Core, TaskType, Tasks
  <2>3. /\ to \in DOMAIN Edges
        /\ to \in {"planned", "approved"} => task.state \in {"planned", "approved"}
        /\ to # "rejected"
    BY <1>6, <1>7 DEF Edges
  <2>4. Core'
    BY <1>1, <1>3, <1>4, <1>6, <1>7, <2>2, <2>3, QuietKeeps
  <2>5. task'.phases = task.phases /\ task'.readable
    BY <2>2 DEF Core, TaskType, Tasks
  <2>6. QED
    BY <2>4, <2>5
<1>8. CASE ~(from = task.state /\ to \in Edges[from])
  <2>1. task' = [task EXCEPT !.readable = FALSE]
    BY <1>2, <1>5, <1>8 DEF ProjectTransition, Refuse
  <2>2. task' = [task EXCEPT !.state = task.state, !.rejected = task.rejected,
                             !.readable = FALSE]
    BY <2>1 DEF Core, TaskType, Tasks
  <2>3. Core'
    BY <1>1, <1>3, <1>6, <2>2, QuietKeeps
  <2>4. task'.phases = task.phases
    BY <2>2 DEF Core, TaskType, Tasks
  <2>5. QED
    BY <1>8, <2>3, <2>4
<1>9. QED
  BY <1>7, <1>8

\* A decision that may be recorded fits the task it was made of.
Decidable(stage, refs) ==
    /\ task.state \notin Terminal
    /\ stage = "phase" =>
         /\ task.state = "blocked" /\ PhaseBlocked(task)
         /\ refs # {} /\ refs = RequiredRefs(task)

LEMMA DecisionKeeps ==
    ASSUME Core, task.readable, NEW stage, NEW approved \in BOOLEAN, NEW refs,
           log' = Append(log, Decision(stage, approved, refs)),
           task' = Project(task, Decision(stage, approved, refs), Len(log) + 1),
           (stage \in {"plan", "final"} => approved) => Decidable(stage, refs)
    PROVE  Core' /\ task'.readable /\ task'.phases = task.phases
<1> DEFINE e == Decision(stage, approved, refs)
           r == IF stage \in {"plan", "final"} /\ ~approved THEN TRUE ELSE task.rejected
<1>1. Grown /\ Len(log') = Len(log) + 1 /\ log'[Len(log) + 1] = e
  BY AppendGrows DEF Core
<1>2. /\ e.type = "decision" /\ e.stage = stage
      /\ e.approved = approved /\ e.refs = refs
  BY DEF Decision
<1>3. \A i \in (Len(log) + 1)..Len(log') : Quiet(log'[i])
  BY <1>1, <1>2, LogDomain DEF Quiet, Core
<1>4. task' = ProjectDecision(task, e)
  BY <1>2 DEF Project
<1>5. task.state \in DOMAIN Edges /\ task.rejected \in BOOLEAN /\ r \in BOOLEAN
  BY DEF Core, TaskType, Tasks
<1> HIDE DEF e
<1>6. task' = [task EXCEPT !.state = task.state, !.rejected = r, !.readable = TRUE]
  <2>1. CASE stage \in {"plan", "final"} /\ ~approved
    BY <1>2, <1>4, <2>1 DEF ProjectDecision, Core, TaskType, Tasks
  <2>2. CASE ~(stage \in {"plan", "final"} /\ ~approved)
    BY <1>2, <1>4, <2>2 DEF ProjectDecision, Core, TaskType, Tasks
  <2>3. QED
    BY <2>1, <2>2
<1>7. /\ task'.state = task.state /\ task'.phases = task.phases
      /\ task'.streak = task.streak /\ task'.gate = task.gate /\ task'.block = task.block
      /\ task'.readable
  BY <1>6 DEF Core, TaskType, Tasks
<1>8. DecisionInv'
  <2>1. RequiredRefs(task)' = RequiredRefs(task) /\ PhaseBlocked(task)' = PhaseBlocked(task)
    BY <1>7, CurrentSame DEF RequiredRefs
  <2>2. QED
    BY <1>1, <1>2, <1>7, <2>1, LogDomain DEF DecisionInv, Core, Decidable
<1>9. /\ task.state = "rejected" => r
      /\ task.state = "verified" => \A p \in Phase : task.phases[p].status = "passed"
      /\ task.state = "blocked" /\ PhaseBlocked(task) /\ AtLimit => task.gate # 0
  BY DEF Core, Facts, StateInv, AtLimit
<1> HIDE DEF r
<1>10. Core'
  BY <1>1, <1>3, <1>5, <1>6, <1>8, <1>9, QuietKeeps
<1>11. QED
  BY <1>7, <1>10

\* A rejection and its transition, which the projection may refuse.
LEMMA RejectionKeeps ==
    ASSUME Core, task.readable, NEW stage \in {"plan", "final"}, NEW from,
           log' = log \o <<Decision(stage, FALSE, {}), Transition(from, "rejected")>>,
           task' = Project(Project(task, Decision(stage, FALSE, {}), Len(log) + 1),
                           Transition(from, "rejected"), Len(log) + 2)
    PROVE  Core' /\ task'.phases = task.phases
           /\ (~task'.readable => from # task.state \/ "rejected" \notin Edges[from])
<1> DEFINE e == Decision(stage, FALSE, {})
           f == Transition(from, "rejected")
           ok == from = task.state /\ "rejected" \in Edges[from]
           s == IF ok THEN "rejected" ELSE task.state
<1>1. /\ Grown /\ Len(log') = Len(log) + 2
      /\ log'[Len(log) + 1] = e /\ log'[Len(log) + 2] = f
  BY TwoGrow DEF Core
<1>2. /\ e.type = "decision" /\ e.stage = stage /\ ~e.approved
      /\ f.type = "transition" /\ f.from = from /\ f.to = "rejected"
  BY DEF Decision, Transition
<1>3. \A i \in (Len(log) + 1)..Len(log') : Quiet(log'[i])
  <2>1. \A i \in (Len(log) + 1)..Len(log') : i = Len(log) + 1 \/ i = Len(log) + 2
    BY <1>1, LogDomain DEF Core
  <2>2. QED
    BY <1>1, <1>2, <2>1 DEF Quiet
<1>4. DecisionInv'
  BY <1>1, <1>2, LogDomain DEF DecisionInv, Core
<1>5. Project(task, e, Len(log) + 1) = [task EXCEPT !.rejected = TRUE]
  BY <1>2 DEF Project, ProjectDecision
<1> DEFINE t == [task EXCEPT !.rejected = TRUE]
<1>6. task' = ProjectTransition(t, f)
  BY <1>2, <1>5 DEF Project
<1>7. t.state = task.state /\ s \in DOMAIN Edges /\ ok \in BOOLEAN
  BY DEF Core, TaskType, Tasks, Edges
<1>8. task' = [task EXCEPT !.state = s, !.rejected = TRUE, !.readable = ok]
  <2>1. CASE ok
    <3>1. task' = [t EXCEPT !.state = "rejected"]
      BY <1>2, <1>6, <1>7, <2>1 DEF ProjectTransition
    <3>2. QED
      BY <2>1, <3>1 DEF Core, TaskType, Tasks
  <2>2. CASE ~ok
    <3>1. task' = [t EXCEPT !.readable = FALSE]
      BY <1>2, <1>6, <1>7, <2>2 DEF ProjectTransition, Refuse
    <3>2. QED
      BY <2>2, <3>1 DEF Core, TaskType, Tasks
  <2>3. QED
    BY <2>1, <2>2
<1>9. task'.phases = task.phases /\ (task'.readable <=> ok)
  BY <1>8 DEF Core, TaskType, Tasks
<1>10. ok => s = "rejected"
  OBVIOUS
<1> HIDE DEF ok, s, e, f, t
<1>11. Core'
  BY <1>1, <1>3, <1>4, <1>7, <1>8, <1>10, QuietKeeps
<1>12. QED
  BY <1>9, <1>11 DEF ok

-----------------------------------------------------------------------------
(* What the searches of the log find.                                      *)

LEMMA Found ==
    ASSUME LogInv
    PROVE  /\ LastPhaseApproval \in 0..Len(log)
           /\ HypothesisBlock \in 0..Len(log)
           /\ HypothesisBlock # 0 =>
                /\ MaxFailed > 0 /\ HypothesisBlock \in CurrentHypotheses
                /\ log[HypothesisBlock].failed >= MaxFailed
           /\ \A h : GateOf(h) \in 0..Len(log)
           /\ Rejections \subseteq 1..Len(log) /\ IsFiniteSet(Rejections)
           /\ CurrentHypotheses \subseteq 1..Len(log)
<1>1. Len(log) \in Nat
  BY LogDomain
<1>2. /\ LastPhaseApproval \in 0..Len(log)
      /\ \A h : GateOf(h) \in 0..Len(log)
  <2>1. {i \in Events("approve") : log[i].stage = "phase" /\ log[i].approved}
          \in SUBSET (0..Len(log))
    BY EventsAre, LogDomain
  <2>2. LastPhaseApproval \in 0..Len(log)
    BY <1>1, <2>1, LastOfIs DEF LastPhaseApproval
  <2>3. ASSUME NEW h
        PROVE  GateOf(h) \in 0..Len(log)
    <3>1. {i \in Events("gate") : log[i].of = h} \in SUBSET (0..Len(log))
      BY EventsAre, LogDomain
    <3>2. QED
      BY <1>1, <3>1, LastOfIs DEF GateOf
  <2>4. QED
    BY <2>2, <2>3
<1>3. CurrentHypotheses \subseteq 1..Len(log)
  BY EventsAre DEF CurrentHypotheses
<1>4. Rejections \subseteq 1..Len(log) /\ IsFiniteSet(Rejections)
  <2>1. Rejections \subseteq 1..Len(log)
    BY <1>3 DEF Rejections
  <2>2. QED
    BY <1>1, <2>1, FS_Interval, FS_Subset, 1 \in Int, Len(log) \in Int
<1>5. /\ HypothesisBlock \in 0..Len(log)
      /\ HypothesisBlock # 0 =>
           /\ MaxFailed > 0 /\ HypothesisBlock \in CurrentHypotheses
           /\ log[HypothesisBlock].failed >= MaxFailed
  <2> DEFINE S == {i \in CurrentHypotheses : log[i].failed >= MaxFailed}
  <2>1. S \in SUBSET (0..Len(log))
    <3>1. \A i \in S : i \in CurrentHypotheses
      OBVIOUS
    <3> HIDE DEF S
    <3>2. \A i \in S : i \in 1..Len(log)
      BY <1>3, <3>1
    <3>3. QED
      BY <1>1, <3>2
  <2>2. LastOf(S) \in S \cup {0} /\ LastOf(S) \in 0..Len(log)
    BY <1>1, <2>1, LastOfIs
  <2>3. MaxFailed \in Nat
    BY BoundsAssumption
  <2>4. QED
    BY <1>1, <2>2, <2>3 DEF HypothesisBlock
<1>6. QED
  BY <1>2, <1>3, <1>4, <1>5

\* The event that has just blocked the phase is found.
LEMMA BlockEventIsLast ==
    ASSUME LogInv, LogInv', Grown, Len(log') = Len(log) + 1,
           NEW n, n = Len(log'),
           \/ log'[n].type = "check"
           \/ /\ log'[n].type = "phase" /\ log'[n].phase = Current(task)'
              /\ log'[n].status = "blocked"
    PROVE  PhaseBlockEvent' = n
<1>1. DOMAIN log' = 1..n /\ n \in Nat /\ Len(log) \in Nat /\ n = Len(log) + 1
  BY LogDomain DEF Grown
<1>2. \A type : Events(type)' \subseteq 1..n
  BY <1>1 DEF Events
<1> DEFINE R == {i \in Events("phase")' : log'[i].phase = Current(task)'
                                            /\ log'[i].status = "running"}
           started == LastOf(R)
           B == {i \in Events("check")' : i > started}
                  \cup {i \in Events("phase")' : /\ i > started
                                                 /\ log'[i].phase = Current(task)'
                                                 /\ log'[i].status = "blocked"}
<1>3. n \notin R
  BY DEF Events
<1>4. R \in SUBSET (0..Len(log))
  BY <1>1, <1>2, <1>3
<1>5. started \in 0..Len(log)
  <2> HIDE DEF R
  <2>1. QED
    BY <1>1, <1>4, LastOfIs
<1>6. PhaseBlockEvent' = LastOf(B)
  BY DEF PhaseBlockEvent
<1> HIDE DEF started, R
<1>7. n \in Events("check")' \/ (n \in Events("phase")' /\ log'[n].phase = Current(task)'
                                    /\ log'[n].status = "blocked")
  BY <1>1 DEF Events
<1>8. n \in B /\ B \in SUBSET (0..n) /\ \A i \in B : i <= n
  BY <1>1, <1>2, <1>5, <1>7
<1> HIDE DEF B
<1>9. QED
  BY <1>1, <1>6, <1>8, OnlyLast

\* u has status s for the current phase of t, begun, and is t for the others.
Sets(t, u, s) ==
    /\ t.phases \in [Phase -> [status : Status, attempt : Nat]]
    /\ u.phases \in [Phase -> [status : Status, attempt : Nat]]
    /\ OrderOf(t.phases) /\ Current(t) # 0
    /\ \A p \in Phase \ {Current(t)} : u.phases[p] = t.phases[p]
    /\ u.phases[Current(t)].status = s /\ u.phases[Current(t)].attempt > 0

\* A new status of the current phase keeps the order.
LEMMA PhaseSet ==
    ASSUME NEW t, NEW u, NEW s \in Status \ {"pending"}, Sets(t, u, s)
    PROVE  /\ OrderOf(u.phases)
           /\ s # "passed" => Current(u) = Current(t) /\ CurrentStatus(u) = s
           /\ PhaseBlocked(u) <=> s = "blocked"
           /\ CurrentStatus(u) = "running" <=> s = "running"
<1>0. /\ t.phases \in [Phase -> [status : Status, attempt : Nat]]
      /\ u.phases \in [Phase -> [status : Status, attempt : Nat]]
      /\ OrderOf(t.phases) /\ Current(t) # 0
      /\ \A p \in Phase \ {Current(t)} : u.phases[p] = t.phases[p]
      /\ u.phases[Current(t)].status = s /\ u.phases[Current(t)].attempt > 0
  BY DEF Sets
<1> DEFINE c == Current(t)
<1>1. /\ c \in Phase /\ \A p \in Phase : p \in Nat
      /\ \A q \in Phase : q < c => t.phases[q].status = "passed"
      /\ \A q \in Phase : c < q => t.phases[q].attempt = 0
  BY <1>0, CurrentIs DEF Phase
<1> HIDE DEF c
<1>2. \A p \in Phase : p # c => u.phases[p] = t.phases[p]
  BY <1>0 DEF c
<1>3. u.phases[c].status = s /\ u.phases[c].attempt > 0
  BY <1>0 DEF c
<1>4. OrderOf(u.phases)
  <2>1. \A p \in Phase : u.phases[p].status # "pending" <=> u.phases[p].attempt > 0
    BY <1>0, <1>2, <1>3 DEF OrderOf
  <2>2. ASSUME NEW p \in Phase, NEW q \in Phase, q < p, u.phases[p].attempt > 0
        PROVE  u.phases[q].status = "passed"
    <3>1. p \in Nat /\ q \in Nat /\ c \in Nat
      BY <1>1
    <3>2. ~(c < p)
      BY <1>1, <1>2, <2>2, <3>1
    <3>3. q < c
      BY <2>2, <3>1, <3>2
    <3>4. QED
      BY <1>1, <1>2, <3>1, <3>3
  <2>3. QED
    BY <2>1, <2>2 DEF OrderOf
<1>5. /\ Current(u) \in Phase \cup {0}
      /\ Current(u) = 0 <=> \A p \in Phase : u.phases[p].status = "passed"
      /\ Current(u) # 0 =>
           /\ CurrentStatus(u) = u.phases[Current(u)].status
           /\ CurrentStatus(u) \in Status \ {"passed"}
           /\ \A q \in Phase : q < Current(u) => u.phases[q].status = "passed"
      /\ PhaseBlocked(u) <=> CurrentStatus(u) = "blocked"
      /\ Current(u) = 0 <=> CurrentStatus(u) = "none"
  BY <1>0, <1>4, CurrentIs
<1>6. CASE s # "passed"
  <2> DEFINE d == Current(u)
  <2>1. d \in Phase /\ d # 0 /\ d \in Nat /\ c \in Nat
    BY <1>1, <1>3, <1>5, <1>6
  <2>2. ~(c < d)
    <3>1. \A q \in Phase : q < d => u.phases[q].status = "passed"
      BY <1>5, <2>1, <1>1
    <3> HIDE DEF d
    <3>2. QED
      BY <1>1, <1>3, <1>6, <3>1
  <2>3. ~(d < c)
    <3>1. u.phases[d].status # "passed"
      BY <1>5, <2>1
    <3>2. QED
      BY <1>1, <1>2, <2>1, <3>1
  <2> HIDE DEF d
  <2>4. d = c
    BY <2>1, <2>2, <2>3
  <2>5. QED
    BY <1>1, <1>3, <1>4, <1>5, <2>4 DEF c, d
<1>7. CASE s = "passed"
  <2>1. CASE Current(u) = 0
    BY <1>4, <1>5, <1>7, <2>1
  <2>2. CASE Current(u) # 0
    <3>1. Current(u) \in Phase /\ Current(u) # c
      BY <1>3, <1>5, <1>7, <2>2
    <3>2. c < Current(u)
      <4>1. Current(u) \in Nat /\ c \in Nat
        BY <1>1, <3>1
      <4>2. u.phases[Current(u)].status # "passed"
        BY <1>5, <2>2
      <4>3. ~(Current(u) < c)
        BY <1>1, <1>2, <3>1, <4>2
      <4>4. QED
        BY <3>1, <4>1, <4>3
    <3>3. u.phases[Current(u)].attempt = 0
      BY <1>1, <1>2, <3>1, <3>2
    <3>4. u.phases[Current(u)].status = "pending"
      BY <1>4, <3>1, <3>3 DEF OrderOf
    <3>5. QED
      BY <1>4, <1>5, <1>7, <2>2, <3>4
  <2>3. QED
    BY <2>1, <2>2
<1>8. QED
  BY <1>6, <1>7

-----------------------------------------------------------------------------
(* Events that move a phase, or may.                                       *)

LEMMA LastEventKind ==
    ASSUME LogInv, NEW e, log' = Append(log, e), e.type # "decision"
    PROVE  DecisionInv'
BY AppendGrows, LogDomain DEF DecisionInv, Grown

\* The searches after an event of another kind than hypothesis, gate or
\* approval find the same rejections.
LEMMA OtherKind ==
    ASSUME LogInv, NEW e, log' = Append(log, e), e.type \in {"phase", "check"}
    PROVE  /\ LogInv'
           /\ LastPhaseApproval' = LastPhaseApproval
           /\ Rejections' = Rejections /\ HypothesisBlock' = HypothesisBlock
           /\ Len(log) + 1 \in Events(e.type)'
<1>1. Grown /\ Len(log') = Len(log) + 1 /\ log'[Len(log) + 1] = e
  BY AppendGrows
<1>2. Events("hypothesis")' = Events("hypothesis")
  BY <1>1, EventsSame, LogDomain
<1>3. LastPhaseApproval' = LastPhaseApproval
  BY <1>1, ApprovalSame, LogDomain
<1>4. LogInv'
  BY <1>1, LogKept, LogDomain DEF Kind
<1>5. Len(log) + 1 \in Events(e.type)'
  BY <1>1, LogDomain DEF Events, Grown
<1>6. QED
  BY <1>1, <1>2, <1>3, <1>4, <1>5, StreakSame

\* What a phase event makes of the task.
LEMMA PhaseEffect ==
    ASSUME TaskType, OrderOf(task.phases), task.state = "executing", Current(task) # 0,
           NEW status \in {"running", "passed", "failed", "blocked"},
           IF status = "running" THEN CurrentStatus(task) \in {"pending", "failed"}
           ELSE CurrentStatus(task) = "running",
           NEW n \in Nat, NEW e, e.type = "phase", e.phase = Current(task),
           e.status = status, e.from = CurrentStatus(task),
           task' = Project(task, e, n)
    PROVE  /\ task' \in Tasks
           /\ task'.block = IF status = "blocked" THEN n ELSE task.block
           /\ task'.gate = task.gate /\ task'.streak = task.streak
           /\ task'.failed = task.failed /\ task'.readable = task.readable
           /\ task'.state = task.state /\ task'.rejected = task.rejected
           /\ \A p \in Phase \ {Current(task)} : task'.phases[p] = task.phases[p]
           /\ task'.phases[Current(task)].status = status
           /\ task'.phases[Current(task)].attempt > 0
<1> DEFINE c == Current(task)
           u == SetStatus(task, status)
           ph == [u.phases EXCEPT ![c].attempt = IF status = "running" THEN @ + 1 ELSE @]
           b == IF status = "blocked" THEN n ELSE u.block
<1>1. c \in Phase /\ ~PhaseBlocked(task) /\ CurrentStatus(task) = task.phases[c].status
  BY CurrentIs DEF TaskType, Tasks
<1>2. task' = ProjectPhase(task, e, n)
  BY DEF Project
<1>3. TakesOperation(task, e)
  BY <1>1 DEF TakesOperation, Terminal
<1>4. task' = [u EXCEPT !.phases = ph, !.block = b]
  <2> HIDE DEF u
  <2>1. task' = [u EXCEPT !.phases[e.phase].attempt = IF e.status = "running" THEN @ + 1 ELSE @,
                          !.block = IF e.status = "blocked" THEN n ELSE @]
    BY <1>2, <1>3 DEF ProjectPhase, u
  <2>2. QED
    BY <2>1
<1>5. /\ u \in Tasks /\ task \in Tasks
      /\ u.block = task.block /\ u.gate = task.gate /\ u.streak = task.streak
      /\ u.failed = task.failed /\ u.readable = task.readable
      /\ u.state = task.state /\ u.rejected = task.rejected
      /\ \A p \in Phase : u.phases[p] = IF p = c THEN [task.phases[p] EXCEPT !.status = status]
                                        ELSE task.phases[p]
  <2>1. task \in Tasks /\ status \in Status
    BY DEF TaskType, Tasks, Status
  <2>2. u \in Tasks /\ u = [task EXCEPT !.phases = u.phases]
    BY <2>1, StatusSet
  <2>3. \A p \in Phase : u.phases[p] = IF p = c THEN [task.phases[p] EXCEPT !.status = status]
                                        ELSE task.phases[p]
    BY <2>1, StatusSet
  <2> HIDE DEF u
  <2>4. QED
    BY <2>1, <2>2, <2>3 DEF Tasks
<1> HIDE DEF u, c
<1>6. /\ u.phases \in [Phase -> [status : Status, attempt : Nat]]
      /\ task.phases \in [Phase -> [status : Status, attempt : Nat]]
  BY <1>5 DEF Tasks
<1>7. u.phases[c].status = status /\ u.phases[c].attempt = task.phases[c].attempt
  BY <1>1, <1>5, <1>6
<1>8. /\ ph \in [Phase -> [status : Status, attempt : Nat]]
      /\ \A p \in Phase \ {c} : ph[p] = task.phases[p]
      /\ ph[c].status = status
      /\ ph[c].attempt = task.phases[c].attempt + (IF status = "running" THEN 1 ELSE 0)
  <2>1. u.phases[c] \in [status : Status, attempt : Nat] /\ task.phases[c].attempt \in Nat
    BY <1>1, <1>6
  <2> DEFINE x == [u.phases[c] EXCEPT !.attempt = IF status = "running" THEN @ + 1 ELSE @]
  <2>2. /\ x \in [status : Status, attempt : Nat] /\ x.status = status
        /\ x.attempt = task.phases[c].attempt + (IF status = "running" THEN 1 ELSE 0)
    BY <1>7, <2>1
  <2>3. ph = [u.phases EXCEPT ![c] = x]
    BY DEF ph
  <2> HIDE DEF x, ph
  <2>4. ph \in [Phase -> [status : Status, attempt : Nat]] /\ ph[c] = x
        /\ \A p \in Phase \ {c} : ph[p] = u.phases[p]
    BY <1>1, <1>6, <2>2, <2>3
  <2>5. QED
    BY <1>5, <2>2, <2>4
<1>9. ph[c].attempt > 0
  <2>1. CASE status = "running"
    BY <1>1, <1>6, <1>8, <2>1
  <2>2. CASE status # "running"
    <3>1. task.phases[c].status = "running"
      BY <1>1, <2>2
    <3>2. task.phases[c].attempt > 0
      BY <1>1, <3>1 DEF OrderOf
    <3>3. QED
      BY <1>6, <1>8, <2>2, <3>2
  <2>3. QED
    BY <2>1, <2>2
<1>10. b \in Nat
  BY <1>5 DEF Tasks
<1> HIDE DEF ph, b
<1>11. task' \in Tasks
  BY <1>4, <1>5, <1>8, <1>10 DEF Tasks
<1>12. /\ task'.phases = ph /\ task'.block = b
       /\ task'.gate = u.gate /\ task'.streak = u.streak
       /\ task'.failed = u.failed /\ task'.readable = u.readable
       /\ task'.state = u.state /\ task'.rejected = u.rejected
  BY <1>4, <1>5 DEF Tasks
<1>13. QED
  BY <1>5, <1>8, <1>9, <1>11, <1>12 DEF c, b

LEMMA PhaseKeeps ==
    ASSUME Core, task.readable, task.state = "executing", Current(task) # 0,
           NEW status \in {"running", "passed", "failed", "blocked"},
           IF status = "running" THEN CurrentStatus(task) \in {"pending", "failed"}
           ELSE CurrentStatus(task) = "running",
           NEW e, e.type = "phase", e.phase = Current(task),
           e.status = status, e.from = CurrentStatus(task),
           log' = Append(log, e), task' = Project(task, e, Len(log) + 1)
    PROVE  Core' /\ task'.readable
<1> DEFINE n == Len(log) + 1
<1>1. /\ TaskType /\ OrderOf(task.phases) /\ StateInv /\ StreakInv /\ CauseInv
      /\ LogInv /\ Within /\ Len(log) \in Nat /\ n \in Nat
  BY LogDomain DEF Core, Facts
<1>2. Grown /\ Len(log') = n /\ log'[n] = e
  BY <1>1, AppendGrows
<1>3. /\ task' \in Tasks
      /\ task'.block = IF status = "blocked" THEN n ELSE task.block
      /\ task'.gate = task.gate /\ task'.streak = task.streak
      /\ task'.failed = task.failed /\ task'.readable
      /\ task'.state = task.state /\ task'.rejected = task.rejected
      /\ \A p \in Phase \ {Current(task)} : task'.phases[p] = task.phases[p]
      /\ task'.phases[Current(task)].status = status
      /\ task'.phases[Current(task)].attempt > 0
  BY <1>1, PhaseEffect
<1>4. /\ task.phases \in [Phase -> [status : Status, attempt : Nat]]
      /\ task'.phases \in [Phase -> [status : Status, attempt : Nat]]
      /\ status \in Status \ {"pending"}
  BY <1>1, <1>3 DEF TaskType, Tasks, Status
<1>5. /\ OrderOf(task'.phases)
      /\ status # "passed" => Current(task') = Current(task)
      /\ PhaseBlocked(task') <=> status = "blocked"
  <2>1. Sets(task, task', status)
    BY <1>1, <1>3, <1>4 DEF Sets
  <2>2. QED
    BY <1>4, <2>1, PhaseSet
<1>6. ~PhaseBlocked(task)
  BY <1>1, <1>4, CurrentIs
<1>7. /\ LogInv' /\ LastPhaseApproval' = LastPhaseApproval
      /\ Rejections' = Rejections /\ HypothesisBlock' = HypothesisBlock
      /\ n \in Events("phase")'
  BY <1>1, OtherKind
<1>8. StateInv' /\ StreakInv'
  BY <1>1, <1>3, <1>7 DEF StateInv, StreakInv
<1>9. NoCause
  BY <1>1, <1>6 DEF CauseInv
<1>10. CauseInv'
  <2>1. CASE status = "blocked"
    <3>1. Current(task)' = Current(task) /\ PhaseBlocked(task)'
      BY <1>5, <2>1
    <3>2. PhaseBlockEvent' = n
      BY <1>1, <1>2, <1>7, <2>1, <3>1, BlockEventIsLast
    <3>3. n > LastPhaseApproval
      BY <1>1, Found
    <3>4. ByEvent'
      BY <1>3, <1>7, <1>9, <2>1, <3>2, <3>3 DEF ByEvent, NoCause, Limit
    <3>5. QED
      BY <3>1, <3>4 DEF CauseInv
  <2>2. CASE status # "blocked"
    <3>1. ~PhaseBlocked(task)'
      BY <1>5, <2>2
    <3>2. NoCause'
      BY <1>3, <1>7, <1>9, <2>2 DEF NoCause, Limit
    <3>3. QED
      BY <3>1, <3>2 DEF CauseInv
  <2>3. QED
    BY <2>1, <2>2
<1>11. DecisionInv'
  BY <1>1, LastEventKind
<1>12. Within'
  BY <1>1, <1>2, <1>3 DEF Within
<1>13. TaskType'
  BY <1>3 DEF TaskType, Tasks
<1>14. QED
  BY <1>3, <1>5, <1>7, <1>8, <1>10, <1>11, <1>12, <1>13 DEF Core, Facts

LEMMA PhasesDecide ==
    ASSUME NEW t, NEW u, t.phases = u.phases
    PROVE  /\ Current(t) = Current(u) /\ CurrentStatus(t) = CurrentStatus(u)
           /\ PhaseBlocked(t) = PhaseBlocked(u)
<1>1. \A s : Having(t, s) = Having(u, s)
  BY DEF Having
<1>2. Current(t) = Current(u)
  BY <1>1 DEF Current
<1>3. QED
  BY <1>1, <1>2 DEF CurrentStatus, PhaseBlocked

\* u is t with another status of the current phase, which stays the current one.
Moved(t, u, s) ==
    /\ u \in Tasks
    /\ u.block = t.block /\ u.gate = t.gate /\ u.streak = t.streak
    /\ u.failed = t.failed /\ u.readable = t.readable
    /\ u.state = t.state /\ u.rejected = t.rejected
    /\ OrderOf(u.phases) /\ Current(u) = Current(t) /\ CurrentStatus(u) = s
    /\ PhaseBlocked(u) <=> s = "blocked"
    /\ \A p \in Phase \ {Current(t)} : u.phases[p] = t.phases[p]
    /\ u.phases[Current(t)].status = s /\ Current(t) \in Phase
    /\ t.phases[Current(t)].status = CurrentStatus(t)
    /\ \A p \in Phase : u.phases[p].attempt = t.phases[p].attempt

\* The current phase, once begun, gets another status.
LEMMA SetEffect ==
    ASSUME NEW t \in Tasks, OrderOf(t.phases), CurrentStatus(t) \in {"running", "blocked"},
           NEW s \in {"blocked", "failed"}
    PROVE  Moved(t, SetStatus(t, s), s)
<1> DEFINE u == SetStatus(t, s)
<1>1. t.phases \in [Phase -> [status : Status, attempt : Nat]] /\ s \in Status \ {"pending"}
  BY DEF Tasks, Status
<1>2. Current(t) \in Phase /\ Current(t) # 0 /\ t.phases[Current(t)].status = CurrentStatus(t)
  <2>1. CurrentStatus(t) # "none"
    OBVIOUS
  <2>2. /\ Current(t) \in Phase \cup {0} /\ Current(t) # 0
        /\ CurrentStatus(t) = t.phases[Current(t)].status
    BY <1>1, <2>1, CurrentIs
  <2>3. QED
    BY <2>2
<1>3. /\ u \in Tasks /\ u = [t EXCEPT !.phases = u.phases]
      /\ \A p \in Phase : u.phases[p] = IF p = Current(t) THEN [t.phases[p] EXCEPT !.status = s]
                                        ELSE t.phases[p]
  <2>1. s \in Status
    BY <1>1
  <2>2. /\ SetStatus(t, s) \in Tasks
        /\ SetStatus(t, s) = [t EXCEPT !.phases = SetStatus(t, s).phases]
        /\ \A p \in Phase : SetStatus(t, s).phases[p]
             = IF p = Current(t) THEN [t.phases[p] EXCEPT !.status = s] ELSE t.phases[p]
    BY <2>1, StatusSet
  <2>3. QED
    BY <2>2
<1> HIDE DEF u
<1>4. /\ u.block = t.block /\ u.gate = t.gate /\ u.streak = t.streak
      /\ u.failed = t.failed /\ u.readable = t.readable
      /\ u.state = t.state /\ u.rejected = t.rejected
  <2> DEFINE ph == u.phases
  <2>1. u = [t EXCEPT !.phases = ph]
    BY <1>3
  <2> HIDE DEF ph
  <2>2. QED
    BY <2>1 DEF Tasks
<1>5. u.phases \in [Phase -> [status : Status, attempt : Nat]]
  BY <1>3 DEF Tasks
<1>6. /\ u.phases[Current(t)].status = s
      /\ u.phases[Current(t)].attempt = t.phases[Current(t)].attempt
      /\ \A p \in Phase \ {Current(t)} : u.phases[p] = t.phases[p]
      /\ \A p \in Phase : u.phases[p].attempt = t.phases[p].attempt
  BY <1>1, <1>2, <1>3
<1>7. u.phases[Current(t)].attempt > 0
  BY <1>2, <1>6 DEF OrderOf
<1>8. /\ OrderOf(u.phases)
      /\ Current(u) = Current(t) /\ CurrentStatus(u) = s
      /\ PhaseBlocked(u) <=> s = "blocked"
  <2>1. s # "passed" /\ s \in Status \ {"pending"}
    BY <1>1
  <2>2. Sets(t, u, s)
    BY <1>1, <1>2, <1>5, <1>6, <1>7 DEF Sets
  <2>3. QED
    BY <2>1, <2>2, PhaseSet
<1>9. Moved(t, u, s)
  BY <1>2, <1>3, <1>4, <1>6, <1>8 DEF Moved
<1>10. QED
  BY <1>9 DEF u

LEMMA RefusalKeeps ==
    ASSUME Core, task' = Refuse(task), LogInv', Grown
    PROVE  Core'
<1>1. TaskType' /\ task'.streak = task.streak /\ task'.gate = task.gate
      /\ task'.block = task.block /\ ~task'.readable
  BY DEF Core, TaskType, Tasks, Refuse
<1>2. Within'
  BY <1>1, LogDomain DEF Within, Core, Grown
<1>3. QED
  BY <1>1, <1>2 DEF Core

LEMMA CheckKeeps ==
    ASSUME Core, task.readable, NEW e, e.type = "check",
           log' = Append(log, e), task' = Project(task, e, Len(log) + 1)
    PROVE  /\ Core'
           /\ CurrentStatus(task) = "running" =>
                task'.readable /\ \A p \in Phase \ {Current(task)} : task'.phases[p] = task.phases[p]
<1> DEFINE n == Len(log) + 1
           u == SetStatus(task, "blocked")
<1>1. /\ TaskType /\ OrderOf(task.phases) /\ StateInv /\ StreakInv /\ CauseInv
      /\ LogInv /\ Within /\ Len(log) \in Nat /\ n \in Nat
  BY LogDomain DEF Core, Facts
<1>2. Grown /\ Len(log') = n /\ log'[n] = e
  BY <1>1, AppendGrows
<1>3. /\ LogInv' /\ LastPhaseApproval' = LastPhaseApproval
      /\ Rejections' = Rejections /\ HypothesisBlock' = HypothesisBlock
      /\ n \in Events("check")'
  BY <1>1, OtherKind
<1>4. task' = ProjectCheck(task, e, n)
  BY DEF Project
<1>5. CASE CurrentStatus(task) # "running"
  <2>1. task' = Refuse(task)
    BY <1>4, <1>5 DEF ProjectCheck
  <2>2. QED
    BY <1>2, <1>3, <1>5, <2>1, RefusalKeeps
<1>6. CASE CurrentStatus(task) = "running"
  <2>1. task' = [u EXCEPT !.block = n]
    BY <1>4, <1>6 DEF ProjectCheck
  <2>2. task \in Tasks
    BY <1>1 DEF TaskType, Tasks
  <2>3. /\ u \in Tasks
        /\ u.gate = task.gate /\ u.streak = task.streak
        /\ u.failed = task.failed /\ u.readable = task.readable
        /\ u.state = task.state /\ u.rejected = task.rejected
        /\ OrderOf(u.phases) /\ Current(u) = Current(task) /\ PhaseBlocked(u)
        /\ \A p \in Phase \ {Current(task)} : u.phases[p] = task.phases[p]
        /\ \A p \in Phase : u.phases[p].attempt = task.phases[p].attempt
        /\ Current(task) \in Phase /\ task.phases[Current(task)].status = "running"
    BY <1>1, <1>6, <2>2, SetEffect DEF Moved
  <2> HIDE DEF u
  <2>4. /\ task' \in Tasks /\ task'.phases = u.phases /\ task'.block = n
        /\ task'.gate = u.gate /\ task'.streak = u.streak
        /\ task'.failed = u.failed /\ task'.readable = u.readable
        /\ task'.state = u.state /\ task'.rejected = u.rejected
    BY <1>1, <2>1, <2>3 DEF Tasks
  <2>5. Current(task)' = Current(task) /\ PhaseBlocked(task)'
    BY <2>3, <2>4, PhasesDecide
  <2>6. ~PhaseBlocked(task)
    BY <1>1, <1>6, CurrentIs DEF TaskType, Tasks
  <2>7. NoCause
    BY <1>1, <2>6 DEF CauseInv
  <2>8. StateInv' /\ StreakInv'
    <3>1. task.state # "verified"
      BY <1>1, <2>3 DEF StateInv
    <3>2. StateInv'
      BY <1>1, <2>3, <2>4, <3>1 DEF StateInv
    <3>3. StreakInv'
      BY <1>1, <1>3, <2>3, <2>4 DEF StreakInv
    <3>4. QED
      BY <3>2, <3>3
  <2>9. CauseInv'
    <3>1. PhaseBlockEvent' = n
      BY <1>1, <1>2, <1>3, BlockEventIsLast
    <3>2. n > LastPhaseApproval
      BY <1>1, Found
    <3>3. ByEvent'
      BY <1>3, <2>3, <2>4, <2>7, <3>1, <3>2 DEF ByEvent, NoCause, Limit
    <3>4. QED
      BY <2>5, <3>3 DEF CauseInv
  <2>10. DecisionInv'
    BY <1>1, LastEventKind
  <2>11. Within'
    BY <1>1, <1>2, <2>3, <2>4 DEF Within
  <2>12. TaskType'
    BY <2>4 DEF TaskType, Tasks
  <2>13. QED
    BY <1>3, <2>3, <2>4, <2>8, <2>9, <2>10, <2>11, <2>12 DEF Core, Facts
<1>7. QED
  BY <1>5, <1>6

\* The searches after a hypothesis find it among those that count.
LEMMA OneMoreHypothesis ==
    ASSUME LogInv, NEW e, e.type = "hypothesis", log' = Append(log, e),
           NEW n, n = Len(log) + 1, HypothesisBlock = 0
    PROVE  /\ LogInv' /\ Grown /\ Len(log') = n /\ n \in Nat
           /\ n \notin Rejections
           /\ Rejections' = IF e.status = "rejected" THEN Rejections \cup {n} ELSE Rejections
           /\ HypothesisBlock' = IF MaxFailed > 0 /\ e.failed >= MaxFailed THEN n ELSE 0
           /\ GateOf(n)' = 0
<1>1. /\ Grown /\ Len(log') = n /\ log'[n] = e /\ n \in Nat /\ Len(log) \in Nat
      /\ DOMAIN log' = 1..n /\ DOMAIN log = 1..Len(log)
  BY AppendGrows, LogDomain DEF Grown
<1>2. LogInv'
  BY <1>1, LogKept DEF Kind
<1>3. LastPhaseApproval' = LastPhaseApproval /\ LastPhaseApproval < n
  BY <1>1, ApprovalSame, Found
<1>4. \A i \in DOMAIN log' : (i \in DOMAIN log /\ log'[i] = log[i]) \/ i = n
  BY <1>1 DEF Grown
<1>5. Events("hypothesis")' = Events("hypothesis") \cup {n}
  BY <1>1, <1>4 DEF Events, Grown
<1>6. CurrentHypotheses' = CurrentHypotheses \cup {n}
  BY <1>1, <1>3, <1>5 DEF CurrentHypotheses
<1>7. n \notin CurrentHypotheses /\ n \notin Rejections
  BY <1>1, Found
<1>8. \A i \in CurrentHypotheses : log'[i] = log[i]
  BY <1>1, Found DEF Grown
<1>9. Rejections' = IF e.status = "rejected" THEN Rejections \cup {n} ELSE Rejections
  BY <1>1, <1>6, <1>8 DEF Rejections
<1>10. HypothesisBlock' = IF MaxFailed > 0 /\ e.failed >= MaxFailed THEN n ELSE 0
  <2>1. MaxFailed \in Nat
    BY BoundsAssumption
  <2>2. CASE MaxFailed < 1
    BY <2>1, <2>2 DEF HypothesisBlock
  <2>3. CASE MaxFailed >= 1
    <3> DEFINE S == {i \in CurrentHypotheses : log[i].failed >= MaxFailed}
               T == {i \in CurrentHypotheses' : log'[i].failed >= MaxFailed}
    <3>1. \A i \in S : i \in 1..Len(log)
      BY Found
    <3>2. S \in SUBSET (0..Len(log))
      BY <1>1, <3>1
    <3>3. LastOf(S) = 0
      BY <2>1, <2>3 DEF HypothesisBlock
    <3>4. \A i \in S : i <= 0
      <4> HIDE DEF S
      <4>1. QED
        BY <1>1, <3>2, <3>3, LastOfIs
    <3>5. S = {}
      BY <1>1, <3>1, <3>4
    <3>6. T = IF e.failed >= MaxFailed THEN {n} ELSE {}
      <4>1. \A i \in CurrentHypotheses : ~(log'[i].failed >= MaxFailed)
        BY <1>8, <3>5
      <4>2. \A i \in T : i = n /\ e.failed >= MaxFailed
        BY <1>1, <1>6, <4>1
      <4>3. e.failed >= MaxFailed => n \in T
        BY <1>1, <1>6
      <4> HIDE DEF S, T
      <4>4. QED
        BY <4>2, <4>3
    <3>7. HypothesisBlock' = LastOf(T)
      <4>1. ~(MaxFailed < 1)
        BY <2>1, <2>3
      <4>2. HypothesisBlock' = LastOf({i \in CurrentHypotheses : log[i].failed >= MaxFailed})'
        BY <4>1 DEF HypothesisBlock
      <4>3. QED
        BY <4>2
    <3> HIDE DEF S, T
    <3>8. CASE e.failed >= MaxFailed
      <4>1. T \in SUBSET (0..n) /\ n \in T /\ \A i \in T : i <= n
        BY <1>1, <3>6, <3>8
      <4>2. LastOf(T) = n
        BY <1>1, <4>1, OnlyLast
      <4>3. QED
        BY <2>1, <2>3, <3>7, <3>8, <4>2
    <3>9. CASE ~(e.failed >= MaxFailed)
      BY <3>6, <3>7, <3>9, NoLast
    <3>10. QED
      BY <3>8, <3>9
  <2>4. QED
    BY <2>1, <2>2, <2>3
<1>11. GateOf(n)' = 0
  <2>1. {i \in Events("gate") : log[i].of = n}' = {}
    <3>1. ASSUME NEW i \in DOMAIN log', log'[i].type = "gate", log'[i].of = n
          PROVE  FALSE
      BY <1>1, <1>2, <3>1 DEF LogInv
    <3>2. QED
      BY <3>1 DEF Events
  <2>2. QED
    BY <2>1, NoLast DEF GateOf
<1>12. QED
  BY <1>1, <1>2, <1>7, <1>9, <1>10, <1>11

LEMMA HypothesisKeeps ==
    ASSUME Core, task.readable, CurrentStatus(task) = "running", task.state = "executing",
           NEW status \in {"supported", "rejected"},
           NEW e, e.type = "hypothesis", e.status = status, e.failed = FailedWith(status),
           log' = Append(log, e), task' = Project(task, e, Len(log) + 1)
    PROVE  /\ Core' /\ task'.readable
           /\ \A p \in Phase \ {Current(task)} : task'.phases[p] = task.phases[p]
<1>0. PICK n : n = Len(log) + 1
  OBVIOUS
<1> DEFINE k == task.failed + (IF status = "rejected" THEN 1 ELSE 0)
           st == IF status = "rejected" THEN task.streak \cup {n} ELSE task.streak
           t == [task EXCEPT !.failed = k, !.streak = st]
<1>1. /\ TaskType /\ OrderOf(task.phases) /\ StateInv /\ StreakInv /\ CauseInv
      /\ LogInv /\ Within /\ Len(log) \in Nat /\ n \in Nat
  BY <1>0, LogDomain DEF Core, Facts
<1>2. ~PhaseBlocked(task) /\ Current(task) \in Phase
  BY <1>1, CurrentIs DEF TaskType, Tasks
<1>3. NoCause
  BY <1>1, <1>2 DEF CauseInv
<1>4. /\ LogInv' /\ Grown /\ Len(log') = n
      /\ n \notin task.streak
      /\ Rejections' = st
      /\ HypothesisBlock' = IF MaxFailed > 0 /\ e.failed >= MaxFailed THEN n ELSE 0
      /\ GateOf(n)' = 0
  <2>1. HypothesisBlock = 0 /\ task.streak = Rejections
    BY <1>1, <1>3 DEF NoCause, StreakInv
  <2>2. /\ LogInv' /\ Grown /\ Len(log') = n
        /\ n \notin Rejections
        /\ Rejections' = IF e.status = "rejected" THEN Rejections \cup {n} ELSE Rejections
        /\ HypothesisBlock' = IF MaxFailed > 0 /\ e.failed >= MaxFailed THEN n ELSE 0
        /\ GateOf(n)' = 0
    BY <1>0, <1>1, <2>1, OneMoreHypothesis
  <2>3. QED
    BY <2>1, <2>2
<1>5. e.failed = k /\ k \in Nat
  BY <1>1 DEF StreakInv, FailedWith, TaskType, Tasks
<1>6. st \in SUBSET Nat /\ Cardinality(st) = k
  <2>1. task.streak \in SUBSET Nat /\ IsFiniteSet(task.streak)
        /\ task.failed = Cardinality(task.streak) /\ task.failed \in Nat
    BY <1>1, Found DEF StreakInv, TaskType, Tasks
  <2>2. status = "rejected" => Cardinality(task.streak \cup {n}) = Cardinality(task.streak) + 1
    BY <1>4, <2>1, FS_AddElement
  <2>3. QED
    BY <1>1, <2>1, <2>2
<1>7. MaxFailed \in Nat /\ (MaxFailed > 0 => task.failed < MaxFailed)
  BY <1>1, <1>3, BoundsAssumption DEF NoCause, Limit, StreakInv, TaskType, Tasks
<1> HIDE DEF k, st
<1>8. /\ t \in Tasks /\ task \in Tasks /\ t.phases = task.phases /\ t.failed = k /\ t.streak = st
      /\ t.block = task.block /\ t.gate = task.gate /\ t.readable = task.readable
      /\ t.state = task.state /\ t.rejected = task.rejected
  BY <1>1, <1>5, <1>6 DEF TaskType, Tasks
<1>9. Current(t) = Current(task) /\ CurrentStatus(t) = "running" /\ ~PhaseBlocked(t)
  BY <1>2, <1>8, PhasesDecide
<1>10. task' = IF MaxFailed > 0 /\ k >= MaxFailed THEN SetStatus(t, "blocked") ELSE t
  <2>1. task' = ProjectHypothesis(task, e, n)
    BY <1>0 DEF Project
  <2>2. TakesOperation(task, e)
    BY <1>2 DEF TakesOperation, Terminal
  <2>3. (IF e.status = "rejected"
         THEN [task EXCEPT !.failed = @ + 1, !.streak = @ \cup {n}] ELSE task) = t
    <3>1. CASE status = "rejected"
      BY <3>1 DEF k, st
    <3>2. CASE status # "rejected"
      <4>1. k = task.failed /\ st = task.streak
        BY <1>1, <3>2 DEF k, st, TaskType, Tasks
      <4>2. t = task
        BY <1>1, <4>1 DEF TaskType, Tasks
      <4>3. QED
        BY <3>2, <4>2
    <3>3. QED
      BY <3>1, <3>2
  <2> HIDE DEF t
  <2>4. QED
    BY <1>5, <1>8, <2>1, <2>2, <2>3 DEF ProjectHypothesis
<1> HIDE DEF t
<1>11. DecisionInv'
  BY <1>1, LastEventKind
<1>12. CASE MaxFailed > 0 /\ k >= MaxFailed
  <2>1. status = "rejected" /\ k = MaxFailed
    BY <1>1, <1>7, <1>12 DEF k, TaskType, Tasks
  <2>2. Moved(t, task', "blocked")
    <3>1. task' = SetStatus(t, "blocked") /\ OrderOf(t.phases)
      BY <1>1, <1>8, <1>10, <1>12
    <3>2. QED
      BY <1>8, <1>9, <3>1, SetEffect
  <2>3. StateInv' /\ StreakInv'
    BY <1>4, <1>6, <1>8, <2>2 DEF StateInv, StreakInv, Moved
  <2>4. HypothesisBlock' = n /\ n \in st
    BY <1>4, <1>5, <1>12, <2>1 DEF st
  <2>5. GateOf(HypothesisBlock)' = 0
    BY <1>4, <2>4 DEF GateOf
  <2>6. AtLimit'
    BY <1>3, <1>6, <1>8, <1>12, <2>1, <2>2, <2>4, <2>5 DEF AtLimit, NoCause, Moved
  <2>7. CauseInv'
    BY <2>2, <2>6 DEF CauseInv, Moved
  <2>8. TaskType' /\ Within'
    <3>1. TaskType'
      BY <2>2 DEF Moved, TaskType, Tasks
    <3>2. /\ task'.streak \subseteq task.streak \cup {n}
          /\ task'.gate = task.gate /\ task'.block = task.block
      BY <1>8, <2>2 DEF Moved, st
    <3>3. Within'
      BY <1>0, <1>1, <1>4, <3>2 DEF Within
    <3>4. QED
      BY <3>1, <3>3
  <2>9. /\ OrderOf(task'.phases) /\ task'.readable
        /\ \A p \in Phase \ {Current(task)} : task'.phases[p] = task.phases[p]
    <3>1. OrderOf(task'.phases) /\ task'.readable
      BY <1>8, <2>2 DEF Moved
    <3>2. \A p \in Phase \ {Current(t)} : task'.phases[p] = t.phases[p]
      BY <2>2 DEF Moved
    <3>3. QED
      BY <1>8, <1>9, <3>1, <3>2
  <2>10. Facts'
    BY <1>11, <2>3, <2>7, <2>9 DEF Facts
  <2>11. QED
    BY <1>4, <2>8, <2>9, <2>10 DEF Core
<1>13. CASE ~(MaxFailed > 0 /\ k >= MaxFailed)
  <2>1. task' = t
    BY <1>10, <1>13
  <2>2. StateInv' /\ StreakInv' /\ OrderOf(task'.phases)
    BY <1>1, <1>4, <1>6, <1>8, <2>1 DEF StateInv, StreakInv
  <2>3. HypothesisBlock' = 0
    BY <1>4, <1>5, <1>13
  <2>4. NoCause'
    BY <1>3, <1>6, <1>8, <1>13, <2>1, <2>3 DEF NoCause, Limit
  <2>5. CauseInv'
    BY <1>9, <2>1, <2>4 DEF CauseInv
  <2>6. TaskType' /\ Within'
    <3>1. TaskType'
      BY <1>8, <2>1 DEF TaskType, Tasks
    <3>2. /\ task'.streak \subseteq task.streak \cup {n}
          /\ task'.gate = task.gate /\ task'.block = task.block
      BY <1>8, <2>1 DEF st
    <3>3. Within'
      BY <1>0, <1>1, <1>4, <3>2 DEF Within
    <3>4. QED
      BY <3>1, <3>3
  <2>7. QED
    BY <1>4, <1>8, <1>11, <2>1, <2>2, <2>5, <2>6 DEF Core, Facts
<1>14. QED
  BY <1>12, <1>13

LEMMA GateKeeps ==
    ASSUME Core, task.readable, CurrentStatus(task) = "blocked",
           HypothesisBlock # 0, GateOf(HypothesisBlock) = 0,
           NEW e, e.type = "gate", e.of = HypothesisBlock,
           log' = Append(log, e), task' = Project(task, e, Len(log) + 1)
    PROVE  Core' /\ task'.readable /\ task'.phases = task.phases
<1>0. PICK n : n = Len(log) + 1
  OBVIOUS
<1>1. /\ TaskType /\ OrderOf(task.phases) /\ StateInv /\ StreakInv /\ CauseInv
      /\ LogInv /\ Within /\ Len(log) \in Nat /\ n \in Nat
  BY <1>0, LogDomain DEF Core, Facts
<1>2. PhaseBlocked(task)
  BY <1>1, CurrentIs DEF TaskType, Tasks
<1>3. AtLimit /\ task.gate = 0
  BY <1>1, <1>2 DEF CauseInv, AtLimit, ByEvent
<1>4. Grown /\ Len(log') = n /\ log'[n] = e /\ DOMAIN log' = 1..n
  BY <1>0, <1>1, AppendGrows DEF Grown
<1>5. HypothesisBlock \in 1..(n - 1)
  BY <1>0, <1>1, Found
<1>6. LogInv'
  BY <1>0, <1>1, <1>4, <1>5, LogKept DEF Kind
<1>7. LastPhaseApproval' = LastPhaseApproval
  BY <1>0, <1>1, <1>4, ApprovalSame
<1>8. Rejections' = Rejections /\ HypothesisBlock' = HypothesisBlock
  <2>1. Events("hypothesis")' = Events("hypothesis")
    BY <1>0, <1>1, <1>4, EventsSame
  <2>2. QED
    BY <1>1, <1>4, <1>7, <2>1, StreakSame
<1>9. GateOf(HypothesisBlock)' = n
  <2> DEFINE S == {i \in Events("gate")' : log'[i].of = HypothesisBlock'}
  <2>1. n \in S
    BY <1>1, <1>0, <1>4, <1>8 DEF Events
  <2>2. S \in SUBSET (0..n) /\ \A i \in S : i <= n
    BY <1>0, <1>1, <1>4 DEF Events
  <2>3. GateOf(HypothesisBlock)' = LastOf(S)
    BY DEF GateOf
  <2> HIDE DEF S
  <2>4. QED
    BY <1>1, <2>1, <2>2, <2>3, OnlyLast
<1>10. task' = [task EXCEPT !.gate = n]
  <2>1. task' = ProjectGate(task, e, n)
    BY <1>0 DEF Project
  <2>2. e.of \in task.streak /\ Cardinality(task.streak) >= MaxFailed
    BY <1>3, BoundsAssumption DEF AtLimit
  <2>3. QED
    BY <1>3, <2>1, <2>2 DEF ProjectGate
<1>11. /\ TaskType' /\ task'.gate = n /\ task'.phases = task.phases
       /\ task'.streak = task.streak /\ task'.block = task.block
       /\ task'.failed = task.failed /\ task'.readable = task.readable
       /\ task'.state = task.state /\ task'.rejected = task.rejected
  BY <1>1, <1>10 DEF TaskType, Tasks
<1>12. PhaseBlocked(task)' /\ OrderOf(task'.phases)
  BY <1>1, <1>2, <1>11, PhasesDecide
<1>13. StateInv' /\ StreakInv'
  BY <1>1, <1>8, <1>11 DEF StateInv, StreakInv
<1>14. AtLimit'
  BY <1>0, <1>1, <1>3, <1>8, <1>9, <1>11 DEF AtLimit
<1>15. CauseInv'
  BY <1>12, <1>14 DEF CauseInv
<1>16. DecisionInv'
  BY <1>1, LastEventKind
<1>17. Within'
  BY <1>0, <1>1, <1>4, <1>11 DEF Within
<1>18. Facts'
  BY <1>12, <1>13, <1>15, <1>16 DEF Facts
<1>19. QED
  BY <1>6, <1>11, <1>17, <1>18 DEF Core

\* An approval that lifts a block is accepted when it cites what caused it.
Lifts(e) ==
    /\ TakesOperation(task, e) /\ e.stage = "phase" /\ e.approved
    /\ task.state = "blocked" /\ CurrentStatus(task) = "blocked"
    /\ e.refs # {} /\ e.refs = RequiredRefs(task)

LEMMA LiftKeeps ==
    ASSUME Core, task.readable, NEW e, e.type = "approve", Lifts(e),
           log' = Append(log, e), task' = Unblock(task)
    PROVE  /\ Core' /\ task'.readable
           /\ \A p \in Phase \ {Current(task)} : task'.phases[p] = task.phases[p]
           /\ task'.phases[Current(task)].status = "failed"
<1> DEFINE u == SetStatus(task, "failed")
<1>0. PICK n : n = Len(log) + 1
  OBVIOUS
<1>1. /\ TaskType /\ OrderOf(task.phases) /\ StateInv
      /\ LogInv /\ Within /\ Len(log) \in Nat /\ n \in Nat
  BY <1>0, LogDomain DEF Core, Facts
<1>2. Moved(task, u, "failed") /\ task \in Tasks
  BY <1>1, SetEffect DEF Lifts, TaskType, Tasks
<1>3. task' = [u EXCEPT !.failed = 0, !.streak = {}, !.gate = 0, !.block = 0]
  BY DEF Unblock
<1> HIDE DEF u
<1>4. /\ task' \in Tasks /\ task'.phases = u.phases
      /\ task'.failed = 0 /\ task'.streak = {} /\ task'.gate = 0 /\ task'.block = 0
      /\ task'.readable = u.readable /\ task'.state = u.state /\ task'.rejected = u.rejected
  <2>1. u \in Tasks
    BY <1>2 DEF Moved
  <2> DEFINE v == [u EXCEPT !.failed = 0, !.streak = {}]
  <2>2. v \in Tasks /\ task' = [v EXCEPT !.gate = 0, !.block = 0]
    BY <1>3, <2>1 DEF Tasks
  <2>3. /\ v.phases = u.phases /\ v.failed = 0 /\ v.streak = {}
        /\ v.readable = u.readable /\ v.state = u.state /\ v.rejected = u.rejected
    BY <2>1 DEF Tasks
  <2> HIDE DEF v
  <2>4. QED
    BY <2>2, <2>3 DEF Tasks
<1>5. /\ OrderOf(task'.phases) /\ ~PhaseBlocked(task)'
      /\ task'.readable /\ task'.state = "blocked"
  <2>1. OrderOf(u.phases) /\ ~PhaseBlocked(u) /\ u.readable = task.readable
        /\ u.state = task.state
    BY <1>2 DEF Moved
  <2>2. PhaseBlocked(task)' = PhaseBlocked(u)
    BY <1>4, PhasesDecide
  <2>3. QED
    BY <1>4, <2>1, <2>2 DEF Lifts
<1>6. Grown /\ Len(log') = n /\ log'[n] = e /\ DOMAIN log' = 1..n
  BY <1>0, <1>1, AppendGrows DEF Grown
<1>7. LogInv'
  BY <1>0, <1>1, <1>6, LogKept DEF Kind
<1>8. LastPhaseApproval' = n
  <2> DEFINE S == {i \in Events("approve")' : log'[i].stage = "phase" /\ log'[i].approved}
  <2>1. n \in S
    BY <1>0, <1>1, <1>6 DEF Events, Lifts
  <2>2. S \in SUBSET (0..n) /\ \A i \in S : i <= n
    BY <1>0, <1>1, <1>6 DEF Events
  <2>3. LastPhaseApproval' = LastOf(S)
    BY DEF LastPhaseApproval
  <2> HIDE DEF S
  <2>4. QED
    BY <1>1, <2>1, <2>2, <2>3, OnlyLast
<1>9. CurrentHypotheses' = {}
  BY <1>1, <1>6, <1>8 DEF CurrentHypotheses, Events
<1>10. Rejections' = {} /\ HypothesisBlock' = 0
  <2>1. {i \in CurrentHypotheses : log[i].failed >= MaxFailed}' = {}
    BY <1>9
  <2>2. HypothesisBlock' = 0
    BY <2>1, NoLast DEF HypothesisBlock
  <2>3. QED
    BY <1>9, <2>2 DEF Rejections
<1>11. Cardinality({}) = 0
  BY FS_EmptySet
<1>12. StateInv' /\ StreakInv'
  BY <1>4, <1>5, <1>10, <1>11 DEF StateInv, StreakInv
<1>13. CauseInv'
  <2>1. ~Limit'
    BY <1>4, <1>11, BoundsAssumption DEF Limit
  <2>2. NoCause'
    BY <1>4, <1>10, <2>1 DEF NoCause
  <2>3. QED
    BY <1>5, <2>2 DEF CauseInv
<1>14. DecisionInv'
  BY <1>1, LastEventKind
<1>15. Within'
  BY <1>0, <1>1, <1>4, <1>6 DEF Within
<1>16. TaskType'
  BY <1>4 DEF TaskType, Tasks
<1>17. Facts'
  BY <1>5, <1>12, <1>13, <1>14 DEF Facts
<1>18. Core'
  BY <1>7, <1>15, <1>16, <1>17 DEF Core
<1>19. /\ \A p \in Phase \ {Current(task)} : task'.phases[p] = task.phases[p]
       /\ task'.phases[Current(task)].status = "failed"
  <2>1. task'.phases = u.phases
    BY <1>4
  <2>2. QED
    BY <1>2, <2>1 DEF Moved
<1>20. QED
  BY <1>5, <1>18, <1>19

LEMMA ApprovalKeeps ==
    ASSUME Core, task.readable, NEW e, e.type = "approve",
           log' = Append(log, e), task' = Project(task, e, Len(log) + 1)
    PROVE  /\ Core'
           /\ task'.phases # task.phases => Lifts(e) /\ task' = Unblock(task)
           /\ ~task'.readable =>
                \/ ~TakesOperation(task, e)
                \/ /\ e.stage = "phase"
                   /\ \/ task.state # "blocked" \/ CurrentStatus(task) # "blocked"
                      \/ e.refs = {} \/ e.refs # RequiredRefs(task)
<1>1. /\ TaskType /\ LogInv /\ Len(log) \in Nat
  BY LogDomain DEF Core
<1>2. Grown /\ Len(log') = Len(log) + 1 /\ log'[Len(log) + 1] = e
  BY <1>1, AppendGrows
<1>3. LogInv'
  BY <1>1, <1>2, LogKept DEF Kind
<1>4. task' = ProjectApproval(task, e)
  BY DEF Project
<1> DEFINE refused == \/ ~TakesOperation(task, e)
                      \/ /\ e.stage = "phase"
                         /\ \/ task.state # "blocked" \/ CurrentStatus(task) # "blocked"
                            \/ e.refs = {} \/ e.refs # RequiredRefs(task)
<1>5. CASE refused
  <2>1. task' = Refuse(task)
    BY <1>4, <1>5 DEF ProjectApproval
  <2>2. task'.phases = task.phases
    BY <1>1, <2>1 DEF Refuse, TaskType, Tasks
  <2>3. QED
    BY <1>2, <1>3, <1>5, <2>1, <2>2, RefusalKeeps
<1>6. CASE ~refused /\ e.stage = "phase" /\ e.approved
  <2>1. Lifts(e) /\ task' = Unblock(task)
    BY <1>4, <1>6 DEF ProjectApproval, Lifts
  <2>2. QED
    BY <2>1, LiftKeeps
<1>7. CASE ~refused /\ ~(e.stage = "phase" /\ e.approved)
  <2>1. task' = task
    BY <1>4, <1>7 DEF ProjectApproval
  <2>2. task' = [task EXCEPT !.state = task.state, !.rejected = task.rejected,
                             !.readable = TRUE]
    BY <1>1, <2>1 DEF TaskType, Tasks
  <2>3. \A i \in (Len(log) + 1)..Len(log') : Quiet(log'[i])
    BY <1>1, <1>2, <1>7 DEF Quiet
  <2>4. DecisionInv'
    BY <1>1, LastEventKind
  <2>5. task.state \in DOMAIN Edges /\ task.rejected \in BOOLEAN
    BY <1>1 DEF TaskType, Tasks
  <2>6. /\ task.state = "rejected" => task.rejected
        /\ task.state = "verified" => \A p \in Phase : task.phases[p].status = "passed"
        /\ task.state = "blocked" /\ PhaseBlocked(task) /\ AtLimit => task.gate # 0
    BY DEF Core, Facts, StateInv, AtLimit
  <2>7. Core'
    BY <1>2, <2>2, <2>3, <2>4, <2>5, <2>6, QuietKeeps
  <2>8. QED
    BY <2>1, <2>7
<1>8. QED
  BY <1>5, <1>6, <1>7

-----------------------------------------------------------------------------
(* What the invariant says of a state.                                     *)

LEMMA TypesFollow == IInv => TypeOK
<1> SUFFICES ASSUME IInv PROVE TypeOK
  OBVIOUS
<1>1. DOMAIN log = 1..Len(log) /\ Len(log) \in Nat
  BY LogDomain DEF IInv, Core
<1>2. \A e \in {log[i] : i \in DOMAIN log} : e.type \in Kind
  BY DEF IInv, Core, LogInv
<1>3. task.state \in DOMAIN Edges /\ task.phases \in [Phase -> [status : Status, attempt : Nat]]
  BY DEF IInv, Core, TaskType, Tasks
<1>4. /\ task.streak \subseteq DOMAIN log
      /\ {task.gate, task.block} \subseteq (DOMAIN log) \cup {0}
  BY <1>1 DEF IInv, Core, Within
<1>5. QED
  BY <1>2, <1>3, <1>4 DEF IInv, TypeOK, Kind

LEMMA CitedFollows ==
    ASSUME Core, task.readable, task.state = "blocked", PhaseBlocked(task)
    PROVE  ApprovalEvidence # {} /\ ApprovalEvidence = RequiredRefs(task)
<1>1. StreakInv /\ (AtLimit \/ ByEvent) /\ LogInv
  BY DEF Core, Facts, CauseInv
<1>2. CASE AtLimit
  <2>1. HypothesisBlock # 0 /\ GateOf(HypothesisBlock) = task.gate /\ task.gate # 0
    BY <1>1, <1>2, Found DEF AtLimit, StreakInv
  <2>2. ApprovalEvidence = Rejections \cup {task.gate}
    BY <2>1 DEF ApprovalEvidence
  <2>3. RequiredRefs(task) = task.streak \cup {task.gate}
    BY <2>1 DEF RequiredRefs
  <2>4. QED
    BY <1>1, <2>2, <2>3 DEF StreakInv
<1>3. CASE ByEvent
  <2>1. HypothesisBlock = 0 /\ task.gate = 0 /\ PhaseBlockEvent = task.block
    BY <1>3 DEF ByEvent
  <2>2. task.block # 0
    BY <1>1, <1>3, EventsAre, LogDomain DEF ByEvent
  <2>3. ApprovalEvidence = {task.block}
    BY <2>1, <2>2 DEF ApprovalEvidence
  <2>4. RequiredRefs(task) = {task.block}
    BY <2>1, <2>2 DEF RequiredRefs
  <2>5. QED
    BY <2>3, <2>4
<1>4. QED
  BY <1>1, <1>2, <1>3

\* What a session that is open says of the task.
LEMMA SessionIs ==
    ASSUME Core, task.readable
    PROVE  /\ Session \in {"planned", "approved", "executing"} =>
                task.state = Session /\ ~PhaseBlocked(task) /\ ~task.rejected
           /\ Session \notin Terminal => task.state \notin Terminal
           /\ Session = "blocked" => PhaseBlocked(task) \/ task.state = "blocked"
           /\ PhaseBlocked(task) => task.state \in {"executing", "blocked", "rejected"}
           /\ Current(task) = 0 => \A p \in Phase : task.phases[p].status = "passed"
           /\ CurrentStatus(task) # "none" => Current(task) \in Phase /\ Current(task) # 0
           /\ PhaseBlocked(task) <=> CurrentStatus(task) = "blocked"
           /\ PhaseBlocked(task) => task.phases[Current(task)].status = "blocked"
<1>1. /\ TaskType /\ OrderOf(task.phases) /\ StateInv
  BY DEF Core, Facts
<1>2. /\ Current(task) \in Phase \cup {0}
      /\ Current(task) = 0 <=> \A p \in Phase : task.phases[p].status = "passed"
      /\ Current(task) = 0 <=> CurrentStatus(task) = "none"
      /\ Current(task) # 0 => CurrentStatus(task) = task.phases[Current(task)].status
      /\ PhaseBlocked(task) <=> CurrentStatus(task) = "blocked"
  BY <1>1, CurrentIs DEF TaskType, Tasks
<1>3. PhaseBlocked(task) =>
         /\ task.state \in {"executing", "blocked", "rejected"}
         /\ Current(task) \in Phase /\ task.phases[Current(task)].status = "blocked"
  <2>1. ASSUME PhaseBlocked(task)
        PROVE  Current(task) \in Phase /\ task.phases[Current(task)].status = "blocked"
    BY <1>2, <2>1
  <2>2. ASSUME PhaseBlocked(task)
        PROVE  task.state \in {"executing", "blocked", "rejected"}
    <3>1. task.state # "verified"
      BY <1>1, <2>1, <2>2 DEF StateInv
    <3>2. task.phases[Current(task)].attempt > 0
      BY <1>1, <2>1, <2>2 DEF OrderOf
    <3>3. task.state \notin {"planned", "approved"}
      BY <1>1, <2>1, <2>2, <3>2 DEF StateInv
    <3>4. QED
      BY <1>1, <3>1, <3>3 DEF TaskType, Tasks, Edges
  <2>3. QED
    BY <2>1, <2>2
<1>4. Session \in {"planned", "approved", "executing"} =>
         task.state = Session /\ ~PhaseBlocked(task) /\ ~task.rejected
  BY DEF Session
<1>5. Session \notin Terminal => task.state \notin Terminal
  <2>1. CASE task.rejected
    BY <2>1 DEF Session, Terminal
  <2>2. CASE ~task.rejected /\ PhaseBlocked(task)
    BY <1>1, <1>3, <2>2 DEF StateInv, Terminal
  <2>3. CASE ~task.rejected /\ ~PhaseBlocked(task)
    BY <2>3 DEF Session
  <2>4. QED
    BY <2>1, <2>2, <2>3
<1>6. Session = "blocked" => PhaseBlocked(task) \/ task.state = "blocked"
  BY DEF Session
<1>7. CurrentStatus(task) # "none" => Current(task) \in Phase /\ Current(task) # 0
  BY <1>2
<1>8. QED
  BY <1>2, <1>3, <1>4, <1>5, <1>6, <1>7

LEMMA CoreUnchanged ==
    ASSUME Core, UNCHANGED <<log, task>>
    PROVE  Core'
<1>1. \A type : Events(type)' = Events(type)
  BY DEF Events
<1>2. LastPhaseApproval' = LastPhaseApproval
  BY <1>1 DEF LastPhaseApproval
<1>3. Rejections' = Rejections /\ HypothesisBlock' = HypothesisBlock
  BY <1>1, <1>2 DEF CurrentHypotheses, Rejections, HypothesisBlock
<1>4. GateOf(HypothesisBlock)' = GateOf(HypothesisBlock)
  BY <1>1, <1>3 DEF GateOf
<1>5. PhaseBlockEvent' = PhaseBlockEvent /\ PhaseBlocked(task)' = PhaseBlocked(task)
      /\ RequiredRefs(task)' = RequiredRefs(task)
  BY <1>1 DEF PhaseBlockEvent
<1>6. LogInv' /\ TaskType' /\ Within'
  BY DEF Core, LogInv, TaskType, Tasks, Within
<1>7. Facts => Facts'
  <2>1. CauseInv => CauseInv'
    BY <1>1, <1>2, <1>3, <1>4, <1>5 DEF CauseInv, AtLimit, ByEvent, NoCause, Limit
  <2>2. StreakInv => StreakInv'
    BY <1>3 DEF StreakInv
  <2>3. DecisionInv => DecisionInv'
    BY <1>5 DEF DecisionInv
  <2>4. StateInv => StateInv'
    BY DEF StateInv
  <2>5. QED
    BY <2>1, <2>2, <2>3, <2>4 DEF Facts
<1>8. QED
  BY <1>6, <1>7 DEF Core

-----------------------------------------------------------------------------
(* The steps.                                                              *)

\* The three ways in which an event becomes unreadable.
Late(e) ==
    \/ e.type = "check" /\ AllPassed
    \/ e.type = "transition" /\ e.from = "blocked" /\ PhaseBlocked(task)
         /\ task.state = "executing"
    \/ e.type = "approve" /\ (e.of < Len(log) \/ (PhaseBlocked(task) /\ e.stage # "phase"))

\* What a step does to the task: when a phase is blocked, nothing but an
\* approval that cites what blocked it.
Does ==
    /\ Core'
    /\ \/ task'.phases = task.phases
       \/ ~PhaseBlocked(task)
       \/ \E e : /\ task.readable /\ e.type = "approve" /\ Lifts(e)
                /\ log' = Append(log, e) /\ task' = Unblock(task)
    /\ task.readable /\ ~task'.readable => Late(log'[Len(log')])

Window == [worked : BOOLEAN, fresh : BOOLEAN,
           votes : SUBSET Verifier, citable : BOOLEAN, current : BOOLEAN]

\* And what it does besides.
Besides ==
    /\ begun' \in {"none", "contract", "started"} /\ window' \in Window
    /\ window' = window \/ ~PhaseBlocked(task)

LEMMA Still ==
    ASSUME Core, UNCHANGED <<log, task>>
    PROVE  Does
BY CoreUnchanged DEF Does

LEMMA Read ==
    ASSUME Core', task'.readable, task'.phases = task.phases \/ ~PhaseBlocked(task)
    PROVE  Does
BY DEF Does

LEMMA TransitionDoes ==
    ASSUME Core, task.readable, NEW from, NEW to, Append1(Transition(from, to)),
           from # task.state =>
             from = "blocked" /\ PhaseBlocked(task) /\ task.state = "executing",
           from = task.state =>
              /\ to \in Edges[from] /\ to # "rejected"
              /\ to = "verified" => \A p \in Phase : task.phases[p].status = "passed"
              /\ to = "blocked" /\ PhaseBlocked(task) /\ AtLimit => task.gate # 0
    PROVE  Does
<1>1. /\ Core' /\ task'.phases = task.phases
      /\ ~task'.readable => from # task.state
  BY TransitionKeeps DEF Append1
<1>2. log'[Len(log')] = Transition(from, to)
  BY AppendGrows DEF Core, Append1
<1>3. ~task'.readable => Late(log'[Len(log')])
  BY <1>1, <1>2 DEF Late, Transition
<1>4. QED
  BY <1>1, <1>3 DEF Does

LEMMA BeginDoes ==
    ASSUME IInv, Begin
    PROVE  Does /\ Besides
<1>1. UNCHANGED <<log, task, window>> /\ begun' \in {"none", "contract", "started"}
  BY DEF Begin, CreateContract, StartTask
<1>2. QED
  BY <1>1, Still DEF IInv, Besides, Window

LEMMA ExecuteDoes ==
    ASSUME IInv, Execute
    PROVE  Does /\ Besides
<1>1. /\ Core /\ begun \in {"none", "contract", "started"} /\ window \in Window
  BY DEF IInv, Window
<1>2. CASE PassPlanGate
  <2>1. task.readable /\ Session = "planned" /\ Append1(Transition("planned", "approved"))
    BY <1>2 DEF PassPlanGate, MayStart, Call
  <2>2. task.state = "planned"
    BY <1>1, <2>1, SessionIs
  <2>3. Does
    BY <1>1, <2>1, <2>2, TransitionDoes DEF Edges
  <2>4. QED
    BY <1>1, <1>2, <2>3 DEF PassPlanGate, Besides
<1>3. CASE BeginExecuting
  <2>1. task.readable /\ Session = "approved" /\ Append1(Transition("approved", "executing"))
    BY <1>3 DEF BeginExecuting, MayStart, Call
  <2>2. task.state = "approved"
    BY <1>1, <2>1, SessionIs
  <2>3. Does
    BY <1>1, <2>1, <2>2, TransitionDoes DEF Edges
  <2>4. QED
    BY <1>1, <1>3, <2>3 DEF BeginExecuting, Besides
<1>4. CASE StartPhase
  <2>1. /\ task.readable /\ Session = "executing"
        /\ CurrentStatus(task) \in {"pending", "failed"}
    BY <1>4 DEF StartPhase, MayStart, Call
  <2>2. task.state = "executing" /\ ~PhaseBlocked(task) /\ Current(task) # 0
    BY <1>1, <2>1, SessionIs
  <2>3. PICK e : /\ e.type = "phase" /\ e.phase = Current(task) /\ e.status = "running"
                 /\ e.from = CurrentStatus(task) /\ Append1(e)
    BY <1>4 DEF StartPhase
  <2>4. Core' /\ task'.readable
    BY <1>1, <2>1, <2>2, <2>3, PhaseKeeps DEF Append1
  <2>5. window' \in Window /\ begun' = begun
    BY <1>1, <1>4 DEF StartPhase, NewWindow, Window
  <2>6. QED
    BY <1>1, <2>2, <2>4, <2>5, Read DEF Besides
<1>5. ASSUME NEW status \in {"passed", "failed", "blocked"}, FinishPhase(status)
      PROVE  Does /\ Besides
  <2>1. task.readable /\ Session = "executing" /\ CurrentStatus(task) = "running"
    BY <1>5 DEF FinishPhase, MayWork, Running, Call
  <2>2. task.state = "executing" /\ ~PhaseBlocked(task) /\ Current(task) # 0
    BY <1>1, <2>1, SessionIs
  <2>3. PICK e : /\ e.type = "phase" /\ e.phase = Current(task) /\ e.status = status
                 /\ e.from = CurrentStatus(task) /\ Append1(e)
    BY <1>5, <2>1 DEF FinishPhase
  <2>4. Core' /\ task'.readable
    BY <1>1, <2>1, <2>2, <2>3, PhaseKeeps DEF Append1
  <2>5. QED
    BY <1>1, <1>5, <2>2, <2>4, Read DEF Besides, FinishPhase
<1>6. ASSUME NEW status \in {"supported", "rejected"}, ProposeHypothesis(status)
      PROVE  Does /\ Besides
  <2>1. task.readable /\ Session = "executing" /\ CurrentStatus(task) = "running"
    BY <1>6 DEF ProposeHypothesis, MayWork, Running, Call
  <2>2. task.state = "executing" /\ ~PhaseBlocked(task)
    BY <1>1, <2>1, SessionIs
  <2>3. PICK e : /\ e.type = "hypothesis" /\ e.status = status
                 /\ e.failed = FailedWith(status) /\ Append1(e)
    BY <1>6 DEF ProposeHypothesis
  <2>4. Core' /\ task'.readable
    BY <1>1, <2>1, <2>2, <2>3, HypothesisKeeps DEF Append1
  <2>5. QED
    BY <1>1, <1>6, <2>2, <2>4, Read DEF Besides, ProposeHypothesis
<1>7. CASE Work
  <2>1. task.readable /\ Session = "executing" /\ UNCHANGED <<begun, log, task>>
    BY <1>7 DEF Work, MayWork, Call
  <2>2. window' \in Window
    BY <1>7 DEF Work, Window
  <2>3. ~PhaseBlocked(task)
    BY <1>1, <2>1, SessionIs
  <2>4. QED
    BY <1>1, <2>1, <2>2, <2>3, Still DEF Besides
<1>8. ASSUME NEW status \in {"pass", "fail", "timeout", "unsafe"}, Verify(status)
      PROVE  Does /\ Besides
  <2>1. /\ task.readable /\ Session = "executing" /\ begun' = begun
        /\ CurrentStatus(task) = "running" \/ AllPassed
    BY <1>8 DEF Verify, MayCheck, Running, Call
  <2>2. ~PhaseBlocked(task)
    BY <1>1, <2>1, SessionIs
  <2>3. window' \in Window
    BY <1>1, <1>8 DEF Verify, Window
  <2>4. CASE UNCHANGED <<log, task>>
    BY <1>1, <2>1, <2>2, <2>3, <2>4, Still DEF Besides
  <2>5. CASE Append1([type |-> "check"])
    <3>1. PICK e : e.type = "check" /\ Append1(e)
      BY <2>5
    <3>2. Core' /\ (CurrentStatus(task) = "running" => task'.readable)
      BY <1>1, <2>1, <3>1, CheckKeeps DEF Append1
    <3>3. log'[Len(log')].type = "check"
      BY <1>1, <3>1, AppendGrows DEF Core, Append1
    <3>4. Does
      BY <2>1, <2>2, <3>2, <3>3 DEF Does, Late
    <3>5. QED
      BY <1>1, <2>1, <2>2, <2>3, <3>4 DEF Besides
  <2>6. QED
    BY <1>8, <2>4, <2>5 DEF Verify
<1>9. ASSUME NEW v \in Verifier, CastVerdict(v)
      PROVE  Does /\ Besides
  <2>1. task.readable /\ Session = "executing" /\ UNCHANGED <<begun, log, task>>
    BY <1>9 DEF CastVerdict, MayCheck, Call
  <2>2. window' \in Window
    BY <1>1, <1>9 DEF CastVerdict, Window
  <2>3. ~PhaseBlocked(task)
    BY <1>1, <2>1, SessionIs
  <2>4. QED
    BY <1>1, <2>1, <2>2, <2>3, Still DEF Besides
<1>10. CASE Complete
  <2>1. /\ task.readable /\ Session = "executing" /\ Current(task) = 0
        /\ Append1(Transition("executing", "verified"))
    BY <1>10 DEF Complete, Call, AllPassed
  <2>2. task.state = "executing" /\ \A p \in Phase : task.phases[p].status = "passed"
    BY <1>1, <2>1, SessionIs
  <2>3. Does
    BY <1>1, <2>1, <2>2, TransitionDoes DEF Edges
  <2>4. QED
    BY <1>1, <1>10, <2>3 DEF Complete, Besides
<1>11. QED
  BY <1>2, <1>3, <1>4, <1>5, <1>6, <1>7, <1>8, <1>9, <1>10 DEF Execute

LEMMA ReconcileDoes ==
    ASSUME IInv, Reconcile
    PROVE  Does /\ Besides
<1>1. /\ Core /\ begun \in {"none", "contract", "started"} /\ window \in Window
  BY DEF IInv, Window
<1>2. ASSUME NEW i, EscalateHypotheses(i)
      PROVE  Does /\ Besides
  <2>1. /\ task.readable /\ CurrentStatus(task) = "blocked" /\ i = HypothesisBlock
        /\ GateOf(HypothesisBlock) = 0 /\ UNCHANGED <<begun, window>>
        /\ Append1([type |-> "gate", of |-> i]) /\ i \in DOMAIN log
    BY <1>2 DEF EscalateHypotheses, MayReconcile, IsCause, Repeatable, Events, Call
  <2>2. HypothesisBlock # 0
    BY <1>1, <2>1, LogDomain DEF Core
  <2>3. PICK e : e.type = "gate" /\ e.of = HypothesisBlock /\ Append1(e)
    BY <2>1
  <2>4. Core' /\ task'.readable /\ task'.phases = task.phases
    BY <1>1, <2>1, <2>2, <2>3, GateKeeps DEF Append1
  <2>5. QED
    BY <1>1, <2>1, <2>4, Read DEF Besides
<1>3. ASSUME NEW i, BlockPhase(i)
      PROVE  Does /\ Besides
  <2>1. /\ task.readable /\ i = Cause /\ (i = HypothesisBlock => GateOf(i) # 0)
        /\ task.state = "executing" /\ UNCHANGED <<begun, window>>
        /\ Append1(Transition("executing", "blocked"))
    BY <1>3 DEF BlockPhase, MayReconcile, IsCause, Call
  <2>2. AtLimit => task.gate # 0
    <3>1. ASSUME AtLimit
          PROVE  HypothesisBlock # 0 /\ task.gate = GateOf(HypothesisBlock)
      BY <1>1, <2>1, <3>1, Found DEF Core, Facts, StreakInv, AtLimit
    <3>2. QED
      BY <2>1, <3>1 DEF Cause
  <2>3. Does
    BY <1>1, <2>1, <2>2, TransitionDoes DEF Edges
  <2>4. QED
    BY <1>1, <2>1, <2>3 DEF Besides
<1>4. QED
  BY <1>2, <1>3 DEF Reconcile

LEMMA DecideDoes ==
    ASSUME Core, task.readable, NEW stage, NEW approved \in BOOLEAN, NEW refs,
           Append1(Decision(stage, approved, refs)),
           (stage \in {"plan", "final"} => approved) => Decidable(stage, refs)
    PROVE  Does
<1>1. Core' /\ task'.readable /\ task'.phases = task.phases
  BY DecisionKeeps DEF Append1
<1>2. QED
  BY <1>1, Read

\* A decision that nothing has followed is recorded as it was made.
LEMMA RecordDoes ==
    ASSUME IInv, NEW d \in DOMAIN log, RecordApproval(d)
    PROVE  Does
<1>1. Core /\ task.readable /\ LogInv
  BY DEF IInv, Core, RecordApproval, Call
<1>2. PICK e : /\ e.type = "approve" /\ e.stage = log[d].stage /\ e.of = d
               /\ e.approved = log[d].approved /\ e.refs = log[d].refs /\ Append1(e)
  BY DEF RecordApproval
<1> DEFINE refused == \/ ~TakesOperation(task, e)
                      \/ /\ e.stage = "phase"
                         /\ \/ task.state # "blocked" \/ CurrentStatus(task) # "blocked"
                            \/ e.refs = {} \/ e.refs # RequiredRefs(task)
<1>3. /\ Core'
      /\ task'.phases # task.phases => Lifts(e) /\ task' = Unblock(task)
      /\ ~task'.readable => refused
  BY <1>1, <1>2, ApprovalKeeps DEF Append1
<1>4. log'[Len(log')] = e
  BY <1>1, <1>2, AppendGrows DEF Append1
<1>5. ASSUME refused, ~(d < Len(log))
      PROVE  PhaseBlocked(task) /\ e.stage # "phase"
  <2>1. d = Len(log)
    BY <1>1, <1>5, LogDomain
  <2>2. /\ log[d].type = "decision"
        /\ log[d].stage \in {"plan", "final"} => log[d].approved
    BY DEF RecordApproval, Unrecorded, Events
  <2>3. /\ task.state \notin Terminal
        /\ log[d].stage = "phase" =>
             /\ task.state = "blocked" /\ PhaseBlocked(task)
             /\ log[d].refs # {} /\ log[d].refs = RequiredRefs(task)
    BY <1>1, <2>1, <2>2 DEF Core, Facts, DecisionInv
  <2>4. PhaseBlocked(task) <=> CurrentStatus(task) = "blocked"
    BY <1>1, SessionIs
  <2>5. QED
    BY <1>2, <1>5, <2>3, <2>4 DEF TakesOperation
<1>6. ~task'.readable => Late(log'[Len(log')])
  BY <1>2, <1>3, <1>4, <1>5 DEF Late
<1>7. \/ task'.phases = task.phases
      \/ /\ task.readable /\ e.type = "approve" /\ Lifts(e)
         /\ log' = Append(log, e) /\ task' = Unblock(task)
  BY <1>1, <1>2, <1>3 DEF Append1
<1>8. QED
  BY <1>3, <1>6, <1>7 DEF Does

LEMMA RejectDoes ==
    ASSUME IInv, NEW stage \in {"plan", "final"}, Reject(stage)
    PROVE  Does
<1>1. Core /\ task.readable /\ LogInv
  BY DEF IInv, Core, Reject, CallAside, Call
<1>2. Session \in {"planned", "executing", "blocked"}
  BY DEF Reject
<1>3. CASE Append1(Decision(stage, FALSE, {}))
  BY <1>1, <1>3, DecideDoes
<1>4. CASE Append2(Decision(stage, FALSE, {}), Transition(Session, "rejected"))
  <2>1. PICK from : from = Session
    OBVIOUS
  <2>2. /\ Core' /\ task'.phases = task.phases
        /\ ~task'.readable => from # task.state \/ "rejected" \notin Edges[from]
    BY <1>1, <1>4, <2>1, RejectionKeeps DEF Append2
  <2>3. "rejected" \in Edges[from]
    BY <1>2, <2>1 DEF Edges
  <2>4. log'[Len(log')] = Transition(from, "rejected")
    BY <1>1, <1>4, <2>1, TwoGrow DEF Append2
  <2>5. from # task.state =>
          from = "blocked" /\ PhaseBlocked(task) /\ task.state = "executing"
    <3>1. ASSUME from # task.state
          PROVE  from = "blocked" /\ PhaseBlocked(task)
      BY <1>1, <1>2, <2>1, <3>1, SessionIs
    <3>2. ASSUME from # task.state
          PROVE  task.state = "executing"
      <4>1. task.state \notin Terminal /\ task.state \in {"executing", "blocked", "rejected"}
        BY <1>1, <1>2, <2>1, <3>1, <3>2, SessionIs DEF Terminal
      <4>2. QED
        BY <2>1, <3>1, <3>2, <4>1 DEF Terminal
    <3>3. QED
      BY <3>1, <3>2
  <2>6. ~task'.readable => Late(log'[Len(log')])
    BY <2>2, <2>3, <2>4, <2>5 DEF Late, Transition
  <2>7. QED
    BY <2>2, <2>6 DEF Does
<1>5. QED
  BY <1>3, <1>4 DEF Reject

LEMMA ApproveDoes ==
    ASSUME IInv, Approve
    PROVE  Does /\ Besides
<1>1. /\ Core /\ begun \in {"none", "contract", "started"} /\ window \in Window
  BY DEF IInv, Window
<1>2. UNCHANGED <<begun, window>> /\ task.readable
  BY DEF Approve, DecidePhase, MayDecidePhase, DecideFinal, DecideKind, RecordApproval,
         RestartPhase, ReopenFinal, Reject, CallAside, Call
<1>3. Besides
  BY <1>1, <1>2 DEF Besides
<1>4. ASSUME NEW approved \in BOOLEAN, DecidePhase(approved)
      PROVE  Does
  <2>1. /\ task.state = "blocked" /\ CurrentStatus(task) = "blocked"
        /\ ApprovalEvidence # {} /\ Append1(Decision("phase", approved, ApprovalEvidence))
    BY <1>4 DEF DecidePhase, MayDecidePhase
  <2>2. PhaseBlocked(task)
    BY <1>1, <1>2, <2>1, SessionIs
  <2>3. ApprovalEvidence = RequiredRefs(task)
    BY <1>1, <1>2, <2>1, <2>2, CitedFollows
  <2>4. PICK refs : refs = ApprovalEvidence
    OBVIOUS
  <2>5. Decidable("phase", refs)
    BY <2>1, <2>2, <2>3, <2>4 DEF Decidable, Terminal
  <2>6. QED
    BY <1>1, <1>2, <2>1, <2>4, <2>5, DecideDoes
<1>5. ASSUME DecideFinal \/ DecideKind
      PROVE  Does
  <2>1. Session \notin Terminal
    BY <1>5 DEF DecideFinal, DecideKind, Terminal
  <2>2. task.state \notin Terminal
    BY <1>1, <1>2, <2>1, SessionIs
  <2>3. PICK stage \in {"final", "kind"} : Append1(Decision(stage, TRUE, {}))
    BY <1>5 DEF DecideFinal, DecideKind
  <2>4. Decidable(stage, {})
    BY <2>2, <2>3 DEF Decidable
  <2>5. QED
    BY <1>1, <1>2, <2>3, <2>4, DecideDoes
<1>6. ASSUME NEW i \in Events("approve"), RestartPhase(i) \/ ReopenFinal(i)
      PROVE  Does
  <2>1. Session = "blocked" /\ Append1(Transition("blocked", "executing"))
    BY <1>6 DEF RestartPhase, ReopenFinal
  <2>2. task.state # "blocked" => PhaseBlocked(task) /\ task.state = "executing"
    <3>1. task.state # "blocked" => PhaseBlocked(task)
      BY <1>1, <1>2, <2>1, SessionIs
    <3>2. task.state \notin Terminal
      BY <1>1, <1>2, <2>1, SessionIs DEF Terminal
    <3>3. PhaseBlocked(task) => task.state \in {"executing", "blocked", "rejected"}
      BY <1>1, <1>2, SessionIs
    <3>4. QED
      BY <3>1, <3>2, <3>3 DEF Terminal
  <2>3. QED
    BY <1>1, <1>2, <2>1, <2>2, TransitionDoes DEF Edges
<1>7. ASSUME NEW d \in Unrecorded, RecordApproval(d)
      PROVE  Does
  <2>1. d \in DOMAIN log
    BY <1>7 DEF Unrecorded, Events
  <2>2. QED
    BY <1>7, <2>1, RecordDoes
<1>8. QED
  BY <1>3, <1>4, <1>5, <1>6, <1>7, RejectDoes DEF Approve

-----------------------------------------------------------------------------
(* The theorems.                                                           *)

LEMMA Initially == Init => IInv
<1> SUFFICES ASSUME Init PROVE IInv
  OBVIOUS
<1>1. log = <<>> /\ task = NewTask /\ Len(log) = 0 /\ DOMAIN log = {}
  BY DEF Init
<1>2. LogInv
  BY <1>1 DEF LogInv
<1>3. /\ task \in Tasks /\ task.state = "planned" /\ ~task.rejected /\ task.readable
      /\ \A p \in Phase : task.phases[p] = [status |-> "pending", attempt |-> 0]
      /\ task.failed = 0 /\ task.streak = {} /\ task.gate = 0 /\ task.block = 0
  BY <1>1 DEF NewTask, Tasks, Edges, Status
<1>4. \A type : Events(type) = {}
  BY <1>1 DEF Events
<1>5. Rejections = {} /\ HypothesisBlock = 0
  <2>1. CurrentHypotheses = {}
    BY <1>4 DEF CurrentHypotheses
  <2>2. QED
    BY <2>1, NoLast DEF Rejections, HypothesisBlock
<1>6. ~PhaseBlocked(task) /\ OrderOf(task.phases)
  BY <1>3 DEF PhaseBlocked, Having, OrderOf
<1>7. Cardinality({}) = 0
  BY FS_EmptySet
<1>8. StateInv /\ StreakInv /\ DecisionInv /\ CauseInv
  BY <1>1, <1>3, <1>5, <1>6, <1>7, BoundsAssumption
     DEF StateInv, StreakInv, DecisionInv, CauseInv, NoCause, Limit
<1>9. TaskType /\ Within
  BY <1>1, <1>3 DEF TaskType, Tasks, Within
<1>10. window \in Window /\ begun = "none"
  BY DEF Init, NewWindow, Window
<1>11. QED
  BY <1>2, <1>6, <1>8, <1>9, <1>10 DEF IInv, Core, Facts, Window

LEMMA Steps ==
    ASSUME IInv, Next
    PROVE  Does /\ Besides
BY BeginDoes, ExecuteDoes, ReconcileDoes, ApproveDoes DEF Next

\* In every state handlers and projection agree on what a phase has behind it
\* (phase_finish, hypothesis, approve and the fold of get).
THEOREM Inductive == Spec => []IInv
<1>1. IInv /\ [Next]_vars => IInv'
  <2>1. ASSUME IInv, Next
        PROVE  IInv'
    BY <2>1, Steps DEF IInv, Does, Besides, Window
  <2>2. ASSUME IInv, UNCHANGED vars
        PROVE  IInv'
    BY <2>2, CoreUnchanged DEF IInv, vars
  <2>3. QED
    BY <2>1, <2>2
<1>2. QED
  BY Initially, <1>1, PTL DEF Spec

\* The variables have their types.
THEOREM Types == Spec => []TypeOK
BY Inductive, TypesFollow, PTL

\* What the session tells the approver to cite is what the projection asks of
\* the approval, for every plan and limit.
THEOREM CitesWhatIsRequired == Spec => []CitedIsRequired
<1>1. IInv => CitedIsRequired
  BY CitedFollows DEF IInv, CitedIsRequired
<1>2. QED
  BY Inductive, <1>1, PTL

\* A block that died before its transition has a call that completes it.
THEOREM Recovers == Spec => []InterruptedBlockRecovers
<1>1. IInv => InterruptedBlockRecovers
  <2> SUFFICES ASSUME IInv, task.readable, PhaseBlocked(task)
               PROVE  Repeatable(Cause)
    BY DEF InterruptedBlockRecovers
  <2>1. StreakInv /\ (AtLimit \/ ByEvent) /\ LogInv
    BY DEF IInv, Core, Facts, CauseInv
  <2>2. CASE AtLimit
    <3>1. HypothesisBlock \in Rejections /\ HypothesisBlock # 0
      BY <2>1, <2>2, Found DEF AtLimit, StreakInv
    <3>2. HypothesisBlock \in Events("hypothesis")
      BY <3>1 DEF Rejections, CurrentHypotheses
    <3>3. QED
      BY <3>1, <3>2 DEF Repeatable, Cause
  <2>3. CASE ByEvent
    <3>1. /\ HypothesisBlock = 0 /\ task.block = PhaseBlockEvent
          /\ task.block \in Events("phase") \cup Events("check")
      BY <2>3 DEF ByEvent
    <3>2. QED
      BY <3>1 DEF Repeatable, Cause
  <2>4. QED
    BY <2>1, <2>2, <2>3
<1>2. QED
  BY Inductive, <1>1, PTL

\* The rejections that count never exceed the limit, and no phase runs at it.
THEOREM Bounded == Spec => []StreakBounded
<1>1. IInv => StreakBounded
  <2> SUFFICES ASSUME IInv, task.readable, MaxFailed > 0
               PROVE  /\ Cardinality(Rejections) <= MaxFailed
                      /\ Running => Cardinality(Rejections) < MaxFailed
    BY DEF StreakBounded
  <2>1. StreakInv /\ CauseInv /\ LogInv /\ TaskType /\ Core
    BY DEF IInv, Core, Facts
  <2>2. task.streak = Rejections /\ Cardinality(Rejections) \in Nat /\ MaxFailed \in Nat
    BY <2>1, BoundsAssumption DEF StreakInv, TaskType, Tasks
  <2>3. ~Limit \/ (PhaseBlocked(task) /\ Cardinality(Rejections) = MaxFailed)
    BY <2>1, <2>2 DEF CauseInv, AtLimit, ByEvent, NoCause
  <2>4. ~Limit => Cardinality(Rejections) < MaxFailed
    BY <2>2 DEF Limit
  <2>5. Running => ~PhaseBlocked(task)
    BY <2>1, SessionIs DEF Running
  <2>6. QED
    BY <2>2, <2>3, <2>4, <2>5
<1>2. QED
  BY Inductive, <1>1, PTL

\* A verified task has passed every phase, and phases are begun in order.
THEOREM InOrder == Spec => []PhasesInOrder
<1>1. IInv => PhasesInOrder
  <2> SUFFICES ASSUME IInv, task.readable PROVE PhasesInOrder
    BY DEF PhasesInOrder
  <2>1. StateInv /\ OrderOf(task.phases)
    BY DEF IInv, Core, Facts
  <2>2. task.state = "verified" => Having(task, "passed") = Phase
    BY <2>1 DEF StateInv, Having
  <2>3. ASSUME NEW p \in Phase, task.phases[p].attempt > 0, NEW q \in 1..(p - 1)
        PROVE  task.phases[q].status = "passed"
    <3>1. q \in Phase /\ q < p
      BY <2>3, PlanAssumption DEF Phase
    <3>2. QED
      BY <2>1, <2>3, <3>1 DEF OrderOf
  <2>4. QED
    BY <2>2, <2>3 DEF PhasesInOrder
<1>2. QED
  BY Inductive, <1>1, PTL

\* While a phase is blocked nothing else moves: the one step that does is an
\* approval, and it takes that phase to failed.
THEOREM StandsStill == Spec => BlockedPhaseStandsStill
<1>1. ASSUME IInv, Next, PhaseBlocked(task)
      PROVE  /\ window' = window
             /\ \A p \in Phase : task'.phases[p] # task.phases[p] =>
                  task.phases[p].status = "blocked" /\ task'.phases[p].status = "failed"
  <2>1. Does /\ Besides
    BY <1>1, Steps
  <2>2. CASE task'.phases = task.phases
    BY <1>1, <2>1, <2>2 DEF Besides
  <2>3. ASSUME NEW e, task.readable, e.type = "approve", Lifts(e), log' = Append(log, e), task' = Unblock(task)
        PROVE  \A p \in Phase : task'.phases[p] # task.phases[p] =>
                 task.phases[p].status = "blocked" /\ task'.phases[p].status = "failed"
    <3>1. /\ \A q \in Phase \ {Current(task)} : task'.phases[q] = task.phases[q]
          /\ task'.phases[Current(task)].status = "failed"
      BY <1>1, <2>3, LiftKeeps DEF IInv
    <3>2. task.phases[Current(task)].status = "blocked"
      BY <1>1, <2>3, SessionIs DEF IInv
    <3>3. QED
      BY <3>1, <3>2
  <2>4. QED
    BY <1>1, <2>1, <2>2, <2>3 DEF Does, Besides
<1>2. IInv /\ [Next]_vars =>
        [PhaseBlocked(task) =>
           /\ window' = window
           /\ \A p \in Phase : task'.phases[p] # task.phases[p] =>
                task.phases[p].status = "blocked" /\ task'.phases[p].status = "failed"]_vars
  BY <1>1
<1>3. QED
  BY Inductive, <1>2, PTL DEF Spec, BlockedPhaseStandsStill

\* An approval that lifts a block cites what caused it, and nothing older than
\* the approval before it.
LEMMA CitesItsOwn ==
    ASSUME Core, task.readable, task.state = "blocked", PhaseBlocked(task)
    PROVE  /\ Cause \in RequiredRefs(task)
           /\ \A i \in Events("approve") :
                log[i].stage = "phase" /\ log[i].approved =>
                  \A r \in RequiredRefs(task) : r > i
<1>1. StreakInv /\ (AtLimit \/ ByEvent) /\ LogInv /\ Len(log) \in Nat
  BY LogDomain DEF Core, Facts, CauseInv
<1>2. ASSUME NEW i \in Events("approve"), log[i].stage = "phase" /\ log[i].approved
      PROVE  i <= LastPhaseApproval /\ i \in Nat
  <2> DEFINE S == {j \in Events("approve") : log[j].stage = "phase" /\ log[j].approved}
  <2>1. S \in SUBSET (0..Len(log)) /\ i \in S
    BY <1>1, <1>2, EventsAre
  <2>2. LastPhaseApproval = LastOf(S)
    BY DEF LastPhaseApproval
  <2> HIDE DEF S
  <2>3. i <= LastOf(S) /\ i \in 0..Len(log)
    BY <1>1, <2>1, LastOfIs
  <2>4. QED
    BY <1>1, <2>2, <2>3
<1>3. LastPhaseApproval \in Nat
  BY <1>1, Found
<1>4. CASE AtLimit
  <2>1. /\ HypothesisBlock \in task.streak /\ task.gate = GateOf(HypothesisBlock)
        /\ task.gate # 0 /\ task.streak = Rejections
    BY <1>1, <1>4 DEF AtLimit, StreakInv
  <2>2. HypothesisBlock # 0 /\ \A r \in task.streak : r > LastPhaseApproval /\ r \in Nat
    BY <1>1, <2>1, Found DEF Rejections, CurrentHypotheses
  <2>3. RequiredRefs(task) = task.streak \cup {task.gate} /\ Cause = HypothesisBlock
    BY <2>1, <2>2 DEF RequiredRefs, Cause
  <2>4. task.gate > HypothesisBlock /\ task.gate \in Nat
    <3> DEFINE S == {j \in Events("gate") : log[j].of = HypothesisBlock}
    <3>1. S \in SUBSET (0..Len(log))
      BY <1>1, EventsAre
    <3>2. GateOf(HypothesisBlock) = LastOf(S)
      BY DEF GateOf
    <3>3. \A j \in S : log[j].of \in 1..(j - 1) /\ log[j].of = HypothesisBlock /\ j \in Nat
      BY <1>1, EventsAre, LogDomain DEF LogInv, Events
    <3> HIDE DEF S
    <3>4. task.gate \in S
      BY <1>1, <2>1, <3>1, <3>2, LastOfIs
    <3>5. QED
      BY <3>3, <3>4
  <2>5. task.gate > LastPhaseApproval
    BY <1>3, <2>1, <2>2, <2>4
  <2>6. \A r \in RequiredRefs(task) : r > LastPhaseApproval /\ r \in Nat
    BY <2>2, <2>3, <2>4, <2>5
  <2>7. QED
    BY <1>2, <1>3, <2>1, <2>3, <2>6
<1>5. CASE ByEvent
  <2>1. /\ HypothesisBlock = 0 /\ task.gate = 0 /\ PhaseBlockEvent = task.block
        /\ task.block > LastPhaseApproval /\ task.block \in Nat
    BY <1>1, <1>5, EventsAre, LogDomain DEF ByEvent
  <2>2. RequiredRefs(task) = {task.block} /\ Cause = task.block
    BY <1>3, <2>1 DEF RequiredRefs, Cause
  <2>3. QED
    BY <1>2, <1>3, <2>1, <2>2
<1>6. QED
  BY <1>1, <1>4, <1>5

\* A phase leaves blocked only by an approval of this very block.
THEOREM LiftsItsOwn == Spec => ApprovalLiftsItsOwnBlock
<1>1. ASSUME IInv, Next, NEW p \in Phase,
             task.phases[p].status = "blocked", task'.phases[p].status # "blocked"
      PROVE  LET e == log'[Len(log')]
             IN  /\ e.type = "approve" /\ e.stage = "phase" /\ e.approved
                 /\ Cause \in e.refs
                 /\ \A i \in Events("approve") :
                      log[i].stage = "phase" /\ log[i].approved =>
                        \A r \in e.refs : r > i
  <2>1. Does
    BY <1>1, Steps
  <2>2. PhaseBlocked(task)
    BY <1>1 DEF PhaseBlocked, Having
  <2>3. PICK e : /\ task.readable /\ e.type = "approve" /\ Lifts(e)
                 /\ log' = Append(log, e) /\ task' = Unblock(task)
    BY <1>1, <2>1, <2>2 DEF Does
  <2>4. log'[Len(log')] = e
    BY <1>1, <2>3, AppendGrows DEF IInv, Core
  <2>5. /\ e.stage = "phase" /\ e.approved /\ task.state = "blocked"
        /\ e.refs = RequiredRefs(task)
    BY <2>3 DEF Lifts
  <2>6. QED
    BY <1>1, <2>2, <2>3, <2>4, <2>5, CitesItsOwn DEF IInv
<1>2. IInv /\ [Next]_vars =>
        [\A p \in Phase :
           /\ task.phases[p].status = "blocked"
           /\ task'.phases[p].status # "blocked"
           => LET e == log'[Len(log')]
              IN  /\ e.type = "approve" /\ e.stage = "phase" /\ e.approved
                  /\ Cause \in e.refs
                  /\ \A i \in Events("approve") :
                       log[i].stage = "phase" /\ log[i].approved =>
                         \A r \in e.refs : r > i]_vars
  BY <1>1
<1>3. QED
  BY Inductive, <1>2, PTL DEF Spec, ApprovalLiftsItsOwnBlock

\* Events become unreadable only in the three ways that are about people.
THEOREM LateBreaks == Spec => OnlyLateAnswersBreak
<1>1. ASSUME IInv, Next, task.readable, ~task'.readable
      PROVE  LET e == log'[Len(log')]
             IN  \/ e.type = "check" /\ AllPassed
                 \/ /\ e.type = "transition" /\ e.from = "blocked"
                    /\ PhaseBlocked(task) /\ task.state = "executing"
                 \/ /\ e.type = "approve"
                    /\ e.of < Len(log) \/ (PhaseBlocked(task) /\ e.stage # "phase")
  BY <1>1, Steps DEF Does, Late
<1>2. QED
  BY Inductive, <1>1, PTL DEF Spec, OnlyLateAnswersBreak

=============================================================================
