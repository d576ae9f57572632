------------------------------ MODULE Learning ------------------------------
(***************************************************************************)
(* What outlives a task: TaskLifecycle.reflect with the memory it writes,  *)
(* and the skill operations of mcp_server.py.  Each of them writes several *)
(* files and rows under the execution lock, the process may die between    *)
(* any two writes, and a later call with the same request goes on.  Memory *)
(* has locks of its own, so it can be revoked and swept at any time.       *)
(*                                                                         *)
(* A task's events are a sequence (trail), in place of its ledger; what    *)
(* happens before the task ends is one step.  The execution lock is held   *)
(* exactly while job is not Idle.                                          *)
(***************************************************************************)
EXTENDS TypedMemory, SkillStore, FiniteSetsExt

CONSTANTS
    Task,       \* tasks of the lifecycle
    Goal,       \* contracts that the engine binds
    Course(_),  \* how a task or run may go: the causes of its failures, in
                \* order, and how it ends; of a task, whether it was checked
    Options(_), \* of a reflection: the failures' time to live, 0 for none
    Approver,
    MaxDeaths   \* bound: how often a process dies

\* A task's id is made of its project and key, a contract's is drawn at random.
ASSUME IdAssumption == Task \cap Goal = {}

ASSUME DeathsAssumption == MaxDeaths \in Nat

\* The events of a task are a sequence, and so are the causes of its failures.
IsLog(log) == log \in Seq(Range(log))

ASSUME CausesAssumption ==
    \A t \in Task \cup Goal : \A course \in Course(t) : IsLog(course.causes)

VARIABLES
    trail,      \* the events of every task and contract
    job,        \* the operation that holds the execution lock
    deaths

learningVars == <<memory, day, gone, candidates, promoted, trail, job, deaths>>

Idle == [op |-> "none"]

LearningInit ==
    /\ MemoryInit /\ SkillInit
    /\ trail = [t \in Task \cup Goal |-> <<>>]
    /\ job = Idle
    /\ deaths = 0

Log(t, e) == trail' = [trail EXCEPT ![t] = Append(@, e)]
EventsOf(t, type) == {i \in DOMAIN trail[t] : trail[t][i].type = type}

-----------------------------------------------------------------------------
(* A task and its end.                                                     *)

Fails(causes) == [k \in DOMAIN causes |-> [type |-> "fail", cause |-> causes[k], day |-> day]]

Verified(t) == \E i \in EventsOf(t, "transition") : trail[t][i].state = "verified"

\* Rejected from the decision on, which is durable before the transition is.
Terminal(t) == EventsOf(t, "transition") \cup EventsOf(t, "decision") # {}

\* _verification_evidence: the places of what the task's checks recorded last.
Evidence(t) == {<<t, i>> : i \in EventsOf(t, "check")}

\* A rejection whose process died has its decision and never a transition: the
\* repeated call finds the task rejected and returns.
End(t, course) ==
    /\ trail[t] = <<>>
    /\ trail' = [trail EXCEPT ![t] =
         Fails(course.causes)
         \o (IF course.checked THEN <<[type |-> "check"]>> ELSE <<>>)
         \o <<IF course.last = "decision" THEN [type |-> "decision"]
              ELSE [type |-> "transition", state |-> course.last]>>]
    /\ UNCHANGED <<memory, day, gone, candidates, promoted, job, deaths>>

-----------------------------------------------------------------------------
(* reflect.                                                                *)

Intent(t) == CHOOSE i \in EventsOf(t, "intent") : TRUE
Reflected(t) == EventsOf(t, "reflected") # {}

\* The last transition or, when there is none, the decision.
Source(t) == Max(IF EventsOf(t, "transition") # {} THEN EventsOf(t, "transition")
                 ELSE EventsOf(t, "decision"))

\* Options of an earlier call, done or not, must come back unchanged; the
\* skill of a verified task is then distilled again.
BeginReflect(t, options) ==
    /\ job = Idle /\ Terminal(t)
    /\ IF EventsOf(t, "intent") = {}
       THEN Log(t, [type |-> "intent", options |-> options, created |-> day,
                    source |-> Source(t)])
       ELSE trail[t][Intent(t)].options = options /\ UNCHANGED trail
    /\ Reflected(t) => Verified(t)
    /\ job' = [op |-> "reflect", task |-> t, k |-> 0,
               at |-> IF Reflected(t) THEN "distill" ELSE "write"]
    /\ UNCHANGED <<memory, day, gone, candidates, promoted, deaths>>

\* Mutant: the entry is dated by the call that writes it.
RetrospectiveNow(t) ==
    LET i == trail[t][Intent(t)]
    IN  [id |-> <<t, "retrospective", i.source>>, created |-> day, ttl |-> 0, source |-> i.source]

\* reflect_on_contract: the id and the content come from the intent and from
\* the events up to its source alone.
Retrospective(t) ==
    LET i == trail[t][Intent(t)]
    IN  [id |-> <<t, "retrospective", i.source>>, created |-> i.created, ttl |-> 0, source |-> i.source]

\* The first event of every cause of failure.
Signals(t, upTo) ==
    Ascending({j \in EventsOf(t, "fail") :
        /\ j <= upTo
        /\ \A h \in EventsOf(t, "fail") : h < j => trail[t][h].cause # trail[t][j].cause})

FailureEntry(t, j, ttl) ==
    [id |-> <<t, "failure", trail[t][j].cause>>, created |-> trail[t][j].day, ttl |-> ttl,
     source |-> j]

FailureEntries(t, upTo, ttl) ==
    [k \in DOMAIN Signals(t, upTo) |-> FailureEntry(t, Signals(t, upTo)[k], ttl)]

\* What a reflection writes, in order, each with its type.
Entries(t) ==
    LET i == trail[t][Intent(t)]
        failures == FailureEntries(t, i.source, i.options)
    IN  <<<<"retrospectives", Retrospective(t)>>>>
        \o [k \in DOMAIN failures |-> <<"failures", failures[k]>>]

\* An entry that memory refuses ends the call.
WriteEntry ==
    /\ job.op = "reflect" /\ job.at = "write" /\ job.k < Len(Entries(job.task))
    /\ \E type \in {Entries(job.task)[job.k + 1][1]}, e \in {Entries(job.task)[job.k + 1][2]} :
         IF Refuses(type, e) THEN job' = Idle /\ UNCHANGED memoryVars
         ELSE job' = [job EXCEPT !.k = @ + 1] /\ RecordOnce(type, e)
    /\ UNCHANGED <<candidates, promoted, trail, deaths>>

\* What a manifest names.
Named(t) == [k \in DOMAIN Entries(t) |-> Entries(t)[k][2].id]

\* Mutant: the manifest is written before the last entry.
WriteManifestEarly ==
    /\ job.op = "reflect" /\ job.at = "write" /\ job.k + 1 = Len(Entries(job.task))
    /\ Log(job.task, [type |-> "reflected", entries |-> Named(job.task)])
    /\ job' = IF Verified(job.task) THEN [job EXCEPT !.at = "distill"] ELSE Idle
    /\ UNCHANGED <<memory, day, gone, candidates, promoted, deaths>>

WriteManifest ==
    /\ job.op = "reflect" /\ job.at = "write" /\ job.k = Len(Entries(job.task))
    /\ Log(job.task, [type |-> "reflected", entries |-> Named(job.task)])
    /\ job' = IF Verified(job.task) THEN [job EXCEPT !.at = "distill"] ELSE Idle
    /\ UNCHANGED <<memory, day, gone, candidates, promoted, deaths>>

\* Mutant: a skill is made of everything that its task has recorded so far.
SeedAll(t) == [source |-> t, steps |-> Len(trail[t])]

\* distill_once is bounded by the reflection: it was the last event.
Seed(t) == [source |-> t, steps |-> Max(EventsOf(t, "reflected"))]

Distill ==
    /\ job.op = "reflect" /\ job.at = "distill"
    /\ IF DistillRefuses(job.task, Seed(job.task)) THEN UNCHANGED skillVars
       ELSE DistillOnce(job.task, Seed(job.task))
    /\ job' = Idle
    /\ UNCHANGED <<memory, day, gone, trail, deaths>>

-----------------------------------------------------------------------------
(* skill_outcome and skill_promote: the store first, then an audit event.  *)

BeginOutcome(s, t) ==
    /\ job = Idle /\ Terminal(t) /\ Evidence(t) # {}
    /\ s \in Known
    /\ RecordOutcome(s, [attempt |-> t, success |-> Verified(t), refs |-> Evidence(t)])
    /\ job' = [op |-> "outcome", home |-> t,
               audit |-> [type |-> "outcome", skill |-> s, task |-> t,
                          success |-> Verified(t), refs |-> Evidence(t)]]
    /\ UNCHANGED <<memory, day, gone, trail, deaths>>

BeginPromote(s, by) ==
    /\ job = Idle
    /\ s \in Known
    /\ SuccessRefs(s) # {}
    /\ Promote(s, by, SuccessRefs(s))
    /\ job' = [op |-> "promote", home |-> candidates[s].seed.source,
               audit |-> [type |-> "promotion", skill |-> s, by |-> by,
                          refs |-> SuccessRefs(s)]]
    /\ UNCHANGED <<memory, day, gone, trail, deaths>>

Identity(e) == IF e.type = "outcome" THEN <<e.type, e.skill, e.task>> ELSE <<e.type, e.skill>>

Audits == {e \in UNION {Range(trail[t]) : t \in Task \cup Goal} :
             e.type \in {"outcome", "promotion"}}

\* Mutant: every call leaves its own event.
SkillAuditAgain(home, e) == Log(home, e)

\* One event for every identity; another content is refused.
SkillAudit(home, e) ==
    IF \E x \in Audits : Identity(x) = Identity(e) THEN UNCHANGED trail ELSE Log(home, e)

Audit ==
    /\ job.op \in {"outcome", "promote"}
    /\ SkillAudit(job.home, job.audit)
    /\ job' = Idle
    /\ UNCHANGED <<memory, day, gone, candidates, promoted, deaths>>

-----------------------------------------------------------------------------
Die ==
    /\ job # Idle
    /\ deaths < MaxDeaths
    /\ deaths' = deaths + 1
    /\ job' = Idle
    /\ UNCHANGED <<memory, day, gone, candidates, promoted, trail>>

\* People and the calendar, at any time.
Housekeeping ==
    /\ \/ NextDay
       \/ \E type \in MemoryType : \/ Sweep(type)
                                   \/ \E e \in Range(memory[type]) : Revoke(type, e.id)
    /\ UNCHANGED <<candidates, promoted, trail, job, deaths>>

LearningNext ==
    \/ \E t \in Task :
         \/ \E course \in Course(t) : End(t, course)
         \/ \E options \in Options(t) : BeginReflect(t, options)
         \/ \E s \in Skill : BeginOutcome(s, t)
    \/ WriteEntry \/ WriteManifest \/ Distill
    \/ \E s \in Skill, by \in Approver : BeginPromote(s, by)
    \/ Audit \/ Die \/ Housekeeping

-----------------------------------------------------------------------------
(* Properties.                                                             *)

\* A call of reflect ends early only by a death: memory, however it was
\* revoked and swept and whatever the task recorded since, never refuses what
\* an interrupted reflection writes again, nor does the store refuse the
\* skill; in the end the task is reflected and its skill is made of exactly
\* the events up to the reflection (reflect, record_once, distill_once).
ReflectionResumes ==
    [][job.op = "reflect" /\ job' = Idle /\ deaths' = deaths
       => \A t \in {job.task} :
            /\ Reflected(t)'
            /\ Verified(t) => t \in Known' /\ candidates'[t].seed = Seed(t)]_learningVars

\* Memory holds one entry for every cause and one retrospective for every
\* task, however often its reflection was interrupted and repeated.
OneEntryPerCause ==
    \A type \in MemoryType : \A j, k \in DOMAIN memory[type] :
        memory[type][j].id = memory[type][k].id => j = k

\* What a manifest names was written: it is in memory as the task's events
\* tell it, unless it was revoked or swept; and nothing of it is named twice.
ManifestIsMemory ==
    \A t \in Task : Reflected(t) =>
        LET named == trail[t][Max(EventsOf(t, "reflected"))].entries
        IN  /\ IsInjective(named)
            /\ \A k \in DOMAIN Entries(t) :
                 LET type == Entries(t)[k][1]  e == Entries(t)[k][2]
                 IN  e.id \in Range(named) /\ (e \in Range(memory[type]) \/ e.id \in gone)

\* A promoted skill was earned: as many different tasks as promotion asks for
\* have tried it and ended, as many of them verified, and it was promoted for
\* just the evidence of these (record_outcome, promote).
PromotedWasEarned ==
    \A p \in Range(promoted) :
        LET tried == {o.attempt : o \in Range(p.outcomes)}
            won == {t \in tried : Verified(t)}
        IN  /\ \A t \in tried : Terminal(t)
            /\ Cardinality(tried) >= MinAttempts /\ Cardinality(won) >= MinSuccesses
            /\ p.refs = UNION {Evidence(t) : t \in won}
            /\ p.skill \notin Authored

\* Audit events tell the truth, once: the store has what each of them says
\* (skill_outcome and skill_promote, with a death between the two writes).
AuditsAreTrue ==
    /\ \A e \in Audits :
         IF e.type = "outcome"
         THEN \E o \in Range(candidates[e.skill].outcomes) :
                o.attempt = e.task /\ o.success = e.success /\ o.refs = e.refs
         ELSE \E p \in Rows(e.skill) : p.by = e.by /\ p.refs = e.refs
    /\ \A t \in Task \cup Goal : \A i, j \in DOMAIN trail[t] :
         trail[t][i] \in Audits /\ trail[t][j] \in Audits
           => (Identity(trail[t][i]) = Identity(trail[t][j]) => i = j)

=============================================================================
