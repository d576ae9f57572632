---------------------------- MODULE SkillProofs ----------------------------
(***************************************************************************)
(* Promoted skills were earned, and audit events are true, for every       *)
(* number of tasks, skills, calls and deaths.                              *)
(***************************************************************************)
EXTENDS RunNext, SequenceTheorems, FiniteSetTheorems, TLAPS

-----------------------------------------------------------------------------
(* Logs.                                                                   *)

LEMMA RangeMember ==
    ASSUME NEW s, NEW i \in DOMAIN s
    PROVE  s[i] \in Range(s)
  BY DEF Range

\* Appending an event leaves what is there and adds one.
LEMMA AppendLog ==
    ASSUME NEW s, IsLog(s), NEW e
    PROVE  /\ IsLog(Append(s, e))
           /\ Len(s) \in Nat /\ DOMAIN s = 1..Len(s)
           /\ DOMAIN Append(s, e) = 1..(Len(s) + 1)
           /\ \A i \in 1..Len(s) : Append(s, e)[i] = s[i]
           /\ Append(s, e)[Len(s) + 1] = e
           /\ Range(Append(s, e)) = Range(s) \cup {e}
<1> DEFINE S == Range(s) \cup {e}
<1>1. s \in Seq(Range(s)) /\ s \in Seq(S)
  <2>1. s \in Seq(Range(s))
    BY DEF IsLog
  <2>2. \A i \in 1..Len(s) : s[i] \in S
    BY <2>1 DEF Range
  <2> QED BY <2>1, <2>2, SeqDef
<1>2. /\ Append(s, e) \in Seq(S)
      /\ Len(Append(s, e)) = Len(s) + 1
      /\ \A i \in 1..Len(s) : Append(s, e)[i] = s[i]
      /\ Append(s, e)[Len(s) + 1] = e
  BY <1>1, AppendProperties, e \in S
<1>3. Len(s) \in Nat /\ DOMAIN s = 1..Len(s) /\ DOMAIN Append(s, e) = 1..(Len(s) + 1)
  BY <1>1, <1>2
<1>4. Range(Append(s, e)) = S
  BY <1>2, <1>3 DEF Range
<1>5. IsLog(Append(s, e))
  BY <1>2, <1>4 DEF IsLog
<1> QED BY <1>2, <1>3, <1>4, <1>5

\* Putting two logs together gives a log of what is in either.
LEMMA ConcatLog ==
    ASSUME NEW s, NEW u, IsLog(s), IsLog(u)
    PROVE  IsLog(s \o u) /\ Range(s \o u) = Range(s) \cup Range(u)
<1> DEFINE S == Range(s) \cup Range(u)
<1>1. s \in Seq(Range(s)) /\ u \in Seq(Range(u))
  BY DEF IsLog
<1>2. s \in Seq(S) /\ u \in Seq(S)
  BY <1>1, SeqDef DEF Range
<1>3. /\ s \o u \in Seq(S) /\ Len(s \o u) = Len(s) + Len(u)
      /\ \A i \in 1..(Len(s) + Len(u)) :
            (s \o u)[i] = IF i <= Len(s) THEN s[i] ELSE u[i - Len(s)]
  BY <1>2, ConcatProperties
<1>4. DOMAIN (s \o u) = 1..(Len(s) + Len(u)) /\ DOMAIN s = 1..Len(s) /\ DOMAIN u = 1..Len(u)
      /\ Len(s) \in Nat /\ Len(u) \in Nat
  BY <1>1, <1>2, <1>3
<1>5. Range(s) \subseteq Range(s \o u)
  <2> SUFFICES ASSUME NEW i \in DOMAIN s PROVE s[i] \in Range(s \o u)
      BY DEF Range
  <2>1. i \in DOMAIN (s \o u) /\ (s \o u)[i] = s[i]
    BY <1>3, <1>4
  <2> QED BY <2>1, RangeMember
<1>6. Range(u) \subseteq Range(s \o u)
  <2> SUFFICES ASSUME NEW i \in DOMAIN u PROVE u[i] \in Range(s \o u)
      BY DEF Range
  <2>1. i + Len(s) \in DOMAIN (s \o u) /\ (s \o u)[i + Len(s)] = u[i]
    BY <1>3, <1>4
  <2> QED BY <2>1, RangeMember
<1>7. Range(s \o u) \subseteq S
  BY <1>3, <1>4 DEF Range
<1>8. IsLog(s \o u)
  BY <1>3, <1>5, <1>6, <1>7 DEF IsLog
<1> QED BY <1>5, <1>6, <1>7, <1>8

LEMMA SmallLogs ==
    /\ IsLog(<<>>) /\ Range(<<>>) = {}
    /\ \A e : IsLog(<<e>>) /\ Range(<<e>>) = {e}
<1>1. IsLog(<<>>) /\ Range(<<>>) = {}
  BY DEF IsLog, Range
<1>2. ASSUME NEW e PROVE IsLog(<<e>>) /\ Range(<<e>>) = {e}
  <2>1. <<e>> \in Seq({e}) /\ DOMAIN <<e>> = {1} /\ <<e>>[1] = e
    OBVIOUS
  <2>2. Range(<<e>>) = {e}
    BY <2>1 DEF Range
  <2> QED BY <2>1, <2>2 DEF IsLog
<1> QED BY <1>1, <1>2

-----------------------------------------------------------------------------
(* What every step keeps of a task that has ended.                         *)

TrailLogs ==
    /\ trail = [t \in Task \cup Goal |-> trail[t]]
    /\ \A t \in Task \cup Goal : IsLog(trail[t])

\* The events that say how a task ended and what checked it.
Marks == {"transition", "decision", "check"}

Kept ==
    \A t \in Task : Terminal(t) =>
        /\ Terminal(t)'
        /\ Verified(t)' <=> Verified(t)
        /\ Evidence(t)' = Evidence(t)

LEMMA UnchangedKeeps ==
    ASSUME TrailLogs, UNCHANGED trail
    PROVE  TrailLogs' /\ Kept /\ Audits' = Audits
<1>1. \A t, type : EventsOf(t, type)' = EventsOf(t, type)
  BY DEF EventsOf
<1> QED BY <1>1 DEF TrailLogs, Kept, Terminal, Verified, Evidence, Audits

\* No later event tells anything new of a task's end (TaskLifecycle.reflect
\* and _skill_audit).
LEMMA LogKeeps ==
    ASSUME TrailLogs, NEW home, NEW e, e.type \notin Marks, Log(home, e)
    PROVE  TrailLogs' /\ Kept
<1>1. CASE home \notin Task \cup Goal
  BY <1>1, UnchangedKeeps DEF Log, TrailLogs
<1>2. CASE home \in Task \cup Goal
  <2>1. /\ trail' = [trail EXCEPT ![home] = Append(@, e)]
        /\ trail'[home] = Append(trail[home], e)
        /\ \A t \in Task \cup Goal : t # home => trail'[t] = trail[t]
    BY <1>2 DEF Log, TrailLogs
  <2>2. TrailLogs'
    BY <1>2, <2>1, AppendLog DEF TrailLogs
  <2>3. \A type \in Marks, t \in Task \cup Goal : EventsOf(t, type)' = EventsOf(t, type)
    <3> TAKE type \in Marks, t \in Task \cup Goal
    <3>1. CASE t # home
      BY <2>1, <3>1 DEF EventsOf
    <3>2. CASE t = home
      <4>1. /\ DOMAIN trail'[t] = 1..(Len(trail[t]) + 1) /\ Len(trail[t]) \in Nat
            /\ DOMAIN trail[t] = 1..Len(trail[t])
            /\ \A k \in 1..Len(trail[t]) : trail'[t][k] = trail[t][k]
            /\ trail'[t][Len(trail[t]) + 1] = e
        BY <2>1, <3>2, AppendLog DEF TrailLogs
      <4> QED BY <4>1 DEF EventsOf
    <3> QED BY <3>1, <3>2
  <2>4. \A t \in Task : \A k \in EventsOf(t, "transition") : trail'[t][k] = trail[t][k]
    <3> TAKE t \in Task
    <3> TAKE k \in EventsOf(t, "transition")
    <3>1. CASE t # home
      BY <2>1, <3>1
    <3>2. CASE t = home
      BY <2>1, <3>2, AppendLog DEF TrailLogs, EventsOf
    <3> QED BY <3>1, <3>2
  <2>5. Kept
    <3> SUFFICES ASSUME NEW t \in Task, Terminal(t)
                 PROVE  /\ Terminal(t)'
                        /\ Verified(t)' <=> Verified(t)
                        /\ Evidence(t)' = Evidence(t)
        BY DEF Kept
    <3>1. /\ EventsOf(t, "transition")' = EventsOf(t, "transition")
          /\ EventsOf(t, "decision")' = EventsOf(t, "decision")
          /\ EventsOf(t, "check")' = EventsOf(t, "check")
      BY <2>3 DEF Marks
    <3> QED BY <3>1, <2>4 DEF Terminal, Verified, Evidence
  <2> QED BY <2>2, <2>5
<1> QED BY <1>1, <1>2

\* A log that begins has no end to keep.
LEMMA BeginKeeps ==
    ASSUME TrailLogs, NEW t \in Task \cup Goal, NEW log, IsLog(log), trail[t] = <<>>,
           trail' = [trail EXCEPT ![t] = log]
    PROVE  TrailLogs' /\ Kept
<1>1. \A u \in Task \cup Goal : trail'[u] = IF u = t THEN log ELSE trail[u]
  BY DEF TrailLogs
<1>2. TrailLogs'
  BY <1>1 DEF TrailLogs
<1>3. Kept
  <2> SUFFICES ASSUME NEW u \in Task, Terminal(u)
               PROVE  /\ Terminal(u)'
                      /\ Verified(u)' <=> Verified(u)
                      /\ Evidence(u)' = Evidence(u)
      BY DEF Kept
  <2>1. u # t
    BY DEF Terminal, EventsOf
  <2>2. trail'[u] = trail[u]
    BY <1>1, <2>1
  <2> QED BY <2>2 DEF Terminal, Verified, Evidence, EventsOf
<1> QED BY <1>2, <1>3

-----------------------------------------------------------------------------
(* Outcomes.                                                               *)

Tried(outcomes) == {o.attempt : o \in Range(outcomes)}
Won(outcomes) == {t \in Tried(outcomes) : Verified(t)}

TrueOutcomes(outcomes) ==
    \A o \in Range(outcomes) :
        /\ o.attempt \in Task /\ Terminal(o.attempt)
        /\ o.success <=> Verified(o.attempt)
        /\ o.refs = Evidence(o.attempt)

\* The counters of a candidate count the different tasks that tried it.
CandidateOK(s) ==
    LET c == candidates[s]
    IN  /\ c = [seed |-> c.seed, outcomes |-> c.outcomes, attempts |-> c.attempts,
                successes |-> c.successes]
        /\ IsLog(c.outcomes) /\ TrueOutcomes(c.outcomes)
        /\ IsFiniteSet(Tried(c.outcomes)) /\ IsFiniteSet(Won(c.outcomes))
        /\ c.attempts = Cardinality(Tried(c.outcomes))
        /\ c.successes = Cardinality(Won(c.outcomes))

JobOK ==
    /\ job.op = "reflect" =>
         job = [op |-> "reflect", task |-> job.task, k |-> job.k, at |-> job.at]
    /\ job.op \in {"outcome", "promote"} => job.audit.type \in {"outcome", "promotion"}

SkillInv ==
    /\ TrailLogs /\ JobOK
    /\ candidates = [s \in Known |-> candidates[s]]
    /\ \A s \in Known : CandidateOK(s)
    /\ IsLog(promoted)
    /\ \A p \in Range(promoted) : TrueOutcomes(p.outcomes)
    /\ PromotedWasEarned

LEMMA KeptOutcomes ==
    ASSUME Kept
    PROVE  \A outcomes : TrueOutcomes(outcomes) =>
             TrueOutcomes(outcomes)' /\ Won(outcomes)' = Won(outcomes)
  BY DEF Kept, TrueOutcomes, Won, Tried

LEMMA SameTrail ==
    ASSUME UNCHANGED trail
    PROVE  /\ \A u : Verified(u)' <=> Verified(u)
           /\ \A u : Terminal(u)' <=> Terminal(u)
           /\ \A u : Evidence(u)' = Evidence(u)
  BY DEF Verified, Terminal, Evidence, EventsOf

\* What was earned stays earned.
LEMMA KeptPromoted ==
    ASSUME SkillInv, Kept, UNCHANGED promoted
    PROVE  /\ IsLog(promoted)'
           /\ \A p \in Range(promoted') : TrueOutcomes(p.outcomes)'
           /\ PromotedWasEarned'
<1> USE DEF SkillInv
<1>1. \A p \in Range(promoted') : TrueOutcomes(p.outcomes)'
  BY KeptOutcomes
<1>2. PromotedWasEarned'
  <2> SUFFICES ASSUME NEW p \in Range(promoted)
      PROVE LET tried == {o.attempt : o \in Range(p.outcomes)}
                won == {t \in tried : Verified(t)'}
            IN  /\ \A t \in tried : Terminal(t)'
                /\ Cardinality(tried) >= MinAttempts /\ Cardinality(won) >= MinSuccesses
                /\ p.refs = UNION {Evidence(t)' : t \in won}
                /\ p.skill \notin Authored
      BY DEF PromotedWasEarned
  <2> DEFINE tried == {o.attempt : o \in Range(p.outcomes)}
  <2>1. \A t \in tried : /\ Terminal(t)' /\ Evidence(t)' = Evidence(t)
                         /\ Verified(t)' <=> Verified(t)
    BY DEF TrueOutcomes, Kept
  <2>2. {t \in tried : Verified(t)'} = {t \in tried : Verified(t)}
    BY <2>1
  <2>3. {Evidence(t)' : t \in {u \in tried : Verified(u)'}}
          = {Evidence(t) : t \in {u \in tried : Verified(u)}}
    BY <2>1, <2>2
  <2> QED BY <2>1, <2>2, <2>3 DEF PromotedWasEarned
<1> QED BY <1>1, <1>2

\* A candidate that is left alone keeps its counts.
LEMMA KeptCandidates ==
    ASSUME SkillInv, Kept
    PROVE  \A s \in Known : s \in Known' /\ candidates'[s] = candidates[s] => CandidateOK(s)'
<1> SUFFICES ASSUME NEW s \in Known, s \in Known', candidates'[s] = candidates[s]
             PROVE  CandidateOK(s)'
    OBVIOUS
<1>1. CandidateOK(s)
  BY DEF SkillInv
<1>2. \A outcomes : TrueOutcomes(outcomes) =>
        TrueOutcomes(outcomes)' /\ Won(outcomes)' = Won(outcomes)
  BY KeptOutcomes
<1> QED BY <1>1, <1>2 DEF CandidateOK, Tried

\* Steps that leave the store alone keep what it says.
LEMMA KeptSkills ==
    ASSUME SkillInv, TrailLogs', JobOK', Kept, UNCHANGED skillVars
    PROVE  SkillInv'
<1>1. Known' = Known /\ candidates' = candidates /\ promoted' = promoted
  BY DEF Known, skillVars
<1> QED BY <1>1, KeptPromoted, KeptCandidates DEF SkillInv

-----------------------------------------------------------------------------
(* The store's operations.                                                 *)

\* A new candidate counts nothing (distill_once).
LEMMA DistillKeeps ==
    ASSUME SkillInv, JobOK', NEW s, NEW seed, DistillOnce(s, seed), UNCHANGED trail
    PROVE  SkillInv'
<1> USE DEF SkillInv
<1>1. TrailLogs' /\ Kept
  BY UnchangedKeeps
<1>2. CASE s \in Known
  BY <1>1, <1>2, KeptSkills DEF DistillOnce, skillVars
<1>3. CASE s \notin Known
  <2>1. /\ candidates' = [x \in Known \cup {s} |->
                            IF x = s THEN NewCandidate(seed) ELSE candidates[x]]
        /\ UNCHANGED promoted
        /\ Known' = Known \cup {s}
    BY <1>3 DEF DistillOnce, Known
  <2>2. \A x \in Known : CandidateOK(x)'
    BY <1>1, <1>3, <2>1, KeptCandidates
  <2>3. CandidateOK(s)'
    <3>1. /\ candidates'[s] = [seed |-> seed, outcomes |-> <<>>, attempts |-> 0, successes |-> 0]
          /\ candidates'[s].outcomes = <<>> /\ candidates'[s].seed = seed
          /\ candidates'[s].attempts = 0 /\ candidates'[s].successes = 0
      BY <2>1 DEF NewCandidate
    <3>2. Range(candidates'[s].outcomes) = {} /\ IsLog(candidates'[s].outcomes)
      BY <3>1, SmallLogs
    <3>3. Tried(candidates'[s].outcomes) = {}
      BY <3>2 DEF Tried
    <3>4. Won(candidates[s].outcomes)' = {} /\ TrueOutcomes(candidates[s].outcomes)'
      BY <3>2, <3>3 DEF Won, Tried, TrueOutcomes
    <3>5. IsFiniteSet({}) /\ Cardinality({}) = 0
      BY FS_EmptySet
    <3>6. candidates'[s] = [seed |-> candidates'[s].seed, outcomes |-> candidates'[s].outcomes,
                            attempts |-> candidates'[s].attempts,
                            successes |-> candidates'[s].successes]
      BY <3>1
    <3>7. Tried(candidates[s].outcomes)' = {} /\ IsLog(candidates[s].outcomes)'
      BY <3>2, <3>3 DEF Tried, IsLog
    <3> HIDE DEF SkillInv
    <3> QED BY <3>1, <3>4, <3>5, <3>6, <3>7 DEF CandidateOK
  <2>4. candidates' = [x \in Known' |-> candidates'[x]]
    BY <2>1
  <2> QED BY <1>1, <2>1, <2>2, <2>3, <2>4, KeptPromoted
<1> QED BY <1>2, <1>3

\* An outcome counts its task once (record_outcome).
LEMMA OutcomeKeeps ==
    ASSUME SkillInv, JobOK', UNCHANGED trail, NEW s \in Known, NEW t \in Task, Terminal(t),
           RecordOutcome(s, [attempt |-> t, success |-> Verified(t), refs |-> Evidence(t)])
    PROVE  SkillInv'
<1> USE DEF SkillInv
<1> DEFINE o == [attempt |-> t, success |-> Verified(t), refs |-> Evidence(t)]
           prior == {x \in Range(candidates[s].outcomes) : x.attempt = t}
           c == candidates[s]
<1>1. TrailLogs' /\ Kept
  BY UnchangedKeeps
<1>2. CASE prior # {}
  <2>1. UNCHANGED skillVars
    BY <1>2 DEF RecordOutcome, skillVars
  <2> QED BY <1>1, <2>1, KeptSkills
<1>3. CASE prior = {}
  <2>1. candidates' = Counted(s, o) /\ UNCHANGED promoted
    BY <1>3 DEF RecordOutcome
  <2>2. CandidateOK(s)
    OBVIOUS
  <2>3. Known' = Known /\ candidates' = [x \in Known' |-> candidates'[x]]
    BY <2>1 DEF Known, Counted
  <2>4. \A x \in Known : x # s => CandidateOK(x)'
    <3>1. \A x \in Known : x # s => x \in Known' /\ candidates'[x] = candidates[x]
      BY <2>1, <2>3 DEF Counted, Known
    <3> QED BY <1>1, <3>1, KeptCandidates
  <2>5. CandidateOK(s)'
    <3>1. /\ candidates'[s] = [seed |-> c.seed, outcomes |-> Append(c.outcomes, o),
                               attempts |-> c.attempts + 1,
                               successes |-> IF Verified(t) THEN c.successes + 1
                                             ELSE c.successes]
      BY <2>1, <2>2 DEF Counted, Known, CandidateOK
    <3>2. /\ IsLog(Append(c.outcomes, o))
          /\ Range(Append(c.outcomes, o)) = Range(c.outcomes) \cup {o}
      BY <2>2, AppendLog DEF CandidateOK
    <3>3. t \notin Tried(c.outcomes)
      BY <1>3 DEF Tried
    <3>4. Tried(Append(c.outcomes, o)) = Tried(c.outcomes) \cup {t}
      BY <3>2 DEF Tried
    <3>5. /\ IsFiniteSet(Tried(c.outcomes) \cup {t})
          /\ Cardinality(Tried(c.outcomes) \cup {t}) = c.attempts + 1
      BY <2>2, <3>3, FS_AddElement DEF CandidateOK
    <3>6. Won(Append(c.outcomes, o)) =
            IF Verified(t) THEN Won(c.outcomes) \cup {t} ELSE Won(c.outcomes)
      BY <3>4 DEF Won
    <3>7. /\ IsFiniteSet(Won(Append(c.outcomes, o)))
          /\ Cardinality(Won(Append(c.outcomes, o))) =
               IF Verified(t) THEN c.successes + 1 ELSE c.successes
      <4>1. t \notin Won(c.outcomes)
        BY <3>3 DEF Won
      <4> QED BY <2>2, <3>6, <4>1, FS_AddElement DEF CandidateOK
    <3>8. TrueOutcomes(Append(c.outcomes, o))
      BY <2>2, <3>2 DEF CandidateOK, TrueOutcomes
    <3>9. /\ \A u : Verified(u)' <=> Verified(u)
          /\ \A u : Terminal(u)' <=> Terminal(u)
          /\ \A u : Evidence(u)' = Evidence(u)
      BY SameTrail
    <3>10. /\ candidates'[s].outcomes = Append(c.outcomes, o)
           /\ candidates'[s].attempts = c.attempts + 1
           /\ candidates'[s].successes = IF Verified(t) THEN c.successes + 1 ELSE c.successes
           /\ candidates'[s] = [seed |-> candidates'[s].seed,
                                outcomes |-> candidates'[s].outcomes,
                                attempts |-> candidates'[s].attempts,
                                successes |-> candidates'[s].successes]
      BY <3>1
    <3>11. TrueOutcomes(candidates[s].outcomes)' /\ Won(candidates[s].outcomes)' = Won(Append(c.outcomes, o))
      BY <3>8, <3>9, <3>10 DEF TrueOutcomes, Won, Tried
    <3> QED BY <3>2, <3>4, <3>5, <3>7, <3>10, <3>11 DEF CandidateOK, Tried
  <2> QED BY <1>1, <2>1, <2>3, <2>4, <2>5, KeptPromoted
<1> QED BY <1>2, <1>3

\* What is promoted was counted and cites just its successes (promote).
LEMMA PromoteKeeps ==
    ASSUME SkillInv, JobOK', UNCHANGED trail, NEW s \in Known, NEW by,
           Promote(s, by, SuccessRefs(s))
    PROVE  SkillInv'
<1> USE DEF SkillInv
<1>1. TrailLogs' /\ Kept
  BY UnchangedKeeps
<1>2. CASE Rows(s) # {}
  BY <1>1, <1>2, KeptSkills DEF Promote, skillVars
<1>3. CASE Rows(s) = {}
  <2> DEFINE p == [skill |-> s, by |-> by, refs |-> SuccessRefs(s),
                   outcomes |-> candidates[s].outcomes]
             tried == Tried(p.outcomes)
  <2>1. /\ promoted' = Append(promoted, p) /\ UNCHANGED candidates
        /\ Reproducible(s) /\ s \notin Authored
    BY <1>3 DEF Promote, MayPromote
  <2>2. IsLog(promoted') /\ Range(promoted') = Range(promoted) \cup {p}
    BY <2>1, AppendLog
  <2>3. CandidateOK(s)
    OBVIOUS
  <2>4. TrueOutcomes(p.outcomes)
    BY <2>3 DEF CandidateOK
  <2>5. /\ \A t \in tried : Terminal(t)
        /\ Cardinality(tried) >= MinAttempts
        /\ Cardinality({t \in tried : Verified(t)}) >= MinSuccesses
    BY <2>1, <2>3, <2>4 DEF CandidateOK, Reproducible, Tried, Won, TrueOutcomes
  <2>6. {o.refs : o \in {x \in Range(p.outcomes) : x.success}}
          = {Evidence(t) : t \in {u \in tried : Verified(u)}}
    BY <2>4 DEF TrueOutcomes, Tried
  <2>7. p.refs = UNION {Evidence(t) : t \in {u \in tried : Verified(u)}}
    BY <2>6 DEF SuccessRefs
  <2>8. PromotedWasEarned'
    <3>1. /\ \A u : Verified(u)' <=> Verified(u)
          /\ \A u : Terminal(u)' <=> Terminal(u)
          /\ \A u : Evidence(u)' = Evidence(u)
      BY SameTrail
    <3>2. ASSUME NEW q \in Range(promoted')
          PROVE  LET tr == {o.attempt : o \in Range(q.outcomes)}
                     won == {t \in tr : Verified(t)}
                 IN  /\ \A t \in tr : Terminal(t)
                     /\ Cardinality(tr) >= MinAttempts /\ Cardinality(won) >= MinSuccesses
                     /\ q.refs = UNION {Evidence(t) : t \in won}
                     /\ q.skill \notin Authored
      <4>1. CASE q = p
        BY <2>1, <2>5, <2>7, <4>1 DEF Tried
      <4>2. CASE q \in Range(promoted)
        BY <4>2 DEF PromotedWasEarned
      <4> QED BY <2>2, <3>2, <4>1, <4>2
    <3> QED BY <3>1, <3>2 DEF PromotedWasEarned
  <2>9. \A x \in Known : CandidateOK(x)'
    BY <1>1, <2>1, KeptCandidates DEF Known
  <2>10. \A q \in Range(promoted') : TrueOutcomes(q.outcomes)'
    <3>1. \A outcomes : TrueOutcomes(outcomes) => TrueOutcomes(outcomes)'
      BY <1>1, KeptOutcomes
    <3> QED BY <2>2, <2>4, <3>1
  <2>11. Known' = Known /\ candidates' = candidates
    BY <2>1 DEF Known
  <2> QED BY <1>1, <2>2, <2>8, <2>9, <2>10, <2>11
<1> QED BY <1>2, <1>3

-----------------------------------------------------------------------------
(* Every step.                                                             *)

LEMMA InitSkillInv == Init => SkillInv
<1> SUFFICES ASSUME Init PROVE SkillInv
    OBVIOUS
<1>1. TrailLogs
  BY SmallLogs DEF Init, LearningInit, TrailLogs
<1>2. JobOK
  BY DEF Init, LearningInit, Idle, JobOK
<1>3. Known = {} /\ candidates = [s \in Known |-> candidates[s]]
  BY DEF Init, LearningInit, SkillInit, Known
<1>4. promoted = <<>> /\ IsLog(promoted) /\ Range(promoted) = {}
  BY SmallLogs DEF Init, LearningInit, SkillInit
<1> QED BY <1>1, <1>2, <1>3, <1>4 DEF SkillInv, PromotedWasEarned

LEMMA FailsIsLog ==
    ASSUME NEW causes, IsLog(causes)
    PROVE  IsLog(Fails(causes))
<1> DEFINE n == Len(causes)
           event(k) == [type |-> "fail", cause |-> causes[k], day |-> day]
           S == Range(Fails(causes))
<1>1. n \in Nat /\ DOMAIN causes = 1..n
  BY causes \in Seq(Range(causes)) DEF IsLog
<1>2. Fails(causes) = [k \in 1..n |-> event(k)]
  BY <1>1 DEF Fails
<1>3. DOMAIN Fails(causes) = 1..n
  BY <1>2
<1>4. \A k \in 1..n : event(k) \in S
  <2> TAKE k \in 1..n
  <2>1. Fails(causes)[k] \in S /\ Fails(causes)[k] = event(k)
    BY <1>2, <1>3, RangeMember
  <2> QED BY <2>1
<1> HIDE DEF event, S, n
<1>5. [k \in 1..n |-> event(k)] \in Seq(S)
  BY <1>1, <1>4
<1> QED BY <1>2, <1>5 DEF IsLog, S

LEMMA TaskStep ==
    ASSUME SkillInv, NEW t \in Task, NEW course \in Course(t), End(t, course)
    PROVE  SkillInv'
<1> DEFINE checks == IF course.checked THEN <<[type |-> "check"]>> ELSE <<>>
           last == IF course.last = "decision" THEN [type |-> "decision"]
                   ELSE [type |-> "transition", state |-> course.last]
<1>1. IsLog(Fails(course.causes))
  BY CausesAssumption, FailsIsLog
<1>2. IsLog(checks) /\ IsLog(<<last>>)
  BY SmallLogs
<1>3. IsLog(Fails(course.causes) \o checks \o <<last>>)
  BY <1>1, <1>2, ConcatLog
<1>4. TrailLogs' /\ Kept
  BY <1>3, BeginKeeps DEF End, SkillInv
<1>5. UNCHANGED <<skillVars, job>>
  BY DEF End, skillVars
<1>6. JobOK'
  BY <1>5 DEF SkillInv, JobOK
<1> QED BY <1>4, <1>5, <1>6, KeptSkills

LEMMA BeginReflectStep ==
    ASSUME SkillInv, NEW t \in Task, NEW options, BeginReflect(t, options)
    PROVE  SkillInv'
<1>1. TrailLogs' /\ Kept
  <2>1. CASE EventsOf(t, "intent") = {}
    <3>1. Log(t, [type |-> "intent", options |-> options, created |-> day, source |-> Source(t)])
      BY <2>1 DEF BeginReflect
    <3> QED BY <3>1, LogKeeps DEF SkillInv, Marks
  <2>2. CASE EventsOf(t, "intent") # {}
    BY <2>2, UnchangedKeeps DEF BeginReflect, SkillInv
  <2> QED BY <2>1, <2>2
<1>2. JobOK' /\ UNCHANGED skillVars
  BY DEF BeginReflect, JobOK, skillVars
<1> QED BY <1>1, <1>2, KeptSkills

LEMMA ReflectStep ==
    ASSUME SkillInv, WriteEntry \/ WriteManifest \/ Distill
    PROVE  SkillInv'
<1>1. job = [op |-> "reflect", task |-> job.task, k |-> job.k, at |-> job.at]
  BY DEF SkillInv, JobOK, WriteEntry, WriteManifest, Distill
<1>2. CASE WriteEntry
  <2>1. job' = Idle \/ job' = [job EXCEPT !.k = @ + 1]
    BY <1>2 DEF WriteEntry
  <2>2. JobOK'
    BY <1>1, <2>1 DEF JobOK, Idle
  <2>3. UNCHANGED <<trail, skillVars>>
    BY <1>2 DEF WriteEntry, skillVars
  <2> QED BY <2>2, <2>3, UnchangedKeeps, KeptSkills DEF SkillInv
<1>3. CASE WriteManifest
  <2>1. JobOK'
    BY <1>1, <1>3 DEF WriteManifest, JobOK, Idle
  <2>2. TrailLogs' /\ Kept
    BY <1>3, LogKeeps DEF WriteManifest, SkillInv, Marks
  <2>3. UNCHANGED skillVars
    BY <1>3 DEF WriteManifest, skillVars
  <2> QED BY <2>1, <2>2, <2>3, KeptSkills
<1>4. CASE Distill
  <2>1. JobOK' /\ UNCHANGED trail
    BY <1>4 DEF Distill, JobOK, Idle
  <2>2. CASE UNCHANGED skillVars
    BY <2>1, <2>2, UnchangedKeeps, KeptSkills DEF SkillInv
  <2>3. CASE DistillOnce(job.task, Seed(job.task))
    BY <2>1, <2>3, DistillKeeps
  <2> QED BY <1>4, <2>2, <2>3 DEF Distill
<1> QED BY <1>2, <1>3, <1>4

LEMMA ToolStep ==
    ASSUME SkillInv,
           \/ \E t \in Task, s \in Skill : BeginOutcome(s, t)
           \/ \E s \in Skill, by \in Approver : BeginPromote(s, by)
           \/ Audit
    PROVE  SkillInv'
<1>1. ASSUME NEW t \in Task, NEW s \in Skill, BeginOutcome(s, t) PROVE SkillInv'
  <2>1. JobOK' /\ UNCHANGED trail
    BY <1>1 DEF BeginOutcome, JobOK
  <2> QED BY <1>1, <2>1, OutcomeKeeps DEF BeginOutcome
<1>2. ASSUME NEW s \in Skill, NEW by \in Approver, BeginPromote(s, by) PROVE SkillInv'
  <2>1. JobOK' /\ UNCHANGED trail
    BY <1>2 DEF BeginPromote, JobOK
  <2> QED BY <1>2, <2>1, PromoteKeeps DEF BeginPromote
<1>3. CASE Audit
  <2>1. job.audit.type \notin Marks
    BY <1>3 DEF Audit, SkillInv, JobOK, Marks
  <2>2. TrailLogs' /\ Kept
    BY <1>3, <2>1, UnchangedKeeps, LogKeeps DEF Audit, SkillAudit, SkillInv
  <2>3. JobOK' /\ UNCHANGED skillVars
    BY <1>3 DEF Audit, JobOK, Idle, skillVars
  <2> QED BY <2>2, <2>3, KeptSkills
<1> QED BY <1>1, <1>2, <1>3

LEMMA EngineStep ==
    ASSUME SkillInv, EngineNext
    PROVE  SkillInv'
<1>1. ASSUME NEW goal \in Goal, NEW course \in Course(goal),
             RunLoop(goal, course.causes, course.last)
      PROVE  SkillInv'
  <2>1. IsLog(Fails(course.causes))
    BY CausesAssumption, FailsIsLog
  <2>2. IsLog(Fails(course.causes) \o <<[type |-> "gate", decision |-> course.last]>>)
    BY <2>1, SmallLogs, ConcatLog
  <2>3. TrailLogs' /\ Kept
    BY <1>1, <2>2, BeginKeeps DEF RunLoop, SkillInv
  <2>4. JobOK' /\ UNCHANGED skillVars
    BY <1>1 DEF RunLoop, SkillInv, JobOK, skillVars
  <2> QED BY <2>3, <2>4, KeptSkills
<1>2. CASE DistillRun
  <2>1. JobOK' /\ UNCHANGED trail
    BY <1>2 DEF DistillRun, SkillInv, JobOK
  <2>2. CASE UNCHANGED skillVars
    BY <2>1, <2>2, UnchangedKeeps, KeptSkills DEF SkillInv
  <2>3. CASE DistillOnce(run.goal, [source |-> run.goal, steps |-> Len(trail[run.goal])])
    BY <2>1, <2>3, DistillKeeps
  <2> QED BY <1>2, <2>2, <2>3 DEF DistillRun
<1>3. CASE UNCHANGED <<trail, job, candidates, promoted>>
  <2>1. JobOK' /\ UNCHANGED skillVars
    BY <1>3 DEF SkillInv, JobOK, skillVars
  <2> QED BY <1>3, <2>1, UnchangedKeeps, KeptSkills DEF SkillInv
<1>4. \/ \E goal \in Goal : \E course \in Course(goal) :
           RunLoop(goal, course.causes, course.last)
      \/ DistillRun
      \/ UNCHANGED <<trail, job, candidates, promoted>>
  BY DEF EngineNext, TakeItem, Reflect, Raise, Finish, Rotate, DieRunning, Restart, Open,
         UseAgenda, learningVars
<1> QED BY <1>1, <1>2, <1>3, <1>4

LEMMA StepSkillInv == SkillInv /\ [Next]_vars => SkillInv'
<1> SUFFICES ASSUME SkillInv, [Next]_vars PROVE SkillInv'
    OBVIOUS
<1>1. CASE UNCHANGED <<trail, candidates, promoted>> /\ (job' = Idle \/ job' = job)
  <2>1. JobOK' /\ UNCHANGED skillVars
    BY <1>1 DEF SkillInv, JobOK, Idle, skillVars
  <2> QED BY <1>1, <2>1, UnchangedKeeps, KeptSkills DEF SkillInv
<1>2. CASE EngineNext
  BY <1>2, EngineStep
<1>3. CASE LearningNext
  <2>1. CASE Die \/ Housekeeping
    BY <1>1, <2>1 DEF Die, Housekeeping
  <2> QED BY <1>3, <2>1, TaskStep, BeginReflectStep, ReflectStep, ToolStep DEF LearningNext
<1>4. CASE UNCHANGED vars
  BY <1>1, <1>4 DEF vars, learningVars
<1> QED BY <1>2, <1>3, <1>4 DEF Next

\* A promoted skill was earned: so many different tasks tried it as promotion
\* asks for and ended, as many of them verified, and it cites just the
\* evidence of these (record_outcome, promote).
THEOREM PromotedEarned == Spec => []PromotedWasEarned
<1>1. SkillInv => PromotedWasEarned
  BY DEF SkillInv
<1> QED BY <1>1, InitSkillInv, StepSkillInv, PTL DEF Spec

-----------------------------------------------------------------------------
(* Audit events.                                                           *)

AuditType == {"outcome", "promotion"}

\* The store has what an audit event says.
AuditTrue(e) ==
    IF e.type = "outcome"
    THEN /\ e.skill \in Known
         /\ \E o \in Range(candidates[e.skill].outcomes) :
              o.attempt = e.task /\ o.success = e.success /\ o.refs = e.refs
    ELSE \E p \in Rows(e.skill) : p.by = e.by /\ p.refs = e.refs

AuditsOnce ==
    \A t \in Task \cup Goal : \A i, j \in DOMAIN trail[t] :
        /\ trail[t][i].type \in AuditType /\ trail[t][j].type \in AuditType
        /\ Identity(trail[t][i]) = Identity(trail[t][j])
        => i = j

AuditInv ==
    /\ SkillInv /\ AuditsOnce
    /\ \A e \in Audits : AuditTrue(e)
    /\ job.op \in {"outcome", "promote"} => AuditTrue(job.audit)

\* Outcomes and promotions are never taken back.
StoreGrows ==
    /\ \A s \in Known : /\ s \in Known'
                        /\ Range(candidates[s].outcomes) \subseteq Range(candidates'[s].outcomes)
    /\ Range(promoted) \subseteq Range(promoted')

LEMMA GrowingKeepsTruth ==
    ASSUME StoreGrows
    PROVE  \A e : AuditTrue(e) => AuditTrue(e)'
<1> SUFFICES ASSUME NEW e, AuditTrue(e) PROVE AuditTrue(e)'
    OBVIOUS
<1>1. CASE e.type = "outcome"
  <2>1. PICK o \in Range(candidates[e.skill].outcomes) :
          o.attempt = e.task /\ o.success = e.success /\ o.refs = e.refs
    BY <1>1 DEF AuditTrue
  <2>2. e.skill \in Known /\ e.skill \in Known' /\ o \in Range(candidates'[e.skill].outcomes)
    BY <1>1 DEF AuditTrue, StoreGrows
  <2> QED BY <1>1, <2>1, <2>2 DEF AuditTrue
<1>2. CASE e.type # "outcome"
  BY <1>2 DEF AuditTrue, StoreGrows, Rows
<1> QED BY <1>1, <1>2

LEMMA UnchangedGrows ==
    ASSUME UNCHANGED skillVars
    PROVE  StoreGrows
  BY DEF StoreGrows, skillVars, Known

\* Logging an event adds at most this one to the audits, and not twice.
LEMMA LogAudits ==
    ASSUME TrailLogs, AuditsOnce, NEW home, NEW e, Log(home, e),
           e.type \in AuditType => \A x \in Audits : Identity(x) # Identity(e)
    PROVE  /\ AuditsOnce'
           /\ \A x \in Audits' : x \in Audits \/ (x = e /\ e.type \in AuditType)
<1>1. CASE home \notin Task \cup Goal
  <2>1. UNCHANGED trail
    BY <1>1 DEF Log, TrailLogs
  <2>2. Audits' = Audits
    BY <2>1 DEF Audits
  <2>3. AuditsOnce'
    BY <2>1 DEF AuditsOnce
  <2> QED BY <2>2, <2>3
<1>2. CASE home \in Task \cup Goal
  <2>1. /\ trail'[home] = Append(trail[home], e)
        /\ \A t \in Task \cup Goal : t # home => trail'[t] = trail[t]
    BY <1>2 DEF Log, TrailLogs
  <2> DEFINE n == Len(trail[home])
  <2>2. /\ DOMAIN trail'[home] = 1..(n + 1) /\ n \in Nat /\ DOMAIN trail[home] = 1..n
        /\ \A k \in 1..n : trail'[home][k] = trail[home][k]
        /\ trail'[home][n + 1] = e
        /\ Range(trail'[home]) = Range(trail[home]) \cup {e}
    <3>1. IsLog(trail[home])
      BY <1>2 DEF TrailLogs
    <3> DEFINE was == trail[home]
    <3>2. /\ IsLog(was) /\ trail'[home] = Append(was, e)
      BY <2>1, <3>1
    <3> HIDE DEF was
    <3>3. /\ DOMAIN Append(was, e) = 1..(Len(was) + 1) /\ Len(was) \in Nat
          /\ DOMAIN was = 1..Len(was)
          /\ \A k \in 1..Len(was) : Append(was, e)[k] = was[k]
          /\ Append(was, e)[Len(was) + 1] = e
          /\ Range(Append(was, e)) = Range(was) \cup {e}
      BY <3>2, AppendLog
    <3> QED BY <3>2, <3>3 DEF was
  <2>3. \A x \in Audits' : x \in Audits \/ (x = e /\ e.type \in AuditType)
    <3> SUFFICES ASSUME NEW x \in Audits', x # e PROVE x \in Audits
        BY DEF Audits, AuditType
    <3>1. PICK t \in Task \cup Goal : x \in Range(trail'[t])
      BY DEF Audits
    <3>2. x \in Range(trail[t])
      BY <2>1, <2>2, <3>1
    <3> QED BY <3>2 DEF Audits
  <2>4. \A k \in 1..n : trail[home][k].type \in AuditType => trail[home][k] \in Audits
    BY <1>2, <2>2, RangeMember DEF Audits, AuditType
  <2>5. AuditsOnce'
    <3> SUFFICES ASSUME NEW t \in Task \cup Goal, NEW i \in DOMAIN trail'[t],
                        NEW j \in DOMAIN trail'[t],
                        trail'[t][i].type \in AuditType, trail'[t][j].type \in AuditType,
                        Identity(trail'[t][i]) = Identity(trail'[t][j])
                 PROVE  i = j
        BY DEF AuditsOnce
    <3>1. CASE t # home
      BY <2>1, <3>1 DEF AuditsOnce
    <3>2. CASE t = home
      <4>1. CASE i \in 1..n /\ j \in 1..n
        BY <1>2, <2>2, <3>2, <4>1 DEF AuditsOnce
      <4>2. CASE i = n + 1 /\ j \in 1..n
        BY <2>2, <2>4, <3>2, <4>2
      <4>3. CASE i \in 1..n /\ j = n + 1
        BY <2>2, <2>4, <3>2, <4>3
      <4> QED BY <2>2, <3>2, <4>1, <4>2, <4>3
    <3> QED BY <3>1, <3>2
  <2> QED BY <2>3, <2>5
<1> QED BY <1>1, <1>2

\* A log that begins has no audits.
LEMMA BeginAudits ==
    ASSUME TrailLogs, AuditsOnce, NEW t \in Task \cup Goal, NEW log,
           \A x \in Range(log) : x.type \notin AuditType,
           trail' = [trail EXCEPT ![t] = log]
    PROVE  /\ AuditsOnce'
           /\ \A x \in Audits' : x \in Audits
<1>1. \A u \in Task \cup Goal : trail'[u] = IF u = t THEN log ELSE trail[u]
  BY DEF TrailLogs
<1>2. \A x \in Audits' : x \in Audits
  BY <1>1 DEF Audits, AuditType
<1>3. \A i \in DOMAIN log : log[i].type \notin AuditType
  BY RangeMember
<1>4. AuditsOnce'
  <2> SUFFICES ASSUME NEW u \in Task \cup Goal, NEW i \in DOMAIN trail'[u],
                      NEW j \in DOMAIN trail'[u],
                      trail'[u][i].type \in AuditType, trail'[u][j].type \in AuditType,
                      Identity(trail'[u][i]) = Identity(trail'[u][j])
               PROVE  i = j
      BY DEF AuditsOnce
  <2>1. u # t
    BY <1>1, <1>3
  <2> QED BY <1>1, <2>1 DEF AuditsOnce
<1> QED BY <1>2, <1>4

\* The steps that neither log an audit nor record one to be logged.
LEMMA QuietStep ==
    ASSUME AuditInv, SkillInv', AuditsOnce', \A x \in Audits' : x \in Audits, StoreGrows,
           job'.op \in {"outcome", "promote"} => job' = job
    PROVE  AuditInv'
  BY GrowingKeepsTruth DEF AuditInv

LEMMA SameTrailAudits ==
    ASSUME AuditInv, UNCHANGED trail
    PROVE  AuditsOnce' /\ \A x \in Audits' : x \in Audits
<1>1. AuditsOnce'
  BY DEF AuditInv, AuditsOnce
<1>2. Audits' = Audits
  BY DEF Audits
<1> QED BY <1>1, <1>2

LEMMA DistillGrows ==
    ASSUME NEW s, NEW seed, DistillOnce(s, seed)
    PROVE  StoreGrows
  BY DEF DistillOnce, StoreGrows, Known

LEMMA FailsAreFails ==
    ASSUME NEW causes
    PROVE  \A x \in Range(Fails(causes)) : x.type = "fail"
<1> SUFFICES ASSUME NEW x \in Range(Fails(causes)) PROVE x.type = "fail"
    OBVIOUS
<1>1. PICK k \in DOMAIN Fails(causes) : x = Fails(causes)[k]
  BY DEF Range
<1> QED BY <1>1 DEF Fails

LEMMA StepAuditInv == AuditInv /\ [Next]_vars => AuditInv'
<1> SUFFICES ASSUME AuditInv, [Next]_vars PROVE AuditInv'
    OBVIOUS
<1>1. SkillInv /\ SkillInv' /\ TrailLogs /\ AuditsOnce
  BY StepSkillInv DEF AuditInv, SkillInv
<1>2. ASSUME UNCHANGED trail, StoreGrows, job'.op \in {"outcome", "promote"} => job' = job
      PROVE  AuditInv'
  BY <1>1, <1>2, SameTrailAudits, QuietStep
<1>3. ASSUME NEW t \in Task, NEW course \in Course(t), End(t, course) PROVE AuditInv'
  <2> DEFINE checks == IF course.checked THEN <<[type |-> "check"]>> ELSE <<>>
             last == IF course.last = "decision" THEN [type |-> "decision"]
                     ELSE [type |-> "transition", state |-> course.last]
             log == Fails(course.causes) \o checks \o <<last>>
  <2>1. IsLog(Fails(course.causes)) /\ IsLog(checks) /\ IsLog(<<last>>)
    BY CausesAssumption, FailsIsLog, SmallLogs
  <2>2. Range(log) = Range(Fails(course.causes)) \cup Range(checks) \cup Range(<<last>>)
    BY <2>1, ConcatLog
  <2>3. \A x \in Range(log) : x.type \notin AuditType
    <3>1. \A x \in Range(Fails(course.causes)) : x.type = "fail"
      BY FailsAreFails
    <3>2. \A x \in Range(checks) : x.type = "check"
      BY SmallLogs
    <3>3. \A x \in Range(<<last>>) : x.type \in {"decision", "transition"}
      BY SmallLogs
    <3> QED BY <2>2, <3>1, <3>2, <3>3 DEF AuditType
  <2>4. AuditsOnce' /\ \A x \in Audits' : x \in Audits
    BY <1>1, <1>3, <2>3, BeginAudits DEF End
  <2>5. StoreGrows /\ job' = job
    BY <1>3, UnchangedGrows DEF End, skillVars
  <2> QED BY <1>1, <2>4, <2>5, QuietStep
<1>4. ASSUME NEW t \in Task, NEW options, BeginReflect(t, options) PROVE AuditInv'
  <2>1. AuditsOnce' /\ \A x \in Audits' : x \in Audits
    <3>1. CASE EventsOf(t, "intent") = {}
      <4>1. Log(t, [type |-> "intent", options |-> options, created |-> day, source |-> Source(t)])
        BY <1>4, <3>1 DEF BeginReflect
      <4> QED BY <1>1, <4>1, LogAudits DEF AuditType
    <3>2. CASE EventsOf(t, "intent") # {}
      BY <1>4, <3>2, SameTrailAudits DEF BeginReflect
    <3> QED BY <3>1, <3>2
  <2>2. StoreGrows /\ job'.op = "reflect"
    BY <1>4, UnchangedGrows DEF BeginReflect, skillVars
  <2> QED BY <1>1, <2>1, <2>2, QuietStep
<1>5. CASE WriteEntry
  <2>1. job.op = "reflect" /\ job = [op |-> "reflect", task |-> job.task, k |-> job.k, at |-> job.at]
    BY <1>1, <1>5 DEF WriteEntry, SkillInv, JobOK
  <2>2. job'.op \notin {"outcome", "promote"}
    BY <1>5, <2>1 DEF WriteEntry, Idle
  <2> QED BY <1>2, <1>5, <2>2, UnchangedGrows DEF WriteEntry, skillVars
<1>6. CASE WriteManifest
  <2>1. job.op = "reflect" /\ job = [op |-> "reflect", task |-> job.task, k |-> job.k, at |-> job.at]
    BY <1>1, <1>6 DEF WriteManifest, SkillInv, JobOK
  <2>2. job'.op \notin {"outcome", "promote"}
    BY <1>6, <2>1 DEF WriteManifest, Idle
  <2>3. AuditsOnce' /\ \A x \in Audits' : x \in Audits
    BY <1>1, <1>6, LogAudits DEF WriteManifest, AuditType
  <2> QED BY <1>1, <1>6, <2>2, <2>3, UnchangedGrows, QuietStep DEF WriteManifest, skillVars
<1>7. CASE Distill
  <2>1. StoreGrows
    BY <1>7, UnchangedGrows, DistillGrows DEF Distill
  <2> QED BY <1>2, <1>7, <2>1 DEF Distill, Idle
<1>8. ASSUME NEW t \in Task, NEW s \in Skill, BeginOutcome(s, t) PROVE AuditInv'
  <2> DEFINE o == [attempt |-> t, success |-> Verified(t), refs |-> Evidence(t)]
             prior == {x \in Range(candidates[s].outcomes) : x.attempt = t}
  <2>1. s \in Known /\ RecordOutcome(s, o) /\ CandidateOK(s)
    BY <1>1, <1>8 DEF BeginOutcome, SkillInv
  <2>2. StoreGrows /\ s \in Known' /\ o \in Range(candidates'[s].outcomes)
    <3>1. CASE prior = {}
      <4>1. candidates' = Counted(s, o) /\ UNCHANGED promoted
        BY <2>1, <3>1 DEF RecordOutcome
      <4>2. candidates'[s].outcomes = Append(candidates[s].outcomes, o)
        BY <2>1, <4>1 DEF Counted, CandidateOK, Known
      <4>3. Range(candidates'[s].outcomes) = Range(candidates[s].outcomes) \cup {o}
        BY <2>1, <4>2, AppendLog DEF CandidateOK
      <4>4. Known' = Known /\ \A x \in Known : x # s => candidates'[x] = candidates[x]
        BY <4>1 DEF Counted, Known
      <4> QED BY <2>1, <4>1, <4>3, <4>4 DEF StoreGrows
    <3>2. CASE prior # {}
      <4>1. UNCHANGED skillVars /\ o \in Range(candidates[s].outcomes)
        BY <2>1, <3>2 DEF RecordOutcome, skillVars
      <4> QED BY <2>1, <4>1, UnchangedGrows DEF skillVars, Known
    <3> QED BY <3>1, <3>2
  <2>3. job'.audit = [type |-> "outcome", skill |-> s, task |-> t,
                      success |-> Verified(t), refs |-> Evidence(t)]
    BY <1>8 DEF BeginOutcome
  <2>4. AuditTrue(job.audit)'
    BY <2>2, <2>3 DEF AuditTrue
  <2>5. AuditsOnce' /\ \A x \in Audits' : x \in Audits
    BY <1>8, SameTrailAudits DEF BeginOutcome
  <2> QED BY <1>1, <2>2, <2>4, <2>5, GrowingKeepsTruth DEF AuditInv
<1>9. ASSUME NEW s \in Skill, NEW by \in Approver, BeginPromote(s, by) PROVE AuditInv'
  <2> DEFINE p == [skill |-> s, by |-> by, refs |-> SuccessRefs(s),
                   outcomes |-> candidates[s].outcomes]
  <2>1. Promote(s, by, SuccessRefs(s)) /\ UNCHANGED <<trail, candidates>>
    BY <1>9 DEF BeginPromote, Promote
  <2>2. StoreGrows /\ \E q \in Range(promoted') : q.skill = s /\ q.by = by /\ q.refs = SuccessRefs(s)
    <3>1. CASE Rows(s) = {}
      <4>1. promoted' = Append(promoted, p)
        BY <2>1, <3>1 DEF Promote
      <4>2. Range(promoted') = Range(promoted) \cup {p}
        BY <1>1, <4>1, AppendLog DEF SkillInv
      <4>3. StoreGrows
        BY <2>1, <4>2 DEF StoreGrows, Known
      <4>4. p \in Range(promoted')
        BY <4>2
      <4>5. p.skill = s /\ p.by = by /\ p.refs = SuccessRefs(s)
        OBVIOUS
      <4> HIDE DEF p
      <4> QED BY <4>3, <4>4, <4>5
    <3>2. CASE Rows(s) # {}
      <4>1. UNCHANGED <<promoted, candidates>>
        BY <2>1, <3>2 DEF Promote
      <4> DEFINE refs == SuccessRefs(s)
      <4>0. MayPromote(s, by, refs)
        BY <2>1 DEF Promote
      <4> HIDE DEF refs
      <4>2. PICK q \in Rows(s) : q.by = by /\ q.refs = refs
        <5>1. \A x \in Rows(s) : x.by = by /\ x.refs = refs
          BY <3>2, <4>0 DEF MayPromote
        <5>2. PICK x : x \in Rows(s)
          BY <3>2
        <5> QED BY <5>1, <5>2
      <4>3. q \in Range(promoted) /\ q.skill = s
        BY DEF Rows
      <4>4. StoreGrows
        BY <4>1, UnchangedGrows DEF skillVars
      <4>5. q \in Range(promoted')
        BY <4>1, <4>3
      <4> QED BY <4>2, <4>3, <4>4, <4>5 DEF refs
    <3> QED BY <3>1, <3>2
  <2>3. job'.audit = [type |-> "promotion", skill |-> s, by |-> by, refs |-> SuccessRefs(s)]
    BY <1>9 DEF BeginPromote
  <2>4. AuditTrue(job.audit)'
    BY <2>2, <2>3 DEF AuditTrue, Rows
  <2>5. AuditsOnce' /\ \A x \in Audits' : x \in Audits
    BY <2>1, SameTrailAudits
  <2> QED BY <1>1, <2>2, <2>4, <2>5, GrowingKeepsTruth DEF AuditInv
<1>10. CASE Audit
  <2>1. AuditTrue(job.audit) /\ job' = Idle
    BY <1>10 DEF Audit, AuditInv
  <2>2. UNCHANGED skillVars
    BY <1>10 DEF Audit, skillVars
  <2>3. AuditsOnce' /\ \A x \in Audits' : x \in Audits \/ x = job.audit
    <3>1. CASE \E x \in Audits : Identity(x) = Identity(job.audit)
      BY <1>10, <3>1, SameTrailAudits DEF Audit, SkillAudit
    <3>2. CASE ~ \E x \in Audits : Identity(x) = Identity(job.audit)
      BY <1>1, <1>10, <3>2, LogAudits DEF Audit, SkillAudit
    <3> QED BY <3>1, <3>2
  <2> QED BY <1>1, <2>1, <2>2, <2>3, UnchangedGrows, GrowingKeepsTruth DEF AuditInv, Idle
<1>11. CASE Die \/ Housekeeping \/ UNCHANGED vars
  BY <1>2, <1>11, UnchangedGrows DEF Die, Housekeeping, vars, learningVars, skillVars, Idle
<1>12. CASE LearningNext
  BY <1>3, <1>4, <1>5, <1>6, <1>7, <1>8, <1>9, <1>10, <1>11, <1>12 DEF LearningNext
<1>13. ASSUME NEW goal \in Goal, NEW course \in Course(goal),
              RunLoop(goal, course.causes, course.last)
       PROVE  AuditInv'
  <2> DEFINE gate == <<[type |-> "gate", decision |-> course.last]>>
             log == Fails(course.causes) \o gate
  <2>1. IsLog(Fails(course.causes)) /\ IsLog(gate)
    BY CausesAssumption, FailsIsLog, SmallLogs
  <2>2. Range(log) = Range(Fails(course.causes)) \cup Range(gate)
    BY <2>1, ConcatLog
  <2>3. \A x \in Range(log) : x.type \notin AuditType
    <3>1. \A x \in Range(Fails(course.causes)) : x.type = "fail"
      BY FailsAreFails
    <3>2. \A x \in Range(gate) : x.type = "gate"
      BY SmallLogs
    <3> QED BY <2>2, <3>1, <3>2 DEF AuditType
  <2>4. AuditsOnce' /\ \A x \in Audits' : x \in Audits
    BY <1>1, <1>13, <2>3, BeginAudits DEF RunLoop
  <2>5. StoreGrows /\ job' = job
    BY <1>13, UnchangedGrows DEF RunLoop, skillVars
  <2> QED BY <1>1, <2>4, <2>5, QuietStep
<1>14. CASE DistillRun
  <2>1. StoreGrows
    BY <1>14, UnchangedGrows, DistillGrows DEF DistillRun
  <2> QED BY <1>2, <1>14, <2>1 DEF DistillRun
<1>15. CASE UNCHANGED <<trail, job, candidates, promoted>>
  BY <1>2, <1>15, UnchangedGrows DEF skillVars
<1>16. CASE EngineNext
  BY <1>13, <1>14, <1>15, <1>16 DEF EngineNext, TakeItem, Reflect, Raise, Finish, Rotate,
     DieRunning, Restart, Open, UseAgenda, learningVars
<1> QED BY <1>11, <1>12, <1>16 DEF Next

\* Audit events tell what the store has, and each thing once, although a
\* process may die between the store's row and its event and the call is
\* repeated (skill_outcome, skill_promote, _skill_audit).
THEOREM AuditsTrue == Spec => []AuditsAreTrue
<1>1. Init => AuditInv
  <2>1. ASSUME Init PROVE Audits = {} /\ AuditsOnce /\ job.op = "none"
    BY <2>1, SmallLogs DEF Init, LearningInit, Audits, AuditsOnce, Idle
  <2> QED BY <2>1, InitSkillInv DEF AuditInv
<1>2. AuditInv => AuditsAreTrue
  <2> SUFFICES ASSUME AuditInv PROVE AuditsAreTrue
      OBVIOUS
  <2>1. \A e \in Audits : AuditTrue(e)
    BY DEF AuditInv
  <2>2. AuditsOnce
    BY DEF AuditInv
  <2>3. \A e \in Audits : e.type \in AuditType
    BY DEF Audits, AuditType
  <2> QED BY <2>1, <2>2, <2>3 DEF AuditsAreTrue, AuditTrue, AuditsOnce
<1> QED BY <1>1, <1>2, StepAuditInv, PTL DEF Spec

=============================================================================
