--------------------------- MODULE RunNextProofs ---------------------------
(***************************************************************************)
(* What the agenda tells of its items, and what reflections leave in       *)
(* memory, in the trails of their tasks and in the skill store: for every  *)
(* number of tasks, contracts, items, instances, runs, calls and deaths.   *)
(***************************************************************************)
EXTENDS SkillProofs

\* The run and the agenda have their types.
RunType ==
    \/ run \in [at : {"idle", "down"}]
    \/ run \in [at : {"work"}, item : Item]
    \/ run \in [at : {"settle"}, item : Item, result : {"raised"}]
    \/ run \in [at : {"reflect", "distill", "settle"}, item : Item, goal : Goal,
                result : Result \cup {"raised"}, rotated : BOOLEAN]

AgendaType ==
    /\ saved \in [Item -> Status]
    /\ held \in [Instance -> [Item -> Status]]

Running == run.at \notin {"idle", "down"}

\* The engine's own list has the item that it runs as active ...
RunnerHolds == Running => held[Me][run.item] = "active"

\* ... and no list has an item as done that never passed.
HeldDone == \A i \in Instance, it \in Item : held[i][it] = "done" => it \in passed

AgendaInv ==
    /\ RunType /\ AgendaType
    /\ RunnerHolds /\ HeldDone /\ DoneWasPassed /\ AgendaTellsOutcome

-----------------------------------------------------------------------------
(* What one save does.                                                     *)

\* A save changes one place of one list and puts that list into the file: an
\* item that it does not mark as clobbered stands in the file as before, or is
\* the saved one and had stood there as in the list (Agenda._save).
LEMMA SaveEffect ==
    ASSUME AgendaType, NEW i \in Instance, NEW it \in Item, NEW status \in Status,
           Save(i, it, status)
    PROVE  /\ AgendaType'
           /\ held'[i][it] = status /\ saved'[it] = status
           /\ \A x \in Item : x # it => held'[i][x] = held[i][x] /\ saved'[x] = held[i][x]
           /\ \A j \in Instance : j # i => held'[j] = held[j]
           /\ clobbered \subseteq clobbered'
           /\ \A x \in Item \ clobbered' : held[i][x] = saved[x]
  BY DEF AgendaType, Save

\* A save keeps the lists free of done items that never passed.
LEMMA SaveKeepsDone ==
    ASSUME AgendaType, HeldDone, DoneWasPassed,
           NEW i \in Instance, NEW it \in Item, NEW status \in Status,
           Save(i, it, status), passed \subseteq passed',
           status = "done" => it \in passed'
    PROVE  HeldDone' /\ DoneWasPassed'
  BY SaveEffect DEF HeldDone, DoneWasPassed

\* The items of which a save says nothing new keep what the agenda tells.
LEMMA SaveKeepsOthers ==
    ASSUME AgendaType, AgendaTellsOutcome,
           NEW i \in Instance, NEW it \in Item, NEW status \in Status,
           Save(i, it, status)
    PROVE  \A x \in Item \ clobbered' :
             /\ x \notin clobbered /\ held[i][x] = saved[x]
             /\ x # it => saved'[x] = saved[x]
             /\ saved[x] = "active" => (Running /\ run.item = x) \/ x \in stranded
             /\ saved[x] = "done" <=> x \in passed
  BY SaveEffect DEF AgendaTellsOutcome, Running

-----------------------------------------------------------------------------

LEMMA InitAgendaInv == Init => AgendaInv
  BY DEF Init, AgendaInit, NoItems, Status, NoRun, AgendaInv, RunType, AgendaType, Running,
         RunnerHolds, HeldDone, DoneWasPassed, AgendaTellsOutcome

LEMMA StepAgendaInv == AgendaInv /\ [Next]_vars => AgendaInv'
<1> SUFFICES ASSUME AgendaInv, [Next]_vars PROVE AgendaInv'
    OBVIOUS
<1> USE MeAssumption DEF AgendaInv
<1>1. CASE UNCHANGED engineVars
  BY <1>1 DEF engineVars, RunType, AgendaType, Running, RunnerHolds, HeldDone, DoneWasPassed,
              AgendaTellsOutcome
<1>2. ASSUME NEW it \in Item, TakeItem(it) PROVE AgendaInv'
  <2>1. Save(Me, it, "active") /\ "active" \in Status /\ held[Me][it] = "pending"
    BY <1>2 DEF TakeItem, Activate, Status, NextPending
  <2>2. RunType'
    BY <1>2 DEF TakeItem, RunType
  <2>3. AgendaType' /\ RunnerHolds'
    BY <1>2, <2>1, SaveEffect DEF TakeItem, RunnerHolds
  <2>4. HeldDone' /\ DoneWasPassed'
    BY <1>2, <2>1, SaveKeepsDone DEF TakeItem
  <2>5. AgendaTellsOutcome'
    BY <1>2, <2>1, SaveEffect, SaveKeepsOthers DEF TakeItem, NoRun, Running, AgendaTellsOutcome
  <2> QED BY <2>2, <2>3, <2>4, <2>5
<1>3. ASSUME NEW goal \in Goal, NEW course \in Course(goal),
             RunLoop(goal, course.causes, course.last)
      PROVE  AgendaInv'
  <2>1. RunType'
    BY <1>3, CourseAssumption DEF RunLoop, RunType
  <2> QED BY <1>3, <2>1 DEF RunLoop, RunType, AgendaType, Running, RunnerHolds, HeldDone,
                            DoneWasPassed, AgendaTellsOutcome
<1>4. CASE (\E goal \in Goal : \E ttl \in Options(goal) : Reflect(goal, ttl))
           \/ DistillRun \/ Raise \/ Rotate
  <2>1. /\ RunType' /\ Running /\ Running'
        /\ run'.item = run.item
        /\ UNCHANGED <<saved, held, clobbered, passed, stranded>>
    <3>1. CASE Raise
      BY <3>1 DEF Raise, RunType, Running
    <3>2. ASSUME ~Raise PROVE run.at \in {"reflect", "distill"}
      BY <1>4, <3>2 DEF Reflect, DistillRun, Rotate
    <3>3. CASE ~Raise
      <4>1. run \in [at : {"reflect", "distill", "settle"}, item : Item, goal : Goal,
                     result : Result \cup {"raised"}, rotated : BOOLEAN]
        BY <3>2, <3>3 DEF RunType
      <4>2. CASE \E goal \in Goal : \E ttl \in Options(goal) : Reflect(goal, ttl)
        BY <4>1, <4>2, <3>2, <3>3 DEF Reflect, RunType, Running
      <4>3. CASE DistillRun
        BY <4>1, <4>3, <3>2, <3>3 DEF DistillRun, RunType, Running
      <4>4. CASE Rotate
        BY <4>1, <4>4, <3>2, <3>3 DEF Rotate, RunType, Running
      <4> QED BY <1>4, <3>3, <4>2, <4>3, <4>4
    <3> QED BY <3>1, <3>3
  <2> QED BY <2>1 DEF AgendaType, Running, RunnerHolds, HeldDone, DoneWasPassed,
                      AgendaTellsOutcome
<1>5. CASE Finish
  <2>1. Running /\ run.item \in Item /\ run' = NoRun /\ held[Me][run.item] = "active"
    BY <1>5 DEF Finish, RunType, Running, RunnerHolds
  <2>2. PICK status \in {"done", "pending"} :
          /\ Save(Me, run.item, status)
          /\ passed' = IF status = "done" THEN passed \cup {run.item} ELSE passed
          /\ UNCHANGED stranded
    BY <1>5 DEF Finish, Settle, MarkDone, Defer
  <2>3. status \in Status
    BY DEF Status
  <2>4. RunType' /\ ~Running' /\ RunnerHolds'
    BY <2>1 DEF NoRun, RunType, Running, RunnerHolds
  <2>5. AgendaType'
    BY <2>1, <2>2, <2>3, SaveEffect
  <2>6. HeldDone' /\ DoneWasPassed'
    BY <2>1, <2>2, <2>3, SaveKeepsDone
  <2>7. AgendaTellsOutcome'
    BY <2>1, <2>2, <2>3, SaveEffect, SaveKeepsOthers DEF AgendaTellsOutcome
  <2> QED BY <2>4, <2>5, <2>6, <2>7
<1>6. CASE DieRunning
  BY <1>6 DEF DieRunning, Forget, NoItems, Status, RunType, AgendaType, Running, RunnerHolds,
              HeldDone, DoneWasPassed, AgendaTellsOutcome
<1>7. CASE Restart
  BY <1>7 DEF Restart, Load, NoRun, RunType, AgendaType, Running, RunnerHolds,
              HeldDone, DoneWasPassed, AgendaTellsOutcome
<1>8. ASSUME NEW i \in Instance, Open(i) PROVE AgendaInv'
  BY <1>8 DEF Open, Load, learningVars, RunType, AgendaType, Running, RunnerHolds,
              HeldDone, DoneWasPassed, AgendaTellsOutcome
<1>9. ASSUME NEW i \in Instance, NEW it \in Item, UseAgenda(i, it) PROVE AgendaInv'
  <2>1. PICK status \in {"pending", "dropped"} : Save(i, it, status)
    BY <1>9 DEF UseAgenda, Add, Drop
  <2>2. status \in Status
    BY DEF Status
  <2>3. UNCHANGED <<run, passed, stranded>> /\ (Running => i # Me)
    BY <1>9 DEF UseAgenda, AgendaMay, Running
  <2>4. RunType' /\ AgendaType'
    BY <2>1, <2>2, <2>3, SaveEffect DEF RunType
  <2>5. RunnerHolds'
    BY <2>1, <2>2, <2>3, SaveEffect DEF RunnerHolds, Running
  <2>6. HeldDone' /\ DoneWasPassed'
    BY <2>1, <2>2, <2>3, SaveKeepsDone
  <2>7. held[i][it] # "done"
    BY <1>9 DEF UseAgenda, Add, Drop
  <2>8. AgendaTellsOutcome'
    BY <2>1, <2>2, <2>3, <2>7, SaveEffect, SaveKeepsOthers DEF AgendaTellsOutcome, Running
  <2> QED BY <2>4, <2>5, <2>6, <2>8
<1> QED
  BY <1>1, <1>2, <1>3, <1>4, <1>5, <1>6, <1>7, <1>8, <1>9 DEF Next, EngineNext, vars

\* The engine's list has its own item as active, and no list has an item as
\* done that never passed (Agenda._save and run_next).
THEOREM AgendaInvariant == Spec => []AgendaInv
  BY InitAgendaInv, StepAgendaInv, PTL DEF Spec

\* The agenda says what became of an item, until an old list replaces it: it
\* is active only while it runs unless a death stranded it, and done exactly
\* when a run of it passed (run_next with its finally clause).
THEOREM AgendaTells == Spec => []AgendaTellsOutcome
  BY AgendaInvariant, PTL DEF AgendaInv

\* However old the list that an instance saves, no item is done of which no
\* run has passed.
THEOREM DoneMeansPassed == Spec => []DoneWasPassed
  BY AgendaInvariant, PTL DEF AgendaInv

-----------------------------------------------------------------------------
(* The order of a log.                                                     *)

\* Some numbers in their order: each of them, once.
LEMMA AscendingIs ==
    ASSUME NEW n \in Nat, NEW S \in SUBSET (1..n)
    PROVE  /\ Cardinality(S) \in Nat /\ DOMAIN Ascending(S) = 1..Cardinality(S)
           /\ \A k \in 1..Cardinality(S) : Ascending(S)[k] \in S
           /\ \A k, l \in 1..Cardinality(S) : Ascending(S)[k] = Ascending(S)[l] => k = l
           /\ \A i \in S : \E k \in 1..Cardinality(S) : Ascending(S)[k] = i
<1> DEFINE c == Cardinality(S)
           upTo(i) == {j \in S : j <= i}
           rank == [i \in S |-> Cardinality(upTo(i))]
<1>1. IsFiniteSet(S) /\ c \in Nat
  <2>1. IsFiniteSet(1..n)
    BY FS_Interval
  <2>2. IsFiniteSet(S)
    BY <2>1, FS_Subset
  <2> QED BY <2>2, FS_CardinalityType
<1>2. ASSUME NEW i \in S
      PROVE  /\ IsFiniteSet(upTo(i)) /\ i \in upTo(i)
             /\ Cardinality(upTo(i)) \in 1..c
  <2>1. upTo(i) \in SUBSET S /\ i \in upTo(i)
    OBVIOUS
  <2>2. IsFiniteSet(upTo(i)) /\ Cardinality(upTo(i)) <= c
    BY <1>1, <2>1, FS_Subset
  <2>3. Cardinality(upTo(i)) \in Nat
    BY <2>2, FS_CardinalityType
  <2>4. Cardinality(upTo(i)) # 0
    BY <2>1, <2>2, FS_EmptySet
  <2> HIDE DEF c, upTo
  <2> QED BY <1>1, <2>1, <2>2, <2>3, <2>4
<1>3. ASSUME NEW i \in S, NEW h \in S, i < h
      PROVE  Cardinality(upTo(i)) # Cardinality(upTo(h))
  <2>0. S \subseteq Int
    OBVIOUS
  <2>1. upTo(i) \in SUBSET upTo(h) /\ h \in upTo(h) /\ h \notin upTo(i)
    <3>1. i \in Int /\ h \in Int /\ h <= h /\ ~(h <= i)
      BY <1>3, <2>0
    <3>2. \A j \in S : j <= i => j <= h
      BY <1>3, <2>0, <3>1
    <3> QED BY <3>1, <3>2
  <2>2. IsFiniteSet(upTo(h))
    BY <1>2
  <2>3. Cardinality(upTo(h)) = Cardinality(upTo(i)) => upTo(h) = upTo(i)
    BY <2>1, <2>2, FS_Subset
  <2> QED BY <2>1, <2>3
<1>4. \A i, h \in S : rank[i] = rank[h] => i = h
  <2> SUFFICES ASSUME NEW i \in S, NEW h \in S, i # h PROVE rank[i] # rank[h]
      OBVIOUS
  <2>1. i < h \/ h < i
    OBVIOUS
  <2> QED BY <1>3, <2>1
<1> HIDE DEF upTo
<1>5. rank \in Injection(S, 1..c)
  <2>1. rank \in [S -> 1..c]
    BY <1>2
  <2> QED BY <1>4, <2>1 DEF Injection, IsInjective
<1>6. rank \in Surjection(S, 1..c)
  <2>1. IsFiniteSet(1..c) /\ Cardinality(1..c) = c
    <3> HIDE DEF c
    <3> QED BY <1>1, FS_Interval
  <2> QED BY <1>5, <2>1, FS_Injection
<1>7. \A k \in 1..c : \E i \in S : rank[i] = k
  BY <1>6 DEF Surjection
<1>8. \A k \in 1..c : Ascending(S)[k] \in S /\ rank[Ascending(S)[k]] = k
  <2> SUFFICES ASSUME NEW k \in 1..c
               PROVE  Ascending(S)[k] \in S /\ rank[Ascending(S)[k]] = k
      OBVIOUS
  <2>1. PICK i \in S : rank[i] = k
    BY <1>7
  <2>2. Ascending(S)[k] = CHOOSE x \in S : Cardinality(upTo(x)) = k
    BY DEF Ascending, upTo
  <2>3. Cardinality(upTo(i)) = k
    BY <2>1
  <2> QED BY <2>2, <2>3
<1>9. \A i \in S : Ascending(S)[rank[i]] = i
  <2> SUFFICES ASSUME NEW i \in S PROVE Ascending(S)[rank[i]] = i
      OBVIOUS
  <2>1. rank[i] \in 1..c
    BY <1>2
  <2> QED BY <1>4, <1>8, <2>1
<1>10. DOMAIN Ascending(S) = 1..c
  BY DEF Ascending
<1>11. \A i \in S : rank[i] \in 1..c
  BY <1>2
<1> HIDE DEF rank
<1> QED BY <1>1, <1>8, <1>9, <1>10, <1>11

\* A function on places from 1 on is a log.
LEMMA LogOf ==
    ASSUME NEW n \in Nat, NEW s, s = [k \in 1..n |-> s[k]]
    PROVE  IsLog(s) /\ Len(s) = n /\ DOMAIN s = 1..n
<1>1. s \in [1..n -> Range(s)]
  BY DEF Range
<1>2. s \in Seq(Range(s))
  BY <1>1
<1> QED BY <1>1, <1>2 DEF IsLog

\* What is left of a log stands in it, each in its own place.
LEMMA WithoutIs ==
    ASSUME NEW s, IsLog(s), NEW out
    PROVE  /\ IsLog(Without(s, out))
           /\ Range(Without(s, out)) = Range(s) \ out
           /\ \E p : /\ \A k \in DOMAIN Without(s, out) :
                           p[k] \in DOMAIN s /\ Without(s, out)[k] = s[p[k]]
                     /\ \A k, l \in DOMAIN Without(s, out) : p[k] = p[l] => k = l
<1> DEFINE S == {i \in DOMAIN s : s[i] \notin out}
           c == Cardinality(S)
           p == Ascending(S)
           w == Without(s, out)
<1>1. Len(s) \in Nat /\ S \in SUBSET (1..Len(s)) /\ DOMAIN s = 1..Len(s)
  BY s \in Seq(Range(s)) DEF IsLog
<1>2. /\ c \in Nat /\ DOMAIN p = 1..c
      /\ \A k \in 1..c : p[k] \in S
      /\ \A k, l \in 1..c : p[k] = p[l] => k = l
      /\ \A i \in S : \E k \in 1..c : p[k] = i
  <2> HIDE DEF S
  <2> QED BY <1>1, AscendingIs
<1>3. w = [k \in DOMAIN p |-> s[p[k]]]
  BY DEF Without
<1> HIDE DEF p, c, w
<1>4. IsLog(w) /\ DOMAIN w = 1..c
  BY <1>2, <1>3, LogOf
<1>5. Range(w) = Range(s) \ out
  <2>1. ASSUME NEW x \in Range(w) PROVE x \in Range(s) \ out
    BY <1>2, <1>3 DEF Range
  <2>2. ASSUME NEW x \in Range(s) \ out PROVE x \in Range(w)
    <3>1. PICK i \in S : x = s[i]
      BY DEF Range
    <3>2. PICK k \in 1..c : p[k] = i
      BY <1>2
    <3>3. w[k] = x /\ k \in DOMAIN w
      BY <1>2, <1>3, <3>1, <3>2
    <3> QED BY <3>3 DEF Range
  <2> QED BY <2>1, <2>2
<1>6. /\ \A k \in DOMAIN w : p[k] \in DOMAIN s /\ w[k] = s[p[k]]
      /\ \A k, l \in DOMAIN w : p[k] = p[l] => k = l
  BY <1>2, <1>3
<1> QED BY <1>4, <1>5, <1>6 DEF w

-----------------------------------------------------------------------------
(* What holds of reflections.                                              *)

Subject == Task \cup Goal

Intents(t) == EventsOf(t, "intent")

\* Nothing is dated after today.
DatesInv ==
    /\ day \in 0..MaxDay /\ deaths \in 0..MaxDeaths
    /\ \A t \in Subject : \A i \in EventsOf(t, "fail") : trail[t][i].day \in 0..day
    /\ \A t \in Subject : \A i \in Intents(t) : trail[t][i].created \in 0..day

\* An entry of a reflection is in memory, or was.
Stored(t, k) ==
    \/ Entries(t)[k][2] \in Range(memory[Entries(t)[k][1]])
    \/ Entries(t)[k][2].id \in gone

\* A task has one intent and one reflection, which names what was written.
MarksInv ==
    \A t \in Task :
        /\ \A i, j \in Intents(t) : i = j
        /\ Reflected(t) => Intents(t) # {}
        /\ \A i \in EventsOf(t, "reflected") :
             /\ trail[t][i].entries = Named(t)
             /\ \A j \in EventsOf(t, "reflected") : i = j
             /\ \A k \in DOMAIN Entries(t) : Stored(t, k)

\* A call of reflect has written what it has counted.
WriterInv ==
    /\ job.op \in {"none", "reflect", "outcome", "promote"}
    /\ job.op = "reflect" =>
         /\ job.task \in Task /\ Intents(job.task) # {} /\ job.at \in {"write", "distill"}
         /\ job.at = "write" => /\ ~Reflected(job.task)
                                /\ job.k \in Nat
                                /\ \A k \in 1..job.k :
                                     k \in DOMAIN Entries(job.task) /\ Stored(job.task, k)
         /\ job.at = "distill" => Reflected(job.task)

\* An entry is one that its task's intent asks for, or of a run's own
\* reflection, which is over.
OwnEntry(type, e) ==
    \/ \E t \in Task :
         /\ Intents(t) # {} /\ e.id[1] = t
         /\ \E k \in DOMAIN Entries(t) : Entries(t)[k] = <<type, e>>
    \/ \E goal \in Goal :
         /\ e.id[1] = goal /\ trail[goal] # <<>>
         /\ ~(run.at = "reflect" /\ run.goal = goal)

MemoryInv ==
    /\ memory = [type \in MemoryType |-> memory[type]]
    /\ \A type \in MemoryType : IsLog(memory[type])
    /\ \A type \in MemoryType : \A e \in Range(memory[type]) : Entry(e) /\ OwnEntry(type, e)
    /\ OneEntryPerCause
    /\ run.at = "reflect" => run.goal \in Goal /\ trail[run.goal] # <<>>

\* The skill of a task is made of its reflection.
SeedInv ==
    /\ Known \subseteq Subject
    /\ \A s \in Known \cap Task : Reflected(s) /\ candidates[s].seed = Seed(s)
    /\ \A s \in Known : candidates[s].attempts = Len(candidates[s].outcomes)

ReflectInv == DatesInv /\ MarksInv /\ WriterInv /\ MemoryInv /\ SeedInv

-----------------------------------------------------------------------------
(* What a reflection writes.                                               *)

\* The signals are places of failures.
LEMMA SignalPlaces ==
    ASSUME TrailLogs, NEW t \in Subject, NEW upTo
    PROVE  \A k \in DOMAIN Signals(t, upTo) : Signals(t, upTo)[k] \in EventsOf(t, "fail")
<1> DEFINE F == EventsOf(t, "fail")
           S == {j \in F : j <= upTo /\ \A h \in F : h < j => trail[t][h].cause # trail[t][j].cause}
<1>1. IsLog(trail[t])
  BY DEF TrailLogs, Subject
<1>2. Len(trail[t]) \in Nat /\ DOMAIN trail[t] = 1..Len(trail[t])
  BY <1>1, trail[t] \in Seq(Range(trail[t])) DEF IsLog
<1>3. S \in SUBSET (1..Len(trail[t])) /\ S \subseteq F
  BY <1>2 DEF EventsOf
<1>4. Signals(t, upTo) = Ascending(S)
  BY DEF Signals
<1> HIDE DEF S, F
<1>5. \A k \in DOMAIN Ascending(S) : Ascending(S)[k] \in S
  BY <1>2, <1>3, AscendingIs
<1> QED BY <1>3, <1>4, <1>5 DEF F

\* One entry for every cause of a contract, with the day of its event.
LEMMA FailureEntriesAre ==
    ASSUME TrailLogs, DatesInv, NEW t \in Subject, NEW upTo, NEW ttl
    PROVE  LET f == FailureEntries(t, upTo, ttl)
           IN  /\ IsLog(f)
               /\ \A k \in DOMAIN f : /\ Entry(f[k])
                                      /\ f[k].id[1] = t /\ f[k].id[2] = "failure"
               /\ \A k, l \in DOMAIN f : f[k].id = f[l].id => k = l
<1> DEFINE F == EventsOf(t, "fail")
           cause(j) == trail[t][j].cause
           S == {j \in F : j <= upTo /\ \A h \in F : h < j => cause(h) # cause(j)}
           s == Signals(t, upTo)
           f == FailureEntries(t, upTo, ttl)
           c == Cardinality(S)
<1>1. Len(trail[t]) \in Nat /\ DOMAIN trail[t] = 1..Len(trail[t])
  <2>1. IsLog(trail[t])
    BY DEF TrailLogs, Subject
  <2> QED BY <2>1, trail[t] \in Seq(Range(trail[t])) DEF IsLog
<1>2. S \in SUBSET (1..Len(trail[t])) /\ S \subseteq F
  BY <1>1 DEF EventsOf
<1>3. s = Ascending(S)
  BY DEF Signals
<1>4. \A i, j \in S : cause(i) = cause(j) => i = j
  <2> SUFFICES ASSUME NEW i \in S, NEW j \in S, i # j PROVE cause(i) # cause(j)
      OBVIOUS
  <2>1. i \in F /\ j \in F /\ (i < j \/ j < i)
    BY <1>1, <1>2
  <2> QED BY <2>1
<1> HIDE DEF S, cause
<1>5. /\ c \in Nat /\ DOMAIN s = 1..c
      /\ \A k \in 1..c : s[k] \in S
      /\ \A k, l \in 1..c : s[k] = s[l] => k = l
  BY <1>1, <1>2, <1>3, AscendingIs
<1>6. f = [k \in 1..c |-> FailureEntry(t, s[k], ttl)]
  BY <1>5 DEF FailureEntries
<1> HIDE DEF s, f, c
<1>7. IsLog(f) /\ DOMAIN f = 1..c
  BY <1>5, <1>6, LogOf
<1>8. \A k \in 1..c : /\ f[k].id = <<t, "failure", cause(s[k])>>
                      /\ f[k].created = trail[t][s[k]].day
                      /\ DOMAIN f[k] = {"id", "created", "ttl", "source"}
  BY <1>6 DEF FailureEntry, cause
<1>9. \A k \in 1..c : Entry(f[k])
  <2> SUFFICES ASSUME NEW k \in 1..c PROVE Entry(f[k])
      OBVIOUS
  <2>1. s[k] \in F
    BY <1>2, <1>5
  <2> QED BY <1>8, <2>1 DEF DatesInv, Entry
<1>10. \A k, l \in 1..c : f[k].id = f[l].id => k = l
  <2> SUFFICES ASSUME NEW k \in 1..c, NEW l \in 1..c, f[k].id = f[l].id PROVE k = l
      OBVIOUS
  <2>1. cause(s[k]) = cause(s[l])
    BY <1>8
  <2> QED BY <1>4, <1>5, <2>1
<1> QED BY <1>7, <1>8, <1>9, <1>10 DEF f

\* A retrospective and the causes, with different ids.
LEMMA EntriesAre ==
    ASSUME TrailLogs, DatesInv, NEW t \in Task, Intents(t) # {}
    PROVE  /\ Len(Entries(t)) \in Nat /\ DOMAIN Entries(t) = 1..Len(Entries(t))
           /\ \A k \in DOMAIN Entries(t) :
                /\ Entries(t)[k][1] \in MemoryType
                /\ Entries(t)[k] = <<Entries(t)[k][1], Entries(t)[k][2]>>
                /\ Entry(Entries(t)[k][2])
                /\ Entries(t)[k][2].id[1] = t
           /\ \A k, l \in DOMAIN Entries(t) :
                Entries(t)[k][2].id = Entries(t)[l][2].id => k = l
<1> DEFINE i == trail[t][Intent(t)]
           r == Retrospective(t)
           f == FailureEntries(t, i.source, i.options)
           n == Len(f)
           first == <<<<"retrospectives", r>>>>
           rest == [k \in DOMAIN f |-> <<"failures", f[k]>>]
           e == Entries(t)
<1>1. Intent(t) \in Intents(t)
  BY DEF Intent, Intents
<1>2. i.created \in 0..day
  BY <1>1 DEF DatesInv, Subject
<1>3. Entry(r) /\ r.id = <<t, "retrospective", i.source>>
  BY <1>2 DEF Retrospective, Entry
<1>4. /\ IsLog(f)
      /\ \A k \in DOMAIN f : /\ Entry(f[k])
                             /\ f[k].id[1] = t /\ f[k].id[2] = "failure"
      /\ \A k, l \in DOMAIN f : f[k].id = f[l].id => k = l
  <2>1. t \in Subject
    BY DEF Subject
  <2> HIDE DEF i
  <2> QED BY <2>1, FailureEntriesAre
<1>5. e = first \o rest
  BY DEF Entries
<1> HIDE DEF i, r, f, e
<1>6. n \in Nat /\ DOMAIN f = 1..n
  BY <1>4, f \in Seq(Range(f)) DEF IsLog
<1>7. e = [k \in 1..(n + 1) |-> IF k = 1 THEN <<"retrospectives", r>> ELSE <<"failures", f[k - 1]>>]
  <2>1. rest = [k \in 1..n |-> <<"failures", f[k]>>]
    BY <1>6
  <2> DEFINE S == {<<"retrospectives", r>>} \cup {rest[k] : k \in 1..n}
  <2>2. first \in Seq(S) /\ Len(first) = 1 /\ first[1] = <<"retrospectives", r>>
    OBVIOUS
  <2>3. rest \in Seq(S) /\ Len(rest) = n
    BY <1>6, <2>1
  <2> HIDE DEF S, first, rest
  <2>4. e \in Seq(S) /\ Len(e) = n + 1
        /\ \A k \in 1..(n + 1) : e[k] = IF k <= 1 THEN first[k] ELSE rest[k - 1]
    <3>1. /\ e \in Seq(S) /\ Len(e) = Len(first) + Len(rest)
          /\ \A k \in 1..(Len(first) + Len(rest)) :
               e[k] = IF k <= Len(first) THEN first[k] ELSE rest[k - Len(first)]
      BY <1>5, <2>2, <2>3, ConcatProperties
    <3>2. Len(first) + Len(rest) = n + 1
      BY <1>6, <2>2, <2>3
    <3> HIDE DEF n
    <3> QED BY <2>2, <3>1, <3>2
  <2>5. e = [k \in 1..(n + 1) |-> e[k]]
    BY <2>4
  <2>6. \A k \in 1..(n + 1) :
           e[k] = IF k = 1 THEN <<"retrospectives", r>> ELSE <<"failures", f[k - 1]>>
    <3> SUFFICES ASSUME NEW k \in 1..(n + 1)
                 PROVE  e[k] = IF k = 1 THEN <<"retrospectives", r>> ELSE <<"failures", f[k - 1]>>
        OBVIOUS
    <3>1. CASE k = 1
      BY <2>2, <2>4, <3>1
    <3>2. CASE k # 1
      <4>1. k - 1 \in 1..n /\ ~(k <= 1)
        BY <1>6, <3>2
      <4> QED BY <2>1, <2>4, <3>2, <4>1 DEF rest
    <3> QED BY <3>1, <3>2
  <2> QED BY <2>5, <2>6
<1> HIDE DEF n
<1>8. Len(e) = n + 1 /\ n + 1 \in Nat /\ DOMAIN e = 1..(n + 1)
  <2>1. e = [k \in 1..(n + 1) |-> e[k]] /\ n + 1 \in Nat
    BY <1>6, <1>7
  <2> QED BY <2>1, LogOf
<1>9. ASSUME NEW k \in 1..(n + 1)
      PROVE  \/ k = 1 /\ e[k] = <<"retrospectives", r>>
             \/ k - 1 \in 1..n /\ e[k] = <<"failures", f[k - 1]>>
  BY <1>6, <1>7, <1>9
<1>10. \A k \in 1..(n + 1) :
         /\ e[k][1] \in MemoryType /\ e[k] = <<e[k][1], e[k][2]>>
         /\ Entry(e[k][2]) /\ e[k][2].id[1] = t
  <2> SUFFICES ASSUME NEW k \in 1..(n + 1)
               PROVE  /\ e[k][1] \in MemoryType /\ e[k] = <<e[k][1], e[k][2]>>
                      /\ Entry(e[k][2]) /\ e[k][2].id[1] = t
      OBVIOUS
  <2>1. CASE e[k] = <<"retrospectives", r>>
    BY <1>3, <2>1 DEF MemoryType
  <2>2. CASE k - 1 \in 1..n /\ e[k] = <<"failures", f[k - 1]>>
    BY <1>4, <1>6, <2>2 DEF MemoryType
  <2> QED BY <1>9, <2>1, <2>2
<1>11. \A k, l \in 1..(n + 1) : e[k][2].id = e[l][2].id => k = l
  <2> SUFFICES ASSUME NEW k \in 1..(n + 1), NEW l \in 1..(n + 1), e[k][2].id = e[l][2].id
               PROVE  k = l
      OBVIOUS
  <2>1. ASSUME NEW m \in 1..(n + 1)
        PROVE  \/ m = 1 /\ e[m][2].id[2] = "retrospective"
               \/ m - 1 \in 1..n /\ e[m][2].id = f[m - 1].id /\ e[m][2].id[2] = "failure"
    <3>1. CASE m = 1 /\ e[m] = <<"retrospectives", r>>
      BY <1>3, <3>1
    <3>2. CASE m - 1 \in 1..n /\ e[m] = <<"failures", f[m - 1]>>
      BY <1>4, <1>6, <3>2
    <3> QED BY <1>9, <3>1, <3>2
  <2>2. CASE k = 1
    BY <2>1, <2>2
  <2>3. CASE k - 1 \in 1..n /\ e[k][2].id = f[k - 1].id /\ e[k][2].id[2] = "failure"
    <3>1. l - 1 \in 1..n /\ e[l][2].id = f[l - 1].id
      BY <2>1, <2>3
    <3>2. k - 1 = l - 1
      BY <1>4, <1>6, <2>3, <3>1
    <3> QED BY <3>2
  <2> QED BY <2>1, <2>2, <2>3
<1> QED BY <1>8, <1>10, <1>11 DEF e

-----------------------------------------------------------------------------
(* Entries of different ids.                                               *)

Distinct(s) == \A j, k \in DOMAIN s : s[j].id = s[k].id => j = k

LEMMA AppendDistinct ==
    ASSUME NEW s, IsLog(s), Distinct(s), NEW e, \A x \in Range(s) : x.id # e.id
    PROVE  Distinct(Append(s, e))
<1> DEFINE n == Len(s)
           w == Append(s, e)
<1>1. /\ n \in Nat /\ DOMAIN s = 1..n /\ DOMAIN w = 1..(n + 1)
      /\ \A i \in 1..n : w[i] = s[i]
      /\ w[n + 1] = e
  BY AppendLog
<1>2. \A i \in 1..n : w[i].id # e.id
  BY <1>1, RangeMember
<1>3. \A i \in DOMAIN w : i \in 1..n \/ i = n + 1
  BY <1>1
<1> HIDE DEF n, w
<1>4. \A j, k \in DOMAIN w : w[j].id = w[k].id => j = k
  <2> SUFFICES ASSUME NEW j \in DOMAIN w, NEW k \in DOMAIN w, w[j].id = w[k].id PROVE j = k
      OBVIOUS
  <2>1. CASE j \in 1..n /\ k \in 1..n
    BY <1>1, <2>1 DEF Distinct
  <2> QED BY <1>1, <1>2, <1>3, <2>1
<1> QED BY <1>4 DEF Distinct, w

LEMMA ConcatDistinct ==
    ASSUME NEW s, NEW u, IsLog(s), IsLog(u), Distinct(s), Distinct(u),
           \A x \in Range(s), y \in Range(u) : x.id # y.id
    PROVE  Distinct(s \o u)
<1> DEFINE n == Len(s)
           m == Len(u)
           w == s \o u
           S == Range(s) \cup Range(u)
<1>1. s \in Seq(Range(s)) /\ u \in Seq(Range(u))
  BY DEF IsLog
<1>2. s \in Seq(S) /\ u \in Seq(S)
  BY <1>1, SeqDef DEF Range
<1>3. n \in Nat /\ m \in Nat /\ DOMAIN s = 1..n /\ DOMAIN u = 1..m
  BY <1>1
<1>4. w \in Seq(S) /\ Len(w) = n + m
      /\ \A i \in 1..(n + m) : w[i] = IF i <= n THEN s[i] ELSE u[i - n]
  BY <1>2, ConcatProperties
<1>5. DOMAIN w = 1..(n + m)
  BY <1>4
<1> HIDE DEF n, m, w, S
<1>6. \A i \in DOMAIN w : \/ i \in 1..n /\ w[i] = s[i] /\ w[i] \in Range(s)
                          \/ i - n \in 1..m /\ w[i] = u[i - n] /\ w[i] \in Range(u)
  <2> SUFFICES ASSUME NEW i \in DOMAIN w
               PROVE  \/ i \in 1..n /\ w[i] = s[i] /\ w[i] \in Range(s)
                      \/ i - n \in 1..m /\ w[i] = u[i - n] /\ w[i] \in Range(u)
      OBVIOUS
  <2>1. CASE i <= n
    <3>1. i \in 1..n /\ w[i] = s[i]
      BY <1>3, <1>4, <1>5, <2>1
    <3> QED BY <1>3, <3>1, RangeMember
  <2>2. CASE ~(i <= n)
    <3>1. i - n \in 1..m /\ w[i] = u[i - n]
      BY <1>3, <1>4, <1>5, <2>2
    <3> QED BY <1>3, <3>1, RangeMember
  <2> QED BY <2>1, <2>2
<1>7. ASSUME NEW j \in DOMAIN w, NEW k \in DOMAIN w, w[j].id = w[k].id
      PROVE  j = k
  <2>1. CASE j \in 1..n /\ w[j] = s[j] /\ w[j] \in Range(s)
    <3>1. k \in 1..n /\ w[k] = s[k]
      BY <1>6, <1>7, <2>1
    <3> QED BY <1>3, <1>7, <2>1, <3>1 DEF Distinct
  <2>2. CASE j - n \in 1..m /\ w[j] = u[j - n] /\ w[j] \in Range(u)
    <3>1. k - n \in 1..m /\ w[k] = u[k - n]
      BY <1>6, <1>7, <2>2
    <3>2. j - n = k - n
      BY <1>3, <1>7, <2>2, <3>1 DEF Distinct
    <3> QED BY <1>3, <1>5, <3>2
  <2> QED BY <1>6, <2>1, <2>2
<1> QED BY <1>7 DEF Distinct, w

LEMMA WithoutDistinct ==
    ASSUME NEW s, IsLog(s), Distinct(s), NEW out
    PROVE  Distinct(Without(s, out))
<1> DEFINE w == Without(s, out)
<1>1. PICK p : /\ \A k \in DOMAIN w : p[k] \in DOMAIN s /\ w[k] = s[p[k]]
               /\ \A k, l \in DOMAIN w : p[k] = p[l] => k = l
  BY WithoutIs
<1> QED BY <1>1 DEF Distinct

-----------------------------------------------------------------------------
(* What every step leaves of an intent and of a reflection.                *)

KeepsIntent(t) ==
    /\ Intents(t) # {} => Intents(t)' = Intents(t) /\ Entries(t)' = Entries(t)
    /\ Intents(t) = {} => \A i, j \in Intents(t)' : i = j

KeepsReflected(t) ==
    Reflected(t) => /\ EventsOf(t, "reflected")' = EventsOf(t, "reflected")
                    /\ \A i \in EventsOf(t, "reflected") :
                         trail'[t][i].entries = trail[t][i].entries

Steady ==
    /\ \A t \in Task : KeepsIntent(t) /\ KeepsReflected(t)
    /\ \A goal \in Goal : trail[goal] # <<>> => trail'[goal] # <<>>

NothingReflected == \A t \in Task : Reflected(t)' => Reflected(t)

\* The entries rest on the events up to the intent's source alone.
LEMMA SameEntries ==
    ASSUME TrailLogs, NEW t \in Subject, Intents(t) # {}, Intents(t)' = Intents(t),
           EventsOf(t, "fail")' = EventsOf(t, "fail"),
           \A i \in Intents(t) \cup EventsOf(t, "fail") : trail'[t][i] = trail[t][i]
    PROVE  Entries(t)' = Entries(t)
<1> DEFINE i == Intent(t)
           upTo == trail[t][i].source
           ttl == trail[t][i].options
           F == EventsOf(t, "fail")
<1>1. Intent(t)' = i /\ i \in Intents(t)
  BY DEF Intent, Intents
<1>2. trail'[t][i] = trail[t][i]
  BY <1>1
<1>3. {j \in F : j <= upTo /\ \A h \in F : h < j => trail'[t][h].cause # trail'[t][j].cause}
        = {j \in F : j <= upTo /\ \A h \in F : h < j => trail[t][h].cause # trail[t][j].cause}
  OBVIOUS
<1>4. Signals(t, upTo)' = Signals(t, upTo)
  BY <1>1, <1>2, <1>3 DEF Signals
<1>5. PICK g : g = Signals(t, upTo)
  OBVIOUS
<1>6. PICK x : x = ttl
  OBVIOUS
<1>7. \A k \in DOMAIN g : trail'[t][g[k]] = trail[t][g[k]]
  BY <1>5, SignalPlaces
<1>8. FailureEntries(t, upTo, ttl)' = FailureEntries(t, upTo, ttl)
  <2>1. Signals(t, upTo)' = g /\ ttl' = x
    BY <1>1, <1>2, <1>4, <1>5, <1>6
  <2> HIDE DEF upTo, ttl
  <2>2. FailureEntries(t, upTo, ttl)'
          = [k \in DOMAIN g |-> [id |-> <<t, "failure", trail'[t][g[k]].cause>>,
                                 created |-> trail'[t][g[k]].day, ttl |-> x, source |-> g[k]]]
    BY <2>1 DEF FailureEntries, FailureEntry
  <2>3. FailureEntries(t, upTo, ttl)
          = [k \in DOMAIN g |-> [id |-> <<t, "failure", trail[t][g[k]].cause>>,
                                 created |-> trail[t][g[k]].day, ttl |-> x, source |-> g[k]]]
    BY <1>5, <1>6 DEF FailureEntries, FailureEntry
  <2> QED BY <1>7, <2>2, <2>3
<1>9. Retrospective(t)' = Retrospective(t)
  BY <1>1, <1>2 DEF Retrospective
<1> QED BY <1>1, <1>2, <1>8, <1>9 DEF Entries

LEMMA UnchangedSteady ==
    ASSUME UNCHANGED trail
    PROVE  Steady /\ NothingReflected
<1>1. \A t, type : EventsOf(t, type)' = EventsOf(t, type)
  BY DEF EventsOf
<1>2. \A t : Entries(t)' = Entries(t)
  <2> TAKE t
  <2>1. Intent(t)' = Intent(t) /\ \A upTo : Signals(t, upTo)' = Signals(t, upTo)
    BY <1>1 DEF Intent, Signals
  <2>2. trail'[t][Intent(t)] = trail[t][Intent(t)]
    OBVIOUS
  <2>3. Retrospective(t)' = Retrospective(t)
    BY <2>1 DEF Retrospective
  <2>4. \A upTo, ttl : FailureEntries(t, upTo, ttl)' = FailureEntries(t, upTo, ttl)
    BY <2>1 DEF FailureEntries, FailureEntry
  <2> QED BY <2>1, <2>3, <2>4 DEF Entries
<1>3. \A t \in Task : Intents(t) = {} => Intents(t)' = {}
  BY <1>1 DEF Intents
<1> QED BY <1>1, <1>2, <1>3 DEF Steady, NothingReflected, KeepsIntent, KeepsReflected, Intents, Reflected

\* One more event, not a failure, an intent only if there is none.
LEMMA LogSteady ==
    ASSUME TrailLogs, NEW home, NEW e, Log(home, e), e.type # "fail",
           e.type = "intent" /\ home \in Subject => Intents(home) = {},
           e.type = "reflected" /\ home \in Subject => ~Reflected(home)
    PROVE  /\ Steady
           /\ \A t \in Task : Reflected(t)' => Reflected(t) \/ (t = home /\ e.type = "reflected")
           /\ \A t \in Subject : \A type : EventsOf(t, type)' \subseteq
                EventsOf(t, type) \cup
                  (IF t = home /\ type = e.type THEN {Len(trail[t]) + 1} ELSE {})
           /\ \A t \in Subject : \A i \in DOMAIN trail[t] : trail'[t][i] = trail[t][i]
           /\ home \in Subject => trail'[home][Len(trail[home]) + 1] = e
<1>1. \A t \in Subject :
        /\ Len(trail[t]) \in Nat /\ DOMAIN trail[t] = 1..Len(trail[t])
        /\ \A i \in DOMAIN trail[t] : i \in DOMAIN trail'[t] /\ trail'[t][i] = trail[t][i]
        /\ DOMAIN trail'[t] = DOMAIN trail[t] \cup (IF t = home THEN {Len(trail[t]) + 1} ELSE {})
        /\ t = home => trail'[t][Len(trail[t]) + 1] = e
  <2> SUFFICES ASSUME NEW t \in Subject
               PROVE  /\ Len(trail[t]) \in Nat /\ DOMAIN trail[t] = 1..Len(trail[t])
                      /\ \A i \in DOMAIN trail[t] : i \in DOMAIN trail'[t] /\ trail'[t][i] = trail[t][i]
                      /\ DOMAIN trail'[t] = DOMAIN trail[t] \cup (IF t = home THEN {Len(trail[t]) + 1} ELSE {})
                      /\ t = home => trail'[t][Len(trail[t]) + 1] = e
      OBVIOUS
  <2>1. IsLog(trail[t]) /\ trail = [u \in Subject |-> trail[u]]
    BY DEF TrailLogs, Subject
  <2>2. trail'[t] = IF t = home THEN Append(trail[t], e) ELSE trail[t]
    BY <2>1 DEF Log
  <2>3. /\ Len(trail[t]) \in Nat /\ DOMAIN trail[t] = 1..Len(trail[t])
        /\ DOMAIN Append(trail[t], e) = 1..(Len(trail[t]) + 1)
        /\ \A i \in 1..Len(trail[t]) : Append(trail[t], e)[i] = trail[t][i]
        /\ Append(trail[t], e)[Len(trail[t]) + 1] = e
    BY <2>1, AppendLog
  <2>4. CASE t = home
    BY <2>2, <2>3, <2>4
  <2>5. CASE t # home
    BY <2>2, <2>3, <2>5
  <2> QED BY <2>4, <2>5
<1>2. \A t \in Subject : \A type :
        EventsOf(t, type)' \subseteq EventsOf(t, type) \cup
             (IF t = home /\ type = e.type THEN {Len(trail[t]) + 1} ELSE {})
  BY <1>1 DEF EventsOf
<1>3. \A t \in Subject : \A type : t # home \/ type # e.type => EventsOf(t, type)' = EventsOf(t, type)
  BY <1>1 DEF EventsOf
<1>4. ASSUME NEW t \in Task
      PROVE  KeepsIntent(t)
  <2>1. t \in Subject /\ EventsOf(t, "fail")' = EventsOf(t, "fail")
    BY <1>3 DEF Subject
  <2>2. CASE Intents(t) # {}
    <3>1. Intents(t)' = Intents(t)
      BY <1>3, <2>1, <2>2 DEF Intents
    <3>2. \A i \in Intents(t) \cup EventsOf(t, "fail") : trail'[t][i] = trail[t][i]
      BY <1>1, <2>1 DEF Intents, EventsOf
    <3> QED BY <2>1, <2>2, <3>1, <3>2, SameEntries DEF KeepsIntent
  <2>3. CASE Intents(t) = {}
    <3>1. Intents(t)' \subseteq {Len(trail[t]) + 1}
      BY <1>2, <2>1, <2>3 DEF Intents
    <3> QED BY <2>3, <3>1 DEF KeepsIntent
  <2> QED BY <2>2, <2>3
<1>5. ASSUME NEW t \in Task
      PROVE  KeepsReflected(t)
  <2>1. t \in Subject
    BY DEF Subject
  <2> QED BY <1>1, <1>3, <2>1 DEF KeepsReflected, Reflected, EventsOf
<1>6. \A t \in Task : Reflected(t)' => Reflected(t) \/ (t = home /\ e.type = "reflected")
  BY <1>3 DEF Reflected, Subject
<1>7. ASSUME NEW goal \in Goal, trail[goal] # <<>> PROVE trail'[goal] # <<>>
  <2>1. goal \in Subject
    BY DEF Subject
  <2>2. IsLog(trail[goal])
    BY DEF TrailLogs
  <2>3. trail[goal] \in Seq(Range(trail[goal]))
    BY <2>2 DEF IsLog
  <2>4. 1 \in DOMAIN trail[goal]
    BY <1>7, <2>3
  <2>5. 1 \in DOMAIN trail'[goal]
    BY <1>1, <2>1, <2>4
  <2> QED BY <2>5
<1> QED BY <1>1, <1>4, <1>5, <1>6, <1>2, <1>7 DEF Steady

\* A log that begins tells nothing of a reflection.
LEMMA BeginSteady ==
    ASSUME TrailLogs, NEW t \in Subject, NEW log, IsLog(log), trail[t] = <<>>,
           trail' = [trail EXCEPT ![t] = log],
           \A x \in Range(log) : x.type \notin {"intent", "reflected"}
    PROVE  /\ Steady /\ NothingReflected
           /\ \A u \in Subject : trail'[u] = IF u = t THEN log ELSE trail[u]
<1>1. \A u \in Subject : trail'[u] = IF u = t THEN log ELSE trail[u]
  BY DEF TrailLogs, Subject
<1>2. \A type : EventsOf(t, type) = {}
  BY DEF EventsOf
<1>3. \A type \in {"intent", "reflected"} : EventsOf(t, type)' = {}
  <2> SUFFICES ASSUME NEW type \in {"intent", "reflected"}, NEW i \in EventsOf(t, type)'
               PROVE  FALSE
      OBVIOUS
  <2>1. i \in DOMAIN log /\ log[i].type = type
    BY <1>1 DEF EventsOf
  <2>2. log[i] \in Range(log)
    BY <2>1, RangeMember
  <2> QED BY <2>1, <2>2
<1>4. \A u \in Subject : \A type : u # t => EventsOf(u, type)' = EventsOf(u, type)
  BY <1>1 DEF EventsOf
<1>5. \A u \in Task : KeepsIntent(u)
  <2> SUFFICES ASSUME NEW u \in Task PROVE KeepsIntent(u)
      OBVIOUS
  <2>1. CASE u = t
    BY <1>2, <1>3, <2>1 DEF KeepsIntent, Intents
  <2>2. CASE u # t
    <3>1. u \in Subject
      BY DEF Subject
    <3>2. Intents(u)' = Intents(u) /\ EventsOf(u, "fail")' = EventsOf(u, "fail")
      BY <1>4, <2>2, <3>1 DEF Intents
    <3>3. trail'[u] = trail[u]
      BY <1>1, <2>2, <3>1
    <3> QED BY <3>1, <3>2, <3>3, SameEntries DEF KeepsIntent
  <2> QED BY <2>1, <2>2
<1>6. \A u \in Task : KeepsReflected(u) /\ (Reflected(u)' => Reflected(u))
  BY <1>1, <1>2, <1>3, <1>4 DEF KeepsReflected, Reflected, Subject
<1>7. \A goal \in Goal : trail[goal] # <<>> => trail'[goal] # <<>>
  BY <1>1 DEF Subject
<1> QED BY <1>1, <1>5, <1>6, <1>7 DEF Steady, NothingReflected

-----------------------------------------------------------------------------
(* What steps keep that do not concern it.                                 *)

\* What is in memory stays there or is known to be gone.
StoredGrows ==
    /\ gone \subseteq gone'
    /\ \A type \in MemoryType : \A e \in Range(memory[type]) :
         e \in Range(memory'[type]) \/ e.id \in gone'

LEMMA UnchangedStores ==
    ASSUME UNCHANGED <<memory, gone>>
    PROVE  StoredGrows
  BY DEF StoredGrows

LEMMA StoredKept ==
    ASSUME TrailLogs, DatesInv, Steady, StoredGrows,
           NEW t \in Task, Intents(t) # {}, NEW k \in DOMAIN Entries(t), Stored(t, k)
    PROVE  Stored(t, k)'
<1>1. Entries(t)' = Entries(t) /\ Entries(t)[k][1] \in MemoryType
  BY EntriesAre DEF Steady, KeepsIntent
<1> QED BY <1>1 DEF Stored, StoredGrows

LEMMA MarksKept ==
    ASSUME TrailLogs, DatesInv, MarksInv, Steady, StoredGrows, NothingReflected
    PROVE  MarksInv'
<1> SUFFICES ASSUME NEW t \in Task
             PROVE  /\ \A i, j \in Intents(t)' : i = j
                    /\ Reflected(t)' => Intents(t)' # {}
                    /\ \A i \in EventsOf(t, "reflected")' :
                         /\ trail'[t][i].entries = Named(t)'
                         /\ \A j \in EventsOf(t, "reflected")' : i = j
                         /\ \A k \in DOMAIN Entries(t)' : Stored(t, k)'
    BY DEF MarksInv
<1>1. KeepsIntent(t) /\ KeepsReflected(t)
  BY DEF Steady
<1>2. \A i, j \in Intents(t)' : i = j
  BY <1>1 DEF MarksInv, KeepsIntent
<1>3. CASE ~Reflected(t)'
  BY <1>2, <1>3 DEF Reflected
<1>4. CASE Reflected(t)'
  <2>1. Reflected(t) /\ Intents(t) # {} /\ Intents(t)' = Intents(t) /\ Entries(t)' = Entries(t)
    BY <1>1, <1>4 DEF NothingReflected, MarksInv, KeepsIntent
  <2>2. EventsOf(t, "reflected")' = EventsOf(t, "reflected") /\ Named(t)' = Named(t)
    BY <1>1, <2>1 DEF KeepsReflected, Named
  <2>3. ASSUME NEW i \in EventsOf(t, "reflected")
        PROVE  /\ trail'[t][i].entries = Named(t)
               /\ \A j \in EventsOf(t, "reflected") : i = j
               /\ \A k \in DOMAIN Entries(t) : Stored(t, k)'
    <3>1. /\ trail[t][i].entries = Named(t)
          /\ \A j \in EventsOf(t, "reflected") : i = j
          /\ \A k \in DOMAIN Entries(t) : Stored(t, k)
      BY DEF MarksInv
    <3>2. trail'[t][i].entries = trail[t][i].entries
      BY <1>1, <2>1 DEF KeepsReflected
    <3>3. \A k \in DOMAIN Entries(t) : Stored(t, k)'
      BY <2>1, <3>1, StoredKept
    <3> QED BY <3>1, <3>2, <3>3
  <2> QED BY <1>2, <2>1, <2>2, <2>3
<1> QED BY <1>3, <1>4

LEMMA WriterKept ==
    ASSUME TrailLogs, DatesInv, WriterInv, Steady, StoredGrows, NothingReflected,
           job' = job \/ job'.op \in {"none", "outcome", "promote"}
    PROVE  WriterInv'
<1>1. CASE job'.op # "reflect"
  BY <1>1 DEF WriterInv
<1>2. CASE job' = job /\ job.op = "reflect"
  <2> DEFINE t == job.task
  <2>1. t \in Task /\ Intents(t) # {} /\ job.at \in {"write", "distill"}
    BY <1>2 DEF WriterInv
  <2>2. Intents(t)' = Intents(t) /\ Entries(t)' = Entries(t)
    <3>1. PICK u : u = t
      OBVIOUS
    <3>2. Intents(u)' = Intents(u) /\ Entries(u)' = Entries(u)
      BY <2>1, <3>1 DEF Steady, KeepsIntent
    <3> QED BY <1>2, <3>1, <3>2
  <2>3. CASE job.at = "distill"
    <3>1. PICK u : u = t
      OBVIOUS
    <3>2. Reflected(u)'
      BY <1>2, <2>1, <2>3, <3>1 DEF WriterInv, Steady, KeepsReflected, Reflected
    <3> QED BY <1>2, <2>1, <2>2, <2>3, <3>1, <3>2 DEF WriterInv
  <2>4. CASE job.at = "write"
    <3>1. PICK u, m : u = t /\ m = job.k
      OBVIOUS
    <3>2. /\ ~Reflected(u) /\ m \in Nat
          /\ \A k \in 1..m : k \in DOMAIN Entries(u) /\ Stored(u, k)
      BY <1>2, <2>4, <3>1 DEF WriterInv
    <3>4. \A k \in 1..m : Stored(u, k)'
      BY <2>1, <3>1, <3>2, StoredKept
    <3>5. ~Reflected(u)'
      BY <2>1, <3>1, <3>2 DEF NothingReflected
    <3>6. job'.task = u /\ job'.k = m /\ job'.at = "write" /\ job'.op = "reflect"
      BY <1>2, <2>4, <3>1
    <3>7. Entries(u)' = Entries(u) /\ Intents(u)' # {} /\ u \in Task
      BY <1>2, <2>1, <2>2, <3>1
    <3> QED BY <3>2, <3>4, <3>5, <3>6, <3>7 DEF WriterInv
  <2> QED BY <2>1, <2>3, <2>4
<1> QED BY <1>1, <1>2

\* The run that reflects, reflects on a contract that has no entries yet.
LEMMA OwnKept ==
    ASSUME Steady, NEW type, NEW e, OwnEntry(type, e),
           run'.at = "reflect" => trail[run'.goal] = <<>> \/ (run.at = "reflect" /\ run.goal = run'.goal)
    PROVE  OwnEntry(type, e)'
<1>1. ASSUME NEW t \in Task, Intents(t) # {}, e.id[1] = t,
             NEW k \in DOMAIN Entries(t), Entries(t)[k] = <<type, e>>
      PROVE  OwnEntry(type, e)'
  BY <1>1 DEF Steady, KeepsIntent, OwnEntry
<1>2. ASSUME NEW goal \in Goal, e.id[1] = goal, trail[goal] # <<>>,
             ~(run.at = "reflect" /\ run.goal = goal)
      PROVE  OwnEntry(type, e)'
  BY <1>2 DEF Steady, OwnEntry
<1> QED BY <1>1, <1>2 DEF OwnEntry

LEMMA MemoryKept ==
    ASSUME MemoryInv, DatesInv, Steady, UNCHANGED memory, day' \in Nat, day <= day',
           run'.at = "reflect" => /\ run'.goal \in Goal /\ trail'[run'.goal] # <<>>
                                  /\ \/ trail[run'.goal] = <<>>
                                     \/ run.at = "reflect" /\ run.goal = run'.goal
    PROVE  MemoryInv'
<1>1. \A type \in MemoryType : \A e \in Range(memory[type]) : OwnEntry(type, e)'
  BY OwnKept DEF MemoryInv
<1>2. \A e : Entry(e) => Entry(e)'
  BY DEF Entry, DatesInv
<1> QED BY <1>1, <1>2 DEF MemoryInv, OneEntryPerCause

LEMMA SeedKept ==
    ASSUME SeedInv, Steady, UNCHANGED candidates
    PROVE  SeedInv'
<1>1. \A t \in Task : Reflected(t) => Reflected(t)' /\ Seed(t)' = Seed(t)
  BY DEF Steady, KeepsReflected, Reflected, Seed
<1>2. Known' = Known
  BY DEF Known
<1> QED BY <1>1, <1>2 DEF SeedInv

-----------------------------------------------------------------------------
(* The steps that reflections are made of, one by one.                     *)

\* Steps that leave memory and the store alone.
LEMMA QuietKeeps ==
    ASSUME TrailLogs, ReflectInv, DatesInv', Steady, NothingReflected,
           UNCHANGED <<memory, gone, candidates>>, day <= day',
           job' = job \/ job'.op \in {"none", "outcome", "promote"},
           run'.at = "reflect" => /\ run'.goal \in Goal /\ trail'[run'.goal] # <<>>
                                  /\ \/ trail[run'.goal] = <<>>
                                     \/ run.at = "reflect" /\ run.goal = run'.goal
    PROVE  ReflectInv'
<1>1. StoredGrows /\ day' \in Nat
  BY UnchangedStores DEF DatesInv
<1> QED BY <1>1, MarksKept, WriterKept, MemoryKept, SeedKept DEF ReflectInv

\* What keeps the dates.
LEMMA DatesKept ==
    ASSUME DatesInv, UNCHANGED trail, day' \in day..MaxDay, deaths' \in 0..MaxDeaths
    PROVE  DatesInv'
<1>1. \A t, type : EventsOf(t, type)' = EventsOf(t, type)
  BY DEF EventsOf
<1>2. \A x \in 0..day : x \in 0..day'
  BY DEF DatesInv
<1> QED BY <1>1, <1>2 DEF DatesInv, Intents

LEMMA BeginDates ==
    ASSUME DatesInv, NEW t \in Subject, NEW log, UNCHANGED <<day, deaths>>,
           \A u \in Subject : trail'[u] = IF u = t THEN log ELSE trail[u],
           \A x \in Range(log) : x.type # "intent" /\ (x.type = "fail" => x.day = day)
    PROVE  DatesInv'
<1>1. ASSUME NEW u \in Subject
      PROVE  /\ \A i \in EventsOf(u, "fail")' : trail'[u][i].day \in 0..day
             /\ \A i \in Intents(u)' : trail'[u][i].created \in 0..day
  <2>1. CASE u # t
    <3>1. trail'[u] = trail[u]
      BY <2>1
    <3> QED BY <3>1 DEF DatesInv, EventsOf, Intents
  <2>2. CASE u = t
    <3>1. \A i \in DOMAIN log : log[i] \in Range(log)
      BY RangeMember
    <3> QED BY <2>2, <3>1 DEF DatesInv, EventsOf, Intents
  <2> QED BY <2>1, <2>2
<1> QED BY <1>1 DEF DatesInv

LEMMA LogDates ==
    ASSUME TrailLogs, DatesInv, NEW home, NEW e, Log(home, e), e.type # "fail",
           e.type = "intent" => e.created = day /\ (home \in Subject => Intents(home) = {}),
           e.type = "reflected" /\ home \in Subject => ~Reflected(home),
           UNCHANGED <<day, deaths>>
    PROVE  DatesInv'
<1>1. /\ \A t \in Subject : \A type : EventsOf(t, type)' \subseteq
           EventsOf(t, type) \cup
             (IF t = home /\ type = e.type THEN {Len(trail[t]) + 1} ELSE {})
      /\ \A t \in Subject : \A i \in DOMAIN trail[t] : trail'[t][i] = trail[t][i]
      /\ home \in Subject => trail'[home][Len(trail[home]) + 1] = e
  BY LogSteady
<1>2. ASSUME NEW t \in Subject, NEW i \in EventsOf(t, "fail")'
      PROVE  trail'[t][i].day \in 0..day
  <2>1. i \in EventsOf(t, "fail")
    BY <1>1, <1>2
  <2>2. trail'[t][i] = trail[t][i]
    BY <1>1, <2>1 DEF EventsOf
  <2> QED BY <2>1, <2>2 DEF DatesInv
<1>3. ASSUME NEW t \in Subject, NEW i \in Intents(t)'
      PROVE  trail'[t][i].created \in 0..day
  <2>1. i \in Intents(t) \/ (t = home /\ e.type = "intent" /\ i = Len(trail[t]) + 1)
    BY <1>1, <1>3 DEF Intents
  <2>2. CASE i \in Intents(t)
    <3>1. trail'[t][i] = trail[t][i]
      BY <1>1, <2>2 DEF EventsOf, Intents
    <3> QED BY <2>2, <3>1 DEF DatesInv
  <2>3. CASE t = home /\ e.type = "intent" /\ i = Len(trail[t]) + 1
    <3>1. trail'[t][i] = e /\ e.created = day /\ day \in Nat
      BY <1>1, <2>3 DEF DatesInv
    <3> QED BY <3>1
  <2> QED BY <2>1, <2>2, <2>3
<1> QED BY <1>2, <1>3 DEF DatesInv

LEMMA FailsAre ==
    ASSUME NEW causes, IsLog(causes)
    PROVE  \A x \in Range(Fails(causes)) : x.type = "fail" /\ x.day = day
<1> SUFFICES ASSUME NEW x \in Range(Fails(causes)) PROVE x.type = "fail" /\ x.day = day
    OBVIOUS
<1>1. PICK k \in DOMAIN Fails(causes) : x = Fails(causes)[k]
  BY DEF Range
<1> QED BY <1>1 DEF Fails

\* Every log that begins.
LEMMA BeginKeepsReflections ==
    ASSUME TrailLogs, ReflectInv, NEW t \in Subject, NEW log, IsLog(log), trail[t] = <<>>,
           trail' = [trail EXCEPT ![t] = log],
           \A x \in Range(log) : /\ x.type \notin {"intent", "reflected"}
                                 /\ x.type = "fail" => x.day = day,
           UNCHANGED <<memory, gone, candidates, job, day, deaths>>,
           run' = run \/ (run'.at = "reflect" /\ run'.goal = t /\ t \in Goal /\ log # <<>>)
    PROVE  ReflectInv'
<1>1. /\ Steady /\ NothingReflected
      /\ \A u \in Subject : trail'[u] = IF u = t THEN log ELSE trail[u]
  BY BeginSteady
<1>2. DatesInv'
  BY <1>1, BeginDates DEF ReflectInv
<1>3. run'.at = "reflect" => /\ run'.goal \in Goal /\ trail'[run'.goal] # <<>>
                             /\ \/ trail[run'.goal] = <<>>
                                \/ run.at = "reflect" /\ run.goal = run'.goal
  <2>1. CASE run' = run
    BY <1>1, <2>1 DEF ReflectInv, MemoryInv, Steady
  <2>2. CASE run'.at = "reflect" /\ run'.goal = t /\ t \in Goal /\ log # <<>>
    BY <1>1, <2>2
  <2> QED BY <2>1, <2>2
<1>4. day <= day'
  BY DEF ReflectInv, DatesInv
<1> QED BY <1>1, <1>2, <1>3, <1>4, QuietKeeps

LEMMA EndReflections ==
    ASSUME TrailLogs, ReflectInv, UNCHANGED engineVars,
           NEW t \in Task, NEW course \in Course(t), End(t, course)
    PROVE  ReflectInv'
<1> DEFINE checks == IF course.checked THEN <<[type |-> "check"]>> ELSE <<>>
           last == IF course.last = "decision" THEN [type |-> "decision"]
                   ELSE [type |-> "transition", state |-> course.last]
           log == Fails(course.causes) \o checks \o <<last>>
<1>1. IsLog(course.causes)
  BY CausesAssumption
<1>2. IsLog(Fails(course.causes)) /\ IsLog(checks) /\ IsLog(<<last>>)
  BY <1>1, FailsIsLog, SmallLogs
<1>3. IsLog(log) /\ Range(log) = Range(Fails(course.causes)) \cup Range(checks) \cup Range(<<last>>)
  BY <1>2, ConcatLog
<1>4. \A x \in Range(log) : /\ x.type \notin {"intent", "reflected"}
                            /\ x.type = "fail" => x.day = day
  <2>1. \A x \in Range(Fails(course.causes)) : x.type = "fail" /\ x.day = day
    BY <1>1, FailsAre
  <2>2. \A x \in Range(checks) : x.type = "check"
    BY SmallLogs
  <2>3. \A x \in Range(<<last>>) : x.type \in {"decision", "transition"}
    BY SmallLogs
  <2> QED BY <1>3, <2>1, <2>2, <2>3
<1>5. t \in Subject /\ run' = run
  BY DEF Subject, engineVars
<1>6. /\ trail[t] = <<>> /\ trail' = [trail EXCEPT ![t] = log]
      /\ UNCHANGED <<memory, gone, candidates, job, day, deaths>>
  BY DEF End
<1> HIDE DEF log
<1> QED BY <1>3, <1>4, <1>5, <1>6, BeginKeepsReflections

LEMMA RunLoopReflections ==
    ASSUME TrailLogs, ReflectInv, NEW goal \in Goal, NEW course \in Course(goal),
           RunLoop(goal, course.causes, course.last)
    PROVE  ReflectInv'
<1> DEFINE gate == <<[type |-> "gate", decision |-> course.last]>>
           log == Fails(course.causes) \o gate
<1>1. IsLog(course.causes)
  BY CausesAssumption
<1>2. IsLog(Fails(course.causes)) /\ IsLog(gate)
  BY <1>1, FailsIsLog, SmallLogs
<1>3. IsLog(log) /\ Range(log) = Range(Fails(course.causes)) \cup Range(gate)
  BY <1>2, ConcatLog
<1>4. \A x \in Range(log) : /\ x.type \notin {"intent", "reflected"}
                            /\ x.type = "fail" => x.day = day
  <2>1. \A x \in Range(Fails(course.causes)) : x.type = "fail" /\ x.day = day
    BY <1>1, FailsAre
  <2>2. \A x \in Range(gate) : x.type = "gate"
    BY SmallLogs
  <2> QED BY <1>3, <2>1, <2>2
<1>5. log # <<>>
  <2>1. Range(gate) # {} /\ Range(<<>>) = {}
    BY SmallLogs
  <2> HIDE DEF gate, log
  <2> QED BY <1>3, <2>1
<1>6. /\ trail[goal] = <<>> /\ trail' = [trail EXCEPT ![goal] = log]
      /\ UNCHANGED <<memory, gone, candidates, job, day, deaths>>
      /\ run'.at = "reflect" /\ run'.goal = goal /\ goal \in Subject
  BY DEF RunLoop, Subject
<1> HIDE DEF log
<1> QED BY <1>3, <1>4, <1>5, <1>6, BeginKeepsReflections

LEMMA BeginReflectReflections ==
    ASSUME TrailLogs, ReflectInv, UNCHANGED engineVars,
           NEW t \in Task, NEW options, BeginReflect(t, options)
    PROVE  ReflectInv'
<1>1. t \in Subject /\ run' = run /\ UNCHANGED <<memory, gone, candidates, day, deaths>>
  BY DEF BeginReflect, Subject, engineVars
<1>2. Steady /\ NothingReflected /\ DatesInv' /\ Intents(t)' # {}
  <2>1. CASE Intents(t) = {}
    <3> DEFINE e == [type |-> "intent", options |-> options, created |-> day, source |-> Source(t)]
    <3>1. Log(t, e)
      BY <2>1 DEF BeginReflect, Intents
    <3>2. e.type = "intent" /\ e.created = day
      OBVIOUS
    <3> HIDE DEF e
    <3>3. Steady /\ NothingReflected
      BY <2>1, <3>1, <3>2, LogSteady DEF NothingReflected
    <3>4. DatesInv'
      BY <1>1, <2>1, <3>1, <3>2, LogDates DEF ReflectInv
    <3>5. Intents(t)' # {}
      <4>1. IsLog(trail[t]) /\ trail'[t] = Append(trail[t], e)
        BY <1>1, <3>1 DEF TrailLogs, Subject, Log
      <4>2. /\ Len(trail[t]) + 1 \in DOMAIN trail'[t]
            /\ trail'[t][Len(trail[t]) + 1] = e
        BY <4>1, AppendLog
      <4> QED BY <3>2, <4>2 DEF Intents, EventsOf
    <3> QED BY <3>3, <3>4, <3>5
  <2>2. CASE Intents(t) # {}
    <3>1. UNCHANGED trail
      BY <2>2 DEF BeginReflect, Intents
    <3>2. Steady /\ NothingReflected
      BY <3>1, UnchangedSteady
    <3>3. DatesInv'
      BY <1>1, <3>1, DatesKept DEF ReflectInv, DatesInv
    <3> QED BY <2>2, <3>2, <3>3 DEF Steady, KeepsIntent
  <2> QED BY <2>1, <2>2
<1>3. StoredGrows /\ day' \in Nat /\ day <= day'
  BY <1>1, UnchangedStores DEF ReflectInv, DatesInv
<1>4. MarksInv' /\ SeedInv'
  BY <1>1, <1>2, <1>3, MarksKept, SeedKept DEF ReflectInv
<1>5. MemoryInv'
  BY <1>1, <1>2, <1>3, MemoryKept DEF ReflectInv, MemoryInv, Steady
<1>6. WriterInv'
  <2>1. job' = [op |-> "reflect", task |-> t, k |-> 0,
                at |-> IF Reflected(t) THEN "distill" ELSE "write"]
    BY DEF BeginReflect
  <2>2. Reflected(t)' <=> Reflected(t)
    BY <1>2 DEF Steady, KeepsReflected, NothingReflected, Reflected
  <2> QED BY <1>2, <2>1, <2>2 DEF WriterInv
<1> QED BY <1>2, <1>4, <1>5, <1>6 DEF ReflectInv

\* What an intent asks for is never refused: an entry of its id is the same.
LEMMA NeverRefused ==
    ASSUME TrailLogs, ReflectInv, NEW t \in Task, Intents(t) # {}, NEW k \in DOMAIN Entries(t)
    PROVE  ~Refuses(Entries(t)[k][1], Entries(t)[k][2])
<1> DEFINE type == Entries(t)[k][1]
           e == Entries(t)[k][2]
<1>1. SUFFICES ASSUME NEW x \in Range(memory[type]), x.id = e.id PROVE x = e
  BY DEF Refuses, Written
<1>2. type \in MemoryType /\ e.id[1] = t
  BY EntriesAre DEF ReflectInv
<1>3. OwnEntry(type, x) /\ x.id[1] = t
  BY <1>1, <1>2 DEF ReflectInv, MemoryInv
<1>4. PICK l \in DOMAIN Entries(t) : Entries(t)[l] = <<type, x>>
  BY <1>3, IdAssumption DEF OwnEntry
<1>5. Entries(t)[l][2] = x
  BY <1>4
<1>6. l = k
  BY <1>1, <1>5, EntriesAre DEF ReflectInv
<1> QED BY <1>5, <1>6

LEMMA WriteEntryReflections ==
    ASSUME TrailLogs, JobOK, ReflectInv, UNCHANGED engineVars, WriteEntry
    PROVE  /\ ReflectInv'
           /\ job' = [job EXCEPT !.k = @ + 1]
<1>1. PICK t, k : t = job.task /\ k = job.k
  OBVIOUS
<1>2. /\ job = [op |-> "reflect", task |-> t, k |-> k, at |-> "write"]
      /\ t \in Task /\ Intents(t) # {} /\ ~Reflected(t) /\ k \in Nat
      /\ \A l \in 1..k : l \in DOMAIN Entries(t) /\ Stored(t, l)
  BY <1>1 DEF WriteEntry, JobOK, ReflectInv, WriterInv
<1>3. k + 1 \in DOMAIN Entries(t)
  <2>1. k < Len(Entries(t))
    BY <1>1 DEF WriteEntry
  <2>2. Len(Entries(t)) \in Nat /\ DOMAIN Entries(t) = 1..Len(Entries(t))
    BY <1>2, EntriesAre DEF ReflectInv
  <2> QED BY <1>2, <2>1, <2>2
<1>4. PICK type, e : type = Entries(t)[k + 1][1] /\ e = Entries(t)[k + 1][2]
  OBVIOUS
<1>5. job' = [job EXCEPT !.k = @ + 1] /\ RecordOnce(type, e)
  BY <1>1, <1>2, <1>3, <1>4, NeverRefused DEF WriteEntry
<1>6. /\ type \in MemoryType /\ Entry(e) /\ e.id[1] = t
      /\ Entries(t)[k + 1] = <<type, e>>
  BY <1>2, <1>3, <1>4, EntriesAre DEF ReflectInv
<1>7. /\ UNCHANGED <<day, gone, candidates, trail, deaths, run>>
      /\ memory' = IF Written(type, e.id) = {} THEN [memory EXCEPT ![type] = Append(@, e)] ELSE memory
  BY <1>5 DEF WriteEntry, RecordOnce, engineVars
<1>8. Steady /\ NothingReflected
  BY <1>7, UnchangedSteady
<1>9. /\ MemoryInv' /\ e \in Range(memory'[type])
      /\ \A y \in MemoryType : \A x \in Range(memory[y]) : x \in Range(memory'[y])
  <2>1. CASE Written(type, e.id) # {}
    <3>1. e \in Range(memory[type])
      BY <1>2, <1>3, <1>4, <2>1, NeverRefused DEF Refuses, Written
    <3>2. memory' = memory
      BY <1>7, <2>1
    <3>3. day' \in Nat /\ day <= day'
      BY <1>7 DEF ReflectInv, DatesInv
    <3>4. MemoryInv'
      BY <1>7, <1>8, <3>2, <3>3, MemoryKept DEF ReflectInv, MemoryInv, Steady
    <3> QED BY <3>1, <3>2, <3>4
  <2>2. CASE Written(type, e.id) = {}
    <3>1. memory' = [memory EXCEPT ![type] = Append(@, e)]
      BY <1>7, <2>2
    <3>2. /\ memory' = [y \in MemoryType |-> memory'[y]]
          /\ memory'[type] = Append(memory[type], e)
          /\ \A y \in MemoryType : y # type => memory'[y] = memory[y]
      BY <1>6, <3>1 DEF ReflectInv, MemoryInv
    <3>3. IsLog(memory[type]) /\ Distinct(memory[type])
      BY <1>6 DEF ReflectInv, MemoryInv, OneEntryPerCause, Distinct
    <3>4. \A x \in Range(memory[type]) : x.id # e.id
      BY <2>2 DEF Written
    <3>5. /\ IsLog(memory'[type]) /\ Distinct(memory'[type])
          /\ Range(memory'[type]) = Range(memory[type]) \cup {e}
      BY <3>2, <3>3, <3>4, AppendLog, AppendDistinct
    <3>6. \A y \in MemoryType : IsLog(memory'[y]) /\ Distinct(memory'[y])
      BY <3>2, <3>5 DEF ReflectInv, MemoryInv, OneEntryPerCause, Distinct
    <3>7. OwnEntry(type, e)
      BY <1>2, <1>3, <1>6 DEF OwnEntry
    <3>8. \A y \in MemoryType : \A x \in Range(memory'[y]) : Entry(x) /\ OwnEntry(y, x)
      BY <1>6, <3>2, <3>5, <3>7 DEF ReflectInv, MemoryInv
    <3>9. \A y \in MemoryType : \A x \in Range(memory'[y]) : Entry(x)' /\ OwnEntry(y, x)'
      BY <1>7, <1>8, <3>8, OwnKept DEF Entry
    <3>10. run'.at = "reflect" => run'.goal \in Goal /\ trail'[run'.goal] # <<>>
      BY <1>7 DEF ReflectInv, MemoryInv
    <3>11. MemoryInv'
      BY <3>2, <3>6, <3>9, <3>10 DEF MemoryInv, OneEntryPerCause, Distinct
    <3> QED BY <3>2, <3>5, <3>11
  <2> QED BY <2>1, <2>2
<1>10. StoredGrows
  BY <1>7, <1>9 DEF StoredGrows
<1>11. MarksInv' /\ SeedInv'
  BY <1>7, <1>8, <1>10, MarksKept, SeedKept DEF ReflectInv
<1>12. DatesInv'
  BY <1>7, DatesKept DEF ReflectInv, DatesInv
<1>13. WriterInv'
  <2>1. Entries(t)' = Entries(t) /\ Intents(t)' = Intents(t) /\ ~Reflected(t)'
    BY <1>2, <1>8 DEF Steady, KeepsIntent, NothingReflected
  <2>2. \A l \in 1..k : Stored(t, l)'
    BY <1>2, <1>8, <1>10, StoredKept DEF ReflectInv
  <2>3. Stored(t, k + 1)'
    <3>1. PICK m : m = k + 1
      OBVIOUS
    <3>2. Stored(t, m)'
      BY <1>4, <1>9, <2>1, <3>1 DEF Stored
    <3> QED BY <3>1, <3>2
  <2>4. \A l \in 1..(k + 1) : l \in DOMAIN Entries(t) /\ Stored(t, l)'
    <3>1. \A l \in 1..(k + 1) : l \in 1..k \/ l = k + 1
      BY <1>2
    <3> QED BY <1>2, <1>3, <2>2, <2>3, <3>1
  <2>5. job' = [op |-> "reflect", task |-> t, k |-> k + 1, at |-> "write"]
    BY <1>2, <1>5
  <2> QED BY <1>2, <2>1, <2>4, <2>5 DEF WriterInv
<1> QED BY <1>5, <1>9, <1>11, <1>12, <1>13 DEF ReflectInv

LEMMA ManifestReflections ==
    ASSUME TrailLogs, JobOK, ReflectInv, UNCHANGED engineVars, WriteManifest
    PROVE  ReflectInv' /\ \A t \in {job.task} : Reflected(t)'
<1>1. PICK t, k : t = job.task /\ k = job.k
  OBVIOUS
<1> DEFINE e == [type |-> "reflected", entries |-> Named(t)]
           n == Len(trail[t]) + 1
<1>2. /\ job = [op |-> "reflect", task |-> t, k |-> k, at |-> "write"]
      /\ t \in Task /\ t \in Subject /\ Intents(t) # {} /\ ~Reflected(t) /\ k \in Nat
      /\ \A l \in 1..k : Stored(t, l)
  BY <1>1 DEF WriteManifest, JobOK, ReflectInv, WriterInv, Subject
<1>3. \A l \in DOMAIN Entries(t) : Stored(t, l)
  <2>1. k = Len(Entries(t)) /\ DOMAIN Entries(t) = 1..Len(Entries(t))
    BY <1>1, <1>2, EntriesAre DEF WriteManifest, ReflectInv
  <2> QED BY <1>2, <2>1
<1>4. Log(t, e) /\ UNCHANGED <<memory, day, gone, candidates, deaths, run>>
  BY <1>1 DEF WriteManifest, engineVars
<1>5. e.type = "reflected" /\ e.entries = Named(t)
  OBVIOUS
<1>6. /\ Steady
      /\ \A u \in Task : Reflected(u)' => Reflected(u) \/ u = t
      /\ EventsOf(t, "reflected")' \subseteq EventsOf(t, "reflected") \cup {n}
      /\ trail'[t][n] = e
  <2> HIDE DEF e
  <2> QED BY <1>2, <1>4, <1>5, LogSteady
<1>7. EventsOf(t, "reflected")' = {n}
  <2>1. EventsOf(t, "reflected")' \subseteq {n}
    BY <1>2, <1>6 DEF Reflected
  <2>2. IsLog(trail[t]) /\ trail'[t] = Append(trail[t], e)
    BY <1>2, <1>4 DEF TrailLogs, Subject, Log
  <2>3. n \in DOMAIN trail'[t]
    BY <2>2, AppendLog
  <2> QED BY <1>5, <1>6, <2>1, <2>3 DEF EventsOf
<1>8. DatesInv'
  <2> HIDE DEF e
  <2> QED BY <1>2, <1>4, <1>5, LogDates DEF ReflectInv
<1> HIDE DEF e, n
<1>9. StoredGrows /\ day' \in Nat /\ day <= day'
  BY <1>4, UnchangedStores DEF ReflectInv, DatesInv
<1>10. SeedInv'
  BY <1>4, <1>6, SeedKept DEF ReflectInv
<1>11. MemoryInv'
  BY <1>4, <1>6, <1>9, MemoryKept DEF ReflectInv, MemoryInv, Steady
<1>12. Reflected(t)' /\ Intents(t)' = Intents(t) /\ Entries(t)' = Entries(t)
  BY <1>2, <1>6, <1>7 DEF Steady, KeepsIntent, Reflected
<1>13. MarksInv'
  <2> SUFFICES ASSUME NEW u \in Task
               PROVE  /\ \A i, j \in Intents(u)' : i = j
                      /\ Reflected(u)' => Intents(u)' # {}
                      /\ \A i \in EventsOf(u, "reflected")' :
                           /\ trail'[u][i].entries = Named(u)'
                           /\ \A j \in EventsOf(u, "reflected")' : i = j
                           /\ \A l \in DOMAIN Entries(u)' : Stored(u, l)'
      BY DEF MarksInv
  <2>1. CASE u = t
    <3>1. \A i, j \in Intents(t)' : i = j
      BY <1>2, <1>12 DEF ReflectInv, MarksInv
    <3>2. Named(t)' = Named(t)
      BY <1>12 DEF Named
    <3>3. \A l \in DOMAIN Entries(t) : Stored(t, l)'
      BY <1>2, <1>3, <1>6, <1>9, StoredKept DEF ReflectInv
    <3> QED BY <1>2, <1>5, <1>6, <1>7, <1>12, <2>1, <3>1, <3>2, <3>3
  <2>2. CASE u # t
    <3>1. KeepsIntent(u) /\ KeepsReflected(u) /\ (Reflected(u)' => Reflected(u))
      BY <1>6, <2>2 DEF Steady
    <3>2. \A i, j \in Intents(u)' : i = j
      BY <3>1 DEF ReflectInv, MarksInv, KeepsIntent
    <3>3. CASE ~Reflected(u)'
      BY <3>2, <3>3 DEF Reflected
    <3>4. CASE Reflected(u)'
      <4>1. Reflected(u) /\ Intents(u) # {} /\ Intents(u)' = Intents(u) /\ Entries(u)' = Entries(u)
        BY <3>1, <3>4 DEF ReflectInv, MarksInv, KeepsIntent
      <4>2. EventsOf(u, "reflected")' = EventsOf(u, "reflected") /\ Named(u)' = Named(u)
        BY <3>1, <4>1 DEF KeepsReflected, Named
      <4>3. ASSUME NEW i \in EventsOf(u, "reflected")
            PROVE  /\ trail'[u][i].entries = Named(u)
                   /\ \A j \in EventsOf(u, "reflected") : i = j
                   /\ \A l \in DOMAIN Entries(u) : Stored(u, l)'
        <5>1. /\ trail[u][i].entries = Named(u)
              /\ \A j \in EventsOf(u, "reflected") : i = j
              /\ \A l \in DOMAIN Entries(u) : Stored(u, l)
          BY DEF ReflectInv, MarksInv
        <5>2. trail'[u][i].entries = trail[u][i].entries
          BY <3>1, <4>1 DEF KeepsReflected
        <5>3. \A l \in DOMAIN Entries(u) : Stored(u, l)'
          BY <1>6, <1>9, <4>1, <5>1, StoredKept DEF ReflectInv
        <5> QED BY <5>1, <5>2, <5>3
      <4> QED BY <3>2, <4>1, <4>2, <4>3
    <3> QED BY <3>3, <3>4
  <2> QED BY <2>1, <2>2
<1>14. WriterInv'
  <2>1. job' = Idle \/ job' = [job EXCEPT !.at = "distill"]
    BY DEF WriteManifest
  <2>2. CASE job' = Idle
    BY <2>2 DEF WriterInv, Idle
  <2>3. CASE job' = [job EXCEPT !.at = "distill"]
    <3>1. job' = [op |-> "reflect", task |-> t, k |-> k, at |-> "distill"]
      BY <1>2, <2>3
    <3> QED BY <1>2, <1>12, <3>1 DEF WriterInv
  <2> QED BY <2>1, <2>2, <2>3
<1> QED BY <1>1, <1>8, <1>10, <1>11, <1>12, <1>13, <1>14 DEF ReflectInv

\* A skill that is new gets its seed, one that is known keeps it.
LEMMA DistillSeeds ==
    ASSUME SeedInv, UNCHANGED trail, NEW s \in Subject, NEW seed, DistillOnce(s, seed),
           s \in Task => Reflected(s) /\ seed = Seed(s)
    PROVE  SeedInv' /\ s \in Known' /\ (s \in Known \/ candidates'[s].seed = seed)
<1>1. \A t \in Task : (Reflected(t)' <=> Reflected(t)) /\ Seed(t)' = Seed(t)
  BY DEF Reflected, Seed, EventsOf
<1>2. CASE s \in Known
  BY <1>1, <1>2 DEF DistillOnce, SeedInv, Known
<1>3. CASE s \notin Known
  <2>1. /\ Known' = Known \cup {s}
        /\ \A x \in Known : candidates'[x] = candidates[x]
        /\ candidates'[s] = NewCandidate(seed)
    BY <1>3 DEF DistillOnce, Known
  <2>2. candidates'[s].seed = seed /\ candidates'[s].attempts = 0 /\ candidates'[s].outcomes = <<>>
    BY <2>1 DEF NewCandidate
  <2> QED BY <1>1, <1>3, <2>1, <2>2 DEF SeedInv
<1> QED BY <1>2, <1>3

LEMMA DistillReflections ==
    ASSUME TrailLogs, ReflectInv, UNCHANGED engineVars, Distill
    PROVE  /\ ReflectInv'
           /\ \A t \in {job.task} :
                Reflected(t)' /\ t \in Known' /\ candidates'[t].seed = Seed(t)
<1>1. PICK t : t = job.task
  OBVIOUS
<1>2. t \in Task /\ Reflected(t) /\ t \in Subject
  BY <1>1 DEF Distill, ReflectInv, WriterInv, Subject
<1>3. ~DistillRefuses(t, Seed(t))
  BY <1>2 DEF ReflectInv, SeedInv, DistillRefuses
<1>4. DistillOnce(t, Seed(t)) /\ job' = Idle /\ UNCHANGED <<memory, day, gone, trail, deaths, run>>
  BY <1>1, <1>3 DEF Distill, engineVars
<1>5. SeedInv' /\ t \in Known' /\ (t \in Known \/ candidates'[t].seed = Seed(t))
  BY <1>2, <1>4, DistillSeeds DEF ReflectInv
<1>6. candidates'[t].seed = Seed(t)
  <2>1. CASE t \in Known
    BY <1>2, <1>4, <2>1 DEF DistillOnce, ReflectInv, SeedInv
  <2> QED BY <1>5, <2>1
<1>7. Steady /\ NothingReflected /\ StoredGrows
  BY <1>4, UnchangedSteady, UnchangedStores
<1>8. day' \in Nat /\ day <= day' /\ DatesInv'
  BY <1>4, DatesKept DEF ReflectInv, DatesInv
<1>9. MarksInv' /\ WriterInv'
  BY <1>4, <1>7, MarksKept, WriterKept DEF ReflectInv, Idle
<1>10. MemoryInv'
  BY <1>4, <1>7, <1>8, MemoryKept DEF ReflectInv, MemoryInv, Steady
<1>11. Reflected(t)'
  BY <1>2, <1>7 DEF Steady, KeepsReflected, Reflected
<1> QED BY <1>1, <1>5, <1>6, <1>8, <1>9, <1>10, <1>11 DEF ReflectInv

-----------------------------------------------------------------------------
(* The steps beside a reflection.                                          *)

\* A run that reflects goes on to reflect on the same contract.
SameReflection == run'.at = "reflect" => run.at = "reflect" /\ run'.goal = run.goal

\* Steps of which reflections notice nothing but the date.
LEMMA QuietStepReflections ==
    ASSUME TrailLogs, ReflectInv, UNCHANGED <<memory, gone, candidates, trail>>,
           day' \in day..MaxDay, deaths' \in 0..MaxDeaths,
           job' = job \/ job'.op \in {"none", "outcome", "promote"}, SameReflection
    PROVE  ReflectInv'
<1>1. Steady /\ NothingReflected
  BY UnchangedSteady
<1>2. DatesInv'
  BY DatesKept DEF ReflectInv
<1>3. day <= day'
  BY DEF ReflectInv, DatesInv
<1>4. run'.at = "reflect" => /\ run'.goal \in Goal /\ trail'[run'.goal] # <<>>
                             /\ run.at = "reflect" /\ run.goal = run'.goal
  BY DEF SameReflection, ReflectInv, MemoryInv
<1> QED BY <1>1, <1>2, <1>3, <1>4, QuietKeeps

\* What is revoked or swept is gone, the rest stands as before.
LEMMA DiscardReflections ==
    ASSUME TrailLogs, ReflectInv, NEW type \in MemoryType, NEW out, Discard(type, out),
           UNCHANGED <<candidates, trail, job, deaths, run>>
    PROVE  ReflectInv'
<1>1. /\ memory' = [memory EXCEPT ![type] = Without(@, out)]
      /\ gone' = gone \cup {e.id : e \in out}
      /\ day' = day
  BY DEF Discard
<1>2. /\ memory' = [y \in MemoryType |-> memory'[y]]
      /\ memory'[type] = Without(memory[type], out)
      /\ \A y \in MemoryType : y # type => memory'[y] = memory[y]
  BY <1>1 DEF ReflectInv, MemoryInv
<1>3. \A y \in MemoryType : IsLog(memory[y]) /\ Distinct(memory[y])
  BY DEF ReflectInv, MemoryInv, OneEntryPerCause, Distinct
<1>4. /\ IsLog(memory'[type]) /\ Distinct(memory'[type])
      /\ Range(memory'[type]) = Range(memory[type]) \ out
  BY <1>2, <1>3, WithoutIs, WithoutDistinct
<1>5. \A y \in MemoryType : IsLog(memory'[y]) /\ Distinct(memory'[y])
                            /\ Range(memory'[y]) \subseteq Range(memory[y])
  <2> SUFFICES ASSUME NEW y \in MemoryType
               PROVE  /\ IsLog(memory'[y]) /\ Distinct(memory'[y])
                      /\ Range(memory'[y]) \subseteq Range(memory[y])
      OBVIOUS
  <2>1. CASE y = type
    BY <1>4, <2>1
  <2>2. CASE y # type
    BY <1>2, <1>3, <2>2
  <2> QED BY <2>1, <2>2
<1>6. Steady /\ NothingReflected
  BY UnchangedSteady
<1>7. \A y \in MemoryType : \A e \in Range(memory'[y]) : Entry(e)' /\ OwnEntry(y, e)'
  <2>1. \A y \in MemoryType : \A e \in Range(memory'[y]) : Entry(e) /\ OwnEntry(y, e)
    BY <1>5 DEF ReflectInv, MemoryInv
  <2> QED BY <1>1, <1>6, <2>1, OwnKept DEF Entry
<1>8. run'.at = "reflect" => run'.goal \in Goal /\ trail'[run'.goal] # <<>>
  BY DEF ReflectInv, MemoryInv
<1>9. MemoryInv'
  BY <1>2, <1>5, <1>7, <1>8 DEF MemoryInv, OneEntryPerCause, Distinct
<1>10. StoredGrows
  <2> SUFFICES ASSUME NEW y \in MemoryType, NEW e \in Range(memory[y])
               PROVE  e \in Range(memory'[y]) \/ e.id \in gone'
      BY <1>1 DEF StoredGrows
  <2>1. CASE y # type
    BY <1>2, <2>1
  <2>2. CASE y = type
    BY <1>1, <1>4, <2>2
  <2> QED BY <2>1, <2>2
<1>11. DatesInv'
  BY <1>1, DatesKept DEF ReflectInv, DatesInv
<1> QED BY <1>6, <1>9, <1>10, <1>11, MarksKept, WriterKept, SeedKept DEF ReflectInv

LEMMA HousekeepingReflections ==
    ASSUME TrailLogs, ReflectInv, UNCHANGED engineVars, Housekeeping
    PROVE  ReflectInv'
<1>1. UNCHANGED <<candidates, trail, job, deaths, run>>
  BY DEF Housekeeping, engineVars
<1>2. CASE NextDay
  <2>1. day' \in day..MaxDay /\ UNCHANGED <<memory, gone>>
    BY <1>2, DayAssumption DEF NextDay, ReflectInv, DatesInv
  <2>2. deaths' \in 0..MaxDeaths
    BY <1>1 DEF ReflectInv, DatesInv
  <2> QED BY <1>1, <2>1, <2>2, QuietStepReflections DEF SameReflection
<1>3. ASSUME NEW type \in MemoryType,
             Sweep(type) \/ \E e \in Range(memory[type]) : Revoke(type, e.id)
      PROVE  ReflectInv'
  <2>1. PICK out : Discard(type, out)
    BY <1>3 DEF Sweep, Revoke
  <2> QED BY <1>1, <2>1, DiscardReflections
<1> QED BY <1>2, <1>3 DEF Housekeeping

\* An outcome makes a row longer by one attempt.
LEMMA OutcomeReflections ==
    ASSUME SkillInv, ReflectInv, UNCHANGED engineVars,
           NEW s \in Skill, NEW t \in Task, BeginOutcome(s, t)
    PROVE  ReflectInv'
<1> DEFINE o == [attempt |-> t, success |-> Verified(t), refs |-> Evidence(t)]
           c == candidates[s]
<1>1. /\ s \in Known /\ job'.op = "outcome"
      /\ candidates' = Counted(s, o) \/ candidates' = candidates
      /\ UNCHANGED <<memory, day, gone, trail, deaths, run>>
  BY DEF BeginOutcome, RecordOutcome, engineVars
<1>2. Steady /\ NothingReflected /\ StoredGrows
  BY <1>1, UnchangedSteady, UnchangedStores
<1>3. SeedInv'
  <2>1. CASE candidates' = candidates
    BY <1>2, <2>1, SeedKept DEF ReflectInv
  <2>2. CASE candidates' = Counted(s, o)
    <3>1. /\ candidates = [x \in Known |-> candidates[x]]
          /\ IsLog(c.outcomes)
          /\ c = [seed |-> c.seed, outcomes |-> c.outcomes, attempts |-> c.attempts,
                  successes |-> c.successes]
      BY <1>1 DEF SkillInv, CandidateOK
    <3> HIDE DEF o
    <3>2. /\ Known' = Known
          /\ \A x \in Known : x # s => candidates'[x] = candidates[x]
          /\ candidates'[s].seed = c.seed
          /\ candidates'[s].outcomes = Append(c.outcomes, o)
          /\ candidates'[s].attempts = c.attempts + 1
      BY <1>1, <2>2, <3>1 DEF Counted, Known
    <3>3. \A x \in Known : candidates'[x].seed = candidates[x].seed
      BY <3>2
    <3>4. \A x \in Known : candidates'[x].attempts = Len(candidates'[x].outcomes)
      <4>1. Len(Append(c.outcomes, o)) = Len(c.outcomes) + 1
        BY <3>1, c.outcomes \in Seq(Range(c.outcomes) \cup {o}) DEF IsLog
      <4>2. c.attempts = Len(c.outcomes)
        BY <1>1 DEF ReflectInv, SeedInv
      <4>3. candidates'[s].attempts = Len(candidates'[s].outcomes)
        BY <3>2, <4>1, <4>2
      <4> QED BY <3>2, <4>3 DEF ReflectInv, SeedInv
    <3>5. \A x \in Task : (Reflected(x)' <=> Reflected(x)) /\ Seed(x)' = Seed(x)
      BY <1>1 DEF Reflected, Seed, EventsOf
    <3> QED BY <3>2, <3>3, <3>4, <3>5 DEF ReflectInv, SeedInv
  <2> QED BY <1>1, <2>1, <2>2
<1>4. day' \in Nat /\ day <= day' /\ DatesInv'
  BY <1>1, DatesKept DEF ReflectInv, DatesInv
<1>5. MemoryInv'
  BY <1>1, <1>2, <1>4, MemoryKept DEF ReflectInv, MemoryInv, Steady
<1>6. MarksInv' /\ WriterInv'
  BY <1>1, <1>2, MarksKept, WriterKept DEF SkillInv, ReflectInv
<1> QED BY <1>3, <1>4, <1>5, <1>6 DEF ReflectInv

\* An audit event is none of a reflection.
LEMMA AuditReflections ==
    ASSUME SkillInv, ReflectInv, UNCHANGED engineVars, Audit
    PROVE  ReflectInv'
<1>1. /\ UNCHANGED <<memory, day, gone, candidates, deaths, run>>
      /\ job'.op = "none" /\ TrailLogs
  BY DEF Audit, engineVars, Idle, SkillInv
<1>2. CASE UNCHANGED trail
  <2>1. day' \in day..MaxDay /\ deaths' \in 0..MaxDeaths
    BY <1>1 DEF ReflectInv, DatesInv
  <2> QED BY <1>1, <1>2, <2>1, QuietStepReflections DEF SameReflection
<1>3. CASE Log(job.home, job.audit)
  <2>1. PICK home, e : home = job.home /\ e = job.audit
    OBVIOUS
  <2>2. Log(home, e) /\ e.type \in {"outcome", "promotion"}
    BY <1>3, <2>1 DEF Audit, SkillInv, JobOK
  <2>3. Steady /\ NothingReflected
    BY <1>1, <2>2, LogSteady DEF NothingReflected
  <2>4. DatesInv'
    BY <1>1, <2>2, LogDates DEF ReflectInv
  <2>5. run'.at = "reflect" => /\ run'.goal \in Goal /\ trail'[run'.goal] # <<>>
                               /\ run.at = "reflect" /\ run.goal = run'.goal
    BY <1>1, <2>3 DEF ReflectInv, MemoryInv, Steady
  <2>6. day <= day'
    BY <1>1 DEF ReflectInv, DatesInv
  <2> QED BY <1>1, <2>3, <2>4, <2>5, <2>6, QuietKeeps
<1> QED BY <1>2, <1>3 DEF Audit, SkillAudit

-----------------------------------------------------------------------------
(* The engine's own reflection and its skill.                              *)

FullRun ==
    run \in [at : {"reflect", "distill", "settle"}, item : Item, goal : Goal,
             result : Result \cup {"raised"}, rotated : BOOLEAN]

LEMMA RunIsFull ==
    ASSUME RunType, run.at \in {"reflect", "distill"}
    PROVE  FullRun
  BY DEF RunType, FullRun

\* A contract is reflected on once, before it has any entry.
LEMMA RunReflections ==
    ASSUME TrailLogs, ReflectInv, RunType, NEW goal \in Goal, NEW ttl, Reflect(goal, ttl)
    PROVE  ReflectInv'
<1> DEFINE r == [id |-> <<goal, "retrospective", 0>>, created |-> day, ttl |-> 0,
                 source |-> Len(trail[goal])]
           f == FailureEntries(goal, Len(trail[goal]), ttl)
<1>1. run.at = "reflect" /\ run.goal = goal /\ run'.at \in {"distill", "settle"}
  BY RunIsFull DEF Reflect, FullRun
<1>2. UNCHANGED <<day, gone, candidates, trail, job, deaths>>
  BY DEF Reflect
<1>3. goal \in Subject /\ day \in Nat
  BY DEF Subject, ReflectInv, DatesInv
<1>4. /\ IsLog(f)
      /\ \A x \in Range(f) : Entry(x) /\ x.id[1] = goal /\ x.id[2] = "failure"
      /\ Distinct(f)
  <2>1. PICK upTo : upTo = Len(trail[goal])
    OBVIOUS
  <2>2. /\ IsLog(f)
        /\ \A k \in DOMAIN f : /\ Entry(f[k])
                               /\ f[k].id[1] = goal /\ f[k].id[2] = "failure"
        /\ \A k, l \in DOMAIN f : f[k].id = f[l].id => k = l
    BY <1>3, <2>1, FailureEntriesAre DEF ReflectInv
  <2> HIDE DEF f
  <2> QED BY <2>2 DEF Range, Distinct
<1>5. Entry(r) /\ r.id[1] = goal
  BY <1>3 DEF Entry
<1>6. memory' = [memory EXCEPT !["retrospectives"] = Append(@, r), !["failures"] = @ \o f]
  BY DEF Reflect
<1> HIDE DEF r, f
<1>7. /\ memory' = [y \in MemoryType |-> memory'[y]]
      /\ memory'["retrospectives"] = Append(memory["retrospectives"], r)
      /\ memory'["failures"] = memory["failures"] \o f
  BY <1>6 DEF ReflectInv, MemoryInv, MemoryType
<1>8. \A y \in MemoryType : IsLog(memory[y]) /\ Distinct(memory[y])
  BY DEF ReflectInv, MemoryInv, OneEntryPerCause, Distinct
<1>9. \A y \in MemoryType : \A e \in Range(memory[y]) : e.id[1] # goal
  BY <1>1, IdAssumption DEF ReflectInv, MemoryInv, OwnEntry
<1>10. "retrospectives" \in MemoryType /\ "failures" \in MemoryType
  BY DEF MemoryType
<1>11. /\ IsLog(memory'["retrospectives"]) /\ Distinct(memory'["retrospectives"])
       /\ Range(memory'["retrospectives"]) = Range(memory["retrospectives"]) \cup {r}
  <2>1. \A x \in Range(memory["retrospectives"]) : x.id # r.id
    BY <1>5, <1>9, <1>10
  <2> QED BY <1>7, <1>8, <1>10, <2>1, AppendLog, AppendDistinct
<1>12. /\ IsLog(memory'["failures"]) /\ Distinct(memory'["failures"])
       /\ Range(memory'["failures"]) = Range(memory["failures"]) \cup Range(f)
  <2>1. \A x \in Range(memory["failures"]), y \in Range(f) : x.id # y.id
    BY <1>4, <1>9, <1>10
  <2> QED BY <1>4, <1>7, <1>8, <1>10, <2>1, ConcatLog, ConcatDistinct
<1>13. \A y \in MemoryType :
         /\ IsLog(memory'[y]) /\ Distinct(memory'[y])
         /\ Range(memory[y]) \subseteq Range(memory'[y])
         /\ \A e \in Range(memory'[y]) : e \in Range(memory[y]) \/ (Entry(e) /\ e.id[1] = goal)
  BY <1>4, <1>5, <1>11, <1>12 DEF MemoryType
<1>14. Steady /\ NothingReflected /\ DatesInv'
  <2>1. day' \in day..MaxDay /\ deaths' \in 0..MaxDeaths
    BY <1>2 DEF ReflectInv, DatesInv
  <2> QED BY <1>2, <2>1, UnchangedSteady, DatesKept DEF ReflectInv
<1>15. \A y \in MemoryType : \A e \in Range(memory'[y]) : Entry(e)' /\ OwnEntry(y, e)'
  <2> SUFFICES ASSUME NEW y \in MemoryType, NEW e \in Range(memory'[y])
               PROVE  Entry(e)' /\ OwnEntry(y, e)'
      OBVIOUS
  <2>1. CASE e \in Range(memory[y])
    <3>1. Entry(e) /\ OwnEntry(y, e)
      BY <2>1 DEF ReflectInv, MemoryInv
    <3> QED BY <1>1, <1>2, <1>14, <3>1, OwnKept DEF Entry
  <2>2. CASE Entry(e) /\ e.id[1] = goal
    <3>1. trail'[goal] # <<>>
      BY <1>1, <1>2 DEF ReflectInv, MemoryInv
    <3> QED BY <1>1, <1>2, <2>2, <3>1 DEF Entry, OwnEntry
  <2> QED BY <1>13, <2>1, <2>2
<1>16. MemoryInv'
  BY <1>1, <1>7, <1>13, <1>15 DEF MemoryInv, OneEntryPerCause, Distinct
<1>17. StoredGrows
  BY <1>2, <1>13 DEF StoredGrows
<1> QED BY <1>2, <1>14, <1>16, <1>17, MarksKept, WriterKept, SeedKept DEF ReflectInv

LEMMA DistillRunReflections ==
    ASSUME TrailLogs, ReflectInv, RunType, DistillRun
    PROVE  ReflectInv'
<1>1. FullRun /\ run'.at = "settle" /\ run.goal \in Goal
  BY RunIsFull DEF DistillRun, FullRun
<1>2. UNCHANGED <<memory, day, gone, trail, job, deaths>>
  BY DEF DistillRun
<1>3. day' \in day..MaxDay /\ deaths' \in 0..MaxDeaths
  BY <1>2 DEF ReflectInv, DatesInv
<1>4. CASE UNCHANGED skillVars
  BY <1>1, <1>2, <1>3, <1>4, QuietStepReflections DEF SameReflection, skillVars
<1>5. CASE \E seed : DistillOnce(run.goal, seed)
  <2>1. PICK goal, seed : goal = run.goal /\ DistillOnce(goal, seed)
    BY <1>5
  <2>2. goal \in Subject /\ goal \notin Task
    BY <1>1, <2>1, IdAssumption DEF Subject
  <2>3. SeedInv'
    BY <1>2, <2>1, <2>2, DistillSeeds DEF ReflectInv
  <2>4. Steady /\ NothingReflected /\ StoredGrows /\ DatesInv'
    BY <1>2, <1>3, UnchangedSteady, UnchangedStores, DatesKept DEF ReflectInv
  <2>5. day' \in Nat /\ day <= day'
    BY <1>2 DEF ReflectInv, DatesInv
  <2> QED BY <1>1, <1>2, <2>3, <2>4, <2>5, MarksKept, WriterKept, MemoryKept DEF ReflectInv
<1> QED BY <1>4, <1>5 DEF DistillRun

-----------------------------------------------------------------------------
(* All steps.                                                              *)

LEMMA InitReflectInv == Init => ReflectInv
<1> SUFFICES ASSUME Init PROVE ReflectInv
    OBVIOUS
<1>1. /\ memory = [type \in MemoryType |-> <<>>] /\ day = 0 /\ deaths = 0
      /\ trail = [t \in Subject |-> <<>>] /\ job.op = "none" /\ Known = {}
      /\ run.at = "idle"
  BY DEF Init, LearningInit, MemoryInit, SkillInit, Subject, Idle, Known, NoRun
<1>2. \A t \in Subject : \A type : EventsOf(t, type) = {}
  BY <1>1 DEF EventsOf
<1>3. DatesInv
  BY <1>1, <1>2, DayAssumption, DeathsAssumption DEF DatesInv, Intents
<1>4. MarksInv
  BY <1>2 DEF MarksInv, Intents, Reflected, Subject
<1>5. WriterInv
  BY <1>1 DEF WriterInv
<1>6. MemoryInv
  <2>1. \A type \in MemoryType : IsLog(memory[type]) /\ Range(memory[type]) = {}
                                 /\ DOMAIN memory[type] = {}
    BY <1>1, SmallLogs
  <2> QED BY <1>1, <2>1 DEF MemoryInv, OneEntryPerCause
<1>7. SeedInv
  BY <1>1 DEF SeedInv
<1> QED BY <1>3, <1>4, <1>5, <1>6, <1>7 DEF ReflectInv

LEMMA LearningReflections ==
    ASSUME SkillInv, ReflectInv, UNCHANGED engineVars, LearningNext
    PROVE  ReflectInv'
<1>1. TrailLogs /\ JobOK
  BY DEF SkillInv
<1>2. CASE \E t \in Task : \E course \in Course(t) : End(t, course)
  BY <1>1, <1>2, EndReflections
<1>3. CASE \E t \in Task : \E options \in Options(t) : BeginReflect(t, options)
  BY <1>1, <1>3, BeginReflectReflections
<1>4. CASE \E t \in Task : \E s \in Skill : BeginOutcome(s, t)
  BY <1>4, OutcomeReflections
<1>5. CASE WriteEntry
  BY <1>1, <1>5, WriteEntryReflections
<1>6. CASE WriteManifest
  BY <1>1, <1>6, ManifestReflections
<1>7. CASE Distill
  BY <1>1, <1>7, DistillReflections
<1>8. ASSUME NEW s \in Skill, NEW by \in Approver, BeginPromote(s, by) PROVE ReflectInv'
  <2>1. /\ UNCHANGED <<memory, day, gone, candidates, trail, deaths, run>>
        /\ job'.op = "promote"
    BY <1>8 DEF BeginPromote, Promote, engineVars
  <2>2. day' \in day..MaxDay /\ deaths' \in 0..MaxDeaths
    BY <2>1 DEF ReflectInv, DatesInv
  <2> QED BY <1>1, <2>1, <2>2, QuietStepReflections DEF SameReflection
<1>9. CASE Audit
  BY <1>9, AuditReflections
<1>10. CASE Die
  <2>1. /\ UNCHANGED <<memory, day, gone, candidates, trail, run>>
        /\ job'.op = "none" /\ deaths < MaxDeaths /\ deaths' = deaths + 1
    BY <1>10 DEF Die, Idle, engineVars
  <2>2. day' \in day..MaxDay /\ deaths' \in 0..MaxDeaths
    BY <2>1, DeathsAssumption DEF ReflectInv, DatesInv
  <2> QED BY <1>1, <2>1, <2>2, QuietStepReflections DEF SameReflection
<1>11. CASE Housekeeping
  BY <1>1, <1>11, HousekeepingReflections
<1> QED
  BY <1>2, <1>3, <1>4, <1>5, <1>6, <1>7, <1>8, <1>9, <1>10, <1>11 DEF LearningNext

LEMMA EngineReflections ==
    ASSUME SkillInv, AgendaInv, ReflectInv, EngineNext
    PROVE  ReflectInv'
<1>1. TrailLogs /\ RunType
  BY DEF SkillInv, AgendaInv
<1>2. ASSUME UNCHANGED learningVars, SameReflection PROVE ReflectInv'
  <2>1. /\ UNCHANGED <<memory, gone, candidates, trail, job>>
        /\ day' \in day..MaxDay /\ deaths' \in 0..MaxDeaths
    BY <1>2 DEF learningVars, ReflectInv, DatesInv
  <2> QED BY <1>1, <1>2, <2>1, QuietStepReflections
<1>3. CASE \E it \in Item : TakeItem(it)
  BY <1>2, <1>3 DEF TakeItem, SameReflection
<1>4. CASE \E goal \in Goal : \E course \in Course(goal) : RunLoop(goal, course.causes, course.last)
  BY <1>1, <1>4, RunLoopReflections
<1>5. CASE \E goal \in Goal : \E ttl \in Options(goal) : Reflect(goal, ttl)
  BY <1>1, <1>5, RunReflections
<1>6. CASE DistillRun
  BY <1>1, <1>6, DistillRunReflections
<1>7. CASE Raise
  BY <1>2, <1>7 DEF Raise, SameReflection
<1>8. CASE Finish
  BY <1>2, <1>8 DEF Finish, NoRun, SameReflection
<1>9. CASE Rotate
  <2>1. FullRun
    BY <1>1, <1>9, RunIsFull DEF Rotate
  <2> QED BY <1>2, <1>9, <2>1 DEF Rotate, FullRun, SameReflection
<1>10. CASE DieRunning
  <2>1. /\ UNCHANGED <<memory, day, gone, candidates, trail, job>>
        /\ run'.at = "down" /\ deaths < MaxDeaths /\ deaths' = deaths + 1
    BY <1>10 DEF DieRunning
  <2>2. day' \in day..MaxDay /\ deaths' \in 0..MaxDeaths
    BY <2>1, DeathsAssumption DEF ReflectInv, DatesInv
  <2> QED BY <1>1, <2>1, <2>2, QuietStepReflections DEF SameReflection
<1>11. CASE Restart
  BY <1>2, <1>11 DEF Restart, NoRun, SameReflection
<1>12. CASE \E i \in Instance : Open(i) \/ \E it \in Item : UseAgenda(i, it)
  BY <1>2, <1>12 DEF Open, UseAgenda, SameReflection
<1> QED
  BY <1>3, <1>4, <1>5, <1>6, <1>7, <1>8, <1>9, <1>10, <1>11, <1>12 DEF EngineNext

\* Items are what the agenda's marks are about.
MarkedItems == clobbered \subseteq Item /\ passed \subseteq Item /\ stranded \subseteq Item

LEMMA StepMarkedItems ==
    ASSUME AgendaInv, MarkedItems, [Next]_vars
    PROVE  MarkedItems'
<1> USE DEF MarkedItems
<1>1. ASSUME NEW i, NEW it, NEW status, Save(i, it, status) PROVE clobbered' \subseteq Item
  BY <1>1 DEF Save
<1>2. run.at \notin {"idle", "down"} => run.item \in Item
  BY DEF AgendaInv, RunType
<1>3. CASE UNCHANGED engineVars
  BY <1>3 DEF engineVars
<1>4. CASE \E it \in Item : TakeItem(it)
  BY <1>1, <1>4 DEF TakeItem, Activate
<1>5. CASE \/ \E goal \in Goal : \E course \in Course(goal) :
                RunLoop(goal, course.causes, course.last)
           \/ \E goal \in Goal : \E ttl \in Options(goal) : Reflect(goal, ttl)
           \/ DistillRun \/ Raise \/ Rotate
  BY <1>5 DEF RunLoop, Reflect, DistillRun, Raise, Rotate
<1>6. CASE Finish
  <2>1. clobbered' \subseteq Item
    BY <1>1, <1>6 DEF Finish, Settle, MarkDone, Defer
  <2> QED BY <1>2, <1>6, <2>1 DEF Finish
<1>7. CASE DieRunning
  BY <1>2, <1>7 DEF DieRunning, Forget
<1>8. CASE Restart
  BY <1>8 DEF Restart, Load
<1>9. CASE \E i \in Instance : Open(i) \/ \E it \in Item : UseAgenda(i, it)
  BY <1>1, <1>9 DEF Open, Load, UseAgenda, Add, Drop
<1> QED
  BY <1>3, <1>4, <1>5, <1>6, <1>7, <1>8, <1>9 DEF Next, EngineNext, vars

EngineInv == SkillInv /\ AgendaInv /\ ReflectInv /\ MarkedItems

LEMMA InitEngineInv == Init => EngineInv
  BY InitSkillInv, InitAgendaInv, InitReflectInv
  DEF EngineInv, MarkedItems, Init, AgendaInit

LEMMA StepEngineInv == EngineInv /\ [Next]_vars => EngineInv'
<1> SUFFICES ASSUME EngineInv, [Next]_vars PROVE EngineInv'
    OBVIOUS
<1> USE DEF EngineInv
<1>1. SkillInv' /\ AgendaInv' /\ MarkedItems'
  BY StepSkillInv, StepAgendaInv, StepMarkedItems
<1>2. ReflectInv'
  <2>1. CASE LearningNext /\ UNCHANGED engineVars
    BY <2>1, LearningReflections
  <2>2. CASE EngineNext
    BY <2>2, EngineReflections
  <2>3. CASE UNCHANGED vars
    <3>1. /\ UNCHANGED <<memory, gone, candidates, trail, job, run>>
          /\ day' \in day..MaxDay /\ deaths' \in 0..MaxDeaths
      BY <2>3 DEF vars, learningVars, engineVars, ReflectInv, DatesInv
    <3>2. TrailLogs
      BY DEF SkillInv
    <3> QED BY <3>1, <3>2, QuietStepReflections DEF SameReflection
  <2> QED BY <2>1, <2>2, <2>3 DEF Next
<1> QED BY <1>1, <1>2

\* Memory, trails and store agree on every reflection, interrupted or done
\* (TaskLifecycle.reflect, record_once, distill_once, run_next).
THEOREM EngineInvariant == Spec => []EngineInv
  BY InitEngineInv, StepEngineInv, PTL DEF Spec

-----------------------------------------------------------------------------
(* What reflections leave.                                                 *)

\* Memory holds one entry for every cause and one retrospective for every
\* task, however often reflections were interrupted and repeated, beside runs
\* that reflect and with entries revoked and swept (record_once).
THEOREM OneEntry == Spec => []OneEntryPerCause
  BY EngineInvariant, PTL DEF EngineInv, ReflectInv, MemoryInv

\* What a task's reflection names is in memory as the task's events tell it,
\* unless it was revoked or swept, and nothing of it is named twice
\* (TaskLifecycle.reflect).
THEOREM ManifestTrue == Spec => []ManifestIsMemory
<1>1. EngineInv => ManifestIsMemory
  <2> SUFFICES ASSUME EngineInv, NEW t \in Task, Reflected(t)
               PROVE  LET named == trail[t][Max(EventsOf(t, "reflected"))].entries
                      IN  /\ IsInjective(named)
                          /\ \A k \in DOMAIN Entries(t) :
                               LET type == Entries(t)[k][1]  e == Entries(t)[k][2]
                               IN  e.id \in Range(named)
                                   /\ (e \in Range(memory[type]) \/ e.id \in gone)
      BY DEF ManifestIsMemory
  <2>1. TrailLogs /\ DatesInv /\ MarksInv
    BY DEF EngineInv, SkillInv, ReflectInv
  <2>2. PICK i : EventsOf(t, "reflected") = {i}
    BY <2>1 DEF MarksInv, Reflected
  <2>3. Intents(t) # {} /\ trail[t][i].entries = Named(t) /\ \A k \in DOMAIN Entries(t) : Stored(t, k)
    BY <2>1, <2>2 DEF MarksInv
  <2>4. Max(EventsOf(t, "reflected")) = i
    BY <2>2 DEF Max
  <2>5. \A k, l \in DOMAIN Entries(t) : Entries(t)[k][2].id = Entries(t)[l][2].id => k = l
    BY <2>1, <2>3, EntriesAre
  <2>6. IsInjective(Named(t)) /\ \A k \in DOMAIN Entries(t) : Entries(t)[k][2].id \in Range(Named(t))
    BY <2>5 DEF Named, IsInjective, Range
  <2> QED BY <2>3, <2>4, <2>6 DEF Stored
<1> QED BY <1>1, EngineInvariant, PTL

\* A reflection that was interrupted is carried to its end by the same call:
\* nothing but a death ends it early, and when it ends the task is reflected
\* and its skill is made of exactly the events up to its reflection.
THEOREM Resumes == Spec => ReflectionResumes
<1> DEFINE Resumed ==
      job.op = "reflect" /\ job' = Idle /\ deaths' = deaths
       => \A t \in {job.task} :
            /\ Reflected(t)'
            /\ Verified(t) => t \in Known' /\ candidates'[t].seed = Seed(t)
<1>1. EngineInv /\ [Next]_vars => [Resumed]_learningVars
  <2> SUFFICES ASSUME EngineInv, [Next]_vars, job.op = "reflect", job' = Idle, deaths' = deaths
               PROVE  \A t \in {job.task} :
                        /\ Reflected(t)'
                        /\ Verified(t) => t \in Known' /\ candidates'[t].seed = Seed(t)
      OBVIOUS
  <2>1. TrailLogs /\ JobOK /\ ReflectInv /\ job # Idle
    BY DEF EngineInv, SkillInv, Idle
  <2>2. LearningNext /\ UNCHANGED engineVars
    <3>1. job' # job
      BY <2>1
    <3>2. ~EngineNext
      BY <3>1 DEF EngineNext, TakeItem, RunLoop, Reflect, DistillRun, Raise, Finish, Rotate,
                  DieRunning, Restart, Open, UseAgenda, learningVars
    <3>3. ~UNCHANGED vars
      BY <3>1 DEF vars, learningVars
    <3> QED BY <3>2, <3>3 DEF Next
  <2>3. WriteEntry \/ WriteManifest \/ Distill \/ Die
    BY <2>1, <2>2 DEF LearningNext, End, BeginReflect, BeginOutcome, BeginPromote, Audit, Housekeeping
  <2>4. ~WriteEntry
    <3> SUFFICES ASSUME WriteEntry PROVE FALSE
        OBVIOUS
    <3>1. job' = [job EXCEPT !.k = @ + 1]
      BY <2>1, <2>2, WriteEntryReflections
    <3> QED BY <2>1, <3>1 DEF Idle, JobOK
  <2>5. ~Die
    BY <2>1 DEF Die, ReflectInv, DatesInv
  <2>6. CASE WriteManifest
    <3>1. \A t \in {job.task} : Reflected(t)'
      BY <2>1, <2>2, <2>6, ManifestReflections
    <3>2. ~Verified(job.task)
      BY <2>1, <2>6 DEF WriteManifest, Idle, JobOK
    <3> QED BY <3>1, <3>2
  <2>7. CASE Distill
    BY <2>1, <2>2, <2>7, DistillReflections
  <2> QED BY <2>3, <2>4, <2>5, <2>6, <2>7
<1> QED BY <1>1, EngineInvariant, PTL DEF Spec, ReflectionResumes

\* The variables have their types: the agenda's and the run's, the entries of
\* memory, which are dated and never after today, and the counters of
\* candidates.
THEOREM Types == Spec => []TypeOK
<1>1. EngineInv => TypeOK
  <2> SUFFICES ASSUME EngineInv PROVE TypeOK
      OBVIOUS
  <2>1. /\ saved \in [Item -> Status] /\ held \in [Instance -> [Item -> Status]]
        /\ run.at \in {"idle", "work", "reflect", "distill", "settle", "down"}
    BY DEF EngineInv, AgendaInv, AgendaType, RunType
  <2>2. /\ \A type \in MemoryType : \A e \in Range(memory[type]) : Entry(e)
        /\ day \in 0..MaxDay /\ deaths \in 0..MaxDeaths
        /\ Known \subseteq Task \cup Goal
        /\ job.op \in {"none", "reflect", "outcome", "promote"}
    BY DEF EngineInv, ReflectInv, MemoryInv, DatesInv, SeedInv, WriterInv, Subject
  <2>3. ASSUME NEW s \in Known
        PROVE  /\ candidates[s].attempts = Len(candidates[s].outcomes)
               /\ candidates[s].successes \in 0..candidates[s].attempts
    <3> DEFINE outcomes == candidates[s].outcomes
    <3>1. CandidateOK(s) /\ candidates[s].attempts = Len(outcomes)
      BY DEF EngineInv, SkillInv, ReflectInv, SeedInv
    <3>2. PICK T : T = Tried(outcomes)
      OBVIOUS
    <3>3. PICK W : W = Won(outcomes)
      OBVIOUS
    <3>4. W \subseteq T /\ IsFiniteSet(T) /\ IsFiniteSet(W)
      BY <3>1, <3>2, <3>3 DEF CandidateOK, Won
    <3>5. candidates[s].attempts = Cardinality(T) /\ candidates[s].successes = Cardinality(W)
      BY <3>1, <3>2, <3>3 DEF CandidateOK
    <3>6. Cardinality(T) \in Nat /\ Cardinality(W) \in Nat /\ Cardinality(W) <= Cardinality(T)
      BY <3>4, FS_Subset, FS_CardinalityType
    <3> QED BY <3>1, <3>5, <3>6
  <2> QED BY <2>1, <2>2, <2>3 DEF TypeOK, EngineInv, MarkedItems
<1> QED BY <1>1, EngineInvariant, PTL

=============================================================================
