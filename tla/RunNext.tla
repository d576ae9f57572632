------------------------------ MODULE RunNext ------------------------------
(***************************************************************************)
(* causality.engine.CausalityEngine.run_next around run_task: it takes an  *)
(* item of the agenda, runs it, reflects, distills and settles the item.   *)
(* The run itself up to the loop's result is BoundedLoop, one step here.   *)
(* Beside it work the tasks and tools of Learning, with the same memory    *)
(* and skills, and other instances of the agenda.                          *)
(***************************************************************************)
EXTENDS Learning, Agenda

CONSTANT Me     \* the engine's instance of the agenda

ASSUME MeAssumption == Me \in Instance

\* What the bounded loop decides.
Result == {"PASS", "STOP", "ESCALATE"}

ASSUME CourseAssumption ==
    \A goal \in Goal : \A course \in Course(goal) : course.last \in Result

VARIABLES
    run,        \* the run: where it is, its item, contract and result
    passed,     \* items of which a run has passed
    stranded    \* items whose run was cut short by a death

engineVars == <<saved, held, clobbered, run, passed, stranded>>
vars == <<learningVars, engineVars>>

NoRun == [at |-> "idle"]

Init ==
    /\ LearningInit /\ AgendaInit
    /\ run = NoRun /\ passed = {} /\ stranded = {}

TakeItem(it) ==
    /\ run = NoRun
    /\ it \in NextPending(Me)
    /\ Activate(Me, it)
    /\ run' = [at |-> "work", item |-> it]
    /\ UNCHANGED <<learningVars, passed, stranded>>

\* The loop's result and what its contract has recorded by then.
RunLoop(goal, causes, result) ==
    /\ run.at = "work"
    /\ trail[goal] = <<>>
    /\ trail' = [trail EXCEPT ![goal] =
         Fails(causes) \o <<[type |-> "gate", decision |-> result]>>]
    /\ run' = [at |-> "reflect", item |-> run.item, goal |-> goal, result |-> result,
               rotated |-> FALSE]
    /\ UNCHANGED <<memory, day, gone, candidates, promoted, job, deaths,
                   saved, held, clobbered, passed, stranded>>

\* reflect_on_contract without an intent: a new retrospective, and the causes
\* of this contract.  Nothing repeats it, so it is one step.
Reflect(goal, ttl) ==
    /\ run.at = "reflect" /\ run.goal = goal
    /\ memory' = [memory EXCEPT
         !["retrospectives"] = Append(@, [id |-> <<goal, "retrospective", 0>>, created |-> day,
                                          ttl |-> 0, source |-> Len(trail[goal])]),
         !["failures"] = @ \o FailureEntries(goal, Len(trail[goal]), ttl)]
    /\ run' = [run EXCEPT !.at = IF run.result = "PASS" THEN "distill" ELSE "settle"]
    /\ UNCHANGED <<day, gone, candidates, promoted, trail, job, deaths,
                   saved, held, clobbered, passed, stranded>>

\* distill looks for the contract in the current segment of the ledger alone,
\* and raises when a rotation has sealed all of its events.
DistillRun ==
    /\ run.at = "distill"
    /\ IF run.rotated THEN /\ run' = [run EXCEPT !.at = "settle", !.result = "raised"]
                           /\ UNCHANGED skillVars
       ELSE /\ DistillOnce(run.goal, [source |-> run.goal, steps |-> Len(trail[run.goal])])
            /\ run' = [run EXCEPT !.at = "settle"]
    /\ UNCHANGED <<memory, day, gone, trail, job, deaths,
                   saved, held, clobbered, passed, stranded>>

\* Whatever work, a verifier or a store raises.
Raise ==
    /\ run.at \in {"work", "reflect", "distill"}
    /\ run' = [at |-> "settle", item |-> run.item, result |-> "raised"]
    /\ UNCHANGED <<learningVars, saved, held, clobbered, passed, stranded>>

\* Mutant: the item is given back only when the run returned.
SettleReturned ==
    IF run.result = "PASS" THEN MarkDone(Me, run.item)
    ELSE IF run.result = "raised" THEN UNCHANGED agenda
    ELSE Defer(Me, run.item)

\* Mutant: the item of any run that returned is done.
SettleDone == IF run.result = "raised" THEN Defer(Me, run.item) ELSE MarkDone(Me, run.item)

\* The finally clause of run_next.
Settle == IF run.result = "PASS" THEN MarkDone(Me, run.item) ELSE Defer(Me, run.item)

Finish ==
    /\ run.at = "settle"
    /\ Settle
    /\ passed' = IF run.result = "PASS" THEN passed \cup {run.item} ELSE passed
    /\ run' = NoRun
    /\ UNCHANGED <<learningVars, stranded>>

Rotate ==
    /\ run.at \in {"reflect", "distill"} /\ ~run.rotated
    /\ run' = [run EXCEPT !.rotated = TRUE]
    /\ UNCHANGED <<learningVars, saved, held, clobbered, passed, stranded>>

DieRunning ==
    /\ run.at \notin {"idle", "down"}
    /\ deaths < MaxDeaths
    /\ deaths' = deaths + 1
    /\ stranded' = stranded \cup {run.item}
    /\ run' = [at |-> "down"]
    /\ Forget(Me)
    /\ UNCHANGED <<memory, day, gone, candidates, promoted, trail, job, passed>>

Restart ==
    /\ run.at = "down"
    /\ run' = NoRun
    /\ Load(Me)
    /\ UNCHANGED <<learningVars, passed, stranded>>

\* Another instance, in this process or another, uses the agenda.  The engine
\* looks at it only when it takes an item and when it settles it.
AgendaMay(i) == run.at \in (IF i = Me THEN {"idle"} ELSE {"idle", "down", "settle"})

UseAgenda(i, it) ==
    /\ AgendaMay(i)
    /\ Add(i, it) \/ (i # Me /\ Drop(i, it))
    /\ UNCHANGED <<learningVars, run, passed, stranded>>

Open(i) ==
    /\ AgendaMay(i) /\ i # Me
    /\ Load(i)
    /\ UNCHANGED <<learningVars, run, passed, stranded>>

EngineNext ==
    \/ \E it \in Item : TakeItem(it)
    \/ \E goal \in Goal : \E course \in Course(goal) : RunLoop(goal, course.causes, course.last)
    \/ \E goal \in Goal : \E ttl \in Options(goal) : Reflect(goal, ttl)
    \/ DistillRun \/ Raise \/ Finish \/ Rotate \/ DieRunning \/ Restart
    \/ \E i \in Instance : Open(i) \/ \E it \in Item : UseAgenda(i, it)

Next == (LearningNext /\ UNCHANGED engineVars) \/ EngineNext

Spec == Init /\ [][Next]_vars

-----------------------------------------------------------------------------
(* Properties.                                                             *)

Entry(x) == DOMAIN x = {"id", "created", "ttl", "source"} /\ x.created \in 0..day

\* The variables have their types.
TypeOK ==
    /\ saved \in [Item -> Status] /\ held \in [Instance -> [Item -> Status]]
    /\ clobbered \subseteq Item /\ passed \subseteq Item /\ stranded \subseteq Item
    /\ run.at \in {"idle", "work", "reflect", "distill", "settle", "down"}
    /\ \A type \in MemoryType : \A e \in Range(memory[type]) : Entry(e)
    /\ day \in 0..MaxDay /\ deaths \in 0..MaxDeaths
    /\ Known \subseteq Task \cup Goal
    /\ \A s \in Known : /\ candidates[s].attempts = Len(candidates[s].outcomes)
                        /\ candidates[s].successes \in 0..candidates[s].attempts
    /\ job.op \in {"none", "reflect", "outcome", "promote"}

\* The agenda says what became of an item, until another instance's save puts
\* an old list in its place: it is active only while it is being run, unless
\* a death cut its run short, and done exactly when a run of it passed.
AgendaTellsOutcome ==
    \A it \in Item \ clobbered :
        /\ saved[it] = "active" => (run.at \notin {"idle", "down"} /\ run.item = it) \/ it \in stranded
        /\ saved[it] = "done" <=> it \in passed

\* No save, however old its list, makes an item done that never passed.
DoneWasPassed == \A it \in Item : saved[it] = "done" => it \in passed

=============================================================================
