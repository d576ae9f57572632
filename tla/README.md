# TLA+ models of Causality

Causality lets an agent work on a *task* only through recorded, resumable
operations: every intent, effect, check, review and human decision is a row of
a hash-chained ledger, and the state of a task is nothing but the fold of those
rows. The hard part is therefore not any single operation. It is what a later
call, of the same or of another process, finds after a process died half way
through an operation, after an exact retry, after somebody edited the project
directory, or after another process rotated the ledger. These models check
those cases; the tests of the repository reach only a few of them.

All paths below are relative to `src/src/causality/` unless they say otherwise.

## The system

| Component | State | Operations | What is hard |
|---|---|---|---|
| Evidence ledger (`ledger.py`) | current segment, sealed segments, anchor `<path>.head`, index, two caches per instance | `append`, `verify_chain`, `rotate`, `events`, `latest_hash` | death between three disk writes; stale caches of other processes; unlocked reads during a rotation; telling a crash from a loss |
| Durable files (`durable.py`) | a file, its lock, a torn last line | `file_lock`, `DurableJsonl.append`, `write_text_durably` | torn rows, cross-process exclusion |
| Task lifecycle (`task_lifecycle.py`) | none of its own: the projection of the ledger | `begin`, `perform_action`, `verify`, `verdict`, `append_evidence`, `approve`, `resolve`, `complete`, `phase_start`/`phase_finish`, `hypothesis`, `reflect`, `get` | death between appends, exact retries, orphaned effects, decisions finished by a later call, a projection that refuses what a handler wrote |
| Gates (`gates.py`) | none: reads the ledger, writes its decision | plan gate, action gates, completion gate, `should_stop` | freshness of checks, reviews and approvals against mutations and each other |
| Verification runner (`verification.py`) | none | `execute_requirement`, workspace fingerprint | a check that changes what it checks |
| Orchestrator (`orchestrator.py`), execution adapter (`execution.py`, `tool_adapter.py`) | the execution lock | record decisions and evidence, run an effect behind its gates | |
| Bounded loop, review, engine (`loop.py`, `review.py`, `engine.py`) | counters | `run_bounded_loop`, `run_review`, `run_task`, `run_next` | termination; edits during a review; leftovers of earlier iterations |
| Agenda (`agenda.py`) | a JSON list of intentions, a copy per instance | `add`, `activate`, `complete`, `defer`, `drop` | an item left active by a death; two instances saving one list |
| Typed memory, reflection (`memory.py`, `reflect.py`) | one JSONL file per type | `record_once`, `revoke`, `sweep`, `reflect_on_contract` | a retry that must find what it wrote, while memory is rewritten |
| Skill store (`skills.py`) | candidates and promoted skills | `distill`, `distill_once`, `record_outcome`, `promote` | two locks, idempotent attempts, an audit row in another file |
| Contracts (`contracts.py`, `contract_harness.py`) | immutable data | validation | |
| MCP server (`mcp_server.py`) | none that lasts | one JSON-RPC call = one lifecycle or skill operation | two writes per skill operation |
| HTTP and browser adapters | none that lasts | one bounded effect each | |
| Installer, CLI, playbooks, templates | client files | | |

How they meet: the MCP server and the engine call the lifecycle or the
orchestrator; both append to the ledger through `EvidenceLedger.append`, under
`file_lock`. The execution lock of the lifecycle is the ledger's own lock
(`orchestrator.py:53`), so two operations of tasks of one project never overlap,
whatever processes they run in. Reads of the ledger without that lock do
overlap with everything; so do memory, skills and agenda, which have locks of
their own or none.

## The modules

### Ledger

`EvidenceLog` is the promise: a sequence of distinct events that only grows at
its end, and a set of acknowledged events that are all in it.

`EvidenceLedger` is the code: two or more writers with their own caches share
the files; `append` is verified tail -> pending anchor -> row -> committed
anchor, and `verify_chain` and `rotate` are further operations on the same
lock. Every disk write is its own action, and `Interrupt` may end the operation
between any two of them (death of the process, or an exception); `TearRow` is a
death in the middle of the row.

| TLA+ | code |
|---|---|
| `archived`, `seams`, `segment`, `torn` | `<path>.N`, where each sealed segment ended, `<path>`, a last line without newline |
| `anchor` | `<path>.head`: version, committed hash, pending hash |
| `indexed` | `<path>.N.idx` written |
| `cache` | `_cached_latest_hash` with its stat token: `synced` says that the token still matches |
| `lock`, `pc`, `draft`, `base` | the holder of `file_lock`, and the local state of its operation |
| `BeginAppend`, `TrustTail`/`VerifyTail` (`ExtendVerified` or `RefuseInvalid`), `WriteIntent`, `RepairTornTail`, `WriteRow`, `CommitAnchor`, `ReturnAppend` | `append`, statement by statement |
| `Verified`, `RollForward`, `RollBack`, `SomeRowAnchored` | `_verify_chain_locked` |
| `BeginRotate`, `RefuseSeal`, `SealAnchor`, `RenameSegment`, `BuildIndex` | `rotate` |

Abstractions. A row is identified by its hash: a change of a row's *content* is
therefore not modelled (the chain recomputes every hash; loss of rows is
modelled in `LedgerDamage`). The stat token (inode, size, mtime, ctime of both
files) is a boolean that every write clears for every instance; that is right
as long as tokens do not recur, which ctime gives. `verify_chain` is a step
only when it repairs something. A row that was fsynced stays; a rename that a
power loss would undo is an `Interrupt` one step earlier. The event index is
advisory and has no effect on the other state. One instance shared by several
threads is not modelled: an instance has one operation in flight. The two older
formats (rows without `anchor_version` and no head, or a head that is a bare hash
after a rotation) are the starting states of `Init`, and `Verified`/`Repairs`
migrate them as the code does.

`LedgerDamage` adds one loss (an archived row, a row, a segment, the head) at
any moment at which nobody holds the lock, and lets everything go on.

`LedgerReaders` adds the reads: a cached view of the current segment that an
append extends in place, and `events(all_segments=True)`, which lists archives
and then loads the current file, with the lock (`TaskLifecycle.get`) or without
it (every other caller). A reader that finds a file renamed between its
`exists()` and its `open()` gets an exception and is not modelled. No code of the
repository calls `rotate`: rotation of a live ledger is an operator's act.

### Task lifecycle

`TaskLifecycle` is one task without workflow phases. The execution lock admits
one handler at a time (`job`), so what interleaves with its steps is a
`Crash` (also: an exception out of the handler) and `Drift`, an edit of the
project directory by somebody else. The log is kept as the fold that `_project`
makes of it, since that is all that any operation reads:

| TLA+ | code |
|---|---|
| `durable` | `_durable_state`: the last `state_transition` |
| `rejected` | an `approved: false` decision of stage plan or final is in the log |
| `work[e]` | the idempotency record of an action or check: `open` is an intent without result |
| `recovery[r]`, `approval[a]` | nothing / decision row / operation row / operation whose transition is in the log |
| `gate[c]` | the decision of a complete request, the `workspace` it names, the one the gate `examined`, and whether no foreign event followed it (`fresh`) |
| `review` | latest result of the required check, the verdicts after it and whether a final approval followed the verdicts; empty after a `mutates_task` row |
| `workspace` | the fingerprint of the project directory |
| `ran` | how often the effect happened in the world |
| `broken` | a row is in the log at which `_project` raises |
| `Session` | the state `_project` reports: rejection first, then unresolved intents, then `durable` |

Each handler is a chain of actions, one for each durable append and one for the
effect: `BeginAction`/`WriteIntent`/`RunEffect`/`RecordEffect`/`WriteResult`,
`BeginComplete`/`TakeFingerprint`/`DecideCompletion`/`ConfirmDecision`/
`RecordCompletion`/`ConfirmRecord`/`FinishCompletion`, and so on; `Replay*` and
`Resume*` are the branches that a call with a recorded, or half recorded, key takes.
`PassPlanGate` and `BeginExecuting` are `_ensure_executing`.

`complete` reads the workspace at four moments, and each is a step of its own between
which `Drift` and `Crash` may fall: the fingerprint it names in the decision
(`TakeFingerprint`), the one the gate takes itself and compares with the check
(`DecideCompletion`, `gates.py:653`), and `_assert_completion_snapshot_current` before
the operation (`ConfirmDecision`) and before the transition (`ConfirmRecord`, or
`ReplayCompletion` for a recorded key). The appends that follow those looks are
`RecordCompletion` and `FinishCompletion`, which look at nothing. `job.edited` is a
history variable: whether an edit fell between the last look and the transition.

Abstractions. There is one required check, and its artifacts are part of the
workspace. A status `error` is a `timeout` here (both block), and a check that
changed the workspace is `unsafe`. A request is its idempotency key: reuse of a
key with another request is refused before any write and left out. Verdicts and
generic evidence carry no key: a retry of a recorded one writes nothing, and the
completion of a half-recorded one is, to the rest, one more event, which
`AppendEvidence` is. `PassPlanGate` writes the gate's row and the transition in
one step; a death between them adds only a row that nothing reads. Plan and final
rejections are one action; a rejection of an irreversible kind, a read-only
action, manual verification and `begin` are not modelled.

`TaskPromise` is what a task promises to a reader of its log, without keys,
sessions, retries or the order of the appends: effects are announced one at a time
and done at most once, only while announced; the result is accepted only when
nothing is announced and a complete review of it is in force; with an outcome
everything ends. `TaskLifecycle` implements it (`Promise`, `KeepsPromise`):
`WriteIntent` begins an effect, `RunEffect` performs it, its result or a recorded
answer of `resolve` closes it, a rejection counts from its decision row on, and
everything else is a change of the review or a stutter.

### Workflow phases

`TaskPhases` is a task with phases: `begin`, phase start and finish, hypotheses,
what a running phase allows (action, check, verdict), `approve` of the stages
phase, final, irreversible kind, and `complete`. Here the log itself is kept,
because two readers of it have to agree: `Project` is the fold of `_project`,
event by event, which refuses what it does not understand (`readable`); and the
handlers search the log themselves for the cause of a block and for the rejections
that count (`HypothesisBlock`, `PhaseBlockEvent`, `ApprovalEvidence`).

Every append is a step of its own and nothing else remembers what the process was
doing, so a death may come behind any of them; the exact retry takes the step that
would have come next (`MayReconcile`, `Unrecorded`, `RestartPhase`). What a running
phase may cite is the projection `window` of its events. Left to `TaskLifecycle`:
intents of actions and checks (a check and its row are one step), the plan's
approval, and the completion gate, which passes here. An inconclusive hypothesis
counts as a supported one; manual verification and generic evidence are left out.

### Loop and gate

`CompletionGate` is `HITLGate` as operators of a contract's events and of the
workspace: the plan gate, the completion gate with executed and manual
requirements, generic evidence, verdicts and the final approval, the reviewed-only
form, and `should_stop`. An event's hash is its place in the log.

`BoundedLoop` runs it: `run_task` with `run_bounded_loop`, `run_review` and
`execute_requirement`, statement by statement. `work` and the verifiers are
callbacks that may do what the facade lets them do, edit files or raise; people
record decisions and evidence, and anybody edits the workspace, between any two
steps. The workspace is a number that every edit raises: an edit never brings an
older content back, which the code could not tell from no edit (`engine.py:281`).
Optional requirements and the binding to the contract's snapshot are left out.

### Agenda, learning, run_next

`Agenda` is the backlog file and the copy each instance holds; every change saves
the whole copy. `TypedMemory` and `SkillStore` are the two stores; each of their
operations holds its file locks and is one step. `Learning` is what the lifecycle
and the MCP server do with them: `reflect` (intent, entries one by one, manifest,
distilled skill), `skill_outcome` and `skill_promote` (the store, then the audit
event), with a death between any two writes, while entries expire, are swept and
revoked. A task's life before its end is one step (`End`); the other modules have
it. The execution lock is held exactly while `job` is not `Idle`. `RunNext` puts
`run_next` beside all that: it activates an item, runs the loop (one step here,
`BoundedLoop` has it), reflects, distills and settles the item, with deaths and
with other instances of the agenda.

Abstractions. An entry's id is the tuple it is a digest of, a skill's is its task or contract. The engine's
own reflection is one step because nothing ever repeats it. `record`,
`note_assumption` and `promote_to_decision` are single appends under one lock and
left out; so is `recall`, which only ranks. The near-duplicate measure of promotion
is the set `Authored`. People drop only items that are not done. Failure scopes
are part of a cause.

### Proofs and instances

`EvidenceLedgerProofs`, `LedgerReadersProofs`, `LedgerDamageProofs`,
`TaskLifecycleProofs`, `PhaseProofs`, `LoopProofs`, `RunNextProofs` and `SkillProofs`
hold the theorems. The last part of `EvidenceLedgerProofs` has lemmas for the two other
ledger modules: what any step of a writer does to rows, lock and types, whatever the
files look like. Each `MC` module gives the constants their small sets. A module
also keeps, before the definitions they alter, mutated forms of them with a
plausible bug each (`StartWithoutIntent`, ...): the specification does not use them,
but with one put in its original's place TLC violates the property it is meant for.

## What the runs show

Passing:

| run | instance | shows |
|---|---|---|
| `ledger` | 2 writers, 4 events, 3 starting histories | `AlwaysVerifiable`: whatever is interrupted, the files verify. `AckedDurable`: an event whose append returned stays. `WarmTailIsDiskTail`: a cache under a matching token is the disk. `ImplementsLog`: the whole refines `EvidenceLog`. |
| `damage` | 2 writers, 3 events, one loss | `LossNeverBlessed`: no later append, recovery or rotation makes a ledger with a loss verify. `TailLossStopsAppends`: after the tail is lost the chain never grows again. |
| `readers` | 2 writers, 2 events, scans of both kinds | `WarmViewIsDisk`, `LockedReadIsChain`: a locked read is the whole chain. `UnlockedReadInOrder`: an unlocked one is at least in order and without duplicates. |
| `recovery` | 2 actions, one irreversible, 1 check, all answers of resolve, approvals, deaths everywhere | `EffectAtMostOnce`, `OneDecisionPerEffect`, `OrphansBlockWork` |
| `certify` | high-risk contract, 1 action, 1 check, 1 completion key, 2 reviewers, 2 workspaces | `Certified`: a verified task has a complete current review. `VerifiedAsChecked`: verified in the workspace in which its check passed, whatever was edited between two steps or while the process was dead, but for the two races below. `TerminalNeverReopens`: also from a rejection whose transition a death prevented. `KeepsPromise`: it implements `TaskPromise`. |
| `phases` | a debugging phase and a fix phase, limit of 2 failed hypotheses, 2 reviewers, logs of up to 13 events, 2 attempts of a phase | `CitedIsRequired`: what the handlers tell an approver to cite is what the projection will ask for. `InterruptedBlockRecovers`: a block cut by a death has a call whose retry finishes it. `ApprovalLiftsItsOwnBlock`, `StreakBounded`, `BlockedPhaseStandsStill`, `PhasesInOrder`; `OnlyLateAnswersBreak` names the only ways in which a call of this module makes the log unreadable (a task without phases knows another, run `retry_breaks`). |
| `loop` | six contracts: reviewed only, one and two checks, one with a manual requirement, one with generic evidence, one of high risk; 2 verifiers | `PassedIsReviewed` and `ApproverSawWhatPasses`: a PASS rests on checks, verdicts and an approval of the workspace as it is. `CleanIterationPasses`: nothing that earlier iterations left stands in the way of one that did everything right. `LoopKeepsToPolicy`: neither longer nor shorter than the stopping policy. `RunEnds`: every run ends. |
| `learning` | 3 tasks, 1 engine contract, 1 agenda item, 2 instances, 1 death, 2 days | `ReflectionResumes`, `OneEntryPerCause`, `ManifestIsMemory`: a reflection cut anywhere is finished by its retry with one entry for each cause. `PromotedWasEarned`, `AuditsAreTrue`. `AgendaTellsOutcome`, `DoneWasPassed`: what the agenda says of an item. |

Bounds, and why they are enough. Two writers are enough for the ledger: the lock
lets a third do nothing that a second cannot, and caches interact only through the
shared files. Four events give an append after a recovery after a rotation after an
append. In the task, two effects are needed for "another one is orphaned too", two
reviewers because the gate asks for two, two workspaces to tell "the same" from
"changed"; the bound is the finite set of requests, and retries of a request are
unbounded. In `phases`, 13 events are a phase that is blocked by hypotheses,
approved, started again and passed, and the beginning of the next; `MaxAttempt`
bounds the starts of a phase, `MaxAside` the events that move none. In `loop`,
`MaxEdits` (1 or 2 for each contract) and `MaxDecisions` (1, or 2 for the high-risk
contract) bound edits and people; a verdict that does not pass is `critical`, the
one that also blocks, while a plain failure only fails to count as a pass. In `learning`, three
tasks are what promotion asks for; the constraint `Alone` lets the engine run only
while no task has ended: they share nothing but the stores, whose operations are
single steps for both, and each side still meets the deaths and the housekeeping.
The theorems about this module hold without it.
`MaxDay` and `MaxDeaths` are 1: an entry expires after a day, and one death is one
retry.

Deadlock is checked where callers can always go on (`ledger`, `damage`, `readers`,
`recovery`, `certify`). `phases` and `learning` run out of bounded calls and `loop`
ends; they say `CHECK_DEADLOCK FALSE`, as do the instances of the lifecycle
violations.

Fairness. `RunEnds` needs `WF_vars(Step)` in `BoundedLoop`: the loop's own steps are
ordinary synchronous code that goes on when it can, provided `work` and the
verifiers return, which the model assumes of them. `Raise`, people and edits are not
fair. Everything else in the system is driven by a caller who may stop calling, so
no other module assumes fairness, and no other property needs it.

Violations, each a disagreement of the code with what its documents or tests say
(all but the first were also reproduced against the Python code):

* `unlocked_read`: `events(all_segments=True)` promises the full chain, and loses
  the rows that a rotation seals between its two reads (`ledger.py:215`).
* `retry_breaks`: the exact retry of an old `resolve`, while a second effect is
  orphaned, writes a transition from a state the log does not have; every later
  `get` of the task fails (`task_lifecycle.py:2815`).
* `intervention_stuck`: after a death behind an ESCALATE decision, one further
  event (an approval of an irreversible kind, or the retry of a half-written one)
  leaves `complete` stale for ever, and it is all that `allowed_next` offers (`:906`).
* `check_after_phases`: when every phase has passed, `allowed_next` offers `verify`,
  and a check that times out then makes the task unreadable (`:2985`).

### Behaviours worth knowing that no run is for

Met while modelling, in the code as it is. The models do all of them but the resumed
rejection's rendering, the blank scope and the overflow, and their properties are
stated so as to allow them.

* The exact retry of an applied `resolve` or of a final approval reopens a task that
  was blocked again since (`task_lifecycle.py:3527`).
* An effect whose process died before its `TOOL_CALL` row and that a person
  confirmed as applied does not make earlier checks stale (`:2899`).
* `complete` looks at the workspace and appends afterwards. An edit between the last
  look and the append of the transition (`:4160` and `:4166`, on a replay `:4058` and
  `:4064`) is not seen: the task is VERIFIED in a workspace its check did not see. An
  edit at any earlier moment is seen, which is what `VerifiedAsChecked` says.
* The fingerprint a decision names (`:4112`) is not compared with the one the gate
  takes (`gates.py:653`). An edit between the two, undone before the next look, lets
  the gate pass on one workspace and the task become VERIFIED in another, although
  `docs/specs/003-mcp-task-lifecycle.md:28-29` lets drift make the old key stale.
  `VerifiedAsChecked` excepts exactly this (`examined # workspace`); TLC finds the two
  edits when that line of it is left out.
* While the block of a phase waits for its transition, `allowed_next` offers reject,
  whose transition starts from the projected state; the log cannot be read
  afterwards (`:5642`). The retry of a final approval then does the same.
* A final or kind approval during the block of a phase appends an operation the
  projection refuses (`:4790`).
* A phase approval that is recorded after another one has lifted the block, or any
  approval that is recorded after the task ended, does so too (`:3542`): the check
  for a terminal task is made only when no decision exists yet (`:3549`).
* A promotion that died before its audit event can be repaired by its exact retry
  only until another attempt succeeds: then the evidence must be the new one, and
  the promoted row refuses it (`mcp_server.py:1663`, `skills.py:459`;
  `docs/specs/006-resume-and-skill-operations.md:29-31` speaks of an idempotent retry).
* A rejection that died before its transition never gets one, and resuming the task
  then fails to find a terminal transition (`task_lifecycle.py:3503`,
  `mcp_server.py:949`).
* A blank failure scope raises after the intent and the retrospective are durable
  (`reflect.py:185`); an unbounded `ttl_days` overflows the date (`memory.py:81`).
* `distill` looks for its contract in the current segment only (`skills.py:315`).
* An agenda instance saves its whole list over what others saved (`agenda.py:110`),
  and an item whose run died stays active (`engine.py:419`); so does one whose save
  failed in the `finally` clause (`agenda.py:111`), which is not modelled.

## What is proved

`EvidenceLedgerProofs` proves, for any set of writers, events and starting
histories:

* `TypeCorrect`, `LedgerAlwaysVerifies`, `CachedTailIsCurrent`,
  `AcknowledgedIsDurable`: the invariants of run `ledger`;
* `LedgerImplementsLog`: `EvidenceLedger` implements `EvidenceLog`.

The properties are not inductive alone. The invariant adds what an operation in
flight knows at each program counter: only the holder of the lock is inside an
operation; at `row` and `commit` the anchor announces exactly this draft on
top of the verified base; at `rename` the anchor is settled on the tail; the rows
are linked by their hashes and come from issued events; seams lie at increasing
positions; and the anchor is in one of four situations, of which the last,
`InDoubt`, says that `RollForward` or `RollBack` applies. From it verification
succeeds in every state. The refinement maps the log to
`Chain` and the acknowledged set to itself: `WriteRow` is `Record`, `ReturnAppend`
is `Acknowledge`, and every other step is a stutter.

Assumptions are those of the module: `NoHash` is no event, `Nobody` no writer, and
the histories are sequences of distinct events. Nothing else is assumed.

`LedgerReadersProofs` proves `WarmReadsAreCurrent`, `LockedReadsAreComplete` and
`UnlockedReadsKeepOrder`, for any writers and events. `KeptInv`: the view that an
append in flight will extend holds the rows from before its own, so what it leaves is
the file again, while every other write makes all tokens stale. `HolderInv`: a locked
scan has the lock, so between its two reads nothing moves. `ListedInv`: what a scan has
listed is a start of the archives, and what it then reads of the current file is a later
run of the chain (`CutInv`), since rows only ever move from the current file to the
archives, in order. None of that needs the ledger to verify.

`LedgerDamageProofs` proves `LossStaysVisible` and `TailLossIsFinal`. Until the loss
the ledger has its own invariant (`IInv`) and three facts more: the rows have different
identities, an announced row is not acknowledged yet (`DoubtInv`), and an append that is
about to return has settled the anchor (`ReturnInv`). A loss then leaves one of two
situations, and no step leads out of either. In the first a row's predecessor is not
the row before it, and writers only append behind that, seal it or cut a tail after it.
In the second the chain is linked but shorter than the anchor says; the base of
every append is then refused (`Frozen`), also with nothing left of the current file.

`LoopProofs` proves every safety property of the run `loop`, for any contracts,
verifiers, edits and people: `PassesAreReviewed`, `ApproverSaw`, `CleanPasses`,
`KeepsToPolicy` and `Types`. `Moves` says of every step what it leaves of the run and
adds to the log, ten kinds in all; the invariants are proved by these kinds.

The gate cannot compare what a verifier or a person
looked at with the workspace, for the ledger does not keep it; it follows from the
order of events. `TimeInv`: who looks after a result was recorded sees no older
workspace than the result's. `RowInv`: checks and manual verdicts are of
requirements of the contract, what a manual verdict cites is an earlier result, and a command
that is not work of its own is followed by its check. Then everything that has to be cited is
a result of the workspace as it is, from before the place that verdicts count from
(`HashesAreCurrent`); who cites it after that place looked at that workspace
(`CitingIsSeeing`); and the final approval is behind all of it (`ApprovalIsLast`).

`CleanPasses` is the converse, that nothing left behind by earlier iterations stops a clean
one. `SaidInv`: verifiers speak once each in an iteration and after its
checks, so the last word of each is the pass it gave now. `RanInv`: a passed result comes
right after its command or the change this made, so no mutation lies behind a result of this
iteration unless something else made it. `BlockInv`: a block in the log stands for what
keeps this iteration from being clean, because the loop itself takes older blocks
away once their check passes. `EverybodyPassed` and `NothingBlocks` turn that into the two
halves of the gate's answer.

`KeepsToPolicy`: `PolicyInv` says that the counter of iterations is the number of gate decisions
in the log, and the counter without progress the number of them since the last fruitful
one (`Fruitless`), with one iteration more while its gate has not decided. A decision that is made
stays as fruitful as it was, whatever is logged later (`FruitfulKept`). The theorem
asks for `MinPasses # 0`: a review of nobody, asked for zero passes, approves and leaves
nothing in the log to tell it from an iteration that had none.

Assumptions: `LoopAssumption`, which says that ceilings are numbers (the iterations' not
zero), verifiers a sequence, and executed requirements a sequence without repetition (a
contract refuses two requirements of one id).

`TaskLifecycleProofs` proves every property of the runs `recovery` and `certify`,
for any sets of requests, reviewers and workspaces: `TaskTypeCorrect`,
`EffectsRunAtMostOnce`, `EffectsAreDecidedOnce`, `UncertaintyBlocksWork`,
`VerifiedIsCertified`, `VerifiedInCheckedWorkspace`, `OutcomeIsFinal`,
`TaskKeepsPromise`. The invariant `IInv` has one part for each argument:

* `GateInv`, `IntentInv`: what a handler in flight has already written. The effect
  of an action runs between its intent and the next record of its key, and no
  handler starts on a key that has a record;
* `BlockInv`: an orphan is the only unresolved thing in the log, since a handler
  that works starts only from a resolved one, and an effect in flight is that
  orphan. Hence nothing else can move while one is left behind;
* `RecoveryInv`: a decided answer has its effect open, a recorded one closed, and
  the reservation admits one decided answer at a time;
* `FreshInv`: a decision that no event has followed still has the review it was
  made on. Completion looks for such an event, and none can be appended between that
  look and the append that rests on it (`GateInv`), so a pass that becomes VERIFIED is
  covered by the review of that moment;
* `SnapshotInv`: such a pass rests on a check of the workspace the gate examined, and a
  handler about to write the transition has seen the workspace the decision names,
  unless somebody edited it since. `VerifiedAsChecked` is these two put together;
* `EndInv`: with an outcome in the log, at most an approval that has not yet looked
  at the state is in flight. `EndedSteps` lists what can still happen; none
  of it touches the outcome.

* `ApproveInv`: an approval that is being recorded has been decided. Without it a late
  operation could count as the plan's approval of a task that has ended.

`Certified` is then inductive, because an ended task keeps its review and its
records. The theorems are compatible with the findings about retries, because an
unreadable log stops every handler (`Readable`), as it does in the code.

`TaskKeepsPromise` is the refinement: `TaskLifecycle` implements `TaskPromise` under
the mapping of the instance `Promise`. `EndedKeepsPromise` shows that with an outcome
every step is a stutter; before it, `WorkSteps` lists the five actions that touch
effects, each of which is one action of the promise by `BlockInv`, `IntentInv` and
`RecoveryInv`; the rest either leaves the outcome open, which is a change of the
review, or ends the task, by `RejectedBy` or by `VerifiedBy` and `FreshInv`.

Assumptions: action, check and completion keys are different keys; plan approvals
are no final or kind approvals, and final ones no kind approvals; irreversible
actions are actions; there are finitely many reviewers, who vote pass, fail or
critical.

`PhaseProofs` proves every property of the run `phases`, for any plan, limit and
verifiers: `Types`, `CitesWhatIsRequired`, `Recovers`, `Bounded`, `InOrder`,
`StandsStill`, `LiftsItsOwn` and `LateBreaks`. Handlers search the log where the
projection folds it; the invariant (`IInv`) says that both find the same, in every log
that no late answer has made unreadable:

* `OrderOf`: what comes before a phase that was begun has passed;
* `StreakInv`: the streak that the projection keeps is the rejections that no approval
  of the phase has followed, and the counter is its size;
* `CauseInv`: a blocked phase is blocked for one of two reasons, at which the log and
  the projection agree: its streak is exactly at the limit and holds the rejection
  that both take for the block (`AtLimit`, with the escalation that the task's own block waits for), or its
  finish or a check blocked it after the last approval (`ByEvent`). A phase that is not
  blocked has neither left (`NoCause`);
* `DecisionInv`: a decision that nothing has followed can still be recorded, since what
  it had to cite has not changed.

The lemmas say what one more row does to every fold and search: `QuietKeeps` for rows
that none looks at, then one for each kind of row that some do. `InterruptedBlockRecovers`
is `CauseInv` read at a death between a rejection and its escalation; a blocked phase
stands still because `RequiredRefs` is not empty and only an approval that cites it is
let through. Assumptions: those of the module (`PlanAssumption`, `BoundsAssumption`).

`RunNextProofs` proves every invariant of the run `learning` that is not of the store
(`SkillProofs` has those), and its action property, for any tasks, contracts, items,
instances, courses and deaths: `Types`, `AgendaTells`, `DoneMeansPassed`, `OneEntry`,
`ManifestTrue` and `Resumes`.

For the agenda, the invariant (`AgendaInv`) adds that the list of the engine's own
instance has the item that is being run as active, and that no list anywhere, however
old, has an item as done that never passed; a save then can bring back an old status
but not a false "done".

For reflections, `ReflectInv` ties memory, the trails and the store together:

* `DatesInv`: no failure and no intent is dated after today, so no entry is;
* `MarksInv`: a task has at most one intent and at most one manifest, the manifest
  comes after the intent and names what the intent asks for, and each of this is in
  memory or known to be gone (`Stored`);
* `WriterInv`: a call that has counted `k` entries has stored the first `k`;
* `MemoryInv` with `OwnEntry`: whatever is in memory is exactly an entry that its
  task's intent asks for, or belongs to the contract of a run whose reflection is over,
  and no two have one id;
* `SeedInv`: the skill of a task is there only after its reflection and is made of the
  events up to it.

`OwnEntry` is the heart of it. What an intent asks for depends on the events up to the
intent's source alone, which no later step changes (`SameEntries`, `Steady`). So an
entry of memory with the id of one to be written again is that very entry
(`NeverRefused`), and `record_once` neither refuses it nor writes it twice, whatever
was revoked or swept in between. Likewise `SeedInv` says that the store never refuses
the skill. `Resumes` follows: a call ends by a death, with the manifest of a task that
was not verified, or after its skill. The lemmas below are about logs: `Ascending`
enumerates a set of numbers, each once (`AscendingIs`), and what a sweep leaves stands
in the log as before, each entry once (`WithoutIs`, `WithoutDistinct`).

Assumptions: tasks and contracts have different ids (`IdAssumption`), bounds are
numbers, the loop decides one of three results, and those of `SkillProofs`.

`SkillProofs` proves `PromotedEarned` and `AuditsTrue` for any tasks, skills, callers
and deaths. The invariant says what the rows of the store rest on: the outcomes of a
candidate are of different tasks that have ended, with their result and their
evidence; the counters are the numbers of these outcomes, which makes the counted
thresholds speak of different tasks; and a promoted row keeps the outcomes it was
promoted with. That a task's end, its checks and its verdict are never changed by a
later event (`LogKeeps`) is what keeps all this true afterwards. For the audit events
it adds that the one that is about to be written says what the store already has.
Assumptions: a task's causes are a sequence, thresholds are numbers, `Me` is an
instance of the agenda.

Only model-checked: liveness (`RunEnds`), which is out of the prover's reach, and the
four disagreements. Every invariant and every action property of the passing runs is
proved. To be within reach, the order of signals and what a sweep leaves (`Ascending`,
`Without`) are functions, where the library has recursive operators.

## Plan

Done, in this order: the ledger and its abstraction, its damage and its readers,
the core of the task lifecycle and its proofs, workflow phases, the completion gate
with the bounded loop, memory, skills and agenda with `run_next`, the abstract task
and its refinement, the proofs about agenda and skills, about the ledger's readers and
its damage, about the bounded loop, about the workflow phases, and about reflection
and memory. Next:

1. Nothing is left to be proved of what the runs check, but liveness. What would extend
   the models is listed below, first of all a rejection of an irreversible kind.

## Not modelled

Contract validation, rendering, the JSON-RPC shell, HTTP and browser transport, the
installation of client files, the CLI, document budgets, routing tables and static
templates. They are pure functions or I/O with no state that outlives a call, and the
models see them as a refusal or as one nondeterministic effect. Of the modelled
components: the advisory event index, one ledger instance shared by several threads,
the Windows lock, manual verification inside the lifecycle, a rejection of an
irreversible kind, optional requirements, `record`, `note_assumption`,
`promote_to_decision` and `recall`.
