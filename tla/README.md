# Formal models of an agent desktop's core

DeepChat / JiaorongAI is an Electron program in which a user talks to agents. This
directory holds TLA+ models of five parts of its main process, TLC instances of them,
and TLAPS proofs about them.

- The *waiting lane* of a session. A session runs one turn at a time; what the user
  types meanwhile is queued for a later turn (Queue) or steers the turn under way
  (Steer). Accepted input is durable: it survives Stop, provider errors, paused tool
  interactions and a crash, and it must be answered once.
- *Approvals.* A command-line request, a model's tool call or an MCP App's call that
  needs the user's consent waits for it, with a deadline.
- The *scheduler.* Jobs run in sessions of their own when they are due, found by a
  utility process that shares the database with the main process.
- The *invocation admission.* The children a session delegates work to share a pool of
  permits, which a child gives up while it waits for the user.
- *Live delegation.* A session delegates work to child sessions in durable turns, which
  survive interrupts, a stop and a crash without doing the work twice.

## 1. The system and its parts

The program's own logic is in `src/src/main`. The parts that decide what happens to an
accepted message were modelled first, then those that decide what an agent may do, when
it runs unasked, how many of its children run at once, and how they begin and end.

| Part | Code (under `src/src/main`) | State | Operations | What makes it correct |
| --- | --- | --- | --- | --- |
| Pending-input store | `session/data/pendingInputStore.ts`, `pendingInputs.ts` | a row per accepted input: mode, state, queue order, linked messages | create, append, update, move, delete, claim, release, block, retry, consume, promote, recover | FIFO with no shared or skipped slot; capacity; a claim is settled once; a Steer's messages agree with its row |
| Transcript | `session/data/transcript.ts` | messages with order, status, Steer receipt | write, mark read, settle, fail, delete from a position, recover | no accepted message is lost; an answer stands below what it answers |
| Pump | `agent/deepchat/runtime/pendingInputPump.ts` | lease, launched claim, deferred wakeup, restart holds | drain, launch, defer, finalize, schedule next | one launched turn; no lost wakeup; a held row waits for the user |
| Admission | `runtime/pendingInputAdmissionCoordinator.ts`, `session/turn.ts` | operation gate, Steer lane, calls that await an attachment | queue, send, steer, promote, edit, move, delete, resolve, retry, resume | what was decided before an await still holds after it |
| Turn coordinator | `runtime/turnCoordinator.ts` | one async function per turn | prepare, write the user fact, reserve the answer, register, stream, settle, hand over, roll back | its input ends consumed, blocked or waiting for Retry, never two of them |
| Run lifecycle, instance | `runtime/runLifecycleCoordinator.ts`, `instance/deepChatAgentInstance.ts` | abort controller, active generation, status | register, clear, cancel, publish status | Stop and Steer reach the live run or none |
| Interactions | `runtime/interactionCoordinator.ts` | open questions and permissions of a paused answer | respond | the resumed run starts only where no other run is |
| Startup reconciliation | `harness/createDeepChatAgentHarness.ts` | none of its own | recover rows, install holds, recover messages | it succeeds from whatever state the crash left |
| Approvals | `approval/approvalBroker.ts`, `cli/mutationGuard.ts`, `tool/permission/toolPermissionBroker.ts`, `app/sessionPermissionAdapter.ts`, `mcp/apps/` | pending and approved requests with waiters, abort listeners and a deadline; renderer targets; dialogs | create, wait, resolve, consume, cancel a scope, clear, expire | consent lets through what it was given for, once, in time; nobody waits for ever |
| Invocation admission | `agent/invocationAdmission.ts` | active permits per owner, a queue of waiters per owner, a ring of waiting owners; leases with their acquisition | acquire, dispatch, abort, close; a lease's resume, suspend, release | a permit is counted once and comes back once; none idles while somebody may have it; owners take turns |
| Live delegation | `orchestration/liveDelegationService.ts`, `liveDelegationRepository.ts` | rows of turns, turns in memory with their lease and abort signal, the child each delegation is bound to, the chain of operations on a child | spawn, follow up, interrupt, execute a turn, pass a child's boundary, settle, reconcile, stop | no run without its turn; work dispatched once; a turn's own answer; nobody waits in a ring |
| Scheduler | `scheduler/` | rows of jobs and runs, active sessions with timers, the utility process and its manager | list, edit, delete, run now, reconcile, scan, queue, execute, time out, restart | one run per job at a time, each settled and reported once; no due occurrence lost or doubled |

How the lane's parts interact: `session/turn.ts` calls admission, some of its calls behind a
gate per session. Admission stores the row and either starts it through the pump
in the same stretch, aborts a turn that has not reached the provider so that it
hands over, or asks the pump to look. The pump reads the session state (an await),
takes the next Steer or Queue row, claims it, and calls the turn coordinator with
the claim. The turn settles the claim. Its `finally` gives the lease back, runs a
deferred wakeup and looks for the next input. A Steer that arrives during a stream
is only stored: the loop yields at its next safe point, the turn settles, and the
pump finds the Steer. A paused turn leaves the lane shut until `respond` resumes its
message as a run without a lease, or Stop settles it.

The broker is called by its two adapters and by nobody else. The CLI guard creates a
request, shows it in a renderer (an await) and then waits; a model's call is asked about
before its turn pauses and consumes the approval when it runs; an App's call waits while
a dialog of its sandbox is open. Timers, abort signals, a closed window and shutdown
settle requests from outside.

In the scheduler the main process and the utility process share the SQLite file. The
host selects due jobs, queues their runs in a transaction and posts `RUN_DUE`; the main
process reads the job, asks the agent catalogue (an await), claims the run and starts a
detached session (two more awaits). Whatever the user does to the jobs ends by
reconciling all stored schedules and the host.

The admission is used by the turns of live delegation: a turn resumes its lease before its
child works, suspends it while the child waits for the user, and releases it at its end;
the turn's abort signal reaches the acquisition under way. Every way back of a permit
enters `dispatch()`, which grants waiters of other leases in the same stretch.

A turn of live delegation is a row and, while the service runs, an `ActiveTurn`. Its task
asks for a permit, reads the parent's safety, finds or creates the child, binds it,
synchronizes the child's safety behind whatever else is serialized on that child, records
the dispatch and sends the handoff, each behind an await. From then on the child's status
updates drive it: an idle or failed child settles the turn, a question suspends its lease,
and each tool call or answer of the child passes a boundary that takes the permit again.
`interrupt()` and `stop()` abort the turn at any of these places and wait for what is under
way. After a crash the turns that are still active are reconciled one by one.

Hard behaviour: JavaScript runs to completion between awaits, so a race here is an
interleaving of *stretches*. What a caller read before an await may be stale after
it; a wakeup that finds the lease taken may be dropped; Stop may land between any two
stretches of a turn; a crash may land between any two transactions. `PROJECT.json`
lists each such place with its line under `hazards`.

Everything else is listed as a component in `PROJECT.json` with its reason: the
agent loop and provider stream, transcript mutation and compaction, tape, session
lifecycle and deletion gate, shell sessions, rate limits, ACP, memory, MCP and plugins,
tools, knowledge and OCR, remote channels, CLI, startup workloads, events, data and sync, desktop, user interface.

## 2. Plan

Done: the waiting lane, approvals, the scheduler, the invocation admission and live
delegation (sections 3 to 6). Next, in this order:

1. *Extend live delegation.* The mailbox (`send`, `wait`), the deletion gate with
   `prepareSessionDeletion`, the parent's capacity with several delegations, and users who
   speak to a child directly; an abstract specification of a delegation's turns.
2. *Extend the lane.* Direct turn starts without a claim (retry and edit of an
   answered message, compaction), publication failures, the question follow-up gate,
   and `respond` with its parked and partial answers as a module of its own, composed
   with `PendingInputs` through the paused answer.
3. *Session deletion gate, submission cancellation, rate limits, startup workloads*:
   small modules, each with a bound at its limit.
4. *Execution journal* (`tape/`): idempotent append, receipts, startup report.

Every safety property that a passing run checks is proved (section 5), some where a named
hypothesis on the events holds.

## 3. The modules

| Module | What it is |
| --- | --- |
| `PendingInputStore` | the database: rows and messages as one record `d`, one operator per transaction |
| `PendingInputs` | the state machine: admission, pump, turn, Stop, interaction, crash |
| `PendingInputContract` | the abstract specification: what a session promises about each message |
| `PendingInputProperties` | the properties and the refinement mapping |
| `MCPendingInputs` | the scenarios the `.cfg` files instantiate |
| `PendingInputRunProofs` | proofs about the types, the lease and the runs |
| `PendingInputClaimProofs`, `PendingInputTranscriptProofs` | proofs about claims, fences, replay and the queue; about rows and messages |
| `PendingInputContractProofs` | the proof that the lane implements the contract |
| `Approvals` | the broker as operators from broker to broker, and the callers' actions between their awaits |
| `ApprovalProperties`, `MCApprovals`, `ApprovalProofs` | properties, instances, proofs |
| `SchedulerRuns` | rows of runs, the executor, sessions, timers, reports: what one run goes through |
| `Scheduler` | jobs, operations, utility processes, manager, faults and time around the runs it extends |
| `SchedulerProperties`, `MCScheduler` | properties and instances |
| `SchedulerProofs` | proofs about the jobs, hosts and manager, then about the runs |
| `DelegationTurns` | rows, turns in memory and children of live delegation: one turn from its permit to its settlement |
| `LiveDelegation` | the calls of the parent, the child and its boundaries, reconciliation, stop and crash around the turns it extends |
| `LiveDelegationProperties`, `MCLiveDelegation` | properties, instance |
| `LiveDelegationProofs` | proofs about the types and the handoffs, then about the permits |
| `PermitPool` | the abstract specification of the admission: what the holders of leases may see; live delegation takes its permits from it |
| `InvocationAdmission` | the counters, queues, ring and `dispatch()`, and the leases |
| `InvocationAdmissionProperties`, `MCInvocationAdmission`, `InvocationAdmissionProofs` | properties and refinement mapping, instance, proofs |

### The waiting lane

A submission `u` in `1 .. N` stands for its row, its user message and the assistant
message that answers its row: no input owns two live ones of a kind. Submissions are
numbered as they arrive, which is the order of `created_at`.

| Variable | Code |
| --- | --- |
| `db` | `deepchat_pending_inputs` and `deepchat_messages` of one session; the only part that survives a crash |
| `inst` | `DeepChatAgentInstance`: projected status, abort controller, active run, open Steer row |
| `pump` | the drain lease (`drain` while a drain awaits the session state, `turn` while a turn is launched), the launched claim, the deferred wakeup, `next` = a `scheduleNextIfReady` in its await, restart holds, resumed rows |
| `turn` | per run: the await it is at, its source, its abort signal (`stopped`, `handoff`), the claim's fence, the answer it writes; run `N + 1` is the run that resumes a paused answer |
| `call` | the operation gate of `session/assignment.ts`, the Steer lane, the row whose attachments are prepared, the status read before |
| `hist` | history, read by properties only: what was submitted, withdrawn, and possibly seen by the provider without a later approval |

One action is one stretch between awaits. The awaits that are kept: a drain reading the
session state; `scheduleNextIfReady` doing the same; a Steer or a promotion preparing
attachments; a turn preparing, between user fact and answer, between answer and
registration, before the provider, streaming, and in its `finally`. `AbortedPreStream`
takes a flag `late`: an abort may be noticed only after the next synchronous write.
A start that fails before it owns anything is the second disjunct of `Launch`.
`RestartMidRollback` is a crash between the rollback and the release that follows it,
which are two transactions. Other steps that are one transaction each, and on the same
stretch, are one action: a crash inside a stretch is a crash before or after it.

### Approvals

A call is one invocation that asks for consent, of one of three kinds (`Cli`, `Model`,
`App`). Request `<<c, k>>` is the `k`-th one call `c` creates; calls that share a
deduplicated request point at the creator's.

| Variable | Code |
| --- | --- |
| `broker` | `pending` of `ApprovalBroker` (status, deadline passed, settlers, abort listeners), the decision each `wait()` settled with, and two histories: whom a request let through and what was published about it |
| `pc`, `at` | where a call is between its awaits, and its request |
| `aborted` | abort signals that have fired |
| `consent` | the App's dialog (`sandboxRegistry.ts`), up to the callback behind it |
| `targets`, `lost` | `pendingTargets` and `rendererUnavailableRequests` of the guard |

Every entry point prunes first, as in the code, so `Elapse` (the clock passes the
deadline) and `Timer` (the timer's callback runs) are two actions and anything may come
between. Bindings, scopes and instances are constants: two calls with one binding stand
for equal scope, operation, effect, binding key and argument hash.

### The scheduler

| Variable | Code |
| --- | --- |
| `status`, `slot` | `cron_job_runs`: a run's status, its job, time and reason |
| `work`, `runnable` | the await its `processDueRun` stands in, and whether the job it read was enabled |
| `watched` | `activeSessions` of the executor, each with its timer |
| `session`, `cancel` | the detached session; timeouts that await its cancellation (`adrift`: not cancelled) |
| `told` | history: the reports handed to the delivery targets |
| `job`, `policy` | `cron_jobs`: existence, `enabled`, `next_run_at`; misfire and concurrency policy |
| `op` | an operation of `CronJobsService` in an await, with the rows it read before |
| `host`, `found`, `due` | utility processes, the due rows one has selected and not yet queued, `RUN_DUE` messages |
| `mgr` | the fields of `SchedulerProcessManager` |
| `now`, `calls`, `faults` | the clock and two counters that bound the instance |

A cron expression is the set of its occurrences up to `MaxTime`; `Horizon` is the next one
after that. The host's select and its transaction are two steps, because the main process
may write in between; so are timeout, cancellation and report. `ReconcileJob` writes back
the row that was read, one job per await. Several hosts may exist: a host that spawns
after `stop` becomes the known one, and the one known before scans on unseen.

### The invocation admission

| Variable | Code |
| --- | --- |
| `queue`, `ring` | `ownerQueues`, `ownerRing` |
| `active`, `activeOf`, `pending`, `closed` | the counters of `AgentInvocationAdmission`, and `closedError` |
| `round` | where `dispatch()` stands: the visits left of its round, and whether the round has granted |
| `state` | `currentState` of each lease |
| `acq`, `aborted` | what has become of a lease's acquisition: a waiter, a permit on its way to `.then`, or over and waiting for `.finally`; the signals that fired after the grant |
| `again` | leases with a `resume()` that waits for the acquisition before it |
| `since` | history, read by a property only: the owners served since an owner could be |

`dispatch()` is unrolled, one visit of an owner a step, and nothing else happens while
`round` is on: the code runs to completion. A lease stands for its waiter and its permit,
because it has one acquisition at a time. Two facts spare the model some of the code: an
owner in the ring has waiters, and a waiter in a queue is not settled (`OwnersQueued`), so
`dispatch()` never meets the contrary, which the code also handles. A caller's signal may
have fired before `acquire()`, so a refusal is always possible.

### Live delegation

| Variable | Code |
| --- | --- |
| `row`, `bound` | `live_delegation_turns` (status, kind, whether `started_at` is set) and `child_session_id` |
| `svc` | `started` and the stages of `stopOnce()` |
| `turn` | `ActiveTurn`: the await of `executeTurn` it is at (`step`), whether it knows its child, abort signal, `started`, the last runtime status, the message it has seen, its lease, the stage and outcome of `settle()`; `live` while it is in `activeTurns` |
| `mapped`, `quarantined` | `childToTurn`, `quarantinedTurns` |
| `chain` | `childSafetyTails`: what is serialized on a child, in order |
| `child` | the child session: status, the turn its run is for, the turn of its latest answer, and whether that answer is newer than the last recorded dispatch |
| `call`, `gate` | a call of the parent in an await; the boundary a child stands at |
| `rec`, `captured` | the reconciliation with what it read before its await; the turns a stop has taken |
| `faults`, `events` | two counters that bound the instance |
| `sent`, `taken`, `lost` | histories: accepted handoffs per turn, the turn whose answer completed a turn, the turns that ended without the cancellation of their run |

SQLite and the publication of updates are synchronous, so an update is handled in the
stretch that causes it; `sendConversationMessage` returns later than the child accepts, and
anything may happen in between. The lease of a turn is an instance of `PermitPool`, which
`InvocationAdmission` is shown to implement. The boundary stands for `beforeToolExecution`,
`beforeToolAuthorization` and `beforeInteractionContinuation`, which share
`prepareChildBoundary`. A child's end is an action of its own that any later step may
precede or follow.

Definitions named a "slip" in a comment are plausible mistakes in the definition they
precede. No action uses one; each shows that a property notices such a mistake.

## 4. What the runs show

| Run | Checks | States |
| --- | --- | --- |
| `session` | `LeaseOwnership`, `ControllerOwnership`, `ReceiptsFollowRows`, `HandoffBoundary`, `AtMostOneRun`, `FenceMatchesRow`, `ClaimsAccounted`, `AlwaysRecoverable`, from all kinds of submission, under every event but a provider error, moves and edits | 919 000 |
| `failures` | `NoInputLost`, `NoSilentReplay`, `RetryFence`, `QueueOrderDense` on a queue, under every event | 2 181 000 |
| `progress` | `NoStrandedInput`, `SteerBetweenAnswers` and, under fairness, `EveryInputAnswered`, under every event but promotions, moves and deletions | 225 000 |
| `contract` | `MeetsContract` with merged Steers, Stop and restart | 112 000 |
| `approvals` | `WaitersReachable`, `GrantsAreApproved`, `ApprovalUsedOnce`, `NothingLeftBehind`, `NoLateGrant` and, under fairness, `EveryRequestEnds` | 65 000 |
| `scheduler` | `OneRunPerJob`, `RunningIsCarried`, `SessionsDoNotOverlap`, `ReportedOnce`, `OccurrenceQueuedOnce`, `HostOnItsWay`, `QueuedRunsStayCarried` and, under fairness, `RunsSettle`, `DueIsScanned` | 157 000 |
| `admission` | `PermitsAccounted`, `WorkConserving`, `NoOvertaking`, `ImplementsPool` | 556 000 |
| `delegation` | `NoOrphanedRun`, `CompletedByItsOwnRun`, `DispatchedAtMostOnce`, `WaitingHoldsNoPermit` and, under fairness, `NothingHangs` | 162 000 |

All runs explore their instance completely. `CHECK_DEADLOCK FALSE` stands in every
configuration because the program rests when nobody does anything; what must not rest is
said by `NoStrandedInput` and the liveness properties.

*Bounds of the lane.* `N` is the number of submissions over a whole behaviour, `MaxActive`
the capacity (5 in the code; 2 or 3 here, so that a full queue happens). Three submissions
are the least in which a running turn, a waiting row and a newcomer interact, two Steers
merge into a batch behind a turn, and a moved row has a neighbour on both sides. `Events`
names what may happen beside a turn's normal course; a run leaves an event out only to
keep the instance small, or because the property is then false, which the violation runs
show.

*Bounds of the approvals.* Five possible calls of which two are made: two that share a
request, or two that compete for the one place of their scope (64 in the code), or two App
calls of different instances, one of which is refused its dialog. `Tries` is how many
requests one call may create: with 2 a model's call asks again after its approval ran out.
By hand all six properties also held with three calls and two places (550 000 states).

*Bounds of the scheduler.* One job with one occurrence, two runs (a scheduled and a manual
one), two operations under way of which the user begins one (the other is the one at a
start), two hosts, one fault. Two runs are the least that overlap; two hosts the least in
which an orphan scans beside the known one. By hand, safety also held with two user
operations (6.3 million states) and with three runs of a job due at every time (4.2
million). Within the bounds the catch-up of several missed occurrences and the exhaustion
of restarts by repeated failures do not happen.

*Bounds of the admission.* Four leases of three owners, two permits (6 in the code), one
per owner, two places in the queue (256 in the code). Two leases of one owner are the
least in which its limit bites, and three owners the least in which two others could be
served past a third; with two places the queue is full and refuses. The leases of one
owner are interchangeable, and so are the two owners that have one lease each.

*Bounds of live delegation.* One delegation with an initial turn and one that follows it, one
permit, three events (a call of the parent, a stop, a crash) in any order, one failing
operation, two calls at once. Two turns are the least in which an answer or a call can
belong to the wrong one; three events the least in which a turn is spawned, then followed
or interrupted, and the service stops or the app crashes.

*Fairness of the lane.* `EveryInputAnswered` assumes weak fairness of every drain,
continuation, `finally` and turn stretch. The event loop justifies it: a promise that
settles has its continuation run. It also assumes that preparing an attachment and
streaming an answer end. That is an assumption about the environment: before the stream
the watchdog of `runPreStreamStep` only logs a step that is stuck, it does not end it.
Nobody is assumed to call, stop or answer: `UserMustAct` names the states in which the
message rests for the user.

*Fairness of the approvals.* The clock passes every deadline, its timer runs, settled
promises continue, and a renderer settles `present()`. Neither the user nor an abort is
assumed to act.

*Fairness of live delegation.* The continuations of calls, tasks, boundaries, reconciliation
and stop run, an operation of the database or the catalogue that was begun returns, and a
child that was cancelled ends its run. No end of a child's work, no answer of the user and
no restart is assumed.

*No fairness in the admission.* Whether a waiter is ever served depends on the holders,
whose turns may take as long as they like; `WorkConserving` and `NoOvertaking` say as a
safety property what the admission owes: a permit that comes back is handed on in the same
stretch, and to an owner that is not passed over twice.

*Fairness of the scheduler.* Operations, hosts, posted messages, the restart timer and the
timer of a run make progress, and so does the creation of a session, which has no timer of
its own (`runExecutor.ts:121`). A session need not end by itself; faults are bounded.

### What the code does against its own documentation

Four runs expect a violation. Each checks what a document or a test of the repository
says.

- `steer_rollback`: a provider error of a queue turn rolls back with
  `deleteFromOrderSeq`, which also deletes Steer messages accepted while it streamed
  (`turnCoordinator.ts:1174`). The recovery specification says an accepted Steer fact is
  not deleted. The waiting Steer row then names deleted messages, and
  `failPendingSteerMessages` throws at the next start, out of the reconciliation of all
  sessions (`transcript.ts:440`): `AlwaysRecoverable` is false with provider errors.
- `steer_order`: a promotion opens a second batch beside the open one
  (`pendingInputs.ts:162`), so the first batch is answered below a message of the second
  that is still unread. The Steer specification demands old answer < Steer < new answer.
- `stranded_steer`: a promotion made while a stopped turn unwinds loses its wakeup: it
  comes before the claim is settled, so it is dropped, and `scheduleNextIfReady` is
  skipped because the released row waits again (`pendingInputPump.ts:599`). With three
  submissions and room for three, a deletion does the same to the queue: a restart holds a
  row, another waits behind it, a Send starts ahead of both; the held row is deleted while
  the Send's turn unwinds, and the row behind it rests in an idle session.
- `missed_occurrence`: reconciling the stored schedules computes `next_run_at` strictly
  after now (`scheduler/index.ts:411`). At a start, a list or a system resume that comes
  before the host's scan, a due occurrence is stepped over and never queued, also for a
  job whose policy is to catch up. A test says that each due run is queued once; it is about
  a scan of the host alone (`schedulerService.test.ts:1443`), and none lets the main process
  reconcile a job between its due time and the scan.

The first three are why `session` and `contract` leave provider errors out, and `progress`
promotions, moves and deletions. Kindred losses are listed as hazards only: a promotion whose preparation fails
schedules nothing; moving a row ahead of a held one wakes nobody; a scheduler operation
writes back a whole row it read before an await, which brings back a job deleted meanwhile
(`scheduler/index.ts:421`); and a run that the `queue` policy or a crash leaves queued is
never dispatched, because nothing looks for queued rows (`runExecutor.ts:94`).

In live delegation the model reaches states that no run states as a violation, because the
documents promise nothing so definite; they are listed as hazards, or here:

- The reconciliation reads a child's status before an await
  (`liveDelegationService.ts:1564`). If the child ends meanwhile, nobody hears it, since its
  turn is not listed yet; the turn is then taken up as running, with a permit, and stays so
  until somebody interrupts it. `NothingHangs` speaks of ends that were heard.
- `spawn()` and `followUp()` look whether the service runs only before their awaits; one
  that a `stop()` overtakes creates a turn that runs in a stopped service.
- A reconciliation that fails for another reason than the contract interrupts the turn and
  leaves its child at work (line 1735); `NoOrphanedRun` sets such turns aside (`lost`).
- A crash in the middle of a stop may leave a child waiting whose turn is already
  interrupted; it is set aside likewise. Nothing else is: a turn whose permit is refused,
  whose contract boundary is parked or whose row cannot be finished keeps an active row, and
  `NoOrphanedRun` goes on speaking of it. By hand it also held with two faults.
- A turn whose permit is refused because the queue is full stays queued without a task
  (line 938). An interrupt of a turn that is not listed unmaps the child after its await,
  also when a newer turn has been mapped to it meanwhile (line 893).

### The contract

`PendingInputContract` knows no rows or leases. Each message is waiting, parked for the
user, running, answered or withdrawn; one batch runs at a time, until its answer is final,
across a paused interaction; a parked message is not started before an approval; an
answered one is never started again; a crash starts nothing. `MeetsContract` maps each
message to the phase of the row that carries it, its own or the Steer row it merged into.
The run checks it on three submissions, the theorem `LaneMeetsContract` for any number of
them and every event, provider errors and promotions included.

## 5. What is proved

TLAPS checks the theorems below for every value of the constants that satisfies the named
assumptions of the modules.

| Module | Theorem | Statement |
| --- | --- | --- |
| `PendingInputRunProofs` | `TypeCorrect` | `Spec => []TypeOK` |
| `PendingInputRunProofs` | `LeaseOwned`, `OwnershipHolds`, `OneRunAtATime`, `ControllerOwned` | `Spec => []LeaseOwnership`, `[]OwnershipInvariant`, `[]AtMostOneRun`, `[]ControllerOwnership` |
| `PendingInputClaimProofs` | `ClaimsHold`, `FenceAndRowAgree`, `EveryClaimHasAnOwner`, `NothingReplayed`, `QueueStaysDense` | `[]ClaimInvariant`, `[]FenceMatchesRow`, `[]ClaimsAccounted`, `[]NoSilentReplay`, `[]QueueOrderDense` |
| `PendingInputClaimProofs` | `RetryFencesTheQueue` | the action property `RetryFence` |
| `PendingInputTranscriptProofs` | `BoundaryHolds`, `HandoffsKeepTheBoundary` | `[]BoundaryInvariant`, `[]HandoffBoundary` |
| `PendingInputTranscriptProofs` | `TranscriptHolds`, `NothingIsLost`, `ReceiptsAgree`, `EveryCrashRecovers`, `SteerFactsStay` | where `NoSteerRolledBack`: `[]TranscriptInvariant`, `[]NoInputLost`, `[]ReceiptsFollowRows`, `[]AlwaysRecoverable`, `[]SteerFactsSurvive` |
| `PendingInputContractProofs` | `PhasesHold`, `LaneMeetsContract` | `[]PhaseInvariant`; the refinement `MeetsContract` |
| `PendingInputContractProofs` | `SteerOrderHolds`, `SteerAnsweredInOrder` | where nothing is promoted: `[]SteerOrderInvariant`, `[]SteerBetweenAnswers` |
| `PendingInputContractProofs` | `SteerStaysClaimable` | where nothing is promoted: `[]SteerClaimable` |
| `PendingInputContractProofs` | `WakeupsHold`, `NothingStranded` | where `HeadUndisturbed`: `[]WakeupInvariant`, `[]NoStrandedInput` |
| `ApprovalProofs` | `ApprovalTypes`, `WaitersStayReachable`, `GrantsNeedApproval`, `ApprovalsAreSpent`, `CliLeavesNothing` | `[]ApprovalTypeOK`, `[]WaitersReachable`, `[]GrantsAreApproved`, `[]ApprovalUsedOnce`, `[]NothingLeftBehind` |
| `ApprovalProofs` | `NothingIsGrantedLate` | the action property `NoLateGrant` |
| `SchedulerProofs` | `HostAlwaysOnItsWay` | `[]HostOnItsWay` |
| `SchedulerProofs` | `SchedulerTypes`, `OneRunPerJobAlways`, `RunningIsCarriedAlways`, `SessionsDoNotOverlapAlways`, `ReportedOnceAlways`, `OccurrenceQueuedOnceAlways` | the invariants of these names |
| `InvocationAdmissionProofs` | `AdmissionIsSound`, `PermitsAreAccounted`, `OwnersAreQueued`, `NoPermitIsIdle` | `[]AdmissionSound` and the invariants it is made of |
| `InvocationAdmissionProofs` | `NobodyIsOvertaken`, `AdmissionIsPool` | the action property `NoOvertaking`; the refinement `ImplementsPool` |
| `LiveDelegationProofs` | `DelegationTypes`, `DispatchedOnce` | `[]DelegationTypeOK`, `[]DispatchedAtMostOnce` |
| `LiveDelegationProofs` | `WaitingCostsNoPermit` | `[]WaitingHoldsNoPermit` |
| `LiveDelegationProofs` | `NoRunIsOrphaned`, `CompletedByOwnRun` | `[]NoOrphanedRun`, `[]CompletedByItsOwnRun` |
| `SchedulerProofs` | `SettledStaysFinal`, `QueuedStaysCarried` | the action properties `SettledIsFinal`, `QueuedRunsStayCarried` |

### The waiting lane

The only assumptions are `StoreAssumption` and `EventsAssumption`. `AtMostOneRun` is not
inductive. The lease keeps launched turns apart, but the resumed run takes no lease; it
is kept apart by the session's status. The inductive invariant is `OwnershipInvariant`
(which also carries the type and two small facts about waiting calls and the resumed
run): a run keeps the session generating; an open interaction means that no run is under
way; at most one interaction is open; and a controller or active generation belongs to
the run under way. A launch is possible only in a session that is neither generating nor
waiting for an interaction, so there is no run to run beside.

`PendingInputRunProofs` shows what each transaction of the store preserves, the type and
that it opens no interaction, and lifts this to the actions. It then follows
the lease, and sorts the actions into those that keep the runs, end one, and start one, and
has one lemma for each way.

*Claims.* `FenceMatchesRow`, `ClaimsAccounted` and `NoSilentReplay` are not inductive: a turn
settles its claim at one of several places, and what it leaves depends on the stage it came
from. `ClaimInvariant` says per row who owns its claim (the launched turn until it is fenced,
or the promotion that took the row without the lease), that a row keeps the lane its turn was
launched from, that blocked rows and rows that need Retry are queue rows, that a submission
nobody has made has left no trace, and that a waiting row the provider may have seen is held.
A transaction writes one row or none (`RowWritten`, `RowsKept`), or is the recovery; each
action is shown to write rows its actor owns, so the standing of all other rows is kept. That
the queue has no gap needs no knowledge of the actors: each transaction keeps `DenseOrder`,
the renumbering by a counting argument over the rows ahead. `RetryFence` follows: the pump
takes the head of a dense queue, and a direct start looks for a row that needs Retry.

*Rows and messages.* Three things depend on each other: which messages are unread, where the
text of a running turn stands, and what the row of a Steer is linked to. `BoundaryInvariant`
holds under every event: an unread message is in a Steer row that waits, and a queued
turn is launched only while no Steer waits, hence with no unread message; a turn that is told to hand over has its text above
every unread message, because the admission writes it first when the turn had not; and
without Steers the text of the turn under way is the last message, so a rollback deletes that
turn's text and nothing else. `TranscriptInvariant` says which status and receipt the
messages of a Steer row have in each of its states, that two rows share no message, and that
every owed submission is in a row or a message. Its proof has a layer on database values (what
each transaction does to rows in a given state: `Settles`, `Tale`) and a layer of actions,
which apply the transactions to rows whose state the claims give. It needs the hypothesis

    NoSteerRolledBack == "streamError" \in Events => ~Steering

on the constants: provider errors or Steer messages, not both. Without it the theorems are
false, which is the finding of `steer_rollback`. With it they cover any number of submissions,
any capacity, and every other event; the instances of `session` and of `failures` both
satisfy it.

*The contract.* That each step of the lane is a step of `PendingInputContract`, or leaves the
phases alone, needs no hypothesis: the contract is kept even where a rollback deletes Steer
messages. It needs the three invariants above and `PhaseInvariant`, which TLC confirmed on
instances of two and three submissions before the proof: a Steer row carries submitted
messages only, which have no row of their own, so that each message has one carrier; a
launched turn answers its own row, in a message it has reserved before it streams; and a row
whose answer is paused or being resumed is settled, so that no other run can take it. Most
steps change the phase of one row and of the messages it carries (`StepOfRow`, `RowStep`): what
is left to show of them is which phases the row leaves and enters, and for a start or an end
that nobody else is being answered. A run that ends by any of its ways, from a completed stream
to a failed preparation, is one lemma (`RunEnds`). The steps with an argument of their own are
a submission, a promotion, a Steer that joins a batch, a deletion, the approval of the held
rows, and a crash, which takes every row at once: recovery closes what was claimed, parks what
waits in the queue, answers every Steer row with its error, and so starts nothing (`CrashedRow`).

*The order of the answers.* `SteerBetweenAnswers` needs the hypothesis `"promote" \notin Events`:
a promoted row may stand beside an open Steer row, and then an answer is reserved above a message
that is still unread, which is the finding of `steer_order`. Without promotions
`SteerOrderInvariant` is inductive, with the invariants above; TLC confirmed it on three
submissions of every kind under every other event (404 000 states). It says that one Steer row is
open at a time, the one the instance knows, so that a claim leaves no unread message behind; that
no answer stands beyond the end of the transcript, so that a new message stands below every
answer there is; and that the answer of a claimed Steer row stands below its messages. Most steps
are `Calm`: they open or claim no Steer row, and make no message unread.

*No wakeup is lost.* `NoStrandedInput` needs `HeadUndisturbed`: no promotion, move or
deletion. Each of the three changes which row stands first at a moment when the wakeup is
dropped, or never given, and TLC strands a row with any one of them: a promotion is the finding
of `stranded_steer`, which also names the deletion; `moveQueuedInput` wakes nobody, so a message
moved before the row a restart holds waits in an idle session, until something else wakes the
pump. Without them `WakeupInvariant` is inductive, with the invariants above and
`SteerClaimable`; TLC confirmed both on the instance of `progress` (225 000 states). It says
three things. Whatever could start is on its way: the pump drains, is about to look for the next
row, or runs a turn that has settled its claim or has kept a wakeup. A row that waits behind a
claimed one stands behind it in the queue, or the first of them is held (`HeadTaken`), so that a claim
given back for Retry fences the queue again: that is why the wakeups that `shouldDeferWakeup`
drops before a claim is settled are not missed. And no Steer row is open beside a queued turn
that was stopped before the provider (`StoppedAlone`), whose unwinding looks for nothing next.
`SteerClaimable` says that the drain does not refuse a Steer row: its messages are unread, unless
a provider error rolled one back, and then the session shows that error and runs nothing.

### Approvals

The inductive invariant is `SoundState`: every call is placed (`CallsPlaced`: what its `pc`
says about its request), the variables beside the broker keep their types, an open renderer
target belongs to a guard call that presents or waits, and `Sound(broker)`. `Sound` relates
the history to the state: a request that is not gone has let nobody through, one that
is approved or has let someone through was allowed, and waiters exist only on pending
requests and have heard nothing. Each operator of the broker is shown to keep `Sound` and
to change only its own requests; the actions then follow from the operators they call.

`NoLateGrant` is an action property and needs of the invariant only the broker's type. An
entry point that may let a call through prunes first: pruning leaves no request that is
due, it makes none live, and what the entry point lets through is live in what pruning
left. So the request was live and in time before the step, even if its timer never runs.

### The scheduler

`HostSound` adds to `HostOnItsWay` that the host the manager knows is up and the one it
waits for is spawning. `RunsSound` says for one run what its row, its stage, its session,
its timer and its reports allow together, for a `RUN_DUE` under way that it is the only one
about its run, which nobody has looked at yet, and for two runs of a job that one at most
is running. A lemma `OneRunStep` reduces a step of one run
to the facts about that run, since the others do not change; the queueing of several runs
at once and the deletion of a job's rows are the two steps that touch more. That `Claim`
looks at the other rows in the same stretch in which it marks its own is what carries
`OneRunPerJob`.

### The invocation admission

The only assumption is `AdmissionAssumption`. The three invariants of the run are not
inductive by themselves: `AdmissionSound` adds what the state of a lease says of its
acquisition (`LeasesSound`), where `dispatch()` is (`RoundSound`: the owners that a round has
passed without a grant are at their limit), and that the owners served since an owner could
be served stand behind it in the ring (`SinceSound`). A step of a lease or of `dispatch()`
has one of a few *effects* on the shared state: it leaves it (`Same`), takes a permit
(`Takes`), joins or leaves a queue (`Joins`, `Leaves`), gives a permit back (`GivesBack`),
serves or passes the owner at the head (`Serves`, `Passes`), begins or ends a round
(`Turns`), or empties the queues (`Empties`). Each effect is shown to keep the invariant,
with lemmas about `Append`, `Tail` and `RemoveAt` on sequences without repetition and about
the cardinality of a set that gains or loses one lease; each action is shown to have an
effect. `NoOvertaking` follows from `SinceSound`: the owner that is served is the head of
the ring. In the refinement a grant happens when `.then` sees it, so what is needed is that
the counters cover the leases that are active and those about to be (`ArrivalFits`).

### Live delegation

The only assumption is `DelegationAssumption`. That a turn was handed over at most once is
not inductive: `DispatchSound` adds that a handoff that was accepted is recorded in the row,
that a task before the record was not handed over yet, and that one about to send was not
either and has its record. All steps but four kinds leave the handoffs alone, take no task nearer
to its delivery and unset no record (`HandsNothing`), which keeps `DispatchSound` whatever
else they do; the four are the insertion of a row, the record of the dispatch, the acceptance
of the handoff, and the taking up of a turn by the reconciliation. The types say two things more than ranges:
a turn that is being settled has an outcome, or its row could be given none, and a boundary
that is passed is a turn's, or it could join the chain of a child for nobody.

That a waiting child costs no permit (`WaitingHoldsNoPermit`) is seen from the child, the
permit belongs to a turn, and the two are related by the mapping, the rows and the
boundary. `PermitSound` says how: a delegation has one active row; a listed turn that is
not being settled has an active row; only such a turn holds a permit or asks for one; the
child is mapped to a turn of its delegation; while a boundary is passed, nobody but the turn
that stands there waits; a waiting row was dispatched, so the reconciliation never sends it
again; and outside a boundary the turn of a waiting child neither holds a permit nor asks
for one. Most steps are `Calm`: they make no turn live, waiting or eager for a permit, and
keep the invariant whatever else they do. The rest have an argument each: the insertion of
a row, a boundary that opens or asks for the permit again, a child that begins to wait, a
start, the taking up of a turn, and the end of a stop or a restart, which clear the memory.

`NoOrphanedRun` and `CompletedByItsOwnRun` share the invariant `EndSound`, which says which
turn the run and the answer of a child belong to. `RunsSound`: a child that works does so for
a turn that is active or was ended without a cancellation (`lost`), is not being settled and,
if it was aborted, still in its delivery, which cancels the child when it returns; or `stop()` has
aborted the turn and has still to cancel its child. So whoever settles or aborts a turn must
cancel its child in the same stretch, and that is what each action is held to.
`ChildrenSound`: a run was handed over and is its delegation's, the active turn of a
delegation is the one its child works for, and what the child answered since the last recorded
dispatch is that turn's answer. `TurnsSound` (`Fits`) says what the stage of a turn's task,
its settlement, its row and its history allow together: before the handoff is accepted
nothing was seen of the child; a row whose dispatch is not recorded is not delivered; only a
turn under way is settled as completed; and from the moment its answer is taken until its row
is completed, the answer is its own. The rest is what others know of a turn while they wait:
an operation in the child's chain and a boundary are of a delivered turn (`ChainsSound`,
`GatesSound`), a call that drains and a stop wait for turns that are given up
(`CallsSound`, `CapturesSound`), and what the reconciliation read of a turn is still true
where it is used (`RecSound`): a child read as idle does not work when its turn is taken up.
Most actions move one turn `Onward` and leave, cancel or end the run of a child (`ChildAlike`),
which keeps the invariant (`MovedKeeps`, `RowMoves`); the insertion of a row, the acceptance
of a handoff, an answer, the stages of `stop()` and a restart are shown one by one.

### Only model-checked

On the instances above: all liveness, which with `ENABLED` is out of the prover's reach.

`TypeOK`, `ApprovalTypeOK`, `SchedulerTypeOK`, `OwnersQueued` and `SettledIsFinal` are proved
and no longer checked by a run.

## 6. What is left out

Of the waiting lane:

- *Publication failures.* A row may be stored and the call still fail.
- *Eviction or replacement of an agent instance* while a turn runs.
- *The question follow-up gate*, by which an answered question waits for a Send.
- *Execution-journal and memory errors* other than an error committed and then thrown
  (`thrown`), and *compaction*.
- *Direct turn starts* without a claim (retry and edit of an answered message).
- *Answers to several interactions of one message* and the awaits inside `respond`.
- *Legacy rows* in recovery: unlinked or blocked Steers.
- *The transcript anchor of a turn before its stream*: derivable from the other state.
- *The ACP backend*, which shares the store but has its own lane.

Abstractions: content is not modelled, so an edit only makes a row executable again;
`order_seq` is a counter that a rollback lowers; the wake reason `manual` is merged
with `enqueue`, which drains the same way. The module is about one session: rows and
instances of different sessions share no state but the recovery transaction at startup.

Of the approvals: hashing, limits and previews of arguments; the permission modes in which
nobody is asked; command, file and settings grants, which have services of their own;
subscribers that throw. `consumeApproved` takes the first match in insertion order; here
it takes any.

Of the scheduler: parsing of expressions, time zones and rows with a schedule error; the
limit of one scan; changes of a job's policies; what a delivery target does with a report
and the settings that suppress it (a report here is one that would be made). A heartbeat is
handled as it is sent, and a host may scan whenever it is up, where the code waits for a
timer or a `RECONCILE`. The agent catalogue answers as it likes; creating, starting and
cancelling a session are external calls that may fail. A killed host stops at once, and the
id of a host is used again once none of its messages is under way.

Of the invocation admission: observations, statistics and correlation; `run()`, which is a
lease resumed and released by one caller; waiters of one owner with different limits (the
only caller passes a constant); the check for a proxy or a malformed owner.

Of live delegation: the mailbox, `send`, `wait` and the pages of a result; the deletion gate,
through which calls about one session take turns, and `prepareSessionDeletion`; the parent's
capacity; turns of older versions without a contract; evidence of effects; users who speak
to a child of their own accord; a lookup of a result that fails; a cancellation that fails
(it is swallowed); the await of the cancellation inside `interruptUnverifiedTurn`. A failed
boundary is a fault, except where an abort explains it. Two paths of the delivery are
simplified:

- *A handoff that is only queued.* A child that accepts its handoff starts to work
  (`ChildAccepts`). In its own lane the handoff may only wait, while the drain lease of the
  child's last turn is still held or behind a `retry_required` row that a cancelled preparation
  left (`pendingInputPump.ts:317-336`). Such a turn is running, with its permit, before its
  child works, and what an interrupt does to a handoff that still waits is not covered by
  `NoOrphanedRun`.
- *A handoff that fails after it was accepted.* `SendFails` is a delivery that the child
  never accepted. `sendConversationMessage` may also reject afterwards, when `requireSession`
  no longer finds the child (`session/turn.ts:150`); that takes a deletion of the child, which
  is left out.
