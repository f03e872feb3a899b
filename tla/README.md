# Aexy assistant: TLA+ models, TLC runs and TLAPS proofs

This directory holds TLA+ specifications of the parts of the assistant daemon
that are protocols: state that several callers, processes or restarts touch in
an order nobody writes a test for.  Each module is translated from the source
(`PROJECT.json`, `map`, names the lines of every definition).  TLC checks the
modules on small instances, TLAPS proves the most important properties for
every value of the constants.

Paths below are relative to the repository.

## 1. Inventory

The repository is a monorepo.  The daemon (`assistant/`) runs a single-threaded
event loop that serves HTTP and SSE, drives conversations with a language
model, and keeps its state in SQLite and a few files.  Workers (memory,
schedules, monitoring) are separate processes on the same database.  A gateway
(`gateway/`) sits in front of it; web, desktop and CLI clients (`clients/`,
`cli/`) talk to it through the gateway.

| Component | State | Operations | Talks to | What is hard | What makes it correct |
|---|---|---|---|---|---|
| Event stream state (`assistant/src/runtime/assistant-stream-state.ts`) | seq counter, reserved ceiling, replay ring; on disk `data/stream-seq.json` | load, reserve, stamp, floor at startup, replay window, evict | hub, SSE route, `conversations.seq` | restart between a stamp and a reservation write, failed reads and writes, eviction under a cursor | no seq issued twice, counter above every persisted anchor, an answered replay is complete |
| Event hub, SSE route, targeting (`runtime/assistant-event-hub.ts`, `runtime/routes/events-routes.ts`, `runtime/assistant-event-targeting.ts`, `ipc/routes/events-ipc-routes.ts`) | subscribers, promise chain, publishes in progress, response queues, per-connection replay mark | subscribe, publish, broadcast, forward over IPC, replay, shed, abort, dispose | stream state, plugins, workers, clients | a publish is stamped now and delivered later; subscribers come and go meanwhile; a slow callback | every owed event exactly once, in order, to its audience only |
| Memory job queue and worker loop (`persistence/jobs-store.ts`, `plugins/defaults/memory/jobs-worker.ts`) | table `memory_jobs`, ticks, executions in flight | enqueue with coalescing, claim, execute, complete, retry, defer, postpone, cancel, watchdog, reset on start | daemon, worker slot, embedding services | several workers at once, a write during an execution, a kill between claim and completion | no update forgotten, a claim is exclusive, budgets bound the work, every job ends |
| Worker process slot (`util/worker-process.ts`, `plugins/defaults/memory/worker.ts`, `worker-control.ts`) | PID file, live processes | probe, spawn, start, stop, identity check, death | queue | a slow start and a slow stop leave two workers | one worker remains |
| Circuit breakers of the embed lane (`persistence/embeddings/`) | open / half-open state | record failure, allow probe, heal | claims | a probe must let one job through | an open breaker heals |
| Turn flush and persisted anchor (`daemon/inflight-turn-registry.ts`, `daemon/conversation-agent-loop-handlers.ts`) | partial turn, `conversations.seq` | flush, record anchor | stream state | snapshot and tail from two moments | snapshot plus tail equals the live stream |
| Web stream client (`clients/web/src/assistant/sse-service.ts`, `domains/chat/streaming/`) | cursor, applied events | dedupe, detect gaps, reconcile | SSE route | reconnects and restarts of the daemon | every event applied exactly once |
| Channel ingress, delivery status, retry sweep (`persistence/delivery-crud.ts`, `delivery-status.ts`, `runtime/channel-retry-sweep.ts`) | inbound events with processing and delivery status | record inbound, process, deliver, sweep, dead-letter | gateway, conversations | redelivery, a crash between answer and acknowledgement | a message is answered once, and eventually |
| Scheduler (`schedule/`) | schedules, runs | claim, run, retry, recover, edit | conversations, worker slot | optimistic lock against edits and ticks | an occurrence fires at most once, no schedule stuck |
| Heartbeat (`heartbeat/`) | heartbeat runs | claim, run, recover | conversations | as the scheduler | at most one run at a time |
| Workflows (`workflows/`) | runs, journal, caps | start, journal, interrupt, resume | agent loop | crash between an effect and its journal entry | resume repeats no journaled leaf |
| Conversation queue and turns (`daemon/conversation-queue-manager.ts`, `daemon/conversation-process.ts`) | queued messages, processing flag | enqueue, drain, abort | hub, agent loop | abort against drain | no message stuck or run twice |
| Pending interactions (`runtime/pending-interactions.ts`) | open requests | register, resolve, expire | conversations, clients | a late answer | one answer per request |
| Sub-agents, agent-to-agent tasks, MCP and host proxies, calls, gateway, credential executor | see `PROJECT.json` | | | timeout against a late answer | |
| Providers, tools, skills, prompts; clients and CLI; migrations | | | | no protocol of their own | |

`PROJECT.json` lists every component with its status, and under `hazards` each
line where something can go wrong that a test would hardly reach, with the
properties that would catch it.

## 2. The modules

| Module | What it is |
|---|---|
| `StreamState` | the sequence authority with its durable state, over restarts and faults |
| `EventTargeting` | the pure predicate that decides whether an event is for a subscriber |
| `SseHub` | the hub and the SSE route; EXTENDS `StreamState` and `EventTargeting`, so stamping, replay and crashes are those of `StreamState` |
| `WorkerSlot` | the PID-file protocol of a worker process |
| `MemoryJobs` | the job queue and the worker loop; EXTENDS `WorkerSlot`, so workers start, overlap, stop and die as the slot allows |
| `DeliveryPromise` | the abstract specification of channel delivery: what an accepted message is owed |
| `ChannelDelivery` | channel ingress, turns, delivery and the retry sweep; implements `DeliveryPromise` |
| `Scheduler` | scheduled jobs, the schedule worker, retries and recovery |
| `Workflow` | one workflow run: engine, journal, run manager, crash and resume |
| `MCStreamState`, `MCSseHub`, `MCMemoryJobs`, `MCChannelDelivery`, `MCScheduler`, `MCWorkflow` | values for the constants, symmetry sets |
| `StreamStateProofs`, `SseHubProofs`, `MemoryJobsProofs`, `MemoryCoverageProofs`, `ChannelProofs`, `ChannelReplyProofs`, `SchedulerProofs`, `WorkflowProofs` | theorems and proofs |

### StreamState

`counter` is the four counter fields of the `state` object of
`assistant-stream-state.ts`, `ring` its buffered entries, `disk` the ceiling in
the reservation file (0 when absent), `convSeq` the column
`conversations.seq` (0 for NULL).  `issued` and `past` are history: the entries
this process has stamped, and the seqs of earlier processes.

| Action | Code |
|---|---|
| `StartProcess`, `Crash` | a process starts with fresh module state; it may die between any two steps |
| `FloorSeqAbove`, `FloorSkipped` | the floor at startup over the highest anchor, and its failure path (`daemon/lifecycle.ts`) |
| `StampAndBuffer` | load the reservation if needed, reserve if needed, take a seq, append to the ring, evict |
| `SweepRing` | the eviction a replay read performs first |
| `LoadOnGetCurrentSeq` | `getCurrentSeq` loads the reservation |
| `RecordConversationPersistedSeq` | an anchor is recorded; it may be any seq stamped so far, and never moves back |

The size and age limits of the ring need bytes and a clock, so `Evict` keeps
any suffix that respects the count limit: every eviction the code may do is
one of these.  Faults are switches (`WriteFaults`, `ReadFaults`,
`FloorFaults`), because the code promises different things with and without
them.

### SseHub

`subs` is the subscriber set in insertion order, `chain` the broadcasts queued on
the promise chain, `running` the publishes that have started (each with the
snapshot of subscribers it still has to visit), `conns` the SSE connections
(their response queue, the frames they were sent, their replay mark), `cursor` the last
seq each client has read.  JavaScript runs to completion: a publish goes
through its snapshot in one piece until a callback returns a promise.  The
model marks such a publish `sync` and lets nothing else act until it yields
(`Quiescent`).  Only a plugin callback may be slow (`parked`); an SSE callback
returns at once.  `HubTypeOK` gives the types of these variables; it is proved,
and the runs check the other properties instead.  What the code filters or
removes from a list is written as the positions it keeps (`KeepAt`, `Ascending`),
which the proofs can reason about without an induction over the list.

| Action | Code |
|---|---|
| `BroadcastMessage` | stamp, then append the publish to `_hubChain` |
| `HandleEventsPublish` | an event forwarded by a worker over IPC: stamp and publish directly |
| `ChainPublish`, `Deliver`, `CallbackSettles` | start of the publish at the head of the chain; one subscriber of the snapshot; a parked callback settles |
| `SubscribeAssistantEvents` | the SSE route: displace an older connection of the client, evict the oldest when full, subscribe, replay from the cursor and set the mark |
| `PluginSubscribe` | an in-process subscriber |
| `HeartbeatTimer`, `ClientReads`, `AbortConnection`, `DisposeClient` | heartbeat and shedding at the high-water mark, reading, abort, forced disconnect |
| `DaemonCrash`, `DaemonBoot` | the process dies with its connections; the stream state starts again |

### WorkerSlot and MemoryJobs

`wproc` is the life of each worker process (spawned, booting, looping,
stopping, dead), `pidFile` the PID the file names, `rows` the table
`memory_jobs`, `task[w][j]` how far worker w's execution of row j is,
`candidates` the rows a tick has selected but not yet claimed, `call` a store call
between its SELECT and its UPDATE, `enqueuing` an
enqueue between its SELECT and its INSERT.  `version` counts the writes to what a key stands for and
`indexed` is the version its index was built from: a handler reads the source
when it executes, which is what coalescing relies on.  `own` and `abandoned`
are history.

| Action | Code |
|---|---|
| `SpawnWorkerProcess`, `WritePidFile`, `StartWorkerLoop` | probe the PID file and spawn; the child writes its file; the loop starts by resetting running rows |
| `Evicted`, `StopWorkerProcess`, `ExitAfterReap`, `Die` | identity check; SIGTERM, which takes the file away and defers the exit; the deferred exit; a kill with or without cleanup |
| `WriteSource`, `UpsertSelect`, `EnqueueMemoryJob` | the source changes; the enqueue looks for a pending row; it inserts when there is none |
| `CancelPendingJobs` | a conversation is deleted and its rows fail |
| `TickSelect`, `TickClaim`, `TickEnd` | watchdog and SELECT of one tick; the conditional UPDATE; the end of the tick |
| `ProcessJob`, `WriteIndex`, `Hang`, `Resolve` | the handler reads, writes, never returns; the outcome: complete, retry, fail, defer, postpone, or a billing block that defers the rest of the group |
| `SelectRow` (in `Resolve`), `UpdateRow`, `DeferNext` | `failMemoryJob` and `deferMemoryJob` read the counters, then write them; the next row of a blocked group |
| `TurnOld` | the stalled-job timeout passes |

Each SQL statement is atomic; a sequence of statements is not.  Which pending
rows are due, and whether a lease or a breaker holds a lane back, is a choice
of `TickSelect`: every schedule the clock may produce is among them.

### ChannelDelivery and DeliveryPromise

One conversation of a channel with a reply callback.  `source` says which
message an event announces: Slack sends two events for one message, and such
siblings share it.  `row` is the table `channel_inbound_events`, `turns` the
user rows of the conversation with what was posted of their reply, `handler`
the HTTP handler of a new event, `queue` the admission of dispatched events,
`worker` the two that drive a row (the live flight and the sweep, each with its
place in the code), `batch` what the running sweep read when it started,
`lock` the processing flag, `recovery` the recovery steps still to run.
`excused` (in a turn), `failures` and `rework` are history: what a fault may be
blamed for.

| Action | Code |
|---|---|
| `RecordInbound`, `StorePayload`, `IngressBlocked`, `Dispatch` | the inbound handler: the row, the payload, a secret or disk pressure that settles the event, the hand-over to the background |
| `Admit` | `withChannelTurnAdmission` |
| `HitBusy`, `FailEarly`, `Deduplicate`, `StartTurn`, `PersistReply`, `BreakTurn`, `EndTurn` | `processMessage` as both workers see it: busy, failing, an idempotency key that already has its row, the turn |
| `StartCommand`, `AnswerCommand`, `BreakCommand` | its slash-command branches: a user row and an answer with neither key, deduplication nor processing flag |
| `BoundaryThrows` | the commit of the turn boundary throws in the loop's `finally`, after the reply may have been persisted |
| `Link`, `Conclude` | linking, `markProcessed` and `storeReplyMessageId` in the order of each worker, and who owns the delivery of a shared reply |
| `SendSegment`, `SendFails`, `CountSegment`, `FinishDelivery` | the segment loop of the reply delivery and its counter |
| `StartSweep`, `SweepBlocked`, `SweepDefers`, `SweepReplays`, `SweepDelivers` | `channel-retry-sweep.ts` |
| `OtherTurnStarts`, `OtherTurnEnds`, `ReplayDeadLetter` | another surface uses the conversation; the operator replays a dead letter |
| `Crash`, `RecoverOrphans`, `RecoverStranded` | the daemon dies with both workers; the two recovery steps of the monitor |

`DeliveryPromise` has one variable, what each event is owed, and four steps:
accept, settle, give up, replay by the operator.  The refinement mapping
`Promised` reads it off a row: absent; owed while pending or failed, or
processed with a delivery outstanding; settled when delivered or processed with
no payload left; dead as a dead letter of either stage.  `KeepsPromise` says
that every step of `ChannelDelivery` is a step of the promise or leaves it
alone.

### Scheduler

`job` holds the `cron_jobs` rows (mode, status, enabled, `nextRunAt` with the
fact whether it has been reached, retry count, whether the recurrence goes on),
`open` the `cron_runs` rows in status running, `worker` each schedule worker
with what it has read and claimed, `daemon` the recovery of a boot, `quiesced`
the lease.  `left` counts down the bounds; `ran`, `failed` and `faults` are
history.  The worker is a process of its own, so each SQL statement is a step.

| Action | Code |
|---|---|
| `SelectRecurring`, `SelectOneShots`, `Claim`, `TickEnds` | `claimDueSchedules` and the tick around it |
| `Defer`, `Start` | `deferClaimedSchedule` (a lease, tools not ready), or the run with its row |
| `Succeed`, `Fail`, `FindBusy`, `FindGone` | the outcome of each mode |
| `OpenRun` | the run row of a notify or wake job, written once its outcome is known |
| `CloseRun`, `Count`, `Charge`, `Complete`, `Decide`, `Revert` | the statements after an outcome, one by one (of a failed run, the retry count is read in one and written back in the next), and `decideRetry` |
| `WorkerDies`, `Spawn`, `ToolsReady`, `ToolsReload` | the worker process and its tool surface |
| `DaemonDies`, `Boot`, `RecoverRun`, `RecoverClose`, `RecoverCount`, `RecoverCharge`, `RecoverDecide`, `RecoverRevert`, `StartScheduler` | `schedule-recovery.ts` statement by statement, then the replacement of the former worker |
| `CancelSchedule`, `Disable`, `Enable`, `TimePasses`, `LastOccurrence`, `SetQuiesce`, `LeaseEnds` | the user, the clock, the lease |

A `nextRunAt` computed from "now" is a stamp that nobody holds.  That is all
the optimistic lock relies on.  The retry count has no lock: a live worker and a
boot's recovery may both read it and one of the two charges is then lost.

### Workflow

`row` and `journal` are the two tables; `inflight` and `aborted` are the run
manager's; `engine`, `answers`, `nextSeq`, `agentsSpawned`, `capExceeded`,
`pool` and `leaves` are the engine's memory, which a crash erases.  The script
is the constant `Program`: it maps the answers of its host calls so far to what
it does next, so it may branch on a leaf that failed.  `launched`, `done`,
`cutOff`, `lostSpawns` are history.

| Action | Code |
|---|---|
| `Start`, `Resume`, `Abort`, `Release` | the run manager |
| `CallHost`, `Pull`, `HostReturns` | `agent()` and `parallel()`: numbering, the pool with its concurrency limit, cached answers, the cap, draining |
| `LeafSucceeds`, `LeafFails`, `LeafCancelled`, `LeafAborts` | how a leaf ends, with its two writes; the last is an abort error of the leaf's own that no signal asked for |
| `ScriptEnds`, `ScriptInterrupted` | the final status and `finishRun` |
| `Crash`, `CrashBetweenWrites`, `CrashBeforeFinish`, `Boot` | death of the daemon at any await or between two adjacent writes; `reconcileOrphanedRuns` |

## 3. Runs

Bounds of the model, named in the guards: `MaxSeq` (the counter), `MaxSpawns`
(worker processes started), `MaxVersion` (writes per key), `MaxCrashes`,
`MaxOthers`, `MaxReplays` (channel), `Crashes`, `Leases`, `Edits`, `Failures`
(scheduler, workflow).  The other small numbers are instances of the code's own
limits.

| Run | Instance | Shows |
|---|---|---|
| `stream_reserved` | Block 2, ring 2, MaxSeq 7 | with a sound reservation file, no seq is issued twice (`NoReissue`), a restart skips at most one block (`BoundedRestartGap`), the counter stays above the anchors even when the floor is skipped (`CounterAboveAnchors`) |
| `stream_degraded` | reads and writes of the file fail, MaxSeq 4 | the floor alone keeps stamps above anchors (`StampsAboveAnchors`), and a replay answered from a non-empty ring is complete (`ReplayComplete`) |
| `hub_event_loop` | one client with a host capability, scoped or not, no plugin, two conversations, targeted, excluding and forwarded events, MaxSeq 4 | nothing at or below the cursor (`FramesAboveCursor`), nothing owed is missing (`NoEventLost`), nothing reaches a client it is not for (`DeliveredOnlyToAudience`), over reconnects, shedding and daemon crashes |
| `hub_slow_plugin` | one client, two slow plugins, room for two subscribers, MaxSeq 3 | in order and nothing twice while a publish is parked and clients replay meanwhile (`FramesInOrder`), and every publish finishes (`PublishesFinish`) |
| `jobs_one_worker` | one worker slot, two spawns, a conversation that may be deleted, three rows, two writes | no write is forgotten (`NoUpdateForgotten`), budgets hold (`WithinRetryBudgets`), over hangs, kills, stops, retries, deferrals and postponements |
| `jobs_overlap` | two workers at once, one row | a claim is exclusive (`ClaimExclusive`), settled rows stay settled (`TerminalIsFinal`), every job ends that is not postponed for ever, as long as a worker drains the queue (`JobsSettle`), and one worker remains (`SoleDrainer`) |
| `channel_retry` | one event of a Slack message, a Telegram message or a slash command, two segments, two attempts, one crash, one foreign turn, one replay | segments go out in order and once per fault (`PostedInOrderOnce`), a second reply needs a turn that a crash or a throw at the turn boundary made unrecognisable (`OneReplyPerMessage`), contention burns no attempt (`DeadLettersHaveFailed`), every stored event is answered or given up (`EventsSettle`) |
| `channel_siblings` | two events of one Slack message or of one slash command, one segment, one crash | a message with an idempotency key is answered once altogether unless a turn left its user row without a reply, a slash command once per event and per answer forgotten (`OneReplyPerMessage`), nothing settled untold (`DeliveredIsComplete`), the refinement (`KeepsPromise`) |
| `channel_stranded` | one event, one segment, one crash | violation, see below |
| `schedule_crash` | one one-shot of mode execute or wake (a run row before the work, or after it), one retry, two deaths of worker or daemon, one lease or tool reload, two failures | one success per fault (`SucceedsOncePerFault`), settled is final (`SettledIsFinal`), given up only with the budget spent (`GivesUpAfterBudget`), it settles (`OneShotsSettle`), a boot releases what a crash left firing (`BootReleases`) |
| `schedule_overlap` | two workers, a one-shot wake and a recurring script, one edit by the user | no occurrence is held twice (`ClaimedOnce`) |
| `workflow_resume` | a three-way fan-out, then checks that depend on which leaves failed, then a summary; two at a time, cap 5, two crashes, two leaves that fail or abort unasked | `NoLeafOutlivesItsRun`, `JournalAgrees`, `CapSpansRestarts`, `WorkIsNotRepeated`, `CompletedMeansWhole`, `RunsEnd` |

Why the bounds are enough: a block of 2 and MaxSeq of 7 give three
reservations, so a crash can fall before, at and after a block boundary and a
third process can start from what the second left.  A ring of 2 overflows at
the third event.  A high-water mark of 2 is reached by two unread frames.
Three rows allow one settled, one running and one pending row of the same key,
the most that coalescing needs, and a lane budget of two lets a tick claim two
rows of one group, so that a billing block defers a row that never ran.  Two workers are the smallest overlap, and one
row is what they compete for; the two safety properties of that run are proved
for any number of workers and rows.  Attempts and deferrals of 2 make both
sides of each budget comparison happen.

Two segments are the fewest that can go out of order or be resumed in the
middle, and two attempts the fewest with a retry.  One replay starts the budget
afresh after it was spent.  Two events are the siblings of one message, and one
segment is enough there, because ownership is decided before the first one.
In `schedule_crash` two failures spend a budget of one retry, and two deaths
allow the worker to die with a claim and the daemon to die in the middle of
recovering it.  Six leaf calls against a cap of 5 hit the cap at the last call
of a run without failures, and earlier when a resume repeats leaves.  Two failures
give every branch of the script.  Two crashes give a resume of a resume.

Every property of a passing run has a mutant in `PROJECT.json`: a changed
definition (a dropped guard, an off-by-one, a missing reset) kept next to the
original and marked `Mutant`, under which TLC finds the property violated.
Mutants are used by no action.

### Where the code and its documentation disagree

One run checks what a comment of the repository says, and TLC finds a
counterexample.

`channel_stranded`: `background-dispatch.ts` stores the reply id before it marks
the event processed and says why: an event that becomes eligible first "would
be skipped by that step and never deliver".  The retry sweep writes in the
other order.  A crash between its two writes leaves a processed row without a
reply id, which `recoverStrandedDeliveryEvents` does not select.  `EventsSettle`
names this state (`Unseen`) as its only exception.

Further statements of the repository hold only under a restriction.  They have
no run of their own; the passing runs make the restriction explicit in the
instance or in the property.

- `NoReissue` needs a reservation file that can be written.  With
  `WriteFaults = TRUE` TLC re-issues a seq: the floor at startup knows only the
  seqs that reached `conversations.seq`.  The comment inside
  `reserveSeqCapacity` admits this, the header of the file does not.
- A replay from an emptied ring answers an empty tail as complete;
  `ReplayComplete` is about a ring that is not empty.
- `FramesAboveCursor` needs callbacks that settle at once.  With a slow plugin
  a client that reconnects twice receives the held-up live copies of events at
  or below the cursor it presented, because the replay mark belongs to one
  connection.
- `FramesInOrder` does not hold of a hub to which events are forwarded, so
  `hub_slow_plugin` and the theorem on order are about one without (`Forwarding =
  FALSE`).  `assistant-event-hub.ts` says of the promise chain that it
  "serializes publishes so subscribers always observe events in send order", but an
  event that a worker process forwards over IPC is stamped like any other and
  published without joining the chain.  While a broadcast stamped before it is held
  up at a plugin, it overtakes the broadcast, and a client that the broadcast has
  not reached yet gets the later seq first.  TLC finds this as soon as
  `hub_slow_plugin` is given forwarded events.  A slow plugin is not the only way to
  lose the order: with two clients of which only one is targeted, a publish of the
  chain that starts while a forwarded one is between two awaits reaches the later
  subscriber first.
- `NoEventLost` needs clients whose headers add no capability.  The identity
  that filters the replay (`replaySubscriberFor`) lacks the header-claimed
  capabilities of the live subscription.  It also needs events that name no
  target client: such an event ignores the conversation scope live, and the
  replay filters it by scope.  The theorem states this as the hypothesis
  `ReplaysAlike`.
- `OneReplyPerMessage` counts per event where a message has no idempotency key,
  and for a keyed message it excepts turns that left a user row unanswered: the
  sweep runs such a message again without the key, once for every sibling event.
  A slash command (`/clean`, `/compact`, an unknown one) is written without the key
  on every channel and is compared with none: announced twice, it is answered
  twice.  And `runAgentLoop` may throw at the turn boundary after the reply row was
  written: a message without a key is then answered again by the retry, with no
  crash.  The property counts such turns (`rework`) as it counts those that a
  crash forgot.
- `JobsSettle` is about a queue that some worker keeps draining: the memory worker
  is spawned when a daemon starts and has no supervisor, so nothing brings back one
  that died.  A job may end as failed with its budget unspent (a fatal error, the
  watchdog, a cancel).  And it does not hold for a job that is postponed for ever:
  `rescheduleMemoryJob` spends no budget, and is documented to do so.
- `CompletedMeansWhole` is about calls that the cap or an abort of the run stopped.
  `engine.ts` also throws the abort sentinel when a leaf's own provider rejects with
  an abort error.  No flag remembers that, so a script that swallows it completes
  with a hole in its result, as it may after a failed leaf.
- `NoUpdateForgotten` needs one worker alive at a time.  With two, TLC finds that
  the late return of the first completes a row that its successor has reset and
  claimed again for a newer version: nothing durable stands for that version
  while the successor runs.  The run has one worker slot, the theorem the
  hypothesis `OneWorker`.
- `TerminalIsFinal` is about rows that are settled.  A late return settles
  a row that a successor has claimed again, since the guard compares the status
  only.
- The watchdog of the job queue runs at the start of a tick, and a handler that
  hangs in the worker's own tick keeps the next one from starting.
- `schedule-recovery.ts` calls every firing or running row it finds
  "definitively stale".  The schedule worker outlives the daemon, so the row may
  belong to a live execution, and the job then runs twice.
  `SucceedsOncePerFault` counts such a recovery as a fault.
- The workflow cap carries over a restart but for the launches that no flush had
  written: counters are written when a leaf succeeds, not when it starts.
  `CapSpansRestarts` subtracts them.

Observations from modelling that no property states: the claim of a deferred
schedule is re-enabled even if the user disabled it meanwhile; the retry of the
final occurrence of a bounded recurrence stays disabled and is never claimed;
a recurring wake that succeeds never clears its retry count; busy wakes and
failed wakes share one count; a one-shot disabled while firing, with no run row,
is not found by recovery; the respawn by the watchdog runs no recovery; an event
whose daemon died before its payload was stored stays pending, and its
redelivery is dropped as a duplicate; of two siblings in flight at once both may
post, because a delivery still pending does not count as an owner.

### Deadlock

Deadlock is checked in the stream, hub and `JobsOverlap` configurations.  In
the others the system may rest: once the restarts of the model are used up, a
hung handler of the job queue leaves nothing to do; a channel has nothing to do
when its events are settled, the scheduler when its jobs are settled or
exhausted, a workflow run when it has ended.

## 4. Fairness

`HubFairSpec`: weak fairness of the steps of a publish (the event loop runs
queued continuations) and of a parked callback settling.  The second is an
assumption about plugins: the code has no timeout there, and without it
`PublishesFinish` is false.

`JobsFairSpec`: weak fairness of every event-loop step of a live worker, of the
two halves of an enqueue, and of the timeout; strong
fairness that a row that is repeatedly selectable is selected by some tick,
because the SELECTs order by `runAfter` and a waiting row gets to the front.
Nothing is assumed about spawns, kills, stops or writes: the memory worker is
spawned when a daemon starts, and no daemon has to, so `JobsSettle` names the
condition that a worker drains the queue again and again.

`ChannelDelivery`: weak fairness of the handler, of admission, of the turn and
delivery steps of each worker and of the steps of a sweep (the event loop runs
what is ready, and a turn has timeouts), of the end of a foreign turn and of the
two recovery steps (the monitor runs them on every boot); strong fairness that a
sweep picks up an event that is retryable again and again, because the sweep's
timer fires for ever and a backoff passes.  Nothing is assumed of new events,
crashes or the operator.

`Scheduler`: weak fairness of the worker's statements, of the end of an
execution (whatever its outcome), of the watchdog's respawn, of the tool surface
settling, of the daemon's boot, of the clock and of the lease (it has a time to
live).  Nothing is assumed of the user, of failures or of crashes.

`Workflow`: weak fairness of the engine's steps, of a leaf ending in some way
(its provider call has a timeout), of giving the slot back, and of the restart
of a dead daemon by its supervisor.  Nobody has to start, abort or resume.

## 5. Proofs

All theorems hold for every value of the constants that satisfies the named
assumptions (`BlockAssumption`, `RingLimitAssumption`, `MaxSeqAssumption`,
`FaultsAssumption`, `HubAssumption`, `WorkerSlotAssumption`, `JobsAssumption`,
`ChannelConstants`, `SchedulerConstants`, `WorkflowConstants`).  These bound
counters from below, keep sets of names apart, give the identities of clients
their fields, and make the workers of the scheduler and the events of a channel
finite sets.  The other hypotheses are part of the statements that need them:

- `SoundFile`: reads and writes of the reservation file succeed;
- `ReplaysAlike`: what the live filter takes for a client, its replay filter takes
  too.  It is true in both hub configurations; it is false for a client whose
  headers add a capability, and for an event that names a client subscribed to
  another conversation;
- `~Forwarding`, `Plugins = {}`: no event is forwarded past the chain, no plugin
  callback can be slow.  Section 3 says what goes wrong without them;
- `OneWorker`: no two memory workers are alive at once;
- `ScriptOK`: whatever a workflow script has been told, what it passes to a host
  call is a list of leaf calls;
- `DistinctCalls`: undisturbed, the script makes no leaf call twice, so that a
  prompt names a call.

`StreamStateProofs`

| Theorem | Says | Argument |
|---|---|---|
| `StreamTypeCorrect` | `StreamSpec => []StreamTypeOK` | inductive as it stands |
| `ReservationPreventsReissue` | sound file implies `[]NoReissue` | `ReservationInv`: the file's ceiling is at or above every seq and anchor of the past, a process that has loaded it holds the same ceiling in memory, and its counter is above everything stamped and at most one past the ceiling. `NoReissue` alone is not inductive: it says nothing about the seq to come |
| `RestartGapIsBounded` | sound file implies `[]BoundedRestartGap` | `GapInv`: the ceiling on disk is less than a block above a seq some event carries (or 0). The property speaks of the counter, which a crash resets; the file is what survives. The startup floor never raises the counter here, since with a sound file the loaded counter is above every anchor |
| `AnchorsAreSafe` | sound file or floor implies `[]CounterAboveAnchors` | from `ReservationInv` in the first case, from `FloorInv` (a process serves exactly when it has loaded the reservation, and is then above the anchors) in the second |
| `ReplayIsComplete` | `[]ReplayComplete` under every fault | `ReplayInv`: the ring is a suffix of what the process stamped, and `firstStampedSeq` bounds it from below |
| `StampsStayAboveAnchors` | `[][...]` : no stamp at or below an earlier anchor | action property, from `FloorInv` |

`SseHubProofs`

| Theorem | Says | Argument |
|---|---|---|
| `HubTypeCorrect` | `HubSpec => []HubTypeOK` | part of `BaseInv`, below |
| `EventsStayInTheirAudience` | `[]DeliveredOnlyToAudience`, with no hypothesis | `AudienceInv`: a frame is the seq of an event of this process that is for the client. The property follows because no two events of a process share a seq (`StampInv`) |
| `NothingOwedIsLost` | `ReplaysAlike` implies `[]NoEventLost` | `MarkInv`: the replay mark stands for frames that were enqueued, so that what the mark drops is already there. Without it the callback could drop an event nobody delivered |
| `ConnectionsCarryEventsInOrder` | `~Forwarding` implies `[]FramesInOrder`, however slow the plugins are | `LaneInv`: one publish runs at a time and the chain is in the order of the seqs. `OrderInv`: whatever is on its way to a client is above all its frames, or is dropped by the mark |
| `FramesStayAboveCursor` | sound file and no plugins imply `[]FramesAboveCursor` | `CursorInv` on top of `ReservationInv` of `StreamStateProofs`: what a client has read is a seq that was issued, so a loaded counter is above it and nothing on its way is at or below it |

All of them rest on `BaseInv`: `ReplayInv` of `StreamStateProofs`, the types,
`SubsInv` (subscribers are distinct, a client in the list has an open connection),
`RunInv` (who a publish still has to visit) and `StampInv` (what is queued was
stamped by this process).  The steps of the hub are first summarised by what they
do to the publishes, subscribers and connections (`Summary`, `Moved`), and each
invariant is shown for the summaries.  Selecting and sorting are handled by rank:
the position of an element is the number of those not above it (`RankFacts`,
`AscendingFacts`, `KeepFacts`).

`MemoryJobsProofs`

| Theorem | Says | Argument |
|---|---|---|
| `JobsTypeCorrect` | `JobsSpec => []JobsTypeOK` | inductive as it stands |
| `ClaimsAreExclusive` | `[]ClaimExclusive` for any number of workers | inductive with the types; a step keeps a claim, overwrites it (and disowns the former holder) or settles the row (and disowns everybody): `OwnKept`, `OverwriteDisowns`, `SettleDisowns` |
| `SettledRowsStaySettled` | `TerminalIsFinal` | every step changes a row by one of a few row steps, each guarded on a status that is not terminal: `RowStep`, `SettleRow` |
| `BudgetsBoundRetries` | `[]WithinRetryBudgets` | `BudgetInv`: attempts and deferrals of a row that may still run are below their limits, and a row that does not exist yet has used neither |

`MemoryCoverageProofs`

| Theorem | Says | Argument |
|---|---|---|
| `UpdatesAreNotForgotten` | one worker at a time implies `[]NoUpdateForgotten`, for any rows, keys, groups and budgets | `CoverageInv`: tasks exist only in a running tick of a live worker (`IdleInv`); a group is executed one row at a time (`SerialInv`); a row that is held is owned or settled (`HeldInv`); the index holds what an execution has written to it (`WrittenInv`); and while an execution may still write a version that is out of date, the latest one is waiting (`StaleInv`). The property alone is not inductive: the index may be current while a handler that read an older version is about to overwrite it. `Yields` and `Done` say what a step must do with a row that stands for the latest version |

`ChannelProofs`

| Theorem | Says | Argument |
|---|---|---|
| `ChannelTypeCorrect` | `[]ChannelTypeOK` | `BoundInv` carries the retry counters, which stay below the budget while a row may still be tried |
| `RowsKeepThePromise` | `Spec => KeepsPromise`: the refinement of `DeliveryPromise` | every step, action by action, moves `Promised` of one event by one step of the promise or leaves it alone. It needs to know in which states a worker meets a row: `PhaseInv` = `RowInv` (which columns a row may have together), `QueueInv`, `LiveInv` and `SweepInv` (what the row looks like at each place of the live flight and of the sweep) and `ApartInv` (an event is in one pair of hands at a time) |
| `DeadLettersReallyFailed` | `[]DeadLettersHaveFailed` | `FailInv`: every attempt on record since the last replay was a failure, so that contention and deferrals cost none |

`ChannelReplyProofs`, on top of `PhaseInv`

| Theorem | Says | Argument |
|---|---|---|
| `RepliesArePostedInOrder` | `[]PostedInOrderOnce` | `PostInv`: what is counted or sent is out, in order, and what is out is on the record of an event or excused by a fault. It needs `LinkInv` (a row names turns of its own message and counts the segments of one of them) and `UserInv` (what a worker knows of its turn at each place, and that nobody else knows a turn in progress) |
| `DeliveredMeansTold` | `[]DeliveredIsComplete` | `DoneInv`: the property, with a sibling that still has something to deliver as the exception instead of one that merely failed |
| `RepliesAreNotRepeated` | `[]OneReplyPerMessage`, slash commands and throws after the reply included | `KeyInv`: a keyed message that is no slash command has one keyed user row, and a second row only after that one was left without a reply. `AnswerInv`: every reply has an event that will not ask for another, or a crash or a throw at the turn boundary forgot it (`Forgets`), or the key stands for it. A command's answer has only its event to stand for it, from `AnswerCommand` on |

`SchedulerProofs`

| Theorem | Says | Argument |
|---|---|---|
| `ClaimIsExclusive` | `[]ClaimedOnce` for any number of workers | `StampInv`: the stamp of a claim is neither that of the row nor that of any other holder; a stamp nobody holds exists because there are two more stamps than workers. `OnceInv`: a one-shot that is held and was never cut off is firing and has one holder |
| `OneSuccessPerFault` | `[]SucceedsOncePerFault` | `CountInv`: successes, executions that may still succeed, the row if it can be claimed and the recoveries still to be applied add up to at most one more than the faults. The property counts only the first of these |
| `SettledStays` | `SettledIsFinal` | action property: every write of a status is guarded on `firing` or needs an active row |
| `SchedulerTypeCorrect` | `[]SchedulerTypeOK`: the types, and a retry count that is never above failures plus faults | `DebtInv`, the ledger of a job: its retry count and the charges still to come are paid for by its failures and faults. To come are those of a worker whose run has failed (`Failing`), of a recovery for what it has on its list or will find with nobody at it (`Stale`), for what it has in hand (`Charging`), and for a one-shot left firing without a run (`Stranded`). `ReadInv`: a count that was read and is about to be written back one higher is paid for as well, whatever was written since. The property counts only what has been charged, and says nothing of a run that is open |
| `GivesUpOnlyAfterBudget` | `GivesUpAfterBudget` | action property, from `KnownInv`: a retry count somebody has read is paid for however stale it is, and so is the failure beside it that the decision is about |

Every worker step is first summarised by `Effect(w, v)`: what becomes of the
worker, of the one row it writes and of its run.  The invariants are then shown
for these summaries instead of for each statement.  `Books(w)` is the same for
the ledger, with `TidyInv` (only tracked jobs have runs, a worker that is not at
a job names none); `LedgerStep` does it for all other steps, and asks of each
only that it pays for what it adds to the debt.

`WorkflowProofs`

| Theorem | Says | Argument |
|---|---|---|
| `WorkflowTypeCorrect` | `[]WorkflowTypeOK` | `TypeInv` |
| `LeavesStayInside` | `[]NoLeafOutlivesItsRun` | `LeafInv` (a leaf is a running task of the pool) and `EngineInv` (the engine works only under a live daemon, with the slot held and a row that says running) |
| `CapHolds` | `[]CapSpansRestarts` | `CapInv`: the launches that are not lost are those the counter knows |
| `CompletedIsWhole` | `[]CompletedMeansWhole` | `StopInv`: the cap or the abort that stopped a call stays remembered, whatever the script catches |
| `JournalIsFaithful` | `[]JournalAgrees` | `JournalInv`: calls are numbered in order, so that the pool writes above the entries of every call that has returned |
| `WorkIsDoneOnce` | a script of distinct calls implies `[]WorkIsNotRepeated` | `RepeatInv`: as long as no leaf has failed or aborted of its own, an execution that nothing stopped is where the undisturbed one would be (`TrackInv`), so a resumed call has the seq of the first one and finds its journal entry (`PlaceInv`); work that was done and not cut off is in the journal (`OnceInv`). The agreement of two executions is an induction over the length of the answers, done through a set of numbers (`SetInduction`, from the least element of a set of naturals) |

The strengthenings were checked by TLC on the instances of the runs before they
were proved.  Proofs changed the models and properties four times.  The `CASE` of `FindBusy` in
`Scheduler` had two arms that could be true together, which TLA+ leaves open; it
is an `IF` now, in the order of the code.  `OneReplyPerMessage` used to promise
one reply per message and crash; the attempt to prove it showed that this is
false for three sibling events of a keyed message, and for siblings without a
key, and it now says what the code does.  `SseHub` selects by positions instead
of by recursive operators; the states TLC finds are the same.  `SchedulerTypeOK`
bounded the retry count by a number that is right for two workers only, and
`GivesUpAfterBudget` took it for granted that the budget of busy wakes is not the
smaller one; they now bound the count by what happened to the job, and name the
budget (`Budget`), for any workers and budgets.

Model-checked only: liveness (`PublishesFinish`, `JobsSettle`, `SoleDrainer`,
`EventsSettle`, `OneShotsSettle`, `BootReleases`, `RunsEnd`), since fairness is
out of the prover's reach.  Every invariant and action property that a passing run
checks is also a theorem, some of them under the hypotheses listed above.  For some
hazards the theorem is the wider statement: `NothingOwedIsLost` and
`ConnectionsCarryEventsInOrder` cover connects between a stamp and its publish with
any clients and slow plugins, `EventsStayInTheirAudience` identities whose headers
claim capabilities, and `UpdatesAreNotForgotten` groups and lane budgets of any size.

## 6. What is left out of the modelled components

- Stream state: bytes and clock of the eviction (any suffix may be kept).
- Hub: anonymous connections, plugin publishes that carry no seq, the
  principal self-heal, listing and touching clients; a client is a cursor that
  follows the frames it reads.
- Jobs: the mode that claims only lexical jobs while memory is off, the drop of
  retired job types, payload merging, maintenance enqueues; breakers, lease and
  `runAfter` are choices of the tick.  A group whose promise rejects has the
  effect of an error handler that throws, and is that action.
- Worker slot: the supervisor of the schedule and monitoring workers, PID reuse;
  reading and unlinking the PID file is one step; a reclaim is a stop or a kill
  followed by a spawn.
- Channel: live streaming into Slack, where a retry edits the streamed message in
  place; rows without a reply callback; `acknowledgeDelivery`, which nothing
  calls; edits, reactions and attachments; the gateway's own duplicate cache.
- Scheduler: schedules supplied by plugins, deletion and changes of the
  expression, run-now, the disk-pressure gate, failing SQLite statements,
  watchers; open runs have no ids, so a run left open by a dead worker and a later
  one of the same job in the same worker slot are one row, and so are the rows that
  recovery itself inserts for a job; rows that cannot run at all (they are skipped; a one-shot of that
  kind stays firing until a boot).
- Workflow: nested `workflow()`, the cap on concurrent runs, the persona gate,
  tokens, pruning of old runs, runs that a schedule starts.

### Not modelled

The other components of `PROJECT.json` are not modelled, each with its reason
there.  The larger ones are the conversation loop with its surfaces, live voice
and calls, the gateway and the desktop and web clients.  They are many times
the size of what is modelled, and most of their lines are rendering, formatting
and glue around external services with little state of their own.  The part of
them that is a protocol is in the plan below.

## 7. Plan

1. Persisted anchor, turn flush and web stream client on top of `StreamState`:
   "every event of a conversation is applied exactly once, in order" and the
   snapshot-plus-tail protocol as its refinement.
2. Breakers of the embed lane, composed with the claim of `MemoryJobs`;
   heartbeat, which repeats the pattern of the scheduler; `Workflow` started
   from the worker of `Scheduler`.
3. Conversation queue and pending interactions; the PID file read and unlink as
   two steps, with the supervisor of the other workers.

## 8. Running the checks

    tlc -workers 2 -config JobsOverlap.cfg MCMemoryJobs
    tlc -workers 2 -config ChannelSiblings.cfg MCChannelDelivery
    tlc -workers 2 -config ScheduleCrash.cfg MCScheduler
    tlc -workers 2 -config WorkflowResume.cfg MCWorkflow
    tlapm StreamStateProofs.tla
    tlapm SseHubProofs.tla
    tlapm MemoryJobsProofs.tla
    tlapm MemoryCoverageProofs.tla
    tlapm ChannelProofs.tla
    tlapm ChannelReplyProofs.tla
    tlapm SchedulerProofs.tla
    tlapm WorkflowProofs.tla

`PROJECT.json` names the module of each configuration.  `ChannelProofs` takes
about ten minutes, `SchedulerProofs` four, `SseHubProofs` three, the others one or
two.
