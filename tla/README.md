# TLA+ specification of vime

vime trains a language model by reinforcement learning: a driver (`train.py`)
loops over *rollouts*; vLLM engines generate samples, a manager turns them into
a training batch, Megatron actors train on it, and the new weights go back to
the engines.  Several processes and threads hand the same prompt groups,
batches, checkpoints and weights to each other, each of them may stop at any
point, and the batch is cut over ranks by index arithmetic that leaves no trace
when it is off by one.  Tests hardly reach these.  This project models that
control and that arithmetic, checks them with TLC on small instances, and
proves central safety properties with TLAPS.

Paths below are relative to the repository.

## 1. Inventory

| Component | State it keeps | Operations | Talks to |
|---|---|---|---|
| Driver: `train.py` | `rollout_id`, `was_paused` | generate, train, report completion, pause admission, save, update weights, resume admission, dispose | manager, trainers, serving owner (Ray calls, one outstanding) |
| Attachment: `vime/ray/placement_group.py` | `RolloutStartup` of one attempt | create or find the serving owner and the manager, attach, create models, close | serving owner, manager |
| Serving owner: `vime/ray/serving.py` (`ServingCluster`, detached) | engines, placements, `attachments`, `driver_job_id`, trainer handles, health monitors, queue controller | validate and attach a driver, register and release trainers, detach, recover engines, dispose | everyone |
| Manager: `vime/ray/rollout.py` (`RolloutManager`, detached) | data source, batch builder, recovery, admission flag | generate, eval, save, load, pause/resume admission, attach/detach training, dispose | source, queue controller, serving owner |
| Recovery journal: `vime/ray/training_recovery.py` | replay window (`batches`), checkpoint boundary, `loaded`, incarnation, journal file, storage pins | open, persist, remember raw and converted, reconcile with queue and checkpoint, release | storage, queue controller, checkpoint directory |
| In-process async rollout: `vime/rollout/fully_async_rollout.py` | `paused`, `admission_paused`, `active`, `error`, output queue, tasks in flight | event loop, top-up, callbacks, pause/resume, snapshot, close | data source, manager thread |
| Data source: `vime/data/data_source.py` | cursor, buffer, registered consumers | get, add, save, load | async worker, manager |
| Queue controller: `vime/data/queue_data_source.py` | task log, leases, accepted results, planned and ready batches, training state | take, complete, reject, return, recover readers, plan, ready and finish a batch, snapshot, restore, rewind | readers, manager, batch builder |
| Batch builder: `vime/data/batch_builder.py` | `batch_id`, plan, lease | begin, convert, publish, split, complete, save, load | queue controller, storage |
| Joint checkpoint: `vime/data/checkpoint.py`, `vime/data/rewind.py` | committed manifests, latest pointer | save, commit, select, resolve, rewind | driver, manager, file system |
| Distributed scheduler: `vime/rollout/fully_async_distributed.py` | per-worker outstanding calls, running workers, rebuffered groups | start, next, retire, pause, resume, close | generation actors, queue |
| Payload transport: `vime/data/transport.py`, `codec.py`, `tensor.py`, `archive.py` | manifests, leases, pins | pack, publish, retain, release, accept | storage service |
| Weight update: `vime/ray/actor_group.py`, `update_weight_from_distributed.py` | weight version, connected engines, markers of new engines | connect, pause, install, label, resume | trainers, engines, serving owner |
| Weight update through disk: `update_weight_from_disk.py`, `update_weight_from_disk_delta.py`, `vime/utils/disk_delta.py`, `weight_sync.py`, `docker/patch/latest/vllm-pull_weights.patch` | published directories, snapshot of the last publication, local checkpoint and version of each host | publish, pull, reload, label | trainers, engines, shared file system |
| Health monitor: `vime/utils/health_monitor.py`, `vime/backends/vllm_utils/engine_group.py` | engine liveness, pause flag | check, kill, recover | serving owner, engines |
| Synchronous rollout: `vime/rollout/vllm_rollout.py`, `vllm_streaming_rollout.py` | process-wide `GenerateState`: `pendings`, `remaining_batch_size`, `aborted`, streams that can be cancelled, requests in flight | sample, generate, score, filter, abort, reset, hand prefixes back | data source, engines, manager |
| Batch schedule: `vime/utils/dp_schedule.py`, `seqlen_balancing.py` | cursor of each rank over its micro-batches | pack, split, balance, replay | batch builder, trainers |
| Context-parallel layout: `cp_utils.py`, `data.py`, `loss.py` in `vime/backends/megatron_utils` | none | cut, mask, shift, redistribute, reduce | trainers |
| Trainers and kernels: rest of `vime/backends/megatron_utils` | model and optimizer | train, save, load | driver |
| Agents, reward and filter hubs, observability, plugins, tools, examples | none that the parts above read | user code and reporting | |

### What is hard here

* **Crash and restart.**  Driver, manager, serving owner, trainers and engines
  fail separately.  A batch is known to the queue, to the manager's memory, to
  the journal file, to the storage pins and to the checkpoint, and each is
  written at a different time; so are the parts of a checkpoint and the files
  of a weight version.
* **Calls whose reply is lost, or that come late.**  The queue accepts a
  collection, or a checkpoint is committed, and the manager dies before it can
  note it; a call of a killed process is served after its successor attached.
* **Threads and coroutines.**  The event loop of the async worker tests
  `paused` and takes a prompt in two steps, while the manager thread pauses,
  snapshots and resumes; a health check runs beside the calls that change the
  engines; an abort meets samples between their permit and their request.
* **Messages out of order.**  Generation actors answer a scheduler that may
  have restarted them.
* **Order of durable effects.**  Storage may go only after the journal that no
  longer lists it is on disk; a checkpoint counts only after all its parts; a
  difference may be applied once, to its own base.
* **Off by one.**  Zigzag and concatenated layouts cut the same tokens in
  different places, rows predict the token after their own, and routing data
  has one row less than there are tokens.

`PROJECT.json` lists these hazards line by line, with the property that would
catch each.

## 2. Modules

`TrainingRecovery` - recovery of training attempts over retained data (straw
transport).  It composes the driver's loop, the attachment, the manager's calls
into `TrainingRecovery`, the batch builder's three queue commits and the joint
checkpoint.  State, in the module's order: the serving owner (`session`,
`attachments`, `reused`), its queue reduced to the three facts recovery asks
for (`accepted`, `ready`, `finished`), durable storage (`pins`, `journal`,
`committed`), the manager (`managerAt` is the next step of its running call,
`memory` the fields that `persist()` writes, `released` the batches dropped
whose storage is still held), and the driver.  Each durable write is an action
of its own: `RememberRaw`, `RetainRaw` and `PersistRaw` are the three effects
of `remember_raw` in their order, `DropBatches`, `PersistBoundary` and
`ReleaseStorage` those of `checkpoint_committed`.  Between any two of them the
call may raise (`CallRaises`), its manager die (`ManagerDies`), the driver die
(`DriverDies`: the call goes on, nobody waits for it) or the whole job stop
(`SessionLost`: only files survive).  A batch is its rollout number; data,
configuration checks and the trainers are abstracted.  `memory.origin` is the
one ghost: the session whose queue a window describes.

`AsyncWorker` - the in-process fully-async rollout: two threads, the event
loop's agenda of callbacks and wake-ups, the source's cursor and buffer, the
worker's flags, and the manager in the order in which `train.py` calls it
(generate, recovery snapshot, pause, optional save, weight update, resume).
A step is what runs between two points where the other thread may get in.

`RolloutScheduler` - the distributed fully-async rollout.  Three kinds of
process: the manager thread (`Generate`, `Collect`, `PauseCall`, `Resume`,
`Close`, and `RolloutManager.save` around `state_dict`), the collector thread
(`Dispatch` decides under the condition which `start`, `pause` and `next` calls
to send; `HandleControl` and `HandleResult` take the answers that `ray.wait`
reports, controls first), and the generation actors, whose methods are asyncio
coroutines that interleave at their awaits (`StartRuns`, `PauseRuns`,
`NextTakes`, `NextWoken`, `NextReturns`, `Put`, `ProducerEnds`).  An actor may
die at any step; its results are then recovered from the queue (`Retire`,
`Recovered`).  A group is its number; how far its generation got is its phase.

`RolloutQueue` - the queue controller over its straw log, while the controller
lives.  State: the dataset cursor, the tasks with their leases, the log of
accepted results, the training cursor, and the sets of active and retired
readers; each reader process; the manager with its ready list, the batch it
collects, its journal (reduced to window, boundary and the generation that
wrote it).  A reader's `take` is two steps (`Ask`, then `Acquire` or `Refill`),
because the test for retirement and the acquisition are not under one lock; how
straw itself treats a worker it has retired is external, so the model assumes
the least.  `ManagerDies` may come at any step, also while a new manager fences
(`FenceReader`) and delivers (`Deliver`) what its predecessor left.

`PromptDelivery` - the abstract specification of the worker's and of the queue's
delivery: a prompt group is read once, moves between open and accepted, and ends in one batch or is
dropped.  `RolloutQueue!DeliveredOnce` and `AsyncWorker!DeliveredOnce` are the
refinements: the two ways of feeding rollouts promise the same.  In the worker a
prompt is *accepted* while the rollout under way keeps it.  The queue's mapping
computes a group's place from its tasks and the log alone: *unread* without a task,
*open* with a pending or leased task, *dropped* if a task failed, *batched* if
a collection of the log holds one of its results, *accepted* otherwise.  The
batches are those of the rollouts that have collected, in their order.  A prompt that is
delivered twice, two versions of a group in one batch, or a group both dropped
and trained on is a step the abstract specification does not have.

`JointCheckpoint` - the joint checkpoint of model and queue, and the restarts
that select one.  Every file write of a save (`SaveModel`, `MegatronTracker`,
`SaveCursor`, `SaveQueue`, `SaveBuilder`, `SyncModel`, `WriteCommit`,
`WriteLatest`) and of a rewind (`ResetJournal`, `SubmitCursor`, `SubmitInputs`,
`DiscardFuture`, `DiscardTracker`, `FinishRestore`) is an action, and a job may stop
between any two; payloads that were not synced may then be torn.  Two launches
overlap: a checkpoint is resolved without a lock and used under one.  A model
is the number of times each prompt was trained into it, which is what makes
"model and queue describe one boundary" a formula.

`Serving` - the detached serving owner, the monitor thread of each server
group, and the attempts that attach, publish, generate and detach.  The owner
serves one call at a time (`call`, `inbox`); driver and trainers of an attempt
fail apart, so calls of killed trainers may still be served (`MaxLate`).  The
check lock of a monitor is held by its thread or by the owner, and a wait for it
may time out.  An engine is empty, live or dead.

`DiskWeightSync` - publication of weights as full checkpoints or differences
in a shared directory, the pull into a checkpoint of each host, and the reload.
A pull is one step per tensor and per write of the version file.  Trainers and
engines die between any two steps; a new trainer restores older weights.

`DpSchedule`, `CpLayout`, `TrainBatch` - from samples to the terms of the loss.
`DpSchedule` is `build_dp_schedule` with first fit, splitting and the
Karmarkar-Karp partitioning as operators, and the passes of the ranks over the
result as actions.  `CpLayout` says of every rank which token each row, mask
entry, label, log-probability, nucleus and route belongs to; values are left
out.  `TrainBatch` composes them and states the properties.  The packing part
(`Pack`, `StepMbs`, `RankMbs`, `Place`) was also compared with what the Python
`build_dp_schedule` returns for 5,184 of the jobs of the run: they agree on
all, on the 1,944 refused ones too.

`VllmRollout` - the synchronous rollout, as the tasks of one event loop: the
rollout's own task (`Begin`, `Sample`, `Wait`, `TakeGroup`, then the steps of
`abort` and `Return`), one task per group (`StartGroup`, `Gathered`,
`GroupScored`) and one per sample (`Admit`, `Reply` or `Chunk`, `Cancelled`,
`Refused`, `Score`).  A step is what runs between two awaits.  A token is the
weight version its answer arrived under, so that masks can be told right from
wrong.  The configuration (`conf`: partial rollout, masking, streaming, group
reward) is part of the state and chosen at the start.  A rollout that raises
leaves `GenerateState` as it is, and the next attempt starts from there.
`Publish` is the weight update, after training and before the first rollout of
an attempt: it pauses, loads and resumes in one step.  With
`flush_cache`, as always in the first update of an attempt, it stops what the
servers have under way (`pause_generation(mode="abort")`).  Only requests that
a failed rollout left open can meet it; their stage is then "cut", and they end
as aborted, as finished if they were so already, or refused.

`TrainingRecoveryProofs`, `AsyncWorkerProofs`, `RolloutSchedulerProofs`,
`RolloutQueueProofs`, `JointCheckpointProofs`, `ServingProofs`,
`DiskWeightSyncProofs` and `VllmRolloutProofs` - inductive
invariants of the modules they are named for, and the theorems of section 4.
`MC*` modules only instantiate constants for TLC.

## 3. Runs

| Run | Bounds | Shows |
|---|---|---|
| `recovery` | 3 rollouts, 3 attempts, 2 manager deaths, 2 sessions | `JournalReadable`, `NoRegeneration`, `FinishedRetained`, `NoRecommit`, `WindowComplete`, `TypeOK` over every placement of failures; `AttemptEnds`: an attempt fails or completes |
| `async_worker` | concurrency 2, one group per rollout, 3 prompts, 2 rollouts, 1 abort | `GroupsConserved`, `PauseTerminates` over all interleavings of the two threads |
| `scheduler` | 2 actors of one slot (interchangeable), 2 prompts, 2 rollouts, 1 abort, 1 death | `GroupsConserved`, `SaveQuiescent`: no prompt is lost or delivered twice, and a drained scheduler can be saved |
| `scheduler_pause` | 1 actor, 2 prompts, 2 rollouts, 1 abort, 1 death, 1 crash, 1 rejection | `PauseTerminates` for both kinds of pause |
| `queue` | 1 reader per manager, 2 managers, 2 rollouts of one group, 1 reader death, 1 rejection | `RetentionSound`, `RetentionReleased`, `CompletedAvailable`, `DeliveredOnce` |
| `queue_readers` | 2 readers, 1 manager, one batch of 2; one each of death, return, rejection, lease expiry, failed collection, retried attempt | `DeliveredOnce` |
| `checkpoint` | 2 overlapping launches, 2 steps, 2 prompts; 2 faults of 2 crashes, 1 restart with `--ckpt-step`, 1 damaged snapshot | `CommittedModelKept`, `JointBoundary`, `AutomaticRestart`, `RewindCompletes` |
| `serving` | 2 attempts, 2 server groups of one engine (the first shares GPUs with training), 2 versions, 2 faults, 1 late call | `OwnerKept`, `PublisherOwns`, `QuietWhilePaused`, `PublishReaches`, `RolloutServesPublished`, `EngineVersionGrows` |
| `disk_delta` | one engine on two hosts and one that shares the second; 2 tensors, xor differences, 2 training steps, 2 crashes | `ServesTrainer`, `LabelHonest`, `PullsAccepted` |
| `disk_full` | the same in full mode | a violation of `ServesTrainer`, section 5 |
| `train_batch` | schedules of 4 samples of length 2, 3 or 5, of one, two or four rollouts, over 1 or 2 ranks with every packing option; single and double micro-batches of up to 9 tokens over 1 to 3 context-parallel ranks in both layouts; both together for 2 x 2 ranks | `RanksInStep`, `StepExact`, `CapKept`, `LossCountsOnce`, `LogProbsAligned`, `RowsAligned` |
| `sync_rollout` | 6 configurations, 3 groups of 2 samples, batch 1 of 2 sampled, 2 permits, 2 tokens, 2 rollouts, 1 fault and at most 2 faults and rejections together | `BatchSound`, `AbortScope`, `EnoughAvailable`, `PrefixesSurvive` |

Why the bounds are enough.  Recovery: a window of two batches with one still
to come needs three rollouts; a reconciliation that is itself interrupted needs
two deaths and three attempts; a stale journal needs a second session.  Async
worker: two tasks in flight, a group aborted and readmitted, and a pause that
follows an earlier pause all occur.  Scheduler: with one batch slot per actor
both the full output queue and the gate on prefetch are reached, and one of two
actors may die while the other holds a group of the batch under way.  Queue: a
delivery that replaces an accepted result, gaps in the acknowledged positions,
and a lease taken over by another reader all occur; a replacement that is
itself replaced needs three managers, an instance that takes too long.
Checkpoint: one commit to fall back to and one interrupted, then an interrupted
rewind, need two steps and two faults.  Serving: a successor beside the
remains of its predecessor, with an engine that died on either side.  Disk: a
failed update, a second trainer that publishes over it, and hosts that differ.
Batches: the smallest samples that leave a rank with a short, an empty and a
full chunk, and every way of being off by one against them.  Synchronous
rollout: a prefix of one token that is resumed under other weights beside a
finished sibling, a batch whose first sampling is rejected as a whole, and an
attempt after one that raised.

Deadlock checking is off where the system really stops: an attempt that ended
and is not restarted by an operator, a closed worker or scheduler, a dataset
that is used up.  In `sync_rollout` it is on and every step but the last
consumes something (tokens, stages, rollouts), so the state graph has no
cycle: every call of the rollout returns or raises, without any fairness but
that its tasks run.

Fairness.  In `recovery` both processes keep running (`WF` on the steps of
a call and on the driver), a call to a dead actor raises, as Ray's does, and so
does a call the queue refuses.  No other failure and no operator restart is
assumed.  In `async_worker` both threads are scheduled and every generation
ends some day (strong fairness, because a task can end only while the event
loop has control): the engines have request timeouts.  In `scheduler_pause`
actors, collector and manager are weakly fair and a generation ends; the
collector's handling of an answer is strongly fair, because `ray.wait` times
out and is asked again and again, which disables and enables it.  In
`checkpoint` jobs are submitted again without `--ckpt-step` until one runs, as
the cluster's retry of a job does, and a job that holds the lock goes on with
its restore; nothing obliges it to train or to save.

Every property has a mutant: a plausible slip in the code (storage released
before the journal is written, a missing fsync, a detach that does not ask who
calls, a version counted from what is served, a chunk size rounded down, a flag
that is not tested again after a wait) written beside the operator it replaces.
TLC refutes the property for each.

## 4. Proofs

Every theorem holds for all values of the constants that satisfy the named
assumptions of its module.  The runs check the same properties on one instance.

| Module | Theorem | Property of a run |
|---|---|---|
| `TrainingRecoveryProofs` | `TypeCorrect`, `JournalAlwaysReadable`, `TrainedAlwaysRetained` | `TypeOK`, `JournalReadable`, `FinishedRetained` |
| | `NeverRegenerated`, `NeverRecommitted`, `WindowAlwaysComplete` | `NoRegeneration`, `NoRecommit`, `WindowComplete` |
| `RolloutQueueProofs` | `Retention`, `AvailableAlways`, `ReleasedAlways`, `Delivery` | `RetentionSound`, `CompletedAvailable`, `RetentionReleased`, `DeliveredOnce` |
| | `Invariance` | - |
| `AsyncWorkerProofs` | `GroupsAlwaysConserved` | `GroupsConserved` |
| | `Delivery`, `NeverTwice`, `QueueBounded`, `TypeCorrect`, `Invariance` | - |
| `RolloutSchedulerProofs` | `QuiescentAlways`, `GroupsAlwaysConserved` | `SaveQuiescent`, `GroupsConserved` |
| | `Invariance` | - |
| `JointCheckpointProofs` | `ManifestNamesItsModel`, `OneBoundary`, `RestartAccepted` | `CommittedModelKept`, `JointBoundary`, `AutomaticRestart` |
| | `SavesAccepted`, `ManifestsKept` | - |
| `ServingProofs` | `SuccessorKeepsSession`, `OnlyTheOwnerPublishes`, `NoCheckDuringUpdate`, `PublicationReaches`, `RolloutsServePublished`, `VersionsOnlyGrow` | `OwnerKept`, `PublisherOwns`, `QuietWhilePaused`, `PublishReaches`, `RolloutServesPublished`, `EngineVersionGrows` |
| `DiskWeightSyncProofs` | `EnginesServeTrainer`, `VersionNamesWeights`, `OnlyDeathFailsAPull` | `ServesTrainer`, `LabelHonest`, `PullsAccepted` |
| | `PublishedKept` | - |
| `VllmRolloutProofs` | `BatchTrainable`, `AbortReachesAll`, `NeverShort`, `PrefixesKept` | `BatchSound`, `AbortScope`, `EnoughAvailable`, `PrefixesSurvive` |

Each proof module has one inductive invariant, written as a conjunction of
named parts, and one lemma per action, with one step per part the action can
disturb.  TLC checked the invariants on the instances of the runs before they
were proved.

### Recovery

Assumption: the numbers of rollouts, attempts, deaths and sessions are
naturals, at least one rollout.  `JournalReadable` is not inductive: that
`finish_batch` may erase a batch is safe only if the journal lists its
conversion, which depends on what the manager has reconciled, on memory and
journal being equal at that step, and on where the driver is.  `IInv` says so:

* `MemorySound`, `JournalSound`: a window of this session can be read, and
  what was trained is in it or below its boundary.
* `WindowsFormed`: boundaries are commits, nothing is listed below them, an
  unloaded window is empty.
* `Unjournalled`, `FirstManager`: without a journal of this session, commits
  cover all that was trained.
* `JournalSynced`: at which steps the journal equals the memory.
* `OneCall`, `StepOfCall`: which call a step belongs to, and that only one runs.
* `Recording`, `Reconciled`, `ReadyAccepted`: what each step may rely on; no
  conversion is missing once reconciliation is over.
* `Progress`, `Waiting`: the driver's position relative to the boundary.

The order of rollouts needs more, because what an attempt may generate depends
on every commit and every batch of the attempts before it.  `Ordered` adds:

* `Contiguity`: memory and journal list consecutive rollouts from their boundary.
* `CommitsBehind`: no commit is at or after the rollout in work.  While an
  attempt attaches this rests on the reconciliation with the newest commit.
* `InOrder`: a rollout is asked for when its predecessor is listed, or it is
  the first of the window.
* `AcceptedAccounted`: the queue has accepted nothing but what a window lists,
  the next rollout, and what a commit covers.  The next one is the gap that a
  manager leaves that died between acceptance and the journal.
* `CollectionsListed`: past the reconciliation of collections that gap is closed.

### Rollout queue

Assumptions: `rollout_batch_size` and the refill size are positive.  Any number
of readers, groups, rollouts, managers, deaths, rejections, returned groups,
expired leases, retried attempts and failed collections; in `AvailableAlways`
and `ReleasedAlways` no collection fails (`MaxFailures = 0`).

* `Versions`: a group is read once, and each delivery of a recovered result is a
  newer version of its group.  All versions but the newest are completed, have
  one result, and are among the sources of every later one.
* `Collections`: a rollout collects once, from newest versions, and its plan is
  the collection with the results it replaces.  `Window`, `Stages` and `Trained`
  say how the replay window, the step of the batch under way and the boundary go
  together: the window has no gap, and a rollout below the boundary has been
  converted and acknowledged.
* `Managers`, `Restoration`, `AtWork`: a serving manager wrote the journal last,
  the readers of earlier managers are fenced, and what a new manager has
  recovered so far is free and of the generation it replaces.  `Hands` and
  `Answers`: a result in `ready`, or about to be answered, is in no batch.
* `Acknowledged`: a result is acknowledged with all it replaced.  That the new
  cursor exists (`EndOfPrefix` chooses it) is lemma `PrefixEnds`.
* `AllKept`: where no collection fails, the newest result of a group no batch
  holds is in `ready`, with a living or unretired reader, with a reader still to
  be fenced, or recovered.

`Delivery` maps a step of the queue to one of `PromptDelivery` or to none:
`Refill` reads, `Complete` accepts, `Reject` drops, `Deliver` reopens,
`AcceptCollection` collects; for every other action `Places` and `Batches` stay.
That the batches are a sequence rests on `GatheredIs`: the rollouts that have
collected are the first ones.

### Async worker

Assumptions: the concurrency is positive; the bounds on prompts, rollouts and
aborts are naturals.  Any interleaving of the two threads, any of the outcomes
of a generation.

* `OnePlace`: the tasks under way, the callbacks in the agenda, the buffer, the
  output queue and what the manager has taken exclude each other for a group,
  each sequence has it once, and only issued prompts are anywhere.  This holds
  also after an error.
* `Accounted`: while the loop lives and no task has raised, an issued prompt is
  somewhere.  A crash is the only thing that may lose one.
* `InOrder`: the agenda has one wake-up at most and none while the loop runs.
  `_loop` forgets a task when it is done, which may be before its callback has
  run; such a callback is in the agenda before the loop's resumption, so that
  the loop tops up only when every task under way is one it counts
  (lemma `AllActive`).  This is what the `sleep(0)` after reaping is for.
* `Limited`: at most `Concurrency` tasks are counted, and with the finished
  groups those under way are fewer than twice as many.  `QueueBounded` follows:
  the output queue never holds `2 * Concurrency` groups.  That is the best
  bound, TLC finds states with one less.

`GroupsConserved` needs no reasoning about who may pause when: the manager's
position is in the types only.  `NeverTwice` says what is left of it after an
error.

`Delivery` shows that the worker keeps the queue's promise, without a log
(`AsyncWorker!DeliveredOnce`).  `Admit` of a new prompt reads, `Collect` accepts
or drops, `Collected` collects; every other step leaves places and batches alone
(lemma `QuietStep`), the end of the loop thread and a failed rollout included,
and so does `Admit` when it takes an interrupted prompt from the buffer, which
was open all the time.  That what `Collect` pops is still open rests on
`OnePlace`.  TLC finds the refinement true on the instance of the run.

### Distributed rollout

Assumptions: finitely many actors, at least one slot and one group per batch.
Any number of prompts, rollouts, interrupted groups, deaths, crashes and
rejections.

* `Owned`: a prompt is claimable, rejected, leased by one reader or accepted
  from one.  `Worked`: what an actor has in its slots is its own, two slots
  never hold one group, and a dead actor holds nothing.
* `Delivered`: items between an actor and the batch are results their actor
  published, or rejected groups.  Only an answered request carries an item.
* `Noticed`: a call fails only if its actor died, and only dead actors are
  retired: no live actor is fenced and its results delivered twice.
* `Conserved`: without errors and crashes the slot, the output queue, the
  answer, the ready list and the batch exclude each other for a kept result, and
  one of them has it unless its actor is dead and not retired.  The step that
  matters is `Retired`: what `recover_reader_results` delivers is what none of
  these places has received, each result once, which includes an answer that
  was on its way when the worker was forgotten.
* `Quiet`: nobody clears `paused` while the manager waits for the drain, and
  what is quiescent stays so: the collector has nobody to tell or to ask, and
  an actor without calls answers none.

`GroupsConserved` counts places as the cardinality of a set of places, here as
in `AsyncWorker`, so that the theorems need no induction over sums.

### Joint checkpoint

Assumptions: the last step, the number of prompts and the budgets are naturals,
and `None` is neither a number, a driver nor a record.  Drivers are any set: any
number of launches overlap.  The invariant describes the files
between any two writes:

* `OneOwner`: every place after the lock is that of the launch that holds it.
* `BeyondCommits`: a job works on a step above every commit.
* `SaveHolds`: what a save has already written, which is why `sync` before
  `WriteCommit` suffices.
* `CommitSound`, `Boundary`, `Resubmitting`: committed and running state each
  describe one boundary, also while inputs are submitted one by one.
* `PlanSound`: what a plan resolved without the lock may still rely on.  A plan
  can be used only while the session file is the one it was resolved from; in
  that time a rewind target is never discarded.
* `Resumable`, `Fresh`, `SessionSound`, `Complete`: what the session file says
  of the disk, in particular which commits an unfinished rewind may still see.

`SavesAccepted` explains why `save_checkpoint` may treat an existing commit as
an error: a job never meets one.  `ManifestsKept` is about steps: a manifest is
never rewritten, only the rewind the session names removes it.

### Serving

Assumptions: `Groups` is a non-empty sequence of finite sets of engines that do
not overlap, the groups that share GPUs with training are some of them, budgets
are naturals, and drivers are numbered.  Any number of attempts, groups, engines
and faults.

* `Requested`, `Calling`: where the attempt is that sent a request or whose
  call runs; which step belongs to which method.
* `Owning`: trainers that are up are registered with the owner.  This is what
  lets `attach_training` kill them, and it makes `OwnerKept` and `PublisherOwns`
  inductive.
* `Pausing`: the monitors a pause has passed are paused and out of their check,
  unless the pause has recorded an error; hence `Quiet` when it ends without one.
* `Managed`: once an attempt is bound, manager and owner work for no other.
* `Joined`: an engine outside the trainers' group leaves a marker, and the
  marker is cleared only behind the connection that removes its reason.
* `Served`, `Growing`: engines that are routed have the published version, and
  none is ahead of the trainers that publish next.  `Growing` needs that the
  number of engines is finite, for the maximum that `Bind` takes.
* `Probed`: an engine that is to be retired still has its slot.

`PublishReaches` and the parts of `Joined` it rests on speak of states without
late calls of killed trainers (section 5, *Late clear*).

### Weight update through disk

Assumptions: delta mode (in full mode `ServesTrainer` is false, section 5);
engines, tensors and the hosts of each engine are non-empty sets; budgets are
naturals; `None` is none of the values it stands beside.  The theorems state
the mode as a hypothesis, the other assumptions are those of the module.

* `Counted`: an update beyond the number of training steps takes a fault.  So
  `Versions`, which bounds the state for TLC, is never too small.
* `Newest`, `Directory`: the version in work is above every directory there is;
  a difference goes from the version before it and names the tensors in which
  the two differ; engines are called only once it is written.
* `Called`, `Locked`: a running call belongs to this update and, unless the
  trainer has died, is waited for; a locked host is one its pull still changes.
* `Hosted`: while an update is delivered each host has its version, or the
  version before it with each tensor old or new.  Unless an engine died within
  the update, the lock tells which tensors are new, so none is patched twice:
  with the `xor` encoding that would revert it.  When the checksums of a pull
  do match, the tensors are the new ones, whatever happened before.
* `Pulled`, `Loading`: what the engines have done at each of the five calls.
* `Labelled`: a positive version an engine reports was published, and the
  engine holds its tensors when it generates.

The lemma `NextPull` says what `PullStep` returns: nothing for a host that has
the version, otherwise the one step that leads to it.  It unfolds the choice of
the seed in `_apply_delta_versions` for every chain of directories.

### Synchronous rollout

Assumptions: the groups and the samples of a group are finite, non-empty for
the samples; batch, over-sampling, permits and token budget are positive, and
`Over >= Batch`, which the arguments are validated for.  All configurations,
with any number of rollouts, faults and rejected groups.

* `OnePlace`, `Tasked`, `Staged`: a group is in one of the buffer, `pendings`,
  the results being taken, the batch and the prefixes put aside; its place tells
  how far its task is, and its task how far its samples are.  A group whose task
  does not run has gone through a rollout with all its samples (`Back`) or with
  none (`New`): this is why no step writes to a batch or to the buffer.
* `Completed`: as long as the flag of an abort is down, a task that ends has
  finished and rewarded every sample.  The batch keeps this while the abort
  runs, because it was chosen before the flag was set.  `Through` says it of one
  sample, with the exception of groups that a failed rollout left: a sample that
  the publication of the next attempt cut may end aborted.
* `Masked`: between rollouts every token in the buffer is older than the
  weights (`Old`).  `MaskOld` turns that into a mask which tells old tokens from
  new ones (`OnPolicy`), and appending keeps it so (lemma `TokensFollow`, which
  covers whole responses and chunks).  `Publish` makes what was new old; while
  a publication is due, all that is pending was left by a failed rollout.
* `Flagged`, `Requested`: where the flag is up, and that a cut request belongs
  to a leftover or forgotten group; and, as long as nothing has failed, every
  request is known to `GenerateState`: by name with the streaming generator, by
  number with the other one.
* `Counted`: until a rollout fails, `remaining` is the number of groups under
  way and chosen.  While a rollout waits, no result is left to take.

`PrefixesKept` is an action property: the lemmas on the steps of samples prove
`Grows` beside the invariant, and a group that a step forgets is finished, has
no prefix or was never anybody's.  The proof showed that the property had to be
restricted to groups somebody holds (`Held`): what a task of a failed rollout
still writes to a group that was dropped is lost.

### Only model-checked

* Liveness (`AttemptEnds`, `PauseTerminates`, `RewindCompletes`) is outside
  this prover's reach.
* `TrainBatch`: its layouts, packings and sums are recursive functions; what
  these compute needs induction over data, which cannot be proved here.
* `CompletedAvailable` and `RetentionReleased` where collections fail: they are
  false there, as section 5 says under *Groups of a failed collection*.

## 5. Findings

**Full synchronisation reuses a version** (`disk_full`).  With
`update_weight_mode` full and a host-local directory, `actor_group.py:184`
publishes the served version plus one.  If the previous trainer failed after
the hosts had pulled that version and before the engines reloaded it, the next
trainer publishes other weights under the same number, the pull finds nothing
above what is applied, and the engines reload the previous trainer's weights.
`update_weight_from_disk_delta.py:89` names the danger ("Publish above every
attempted disk version, so pull() cannot mistake that stale local checkpoint
for this one"); only the delta updater does so.

### Observations without a run

What the models showed on the way, and how the properties take it into account.

* *Journal of a dead session.*  `training_recovery.py:252` says "Reuse the
  journal only with its live serving/queue owner", but the test is that some
  driver attached before (`serving.py:137`).  If the first driver of a session
  dies before its manager has replaced the journal, the second loads the
  journal of the previous session.  The properties speak of a journal whose
  `origin` is the living session.
* *Snapshot behind a stale acknowledgement.*  `data_source.py:138` promises a
  snapshot that "cannot skip prefetched samples".  `pause()` waits for
  `admission_paused` (`fully_async_rollout.py:118`), which `resume()` does not
  clear; a pause shortly after a resume returns on the acknowledgement of the
  earlier one while the loop is between its test of `paused` and the next
  publication.  The cursor is then saved with a prompt in flight that no part
  of the snapshot holds.
* *An actor outside `running_workers`.*  After `pause(drain=False)` a `next`
  may be outstanding when `resume` sends `start`.  If the answer to `start` is
  handled before the older `None`, line 144 of `fully_async_distributed.py`
  removes an actor that runs, and the next pause does not stop it, although
  `rollout.py:171` says "Stop the distributed producer before engines drain for
  a weight update."
* *`next` fails without a cause.*  `_next` awaits the producer it found and
  then reads `self.producer` again (line 322); a `start` in between has put an
  unfinished task there and `result()` raises.
* *Groups of a failed collection.*  `generate` takes groups from `ready` before
  the batch hook runs and the collection is accepted.  If that fails and the
  live manager is used again, line 172 clears `collecting`; the groups are in
  nobody's hands until their reader or the manager dies, although
  `docs/en/advanced/fault-tolerance.md:76` says they "remain available".
* *Bounds of the queues.*  While paused the collector ignores its gate on
  prefetched results (`fully_async_distributed.py:123`), so each weight update
  may move more groups into `ready` than a rollout takes out.  The output queue
  of the async worker (`fully_async_rollout.py:204`) has no limit of its own;
  the top-up condition bounds it to one less than twice the concurrency
  (`QueueBounded`).
* *Late first reader.*  `recover_manager_readers` (`queue_data_source.py:623`)
  fences the readers that have called `take` before; one that calls it for the
  first time afterwards is not fenced.  The model excludes it.
* *Stale selection of a checkpoint.*  A launch selects its checkpoint before it
  takes the lock and revalidates only `session.json`
  (`queue_data_source.py:95`), which a save does not rewrite.  A commit made in
  between is discarded as a later one.
* *Late clear.*  `clear_updatable_num_new_engines` (`serving.py:268`) does not
  know who calls it; the call of a killed trainer wipes the markers its
  successor's trainers need to connect.  `PublishReaches` excepts it.
* *Version after a total loss.*  A new attempt counts from the versions of the
  engines that survived; when every engine with the newest version has died,
  versions go back.  `EngineVersionGrows` speaks of engines that keep their slot.
* *Monitor.*  Retiring a dead engine of a colocated group always raises
  (`engine_group.py:142`), and an exception other than a `RequestException`
  ends the monitor's thread (`health_monitor.py:119`).
* *First publication.*  In delta mode, above directories that an earlier
  trainer left, the first publication does not flush, although the docstring in
  `weight_sync.py` says it does.
* *A synchronous rollout that raised.*  `vllm_rollout.py:853` resets the state
  "to prevent effects on the next rollout", but only a rollout that returns
  gets there.  After one that raised, `remaining_batch_size` stays too high:
  the next attempt of the same process may sample nothing and wait on an empty
  set, which raises, each time.  After a failed abort the flag stays set and
  the assertion at line 694 refuses every later abort; groups left pending are
  taken by the next attempt with tokens of older weights that nothing masks;
  and a sibling of a failed sample that ends after the reset makes the number
  of requests negative, so that a later abort may see none where there is one.
  `EnoughAvailable`, `BatchSound` and `AbortScope` name the exceptions they need.
* *Requests left open over a publication.*  The requests of such pending groups
  are still at the servers when the next attempt publishes before its first
  rollout (`train.py:22`), with `pause_generation(mode="abort")`
  (`update_weight_from_distributed.py:91`, `vllm_engine.py:547`; the tensor and
  delta updaters do the same).  A request that this stops comes back with finish
  reason `abort`, becomes `ABORTED` (`types.py:502`) and, without group rewards,
  gets no reward (`vllm_rollout.py:621`).  Nobody set `state.aborted`, and the
  next attempt takes the group into its batch without a look at the status of
  its samples (`vllm_rollout.py:800`), although
  `docs/en/advanced/rollout-scheduling.md:17` says that partial rollout "does
  not make an unfinished response a complete rewarded training sample".  A
  request refused meanwhile fails its group instead.  `BatchSound` and
  `PrefixesSurvive` except such groups (`leftover`); `AbortScope` speaks of the
  pause of an abort, between publications.
* *Unfinished samples without tokens.*  A group of a finished sample and one
  that was aborted before its first token is dropped at line 729, although the
  option's help speaks of recycling unfinished samples.

## 6. Plan

The control of the data plane, of checkpoints, serving and weight updates is
modelled; recovery, the queue, the async worker, the distributed rollout,
checkpoints, serving, the weight update through disk and the synchronous
rollout are proved.

## 7. Merged steps and paths left out

Inside the actions of the modelled parts, with what they would add:

* `AsyncWorker!DoneCallback`: a result that is not a list
  (`fully_async_rollout.py:260`) and an exception of `add_samples` or
  `prepare_retry_group` (268) lose the group with a log line.  The generation
  function always returns a list; the other two are calls into a buffer of
  the same process, whose failure is taken for a fault of the program.
  `GroupsConserved` is to be read under this assumption.
* `RolloutQueue!Reject`: `fail_task` and `record_dispositions`
  (`queue_data_source.py:557`), two effects of one call of the controller, are
  one step.  In between, the task has failed and the versions it replaced are not
  yet acknowledged: their data is kept longer than in the model, never shorter.
  If the second effect raises, they hold the cursor until the call is repeated;
  `RetentionReleased` is to be read without that failure.
* `RolloutQueue!Ask`: a reader of a dead manager that calls `take` for the first
  time after the fence (section 5, *Late first reader*).
* `RolloutScheduler!HandleResult`: `running_workers.remove` would raise for an
  absent worker.  The model has no such case: a worker has at most one `next`
  outstanding, sent while it was in the set, and only the answer or its
  retirement removes it.  TLC confirmed this on both instances of the scheduler.
* `Serving!Create`: trainers are created (`actor_group.py:123`) and registered
  with the owner (138) in one step.  Between the two the driver waits, and
  trainers of a driver that dies there end with its job.
* `DiskWeightSync!RequestFails`: a request, also a pull, fails at any time but
  while its engine changes a host; a pull that stops there is `PullEnd` with an
  error, or the death of the engine.

## 8. Not modelled

* Kernels, attention and MoE forward passes, model plugins, converters of
  weights and the values of the losses: numeric code that is right or wrong for
  each tensor by itself.  A model of it would be a second implementation; of
  the trainers, the part that decides which token goes where is in `CpLayout`.
* vLLM, Ray, the router and the storage service: external; the models let them
  answer, fail or be late wherever the code waits for them.
* Weight update from tensors in colocated mode, offloading, placement of GPUs
  and ports: one process tells others what to do, in one order, without a
  failure it survives.
* Evaluation rollouts, which change no state of the parts above, and custom
  generation functions that return several samples.
* `vime/utils/arguments.py`: parsing and validation; models assume validated
  values.  Agents, reward functions and filters are hooks: where one may fail
  or choose, the models choose.  Observability, tools and examples feed back
  into no state.
