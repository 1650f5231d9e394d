---------------------------- MODULE AsyncWorker ----------------------------
(***************************************************************************)
(* The in-process fully-async rollout: AsyncRolloutWorker                  *)
(* (vime/rollout/fully_async_rollout.py) over RolloutDataSourceWithBuffer  *)
(* (vime/data/data_source.py), driven by RolloutManager                    *)
(* (vime/ray/rollout.py) in the order train.py calls it.                   *)
(*                                                                         *)
(* Two threads share the worker.  The loop thread runs an asyncio event    *)
(* loop: the coroutine _loop, the generation tasks and their done          *)
(* callbacks.  The manager thread calls generate, pause, resume and        *)
(* state_dict.  Only pause, resume and the publication at the end of a     *)
(* loop iteration hold the condition; everything else interleaves.         *)
(*                                                                         *)
(* A prompt group is the number under which the data source issued it.     *)
(* Tokens, rewards and the retained part of an interrupted group are left  *)
(* out: prepare_retry_group returns a group for the same prompt.           *)
(***************************************************************************)
EXTENDS Integers, Sequences, SequencesExt, FiniteSets

CONSTANTS
    Concurrency,    \* max_concurrent: groups in flight
    Target,         \* rollout_batch_size: groups a rollout collects
    MaxGroups,      \* bound: prompts the source issues
    MaxRounds,      \* bound: rollouts the driver runs
    MaxAborts       \* bound: groups returned unfinished

ASSUME ConcurrencyAssumption == Concurrency \in Nat \ {0}
ASSUME TargetAssumption == Target \in Nat \ {0}
ASSUME BoundsAssumption == MaxGroups \in Nat /\ MaxRounds \in Nat /\ MaxAborts \in Nat

Group == 1..MaxGroups

VARIABLES
    \* RolloutDataSourceWithBuffer
    cursor,         \* prompts issued so far (sample_group_index)
    buffer,         \* groups put back for another attempt
    \* AsyncRolloutWorker, fields shared by the two threads
    running, paused, admissionPaused, active, error,
    outputQueue,    \* finished groups waiting for the manager
    \* the loop thread
    loopAt,         \* where the coroutine _loop is
    activeTasks,    \* _loop's set of unreaped tasks, by group
    generating,     \* tasks that are not done
    agenda,         \* callbacks and wake-ups the event loop will run, in order
    aborts,
    \* the manager thread
    managerAt, round,
    collected, dropped, \* kept by this rollout; rejected by the filter
    previous,       \* what each pause call found in paused
    inSave,         \* state_dict was called by RolloutManager.save
    batches,        \* the groups each earlier rollout handed to training
    snapshot,       \* the state_dict under construction
    saved           \* the last completed state_dict, with what was delivered by then

source   == <<cursor, buffer>>
flags    == <<running, paused, admissionPaused, active, error>>
loop     == <<loopAt, activeTasks, generating, agenda, aborts>>
manager  == <<managerAt, round, collected, dropped, previous, inSave, batches, snapshot, saved>>
vars     == <<source, flags, outputQueue, loop, manager>>

delivered == UNION {batches[n] : n \in DOMAIN batches}

NoState == [cursor |-> 0, buffer |-> <<>>, ready |-> <<>>, consumed |-> {}]

Outcome == {"complete", "aborted", "crashed"}
Wake    == [kind : {"wake", "resume"}]
Done    == [kind : {"callback"}, group : Group, outcome : Outcome]

PauseCalls == {"state", "admission", "save"}

(* Where the manager is when it calls pause, and while pause waits. *)
Pausing == [state |-> "state: pause", admission |-> "admission: pause", save |-> "save: pause"]
Waiting == [state |-> "state: wait",  admission |-> "admission: wait",  save |-> "save: wait"]

Init ==
    /\ cursor = 0 /\ buffer = <<>>
    /\ running = TRUE /\ paused = FALSE /\ admissionPaused = FALSE
    /\ active = 0 /\ error = FALSE
    /\ outputQueue = <<>>
    /\ loopAt = "event loop" /\ activeTasks = {} /\ generating = {}
    /\ agenda = <<[kind |-> "wake"]>> /\ aborts = 0
    /\ managerAt = "generate" /\ round = 1 /\ collected = {} /\ dropped = {}
    /\ previous = [call \in PauseCalls |-> FALSE] /\ inSave = FALSE /\ batches = <<>>
    /\ snapshot = NoState /\ saved = NoState

-----------------------------------------------------------------------------
(* The loop thread *)

Awaiting == loopAt \in {"event loop", "draining"}

(* A generation task returns or raises; its callback joins the agenda. *)
TaskDone(g, outcome) ==
    /\ Awaiting /\ g \in generating
    /\ outcome = "aborted" => aborts < MaxAborts
    /\ generating' = generating \ {g}
    /\ agenda' = Append(agenda, [kind |-> "callback", group |-> g, outcome |-> outcome])
    /\ aborts' = IF outcome = "aborted" THEN aborts + 1 ELSE aborts
    /\ UNCHANGED <<source, flags, outputQueue, loopAt, activeTasks, manager>>

DeliverableAborted(o) == o # "crashed"

(* Only a group with no ABORTED or PENDING sample goes to training. *)
Deliverable(o) == o = "complete"

(* _make_done_cb: keep the error, put an interrupted group back, or queue the result. *)
DoneCallback ==
    /\ Awaiting /\ agenda # <<>> /\ Head(agenda) \in Done
    /\ LET g == Head(agenda).group
           o == Head(agenda).outcome
       IN /\ error' = (error \/ o = "crashed")
          /\ buffer' = IF o = "aborted" THEN Append(buffer, g) ELSE buffer
          /\ outputQueue' = IF Deliverable(o) THEN Append(outputQueue, g) ELSE outputQueue
    /\ agenda' = Tail(agenda)
    /\ UNCHANGED <<cursor, running, paused, admissionPaused, active, loopAt,
                   activeTasks, generating, aborts, manager>>

(* Reap done tasks; give their callbacks a turn before asking for more work. *)
Reap ==
    /\ loopAt = "event loop" /\ agenda # <<>> /\ Head(agenda) = [kind |-> "wake"]
    /\ running
    /\ activeTasks' = activeTasks \cap generating
    /\ IF activeTasks \subseteq generating
       THEN loopAt' = "top up" /\ agenda' = Tail(agenda)
       ELSE loopAt' = "event loop" /\ agenda' = Append(Tail(agenda), [kind |-> "resume"])
    /\ UNCHANGED <<source, flags, outputQueue, generating, aborts, manager>>

ResumeLoop ==
    /\ loopAt = "event loop" /\ agenda # <<>> /\ Head(agenda) = [kind |-> "resume"]
    /\ loopAt' = "top up" /\ agenda' = Tail(agenda)
    /\ UNCHANGED <<source, flags, outputQueue, activeTasks, generating, aborts, manager>>

(* The top-up condition; the queue gate is the backpressure. *)
MayAdmit ==
    /\ Cardinality(activeTasks) < Concurrency
    /\ Len(outputQueue) < Concurrency
    /\ running
    /\ ~paused

(* One evaluation of the top-up condition.  The prompt is taken in a later  *)
(* step: the manager thread may pause, or read the source, in between.      *)
TopUp ==
    /\ loopAt = "top up"
    /\ loopAt' = IF MayAdmit THEN "admit" ELSE "publish"
    /\ UNCHANGED <<source, flags, outputQueue, activeTasks, generating, agenda, aborts, manager>>

(* The bounded source has no group to issue. *)
SourceEmpty == buffer = <<>> /\ cursor = MaxGroups

(* get_samples(1): a buffered group first, else the next prompt; then create_task. *)
Admit ==
    /\ loopAt = "admit"
    /\ IF SourceEmpty
       THEN /\ loopAt' = "publish"
            /\ UNCHANGED <<source, activeTasks, generating>>
       ELSE LET g == IF buffer # <<>> THEN Head(buffer) ELSE cursor + 1
            IN /\ cursor' = IF buffer # <<>> THEN cursor ELSE cursor + 1
               /\ buffer' = IF buffer # <<>> THEN Tail(buffer) ELSE buffer
               /\ activeTasks' = activeTasks \cup {g}
               /\ generating' = generating \cup {g}
               /\ loopAt' = "top up"
    /\ UNCHANGED <<flags, outputQueue, agenda, aborts, manager>>

(* Publish active and admission_paused under the condition and notify, then  *)
(* raise a callback's error or sleep for one poll interval.                  *)
Publish ==
    /\ loopAt = "publish"
    /\ active' = Cardinality(activeTasks)
    /\ admissionPaused' = paused
    /\ IF error
       THEN loopAt' = "dead" /\ running' = FALSE /\ generating' = {} /\ agenda' = <<>>
       ELSE loopAt' = "event loop" /\ UNCHANGED <<running, generating, agenda>>
    /\ UNCHANGED <<source, paused, error, outputQueue, activeTasks, aborts, manager>>

(* The poll interval ends. *)
Timer ==
    /\ loopAt = "event loop" /\ ~\E i \in 1..Len(agenda) : agenda[i] \in Wake
    /\ agenda' = Append(agenda, [kind |-> "wake"])
    /\ UNCHANGED <<source, flags, outputQueue, loopAt, activeTasks, generating, aborts, manager>>

(* close() cleared running: stop admitting and wait for the tasks in flight. *)
StopLoop ==
    /\ loopAt = "event loop" /\ agenda # <<>> /\ Head(agenda) = [kind |-> "wake"]
    /\ ~running
    /\ loopAt' = "draining" /\ agenda' = Tail(agenda)
    /\ UNCHANGED <<source, flags, outputQueue, activeTasks, generating, aborts, manager>>

(* All tasks are done, or the 30 second wait ends and asyncio.run cancels them. *)
ExitThread ==
    /\ loopAt = "draining"
    /\ loopAt' = "dead" /\ generating' = {} /\ agenda' = <<>>
    /\ UNCHANGED <<source, flags, outputQueue, activeTasks, aborts, manager>>

-----------------------------------------------------------------------------
(* The manager thread.  Its calls are serial: generate, then the recovery   *)
(* snapshot, then train.py's pause, save, weight update and resume.         *)

ManagerOnly == <<source, running, admissionPaused, active, error, outputQueue, loop>>

(* generate: resume admission and start collecting. *)
BeginGenerate ==
    /\ managerAt = "generate"
    /\ paused' = FALSE
    /\ managerAt' = "collect"
    /\ UNCHANGED <<ManagerOnly, round, collected, dropped, previous, inSave, batches, snapshot, saved>>

(* One group popped from the queue, kept or rejected by the dynamic filter. *)
Collect(keep) ==
    /\ managerAt = "collect" /\ Cardinality(collected) < Target
    /\ ~error /\ outputQueue # <<>>
    /\ outputQueue' = Tail(outputQueue)
    /\ IF keep
       THEN collected' = collected \cup {Head(outputQueue)} /\ UNCHANGED dropped
       ELSE dropped' = dropped \cup {Head(outputQueue)} /\ UNCHANGED collected
    /\ UNCHANGED <<source, flags, loop, managerAt, round, previous, inSave, batches, snapshot, saved>>

CollectFails ==
    /\ managerAt = "collect" /\ Cardinality(collected) < Target /\ error
    /\ managerAt' = "failed"
    /\ UNCHANGED <<ManagerOnly, paused, round, collected, dropped, previous, inSave, batches, snapshot, saved>>

(* The rollout is complete.  With training recovery on, its raw batch is     *)
(* remembered with a snapshot of the source, so state_dict follows.          *)
Collected ==
    /\ managerAt = "collect" /\ Cardinality(collected) = Target
    /\ batches' = Append(batches, collected) /\ collected' = {}
    /\ managerAt' = "state: pause"
    /\ UNCHANGED <<ManagerOnly, paused, round, dropped, previous, inSave, snapshot, saved>>

(* pause() sets the flag at once and remembers what it was ... *)
PauseCall(call) ==
    /\ managerAt = Pausing[call]
    /\ previous' = [previous EXCEPT ![call] = paused]
    /\ paused' = TRUE
    /\ managerAt' = Waiting[call]
    /\ UNCHANGED <<ManagerOnly, round, collected, dropped, inSave, batches, snapshot, saved>>

(* ... then waits for the loop's acknowledgement and, to drain, for its tasks. *)
PauseReturnsAlive(drain) == admissionPaused /\ (drain => active = 0)

PauseReturns(drain) ==
    ~running \/ error \/ (admissionPaused /\ (drain => active = 0))

PauseReturn(call, drain, next) ==
    /\ managerAt = Waiting[call]
    /\ PauseReturns(drain)
    /\ managerAt' = IF error THEN "failed" ELSE next
    /\ UNCHANGED <<ManagerOnly, paused, round, collected, dropped, previous, inSave, batches, snapshot, saved>>

(* state_dict copies the cursor, the buffer and the ready queue one after    *)
(* another, while the loop thread runs.                                      *)
CopyCursor ==
    /\ managerAt = "state: cursor"
    /\ snapshot' = [NoState EXCEPT !.cursor = cursor, !.consumed = delivered \cup dropped]
    /\ managerAt' = "state: buffer"
    /\ UNCHANGED <<ManagerOnly, paused, round, collected, dropped, previous, inSave, batches, saved>>

CopyBuffer ==
    /\ managerAt = "state: buffer"
    /\ snapshot' = [snapshot EXCEPT !.buffer = buffer]
    /\ managerAt' = "state: ready"
    /\ UNCHANGED <<ManagerOnly, paused, round, collected, dropped, previous, inSave, batches, saved>>

(* The worker's own state_dict refuses a worker it can see to be active;     *)
(* the caller's pause is undone on the way out either way.                   *)
CopyReady ==
    /\ managerAt = "state: ready"
    /\ IF admissionPaused /\ active = 0
       THEN /\ saved' = [snapshot EXCEPT !.ready = outputQueue]
            /\ managerAt' = IF inSave THEN "save: end" ELSE "admission: pause"
       ELSE /\ managerAt' = "failed"
            /\ UNCHANGED saved
    /\ paused' = (paused /\ previous["state"])
    /\ UNCHANGED <<ManagerOnly, round, collected, dropped, previous, inSave, batches, snapshot>>

(* train.py saves a checkpoint on some iterations: RolloutManager.save pauses *)
(* again around the source's own state_dict.                                  *)
BeginSave ==
    /\ managerAt = "paused for update"
    /\ inSave' = TRUE /\ managerAt' = "save: pause"
    /\ UNCHANGED <<ManagerOnly, paused, round, collected, dropped, previous, batches, snapshot, saved>>

EndSave ==
    /\ managerAt = "save: end"
    /\ inSave' = FALSE
    /\ paused' = (paused /\ previous["save"])
    /\ managerAt' = "update weights"
    /\ UNCHANGED <<ManagerOnly, round, collected, dropped, previous, batches, snapshot, saved>>

SkipSave ==
    /\ managerAt = "paused for update"
    /\ managerAt' = "update weights"
    /\ UNCHANGED <<ManagerOnly, paused, round, collected, dropped, previous, inSave, batches, snapshot, saved>>

(* The weights are installed; admission resumes unless this was the last rollout. *)
ResumeAdmission ==
    /\ managerAt = "update weights" /\ round < MaxRounds
    /\ paused' = (paused /\ previous["admission"])
    /\ round' = round + 1 /\ managerAt' = "generate"
    /\ UNCHANGED <<ManagerOnly, collected, dropped, previous, inSave, batches, snapshot, saved>>

(* dispose closes the source, which closes the worker. *)
Close ==
    /\ \/ managerAt = "update weights" /\ round = MaxRounds
       \/ managerAt = "failed"
    /\ running' = FALSE /\ managerAt' = "closed"
    /\ UNCHANGED <<source, paused, admissionPaused, active, error, outputQueue, loop,
                   round, collected, dropped, previous, inSave, batches, snapshot, saved>>

LoopStep == Reap \/ ResumeLoop \/ TopUp \/ Admit \/ Publish \/ Timer \/ StopLoop \/ ExitThread \/ DoneCallback

Pause ==
    \/ \E call \in PauseCalls : PauseCall(call)
    \/ PauseReturn("state", TRUE, "state: cursor")
    \/ PauseReturn("admission", FALSE, "paused for update")
    \/ PauseReturn("save", TRUE, "state: pause")

ManagerStep ==
    \/ BeginGenerate \/ CollectFails \/ Collected
    \/ Pause
    \/ CopyCursor \/ CopyBuffer \/ CopyReady
    \/ BeginSave \/ EndSave \/ SkipSave \/ ResumeAdmission \/ Close

Next ==
    \/ LoopStep
    \/ \E g \in Group, o \in Outcome : TaskDone(g, o)
    \/ ManagerStep
    \/ \E keep \in BOOLEAN : Collect(keep)

(* Both threads are scheduled, and every generation ends some day (strong      *)
(* fairness: it can only end while the event loop has control).                *)
Fairness ==
    /\ WF_vars(LoopStep)
    /\ WF_vars(ManagerStep)
    /\ \A g \in Group : SF_vars(\E o \in Outcome : TaskDone(g, o))
    /\ WF_vars(\E keep \in BOOLEAN : Collect(keep))

Spec == Init /\ [][Next]_vars

FairSpec == Spec /\ Fairness

-----------------------------------------------------------------------------
(* Properties *)

(* The places that hold group g, and how many they are. *)
Positions(s, items) == {i \in DOMAIN s : s[i] \in items}

Places(g) ==
    LET Held(place, groups) == {<<place, x>> : x \in groups \cap {g}}
        Queued(place, s)    == {<<place, i>> : i \in Positions(s, {g})}
    IN  Held("generating", generating)
        \cup {<<"agenda", i>> : i \in Positions(agenda, {call \in Done : call.group = g})}
        \cup Queued("buffer", buffer) \cup Queued("output queue", outputQueue)
        \cup Held("collected", collected) \cup Held("dropped", dropped) \cup Held("delivered", delivered)

Occurrences(g) == Cardinality(Places(g))

(* The loop thread lives, and no task has raised. *)
Healthy ==
    /\ loopAt # "dead" /\ ~error
    /\ Positions(agenda, {call \in Done : call.outcome = "crashed"}) = {}

(* While the loop thread lives and no task has raised, a prompt the source   *)
(* issued is in exactly one place: no interrupted, filtered or prefetched    *)
(* group is lost between the threads or delivered twice.                     *)
GroupsConserved ==
    Healthy => \A g \in Group : Occurrences(g) = IF g <= cursor THEN 1 ELSE 0

(* Where the promised delivery of a prompt has got to.                         *)
PlaceOf(g) ==
    CASE g > cursor       -> "unread"
      [] g \in collected -> "accepted"
      [] g \in delivered -> "batched"
      [] g \in dropped   -> "dropped"
      [] OTHER            -> "open"

(* Refinement: whatever the two threads do, and whether tasks crash or not, a *)
(* prompt that was kept or dropped by a rollout never comes back from the     *)
(* buffer, the queue or the source, and a rollout trains on as many different *)
(* groups as it has to.                                                       *)
Abstract == INSTANCE PromptDelivery WITH
    Batch <- Target, place <- [g \in Group |-> PlaceOf(g)], batches <- batches

DeliveredOnce == Abstract!Spec

(* Every call of pause returns or raises.                                     *)
PauseTerminates ==
    \A call \in PauseCalls : managerAt = Waiting[call] ~> managerAt # Waiting[call]
=============================================================================
