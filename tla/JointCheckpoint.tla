--------------------------- MODULE JointCheckpoint ---------------------------
(***************************************************************************)
(* The joint checkpoint of model and rollout queue, and the restarts that  *)
(* select one, rewind the queue to it and discard what came later          *)
(* (vime/data/checkpoint.py, vime/data/rewind.py and the save, load and    *)
(* rewind paths of vime/data/queue_data_source.py).                        *)
(*                                                                         *)
(* Drivers resolve a checkpoint without any lock and become a running job  *)
(* when their queue controller takes session.lock.  A job may stop between *)
(* any two writes; model payloads that were not yet fsynced may then be    *)
(* torn.  Reports (write_report) are durable when the call returns.        *)
(*                                                                         *)
(* Data is abstracted to prompts: a model is the number of times each      *)
(* prompt was trained into it, a queue the prompts drawn from the dataset  *)
(* and not yet planned into a batch.  --load and --save name one directory *)
(* and the actor's files stand for the critic's too.                       *)
(***************************************************************************)
EXTENDS Integers, FiniteSets, FiniteSetsExt

CONSTANTS
    Drivers,      \* launches of train.py that may overlap
    MaxStep,      \* the last rollout id
    MaxPrompts,   \* bound: prompts drawn from the dataset
    MaxCrashes,   \* bound: jobs that stop abnormally
    MaxExplicit,  \* bound: restarts with --ckpt-step
    MaxDamage,    \* bound: rollout snapshots lost by the storage
    MaxFaults,    \* bound: all three together
    None

ASSUME ConstantsAssumption ==
    /\ MaxStep \in Nat
    /\ MaxPrompts \in Nat
    /\ MaxCrashes \in Nat /\ MaxExplicit \in Nat /\ MaxDamage \in Nat /\ MaxFaults \in Nat
    /\ None \notin Int \cup Drivers

Steps == 0 .. MaxStep
Prompts == 0 .. MaxPrompts - 1

Models == [count : [Prompts -> Nat], exact : BOOLEAN]
Payloads == [state : {"torn", "whole", "synced"}, model : Models]
Snapshots == [state : {"good", "lost", "corrupt"}, queued : SUBSET Prompts, cursor : Nat]
Sessions == [restore : Steps \cup {None}, pending : BOOLEAN]

\* A missing file is no file.
ASSUME NoneAssumption == None \notin Payloads \cup Snapshots \cup Sessions

VARIABLES
    \* Files of the save directory, and the write-ahead log of the queue.
    session,       \* rollout/session.json
    tracker,       \* latest_checkpointed_iteration.txt
    iter,          \* iter_N: the model payloads
    cursorFile,    \* global_dataset_state_dict_N.pt
    queueState,    \* queue_state_N.json and the payload it names
    builderState,  \* the steps that have a builder_state_N.json
    committed,     \* committed_N.json
    journal,       \* the queue's log: queued prompts, dataset cursor, planned
    \* Drivers, and the job that holds session.lock.
    owner,         \* the driver whose controller holds the lock
    pc,            \* where each driver is
    plan,          \* the RestorePlan each driver resolved
    target,        \* the queue contents that rewind rebuilds
    model,         \* the trainers' weights
    rid,           \* the rollout id of the train loop
    \* Bounds and history.
    crashes, explicits, damages,
    clean          \* no snapshot was damaged, no interrupted rewind overridden

disk == <<session, tracker, iter, cursorFile, queueState, builderState, committed, journal>>
budget == <<crashes, explicits, damages, clean>>
vars == <<disk, owner, pc, plan, target, model, rid, budget>>

Commits == {n \in Steps : committed[n] # None}

Untrained == [count |-> [p \in Prompts |-> 0], exact |-> TRUE]
EmptyQueue == [queued |-> {}, cursor |-> 0]
EmptyJournal == [queued |-> {}, cursor |-> 0, planned |-> FALSE]
NoPlan == [mode |-> "new", step |-> None, current |-> FALSE, cursor |-> FALSE]

Init ==
    /\ session = None /\ tracker = None
    /\ iter = [n \in Steps |-> None]
    /\ cursorFile = [n \in Steps |-> None]
    /\ queueState = [n \in Steps |-> None]
    /\ builderState = {}
    /\ committed = [n \in Steps |-> None]
    /\ journal = EmptyJournal
    /\ owner = None
    /\ pc = [d \in Drivers |-> "down"]
    /\ plan = [d \in Drivers |-> NoPlan]
    /\ target = EmptyQueue
    /\ model = Untrained
    /\ rid = 0
    /\ crashes = 0 /\ explicits = 0 /\ damages = 0
    /\ clean = TRUE

FaultsLeft == crashes + explicits + damages < MaxFaults

----------------------------------------------------------------------------
(* Selection: resolve_checkpoint reads the directory and changes nothing.  *)

\* Sizes of the payloads (and digests of the metadata) match the manifest:
\* a torn save is noticed, a complete one of another attempt is not.
ModelMatches(n) == iter[n] # None /\ iter[n].state # "torn"

\* The snapshots named by the manifest are there with their digests.
RolloutMatches(n) ==
    /\ queueState[n] # None /\ queueState[n].state # "corrupt"
    /\ n \in builderState

\* Mutant: an unfinished rewind is forgotten.
AskedStepForgetful(s) ==
    IF s = None /\ session # None /\ Commits = {} THEN session.restore ELSE s

\* An interrupted rewind, or a run with no commit of its own, goes back to
\* the boundary its session recorded unless a step was asked for.
AskedStep(s) ==
    IF s = None /\ session # None /\ (session.pending \/ Commits = {})
    THEN session.restore ELSE s

\* Before the first checkpoint the original log is recovered instead.
Resumes(s) == s = None /\ session # None /\ Commits = {} /\ session.restore = None

\* _select_checkpoint: {} is the initial load, {None} an error, {n} step n.
Select(s) ==
    IF tracker = None
    THEN IF s = None /\ Commits = {} THEN {} ELSE {None}
    ELSE LET n == IF s # None THEN s
                  ELSE IF Commits = {} THEN tracker ELSE Min({tracker, Max(Commits)})
         IN  IF n \in Commits THEN (IF ModelMatches(n) THEN {n} ELSE {None})
             ELSE IF iter[n] = None THEN {None} ELSE {n}

Mode(n) == IF n \in Commits /\ RolloutMatches(n) THEN "rewind" ELSE "empty"

Resolved(d, mode, step) ==
    /\ plan' = [plan EXCEPT ![d] =
                   [mode |-> mode, step |-> step, current |-> TRUE,
                    cursor |-> step # None /\ cursorFile[step] # None]]
    /\ pc' = [pc EXCEPT ![d] = "resolved"]

\* resolve_checkpoint, with --ckpt-step s or None: refused selections raise
\* in the launcher and leave the driver down.
Resolve(d, s) ==
    /\ pc[d] = "down"
    /\ \/ Resumes(s) /\ Resolved(d, "resume", None)
       \/ /\ ~Resumes(s)
          /\ \/ Select(AskedStep(s)) = {} /\ Resolved(d, "new", None)
             \/ \E n \in Select(AskedStep(s)) \ {None} : Resolved(d, Mode(n), n)
    /\ UNCHANGED <<disk, owner, target, model, rid>>

AutoResolve(d) == Resolve(d, None) /\ UNCHANGED budget

\* Asking for another step while a rewind is unfinished abandons that rewind.
ExplicitResolve(d, n) ==
    /\ explicits < MaxExplicit /\ FaultsLeft
    /\ Resolve(d, n)
    /\ explicits' = explicits + 1
    /\ clean' = (clean /\ (session = None \/ ~session.pending \/ session.restore = n))
    /\ UNCHANGED <<crashes, damages>>

----------------------------------------------------------------------------
(* Startup of the job that takes the lock.                                 *)

Move(d, from, to) == owner = d /\ pc[d] = from /\ pc' = [pc EXCEPT ![d] = to]

Withdraw(d) ==
    /\ pc' = [pc EXCEPT ![d] = "down"]
    /\ plan' = [plan EXCEPT ![d] = NoPlan]

\* The job ends: its memory is gone and the lock is free.
Stop(d) ==
    /\ Withdraw(d)
    /\ owner' = None /\ target' = EmptyQueue /\ model' = Untrained /\ rid' = 0

\* session.json is rewritten with a new generation: a plan that expects the
\* old text is stale.
WriteSession(value) ==
    /\ session' = value
    /\ plan' = [d \in Drivers |-> [plan[d] EXCEPT !.current = FALSE]]

\* RolloutQueueController.__init__ compares the session it finds under the
\* lock with the one that was resolved, then publishes its own.
Start(d) ==
    /\ pc[d] = "resolved" /\ owner = None
    /\ IF ~plan[d].current
       THEN Withdraw(d) /\ UNCHANGED <<session, journal, owner>>
       ELSE /\ WriteSession(IF plan[d].mode = "resume" THEN session
                            ELSE [restore |-> plan[d].step, pending |-> plan[d].step # None])
            /\ journal' = IF plan[d].mode = "new" THEN EmptyJournal ELSE journal
            /\ owner' = d
            /\ pc' = [pc EXCEPT ![d] = "loading"]
    /\ UNCHANGED <<tracker, iter, cursorFile, queueState, builderState, committed,
                   target, model, rid, budget>>

\* Another job holds the lock: the controller raises.
StartRefused(d) ==
    /\ pc[d] = "resolved" /\ owner # None
    /\ Withdraw(d)
    /\ UNCHANGED <<disk, owner, target, model, rid, budget>>

\* Trainers load the selected model; a torn save cannot be loaded.  A resumed
\* log is refused once a batch was planned from it.
LoadModel(d) ==
    /\ owner = d /\ pc[d] = "loading"
    /\ LET n == plan[d].step IN
       IF \/ n # None /\ ~ModelMatches(n)
          \/ plan[d].mode = "resume" /\ journal.planned
       THEN Stop(d)
       ELSE /\ model' = IF n = None THEN Untrained ELSE iter[n].model
            /\ rid' = IF n = None THEN 0 ELSE n + 1
            /\ pc' = [pc EXCEPT ![d] = IF n = None THEN "running" ELSE "rewinding"]
            /\ UNCHANGED <<owner, plan, target>>
    /\ UNCHANGED <<disk, budget>>

----------------------------------------------------------------------------
(* RolloutQueueController.rewind.                                          *)

\* QueueDataSource.load and rewind: the snapshot of the step if it can be
\* read, else an empty queue at the independent dataset cursor, or at zero.
Readable(d) ==
    plan[d].mode = "rewind" /\ queueState[plan[d].step] # None
        /\ queueState[plan[d].step].state = "good"
RewindSource(d) ==
    IF Readable(d)
    THEN [queued |-> queueState[plan[d].step].queued, cursor |-> queueState[plan[d].step].cursor]
    ELSE [queued |-> {},
          cursor |-> IF plan[d].cursor /\ cursorFile[plan[d].step] # None
                     THEN cursorFile[plan[d].step] ELSE 0]

\* Mutant: the rewind adds the saved inputs to the log it finds.
ResetJournalMissing(d) ==
    /\ Move(d, "rewinding", "cursor")
    /\ target' = RewindSource(d)
    /\ model' = [model EXCEPT !.exact = @ /\ Readable(d)]
    /\ UNCHANGED <<disk, owner, plan, rid, budget>>

\* Inputs are read before reset_journal installs an empty log atomically.
ResetJournal(d) ==
    /\ Move(d, "rewinding", "cursor")
    /\ target' = RewindSource(d)
    /\ model' = [model EXCEPT !.exact = @ /\ Readable(d)]
    /\ journal' = EmptyJournal
    /\ UNCHANGED <<session, tracker, iter, cursorFile, queueState, builderState, committed,
                   owner, plan, rid, budget>>

SubmitCursor(d) ==
    /\ Move(d, "cursor", "inputs")
    /\ journal' = [journal EXCEPT !.cursor = target.cursor]
    /\ UNCHANGED <<session, tracker, iter, cursorFile, queueState, builderState, committed,
                   owner, plan, target, model, rid, budget>>

\* submit_tasks for one chunk of the saved inputs.
SubmitInputs(d) ==
    /\ Move(d, "inputs", "inputs")
    /\ \E p \in target.queued \ journal.queued :
           /\ p = Min(target.queued \ journal.queued)
           /\ journal' = [journal EXCEPT !.queued = @ \cup {p}]
    /\ UNCHANGED <<session, tracker, iter, cursorFile, queueState, builderState, committed,
                   owner, plan, target, model, rid, budget>>

InputsDone(d) ==
    /\ Move(d, "inputs", "discard")
    /\ target.queued \subseteq journal.queued
    /\ target' = EmptyQueue
    /\ UNCHANGED <<disk, owner, plan, model, rid, budget>>

\* discard_future unlinks the later files in path order: builder states,
\* commits, cursors, queue states.  Model payloads stay.
Later(d) == {n \in Steps : n > plan[d].step}
DiscardFuture(d) ==
    /\ Move(d, "discard", "discard")
    /\ \E n \in Later(d) :
        \/ /\ n \in builderState
           /\ builderState' = builderState \ {n}
           /\ UNCHANGED <<committed, cursorFile, queueState>>
        \/ /\ Later(d) \cap builderState = {} /\ committed[n] # None
           /\ committed' = [committed EXCEPT ![n] = None]
           /\ UNCHANGED <<builderState, cursorFile, queueState>>
        \/ /\ Later(d) \cap (builderState \cup Commits) = {} /\ cursorFile[n] # None
           /\ cursorFile' = [cursorFile EXCEPT ![n] = None]
           /\ UNCHANGED <<builderState, committed, queueState>>
        \/ /\ Later(d) \cap (builderState \cup Commits) = {}
           /\ \A m \in Later(d) : cursorFile[m] = None
           /\ queueState[n] # None
           /\ queueState' = [queueState EXCEPT ![n] = None]
           /\ UNCHANGED <<builderState, committed, cursorFile>>
    /\ UNCHANGED <<session, tracker, iter, journal, owner, plan, target, model, rid, budget>>

\* The pointer to the latest checkpoint is rewritten last.
DiscardTracker(d) ==
    /\ Move(d, "discard", "finish")
    /\ \A n \in Later(d) : /\ n \notin builderState /\ committed[n] = None
                           /\ cursorFile[n] = None /\ queueState[n] = None
    /\ tracker' = plan[d].step
    /\ UNCHANGED <<session, iter, cursorFile, queueState, builderState, committed, journal,
                   owner, plan, target, model, rid, budget>>

\* Mutant: the session keeps naming the rewind.
FinishRestoreSilent(d) ==
    /\ Move(d, "finish", "running")
    /\ UNCHANGED <<disk, owner, plan, target, model, rid, budget>>

\* _finish_restore: the session no longer names an unfinished rewind.
FinishRestore(d) ==
    /\ Move(d, "finish", "running")
    /\ WriteSession([session EXCEPT !.pending = FALSE])
    /\ UNCHANGED <<tracker, iter, cursorFile, queueState, builderState, committed, journal,
                   owner, target, model, rid, budget>>

----------------------------------------------------------------------------
(* The train loop and save_checkpoint.                                     *)

\* The queue draws the next prompt of the dataset while admission is open.
Produce(d) ==
    /\ Move(d, "running", "running") /\ rid \in Steps
    /\ journal.cursor \in Prompts
    /\ journal' = [journal EXCEPT !.queued = @ \cup {journal.cursor}, !.cursor = @ + 1]
    /\ UNCHANGED <<session, tracker, iter, cursorFile, queueState, builderState, committed,
                   owner, plan, target, model, rid, budget>>

\* plan_batch and ready_batch take the batch out of the queue durably.
PlanBatch(d) ==
    /\ Move(d, "running", "planned") /\ rid \in Steps
    /\ \E p \in journal.queued :
           /\ journal' = [journal EXCEPT !.queued = @ \ {p}, !.planned = TRUE]
           /\ target' = [target EXCEPT !.queued = {p}]
    /\ UNCHANGED <<session, tracker, iter, cursorFile, queueState, builderState, committed,
                   owner, plan, model, rid, budget>>

\* Training changes only the memory of the trainers.
Train(d) ==
    /\ Move(d, "planned", "trained")
    /\ model' = [model EXCEPT !.count = [p \in Prompts |->
                     IF p \in target.queued /\ @[p] < 2 THEN @[p] + 1 ELSE @[p]]]
    /\ target' = EmptyQueue
    /\ UNCHANGED <<disk, owner, plan, rid, budget>>

NextRollout(d) ==
    /\ Move(d, "trained", "running")
    /\ rid' = rid + 1
    /\ UNCHANGED <<disk, owner, plan, target, model, budget>>

\* save_checkpoint refuses to overwrite a committed step.
SaveRefused == committed[rid] # None
BeginSave(d) ==
    /\ owner = d /\ pc[d] = "trained"
    /\ IF SaveRefused THEN Stop(d)
       ELSE /\ pc' = [pc EXCEPT ![d] = "save_model"]
            /\ UNCHANGED <<owner, plan, target, model, rid>>
    /\ UNCHANGED <<disk, budget>>

\* actor_model.save_model: the payloads are written one by one.
SaveModel(d) ==
    /\ Move(d, "save_model", "save_payloads")
    /\ iter' = [iter EXCEPT ![rid] = [state |-> "torn", model |-> model]]
    /\ UNCHANGED <<session, tracker, cursorFile, queueState, builderState, committed, journal,
                   owner, plan, target, model, rid, budget>>

SaveModelReturns(d) ==
    /\ Move(d, "save_payloads", "save_tracker")
    /\ iter' = [iter EXCEPT ![rid].state = "whole"]
    /\ UNCHANGED <<session, tracker, cursorFile, queueState, builderState, committed, journal,
                   owner, plan, target, model, rid, budget>>

\* Megatron moves its own pointer when the model is written, long before the
\* joint commit.
MegatronTracker(d) ==
    /\ Move(d, "save_tracker", "save_cursor")
    /\ tracker' = rid
    /\ UNCHANGED <<session, iter, cursorFile, queueState, builderState, committed, journal,
                   owner, plan, target, model, rid, budget>>

\* QueueDataSource.save with its consumers paused.
SaveCursor(d) ==
    /\ Move(d, "save_cursor", "save_queue")
    /\ cursorFile' = [cursorFile EXCEPT ![rid] = journal.cursor]
    /\ UNCHANGED <<session, tracker, iter, queueState, builderState, committed, journal,
                   owner, plan, target, model, rid, budget>>

SaveQueue(d) ==
    /\ Move(d, "save_queue", "save_builder")
    /\ queueState' = [queueState EXCEPT ![rid] =
                         [state |-> "good", queued |-> journal.queued, cursor |-> journal.cursor]]
    /\ UNCHANGED <<session, tracker, iter, cursorFile, builderState, committed, journal,
                   owner, plan, target, model, rid, budget>>

SaveBuilder(d) ==
    /\ Move(d, "save_builder", "sync")
    /\ builderState' = builderState \cup {rid}
    /\ UNCHANGED <<session, tracker, iter, cursorFile, queueState, committed, journal,
                   owner, plan, target, model, rid, budget>>

\* Mutant: the manifest is published without syncing what it names.
SyncModelSkipped(d) ==
    /\ Move(d, "sync", "commit")
    /\ UNCHANGED <<disk, owner, plan, target, model, rid, budget>>

\* commit_checkpoint syncs every payload and directory ...
SyncModel(d) ==
    /\ Move(d, "sync", "commit")
    /\ iter' = [iter EXCEPT ![rid].state = "synced"]
    /\ UNCHANGED <<session, tracker, cursorFile, queueState, builderState, committed, journal,
                   owner, plan, target, model, rid, budget>>

\* ... and then publishes the manifest, which lists what the files hold.
WriteCommit(d) ==
    /\ Move(d, "commit", "latest")
    /\ rid \in builderState /\ queueState[rid] # None
    /\ committed' = [committed EXCEPT ![rid] =
                        [model |-> iter[rid].model, queued |-> queueState[rid].queued,
                         cursor |-> queueState[rid].cursor]]
    /\ UNCHANGED <<session, tracker, iter, cursorFile, queueState, builderState, journal,
                   owner, plan, target, model, rid, budget>>

WriteLatest(d) ==
    /\ Move(d, "latest", "running")
    /\ tracker' = rid
    /\ rid' = rid + 1
    /\ UNCHANGED <<session, iter, cursorFile, queueState, builderState, committed, journal,
                   owner, plan, target, model, budget>>

\* The last rollout is done and the attempt closes.
Finish(d) ==
    /\ owner = d /\ pc[d] = "running" /\ rid \notin Steps
    /\ Stop(d)
    /\ UNCHANGED <<disk, budget>>

----------------------------------------------------------------------------
(* Faults.                                                                 *)

\* The job stops; payloads without fsync may be lost with the machine.
Crash(d) ==
    /\ owner = d /\ crashes < MaxCrashes /\ FaultsLeft
    /\ crashes' = crashes + 1
    /\ \E lost \in SUBSET {n \in Steps : iter[n] # None /\ iter[n].state = "whole"} :
           iter' = [n \in Steps |-> IF n \in lost THEN [iter[n] EXCEPT !.state = "torn"] ELSE iter[n]]
    /\ Stop(d)
    /\ UNCHANGED <<session, tracker, cursorFile, queueState, builderState, committed, journal,
                   explicits, damages, clean>>

\* Between two jobs the storage loses the payload of a queue snapshot, or the
\* file that names it (a running job reads neither).
Damage(n, state) ==
    /\ owner = None /\ damages < MaxDamage /\ FaultsLeft
    /\ queueState[n] # None /\ queueState[n].state = "good"
    /\ queueState' = [queueState EXCEPT ![n].state = state]
    /\ damages' = damages + 1 /\ clean' = FALSE
    /\ UNCHANGED <<session, tracker, iter, cursorFile, builderState, committed, journal,
                   owner, pc, plan, target, model, rid, crashes, explicits>>

----------------------------------------------------------------------------
Restore(d) ==
    \/ LoadModel(d) \/ ResetJournal(d) \/ SubmitCursor(d) \/ SubmitInputs(d) \/ InputsDone(d)
    \/ DiscardFuture(d) \/ DiscardTracker(d) \/ FinishRestore(d)

Save(d) ==
    \/ BeginSave(d) \/ SaveModel(d) \/ SaveModelReturns(d) \/ MegatronTracker(d)
    \/ SaveCursor(d) \/ SaveQueue(d) \/ SaveBuilder(d)
    \/ SyncModel(d) \/ WriteCommit(d) \/ WriteLatest(d)

TrainLoop(d) == Produce(d) \/ PlanBatch(d) \/ Train(d) \/ NextRollout(d) \/ Finish(d)

Next ==
    \/ \E d \in Drivers :
          \/ AutoResolve(d) \/ \E n \in Steps : ExplicitResolve(d, n)
          \/ Start(d) \/ StartRefused(d)
          \/ Restore(d) \/ Save(d) \/ TrainLoop(d)
          \/ Crash(d)
    \/ \E n \in Steps, state \in {"lost", "corrupt"} : Damage(n, state)

\* Jobs are restarted without --ckpt-step until one runs, and a job that holds
\* the lock goes on with its restore; nothing obliges it to train or save.
Fairness ==
    \A d \in Drivers : WF_vars(AutoResolve(d)) /\ WF_vars(Start(d)) /\ WF_vars(Restore(d))

Spec == Init /\ [][Next]_vars /\ Fairness
----------------------------------------------------------------------------
(* Properties.                                                             *)

\* A published manifest never names a model other than the one it was written
\* for: the payloads were synced before, survive every crash, and no later
\* attempt writes into a committed step (commit_checkpoint, save_checkpoint).
CommittedModelKept ==
    \A n \in Commits : iter[n].state = "synced" /\ iter[n].model = committed[n].model

\* Every prompt drawn up to the cursor was either trained into the model once
\* or is still queued, and none beyond it was trained.
Partition(m, queued, cursor) ==
    \A p \in Prompts : m.count[p] + (IF p \in queued THEN 1 ELSE 0) = (IF p < cursor THEN 1 ELSE 0)

\* Model and queue describe one boundary: in every manifest, and in every job
\* that runs, after any number of interrupted saves, rewinds and restarts.
\* Only a restart that the code itself reports as "not exact data replay"
\* gives this up.
JointBoundary ==
    /\ \A n \in Commits : committed[n].model.exact =>
           Partition(committed[n].model, committed[n].queued, committed[n].cursor)
    /\ \A d \in Drivers : owner = d /\ pc[d] = "running" /\ model.exact =>
           Partition(model, journal.queued, journal.cursor)

\* Whatever an interrupted save or rewind left behind, a restart without
\* --ckpt-step is not refused, prefers a commit when there is one, and finds
\* the queue snapshot of that commit complete (_select_checkpoint,
\* _read_checkpoint).
\* The exceptions are the documented ones: the log of a run that planned a
\* batch before its first checkpoint, damaged storage, and a restart that
\* asked for another step in the middle of a rewind.
AutomaticRestart ==
    (clean /\ owner = None /\ ~Resumes(None)) =>
        LET selected == Select(AskedStep(None))
        IN  /\ selected # {None}
            /\ Commits # {} /\ ~session.pending => selected \subseteq Commits
            /\ \A n \in selected \cap Commits : Mode(n) = "rewind" /\ queueState[n].state = "good"

\* A rewind that was begun is finished, if necessary by the restarts that
\* follow an interruption, unless its model cannot be loaded at all.
Rewinding == session # None /\ session.pending /\ ModelMatches(session.restore)
RewindCompletes == Rewinding ~> ~Rewinding
==============================================================================
