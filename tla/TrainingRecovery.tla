-------------------------- MODULE TrainingRecovery --------------------------
(***************************************************************************)
(* Recovery of training attempts over retained rollout data (straw         *)
(* transport): TrainingRecovery (vime/ray/training_recovery.py), the part  *)
(* of RolloutManager (vime/ray/rollout.py) that calls it, the attachment   *)
(* of a driver (vime/ray/placement_group.py, vime/ray/serving.py) and the  *)
(* train loop (train.py, vime/data/checkpoint.py).                         *)
(*                                                                         *)
(* Three processes fail separately.  The driver runs one training attempt. *)
(* The manager keeps the replay window in memory and in a journal file.    *)
(* The serving owner and its queue outlive both; when they are lost the    *)
(* whole session is, and the next attempt starts cold from the checkpoint. *)
(* A manager runs one call at a time, so a call of a dead driver ends      *)
(* before the next driver is served; every durable write is a step, and a  *)
(* call may raise, or its manager die, between any two of them.            *)
(*                                                                         *)
(* A batch is known by its rollout; its data is the raw collection and,    *)
(* once converted, the global training batch.                              *)
(***************************************************************************)
EXTENDS Integers, FiniteSets

CONSTANTS
    NumRollouts,    \* num_rollout: rollouts of the job
    MaxAttempts,    \* bound: drivers started
    MaxDeaths,      \* bound: manager deaths
    MaxSessions     \* bound: serving owners, one after the other

ASSUME NumRolloutsAssumption == NumRollouts \in Nat \ {0}
ASSUME BoundsAssumption == MaxAttempts \in Nat /\ MaxDeaths \in Nat /\ MaxSessions \in Nat

Rollout  == 0..(NumRollouts - 1)
Boundary == 0..NumRollouts          \* start_rollout_id of a checkpoint

VARIABLES
    \* ServingCluster
    session,        \* which serving owner this is
    attachments,    \* drivers it has accepted
    reused,         \* deployment.reused, as the current driver was told
    \* the queue it owns: which rollouts are accepted, converted, trained
    accepted, ready, finished,
    \* durable storage
    pins,           \* store.retain: <<incarnation, rollout, "raw" or "converted">>
    journal, journalExists,
    committed,      \* joint checkpoints, by rollout
    \* RolloutManager and its TrainingRecovery
    managerAt, call, target,
    retainedServing,    \* reused, as the manager was constructed with
    memory,         \* the fields persist() writes
    released,       \* batches dropped from the window whose storage is still held
    incarnations,   \* incarnation ids given out
    deaths,
    \* the driver
    driverAt, rollout, attempts

serving == <<session, attachments, reused>>
queue   == <<accepted, ready, finished>>
disk    == <<pins, journal, journalExists, committed>>
manager == <<managerAt, call, target, retainedServing, memory, released, incarnations, deaths>>
driver  == <<driverAt, rollout, attempts>>
vars    == <<serving, queue, disk, manager, driver>>

Batch == {"absent", "raw", "converted"}
Data  == {"raw", "converted"}

(* What persist() writes.  origin is the session whose queue the window     *)
(* describes; the code has no such field.                                   *)
Memory == [incarnation : Nat, origin : Nat, loaded : BOOLEAN, start : Boundary,
           batches : [Rollout -> Batch]]

Empty == [r \in Rollout |-> "absent"]
NewMemory(i, s) ==
    [incarnation |-> i, origin |-> s, loaded |-> FALSE, start |-> 0, batches |-> Empty]

Init ==
    /\ session = 1 /\ attachments = 0 /\ reused = FALSE
    /\ accepted = {} /\ ready = {} /\ finished = {}
    /\ pins = {} /\ journal = NewMemory(0, 0) /\ journalExists = FALSE /\ committed = {}
    /\ managerAt = "dead" /\ call = "init" /\ target = 0 /\ retainedServing = FALSE
    /\ memory = NewMemory(0, 0)
    /\ released = {} /\ incarnations = 0 /\ deaths = 0
    /\ driverAt = "none" /\ rollout = 0 /\ attempts = 0

Retained(m) == {r \in Rollout : m.batches[r] # "absent"}

(* The storage a window pins: one owner per incarnation and rollout. *)
RawPin(m, r)  == <<m.incarnation, r, "raw">>
BothPins(m, r) == {RawPin(m, r), <<m.incarnation, r, "converted">>}
PinsOf(m, rs) == UNION {BothPins(m, r) : r \in rs}

(* The start id of a cold attempt: after the newest joint checkpoint. *)
ColdStart(b) == /\ b > 0 => b - 1 \in committed
                /\ \A c \in committed : c < b

-----------------------------------------------------------------------------
(* A call of the manager ends; the driver that made it goes on. *)

ResumeAt(c) == CASE c = "attach"   -> "register"
                 [] c = "register" -> "load"
                 [] c = "load"     -> "generate"
                 [] c = "generate" -> "train"
                 [] c = "finish"   -> "save?"
                 [] c = "commit"   -> "next"

Awaiting == driverAt = "waiting"

Returned(c) ==
    /\ managerAt' = "idle"
    /\ driverAt' = IF Awaiting THEN ResumeAt(c) ELSE driverAt

(* What no step of a call changes. *)
Framed == UNCHANGED <<serving, call, retainedServing, incarnations, deaths, rollout, attempts>>

Goto(at) == managerAt' = at /\ UNCHANGED driverAt

(* The manager process starts: TrainingRecovery.__init__.  A journal is     *)
(* read if the serving owner was reused; otherwise its storage is released. *)
OpenJournal ==
    /\ managerAt = "open journal"
    /\ \/ /\ journalExists /\ retainedServing
          /\ memory' = journal
          /\ Goto("reconcile collection")
          /\ UNCHANGED <<pins, incarnations>>
       \/ /\ ~(journalExists /\ retainedServing)
          /\ incarnations' = incarnations + 1
          /\ memory' = NewMemory(incarnations + 1, session)
          /\ pins' = IF journalExists THEN pins \ PinsOf(journal, Retained(journal)) ELSE pins
          /\ Goto("persist manager")
    /\ UNCHANGED <<serving, queue, journal, journalExists, committed, call, target,
                   retainedServing, released, deaths, rollout, attempts>>

Persisted == journal' = memory /\ journalExists' = TRUE

(* The end of RolloutManager.__init__: the manager now takes calls. *)
PersistManager ==
    /\ managerAt = "persist manager"
    /\ Persisted
    /\ Goto("idle")
    /\ Framed /\ UNCHANGED <<queue, pins, committed, target, memory, released>>

-----------------------------------------------------------------------------
(* reconcile_collection, in __init__ and in attach_training *)

AfterReconcile == IF call = "init" THEN Goto("persist manager") ELSE Returned(call)

(* The only rollout that can be accepted and not retained: the one after    *)
(* the newest batch, or the first one if there is no batch.                 *)
NextRollout(m, r) ==
    /\ \A s \in Retained(m) : s < r
    /\ IF Retained(m) = {} THEN r = m.start ELSE r - 1 \in Retained(m)

LostCollectionForgotten(r) == FALSE

LostCollection(r) == NextRollout(memory, r)

ReconcileRaw ==
    /\ managerAt = "reconcile collection"
    /\ \/ ~memory.loaded /\ AfterReconcile /\ UNCHANGED target
       \/ /\ memory.loaded
          /\ \E r \in accepted : LostCollection(r) /\ target' = r /\ Goto("remember raw")
       \/ /\ memory.loaded
          /\ \A r \in accepted : ~LostCollection(r)
          /\ Goto("reconcile conversions") /\ UNCHANGED target
    /\ Framed /\ UNCHANGED <<queue, disk, memory, released>>

LostConversionsIgnored == {}

(* Conversions the queue committed and the window does not list. *)
LostConversions == {r \in ready : memory.batches[r] = "raw"}

ReconcileConverted ==
    /\ managerAt = "reconcile conversions"
    /\ \/ /\ LostConversions = {}
          /\ AfterReconcile /\ UNCHANGED target
       \/ \E r \in LostConversions : target' = r /\ Goto("retain converted")
    /\ Framed /\ UNCHANGED <<queue, disk, memory, released>>

RememberRawNewest ==
    /\ managerAt = "remember raw"
    /\ memory' = [memory EXCEPT !.batches = [Empty EXCEPT ![target] = "raw"]]
    /\ Goto("retain raw")
    /\ Framed /\ UNCHANGED <<queue, disk, target, released>>

(* remember_raw: the batch enters the window ... *)
RememberRaw ==
    /\ managerAt = "remember raw"
    /\ memory' = [memory EXCEPT !.batches[target] = "raw"]
    /\ Goto("retain raw")
    /\ Framed /\ UNCHANGED <<queue, disk, target, released>>

(* ... its data is pinned ... *)
RetainRaw ==
    /\ managerAt = "retain raw"
    /\ pins' = pins \cup {RawPin(memory, target)}
    /\ Goto("persist raw")
    /\ Framed /\ UNCHANGED <<queue, journal, journalExists, committed, target, memory, released>>

(* ... and then the journal is written. *)
PersistRaw ==
    /\ managerAt = "persist raw"
    /\ Persisted
    /\ Goto(IF call = "generate" THEN "begin" ELSE "reconcile conversions")
    /\ Framed /\ UNCHANGED <<queue, pins, committed, target, memory, released>>

(* remember_converted: pinned, but not entered in the window. *)
RetainConvertedOnly ==
    /\ managerAt = "retain converted"
    /\ pins' = pins \cup BothPins(memory, target)
    /\ Goto("persist converted")
    /\ Framed /\ UNCHANGED <<queue, journal, journalExists, committed, target, memory, released>>

(* remember_converted: the conversion is pinned with its raw data before the *)
(* window refers to it ...                                                   *)
RetainConverted ==
    /\ managerAt = "retain converted"
    /\ pins' = pins \cup BothPins(memory, target)
    /\ memory' = [memory EXCEPT !.batches[target] = "converted"]
    /\ Goto("persist converted")
    /\ Framed /\ UNCHANGED <<queue, journal, journalExists, committed, target, released>>

(* ... and then the journal is written. *)
PersistConverted ==
    /\ managerAt = "persist converted"
    /\ Persisted
    /\ IF call = "generate" THEN Returned(call) ELSE Goto("reconcile conversions")
    /\ Framed /\ UNCHANGED <<queue, pins, committed, target, memory, released>>

-----------------------------------------------------------------------------
(* attach_training and checkpoint_committed *)

UnknownCommitMissed(c) == FALSE

(* The newest joint commit, if the window does not know of it. *)
UnknownCommit(c) == /\ memory.loaded /\ c \in committed /\ c >= memory.start
                    /\ \A d \in committed : d <= c

ReconcileCheckpoint ==
    /\ managerAt = "reconcile checkpoint"
    /\ \/ \E c \in committed :
             UnknownCommit(c) /\ target' = c /\ Goto("drop batches")
       \/ /\ \A c \in committed : ~UnknownCommit(c)
          /\ Goto("reconcile collection") /\ UNCHANGED target
    /\ Framed /\ UNCHANGED <<queue, disk, memory, released>>

BoundaryAfterTwo(c) == c + 2

(* Training resumes after the committed rollout. *)
BoundaryAfter(c) == c + 1

(* Only a committed model lets go of a batch. *)
Covered(r) == r <= target

Shrunk ==
    /\ managerAt = "drop batches"
    /\ released' = {r \in Retained(memory) : Covered(r)}
    /\ memory' = [memory EXCEPT !.start = BoundaryAfter(target),
                    !.batches = [r \in Rollout |-> IF Covered(r) THEN "absent" ELSE @[r]]]
    /\ Goto("persist boundary")
    /\ Framed /\ UNCHANGED <<queue, journal, journalExists, committed, target>>

(* The storage goes before the new boundary is durable. *)
DropBatchesEarly == Shrunk /\ pins' = pins \ PinsOf(memory, released')

(* checkpoint_committed: the boundary moves and the window shrinks ... *)
DropBatches == Shrunk /\ UNCHANGED pins

(* ... release_batches persists it, and only then releases the storage. *)
PersistBoundary ==
    /\ managerAt = "persist boundary"
    /\ Persisted
    /\ Goto("release storage")
    /\ Framed /\ UNCHANGED <<queue, pins, committed, target, memory, released>>

ReleaseStorage ==
    /\ managerAt = "release storage"
    /\ pins' = pins \ PinsOf(memory, released)
    /\ released' = {}
    /\ \/ call = "attach" /\ Goto("reconcile collection")
       \/ call = "commit" /\ Returned(call)
       \/ call = "dispose" /\ Goto("remove journal")
    /\ Framed /\ UNCHANGED <<queue, journal, journalExists, committed, target, memory>>

(* resume_role writes the journal once more when trainers register. *)
RegisterTrainers ==
    /\ managerAt = "persist role"
    /\ Persisted
    /\ Returned(call)
    /\ Framed /\ UNCHANGED <<queue, pins, committed, target, memory, released>>

(* RolloutManager.load and initial_load_completed: nothing to do for a      *)
(* window that is already loaded.                                           *)
Load ==
    /\ managerAt = "load"
    /\ IF memory.loaded
       THEN Returned(call) /\ UNCHANGED memory
       ELSE /\ memory' = [memory EXCEPT !.loaded = TRUE, !.start = target]
            /\ Goto("persist load")
    /\ Framed /\ UNCHANGED <<queue, disk, target, released>>

PersistLoad ==
    /\ managerAt = "persist load"
    /\ Persisted
    /\ Returned(call)
    /\ Framed /\ UNCHANGED <<queue, pins, committed, target, memory, released>>

-----------------------------------------------------------------------------
(* RolloutManager._generate *)

Generate ==
    /\ managerAt = "generate"
    /\ \/ memory.batches[target] = "converted" /\ Returned(call)
       \/ memory.batches[target] = "raw" /\ Goto("begin")
       \/ memory.batches[target] = "absent" /\ Goto("collect")
    /\ Framed /\ UNCHANGED <<queue, disk, target, memory, released>>

(* accept_raw_rollout: the queue commits the collection.  It has one        *)
(* collection task per rollout: a second result for it is refused.          *)
Collect ==
    /\ managerAt = "collect" /\ target \notin accepted
    /\ accepted' = accepted \cup {target}
    /\ Goto("remember raw")
    /\ Framed /\ UNCHANGED <<ready, finished, disk, target, memory, released>>

(* BatchBuilder.begin: a conversion the queue already has is split again    *)
(* and returned as it is; it does not pass remember_converted.              *)
Begin ==
    /\ managerAt = "begin"
    /\ IF target \in ready THEN Returned(call) ELSE Goto("publish converted")
    /\ Framed /\ UNCHANGED <<queue, disk, target, memory, released>>

(* publish_converted: ready_batch commits the conversion of a collection in  *)
(* this queue's log; it raises if the log has no commit at its positions.    *)
PublishConverted ==
    /\ managerAt = "publish converted" /\ target \in accepted
    /\ ready' = ready \cup {target}
    /\ Goto("retain converted")
    /\ Framed /\ UNCHANGED <<accepted, finished, disk, target, memory, released>>

(* training_completed: finish_batch; from now on the queue may erase the data. *)
FinishBatch ==
    /\ managerAt = "finish" /\ target \in ready
    /\ finished' = finished \cup {target}
    /\ Returned(call)
    /\ Framed /\ UNCHANGED <<accepted, ready, disk, target, memory, released>>

(* dispose: the window is emptied, and its journal removed. *)
Dispose ==
    /\ managerAt = "dispose"
    /\ released' = Retained(memory)
    /\ memory' = [memory EXCEPT !.batches = Empty]
    /\ Goto("persist boundary")
    /\ Framed /\ UNCHANGED <<queue, disk, target>>

(* The driver, if it is still there, terminates both actors. *)
Disposed == /\ managerAt' = IF Awaiting THEN "dead" ELSE "idle"
            /\ driverAt' = IF Awaiting THEN "done" ELSE driverAt

RemoveJournal ==
    /\ managerAt = "remove journal"
    /\ journalExists' = FALSE
    /\ Disposed
    /\ Framed /\ UNCHANGED <<queue, pins, journal, committed, target, memory, released>>

ManagerStep ==
    \/ OpenJournal \/ PersistManager \/ ReconcileRaw \/ ReconcileConverted
    \/ RememberRaw \/ RetainRaw \/ PersistRaw \/ RetainConverted \/ PersistConverted
    \/ ReconcileCheckpoint \/ DropBatches \/ PersistBoundary \/ ReleaseStorage
    \/ RegisterTrainers \/ Load \/ PersistLoad
    \/ Generate \/ Collect \/ Begin \/ PublishConverted \/ FinishBatch
    \/ Dispose \/ RemoveJournal

-----------------------------------------------------------------------------
(* The driver *)

(* _attach_rollout_manager: ServingCluster.attach_training admits a driver  *)
(* when the previous one is dead, and tells it whether it is the first.     *)
Reused == attachments > 0

AttachServing ==
    /\ driverAt = "none" /\ attempts < MaxAttempts
    /\ attempts' = attempts + 1
    /\ reused' = Reused
    /\ attachments' = attachments + 1
    /\ driverAt' = "attach"
    /\ UNCHANGED <<session, queue, disk, manager, rollout>>

(* The named manager is created if it does not exist, and called either way. *)
CreateManager ==
    /\ driverAt = "attach" /\ managerAt = "dead"
    /\ managerAt' = "open journal" /\ call' = "init"
    /\ retainedServing' = reused
    /\ driverAt' = "bind"
    /\ UNCHANGED <<serving, queue, disk, target, memory, released, incarnations, deaths,
                   rollout, attempts>>

FindManager ==
    /\ driverAt = "attach" /\ managerAt # "dead"
    /\ driverAt' = "bind"
    /\ UNCHANGED <<serving, queue, disk, manager, rollout, attempts>>

(* One outstanding call per driver, served when the manager is free. *)
Call(from, c, at) ==
    /\ driverAt = from /\ managerAt = "idle"
    /\ driverAt' = "waiting" /\ managerAt' = at /\ call' = c
    /\ UNCHANGED <<serving, queue, disk, retainedServing, memory, released, incarnations,
                   deaths, attempts>>
CallWith(from, c, at) == Call(from, c, at) /\ target' = rollout /\ UNCHANGED rollout

AttachManager ==
    Call("bind", "attach", "reconcile checkpoint") /\ UNCHANGED <<target, rollout>>

(* Trainers start from the retained boundary, or from the newest commit. *)
CreateModels ==
    /\ Call("register", "register", "persist role")
    /\ \E b \in Boundary : /\ IF memory.loaded THEN b = memory.start ELSE ColdStart(b)
                           /\ rollout' = b
    /\ UNCHANGED target

LoadRollout == CallWith("load", "load", "load")

CallGenerate == rollout < NumRollouts /\ CallWith("generate", "generate", "generate")

CallFinish == CallWith("train", "finish", "finish")

(* save_checkpoint refuses to overwrite a commit; otherwise it publishes    *)
(* one after the model and rollout saves, and tells the manager last.  The  *)
(* last rollout is always saved; the interval decides about the others.     *)
CommitCheckpoint ==
    /\ driverAt = "save?" /\ rollout \notin committed
    /\ committed' = committed \cup {rollout}
    /\ driverAt' = "notify"
    /\ UNCHANGED <<serving, queue, pins, journal, journalExists, manager, rollout, attempts>>

SkipCheckpoint ==
    /\ driverAt = "save?" /\ rollout + 1 < NumRollouts
    /\ driverAt' = "next"
    /\ UNCHANGED <<serving, queue, disk, manager, rollout, attempts>>

NotifyCommit == CallWith("notify", "commit", "drop batches")

NextIteration ==
    /\ driverAt = "next"
    /\ rollout' = rollout + 1 /\ driverAt' = "generate"
    /\ UNCHANGED <<serving, queue, disk, manager, attempts>>

(* close(failed=False) *)
Finish == rollout = NumRollouts /\ CallWith("generate", "dispose", "dispose")

DriverStep ==
    \/ CreateManager \/ FindManager \/ AttachManager \/ CreateModels \/ LoadRollout
    \/ CallGenerate \/ CallFinish \/ CommitCheckpoint \/ SkipCheckpoint \/ NotifyCommit
    \/ NextIteration \/ Finish

-----------------------------------------------------------------------------
(* Failures *)

Attempting == driverAt \notin {"none", "done"}

(* A call raises where it stands; a constructor that raises ends its actor. *)
CallRaises ==
    /\ managerAt \notin {"dead", "idle"} /\ call # "dispose"
    /\ managerAt' = IF call = "init" THEN "dead" ELSE "idle"
    /\ released' = {}
    /\ driverAt' = IF Awaiting \/ (driverAt = "bind" /\ call = "init") THEN "none" ELSE driverAt
    /\ Framed /\ UNCHANGED <<queue, disk, target, memory>>

(* Cleanup runs every step of dispose even if an earlier one raised. *)
DisposeRaises ==
    /\ managerAt \notin {"dead", "idle"} /\ call = "dispose"
    /\ IF managerAt = "remove journal" THEN Disposed ELSE Goto("remove journal")
    /\ Framed /\ UNCHANGED <<queue, disk, target, memory, released>>

ManagerDies ==
    /\ managerAt # "dead" /\ deaths < MaxDeaths
    /\ deaths' = deaths + 1 /\ managerAt' = "dead" /\ released' = {}
    /\ driverAt' = IF Awaiting THEN "none" ELSE driverAt
    /\ UNCHANGED <<serving, queue, disk, call, target, retainedServing, memory, incarnations,
                   rollout, attempts>>

(* A driver finds its manager gone at its next call. *)
CallFails ==
    /\ driverAt \in {"bind", "register", "load", "generate", "train", "notify"} /\ managerAt = "dead"
    /\ driverAt' = "none"
    /\ UNCHANGED <<serving, queue, disk, manager, rollout, attempts>>

DriverDies ==
    /\ Attempting
    /\ driverAt' = "none"
    /\ UNCHANGED <<serving, queue, disk, manager, rollout, attempts>>

(* The job is stopped: serving, queue and manager go; the files stay. *)
SessionLost ==
    /\ session < MaxSessions /\ driverAt # "done"
    /\ session' = session + 1 /\ attachments' = 0
    /\ accepted' = {} /\ ready' = {} /\ finished' = {}
    /\ managerAt' = "dead" /\ released' = {} /\ driverAt' = "none"
    /\ UNCHANGED <<reused, disk, call, target, retainedServing, memory, incarnations, deaths,
                   rollout, attempts>>

Failure == CallRaises \/ DisposeRaises \/ ManagerDies \/ CallFails \/ DriverDies \/ SessionLost

Next == ManagerStep \/ AttachServing \/ DriverStep \/ Failure

Spec == Init /\ [][Next]_vars

(* The queue refuses what it cannot commit, and the call that asked raises. *)
Refused ==
    /\ \/ managerAt = "collect" /\ target \in accepted
       \/ managerAt = "publish converted" /\ target \notin accepted
       \/ managerAt = "finish" /\ target \notin ready
    /\ CallRaises

(* The two processes run, and a call that is refused, or made to a dead      *)
(* manager, raises.  Nothing forces another failure, nor the operator's      *)
(* restart of a failed attempt.                                              *)
FairSpec == Spec /\ WF_vars(ManagerStep) /\ WF_vars(DriverStep) /\ WF_vars(CallFails) /\ WF_vars(Refused)

-----------------------------------------------------------------------------
ManagerAt ==
    {"dead", "idle", "open journal", "persist manager", "reconcile checkpoint",
     "reconcile collection", "reconcile conversions", "remember raw", "retain raw", "persist raw",
     "retain converted", "persist converted", "drop batches", "persist boundary",
     "release storage", "persist role", "load", "persist load", "generate", "collect",
     "begin", "publish converted", "finish", "dispose", "remove journal"}
Calls == {"init", "attach", "register", "load", "generate", "finish", "commit", "dispose"}
DriverAt == {"none", "attach", "bind", "waiting", "register", "load", "generate", "train", "save?",
             "notify", "next", "done"}

ServingOK == session \in Nat /\ attachments \in Nat /\ reused \in BOOLEAN
QueueOK == accepted \subseteq Rollout /\ ready \subseteq Rollout /\ finished \subseteq Rollout
DiskOK ==
    /\ pins \subseteq (Nat \X Rollout \X Data)
    /\ journal \in Memory /\ journalExists \in BOOLEAN /\ committed \subseteq Rollout
ManagerOK ==
    /\ managerAt \in ManagerAt /\ call \in Calls /\ target \in Boundary
    /\ retainedServing \in BOOLEAN /\ incarnations \in Nat /\ deaths \in Nat
WindowOK == memory \in Memory /\ released \subseteq Rollout
DriverOK == driverAt \in DriverAt /\ rollout \in Boundary /\ attempts \in Nat

(* Every field of the recovery state keeps its type; in particular the       *)
(* checkpoint boundary and the rollout the driver asks for stay within the   *)
(* job, and only batches of the job are retained, released or pinned.        *)
TypeOK == ServingOK /\ QueueOK /\ DiskOK /\ ManagerOK /\ WindowOK /\ DriverOK

Current(m) == m.origin = session
(* What a window lists can be read: it is pinned, or the queue, which has    *)
(* not seen the batch finished, still holds it.                              *)
Readable(m) == \A r \in Rollout :
    /\ m.batches[r] = "converted" => BothPins(m, r) \subseteq pins
    /\ m.batches[r] = "raw" => RawPin(m, r) \in pins \/ r \in accepted \ finished

(* A journal never points to storage that may be collected: while its        *)
(* serving owner lives, everything it lists is pinned or still queued,       *)
(* whichever step of remember_raw, remember_converted or release_batches     *)
(* was the last, or raised.                                                  *)
JournalReadable == journalExists /\ Current(journal) => Readable(journal)

Loaded == /\ managerAt \notin {"dead", "open journal"}
          /\ memory.loaded /\ Current(memory)

(* The manager never generates a rollout the queue has already accepted:     *)
(* reconcile_collection finds the one that was accepted and not journalled.  *)
NoRegeneration == Loaded /\ managerAt = "collect" => target \notin accepted

(* A trained batch that no checkpoint covers is in the window, converted:    *)
(* finish_batch lets the queue erase it, so a restarted trainer has no       *)
(* other source for it.                                                      *)
FinishedRetained ==
    journalExists /\ Current(journal) =>
        \A r \in finished : journal.batches[r] = "converted" \/ \E c \in committed : c >= r

(* An attempt never trains up to a checkpoint that is already committed:     *)
(* save_checkpoint would refuse it, and the attempt could never pass it.     *)
NoRecommit == driverAt = "save?" => rollout \notin committed

(* Generation is sequential: of the rollouts the queue has accepted since    *)
(* the checkpoint, at most the next one is missing from the window.  The     *)
(* search of reconcile_collection is complete only because of this.          *)
WindowComplete ==
    Loaded => \A r \in accepted : \/ r < memory.start
                                   \/ memory.batches[r] # "absent"
                                   \/ NextRollout(memory, r)

(* An attempt ends: it fails, or it trains the last rollout and disposes of  *)
(* the session.  Reconciliation does not go round for ever.                  *)
AttemptEnds == driverAt = "attach" ~> driverAt \in {"none", "done"}
=============================================================================
