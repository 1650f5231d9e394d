---------------------------- MODULE RolloutQueue ----------------------------
(***************************************************************************)
(* The durable rollout queue (vime/data/queue_data_source.py) while its    *)
(* controller lives: prompt and delivery tasks under leases, the log of    *)
(* accepted results, the training cursor behind which storage may be       *)
(* collected, the readers, and managers that die and are replaced.         *)
(*                                                                         *)
(* A step is one call of the controller, or one queue operation of a call  *)
(* that makes several.  The queue itself (straw) serialises them.          *)
(*                                                                         *)
(* Positions of the log start at 1, so a cursor c has passed 1..c.         *)
(* Payloads are left out: a group is its number.                           *)
(***************************************************************************)
EXTENDS Integers, Sequences, SequencesExt, FiniteSets, FiniteSetsExt

CONSTANTS
    Readers,        \* reader names within one manager
    Batch,          \* rollout_batch_size
    RefillSize,     \* groups one refill reads
    MaxGroups,      \* bound: prompts in the dataset
    MaxRollouts,    \* bound: rollouts the driver runs
    MaxManagers,    \* bound: managers one after the other
    MaxDeaths,      \* bound: readers that die before their manager
    MaxReturns,     \* bound: groups returned unfinished
    MaxRejects,     \* bound: groups the filter drops
    MaxExpiries,    \* bound: leases that time out
    MaxRestarts,    \* bound: attempts that fail while their manager lives
    MaxFailures     \* bound: collections that fail before they are accepted

ASSUME SizesAssumption == Batch \in Nat \ {0} /\ RefillSize \in Nat \ {0}
ASSUME BoundsAssumption ==
    /\ MaxGroups \in Nat /\ MaxRollouts \in Nat \ {0} /\ MaxManagers \in Nat \ {0}
    /\ MaxDeaths \in Nat /\ MaxReturns \in Nat /\ MaxRejects \in Nat /\ MaxExpiries \in Nat
    /\ MaxRestarts \in Nat /\ MaxFailures \in Nat

Group    == 1..MaxGroups
Rollout  == 1..MaxRollouts
Reader   == (1..MaxManagers) \X Readers      \* a reader id: generation and name
NoReader == <<>>
Restoring == {"reconcile", "fence", "deliver"}    \* a new manager before it serves
Fault    == {"death", "return", "reject", "expiry", "restart", "failure"}

VARIABLES
    \* the controller
    produced,       \* dataset cursor: prompts 1..produced have tasks
    tasks,          \* prompt and delivery tasks, in the order of submission
    planned,        \* input positions of each rollout's batch task
    log,            \* accepted results: groups, collections, conversions
    cursor, processed,
    active, retired,
    \* the readers
    reader,
    \* the manager of this generation
    generation, managerAt, rollout,
    ready,          \* positions received and not selected
    collecting,     \* positions of the batch under way
    toFence, recovered,
    \* its journal
    source,         \* generation of the saved source state
    window,         \* replay window
    boundary,       \* last rollout of the newest checkpoint
    faults

controller == <<produced, tasks, planned, log, cursor, processed, active, retired>>
journal    == <<source, window, boundary>>
memory     == <<managerAt, rollout, ready, collecting, toFence, recovered>>
vars       == <<controller, reader, generation, memory, journal, faults>>

Idle == [at |-> "idle", task |-> 0, attempt |-> 0, position |-> 0]

Init ==
    /\ produced = 0 /\ tasks = <<>> /\ planned = [n \in Rollout |-> {}] /\ log = <<>>
    /\ cursor = 0 /\ processed = {} /\ active = {} /\ retired = {}
    /\ reader = [r \in Reader |-> IF r[1] = 1 THEN Idle ELSE [Idle EXCEPT !.at = "none"]]
    /\ generation = 1 /\ managerAt = "generate" /\ rollout = 1
    /\ ready = {} /\ collecting = {} /\ toFence = {} /\ recovered = {}
    /\ source = 1 /\ window = [n \in Rollout |-> "absent"] /\ boundary = 0
    /\ faults = [f \in Fault |-> 0]

Suffer(fault, bound) ==
    /\ faults[fault] < bound
    /\ faults' = [faults EXCEPT ![fault] = @ + 1]

-----------------------------------------------------------------------------
(* The log and the training cursor *)

Positions(kind, n) == {p \in DOMAIN log : log[p].kind = kind /\ log[p].rollout = n}

(* The source positions in the metadata of the task behind a result. *)
SourcesOf(p) ==
    CASE log[p].kind = "group"      -> tasks[log[p].task].sources
      [] log[p].kind = "collection" -> {}
      [] log[p].kind = "batch"      -> planned[log[p].rollout]

Processed(p) == p <= cursor \/ p \in processed

(* How far the acknowledged positions reach without a gap. *)
EndOfPrefix(done) == CHOOSE c \in cursor..Len(log) : (cursor + 1)..c \subseteq done /\ c + 1 \notin done

(* _advance: acknowledge P and the earlier versions it replaces, then move the *)
(* cursor to the first position that is not acknowledged.                      *)
Advance(P) ==
    LET new  == {p \in P \ processed : p > cursor}
        done == {p \in processed \cup P \cup UNION {SourcesOf(p) : p \in new} : p > cursor}
    IN /\ cursor' = EndOfPrefix(done)
       /\ processed' = {p \in done : p > EndOfPrefix(done)}

-----------------------------------------------------------------------------
(* Readers.  One process holds one group at a time. *)

Held(r)  == reader[r].task
Valid(r) == tasks[Held(r)].state = "leased" /\ tasks[Held(r)].attempt = reader[r].attempt

Becomes(r, at) == reader' = [reader EXCEPT ![r] = [Idle EXCEPT !.at = at]]

(* take(): a retired reader is refused.  The test and the acquisition are    *)
(* separate steps of the controller.  An orphan goes on only if it has asked *)
(* before: the actors of a manager ask as soon as they are started.          *)
Ask(r) ==
    /\ reader[r].at = "idle"
    /\ r[1] = generation \/ r \in active
    /\ r[1] = generation => managerAt \notin Restoring
    /\ active' = active \cup {r}
    /\ Becomes(r, IF r \in retired THEN "failed" ELSE "asking")
    /\ UNCHANGED <<produced, tasks, planned, log, cursor, processed, retired, generation, memory, journal, faults>>

Pending == {t \in DOMAIN tasks : tasks[t].state = "pending"}

(* acquire: ready deliveries before partial groups before fresh prompts. *)
Acquire(r) ==
    /\ reader[r].at = "asking"
    /\ \E t \in Pending :
           /\ \A u \in Pending : tasks[u].stage <= tasks[t].stage
           /\ tasks' = [tasks EXCEPT ![t].state = "leased", ![t].worker = r, ![t].attempt = @ + 1]
           /\ reader' = [reader EXCEPT ![r] =
                  [at |-> "holding", task |-> t, attempt |-> tasks[t].attempt + 1, position |-> 0]]
    /\ UNCHANGED <<produced, planned, log, cursor, processed, active, retired, generation, memory, journal, faults>>

NewTask(g, sources, stage) ==
    [group |-> g, sources |-> sources, stage |-> stage, state |-> "pending", worker |-> NoReader, attempt |-> 0]

(* The refill under the producer lock: tasks and dataset cursor in one commit. *)
Refill(r) ==
    /\ reader[r].at = "asking" /\ Pending = {} /\ produced < MaxGroups
    /\ produced' = Min({produced + RefillSize, MaxGroups})
    /\ tasks' = tasks \o [i \in 1..(produced' - produced) |-> NewTask(produced + i, {}, 0)]
    /\ UNCHANGED <<planned, log, cursor, processed, active, retired, reader, generation, memory, journal, faults>>

CompleteUnchecked(r) ==
    /\ reader[r].at = "holding"
    /\ log' = Append(log, [kind |-> "group", task |-> Held(r), worker |-> r, rollout |-> 0, inputs |-> {}])
    /\ tasks' = [tasks EXCEPT ![Held(r)].state = "completed"]
    /\ reader' = [reader EXCEPT ![r] = [Idle EXCEPT !.at = "published", !.position = Len(log) + 1]]
    /\ UNCHANGED <<produced, planned, cursor, processed, active, retired, generation, memory, journal, faults>>

(* complete(): the result of a valid lease enters the log. *)
Complete(r) ==
    /\ reader[r].at = "holding"
    /\ IF Valid(r) /\ r \notin retired
       THEN /\ log' = Append(log, [kind |-> "group", task |-> Held(r), worker |-> r, rollout |-> 0, inputs |-> {}])
            /\ tasks' = [tasks EXCEPT ![Held(r)].state = "completed"]
            /\ reader' = [reader EXCEPT ![r] = [Idle EXCEPT !.at = "published", !.position = Len(log) + 1]]
       ELSE Becomes(r, "failed") /\ UNCHANGED <<log, tasks>>
    /\ UNCHANGED <<produced, planned, cursor, processed, active, retired, generation, memory, journal, faults>>

(* add_samples() of an unfinished group: its task is pending again, with the  *)
(* new input, or with the old one when the capture is incomplete.             *)
Return(r) ==
    /\ reader[r].at = "holding" /\ Suffer("return", MaxReturns)
    /\ IF Valid(r)
       THEN /\ \E s \in tasks[Held(r)].stage..Max({1, tasks[Held(r)].stage}) :
                   tasks' = [tasks EXCEPT ![Held(r)].state = "pending", ![Held(r)].stage = s]
            /\ Becomes(r, "idle")
       ELSE Becomes(r, "failed") /\ UNCHANGED tasks
    /\ UNCHANGED <<produced, planned, log, cursor, processed, active, retired, generation, memory, journal>>

RejectSilently(r) ==
    /\ reader[r].at = "holding" /\ Suffer("reject", MaxRejects) /\ Valid(r)
    /\ tasks' = [tasks EXCEPT ![Held(r)].state = "failed"]
    /\ Becomes(r, "idle")
    /\ UNCHANGED <<produced, planned, log, cursor, processed, active, retired, generation, memory, journal>>

(* reject(): the task ends, and what it had replaced is acknowledged. *)
Reject(r) ==
    /\ reader[r].at = "holding" /\ Suffer("reject", MaxRejects)
    /\ IF Valid(r)
       THEN /\ tasks' = [tasks EXCEPT ![Held(r)].state = "failed"]
            /\ Advance(tasks[Held(r)].sources)
            /\ Becomes(r, "idle")
       ELSE Becomes(r, "failed") /\ UNCHANGED <<tasks, cursor, processed>>
    /\ UNCHANGED <<produced, planned, log, active, retired, generation, memory, journal>>

(* straw: a lease that was not renewed in time. *)
Expire(t) ==
    /\ tasks[t].state = "leased" /\ Suffer("expiry", MaxExpiries)
    /\ tasks' = [tasks EXCEPT ![t].state = "pending"]
    /\ UNCHANGED <<produced, planned, log, cursor, processed, active, retired, reader, generation, memory, journal>>

(* A reader of the running manager dies.  (An orphan may just take no step.) *)
ReaderDies(r) ==
    /\ r[1] = generation /\ managerAt # "dead" /\ reader[r].at \notin {"none", "dead"}
    /\ Suffer("death", MaxDeaths)
    /\ Becomes(r, "dead")
    /\ UNCHANGED <<controller, generation, memory, journal>>

ReaderStep(r) == Ask(r) \/ Acquire(r) \/ Refill(r) \/ Complete(r) \/ Return(r) \/ Reject(r) \/ ReaderDies(r)

-----------------------------------------------------------------------------
(* Recovery of what a reader published and nobody received *)

(* Positions that some task replaces: deliveries and batch tasks alike. *)
Superseded == UNION ({tasks[t].sources : t \in DOMAIN tasks} \cup {planned[n] : n \in Rollout})

RecoverableShort(r, delivered) ==
    {p \in DOMAIN log : log[p].kind = "group" /\ log[p].worker = r /\ ~Processed(p) /\ p \notin delivered}
        \ (Superseded \cup {cursor + 1})

(* Accepted from this reader, not acknowledged, delivered or replaced. *)
Recoverable(r, delivered) ==
    {p \in DOMAIN log : log[p].kind = "group" /\ log[p].worker = r /\ ~Processed(p) /\ p \notin delivered}
        \ Superseded

(* Its leases end and its later calls are refused. *)
Fence(r) ==
    /\ retired' = retired \cup {r}
    /\ tasks' = [t \in DOMAIN tasks |->
           IF tasks[t].state = "leased" /\ tasks[t].worker = r
           THEN [tasks[t] EXCEPT !.state = "pending"] ELSE tasks[t]]

(* The live manager retires a dead reader and receives its results itself. *)
RetireReader(r) ==
    /\ managerAt \notin Restoring \cup {"dead"}
    /\ r[1] = generation /\ reader[r].at = "dead" /\ r \notin retired
    /\ Fence(r)
    /\ ready' = ready \cup Recoverable(r, ready \cup collecting)
    /\ UNCHANGED <<produced, planned, log, cursor, processed, active, reader, generation, managerAt, rollout,
                   collecting, toFence, recovered, journal, faults>>

(* The answer of a completion reaches the manager. *)
Receive(r) ==
    /\ r[1] = generation /\ reader[r].at = "published" /\ managerAt # "dead"
    /\ ready' = ready \cup {reader[r].position}
    /\ Becomes(r, "idle")
    /\ UNCHANGED <<controller, generation, managerAt, rollout, collecting, toFence, recovered, journal, faults>>

-----------------------------------------------------------------------------
(* The manager *)

Retained == {n \in Rollout : window[n] # "absent"}

GoTo(at) == managerAt' = at /\ UNCHANGED <<ready, toFence, recovered>>

(* A new collection forgets the groups of the previous one. *)
ClearCollecting == collecting' = {}

(* _generate: a retained batch is replayed from where it got to; otherwise    *)
(* the scheduler starts a new collection.                                     *)
Generate ==
    /\ managerAt = "generate"
    /\ IF window[rollout] = "absent" THEN ClearCollecting ELSE UNCHANGED collecting
    /\ GoTo(CASE window[rollout] = "absent"    -> "collect"
              [] window[rollout] = "raw"       -> "begin"
              [] window[rollout] = "converted" -> "train")
    /\ UNCHANGED <<controller, reader, generation, rollout, journal, faults>>

(* Select a batch and accept it as a collection. *)
AcceptCollection ==
    /\ managerAt = "collect" /\ Positions("collection", rollout) = {}
    /\ \E S \in kSubset(Batch, ready) :
           /\ log' = Append(log, [kind |-> "collection", task |-> 0, worker |-> NoReader,
                                  rollout |-> rollout, inputs |-> S])
           /\ ready' = ready \ S /\ collecting' = S
    /\ managerAt' = "remember raw"
    /\ UNCHANGED <<produced, tasks, planned, cursor, processed, active, retired, reader, generation, rollout,
                   toFence, recovered, journal, faults>>

(* remember_raw: journal the batch, with the state of this manager's source. *)
RememberRaw ==
    /\ managerAt = "remember raw"
    /\ window' = [window EXCEPT ![rollout] = "raw"] /\ source' = generation
    /\ GoTo("begin")
    /\ UNCHANGED <<controller, reader, generation, rollout, collecting, boundary, faults>>

InputsOf(n) == UNION {log[c].inputs : c \in Positions("collection", n)}

(* The positions of a batch: its collection, its groups and what they replaced. *)
Plan(n) == Positions("collection", n) \cup InputsOf(n) \cup UNION {SourcesOf(p) : p \in InputsOf(n)}

PlanBatchAcknowledging ==
    /\ managerAt = "begin"
    /\ planned' = [planned EXCEPT ![rollout] = IF @ = {} THEN Plan(rollout) ELSE @]
    /\ Advance(Plan(rollout))
    /\ GoTo(IF Positions("batch", rollout) = {} THEN "convert" ELSE "train")
    /\ UNCHANGED <<produced, tasks, log, active, retired, reader, generation, rollout, collecting, journal, faults>>

(* begin: the plan becomes a batch task; a plan that exists is kept, and a   *)
(* conversion that exists is used.                                           *)
PlanBatch ==
    /\ managerAt = "begin"
    /\ planned' = [planned EXCEPT ![rollout] = IF @ = {} THEN Plan(rollout) ELSE @]
    /\ GoTo(IF Positions("batch", rollout) = {} THEN "convert" ELSE "train")
    /\ UNCHANGED <<produced, tasks, log, cursor, processed, active, retired, reader, generation, rollout,
                   collecting, journal, faults>>

(* ready_batch, first half: the conversion is accepted ... *)
AcceptBatch ==
    /\ managerAt = "convert" /\ Positions("batch", rollout) = {}
    /\ log' = Append(log, [kind |-> "batch", task |-> 0, worker |-> NoReader,
                           rollout |-> rollout, inputs |-> {}])
    /\ GoTo("advance")
    /\ UNCHANGED <<produced, tasks, planned, cursor, processed, active, retired, reader, generation, rollout,
                   collecting, journal, faults>>

(* ... then its inputs are acknowledged. *)
AdvanceInputs ==
    /\ managerAt = "advance"
    /\ Advance(planned[rollout])
    /\ GoTo("remember converted")
    /\ UNCHANGED <<produced, tasks, planned, log, active, retired, reader, generation, rollout, collecting,
                   journal, faults>>

RememberConverted ==
    /\ managerAt = "remember converted"
    /\ window' = [window EXCEPT ![rollout] = "converted"]
    /\ GoTo("train")
    /\ UNCHANGED <<controller, reader, generation, rollout, collecting, source, boundary, faults>>

(* The batch is trained on; finish_batch acknowledges its conversion. *)
FinishBatch ==
    /\ managerAt = "train"
    /\ Advance(Positions("batch", rollout))
    /\ GoTo("trained")
    /\ UNCHANGED <<produced, tasks, planned, log, active, retired, reader, generation, rollout, collecting,
                   journal, faults>>

(* A joint checkpoint ends the replay window. *)
Checkpoint ==
    /\ managerAt = "trained" /\ boundary < rollout
    /\ boundary' = rollout
    /\ window' = [n \in Rollout |-> IF n <= rollout THEN "absent" ELSE window[n]]
    /\ UNCHANGED <<controller, reader, generation, memory, source, faults>>

NextRollout ==
    /\ managerAt = "trained" /\ rollout < MaxRollouts
    /\ rollout' = rollout + 1
    /\ GoTo("generate")
    /\ UNCHANGED <<controller, reader, generation, collecting, journal, faults>>

(* The controller carries a call through whatever becomes of its caller. *)
CallEnds == IF managerAt = "advance" THEN Advance(planned[rollout]) ELSE UNCHANGED <<cursor, processed>>

(* An attempt fails and its manager survives. *)
Detach ==
    /\ managerAt \notin Restoring \cup {"dead", "detached"} /\ Suffer("restart", MaxRestarts)
    /\ CallEnds
    /\ GoTo("detached")
    /\ UNCHANGED <<produced, tasks, planned, log, active, retired, reader, generation, rollout, collecting, journal>>

(* The same, after groups were selected and before the queue accepted them:  *)
(* a batch hook or a write failed.                                           *)
CollectionFails ==
    /\ managerAt = "collect" /\ Suffer("failure", MaxFailures)
    /\ \E S \in kSubset(Batch, ready) : ready' = ready \ S /\ collecting' = S
    /\ managerAt' = "detached"
    /\ UNCHANGED <<controller, reader, generation, rollout, toFence, recovered, journal>>

(* reconcile_collection: the queue may have accepted what the journal misses. *)
Reconciled(n) ==
    LET raw == IF n = Max(Retained \cup {boundary}) + 1 /\ Positions("collection", n) # {}
               THEN "raw" ELSE window[n]
    IN IF raw = "raw" /\ Positions("batch", n) # {} THEN "converted" ELSE raw

NextAttempt ==
    /\ rollout' = Min({boundary + 1, MaxRollouts})
    /\ managerAt' = IF boundary < MaxRollouts THEN "generate" ELSE "trained"

(* attach_training on a live manager. *)
Reattach ==
    /\ managerAt = "detached"
    /\ window' = [n \in Rollout |-> Reconciled(n)]
    /\ NextAttempt
    /\ UNCHANGED <<controller, reader, generation, ready, collecting, toFence, recovered, source, boundary, faults>>

(* Its readers are orphans now: an answer on its way is lost. *)
ManagerDies ==
    /\ managerAt # "dead"
    /\ CallEnds
    /\ managerAt' = "dead" /\ rollout' = Min({boundary + 1, MaxRollouts})
    /\ ready' = {} /\ collecting' = {} /\ toFence' = {} /\ recovered' = {}
    /\ reader' = [r \in Reader |->
           CASE r[1] = generation /\ reader[r].at = "published" -> Idle
             [] r[1] = generation /\ reader[r].at = "failed"    -> [Idle EXCEPT !.at = "dead"]
             [] OTHER -> reader[r]]
    /\ UNCHANGED <<produced, tasks, planned, log, active, retired, generation, journal, faults>>

(* A new attempt creates a manager, which loads the journal. *)
StartManager ==
    /\ managerAt = "dead" /\ generation < MaxManagers
    /\ generation' = generation + 1 /\ managerAt' = "reconcile"
    /\ UNCHANGED <<controller, reader, rollout, ready, collecting, toFence, recovered, journal, faults>>

(* The readers to fence are those of the manager that last wrote the journal. *)
ReadersOfSource == {r \in active : r[1] = source}

Reconcile ==
    /\ managerAt = "reconcile"
    /\ window' = [n \in Rollout |-> Reconciled(n)]
    /\ toFence' = ReadersOfSource
    /\ managerAt' = "fence"
    /\ UNCHANGED <<controller, reader, generation, rollout, ready, collecting, recovered, source, boundary, faults>>

ExcludedNothing == {}

(* Groups of retained batches are not delivered again. *)
Excluded == UNION {InputsOf(n) \cup UNION {SourcesOf(p) : p \in InputsOf(n)} : n \in Retained}

(* recover_manager_readers: one reader of the dead manager after the other. *)
FenceReader(r) ==
    /\ managerAt = "fence" /\ r \in toFence
    /\ Fence(r)
    /\ toFence' = toFence \ {r}
    /\ recovered' = recovered \cup Recoverable(r, Excluded)
    /\ UNCHANGED <<produced, planned, log, cursor, processed, active, reader, generation, managerAt, rollout,
                   ready, collecting, journal, faults>>

AllFenced ==
    /\ managerAt = "fence" /\ toFence = {}
    /\ managerAt' = "deliver"
    /\ UNCHANGED <<controller, reader, generation, rollout, ready, collecting, toFence, recovered, journal, faults>>

(* restore_manager: each recovered result becomes a delivery task. *)
Deliver(p) ==
    /\ managerAt = "deliver" /\ p \in recovered
    /\ recovered' = recovered \ {p}
    /\ tasks' = Append(tasks, NewTask(tasks[log[p].task].group, SourcesOf(p) \cup {p}, 2))
    /\ UNCHANGED <<produced, planned, log, cursor, processed, active, retired, reader, generation, managerAt,
                   rollout, ready, collecting, toFence, journal, faults>>

(* The journal names the new readers' generation, and they start. *)
Restored ==
    /\ managerAt = "deliver" /\ recovered = {}
    /\ source' = generation
    /\ reader' = [r \in Reader |-> IF r[1] = generation THEN Idle ELSE reader[r]]
    /\ NextAttempt
    /\ UNCHANGED <<controller, generation, ready, collecting, toFence, recovered, window, boundary, faults>>

Manager ==
    \/ Generate \/ AcceptCollection \/ RememberRaw \/ PlanBatch \/ AcceptBatch \/ AdvanceInputs
    \/ RememberConverted \/ FinishBatch \/ Checkpoint \/ NextRollout
    \/ Detach \/ CollectionFails \/ Reattach \/ ManagerDies \/ StartManager \/ Reconcile \/ AllFenced \/ Restored
    \/ \E p \in recovered : Deliver(p)

Next ==
    \/ \E r \in Reader : ReaderStep(r) \/ RetireReader(r) \/ Receive(r) \/ FenceReader(r)
    \/ \E t \in DOMAIN tasks : Expire(t)
    \/ Manager

Spec == Init /\ [][Next]_vars

-----------------------------------------------------------------------------
(* Properties *)

GroupAt(p)    == tasks[log[p].task].group
GroupsOf(n)   == {GroupAt(p) : p \in InputsOf(n)}
TasksOf(g)    == {t \in DOMAIN tasks : tasks[t].group = g}
InState(g, S) == \E t \in TasksOf(g) : tasks[t].state \in S
IsOpen(g)     == InState(g, {"pending", "leased"})
Dropped(g)    == InState(g, {"failed"})
Collected(g)  == \E n \in Rollout : g \in GroupsOf(n)
Converted(n)  == Positions("batch", n) # {}

(* Where a group has got to, and the rollouts that have collected.             *)
PlaceOf(g) ==
    CASE TasksOf(g) = {} -> "unread"
      [] IsOpen(g)       -> "open"
      [] Dropped(g)      -> "dropped"
      [] Collected(g)    -> "batched"
      [] OTHER           -> "accepted"
Gathered == {n \in Rollout : Positions("collection", n) # {}}

(* Refinement: the queue, its readers and its managers deliver each prompt    *)
(* group to one batch, whatever fails on the way; a batch never holds two     *)
(* versions of one group, and the rollouts get their batches in order.        *)
Abstract == INSTANCE PromptDelivery WITH
    place <- [g \in Group |-> PlaceOf(g)], batches <- [n \in 1..Cardinality(Gathered) |-> GroupsOf(n)]

DeliveredOnce == Abstract!Spec

(* The cursor passes an accepted result only when its group was rejected or   *)
(* is in a conversion that was accepted: online GC never erases data that     *)
(* training, or a replacement manager, still needs.                           *)
RetentionSound ==
    \A p \in DOMAIN log : Processed(p) =>
        CASE log[p].kind = "group" ->
                 \/ Dropped(GroupAt(p))
                 \/ \E n \in Rollout : GroupAt(p) \in GroupsOf(n) /\ Converted(n)
          [] OTHER -> Converted(log[p].rollout)

(* The manager has the result of g or will have it. *)
Available(g) ==
    \E p \in DOMAIN log :
        /\ log[p].kind = "group" /\ GroupAt(p) = g
        /\ \/ p \in ready \cup collecting
           \/ \E r \in Reader : r[1] = generation /\ reader[r].at = "published" /\ reader[r].position = p
           \/ LET w == log[p].worker IN w[1] = generation /\ reader[w].at = "dead" /\ w \notin retired

Serving == managerAt \notin Restoring \cup {"dead"}

(* "Completed prefetch results that have not reached training remain           *)
(* available": under a serving manager an accepted group that is in no batch   *)
(* is in the manager's hands, on its way there, or open again.                 *)
CompletedAvailable ==
    Serving => \A g \in Group :
        TasksOf(g) # {} => IsOpen(g) \/ Dropped(g) \/ Collected(g) \/ Available(g)

(* Nothing is retained for ever: a result the cursor has not passed belongs to *)
(* a group still under way, or to a batch that will be trained again.          *)
RetentionReleased ==
    Serving => \A p \in DOMAIN log : ~Processed(p) =>
        CASE log[p].kind = "group" ->
                 \/ IsOpen(GroupAt(p)) \/ Available(GroupAt(p))
                 \/ \E n \in Rollout : n > boundary /\ GroupAt(p) \in GroupsOf(n)
          [] OTHER -> log[p].rollout > boundary
=============================================================================
