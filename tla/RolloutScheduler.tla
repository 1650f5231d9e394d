-------------------------- MODULE RolloutScheduler --------------------------
(***************************************************************************)
(* The distributed fully-async rollout                                     *)
(* (vime/rollout/fully_async_distributed.py): RolloutScheduler and         *)
(* DistributedRollout in the manager, one _GenerationActor per node, and   *)
(* the queue as their readers see it.                                      *)
(*                                                                         *)
(* The collector thread sends start, pause and next to the actors and      *)
(* handles one reply at a time; replies of different calls come in any     *)
(* order.  The manager thread generates, pauses, saves and resumes in the  *)
(* order of train.py.  Both hold the condition while they read or write    *)
(* the scheduler's fields, and neither holds it while it waits.            *)
(*                                                                         *)
(* A group is its prompt's number, and the log position of its accepted    *)
(* result.  Samples, metrics and the rebuffer batching are left out.       *)
(***************************************************************************)
EXTENDS Integers, Sequences, SequencesExt, FiniteSets, FiniteSetsExt

CONSTANTS
    Workers,        \* the generation actors
    Slots,          \* groups an actor generates at once
    Batch,          \* rollout_batch_size
    MaxGroups,      \* bound: prompts in the queue
    MaxRounds,      \* bound: rollouts the driver runs
    MaxAborts,      \* bound: groups interrupted and returned
    MaxDeaths,      \* bound: actors that die
    MaxCrashes,     \* bound: generations that raise
    MaxRejects      \* bound: groups the filter drops

ASSUME SizesAssumption == Slots \in Nat \ {0} /\ Batch \in Nat \ {0}
ASSUME BoundsAssumption ==
    /\ MaxGroups \in Nat /\ MaxRounds \in Nat
    /\ MaxAborts \in Nat /\ MaxDeaths \in Nat /\ MaxCrashes \in Nat /\ MaxRejects \in Nat
ASSUME WorkersAssumption == IsFiniteSet(Workers)

Group == 1..MaxGroups

VARIABLES
    \* the queue
    open,           \* prompts no reader holds
    leased,         \* what each reader holds
    accepted,       \* whose result each reader published
    rejected,       \* prompts the filter dropped
    processed,      \* accepted results of converted batches
    \* the actors
    alive, running, \* actor up; its admission flag
    producer,       \* its producer task
    slots,          \* its groups in work, each with its phase
    outputs,        \* its queue of one finished group
    faults,         \* counts aborts, deaths and crashes
    \* calls between the two
    control,        \* the outstanding start or pause of each actor
    request,        \* the outstanding next of each actor
    \* RolloutScheduler
    collectorAt, ready, collecting, configurations, runningWorkers,
    usable,         \* workers whose capacity is not zero
    demand, prefetch, rolloutId, paused, error,
    \* the manager thread
    managerAt, round, previous,
    answered        \* workers that answered the running save

queue     == <<open, leased, accepted, rejected>>
actors    == <<alive, running, producer, slots, outputs, faults>>
calls     == <<control, request>>
scheduler == <<collectorAt, ready, collecting, configurations, runningWorkers, usable,
               demand, prefetch, rolloutId, paused, error>>
manager   == <<managerAt, round, previous, answered, processed>>
vars      == <<queue, actors, calls, scheduler, manager>>

Item       == [group : Group, keep : BOOLEAN]
Phase      == {"fetched", "generating", "kept", "dropped"}
NoControl  == [to |-> <<>>, reply |-> "none"]
NoRequest  == [at |-> "none", item |-> <<>>]
Fault      == {"abort", "death", "crash"}
PauseCalls == {"admission", "save"}

Init ==
    /\ open = Group /\ leased = [w \in Workers |-> {}] /\ accepted = [w \in Workers |-> {}]
    /\ rejected = {} /\ processed = {}
    /\ alive = [w \in Workers |-> TRUE] /\ running = [w \in Workers |-> FALSE]
    /\ producer = [w \in Workers |-> "none"] /\ slots = [w \in Workers |-> {}]
    /\ outputs = [w \in Workers |-> <<>>] /\ faults = [f \in Fault |-> 0]
    /\ control = [w \in Workers |-> NoControl] /\ request = [w \in Workers |-> NoRequest]
    /\ collectorAt = "not started" /\ ready = <<>> /\ collecting = {}
    /\ configurations = [w \in Workers |-> <<>>] /\ runningWorkers = {} /\ usable = Workers
    /\ demand = 0 /\ prefetch = 0 /\ rolloutId = 0 /\ paused = TRUE /\ error = FALSE
    /\ managerAt = "generate" /\ round = 1 /\ previous = [call \in PauseCalls |-> TRUE]
    /\ answered = {}

-----------------------------------------------------------------------------
(* A generation actor.  Its pool is refilled while it runs; a producer that  *)
(* was told to pause ends when its last slot does.                           *)

(* A slot takes the oldest prompt of the queue under a lease. *)
Fetch(w) ==
    /\ alive[w] /\ producer[w] = "alive" /\ running[w]
    /\ Cardinality(slots[w]) < Slots /\ open # {}
    /\ open' = open \ {Min(open)} /\ leased' = [leased EXCEPT ![w] = @ \cup {Min(open)}]
    /\ slots' = [slots EXCEPT ![w] = @ \cup {[group |-> Min(open), phase |-> "fetched"]}]
    /\ UNCHANGED <<accepted, rejected, alive, running, producer, outputs, faults, calls, scheduler, manager>>

MovePhase(w, s, phase) == slots' = [slots EXCEPT ![w] = (@ \ {s}) \cup {[s EXCEPT !.phase = phase]}]

(* add_samples ends the lease and makes the group claimable again. *)
Rebuffer(w, s) ==
    /\ slots' = [slots EXCEPT ![w] = @ \ {s}]
    /\ leased' = [leased EXCEPT ![w] = @ \ {s.group}]
    /\ open' = open \cup {s.group}

(* A fetch may finish after the pause: its group goes back ungenerated. *)
BeginGeneration(w, s) ==
    /\ s.phase = "fetched"
    /\ IF running[w]
       THEN MovePhase(w, s, "generating") /\ UNCHANGED <<open, leased>>
       ELSE Rebuffer(w, s)
    /\ UNCHANGED <<accepted, rejected, alive, running, producer, outputs, faults, calls, scheduler, manager>>

(* An interrupted group returns to the queue. *)
Abort(w, s) ==
    /\ s.phase = "generating" /\ faults["abort"] < MaxAborts
    /\ Rebuffer(w, s)
    /\ faults' = [faults EXCEPT !["abort"] = @ + 1]
    /\ UNCHANGED <<accepted, rejected, alive, running, producer, outputs, calls, scheduler, manager>>

(* A complete group is published to the queue, or rejected by the filter. *)
Complete(w, s) ==
    /\ s.phase = "generating"
    /\ MovePhase(w, s, "kept")
    /\ leased' = [leased EXCEPT ![w] = @ \ {s.group}]
    /\ accepted' = [accepted EXCEPT ![w] = @ \cup {s.group}]
    /\ UNCHANGED <<open, rejected, alive, running, producer, outputs, faults, calls, scheduler, manager>>

Discard(w, s) ==
    /\ s.phase = "generating" /\ Cardinality(rejected) < MaxRejects
    /\ MovePhase(w, s, "dropped")
    /\ leased' = [leased EXCEPT ![w] = @ \ {s.group}]
    /\ rejected' = rejected \cup {s.group}
    /\ UNCHANGED <<open, accepted, alive, running, producer, outputs, faults, calls, scheduler, manager>>

(* outputs holds one item; a slot waits for its turn. *)
HasRoom(w) == Len(outputs[w]) < 1

Put(w, s) ==
    /\ s.phase \in {"kept", "dropped"} /\ HasRoom(w)
    /\ outputs' = [outputs EXCEPT ![w] = Append(@, [group |-> s.group, keep |-> s.phase = "kept"])]
    /\ slots' = [slots EXCEPT ![w] = @ \ {s}]
    /\ UNCHANGED <<queue, alive, running, producer, faults, calls, scheduler, manager>>

(* A custom generation raises: the producer cancels its other slots. *)
Crash(w, s) ==
    /\ s.phase = "generating" /\ faults["crash"] < MaxCrashes
    /\ producer' = [producer EXCEPT ![w] = "failed"]
    /\ slots' = [slots EXCEPT ![w] = {}]
    /\ faults' = [faults EXCEPT !["crash"] = @ + 1]
    /\ UNCHANGED <<queue, alive, running, outputs, calls, scheduler, manager>>

Slot(w) == \E s \in slots[w] :
    \/ BeginGeneration(w, s) \/ Abort(w, s) \/ Complete(w, s) \/ Discard(w, s)
    \/ Put(w, s) \/ Crash(w, s)

ProducerEnds(w) ==
    /\ alive[w] /\ producer[w] = "alive" /\ ~running[w] /\ slots[w] = {}
    /\ producer' = [producer EXCEPT ![w] = "done"]
    /\ UNCHANGED <<queue, alive, running, slots, outputs, faults, calls, scheduler, manager>>

(* pause() and start() run to their end in one turn of the actor's loop.    *)
(* start() of a finished producer makes a new one; of a failed one, raises. *)
PauseRuns(w) ==
    /\ alive[w] /\ control[w].to # <<>> /\ control[w].reply = "none" /\ control[w].to[1]
    /\ running' = [running EXCEPT ![w] = FALSE]
    /\ control' = [control EXCEPT ![w].reply = "ok"]
    /\ UNCHANGED <<queue, alive, producer, slots, outputs, faults, request, scheduler, manager>>

StartRuns(w) ==
    /\ alive[w] /\ control[w].to # <<>> /\ control[w].reply = "none" /\ ~control[w].to[1]
    /\ running' = [running EXCEPT ![w] = TRUE]
    /\ producer' = [producer EXCEPT ![w] = IF @ = "failed" THEN @ ELSE "alive"]
    /\ control' = [control EXCEPT ![w].reply = IF producer[w] = "failed" THEN "raised" ELSE "ok"]
    /\ UNCHANGED <<queue, alive, slots, outputs, faults, request, scheduler, manager>>

(* next() returns the finished group if there is one ... *)
NextTakes(w) ==
    /\ alive[w] /\ request[w].at \in {"waiting", "woken"} /\ outputs[w] # <<>>
    /\ request' = [request EXCEPT ![w] = [at |-> "item", item |-> <<Head(outputs[w])>>]]
    /\ outputs' = [outputs EXCEPT ![w] = Tail(@)]
    /\ UNCHANGED <<queue, alive, running, producer, slots, faults, control, scheduler, manager>>

(* ... or is woken by the end of the producer it waits for, ... *)
NextWoken(w) ==
    /\ alive[w] /\ request[w].at = "waiting" /\ producer[w] \in {"done", "failed"}
    /\ request' = [request EXCEPT ![w].at = "woken"]
    /\ UNCHANGED <<queue, actors, control, scheduler, manager>>

(* ... and then asks self.producer, which start() may have replaced: the     *)
(* result of a task that is not done raises InvalidStateError.               *)
NextReply(p) ==
    CASE p = "done"   -> "drained"
      [] p = "failed" -> "raised"
      [] OTHER        -> "invalid state"

NextReturns(w) ==
    /\ alive[w] /\ request[w].at = "woken" /\ outputs[w] = <<>>
    /\ request' = [request EXCEPT ![w].at = NextReply(producer[w])]
    /\ UNCHANGED <<queue, actors, control, scheduler, manager>>

(* The actor's process dies; its unanswered calls fail. *)
Dies(w) ==
    /\ alive[w] /\ faults["death"] < MaxDeaths
    /\ alive' = [alive EXCEPT ![w] = FALSE] /\ running' = [running EXCEPT ![w] = FALSE]
    /\ producer' = [producer EXCEPT ![w] = "none"] /\ slots' = [slots EXCEPT ![w] = {}]
    /\ outputs' = [outputs EXCEPT ![w] = <<>>]
    /\ faults' = [faults EXCEPT !["death"] = @ + 1]
    /\ control' = [control EXCEPT ![w].reply = IF control[w].to # <<>> /\ @ = "none" THEN "dead" ELSE @]
    /\ request' = [request EXCEPT ![w].at = IF @ \in {"waiting", "woken"} THEN "dead" ELSE @]
    /\ UNCHANGED <<queue, scheduler, manager>>

Actor(w) ==
    \/ Fetch(w) \/ Slot(w) \/ ProducerEnds(w)
    \/ PauseRuns(w) \/ StartRuns(w)
    \/ NextTakes(w) \/ NextWoken(w) \/ NextReturns(w)

-----------------------------------------------------------------------------
(* The collector thread, RolloutScheduler._run *)

Capacity(W) == Slots * Cardinality(W)
Desired     == <<paused, rolloutId>>
Controlled  == {w \in Workers : control[w] # NoControl}
Pending     == {w \in Workers : request[w] # NoRequest}

(* Workers to be told; a paused scheduler need not tell one that is not running. *)
Stale   == {w \in usable \ Controlled : configurations[w] # Desired}
Settled == {w \in Stale : paused /\ w \notin runningWorkers}

AllowanceGated(W) == Min({Cardinality(W), Max({0, demand + prefetch - Cardinality(Pending) - Len(ready)})})

(* How many of W may be asked for a result: all of them while paused. *)
Allowance(W) ==
    IF paused THEN Cardinality(W)
    ELSE Min({Cardinality(W), Max({0, demand + prefetch - Cardinality(Pending) - Len(ready)})})

(* First critical section: send the controls that are due, then the requests. *)
Dispatch ==
    /\ collectorAt = "dispatch" /\ managerAt # "closed"
    /\ configurations' = [w \in Workers |-> IF w \in Settled THEN Desired ELSE configurations[w]]
    /\ control' = [w \in Workers |->
           IF w \in Stale \ Settled
           THEN [to |-> Desired, reply |-> IF alive[w] THEN "none" ELSE "dead"]
           ELSE control[w]]
    /\ \E W \in kSubset(Allowance(runningWorkers \ Pending), runningWorkers \ Pending) :
           request' = [w \in Workers |->
               IF w \in W
               THEN [at |-> IF alive[w] THEN "waiting" ELSE "dead", item |-> <<>>]
               ELSE request[w]]
    /\ collectorAt' = "wait"
    /\ UNCHANGED <<queue, actors, ready, collecting, runningWorkers, usable, demand,
                   prefetch, rolloutId, paused, error, manager>>

(* ray.wait times out. *)
WaitEnds ==
    /\ collectorAt = "wait"
    /\ collectorAt' = "dispatch"
    /\ UNCHANGED <<queue, actors, calls, ready, collecting, configurations, runningWorkers,
                   usable, demand, prefetch, rolloutId, paused, error, manager>>

(* _run leaves by an exception or by close: finally drops every call. *)
Ends ==
    /\ collectorAt' = "ended"
    /\ control' = [w \in Workers |-> NoControl] /\ request' = [w \in Workers |-> NoRequest]
    /\ runningWorkers' = {}

Fails ==
    /\ Ends /\ error' = TRUE
    /\ UNCHANGED <<open, leased, ready, configurations, usable, prefetch>>

RecoveredAll(w) == accepted[w] \ (ToSet([i \in DOMAIN ready |-> ready[i].group]) \cup processed)

(* recover_reader_results: what the reader published and nobody has received. *)
Recovered(w) == accepted[w] \ (ToSet([i \in DOMAIN ready |-> ready[i].group]) \cup collecting \cup processed)

(* _retire_worker: forget its calls and its capacity, fence its reader, which   *)
(* ends its leases, and deliver what it published without an answer, in one of  *)
(* the orders the log may have.                                                 *)
Retire(w) ==
    /\ usable' = usable \ {w} /\ prefetch' = Min({prefetch, Capacity(usable \ {w})})
    /\ leased' = [leased EXCEPT ![w] = {}] /\ open' = open \cup leased[w]
    /\ ready' = ready \o [i \in 1..Cardinality(Recovered(w)) |-> [group |-> SetToSeq(Recovered(w))[i], keep |-> TRUE]]
    /\ UNCHANGED configurations

ForgetWorker(w) ==
    /\ runningWorkers' = runningWorkers \ {w}
    /\ control' = [control EXCEPT ![w] = NoControl] /\ request' = [request EXCEPT ![w] = NoRequest]

(* A call of the collector fails: retire the worker; without workers, give up. *)
CollectorRetires(w) ==
    /\ Retire(w)
    /\ IF usable = {w}
       THEN Ends /\ error' = TRUE
       ELSE ForgetWorker(w) /\ collectorAt' = "dispatch" /\ UNCHANGED error

HandlerFrame == <<accepted, rejected, actors, collecting, demand, rolloutId, paused, manager>>

(* Second critical section: one answered call. *)
HandleControl(w) ==
    /\ collectorAt = "wait" /\ control[w].to # <<>>
    /\ \/ /\ control[w].reply = "ok"
          /\ configurations' = [configurations EXCEPT ![w] = control[w].to]
          /\ runningWorkers' = IF control[w].to[1] THEN runningWorkers ELSE runningWorkers \cup {w}
          /\ control' = [control EXCEPT ![w] = NoControl] /\ collectorAt' = "dispatch"
          /\ UNCHANGED <<open, leased, ready, usable, prefetch, error, request>>
       \/ control[w].reply = "raised" /\ Fails
       \/ control[w].reply = "dead" /\ CollectorRetires(w)
    /\ UNCHANGED HandlerFrame

(* ray.wait lists the controls first, so an answered one goes before any result. *)
ControlsFirst == \A w \in Workers : control[w].reply = "none"

(* A worker that has drained leaves running_workers.  It is still there: it  *)
(* has one next() outstanding at most, sent while it was running, and only    *)
(* this answer or its retirement removes it, so list.remove cannot raise.     *)
HandleResult(w) ==
    /\ collectorAt = "wait" /\ ControlsFirst
    /\ \/ /\ request[w].at = "item"
          /\ ready' = ready \o request[w].item
          /\ request' = [request EXCEPT ![w] = NoRequest] /\ collectorAt' = "dispatch"
          /\ UNCHANGED <<open, leased, runningWorkers, configurations, usable, prefetch, error, control>>
       \/ /\ request[w].at = "drained"
          /\ runningWorkers' = runningWorkers \ {w}
          /\ request' = [request EXCEPT ![w] = NoRequest] /\ collectorAt' = "dispatch"
          /\ UNCHANGED <<open, leased, ready, configurations, usable, prefetch, error, control>>
       \/ request[w].at \in {"raised", "invalid state"} /\ Fails
       \/ request[w].at = "dead" /\ CollectorRetires(w)
    /\ UNCHANGED HandlerFrame

CollectorStops ==
    /\ collectorAt = "dispatch" /\ managerAt = "closed"
    /\ Ends
    /\ UNCHANGED <<queue, actors, ready, collecting, configurations, usable, demand, prefetch,
                   rolloutId, paused, error, manager>>

(* state_dict's own test that nothing is under way. *)
Quiescent == Controlled = {} /\ Pending = {} /\ runningWorkers = {} /\ paused

Collector ==
    \/ Dispatch \/ WaitEnds \/ CollectorStops
    \/ \E w \in Workers : HandleControl(w) \/ HandleResult(w)

-----------------------------------------------------------------------------
(* The manager thread: generate, conversion, train.py's pause, save, weight  *)
(* update and resume.                                                        *)

(* A step that only moves the manager on. *)
GoTo(next) ==
    /\ managerAt' = next
    /\ UNCHANGED <<queue, actors, calls, scheduler, round, previous, answered, processed>>

ManagerFrame == <<queue, actors, calls, configurations, runningWorkers, usable>>

(* generate(): ask for a batch and let the collector run. *)
Generate ==
    /\ managerAt = "generate"
    /\ IF error
       THEN managerAt' = "failed" /\ UNCHANGED <<collecting, rolloutId, demand, prefetch, paused, collectorAt>>
       ELSE /\ collecting' = {} /\ rolloutId' = round /\ demand' = Batch
            /\ prefetch' = Capacity(usable) /\ paused' = FALSE
            /\ collectorAt' = IF collectorAt = "not started" THEN "dispatch" ELSE collectorAt
            /\ managerAt' = "collect"
    /\ UNCHANGED <<ManagerFrame, ready, error, round, previous, answered, processed>>

(* Take one completed group: keep it, or count a dropped one. *)
Collect ==
    /\ managerAt = "collect" /\ demand > 0 /\ ~error /\ ready # <<>>
    /\ ready' = Tail(ready)
    /\ demand' = IF Head(ready).keep THEN demand - 1 ELSE demand
    /\ collecting' = IF Head(ready).keep THEN collecting \cup {Head(ready).group} ELSE collecting
    /\ UNCHANGED <<ManagerFrame, collectorAt, prefetch, rolloutId, paused, error, manager>>

CollectFails ==
    /\ managerAt = "collect" /\ demand > 0 /\ error
    /\ GoTo("failed")

(* The batch is converted: the queue counts its results as processed. *)
Convert ==
    /\ managerAt = "collect" /\ demand = 0
    /\ processed' = processed \cup collecting
    /\ managerAt' = "admission: pause"
    /\ UNCHANGED <<ManagerFrame, collectorAt, ready, collecting, demand, prefetch, rolloutId, paused,
                   error, round, previous, answered>>

Pausing == [admission |-> "admission: pause", save |-> "save: pause"]
Waiting == [admission |-> "admission: wait", save |-> "save: wait"]

(* pause(): stop admission, then wait until every running worker knows and,   *)
(* to drain, until none is running.                                           *)
PauseCall(call) ==
    /\ managerAt = Pausing[call]
    /\ previous' = [previous EXCEPT ![call] = paused] /\ paused' = TRUE
    /\ managerAt' = Waiting[call]
    /\ UNCHANGED <<ManagerFrame, collectorAt, ready, collecting, demand, prefetch, rolloutId, error,
                   round, answered, processed>>

UnsettledEarly(drain) ==
    \/ \E w \in runningWorkers : configurations[w] # <<TRUE, rolloutId>>
    \/ drain /\ Pending # {}

Unsettled(drain) ==
    \/ Controlled # {}
    \/ \E w \in runningWorkers : configurations[w] # <<TRUE, rolloutId>>
    \/ drain /\ (Pending # {} \/ runningWorkers # {})

PauseReturn(call, drain, next) ==
    /\ managerAt = Waiting[call]
    /\ error \/ ~Unsettled(drain)
    /\ GoTo(IF error THEN "failed" ELSE next)

(* RolloutManager.save and QueueDataSource.save both pause: one stands for them. *)
BeginSave ==
    /\ managerAt = "paused"
    /\ GoTo("save: pause")

(* state_dict refuses a scheduler at work, then asks each worker in use. *)
SchedulerState ==
    /\ managerAt = "save: scheduler"
    /\ managerAt' = IF Quiescent THEN "save: readers" ELSE "failed"
    /\ answered' = Workers \ usable
    /\ UNCHANGED <<ManagerFrame, collectorAt, ready, collecting, demand, prefetch, rolloutId, paused,
                   error, round, previous, processed>>

(* A worker that died since it was drained is retired here. *)
ReaderState(w) ==
    /\ managerAt = "save: readers" /\ w \notin answered
    /\ answered' = answered \cup {w}
    /\ IF alive[w]
       THEN UNCHANGED <<open, leased, calls, ready, configurations, runningWorkers, usable, prefetch, managerAt>>
       ELSE /\ Retire(w) /\ ForgetWorker(w)
            /\ managerAt' = IF usable = {w} THEN "failed" ELSE managerAt
    /\ UNCHANGED <<accepted, rejected, actors, collectorAt, collecting, demand, rolloutId, paused,
                   error, round, previous, processed>>

EndSave ==
    /\ managerAt = "save: readers" /\ answered = Workers
    /\ paused' = (paused /\ previous["save"])
    /\ managerAt' = "update weights"
    /\ UNCHANGED <<ManagerFrame, collectorAt, ready, collecting, demand, prefetch, rolloutId,
                   error, round, previous, answered, processed>>

SkipSave ==
    /\ managerAt = "paused"
    /\ GoTo("update weights")

(* The weights are installed; resume(), unless this was the last rollout. *)
Resume ==
    /\ managerAt = "update weights" /\ round < MaxRounds
    /\ paused' = (paused /\ previous["admission"])
    /\ round' = round + 1 /\ managerAt' = "generate"
    /\ UNCHANGED <<ManagerFrame, collectorAt, ready, collecting, demand, prefetch, rolloutId,
                   error, previous, answered, processed>>

(* close() unblocks every waiter with an error and stops the collector. *)
Close ==
    /\ managerAt = "failed" \/ (managerAt = "update weights" /\ round = MaxRounds)
    /\ managerAt' = "closed" /\ error' = TRUE
    /\ UNCHANGED <<ManagerFrame, collectorAt, ready, collecting, demand, prefetch, rolloutId, paused,
                   round, previous, answered, processed>>

Pause ==
    \/ \E call \in PauseCalls : PauseCall(call)
    \/ PauseReturn("admission", FALSE, "paused")
    \/ PauseReturn("save", TRUE, "save: scheduler")

Manager ==
    \/ Generate \/ Collect \/ CollectFails \/ Convert
    \/ Pause
    \/ BeginSave \/ SchedulerState \/ (\E w \in Workers : ReaderState(w)) \/ EndSave
    \/ SkipSave \/ Resume \/ Close

Next ==
    \/ \E w \in Workers : Actor(w) \/ Dies(w)
    \/ Collector
    \/ Manager

Spec == Init /\ [][Next]_vars

(* Every actor, the collector and the manager keep running; each answered     *)
(* call is handled (strong fairness: waiting times out again and again).      *)
Fairness ==
    /\ \A w \in Workers : WF_vars(Actor(w))
    /\ WF_vars(Dispatch) /\ WF_vars(WaitEnds)
    /\ \A w \in Workers : SF_vars(HandleControl(w)) /\ SF_vars(HandleResult(w))
    /\ WF_vars(Manager)

FairSpec == Spec /\ Fairness

-----------------------------------------------------------------------------
(* Properties *)

(* Where a prompt is: claimable, dropped, held by a reader or published by one. *)
Prompt(g) ==
    {<<"open", h>> : h \in open \cap {g}} \cup {<<"rejected", h>> : h \in rejected \cap {g}}
    \cup {<<"leased", w>> : w \in {v \in Workers : g \in leased[v]}}
    \cup {<<"accepted", w>> : w \in {v \in Workers : g \in accepted[v]}}

(* Where copies of its kept result are.                                         *)
Kept(items, g) == {i \in DOMAIN items : items[i].keep /\ items[i].group = g}
CopiesOf(w, g) ==
    {<<"slot", w, s>> : s \in {t \in slots[w] : t.group = g /\ t.phase = "kept"}}
    \cup {<<"output", w, i>> : i \in Kept(outputs[w], g)} \cup {<<"reply", w, i>> : i \in Kept(request[w].item, g)}
Copies(g) ==
    (UNION {CopiesOf(w, g) : w \in Workers}) \cup {<<"ready", i>> : i \in Kept(ready, g)}
    \cup {<<"batch", h>> : h \in (collecting \cup processed) \cap {g}}

(* A prompt is claimable, held by one reader, rejected or accepted; and an     *)
(* accepted result is on its way to training exactly once, unless its actor    *)
(* died with it and is not yet retired: neither a rebuffered group nor one     *)
(* published just before a death is lost or trained on twice.                  *)
GroupsConserved ==
    ~error /\ faults["crash"] = 0 =>
        \A g \in Group :
            LET writers == {w \in Workers : g \in accepted[w]}
            IN /\ Cardinality(Prompt(g)) = 1
               /\ Cardinality(Copies(g)) <= Cardinality(writers)
               /\ \A w \in writers : w \notin usable \/ alive[w] => Cardinality(Copies(g)) = 1

(* No worker is being told, asked or waited for. *)
SaveQuiescent ==
    managerAt = "save: scheduler" => Quiescent

(* Every pause returns or raises. *)
PauseTerminates ==
    \A call \in PauseCalls : managerAt = Waiting[call] ~> managerAt # Waiting[call]

=============================================================================
