------------------------------ MODULE Serving ------------------------------
(***************************************************************************)
(* The detached serving owner and what is around it: the ServingCluster    *)
(* actor (src/vime/ray/serving.py), one RolloutHealthMonitor thread per    *)
(* server group (src/vime/utils/health_monitor.py), the slots of the       *)
(* engine groups (src/vime/backends/vllm_utils/engine_group.py), and the   *)
(* training attempts that attach to it, publish weights through the update *)
(* groups (MegatronTrainRayActor.update_weights), generate and detach.     *)
(*                                                                         *)
(* Processes.  The ServingCluster actor serves one RPC at a time: `call`   *)
(* is the RPC it is executing, `inbox` the requests that wait.  A monitor  *)
(* thread runs beside it and shares the check lock.  Of an attempt d the   *)
(* driver, the trainers and the manager take turns (pc[d]) but fail apart: *)
(* the trainers of a dead driver go on until somebody kills them.  The     *)
(* manager serves one task at a time; it only forwards RPCs here.          *)
(*                                                                         *)
(* Abstractions.  Time is left out: a wait on a lock that is held may end  *)
(* in its timeout at any moment.  An engine is the actor together with its *)
(* HTTP server and is empty (None in all_engines), live, or dead (it holds *)
(* its slot but does not answer).  Placements, ports, memory offloading    *)
(* and the weight lock (replaced at each attachment, taken by nobody) are  *)
(* left out; the configuration of a new attempt is the retained one.       *)
(***************************************************************************)
EXTENDS Integers, Sequences, FiniteSets, FiniteSetsExt

CONSTANTS
    Drivers,        \* the training attempts, numbered in the order of their submission
    Groups,         \* the server groups: a sequence of disjoint sets of engines
    NeedsOffload,   \* the groups (indices) that share GPUs with training
    MaxVersion,     \* bound: weight versions that are published
    MaxFaults,      \* bound: faults of any kind in one behaviour
    MaxLate,        \* bound: calls of killed trainers that are still served
    None

ASSUME ServingAssumption ==
    /\ Drivers \subseteq Nat
    /\ Groups # << >> /\ Groups \in Seq({Groups[g] : g \in DOMAIN Groups})
    /\ \A g \in DOMAIN Groups : IsFiniteSet(Groups[g])
    /\ \A i, j \in DOMAIN Groups : i # j => Groups[i] \cap Groups[j] = {}
    /\ NeedsOffload \subseteq DOMAIN Groups
    /\ MaxVersion \in Nat /\ MaxFaults \in Nat /\ MaxLate \in Nat
    /\ None \notin Drivers

VARIABLES
    eng,        \* engine slots: [slot, routed, version, peer] per engine
    fresh,      \* num_new_engines of each group
    mon,        \* the monitor of each group: [thread, paused, bad]
    owner,      \* driver_job_id
    reused,     \* attachments > 0
    registered, \* attempts whose trainers training_actors holds
    trainers,   \* the trainer processes of each attempt: "none", "up", "down"
    call,       \* the RPC the serving actor is executing, or None
    inbox,      \* the RPCs that wait for the serving actor: {<<op, d>>}
    phase,      \* of the driver: "new", "run", "close", "closing", "dead", "done"
    pc,         \* where the attempt's work is
    handles,    \* the engines the trainers were told to update
    wv,         \* the weight version the attempt published last
    faults, late

serving == <<owner, reused, registered, call, inbox>>
attempts == <<phase, pc, handles, wv>>
vars == <<eng, fresh, mon, owner, reused, registered, trainers, call, inbox,
          phase, pc, handles, wv, faults, late>>

Engines == UNION {Groups[g] : g \in DOMAIN Groups}
GroupOf(e) == CHOOSE g \in DOMAIN Groups : e \in Groups[g]

Vacant == [slot |-> "empty", routed |-> FALSE, version |-> 0, peer |-> None]
Started == [slot |-> "live", routed |-> TRUE, version |-> 0, peer |-> None]

In(state) == {e \in Engines : eng[e].slot = state}

Fault(n) == faults + n <= MaxFaults /\ faults' = faults + n

(***************************************************************************)
(* RolloutHealthMonitor.  paused is _pause_event; thread is where the loop *)
(* is: "top" (it waits: while paused, for the first wait after a resume or *)
(* for the interval), "go" (it saw no pause, without the lock), "check"    *)
(* (inside the check, holding _check_lock, with the engines in bad still   *)
(* to retire), "gone" (an exception ended it).                             *)
(***************************************************************************)
NewMonitor == [thread |-> "top", paused |-> TRUE, bad |-> {}]

ThreadHolds(g) == mon[g].thread = "check"
OwnerHolds(g) == call # None /\ call.step = "retire" /\ call.at = g

\* What retire_engine(e) may end in, with the faults it takes.  The router can
\* refuse (nothing has changed yet); where GPUs are shared, an engine whose
\* exit is not confirmed is unrouted and killed but keeps its slot.
RetireResults(e) ==
    {[eng |-> Vacant, error |-> "none", cost |-> 0],
     [eng |-> eng[e], error |-> "request", cost |-> 1]}
    \cup IF GroupOf(e) \in NeedsOffload
         THEN {[eng |-> [eng[e] EXCEPT !.slot = "dead", !.routed = FALSE],
                error |-> "shutdown", cost |-> IF eng[e].slot = "dead" THEN 0 ELSE 1]}
         ELSE {}

\* The probes of the engines of group g that fail: every dead engine's, and a
\* slow one's, which times out.
FailedProbes(g) ==
    {bad \in SUBSET {e \in Groups[g] : eng[e].slot # "empty"} :
        In("dead") \cap Groups[g] \subseteq bad}

Slow(bad) == Cardinality(bad \cap In("live"))

\* The loop is not paused, the first wait or the interval is over.  A pause
\* during the first wait sends the loop back to the top.
MonitorWake(g) ==
    /\ mon[g].thread = "top" /\ ~mon[g].paused
    /\ mon' = [mon EXCEPT ![g].thread = "go"]
    /\ UNCHANGED <<eng, fresh, serving, trainers, attempts, faults, late>>

\* Mutant: the pause is not looked at again under the lock.
MonitorCheckUnpaused(g) ==
    /\ mon[g].thread = "go" /\ ~OwnerHolds(g)
    /\ \E bad \in FailedProbes(g) :
          /\ Fault(Slow(bad))
          /\ mon' = [mon EXCEPT ![g].thread = "check", ![g].bad = bad]
    /\ UNCHANGED <<eng, fresh, serving, trainers, attempts, late>>

\* _run_health_checks takes the lock, looks at the pause again and probes.
MonitorCheck(g) ==
    /\ mon[g].thread = "go" /\ ~OwnerHolds(g)
    /\ IF mon[g].paused
       THEN mon' = [mon EXCEPT ![g].thread = "top"] /\ UNCHANGED faults
       ELSE \E bad \in FailedProbes(g) :
               /\ Fault(Slow(bad))
               /\ mon' = [mon EXCEPT ![g].thread = "check", ![g].bad = bad]
    /\ UNCHANGED <<eng, fresh, serving, trainers, attempts, late>>

\* The loop catches a router that refuses and checks again later; any other
\* exception ends the thread.
MonitorRetire(g) ==
    /\ mon[g].thread = "check" /\ mon[g].bad # {}
    /\ \E e \in mon[g].bad : \E r \in RetireResults(e) :
          /\ Fault(r.cost)
          /\ eng' = [eng EXCEPT ![e] = r.eng]
          /\ mon' = CASE r.error = "none" -> [mon EXCEPT ![g].bad = @ \ {e}]
                      [] r.error = "request" -> [mon EXCEPT ![g].thread = "top", ![g].bad = {}]
                      [] r.error = "shutdown" -> [mon EXCEPT ![g].thread = "gone", ![g].bad = {}]
    /\ UNCHANGED <<fresh, serving, trainers, attempts, late>>

MonitorDone(g) ==
    /\ mon[g].thread = "check" /\ mon[g].bad = {}
    /\ mon' = [mon EXCEPT ![g].thread = "top"]
    /\ UNCHANGED <<eng, fresh, serving, trainers, attempts, faults, late>>

(***************************************************************************)
(* The ServingCluster actor.  A call is [op, d, step, at, bad, err]: the   *)
(* attempt it serves, the step of the method, the monitor it is at, the    *)
(* engines a check still has to retire, and whether a Cleanup step failed. *)
(***************************************************************************)
TrainerCalls == {"recover", "clear"}

\* The call returns; the attempt, if it still waits for it, goes on.
Return(next) ==
    /\ call' = None
    /\ pc' = [pc EXCEPT ![call.d] = next]
    /\ UNCHANGED <<phase, inbox>>

\* An exception in the work of attempt d reaches its driver, which gives up.
Abandoned(d) == [phase EXCEPT ![d] = IF @ = "run" THEN "close" ELSE @]

Raise ==
    /\ call' = None
    /\ pc' = [pc EXCEPT ![call.d] = "failed"]
    /\ phase' = Abandoned(call.d)
    /\ UNCHANGED inbox

\* The trainers of K are killed.  A call they had sent is lost with them, or is
\* served late.
KillTrainers(K) ==
    /\ trainers' = [d \in Drivers |-> IF d \in K THEN "down" ELSE trainers[d]]
    /\ LET sent == {c \in inbox : c[1] \in TrainerCalls /\ c[2] \in K}
       IN  \E kept \in SUBSET sent :
              /\ late + Cardinality(kept) <= MaxLate
              /\ late' = late + Cardinality(kept)
              /\ inbox' = inbox \ (sent \ kept)

\* Mutant: detach_training does not compare the caller with the owner.
AcceptAnyDetach(op, d) ==
    /\ call = None /\ <<op, d>> \in inbox /\ op # "clear"
    /\ inbox' = inbox \ {<<op, d>>}
    /\ LET begun == [op |-> op, d |-> d, step |-> "pause", at |-> 1, bad |-> {}, err |-> FALSE]
       IN  CASE op = "attach" /\ owner # None /\ phase[owner] # "dead" ->
                  /\ pc' = [pc EXCEPT ![d] = "failed"]
                  /\ phase' = Abandoned(d)
                  /\ UNCHANGED call
             [] OTHER -> call' = begun /\ UNCHANGED <<pc, phase>>
    /\ UNCHANGED <<eng, fresh, mon, owner, reused, registered, trainers, handles, wv, faults, late>>

\* Every RPC but the short ones below starts here.  attach_training begins
\* with validate_attachment: a live previous owner keeps its session.
Accept(op, d) ==
    /\ call = None /\ <<op, d>> \in inbox /\ op # "clear"
    /\ inbox' = inbox \ {<<op, d>>}
    /\ LET begun == [op |-> op, d |-> d, step |-> "pause", at |-> 1, bad |-> {}, err |-> FALSE]
       IN  CASE op = "attach" /\ owner # None /\ phase[owner] # "dead" ->
                  /\ pc' = [pc EXCEPT ![d] = "failed"]
                  /\ phase' = Abandoned(d)
                  /\ UNCHANGED call
             [] op = "detach" /\ owner # d ->
                  \* None: a repeated cleanup; another job: an error.  Nothing changes.
                  /\ phase' = [phase EXCEPT ![d] = "dead"]
                  /\ UNCHANGED <<pc, call>>
             [] OTHER -> call' = begun /\ UNCHANGED <<pc, phase>>
    /\ UNCHANGED <<eng, fresh, mon, owner, reused, registered, trainers, handles, wv, faults, late>>

\* After the last monitor: detach goes on with what is left to release, the
\* others raise the first error of their Cleanup.
AfterPause(failed) ==
    LET err == call.err \/ failed
        next == CASE call.op \in {"attach", "detach"} -> "release"
                  [] call.op = "recover" -> "start"
                  [] call.op = "finish" -> "check"
    IN  CASE call.at < Len(Groups) ->
               /\ call' = [call EXCEPT !.step = "pause", !.at = @ + 1, !.err = err]
               /\ UNCHANGED <<pc, phase, inbox>>
          [] call.at = Len(Groups) /\ err /\ call.op # "detach" -> Raise
          [] OTHER ->
               /\ call' = [call EXCEPT !.step = next, !.at = 1, !.err = err]
               /\ UNCHANGED <<pc, phase, inbox>>

At(step) == call # None /\ call.step = step

\* monitor.pause(): set the event, then take the check lock once.
PauseMonitor ==
    /\ At("pause")
    /\ mon' = [mon EXCEPT ![call.at].paused = TRUE]
    /\ IF ThreadHolds(call.at)
       THEN call' = [call EXCEPT !.step = "wait"] /\ UNCHANGED <<pc, phase, inbox>>
       ELSE AfterPause(FALSE)
    /\ UNCHANGED <<eng, fresh, owner, reused, registered, trainers, handles, wv, faults, late>>

PauseLocked ==
    /\ At("wait") /\ ~ThreadHolds(call.at)
    /\ AfterPause(FALSE)
    /\ UNCHANGED <<eng, fresh, mon, owner, reused, registered, trainers, handles, wv, faults, late>>

PauseTimeout ==
    /\ At("wait") /\ ThreadHolds(call.at)
    /\ AfterPause(TRUE)
    /\ UNCHANGED <<eng, fresh, mon, owner, reused, registered, trainers, handles, wv, faults, late>>

\* release_trainers, of attach and of detach.  A handle that cannot be killed
\* is kept for the next attempt at it.
AttachRelease ==
    /\ At("release") /\ call.op = "attach"
    /\ \E K \in SUBSET registered :
          /\ Fault(Cardinality(registered \ K))
          /\ KillTrainers(K)
          /\ registered' = registered \ K
          /\ IF K = registered
             THEN /\ call' = [call EXCEPT !.step = IF reused THEN "reset" ELSE "commit"]
                  /\ UNCHANGED <<pc, phase>>
             ELSE /\ call' = None
                  /\ pc' = [pc EXCEPT ![call.d] = "failed"]
                  /\ phase' = Abandoned(call.d)
    /\ UNCHANGED <<eng, fresh, mon, owner, reused, handles, wv>>

\* Mutant: the session is given up whatever the Cleanup reports.
DetachReleaseAlways ==
    /\ At("release") /\ call.op = "detach"
    /\ \E K \in SUBSET registered :
          /\ Fault(Cardinality(registered \ K))
          /\ KillTrainers(K)
          /\ registered' = registered \ K
    /\ owner' = None
    /\ call' = None
    /\ phase' = [phase EXCEPT ![call.d] = "dead"]
    /\ UNCHANGED <<eng, fresh, mon, reused, pc, handles, wv>>

\* The session is given up only when every step of the Cleanup succeeded.
DetachRelease ==
    /\ At("release") /\ call.op = "detach"
    /\ \E K \in SUBSET registered :
          /\ Fault(Cardinality(registered \ K))
          /\ KillTrainers(K)
          /\ registered' = registered \ K
          /\ owner' = IF K = registered /\ ~call.err THEN None ELSE owner
    /\ call' = None
    /\ phase' = [phase EXCEPT ![call.d] = "dead"]
    /\ UNCHANGED <<eng, fresh, mon, reused, pc, handles, wv>>

\* reset_weights_update_groups: an engine that does not answer, or answers too
\* late, is retired before its peers leave the old trainer's group.
ResetRetire ==
    /\ At("reset")
    /\ \E e \in In("dead") \cup In("live") : \E r \in RetireResults(e) :
          /\ Fault(r.cost + IF eng[e].slot = "live" THEN 1 ELSE 0)
          /\ eng' = [eng EXCEPT ![e] = r.eng]
          /\ IF r.error = "none" THEN UNCHANGED <<call, pc, phase, inbox>> ELSE Raise
    /\ UNCHANGED <<fresh, mon, owner, reused, registered, trainers, handles, wv, late>>

\* The rest are reset, and count as new peers for the replacement trainer.
ResetPeers ==
    /\ At("reset") /\ In("dead") = {}
    /\ eng' = [e \in Engines |-> [eng[e] EXCEPT !.peer = None]]
    /\ fresh' = [g \in DOMAIN Groups |-> Cardinality(Groups[g] \cap In("live"))]
    /\ call' = [call EXCEPT !.step = "commit"]
    /\ UNCHANGED <<mon, owner, reused, registered, trainers, inbox, attempts, faults, late>>

\* The monitors are rebuilt, paused, and the job owns the session.
AttachCommit ==
    /\ At("commit")
    /\ mon' = [g \in DOMAIN Groups |-> NewMonitor]
    /\ owner' = call.d
    /\ reused' = TRUE
    /\ Return("bind")
    /\ UNCHANGED <<eng, fresh, registered, trainers, handles, wv, faults, late>>

\* Mutant: recover() runs, and rewrites the counts, when no slot is empty.
RecoverStartAlways ==
    /\ At("start")
    /\ \E broken \in SUBSET In("empty") :
          /\ Fault(Cardinality(broken))
          /\ eng' = [e \in Engines |->
                        IF e \in broken THEN [Vacant EXCEPT !.slot = "dead"]
                        ELSE IF e \in In("empty") THEN Started ELSE eng[e]]
          /\ fresh' = [g \in DOMAIN Groups |-> Cardinality(Groups[g] \cap In("empty"))]
          /\ IF broken = {} THEN Return("engines") ELSE Raise
    /\ UNCHANGED <<mon, owner, reused, registered, trainers, handles, wv, late>>

\* recover_updatable_engines: engines are started only when a slot is empty,
\* for recover() rewrites every group's count.  An engine whose init fails has
\* its slot already.
RecoverStart ==
    /\ At("start")
    /\ IF In("empty") = {}
       THEN Return("engines") /\ UNCHANGED <<eng, fresh, faults>>
       ELSE \E broken \in SUBSET In("empty") :
              /\ Fault(Cardinality(broken))
              /\ eng' = [e \in Engines |->
                            IF e \in broken THEN [Vacant EXCEPT !.slot = "dead"]
                            ELSE IF e \in In("empty") THEN Started ELSE eng[e]]
              /\ fresh' = [g \in DOMAIN Groups |-> Cardinality(Groups[g] \cap In("empty"))]
              /\ IF broken = {} THEN Return("engines") ELSE Raise
    /\ UNCHANGED <<mon, owner, reused, registered, trainers, handles, wv, late>>

\* finish_rollout after its pause: check_once of every monitor.  An engine that
\* cannot be retired fails the call.
CheckProbe ==
    /\ At("check") /\ ~ThreadHolds(call.at)
    /\ \E bad \in FailedProbes(call.at) :
          /\ Fault(Slow(bad))
          /\ call' = [call EXCEPT !.step = "retire", !.bad = bad]
    /\ UNCHANGED <<eng, fresh, mon, owner, reused, registered, trainers, inbox, attempts, late>>

CheckRetire ==
    /\ At("retire") /\ call.bad # {}
    /\ \E e \in call.bad : \E r \in RetireResults(e) :
          /\ Fault(r.cost)
          /\ eng' = [eng EXCEPT ![e] = r.eng]
          /\ IF r.error = "none"
             THEN call' = [call EXCEPT !.bad = @ \ {e}] /\ UNCHANGED <<pc, phase, inbox>>
             ELSE Raise
    /\ UNCHANGED <<fresh, mon, owner, reused, registered, trainers, handles, wv, late>>

CheckNext ==
    /\ At("retire") /\ call.bad = {}
    /\ IF call.at < Len(Groups)
       THEN /\ call' = [call EXCEPT !.step = "check", !.at = @ + 1]
            /\ UNCHANGED <<pc, phase, inbox>>
       ELSE Return("train")
    /\ UNCHANGED <<eng, fresh, mon, owner, reused, registered, trainers, handles, wv, faults, late>>

\* clear_updatable_num_new_engines, one short RPC.
ClearFresh(d) ==
    /\ call = None /\ <<"clear", d>> \in inbox
    /\ inbox' = inbox \ {<<"clear", d>>}
    /\ fresh' = [g \in DOMAIN Groups |-> 0]
    /\ pc' = [pc EXCEPT ![d] = IF @ = "clearing" THEN "install" ELSE @]
    /\ UNCHANGED <<eng, mon, owner, reused, registered, trainers, call, phase, handles, wv, faults, late>>

(***************************************************************************)
(* A training attempt.  The driver attaches, binds the manager to the last *)
(* version served, creates the trainers and publishes; then it repeats     *)
(* rollout, training, publication.  A failure anywhere ends in             *)
(* RolloutStartup.close, which detaches; a driver that dies does not.      *)
(***************************************************************************)
Send(op, d) == inbox' = inbox \cup {<<op, d>>}

\* The next attempt is submitted, by hand or by the job supervisor, when it likes.
Submit(d) ==
    /\ phase[d] = "new"
    /\ \A x \in Drivers : phase[x] # "done" /\ (x < d => phase[x] # "new")
    /\ phase' = [phase EXCEPT ![d] = "run"]
    /\ pc' = [pc EXCEPT ![d] = "attach"]
    /\ Send("attach", d)
    /\ UNCHANGED <<eng, fresh, mon, owner, reused, registered, trainers, call, handles, wv, faults, late>>

\* The manager serves one task at a time: it is done with the calls it forwards
\* for other attempts.
ManagerFree(d) ==
    \A x \in Drivers \ {d} :
        /\ pc[x] \notin {"resume", "rollout", "finish"}
        /\ \A op \in TrainerCalls : <<op, x>> \notin inbox

\* Mutant: a restarted attempt numbers its versions from the start.
BindFromZero(d) ==
    /\ phase[d] = "run" /\ pc[d] = "bind" /\ call = None /\ ManagerFree(d)
    /\ IF In("dead") # {}
       THEN pc' = [pc EXCEPT ![d] = "failed"] /\ phase' = Abandoned(d)
       ELSE pc' = [pc EXCEPT ![d] = "create"] /\ UNCHANGED phase
    /\ UNCHANGED <<eng, fresh, mon, serving, trainers, wv, handles, faults, late>>

\* RolloutManager.attach_training asks every engine for its version.
Bind(d) ==
    /\ phase[d] = "run" /\ pc[d] = "bind" /\ call = None /\ ManagerFree(d)
    /\ IF In("dead") # {}
       THEN /\ pc' = [pc EXCEPT ![d] = "failed"]
            /\ phase' = Abandoned(d)
            /\ UNCHANGED wv
       ELSE /\ wv' = [wv EXCEPT ![d] = Max({eng[e].version : e \in In("live")} \cup {0})]
            /\ pc' = [pc EXCEPT ![d] = "create"]
            /\ UNCHANGED phase
    /\ UNCHANGED <<eng, fresh, mon, serving, trainers, handles, faults, late>>

\* The trainers are created and registered with the owner, then asked to update.
Create(d) ==
    /\ phase[d] = "run" /\ pc[d] = "create" /\ call = None
    /\ trainers' = [trainers EXCEPT ![d] = "up"]
    /\ registered' = registered \cup {d}
    /\ pc' = [pc EXCEPT ![d] = "recover"]
    /\ Send("recover", d)
    /\ UNCHANGED <<eng, fresh, mon, owner, reused, call, phase, handles, wv, faults, late>>

\* get_updatable_engines_and_lock: the new engines decide whether to connect.
GetEngines(d) ==
    /\ trainers[d] = "up" /\ pc[d] = "engines" /\ call = None
    /\ LET serving_engines == Engines \ In("empty")
           connect == \E g \in DOMAIN Groups : fresh[g] > 0
       IN  /\ handles' = [handles EXCEPT ![d] = serving_engines]
           /\ pc' = [pc EXCEPT ![d] = IF serving_engines = {} THEN "ready"
                                      ELSE IF connect THEN "connect" ELSE "install"]
    /\ UNCHANGED <<eng, fresh, mon, serving, trainers, phase, wv, faults, late>>

AllLive(d) == handles[d] \subseteq In("live")

\* connect_rollout_engines makes a group of these trainers and all the engines.
Connect(d) ==
    /\ trainers[d] = "up" /\ pc[d] = "connect" /\ AllLive(d)
    /\ eng' = [e \in Engines |-> IF e \in handles[d] THEN [eng[e] EXCEPT !.peer = d] ELSE eng[e]]
    /\ pc' = [pc EXCEPT ![d] = "clearing"]
    /\ Send("clear", d)
    /\ UNCHANGED <<fresh, mon, owner, reused, registered, trainers, call, phase, handles, wv, faults, late>>

\* One engine has received the weights of the next version.
Install(d, e) ==
    /\ trainers[d] = "up" /\ pc[d] = "install" /\ e \in handles[d] /\ AllLive(d)
    /\ \A x \in handles[d] : eng[x].peer = d
    /\ eng[e].version # wv[d] + 1
    /\ eng' = [eng EXCEPT ![e].version = wv[d] + 1]
    /\ UNCHANGED <<fresh, mon, serving, trainers, attempts, faults, late>>

\* Mutant: the version advances when the first engine has answered.
InstalledFirst(d) ==
    /\ trainers[d] = "up" /\ pc[d] = "install" /\ AllLive(d)
    /\ \E e \in handles[d] : eng[e].version = wv[d] + 1
    /\ wv' = [wv EXCEPT ![d] = @ + 1]
    /\ pc' = [pc EXCEPT ![d] = "ready"]
    /\ UNCHANGED <<eng, fresh, mon, serving, trainers, phase, handles, faults, late>>

Installed(d) ==
    /\ trainers[d] = "up" /\ pc[d] = "install" /\ AllLive(d)
    /\ \A e \in handles[d] : eng[e].version = wv[d] + 1
    /\ wv' = [wv EXCEPT ![d] = @ + 1]
    /\ pc' = [pc EXCEPT ![d] = "ready"]
    /\ UNCHANGED <<eng, fresh, mon, serving, trainers, phase, handles, faults, late>>

\* A collective with an engine that is gone, or with one that never joined the
\* group, ends in an error.
PublishFails(d) ==
    /\ trainers[d] = "up" /\ pc[d] \in {"connect", "install"}
    /\ \/ ~AllLive(d)
       \/ pc[d] = "install" /\ \E e \in handles[d] : eng[e].peer # d
    /\ pc' = [pc EXCEPT ![d] = "failed"]
    /\ phase' = Abandoned(d)
    /\ UNCHANGED <<eng, fresh, mon, serving, trainers, handles, wv, faults, late>>

Generate(d) ==
    /\ phase[d] = "run" /\ pc[d] = "ready"
    /\ pc' = [pc EXCEPT ![d] = "resume"]
    /\ UNCHANGED <<eng, fresh, mon, serving, trainers, phase, handles, wv, faults, late>>

\* The manager's generate resumes the monitors, one short RPC, and rolls out.
Resume(d) ==
    /\ pc[d] = "resume" /\ call = None
    /\ mon' = [g \in DOMAIN Groups |-> [mon[g] EXCEPT !.paused = FALSE]]
    /\ pc' = [pc EXCEPT ![d] = "rollout"]
    /\ UNCHANGED <<eng, fresh, serving, trainers, phase, handles, wv, faults, late>>

Rollout(d) ==
    /\ pc[d] = "rollout"
    /\ pc' = [pc EXCEPT ![d] = "finish"]
    /\ Send("finish", d)
    /\ UNCHANGED <<eng, fresh, mon, owner, reused, registered, trainers, call, phase, handles, wv, faults, late>>

\* One that raises does not ask for finish_rollout.
RolloutRaises(d) ==
    /\ pc[d] = "rollout" /\ Fault(1)
    /\ pc' = [pc EXCEPT ![d] = "failed"]
    /\ phase' = Abandoned(d)
    /\ UNCHANGED <<eng, fresh, mon, serving, trainers, handles, wv, late>>

\* The trainers train, and the driver asks them to publish the result.
Train(d) ==
    /\ phase[d] = "run" /\ pc[d] = "train" /\ wv[d] < MaxVersion
    /\ pc' = [pc EXCEPT ![d] = "recover"]
    /\ Send("recover", d)
    /\ UNCHANGED <<eng, fresh, mon, owner, reused, registered, trainers, call, phase, handles, wv, faults, late>>

\* The last step is done: dispose tears the session down.
Dispose(d) ==
    /\ phase[d] = "run" /\ pc[d] = "train" /\ wv[d] >= MaxVersion /\ call = None
    /\ phase' = [x \in Drivers |-> CASE x = d -> "done" [] phase[x] = "new" -> "new" [] OTHER -> "dead"]
    /\ pc' = [x \in Drivers |-> "idle"]
    /\ trainers' = [x \in Drivers |-> IF x \in registered THEN "down" ELSE trainers[x]]
    /\ registered' = {}
    /\ eng' = [e \in Engines |-> Vacant]
    /\ mon' = [g \in DOMAIN Groups |-> [NewMonitor EXCEPT !.thread = "gone"]]
    /\ inbox' = {}
    /\ UNCHANGED <<fresh, owner, reused, call, handles, wv, faults, late>>

\* RolloutStartup.close after a failure asks for detach_training and waits.
Close(d) ==
    /\ phase[d] = "close"
    /\ phase' = [phase EXCEPT ![d] = "closing"]
    /\ Send("detach", d)
    /\ UNCHANGED <<eng, fresh, mon, owner, reused, registered, trainers, call, pc, handles, wv, faults, late>>

\* The deadline of the cleanup passes; the request stays where it is.
CloseTimeout(d) ==
    /\ phase[d] = "closing"
    /\ phase' = [phase EXCEPT ![d] = "dead"]
    /\ UNCHANGED <<eng, fresh, mon, serving, trainers, pc, handles, wv, faults, late>>

\* Ray ends the actors of a job that is over.
Reap(d) ==
    /\ phase[d] = "dead" /\ trainers[d] = "up"
    /\ KillTrainers({d})
    /\ UNCHANGED <<eng, fresh, mon, owner, reused, registered, call, phase, pc, handles, wv, faults>>

(***************************************************************************)
(* Faults.                                                                 *)
(***************************************************************************)
EngineCrash(e) ==
    /\ eng[e].slot = "live" /\ Fault(1)
    /\ eng' = [eng EXCEPT ![e].slot = "dead"]
    /\ UNCHANGED <<fresh, mon, serving, trainers, attempts, late>>

DriverFails(d) ==
    /\ phase[d] = "run" /\ Fault(1)
    /\ phase' = [phase EXCEPT ![d] = "close"]
    /\ UNCHANGED <<eng, fresh, mon, serving, trainers, pc, handles, wv, late>>

DriverKilled(d) ==
    /\ phase[d] \in {"run", "close", "closing"} /\ Fault(1)
    /\ phase' = [phase EXCEPT ![d] = "dead"]
    /\ UNCHANGED <<eng, fresh, mon, serving, trainers, pc, handles, wv, late>>

Init ==
    /\ eng = [e \in Engines |-> Started]
    /\ fresh = [g \in DOMAIN Groups |-> Cardinality(Groups[g])]
    /\ mon = [g \in DOMAIN Groups |-> NewMonitor]
    /\ owner = None /\ reused = FALSE /\ registered = {}
    /\ trainers = [d \in Drivers |-> "none"]
    /\ call = None /\ inbox = {}
    /\ phase = [d \in Drivers |-> "new"]
    /\ pc = [d \in Drivers |-> "idle"]
    /\ handles = [d \in Drivers |-> {}]
    /\ wv = [d \in Drivers |-> 0]
    /\ faults = 0 /\ late = 0

MonitorStep(g) == MonitorWake(g) \/ MonitorCheck(g) \/ MonitorRetire(g) \/ MonitorDone(g)

OwnerStep ==
    \/ \E op \in {"attach", "detach", "recover", "finish"}, d \in Drivers : Accept(op, d)
    \/ PauseMonitor \/ PauseLocked \/ PauseTimeout
    \/ AttachRelease \/ DetachRelease
    \/ ResetRetire \/ ResetPeers \/ AttachCommit
    \/ RecoverStart
    \/ CheckProbe \/ CheckRetire \/ CheckNext
    \/ \E d \in Drivers : ClearFresh(d)

AttemptStep(d) ==
    \/ Bind(d) \/ Create(d) \/ GetEngines(d) \/ Connect(d)
    \/ \E e \in Engines : Install(d, e)
    \/ Installed(d) \/ PublishFails(d)
    \/ Generate(d) \/ Resume(d) \/ Rollout(d) \/ Train(d) \/ Dispose(d)
    \/ Close(d) \/ CloseTimeout(d) \/ Reap(d)

FaultStep ==
    \/ \E e \in Engines : EngineCrash(e)
    \/ \E d \in Drivers : DriverFails(d) \/ DriverKilled(d) \/ RolloutRaises(d)

\* Every attempt that was submitted has ended, and its trainers with it.
Finished ==
    /\ \/ \A d \in Drivers : phase[d] = "dead"
       \/ \E d \in Drivers : phase[d] = "done"
    /\ \A d \in Drivers : trainers[d] # "up"
    /\ call = None /\ inbox = {}
    /\ UNCHANGED vars

Next ==
    \/ \E g \in DOMAIN Groups : MonitorStep(g)
    \/ OwnerStep
    \/ \E d \in Drivers : Submit(d) \/ AttemptStep(d)
    \/ FaultStep
    \/ Finished

Spec == Init /\ [][Next]_vars

-----------------------------------------------------------------------------
\* The work of a running attempt is past its attachment.
Attached(d) == phase[d] = "run" /\ pc[d] \notin {"idle", "attach", "failed"}
Publishing(d) == pc[d] \in {"connect", "clearing", "install"}

\* "A late cleanup from an old driver must not detach its successor": an attempt
\* that runs keeps the session and its trainers, whatever calls of earlier
\* attempts arrive and whoever else is submitted.
OwnerKept ==
    \A d \in Drivers : Attached(d) =>
        /\ owner = d
        /\ trainers[d] = "up" <=> pc[d] \notin {"bind", "create"}

\* Trainers that are up belong to the session's owner: a failed release never
\* leaves the trainers of one attempt publishing into the session of another.
PublisherOwns ==
    \A d \in Drivers : trainers[d] = "up" => owner = d

\* Once a pause has returned, no health check is under way until the monitors
\* are resumed: not while the owner changes its engines, and not while the
\* trainers install weights in the engines they were given.
QuietWhilePaused ==
    (\/ call # None /\ call.step \in {"reset", "commit", "start", "check", "retire"}
     \/ \E d \in Drivers : Attached(d) /\ Publishing(d))
    => \A g \in DOMAIN Groups : ~ThreadHolds(g)

\* A publication reaches engines that hold their slots and have joined the group
\* of these trainers, the ones retained from the previous attempt included: the
\* markers that attach_training sets survive until the trainers connect.  A
\* call of killed trainers that is served late is excepted: it may clear them
\* (clear_updatable_num_new_engines does not know its caller).
PublishReaches ==
    late = 0 => \A d \in Drivers : Attached(d) /\ Publishing(d) =>
        \A e \in handles[d] :
            /\ eng[e].slot # "empty"
            /\ pc[d] = "install" => eng[e].peer = d

\* No rollout of a running attempt is served by an engine with other weights
\* than those the attempt published last: a replaced engine is not routed to
\* before it has them.
RolloutServesPublished ==
    \A d \in Drivers : Attached(d) /\ pc[d] = "rollout" =>
        \A e \in Engines : eng[e].routed => eng[e].version = wv[d]

\* "publishing restored checkpoint weights does not move the version backwards":
\* the version of an engine that keeps its slot only grows, across attempts.
EngineVersionGrows ==
    [][\A e \in Engines : eng[e].slot # "empty" /\ eng'[e].slot # "empty"
            => eng'[e].version >= eng[e].version]_vars
=============================================================================
