--------------------------- MODULE DiskWeightSync ---------------------------
(***************************************************************************)
(* Weight synchronisation through a shared directory: the trainer's side   *)
(* (UpdateWeightFromDiskDelta, and UpdateWeightFromDisk with               *)
(* RayTrainGroup.update_weights for full mode) and the engines' side (the  *)
(* pull_weights worker method that docker/patch adds to vLLM).             *)
(*                                                                         *)
(* A version directory holds a full checkpoint or the difference to its    *)
(* predecessor.  Every host an engine spans keeps a local checkpoint and   *)
(* the version it was brought to; the engine reloads its GPUs from there.  *)
(* A trainer, an engine or both may die between any two writes; a new      *)
(* trainer restores older weights and goes on with the engines it finds.   *)
(*                                                                         *)
(* Abstractions.  The bytes of a tensor are a number, the training step    *)
(* that wrote them.  The ranks of a trainer move together, as their        *)
(* barriers make them; an engine runs one call at a time, as its actor     *)
(* does; a checksum is taken to tell all contents apart.                   *)
(***************************************************************************)
EXTENDS Integers, Sequences, FiniteSets, FiniteSetsExt

CONSTANTS
    Engines,
    HostsOf,        \* the hosts each engine spans; engines may share a host
    Tensors,
    Delta,          \* TRUE: update_weight_mode delta; FALSE: full, with a local directory
    Xor,            \* TRUE: delta encoding xor; FALSE: overwrite
    FlushInterval,
    MaxSteps,       \* bound: training steps in one behaviour
    MaxFaults,      \* bound: crashes of a trainer or of an engine
    None

ASSUME DiskAssumption ==
    /\ Engines # {} /\ Tensors # {}
    /\ \A e \in Engines : HostsOf[e] # {}
    /\ Delta \in BOOLEAN /\ Xor \in BOOLEAN
    /\ FlushInterval \in Int /\ MaxSteps \in Nat /\ MaxFaults \in Nat

VARIABLES
    \* the trainer
    weights,    \* the model's tensors
    ckpt,       \* the tensors the next trainer restores
    step,       \* training steps taken so far, by all trainers
    version,    \* weight_version
    start,      \* update_weight_start_version
    snapshot,   \* _snapshot: the tensors of the last publication, or None
    full,       \* _needs_full_sync
    pc,         \* "start", "publish", one of Calls, "rollout" or "down"
    waiting,    \* engines whose answer the trainer waits for
    \* the shared directory
    dirs,       \* published versions
    \* the hosts and the engines
    local,      \* local checkpoints: [applied, data]
    lock,       \* the engine that holds the flock of a host, or None
    job,        \* the call an engine executes: [op, target, hosts, error], or None
    gpu,        \* the tensors an engine's GPUs hold, per host
    label,      \* the weight version an engine reports
    alive, paused,
    faults

trainer == <<weights, ckpt, step, version, start, snapshot, full>>
engines == <<gpu, label, alive, paused>>
vars == <<weights, ckpt, step, version, start, snapshot, full, pc, waiting, dirs,
          local, lock, job, gpu, label, alive, paused, faults>>

Hosts == UNION {HostsOf[e] : e \in Engines}
Versions == 1..(MaxSteps + MaxFaults + 1)
Calls == <<"pull", "pause", "flush", "reload", "continue">>
Contents == [Tensors -> Int]
Torn == [kind |-> "torn"]
Fulls == [kind : {"full"}, data : Contents]
Diffs == [kind : {"delta"}, base : Int, from : Contents, data : Contents, changed : SUBSET Tensors]
Locks == [by : Engines, left : SUBSET Tensors]
Jobs == [op : {"pull", "pause", "flush", "reload", "relabel", "continue"}, target : Versions,
         hosts : SUBSET Hosts, error : BOOLEAN]
\* None is none of the values it stands beside.
ASSUME NoneAssumption == None \notin Int \cup {Torn} \cup Fulls \cup Diffs \cup Locks \cup Jobs
Garbage == -1
Base == [t \in Tensors |-> 0]       \* --hf-checkpoint

(***************************************************************************)
(* The receiving side, of one host.                                        *)
(***************************************************************************)
\* A directory without an index counts as a full checkpoint.
IsDelta(v) == dirs[v].kind = "delta"

\* The newest version at or below target, above what is applied, that is full.
Seed(target, floor) ==
    LET Deltas(v) == \A w \in (v + 1)..target : IsDelta(w)
    IN  CHOOSE v \in floor..target :
            /\ v <= target /\ Deltas(v)
            /\ v = floor \/ ~IsDelta(v)

\* What a pull does next on host h: copy a full version, apply one difference,
\* or nothing more.  A version applied already is never read again.
PullStep(h, target) ==
    LET applied == local[h].applied
        floor == IF applied = None THEN 0 ELSE applied
        seed == IF target <= floor THEN floor ELSE Seed(target, floor)
    IN  CASE applied = None \/ seed > floor -> [op |-> "reset", v |-> seed]
          [] applied # None /\ seed = floor /\ floor < target -> [op |-> "apply", v |-> floor + 1]
          [] OTHER -> [op |-> "done", v |-> target]

\* One tensor after the difference has been applied to what the host has.
ApplyTensor(d, t, x) ==
    IF t \notin d.changed THEN x
    ELSE CASE x = d.from[t] -> d.data[t]
           [] x = d.data[t] -> IF Xor THEN d.from[t] ELSE x
           [] OTHER -> Garbage

\* The local tensors once those in S have been copied or patched.
Written(h, s, S) ==
    [t \in Tensors |->
        IF t \notin S THEN local[h].data[t]
        ELSE IF s.op = "apply" THEN ApplyTensor(dirs[s.v], t, local[h].data[t])
        ELSE IF s.v = 0 THEN Base[t] ELSE dirs[s.v].data[t]]

\* pull_checkpoint takes the host's lock and begins to write.
PullBegin(e, h) ==
    /\ job[e] # None /\ job[e].op = "pull" /\ h \in job[e].hosts /\ lock[h] = None
    /\ LET s == PullStep(h, job[e].target)
       IN  /\ s.op # "done"
           /\ \E S \in SUBSET Tensors :
                 /\ local' = [local EXCEPT ![h].data = Written(h, s, S)]
                 /\ lock' = [lock EXCEPT ![h] = [by |-> e, left |-> Tensors \ S]]
    /\ UNCHANGED <<trainer, pc, waiting, dirs, job, engines, faults>>

\* The rest is written and verified, then the version is recorded.  A checksum
\* that does not match, or a wrong base, is an error and records nothing.
PullEnd(e, h) ==
    /\ lock[h] # None /\ lock[h].by = e
    /\ LET s == PullStep(h, job[e].target)
           data == Written(h, s, lock[h].left)
           sound == s.op = "apply" =>
                        /\ dirs[s.v].base = local[h].applied
                        /\ \A t \in dirs[s.v].changed : data[t] = dirs[s.v].data[t]
       IN  /\ local' = [local EXCEPT ![h] = [applied |-> IF sound THEN s.v ELSE @.applied, data |-> data]]
           /\ job' = IF sound THEN job ELSE [job EXCEPT ![e].error = TRUE, ![e].hosts = @ \ {h}]
    /\ lock' = [lock EXCEPT ![h] = None]
    /\ UNCHANGED <<trainer, pc, waiting, dirs, engines, faults>>

PullDone(e, h) ==
    /\ job[e] # None /\ job[e].op = "pull" /\ h \in job[e].hosts /\ lock[h] = None
    /\ PullStep(h, job[e].target).op = "done"
    /\ job' = [job EXCEPT ![e].hosts = @ \ {h}]
    /\ UNCHANGED <<trainer, pc, waiting, dirs, local, lock, engines, faults>>

(***************************************************************************)
(* An engine answers when every host has done its part.                    *)
(***************************************************************************)
Reloaded(e) == [h \in HostsOf[e] |-> local[h].data]

\* update_weights_from_disk is two requests: the tensors, then the version.
Reload(e) ==
    /\ job[e] # None /\ job[e].op = "reload"
    /\ gpu' = [gpu EXCEPT ![e] = Reloaded(e)]
    /\ job' = [job EXCEPT ![e].op = "relabel"]
    /\ UNCHANGED <<trainer, pc, waiting, dirs, local, lock, label, alive, paused, faults>>

Answer(e) ==
    /\ job[e] # None /\ job[e].op # "reload" /\ (job[e].op = "pull" => job[e].hosts = {})
    /\ label' = IF job[e].op = "relabel" THEN [label EXCEPT ![e] = job[e].target] ELSE label
    /\ paused' = CASE job[e].op = "pause" -> [paused EXCEPT ![e] = TRUE]
                   [] job[e].op = "continue" -> [paused EXCEPT ![e] = FALSE]
                   [] OTHER -> paused
    /\ job' = [job EXCEPT ![e] = None]
    /\ waiting' = waiting \ {e}
    \* An error reaches the trainer, and through it the driver, which gives up.
    /\ pc' = IF job[e].error THEN "down" ELSE pc
    /\ UNCHANGED <<trainer, dirs, local, lock, gpu, alive, faults>>

\* A request is refused, or its answer lost; a reload or a pull may have reached
\* some hosts.
RequestFails(e) ==
    /\ job[e] # None /\ faults < MaxFaults
    /\ ~\E h \in Hosts : lock[h] # None /\ lock[h].by = e
    /\ faults' = faults + 1
    /\ \E S \in SUBSET IF job[e].op = "reload" THEN HostsOf[e] ELSE {} :
          gpu' = [gpu EXCEPT ![e] = [h \in HostsOf[e] |-> IF h \in S THEN Reloaded(e)[h] ELSE @[h]]]
    /\ job' = [job EXCEPT ![e] = None]
    /\ pc' = "down"
    /\ UNCHANGED <<trainer, waiting, dirs, local, lock, label, alive, paused>>

(***************************************************************************)
(* The trainer.                                                            *)
(***************************************************************************)
\* Engines that died are replaced before the update; to the updater they are
\* other engines, so that it starts again from a full version.
NewEngines == {e \in Engines : ~alive[e]}

\* Mutant: a full publication follows the served version only.
NextVersionServed(anew) == 1 + version

\* The version of the next publication.  Delta mode goes above every directory
\* when it publishes in full.
NextVersion(anew) ==
    1 + IF Delta /\ anew THEN Max({version} \cup {v \in Versions : dirs[v] # None}) ELSE version

BeginUpdate ==
    /\ pc = "start"
    /\ full' = (full \/ NewEngines # {})
    /\ version' = NextVersion(full')
    \* os.makedirs in delta mode; full mode removes what the directory held.
    /\ dirs' = IF Delta /\ dirs[version'] # None THEN dirs ELSE [dirs EXCEPT ![version'] = Torn]
    /\ gpu' = [e \in Engines |-> IF e \in NewEngines THEN [h \in HostsOf[e] |-> Base] ELSE gpu[e]]
    /\ label' = [e \in Engines |-> IF e \in NewEngines THEN 0 ELSE label[e]]
    /\ paused' = [e \in Engines |-> e \notin NewEngines /\ paused[e]]
    /\ alive' = [e \in Engines |-> TRUE]
    /\ pc' = "publish"
    /\ UNCHANGED <<weights, ckpt, step, start, snapshot, waiting, local, lock, job, faults>>

\* Every live engine is called; the trainer waits for all of them.
Call(op) ==
    /\ pc' = op
    /\ waiting' = Engines
    /\ job' = [e \in Engines |->
                  IF alive[e] THEN [op |-> op, target |-> version, hosts |-> HostsOf[e], error |-> FALSE]
                  ELSE None]

\* Mutant: the snapshot stays at the last full publication.
PublishFromSeed ==
    /\ pc = "publish"
    /\ dirs' = [dirs EXCEPT ![version] =
                   IF full \/ ~Delta THEN [kind |-> "full", data |-> weights]
                   ELSE [kind |-> "delta", base |-> version - 1, from |-> snapshot, data |-> weights,
                         changed |-> {t \in Tensors : weights[t] # snapshot[t]}]]
    /\ snapshot' = IF full THEN weights ELSE snapshot
    /\ Call("pull")
    /\ UNCHANGED <<weights, ckpt, step, version, start, full, local, lock, engines, faults>>

\* _publish_full or _publish, then the first call of _reload_engines.
Publish ==
    /\ pc = "publish"
    /\ dirs' = [dirs EXCEPT ![version] =
                   IF full \/ ~Delta THEN [kind |-> "full", data |-> weights]
                   ELSE [kind |-> "delta", base |-> version - 1, from |-> snapshot, data |-> weights,
                         changed |-> {t \in Tensors : weights[t] # snapshot[t]}]]
    /\ snapshot' = weights
    /\ Call("pull")
    /\ UNCHANGED <<weights, ckpt, step, version, start, full, local, lock, engines, faults>>

\* should_flush_cache
ShouldFlush ==
    \/ version = start + 1
    \/ FlushInterval > 0 /\ (version - 1) % FlushInterval = 0

\* All have answered: the next call, or the update is over.  Full mode removes
\* the directory before the engines go on.
NextCall ==
    /\ pc \in Range(Calls) /\ waiting = {}
    /\ CASE pc = "pull" -> Call("pause")
         [] pc = "pause" -> Call(IF ShouldFlush THEN "flush" ELSE "reload")
         [] pc = "flush" -> Call("reload")
         [] pc = "reload" -> Call("continue")
         [] pc = "continue" -> pc' = "rollout" /\ UNCHANGED <<waiting, job>>
    /\ full' = (full /\ pc # "continue")
    /\ dirs' = IF pc = "reload" /\ ~Delta THEN [dirs EXCEPT ![version] = None] ELSE dirs
    /\ UNCHANGED <<weights, ckpt, step, version, start, snapshot, local, lock, engines, faults>>

\* A call to a dead engine raises.
CallFails ==
    /\ pc \in Range(Calls) /\ \E e \in waiting : ~alive[e]
    /\ pc' = "down"
    /\ UNCHANGED <<trainer, waiting, dirs, local, lock, job, engines, faults>>

\* A training step changes some tensors, and is perhaps saved.
Train(changed, save) ==
    /\ pc = "rollout" /\ step < MaxSteps
    /\ step' = step + 1
    /\ weights' = [t \in Tensors |-> IF t \in changed THEN step' ELSE weights[t]]
    /\ ckpt' = IF save THEN weights' ELSE ckpt
    /\ pc' = "start"
    /\ UNCHANGED <<version, start, snapshot, full, waiting, dirs, local, lock, job, engines, faults>>

\* A new trainer attaches once the engines that still work have finished what
\* the old one asked of them, and takes its version from what they serve.
NewTrainer ==
    /\ pc = "down" /\ \A e \in Engines : job[e] = None
    /\ weights' = ckpt
    /\ start' = Max({label[e] : e \in {x \in Engines : alive[x]}} \cup {0})
    /\ version' = start'
    /\ snapshot' = None
    /\ full' = TRUE
    /\ pc' = "start"
    /\ waiting' = {}
    /\ UNCHANGED <<ckpt, step, dirs, local, lock, job, gpu, label, alive, paused, faults>>

TrainerCrash ==
    /\ pc # "down" /\ faults < MaxFaults
    /\ faults' = faults + 1
    /\ pc' = "down"
    /\ UNCHANGED <<trainer, waiting, dirs, local, lock, job, engines>>

\* An engine dies with its call; its hosts keep what was written.
EngineCrash(e) ==
    /\ alive[e] /\ faults < MaxFaults
    /\ faults' = faults + 1
    /\ alive' = [alive EXCEPT ![e] = FALSE]
    /\ job' = [job EXCEPT ![e] = None]
    /\ lock' = [h \in Hosts |-> IF lock[h] # None /\ lock[h].by = e THEN None ELSE lock[h]]
    /\ UNCHANGED <<trainer, pc, waiting, dirs, local, gpu, label, paused>>

Init ==
    /\ weights = Base /\ ckpt = Base /\ step = 0
    /\ version = 0 /\ start = 0 /\ snapshot = None /\ full = TRUE
    /\ pc = "start" /\ waiting = {}
    /\ dirs = [v \in Versions |-> None]
    /\ local = [h \in Hosts |-> [applied |-> None, data |-> Base]]
    /\ lock = [h \in Hosts |-> None]
    /\ job = [e \in Engines |-> None]
    /\ gpu = [e \in Engines |-> [h \in HostsOf[e] |-> Base]]
    /\ label = [e \in Engines |-> 0]
    /\ alive = [e \in Engines |-> TRUE]
    /\ paused = [e \in Engines |-> FALSE]
    /\ faults = 0

\* The last step has been published.
Finished ==
    /\ pc = "rollout" /\ step = MaxSteps
    /\ UNCHANGED vars

Next ==
    \/ BeginUpdate \/ Publish \/ NextCall \/ CallFails \/ NewTrainer
    \/ \E changed \in SUBSET Tensors, save \in BOOLEAN : Train(changed, save)
    \/ \E e \in Engines : Reload(e) \/ Answer(e) \/ RequestFails(e)
    \/ \E e \in Engines : \E h \in HostsOf[e] : PullBegin(e, h) \/ PullEnd(e, h) \/ PullDone(e, h)
    \/ TrainerCrash \/ \E e \in Engines : EngineCrash(e)
    \/ Finished

Spec == Init /\ [][Next]_vars

-----------------------------------------------------------------------------
\* When an update has returned, every engine serves exactly the tensors of the
\* trainer, under the version the trainer counts, and generates: whatever local
\* checkpoints and directories earlier trainers left half written.
ServesTrainer ==
    pc = "rollout" => \A e \in Engines : alive[e] =>
        /\ \A h \in HostsOf[e] : gpu[e][h] = weights
        /\ label[e] = version /\ ~paused[e]

\* A version names one set of weights: an engine that generates under it holds
\* what was published under it, on all its hosts, although trainers go back to
\* older weights, repeat steps, and leave engines half updated.
LabelHonest ==
    \A e \in Engines : label[e] > 0 /\ ~paused[e] =>
        \A h \in HostsOf[e] : gpu[e][h] = dirs[label[e]].data

\* A difference is never applied twice ("applying it twice reverts"), to a wrong
\* base or to what an earlier update left half written: a pull fails only when
\* an engine died in the middle of this same update, which is lost anyway.
PullsAccepted ==
    \A e \in Engines : job[e] # None /\ job[e].error => NewEngines # {}
=============================================================================
