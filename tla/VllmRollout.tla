---------------------------- MODULE VllmRollout ----------------------------
(***************************************************************************)
(* The synchronous rollout (vime/rollout/vllm_rollout.py, and its          *)
(* streaming generator): generate_rollout oversamples groups, takes the    *)
(* first ones that finish and pass the filter, aborts the others and, with *)
(* --partial-rollout, hands their prefixes back to the data source.        *)
(*                                                                         *)
(* Everything runs as asyncio tasks of one event loop; a step below is     *)
(* what runs between two awaits.  One task samples, takes results and      *)
(* aborts; one task per group waits for one task per sample.  State that   *)
(* outlives a rollout is the process-wide GenerateState: a rollout that    *)
(* raises leaves it as it is, and the retained manager serves the next     *)
(* attempt with it.                                                        *)
(*                                                                         *)
(* Abstractions.  A token is the weight version its answer arrived under:  *)
(* the one it was generated with, but for a request that a failed rollout  *)
(* left open over a publication, and no property reads its mask.           *)
(* COMPLETED and TRUNCATED, which no step tells apart, are "finished".     *)
(* The servers behind the router are paused and resumed together; paused   *)
(* is the pause of an abort, a publication pauses, loads and resumes in    *)
(* one step, and a request it stopped or refused is "cut" until its answer *)
(* arrives.  The buffer is a set: which groups leave it first is a user's  *)
(* choice.  A dropped group's samples are forgotten and its name stands    *)
(* for a later group of the dataset, which starts over when it is read     *)
(* through.                                                                *)
(***************************************************************************)
EXTENDS Integers, Sequences, FiniteSets, FiniteSetsExt, SequencesExt

CONSTANTS
    Confs,          \* the configurations checked, subset of Conf
    Batch,          \* rollout_batch_size
    Over,           \* over_sampling_batch_size
    Groups,         \* names of prompt groups
    Index,          \* samples of a group: n_samples_per_prompt
    Slots,          \* permits of the generation semaphore
    MaxTokens,      \* rollout_max_response_len
    MaxRollouts,    \* bound: rollouts
    MaxFaults,      \* bound: requests, rewards and control calls that fail
    MaxUpsets       \* bound: groups the dynamic filter rejects, and faults

(* The options that change the control: partial_rollout,                    *)
(* mask_offpolicy_in_partial_rollout, the streaming generator, group_rm.    *)
Conf == [partial : BOOLEAN, masking : BOOLEAN, streaming : BOOLEAN, groupRm : BOOLEAN]

ASSUME RolloutAssumption ==
    /\ Confs \subseteq Conf /\ Confs # {}
    /\ {Batch, Over, Slots, MaxTokens} \subseteq Nat \ {0} /\ Over >= Batch
    /\ IsFiniteSet(Groups) /\ IsFiniteSet(Index)
    /\ Index # {} /\ {MaxRollouts, MaxFaults, MaxUpsets} \subseteq Nat

VARIABLES
    conf,
    buffer,         \* groups handed back to the data source
    \* the tasks
    sample,         \* [status, made, mask, scored] of each sample of each group
    stage,          \* where each sample's task is
    task,           \* where each group's task is
    \* GenerateState
    pendings, remaining, aborted, cancellable, active,
    \* the servers and the trainer
    paused, version,
    \* the rollout call
    call, done, data, kept, rollout,
    leftover,       \* ghost: groups a failed rollout left in pendings
    restarts,       \* ghost: attempts that followed a failed rollout
    rejects, faults

state == <<pendings, remaining, aborted, cancellable, active>>
tasks == <<sample, stage, task>>
rolling == <<call, done, data, kept, rollout, leftover, restarts>>
vars == <<conf, buffer, tasks, state, paused, version, rolling, rejects, faults>>

MayFail == faults < MaxFaults /\ rejects + faults < MaxUpsets

-----------------------------------------------------------------------------
(* Samples *)

Fresh == [status |-> "pending", made |-> <<>>, mask |-> <<>>, scored |-> FALSE]
Finished(s) == s.status = "finished"
Repeat(x, n) == [k \in 1..n |-> x]

(* The mask the batch builder uses: an absent one counts every token.        *)
LossMask(s) == IF s.mask = <<>> THEN Repeat(1, Len(s.made)) ELSE s.mask

(* append_response_tokens: n tokens of the current weights, and the status   *)
(* that the finish reason stands for.                                        *)
AppendResponse(s, n, status) ==
    [s EXCEPT !.made = @ \o Repeat(version, n), !.status = status,
              !.mask = IF n = 0 THEN @ ELSE LossMask(s) \o Repeat(1, n)]

(* A streamed chunk leaves an absent mask absent.                            *)
AppendChunk(s, n, status) ==
    [s EXCEPT !.made = @ \o Repeat(version, n), !.status = status,
              !.mask = IF @ = <<>> THEN @ ELSE @ \o Repeat(1, n)]

(* Mutant: masking moved behind the early return for finished samples.        *)
MaskUnfinished(s) ==
    IF conf.partial /\ conf.masking /\ s.made # <<>> /\ ~Finished(s)
    THEN [s EXCEPT !.mask = Repeat(0, Len(s.made))] ELSE s

(* Masking of what an earlier rollout generated, on entry to                 *)
(* generate_and_rm.                                                          *)
MaskOld(s) ==
    IF conf.partial /\ conf.masking /\ s.made # <<>>
    THEN [s EXCEPT !.mask = Repeat(0, Len(s.made))] ELSE s

Left(s) == MaxTokens - Len(s.made)

-----------------------------------------------------------------------------
(* One sample: generate_and_rm *)

Running(g, i) == stage[g][i] \in {"sent", "cut", "cancelled"}
Free == Cardinality({x \in Groups \X Index : Running(x[1], x[2])}) < Slots

(* What follows generation: the reward of a finished sample, unless the      *)
(* whole group is scored at once.                                            *)
AfterGenerate(s) == IF s.status = "aborted" \/ conf.groupRm \/ s.scored THEN "done" ELSE "scoring"

Set(g, i, s, to) ==
    /\ sample' = [sample EXCEPT ![g][i] = s]
    /\ stage' = [stage EXCEPT ![g][i] = to]

(* The generator's request has ended: both wrappers undo their registration. *)
Unregister(g, i) ==
    /\ active' = IF conf.streaming THEN active ELSE active - 1
    /\ cancellable' = cancellable \ {<<g, i>>}
    /\ UNCHANGED <<pendings, remaining, aborted>>

(* Mutant: the flag is not tested again once a permit is free.                *)
AdmitUntested(g, i) ==
    LET s == sample[g][i] IN
    /\ stage[g][i] = "queued" /\ Free
    /\ Set(g, i, s, "sent")
    /\ active' = IF conf.streaming THEN active ELSE active + 1
    /\ cancellable' = IF conf.streaming THEN cancellable \cup {<<g, i>>} ELSE cancellable
    /\ UNCHANGED <<pendings, remaining, aborted, task, paused>>

(* A permit is free and the pacer lets the sample go: the flag is tested     *)
(* now, not when the task was made.  A sample without token budget needs no  *)
(* request.                                                                  *)
Turned(s) == [s EXCEPT !.status = IF aborted THEN "aborted" ELSE "finished"]
Admit(g, i) ==
    LET s == sample[g][i] IN
    /\ stage[g][i] = "queued" /\ Free
    /\ IF aborted \/ Left(s) = 0
       THEN Set(g, i, Turned(s), AfterGenerate(Turned(s))) /\ UNCHANGED state
       ELSE /\ Set(g, i, s, "sent")
            /\ active' = IF conf.streaming THEN active ELSE active + 1
            /\ cancellable' = IF conf.streaming THEN cancellable \cup {<<g, i>>} ELSE cancellable
            /\ UNCHANGED <<pendings, remaining, aborted>>
    /\ UNCHANGED <<task, paused>>

(* A whole response: it stops at once, reaches its length, or was stopped by *)
(* a pause, of an abort or of a publication.                                 *)
Outcomes(s, stopped) ==
    {<<n, "finished">> : n \in {0, Left(s)}}
    \cup (IF stopped THEN {<<n, "aborted">> : n \in 0..Left(s)} ELSE {})
Reply(g, i) ==
    /\ stage[g][i] \in {"sent", "cut"} /\ ~conf.streaming
    /\ \E o \in Outcomes(sample[g][i], paused \/ stage[g][i] = "cut") :
           LET s == AppendResponse(sample[g][i], o[1], o[2]) IN Set(g, i, s, AfterGenerate(s))
    /\ Unregister(g, i)
    /\ UNCHANGED <<task, paused>>

(* A paused server refuses the request.  Only an abort under way explains    *)
(* it, and to a stream not even that.                                        *)
Refused(g, i) ==
    /\ stage[g][i] = "cut" \/ (stage[g][i] = "sent" /\ paused)
    /\ IF aborted /\ ~conf.streaming
       THEN Set(g, i, [sample[g][i] EXCEPT !.status = "aborted"], "done")
       ELSE Set(g, i, sample[g][i], "failed")
    /\ Unregister(g, i)
    /\ UNCHANGED <<task, paused>>

(* One chunk of a stream.  The last one carries the finish reason, "abort"   *)
(* if a publication stopped it; another one ends the stream only if an abort *)
(* is under way.                                                             *)
Chunk(g, i) ==
    LET s == sample[g][i]
        cut == stage[g][i] = "cut"
    IN
    /\ stage[g][i] \in {"sent", "cut"} /\ conf.streaming
    /\ \/ \E n \in 0..Min({1, Left(s)}) :
              /\ \E status \in {"finished"} \cup (IF cut THEN {"aborted"} ELSE {}) :
                     LET t == AppendChunk(s, n, status) IN Set(g, i, t, AfterGenerate(t))
              /\ Unregister(g, i)
       \/ /\ Left(s) > 0 /\ ~cut
          /\ IF aborted
             THEN Set(g, i, AppendChunk(s, 1, "aborted"), "done") /\ Unregister(g, i)
             ELSE Set(g, i, AppendChunk(s, 1, s.status), "sent") /\ UNCHANGED state
    /\ UNCHANGED <<task, paused>>

(* CancelledError reaches a stream that abort() took out of cancellable.     *)
Cancelled(g, i) ==
    /\ stage[g][i] = "cancelled"
    /\ Set(g, i, [sample[g][i] EXCEPT !.status = "aborted"], "done")
    /\ Unregister(g, i)
    /\ UNCHANGED <<task, paused>>

Score(g, i) ==
    /\ stage[g][i] = "scoring"
    /\ Set(g, i, [sample[g][i] EXCEPT !.scored = TRUE], "done")
    /\ UNCHANGED <<task, state, paused>>

(* The request has used up its retries, or the reward function raises.       *)
SampleFails(g, i) ==
    /\ stage[g][i] \in {"sent", "cut", "scoring"} /\ MayFail
    /\ faults' = faults + 1
    /\ Set(g, i, sample[g][i], "failed")
    /\ IF stage[g][i] = "scoring" THEN UNCHANGED state ELSE Unregister(g, i)
    /\ UNCHANGED <<task, paused>>

-----------------------------------------------------------------------------
(* One group: generate_and_rm_group *)

Whole(s) == Finished(s) => conf.groupRm \/ s.scored

(* A group that starts during an abort returns as it is.  Otherwise each     *)
(* sample gets a task; what is finished already is only masked.              *)
StartGroup(g) ==
    /\ task[g] = "created"
    /\ IF aborted THEN task' = [task EXCEPT ![g] = "done"] /\ UNCHANGED <<sample, stage>>
       ELSE /\ task' = [task EXCEPT ![g] = "waiting"]
            /\ sample' = [sample EXCEPT ![g] = [i \in Index |-> MaskOld(@[i])]]
            /\ stage' = [stage EXCEPT ![g] = [i \in Index |->
                   IF ~Finished(sample[g][i]) THEN "queued"
                   ELSE IF Whole(sample[g][i]) THEN "done" ELSE "failed"]]
    /\ UNCHANGED <<state, paused>>

(* gather raises with the first sample that fails; the others go on.         *)
GroupFails(g) ==
    /\ task[g] = "waiting" /\ \E i \in Index : stage[g][i] = "failed"
    /\ task' = [task EXCEPT ![g] = "failed"]
    /\ UNCHANGED <<sample, stage, state, paused>>

Gathered(g) ==
    /\ task[g] = "waiting" /\ \A i \in Index : stage[g][i] = "done"
    /\ task' = [task EXCEPT ![g] = IF conf.groupRm /\ ~aborted THEN "scoring" ELSE "done"]
    /\ UNCHANGED <<sample, stage, state, paused>>

GroupScored(g) ==
    /\ task[g] = "scoring"
    /\ task' = [task EXCEPT ![g] = "done"]
    /\ sample' = [sample EXCEPT ![g] = [i \in Index |-> [@[i] EXCEPT !.scored = TRUE]]]
    /\ UNCHANGED <<stage, state, paused>>

GroupRmFails(g) ==
    /\ task[g] = "scoring" /\ MayFail
    /\ faults' = faults + 1
    /\ task' = [task EXCEPT ![g] = "failed"]
    /\ UNCHANGED <<sample, stage, state, paused>>

-----------------------------------------------------------------------------
(* The rollout: generate_rollout_async *)

(* Groups nobody holds; a task that still runs keeps its name.               *)
Held == buffer \cup pendings \cup done \cup data \cup kept
Unused == {g \in Groups \ Held :
               \A i \in Index : stage[g][i] \in {"none", "done", "failed"}}

(* Drop the groups: what their tasks computed is not looked at again.        *)
Drop(gs) ==
    /\ sample' = [g \in Groups |-> IF g \in gs THEN [i \in Index |-> Fresh] ELSE sample[g]]
    /\ task' = [g \in Groups |-> IF g \in gs THEN "none" ELSE task[g]]
    /\ stage' = [g \in Groups |-> [i \in Index |->
           IF g \in gs /\ stage[g][i] \in {"done", "failed"} THEN "none" ELSE stage[g][i]]]

(* get_samples: from the buffer first, then from the dataset.                *)
Take(n) ==
    \E old \in kSubset(Min({n, Cardinality(buffer)}), buffer) :
        \E new \in kSubset(n - Cardinality(old), Unused) :
            /\ buffer' = buffer \ old
            /\ pendings' = pendings \cup old \cup new
            /\ task' = [g \in Groups |-> IF g \in old \cup new THEN "created" ELSE task[g]]
            /\ sample' = [g \in Groups |-> IF g \in new THEN [i \in Index |-> Fresh] ELSE sample[g]]

Begin ==
    /\ call = "idle" /\ rollout < MaxRollouts
    /\ call' = "sampling" /\ done' = {} /\ data' = {} /\ kept' = {}
    /\ UNCHANGED <<buffer, tasks, state, paused, version, rollout, leftover, restarts>>

(* submit_generate_tasks, when too few groups are left to fill the batch.    *)
Sample ==
    /\ call = "sampling" /\ Cardinality(data) < Batch
    /\ IF remaining < Batch
       THEN Take(Over) /\ remaining' = remaining + Over /\ call' = call
       ELSE call' = "waiting" /\ UNCHANGED <<buffer, task, sample, pendings, remaining>>
    /\ leftover' = leftover \cap (pendings \cup data)
    /\ UNCHANGED <<stage, aborted, cancellable, active, paused, version,
                   done, data, kept, rollout, restarts>>

Ended == {g \in pendings : task[g] \in {"done", "failed"}}

(* asyncio.wait returns every task that has ended.                           *)
Wait ==
    /\ call = "waiting" /\ Ended # {}
    /\ done' = Ended /\ pendings' = pendings \ Ended
    /\ call' = "taking"
    /\ UNCHANGED <<buffer, tasks, remaining, aborted, cancellable, active, paused, version,
                   data, kept, rollout, leftover, restarts>>

(* The rollout raises; the state of the generation stays as it is.           *)
Raise ==
    /\ call' = "failed" /\ done' = {} /\ data' = {} /\ kept' = {}
    /\ Drop(done \cup data \cup kept)

WaitForNothing ==
    /\ call = "waiting" /\ pendings = {}
    /\ Raise
    /\ UNCHANGED <<buffer, state, paused, version, rollout, leftover, restarts>>

(* should_drop_dynamic_filter_output: a rejection may yield to the need for  *)
(* groups.                                                                   *)
Drops(verdict) == verdict = "drop" \/ (verdict = "weak" /\ remaining > Batch)

(* Mutant: a rejected group still counts as available.                        *)
StillCounted == remaining

CountDrop == remaining - 1

TakeGroup(g) ==
    /\ call = "taking" /\ g \in done /\ task[g] = "done"
    /\ done' = done \ {g}
    /\ \E verdict \in IF rejects + faults < MaxUpsets THEN {"keep", "drop", "weak"} ELSE {"keep"} :
           /\ rejects' = IF verdict = "keep" THEN rejects ELSE rejects + 1
           /\ IF Drops(verdict)
              THEN remaining' = CountDrop /\ Drop({g}) /\ UNCHANGED data
              ELSE IF Cardinality(data) < Batch
              THEN data' = data \cup {g} /\ UNCHANGED <<remaining, tasks>>
              ELSE Drop({g}) /\ UNCHANGED <<remaining, data>>
    /\ UNCHANGED <<buffer, pendings, aborted, cancellable, active, paused, version,
                   call, kept, rollout, leftover, restarts>>

TakeRaises(g) ==
    /\ call = "taking" /\ g \in done /\ task[g] = "failed"
    /\ Raise
    /\ UNCHANGED <<buffer, state, paused, version, rollout, leftover, restarts>>

Taken ==
    /\ call = "taking" /\ done = {}
    /\ call' = IF Cardinality(data) < Batch THEN "sampling" ELSE "abort"
    /\ UNCHANGED <<buffer, tasks, state, paused, version, done, data, kept, rollout, leftover, restarts>>

-----------------------------------------------------------------------------
(* abort() *)

AbortAllowed == ~aborted

(* Set the flag, cancel the streams, and see whether a server has work.      *)
BeginAbort ==
    /\ call = "abort"
    /\ IF ~AbortAllowed THEN Raise /\ UNCHANGED state
       ELSE /\ aborted' = TRUE
            /\ stage' = [g \in Groups |-> [i \in Index |->
                   IF <<g, i>> \in cancellable THEN "cancelled" ELSE stage[g][i]]]
            /\ cancellable' = {}
            /\ call' = IF active # 0 THEN "pause" ELSE "gather"
            /\ UNCHANGED <<sample, task, pendings, remaining, active, done, data, kept>>
    /\ UNCHANGED <<buffer, paused, version, rollout, leftover, restarts>>

PauseServers ==
    /\ call = "pause"
    /\ paused' = TRUE /\ call' = "gather"
    /\ UNCHANGED <<buffer, tasks, state, version, done, data, kept, rollout, leftover, restarts>>

(* A server does not acknowledge: those that did are resumed again.          *)
PauseFails ==
    /\ call = "pause" /\ MayFail
    /\ faults' = faults + 1 /\ call' = "undo"
    /\ \E p \in BOOLEAN : paused' = p
    /\ UNCHANGED <<buffer, tasks, state, version, done, data, kept, rollout, leftover, restarts>>

GatherCancelled ==
    /\ call = "gather" /\ \A g \in Groups, i \in Index : stage[g][i] # "cancelled"
    /\ call' = "drain"
    /\ UNCHANGED <<buffer, tasks, state, paused, version, done, data, kept, rollout, leftover, restarts>>

(* Mutant: only a group interrupted in every sample is handed back.           *)
KeepsInterrupted(g) == \A i \in Index : sample[g][i].status = "aborted" /\ sample[g][i].made # <<>>

Keeps(g) == \E i \in Index : sample[g][i].status = "aborted" /\ sample[g][i].made # <<>>

(* Every task ends; with partial rollout, a group with a prefix is kept.     *)
Drain ==
    /\ call = "drain" /\ Ended # {}
    /\ pendings' = pendings \ Ended
    /\ IF conf.partial /\ \E g \in Ended : task[g] = "failed"
       THEN call' = "undo" /\ UNCHANGED <<kept, tasks>>
       ELSE LET back == {g \in Ended : conf.partial /\ Keeps(g)} IN
            /\ kept' = kept \cup back
            /\ Drop(Ended \ back)
            /\ call' = call
    /\ UNCHANGED <<buffer, remaining, aborted, cancellable, active, paused, version,
                   done, data, rollout, leftover, restarts>>

ResumeServers ==
    /\ call = "drain" /\ pendings = {}
    /\ paused' = FALSE /\ call' = "return"
    /\ UNCHANGED <<buffer, tasks, state, version, done, data, kept, rollout, leftover, restarts>>

ResumeFails ==
    /\ call = "drain" /\ pendings = {} /\ paused /\ MayFail
    /\ faults' = faults + 1
    /\ Raise
    /\ UNCHANGED <<buffer, state, paused, version, rollout, leftover, restarts>>

(* The finally clause of an abort that failed.                               *)
Undo ==
    /\ call = "undo"
    /\ Raise
    /\ \/ paused' = FALSE
       \/ paused /\ MayFail /\ paused' = paused
    /\ faults' = IF paused' THEN faults + 1 ELSE faults
    /\ UNCHANGED <<buffer, state, version, rollout, leftover, restarts>>

(* reset(), and generate_rollout hands the prefixes back.                    *)
Return ==
    /\ call = "return"
    /\ pendings' = {} /\ remaining' = 0 /\ aborted' = FALSE /\ cancellable' = {} /\ active' = 0
    /\ buffer' = buffer \cup kept
    /\ call' = "train" /\ kept' = {} /\ leftover' = leftover \cap data
    /\ UNCHANGED <<tasks, paused, version, done, data, rollout, restarts>>

(* The driver trains on the batch.                                           *)
Train ==
    /\ call = "train"
    /\ Drop(data) /\ data' = {}
    /\ call' = "publish"
    /\ UNCHANGED <<buffer, state, paused, version, done, kept, rollout, leftover, restarts>>

(* A failed attempt is submitted again: the manager and its process stay.    *)
Restart ==
    /\ call = "failed"
    /\ leftover' = pendings /\ restarts' = restarts + 1
    /\ call' = "publish"
    /\ UNCHANGED <<buffer, tasks, state, paused, version, done, data, kept, rollout>>

(* The trained or restored weights are published and the servers resumed.    *)
(* The first publication of an attempt and every one that flushes the cache  *)
(* stop what the servers have under way.                                     *)
Publish ==
    /\ call = "publish"
    /\ \E flush_cache \in BOOLEAN :
           stage' = [g \in Groups |-> [i \in Index |->
               IF flush_cache /\ stage[g][i] = "sent" THEN "cut" ELSE stage[g][i]]]
    /\ version' = version + 1 /\ paused' = FALSE /\ rollout' = rollout + 1 /\ call' = "idle"
    /\ UNCHANGED <<buffer, sample, task, state, done, data, kept, leftover, restarts>>

-----------------------------------------------------------------------------
Init ==
    /\ conf \in Confs
    /\ buffer = {}
    /\ sample = [g \in Groups |-> [i \in Index |-> Fresh]]
    /\ stage = [g \in Groups |-> [i \in Index |-> "none"]]
    /\ task = [g \in Groups |-> "none"]
    /\ pendings = {} /\ remaining = 0 /\ aborted = FALSE /\ cancellable = {} /\ active = 0
    /\ paused = FALSE /\ version = 0
    /\ call = "idle" /\ done = {} /\ data = {} /\ kept = {} /\ rollout = 0 /\ leftover = {} /\ restarts = 0
    /\ rejects = 0 /\ faults = 0

SampleStep(g, i) == Admit(g, i) \/ Reply(g, i) \/ Refused(g, i) \/ Chunk(g, i) \/ Cancelled(g, i) \/ Score(g, i)
GroupStep(g) == StartGroup(g) \/ GroupFails(g) \/ Gathered(g) \/ GroupScored(g)
CallStep ==
    \/ Begin \/ Sample \/ Wait \/ WaitForNothing \/ Taken
    \/ BeginAbort \/ PauseServers \/ GatherCancelled \/ Drain \/ ResumeServers \/ Return
    \/ Train \/ Restart \/ Publish
    \/ \E g \in Groups : TakeRaises(g)

Next ==
    \/ /\ \/ \E g \in Groups : GroupStep(g) \/ \E i \in Index : SampleStep(g, i)
       /\ UNCHANGED <<conf, buffer, version, rolling, rejects, faults>>
    \/ /\ \E g \in Groups : GroupRmFails(g) \/ \E i \in Index : SampleFails(g, i)
       /\ UNCHANGED <<conf, buffer, version, rolling, rejects>>
    \/ CallStep /\ UNCHANGED <<conf, rejects, faults>>
    \/ \E g \in Groups : TakeGroup(g) /\ UNCHANGED <<conf, faults>>
    \/ (PauseFails \/ ResumeFails \/ Undo) /\ UNCHANGED <<conf, rejects>>
    \/ call = "idle" /\ rollout = MaxRollouts /\ UNCHANGED vars

Spec == Init /\ [][Next]_vars

-----------------------------------------------------------------------------
(* Properties *)

(* What generate_rollout returns can be trained on: each group is in nobody   *)
(* else's hands and no task writes to it any more, nor to one in the buffer;  *)
(* every sample is finished and has its reward, also when an abort or an      *)
(* assertion came in between; and the mask counts exactly the tokens of this  *)
(* rollout's weights if "only on-policy generated tokens will be used in      *)
(* training", all of them otherwise.  A group that a failed rollout left      *)
(* behind is different: it carries the weights of that attempt, and a sample  *)
(* of it that the next attempt's first publication stopped is unfinished.     *)
BatchSound ==
    call = "train" =>
        /\ Cardinality(data) = Batch
        /\ data \cap (buffer \cup pendings) = {}
        /\ \A g \in data \cup buffer, i \in Index : stage[g][i] \in {"none", "done"}
        /\ \A g \in data, i \in Index :
               LET s == sample[g][i] IN
               /\ Finished(s) => s.scored
               /\ Finished(s) \/ (g \in leftover /\ s.status = "aborted")
               /\ g \notin leftover =>
                      LossMask(s) = [t \in DOMAIN s.made |->
                          IF conf.partial /\ conf.masking /\ s.made[t] # version THEN 0 ELSE 1]

(* "Partial rollout preserves generated work": no step throws away the tokens *)
(* of an interrupted sample; they stay until the sample goes on from them and *)
(* its group is finished.  Excepted are a rollout that raises, what its tasks *)
(* that still run answer later, a rollout that runs with the flag a failed    *)
(* abort has left set, which can only raise, and what the rollout after one   *)
(* that raised chooses or drops of the groups it found: it takes a group      *)
(* without a look at the status of its samples.                               *)
PrefixesSurvive ==
    [][\A g \in Held, i \in Index :
           LET s == sample[g][i] IN
           conf.partial /\ s.status = "aborted" /\ call' # "failed" /\ ~(aborted /\ call = "taking")
           /\ g \notin leftover \cap (done \cup data) =>
               IsPrefix(s.made, sample'[g][i].made)]_vars

(* Between publications the servers are paused only for an abort, so that a   *)
(* refused request can be told from an error; and once an abort has asked for *)
(* it, every request in flight has been stopped: none is sent after the flag  *)
(* is set, and none is missed by the count.  A group that failed may leave a  *)
(* request behind.                                                            *)
AbortScope ==
    /\ paused => aborted
    /\ call \in {"gather", "drain"} /\ faults = 0 =>
           \A g \in Groups, i \in Index : stage[g][i] = "sent" => paused

(* "When the number of available samples falls below the target, a sampling   *)
(* operation of size over_sampling_batch_size will be triggered": whenever    *)
(* the rollout waits, the groups it has and those under way fill the batch.   *)
(* A failed rollout leaves a count that is too high.                          *)
EnoughAvailable ==
    call = "waiting" /\ restarts = 0 => Cardinality(data) + Cardinality(pendings) >= Batch
=============================================================================
