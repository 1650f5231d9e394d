----------------------- MODULE JointCheckpointProofs -----------------------
(***************************************************************************)
(* Proofs about JointCheckpoint: a published manifest keeps naming the     *)
(* model it was written for, model and queue describe one boundary in      *)
(* every manifest and every running job, and a restart is not refused.     *)
(***************************************************************************)
EXTENDS JointCheckpoint, WellFoundedInduction, TLAPS

-----------------------------------------------------------------------------
(* The inductive invariant *)

Manifests == [model : Models, queued : SUBSET Prompts, cursor : Nat]
Queues == [queued : SUBSET Prompts, cursor : Nat]
Journals == [queued : SUBSET Prompts, cursor : Nat, planned : BOOLEAN]
Plans == [mode : {"new", "resume", "rewind", "empty"}, step : Steps \cup {None},
          current : BOOLEAN, cursor : BOOLEAN]

\* Where a job is: it restores, trains, or saves.
Outside == {"down", "resolved"}
Replaying == {"rewinding", "cursor", "inputs", "discard", "finish"}
Writing == {"save_payloads", "save_tracker", "save_cursor", "save_queue", "save_builder", "sync", "commit"}
Saving == {"save_model"} \cup Writing
Stepping == {"planned", "trained", "latest"} \cup Saving
Working == {"running"} \cup Stepping
Places == Outside \cup {"loading"} \cup Replaying \cup Working

TypeOK ==
    /\ session \in Sessions \cup {None}
    /\ tracker \in Steps \cup {None}
    /\ iter \in [Steps -> Payloads \cup {None}]
    /\ cursorFile \in [Steps -> Nat \cup {None}]
    /\ queueState \in [Steps -> Snapshots \cup {None}]
    /\ builderState \subseteq Steps
    /\ committed \in [Steps -> Manifests \cup {None}]
    /\ journal \in Journals
    /\ owner \in Drivers \cup {None}
    /\ pc \in [Drivers -> Places]
    /\ plan \in [Drivers -> Plans]
    /\ target \in Queues
    /\ model \in Models
    /\ rid \in Nat
    /\ clean \in BOOLEAN

\* The lock: only its holder is beyond the resolution of a checkpoint.
OneOwner == \A d \in Drivers : pc[d] \notin Outside => owner = d

\* A job trains and saves at a step it has not committed, beyond every commit.
BeyondCommits ==
    \A d \in Drivers :
        /\ pc[d] \in Stepping => rid \in Steps /\ journal.planned
        /\ pc[d] \in Working /\ pc[d] # "latest" => \A n \in Commits : n < rid
        /\ pc[d] = "latest" => \A n \in Commits : n <= rid

\* A save that is under way holds what it will commit.
SaveHolds ==
    \A d \in Drivers :
        /\ pc[d] \in Writing => iter[rid] \in Payloads /\ iter[rid].model = model
        /\ pc[d] \in Writing \ {"save_payloads", "save_tracker"} => tracker = rid
        /\ pc[d] = "commit" => iter[rid].state = "synced"
        /\ pc[d] \in {"save_builder", "sync", "commit"} =>
              /\ queueState[rid] \in Snapshots /\ queueState[rid].state = "good"
              /\ queueState[rid].queued = journal.queued /\ queueState[rid].cursor = journal.cursor

\* A manifest and the snapshot it names, unless the storage damaged it.
CommitSound ==
    \A n \in Commits :
        /\ iter[n] \in Payloads
        /\ committed[n].model.exact =>
              Partition(committed[n].model, committed[n].queued, committed[n].cursor)
        /\ queueState[n] \in Snapshots /\ queueState[n].state = "good" =>
              queueState[n].queued = committed[n].queued /\ queueState[n].cursor = committed[n].cursor

\* Model, queue and the saved inputs that are still to be submitted.
Boundary ==
    \A d \in Drivers : model.exact =>
        /\ pc[d] \in {"running", "trained", "latest", "discard", "finish"} \cup Saving =>
              Partition(model, journal.queued, journal.cursor)
        /\ pc[d] = "planned" =>
              /\ target.queued \cap journal.queued = {}
              /\ Partition(model, journal.queued \cup target.queued, journal.cursor)
        /\ pc[d] \in {"cursor", "inputs"} => Partition(model, target.queued, target.cursor)
Resubmitting ==
    \A d \in Drivers :
        /\ pc[d] = "cursor" => journal.queued = {}
        /\ pc[d] = "inputs" => journal.queued \subseteq target.queued /\ journal.cursor = target.cursor

\* The payloads of a step and its snapshot, committed or discarded.
Pair(n) ==
    /\ iter[n] \in Payloads
    /\ iter[n].model.exact /\ queueState[n] \in Snapshots /\ queueState[n].state = "good" =>
          Partition(iter[n].model, queueState[n].queued, queueState[n].cursor)

\* What a plan that can still be used, or is being used, says of the disk.
Usable(d) == pc[d] = "resolved" /\ plan[d].current
Using(d) == pc[d] \in {"loading"} \cup Replaying
PlanSound ==
    \A d \in Drivers :
        /\ Usable(d) \/ Using(d) =>
              /\ plan[d].step = None <=> plan[d].mode \in {"new", "resume"}
              /\ plan[d].mode = "rewind" => Pair(plan[d].step)
              /\ plan[d].step # None => iter[plan[d].step] # None /\ tracker # None
        /\ Usable(d) => /\ plan[d].mode = "new" => session = None
                        /\ plan[d].mode = "resume" => session # None /\ session.restore = None
        /\ Usable(d) /\ plan[d].mode = "rewind" =>
              \A e \in Drivers : pc[e] \in Working \/ (pc[e] = "loading" /\ plan[e].step = None) =>
                  plan[d].step \in Commits
        /\ Using(d) => session # None /\ session.restore = plan[d].step
        /\ pc[d] \in Replaying => plan[d].step # None /\ rid = plan[d].step + 1
        /\ pc[d] = "loading" /\ plan[d].mode = "new" => ~journal.planned
        /\ pc[d] = "rewinding" /\ plan[d].mode = "rewind" => model = iter[plan[d].step].model

\* A log from which nothing was planned is the one the run began with.
Resumable ==
    session # None /\ session.restore = None /\ ~journal.planned =>
        Commits = {} /\ Partition(Untrained, journal.queued, journal.cursor)

\* Before the first job there is no checkpoint.
Fresh == session = None => owner = None /\ Commits = {} /\ tracker = None

\* The session names a boundary that can be gone back to; later commits exist
\* only until the rewind to it has discarded them.
SessionSound ==
    session # None =>
        /\ session.restore # None => iter[session.restore] # None /\ tracker # None
        /\ session.pending => session.restore # None
        /\ Commits # {} => tracker # None
        /\ ~session.pending => \A n \in Commits : n <= tracker
        /\ \A d \in Drivers : pc[d] \in Working => ~session.pending
        /\ \A d \in Drivers :
               pc[d] \in Replaying \/ (pc[d] = "loading" /\ plan[d].step # None) => session.pending
        /\ \A d \in Drivers : pc[d] = "finish" =>
               tracker = session.restore /\ \A n \in Commits : n <= session.restore

\* Commits up to the boundary of an unfinished rewind are complete.
Complete ==
    clean =>
        /\ \A n \in Commits : (session # None /\ session.pending => n <= session.restore) =>
               queueState[n] \in Snapshots /\ queueState[n].state = "good" /\ n \in builderState
        /\ \A d \in Drivers : Usable(d) /\ session # None /\ session.pending => plan[d].step = session.restore

IInv ==
    /\ TypeOK /\ OneOwner /\ BeyondCommits /\ SaveHolds /\ CommittedModelKept /\ CommitSound
    /\ Boundary /\ Resubmitting /\ PlanSound /\ Resumable /\ Fresh /\ SessionSound /\ Complete

-----------------------------------------------------------------------------
(* Names for parts of a state or of a step; always expanded. *)
USE DEF disk, budget, Move

\* What WriteSession does to the plans: their steps stay, none can be used.
LEMMA StalePlans ==
    ASSUME TypeOK, NEW v, WriteSession(v)
    PROVE  /\ plan' \in [Drivers -> Plans]
           /\ \A e \in Drivers : /\ ~plan'[e].current /\ plan'[e].step = plan[e].step
                                 /\ plan'[e].mode = plan[e].mode /\ plan'[e].cursor = plan[e].cursor
<1>1. \A p \in Plans : /\ [p EXCEPT !.current = FALSE] \in Plans
                      /\ [p EXCEPT !.current = FALSE].step = p.step
                      /\ [p EXCEPT !.current = FALSE].mode = p.mode
                      /\ [p EXCEPT !.current = FALSE].cursor = p.cursor
                      /\ ~[p EXCEPT !.current = FALSE].current
  BY DEF Plans
<1>2. \A e \in Drivers : plan[e] \in Plans /\ plan'[e] = [plan[e] EXCEPT !.current = FALSE]
  BY DEF TypeOK, WriteSession
<1>3. plan' = [e \in Drivers |-> plan'[e]]
  BY DEF WriteSession
<1> QED  BY <1>1, <1>2, <1>3

\* A non-empty set of steps has the last one that Max chooses.
LEMMA LastStep ==
    ASSUME NEW S \in SUBSET Steps, S # {}
    PROVE  Max(S) \in S /\ \A n \in S : n <= Max(S)
<1> DEFINE T == {MaxStep - n : n \in S}
<1>1. T \subseteq Nat /\ T # {}
  <2>1. \A n \in S : MaxStep - n \in Nat
    BY ConstantsAssumption DEF Steps
  <2> QED  BY <2>1
<1>2. \E x \in T : \A y \in T : ~ (<<y, x>> \in OpToRel(<, Nat))
  BY <1>1, NatLessThanWellFounded, WFMin, Zenon
<1>3. PICK x \in T : \A y \in T : x <= y
  <2>1. \A y, x \in Nat : y < x => <<y, x>> \in OpToRel(<, Nat)
    BY DEF OpToRel
  <2>2. PICK x \in T : \A y \in T : ~ (<<y, x>> \in OpToRel(<, Nat))
    BY <1>2
  <2>3. \A y \in T : x \in Nat /\ y \in Nat /\ ~ (y < x)
    BY <1>1, <2>1, <2>2
  <2> QED  BY <2>3
<1>4. PICK m \in S : x = MaxStep - m
  OBVIOUS
<1>5. \A n \in S : n \in Int /\ m >= n /\ n <= m
  BY <1>3, <1>4, ConstantsAssumption DEF Steps
<1>6. Max(S) \in S /\ \A n \in S : Max(S) >= n
  BY <1>5 DEF Max
<1> QED  BY <1>6, ConstantsAssumption DEF Steps

\* The smaller of two.
LEMMA SmallerOf ==
    ASSUME NEW a \in Nat, NEW b \in Nat
    PROVE  Min({a, b}) = IF a <= b THEN a ELSE b
<1> DEFINE m == IF a <= b THEN a ELSE b
<1>1. m \in {a, b} /\ \A y \in {a, b} : m =< y
  OBVIOUS
<1>2. \A x \in {a, b} : (\A y \in {a, b} : x =< y) => x = m
  OBVIOUS
<1>3. Min({a, b}) \in {a, b} /\ \A y \in {a, b} : Min({a, b}) =< y
  BY <1>1 DEF Min
<1> QED  BY <1>2, <1>3

\* A step that is being trained or saved is not committed.
LEMMA Uncommitted ==
    ASSUME IInv, NEW d \in Drivers, pc[d] \in {"planned", "trained"} \cup Saving
    PROVE  rid \in Steps /\ rid \notin Commits /\ committed[rid] = None
<1>1. rid \in Steps /\ \A n \in Commits : n < rid
  BY DEF IInv, BeyondCommits, Working, Stepping, Saving, Writing
<1> QED  BY <1>1, ConstantsAssumption DEF Commits, Steps

\* Which step a launch is sent to: the step asked for, else one whose model is
\* on disk and behind the pointer.
LEMMA AskedStepType ==
    ASSUME IInv, NEW s \in Steps \cup {None}
    PROVE  AskedStep(s) \in Steps \cup {None}
BY DEF IInv, TypeOK, Sessions, AskedStep

LEMMA SelectSound ==
    ASSUME IInv, NEW s \in Steps \cup {None}, NEW n \in Select(s), n # None
    PROVE  /\ n \in Steps /\ iter[n] # None /\ tracker # None
           /\ s # None => n = s
<1> USE ConstantsAssumption DEF IInv
<1>1. tracker \in Steps
  BY DEF TypeOK, Select
<1>2. Commits # {} => Min({tracker, Max(Commits)}) \in Steps
  <2> SUFFICES ASSUME Commits # {} PROVE Min({tracker, Max(Commits)}) \in Steps
    OBVIOUS
  <2>1. Max(Commits) \in Steps
    BY LastStep DEF Commits
  <2>2. tracker \in Nat /\ Max(Commits) \in Nat
    BY <1>1, <2>1 DEF Steps
  <2> QED  BY <1>1, <2>1, <2>2, SmallerOf
<1> DEFINE c == IF s # None THEN s
                ELSE IF Commits = {} THEN tracker ELSE Min({tracker, Max(Commits)})
<1>3. c \in Steps
  BY <1>1, <1>2
<1>4. n \in IF c \in Commits THEN (IF ModelMatches(c) THEN {c} ELSE {None})
            ELSE IF iter[c] = None THEN {None} ELSE {c}
  BY <1>1 DEF Select, Steps
<1>5. n = c /\ iter[c] # None
  BY <1>4 DEF ModelMatches
<1> QED  BY <1>1, <1>3, <1>5 DEF Steps


\* The job ends, or stops and loses unsynced payloads: what it held is
\* gone, what it wrote stays.
LEMMA StopKeeps ==
    ASSUME IInv, NEW d \in Drivers, owner = d, Stop(d),
           UNCHANGED <<session, tracker, cursorFile, queueState, builderState, committed, journal, clean>>,
           iter' \in [Steps -> Payloads \cup {None}],
           \A n \in Steps : iter[n] \in Payloads =>
               /\ iter'[n] \in Payloads /\ iter'[n].model = iter[n].model
               /\ iter[n].state = "synced" => iter'[n].state = "synced"
    PROVE  IInv'
<1> USE ConstantsAssumption DEF IInv, Stop, Withdraw
<1>0. /\ \A e \in Drivers : pc'[e] \in Outside /\ (pc'[e] = "resolved" => e # d /\ pc[e] = "resolved")
      /\ \A e \in Drivers \ {d} : plan'[e] = plan[e]
  BY DEF TypeOK, OneOwner, Outside
<1>1. TypeOK'
  <2>1. plan' \in [Drivers -> Plans] /\ pc' \in [Drivers -> Places]
    BY DEF TypeOK, Plans, NoPlan, Places, Outside
  <2>2. target' \in Queues /\ model' \in Models /\ rid' \in Nat
    BY DEF EmptyQueue, Untrained, Queues, Models
  <2> QED  BY <2>1, <2>2 DEF TypeOK
<1>2. OneOwner'
  BY <1>0 DEF OneOwner, TypeOK, Outside
<1>3. BeyondCommits'
  BY <1>0 DEF BeyondCommits, TypeOK, OneOwner, Outside, Journals, Commits, Working, Stepping,
     Saving, Writing
<1>4. SaveHolds'
  BY <1>0 DEF SaveHolds, TypeOK, OneOwner, Outside, Writing
<1>5. CommittedModelKept'
  BY DEF CommittedModelKept, TypeOK, Commits, CommitSound
<1>6. CommitSound'
  BY DEF CommitSound, TypeOK, Commits
<1>7. Boundary'
  BY <1>0 DEF Boundary, OneOwner, TypeOK, Outside, Saving, Writing
<1>8. Resubmitting'
  BY <1>0 DEF Resubmitting, OneOwner, TypeOK, Outside, Journals, Queues
<1>9. PlanSound'
  <2>1. \A n \in Steps : iter[n] # None =>
            iter'[n] # None /\ iter'[n] \in Payloads /\ iter'[n].model = iter[n].model
    BY NoneAssumption DEF TypeOK
  <2> QED  BY <1>0, <2>1 DEF PlanSound, TypeOK, Plans, Usable, Using, Pair, Commits, Outside,
              Replaying,
              Working, Stepping, Saving, Writing
<1>10. Resumable'
  BY DEF Resumable, TypeOK, Commits, Journals
<1>11. Fresh'
  BY DEF Fresh, Commits
<1>12. SessionSound'
  <2>1. \A n \in Steps : iter[n] # None => iter'[n] # None
    BY NoneAssumption DEF TypeOK
  <2> QED  BY <1>0, <2>1 DEF SessionSound, TypeOK, Sessions, Commits, Outside, Replaying, Working,
              Stepping, Saving, Writing
<1>13. Complete'
  BY <1>0 DEF Complete, TypeOK, Commits, Usable
<1> QED  BY <1>1, <1>2, <1>3, <1>4, <1>5, <1>6, <1>7, <1>8, <1>9, <1>10, <1>11, <1>12, <1>13

\* RolloutQueueController.__init__ finds the lock held: only that launch
\* is withdrawn.
LEMMA StartRefusedKeeps ==
    ASSUME IInv, NEW d \in Drivers, StartRefused(d)
    PROVE  IInv'
<1> USE ConstantsAssumption DEF IInv, StartRefused, Withdraw, NoPlan
<1>1. TypeOK'
  <2>1. plan' \in [Drivers -> Plans]
    BY DEF TypeOK, Plans
  <2> QED  BY <2>1 DEF TypeOK, Steps, Prompts, Journals, Queues, Places, Outside, Replaying,
              Working, Stepping, Saving, Writing
<1>2. OneOwner'
  BY DEF OneOwner, TypeOK, Outside
<1>3. BeyondCommits'
  BY DEF BeyondCommits, TypeOK, OneOwner, Outside, Journals, Commits, Working, Stepping, Saving,
     Writing
<1>4. SaveHolds'
  BY DEF SaveHolds, TypeOK, OneOwner, Outside, Writing
<1>5. CommittedModelKept'
  BY DEF CommittedModelKept, TypeOK, Commits
<1>6. CommitSound'
  BY DEF CommitSound, TypeOK, Commits
<1>7. Boundary'
  BY DEF Boundary, OneOwner, TypeOK, Outside, Saving, Writing
<1>8. Resubmitting'
  BY DEF Resubmitting, OneOwner, TypeOK, Outside, Journals, Queues
<1>9. PlanSound'
  BY DEF PlanSound, OneOwner, TypeOK, Outside, Usable, Using, Pair, Plans, Commits, Replaying,
     Working, Stepping, Saving, Writing
<1>10. Resumable'
  BY DEF Resumable, TypeOK, Commits, Journals
<1>11. Fresh'
  BY DEF Fresh, Commits
<1>12. SessionSound'
  BY DEF SessionSound, OneOwner, TypeOK, Outside, Commits, Replaying, Working, Stepping, Saving,
     Writing
<1>13. Complete'
  BY DEF Complete, TypeOK, Commits, Usable
<1> QED  BY <1>1, <1>2, <1>3, <1>4, <1>5, <1>6, <1>7, <1>8, <1>9, <1>10, <1>11, <1>12, <1>13

\* QueueDataSource.rewind restores the dataset cursor of the saved queue.
LEMMA SubmitCursorKeeps ==
    ASSUME IInv, NEW d \in Drivers, SubmitCursor(d)
    PROVE  IInv'
<1> USE ConstantsAssumption DEF IInv, SubmitCursor
<1>1. TypeOK'
  <2>1. journal' \in Journals
    BY DEF TypeOK, Journals, Queues, Prompts
  <2> QED  BY <2>1 DEF TypeOK, Steps, Prompts, Queues, Places, Outside, Replaying, Working,
              Stepping, Saving, Writing
<1>2. OneOwner'
  BY DEF OneOwner, TypeOK, Outside
<1>3. BeyondCommits'
  BY DEF BeyondCommits, TypeOK, OneOwner, Outside, Journals, Commits, Working, Stepping, Saving,
     Writing
<1>4. SaveHolds'
  BY DEF SaveHolds, TypeOK, OneOwner, Outside, Writing
<1>5. CommittedModelKept'
  BY DEF CommittedModelKept, TypeOK, Commits
<1>6. CommitSound'
  BY DEF CommitSound, TypeOK, Commits
<1>7. Boundary'
  BY DEF Boundary, OneOwner, TypeOK, Outside, Saving, Writing
<1>8. Resubmitting'
  BY DEF Resubmitting, OneOwner, TypeOK, Outside, Journals, Queues
<1>9. PlanSound'
  BY DEF PlanSound, OneOwner, TypeOK, Outside, Usable, Using, Pair, Plans, Commits, Replaying,
     Working, Stepping, Saving, Writing
<1>10. Resumable'
  BY DEF Resumable, TypeOK, Commits, Journals, PlanSound, Using, Replaying
<1>11. Fresh'
  BY DEF Fresh, Commits
<1>12. SessionSound'
  BY DEF SessionSound, OneOwner, TypeOK, Outside, Commits, Replaying, Working, Stepping, Saving,
     Writing
<1>13. Complete'
  BY DEF Complete, TypeOK, Commits, Usable
<1> QED  BY <1>1, <1>2, <1>3, <1>4, <1>5, <1>6, <1>7, <1>8, <1>9, <1>10, <1>11, <1>12, <1>13

\* submit_tasks puts one saved input back: none twice, none that was not
\* saved.
LEMMA SubmitInputsKeeps ==
    ASSUME IInv, NEW d \in Drivers, SubmitInputs(d)
    PROVE  IInv'
<1> USE ConstantsAssumption DEF IInv, SubmitInputs
<1>1. TypeOK'
  <2>1. PICK p \in target.queued \ journal.queued :
              journal' = [journal EXCEPT !.queued = journal.queued \cup {p}]
    OBVIOUS
  <2>2. journal' = [queued |-> journal.queued \cup {p}, cursor |-> journal.cursor,
                    planned |-> journal.planned]
    BY <2>1 DEF TypeOK, Journals
  <2>3. p \in Prompts
    BY DEF TypeOK, Queues
  <2>4. journal' \in Journals
    BY <2>2, <2>3 DEF TypeOK, Journals
  <2> QED  BY <2>4 DEF TypeOK, Steps, Prompts, Places, Outside, Replaying, Working, Stepping,
              Saving, Writing
<1>2. OneOwner'
  BY DEF OneOwner, TypeOK, Outside
<1>3. BeyondCommits'
  BY DEF BeyondCommits, TypeOK, OneOwner, Outside, Journals, Commits, Working, Stepping, Saving,
     Writing
<1>4. SaveHolds'
  BY DEF SaveHolds, TypeOK, OneOwner, Outside, Writing
<1>5. CommittedModelKept'
  BY DEF CommittedModelKept, TypeOK, Commits
<1>6. CommitSound'
  BY DEF CommitSound, TypeOK, Commits
<1>7. Boundary'
  BY DEF Boundary, OneOwner, TypeOK, Outside, Saving, Writing
<1>8. Resubmitting'
  <2>1. PICK p \in target.queued \ journal.queued :
             journal' = [queued |-> journal.queued \cup {p}, cursor |-> journal.cursor,
                         planned |-> journal.planned]
    BY DEF TypeOK, Journals
  <2> QED  BY <2>1 DEF Resubmitting, OneOwner, TypeOK, Outside
<1>9. PlanSound'
  BY DEF PlanSound, OneOwner, TypeOK, Outside, Usable, Using, Pair, Plans, Commits, Replaying,
     Working, Stepping, Saving, Writing
<1>10. Resumable'
  BY DEF Resumable, TypeOK, Commits, Journals, PlanSound, Using, Replaying
<1>11. Fresh'
  BY DEF Fresh, Commits
<1>12. SessionSound'
  BY DEF SessionSound, OneOwner, TypeOK, Outside, Commits, Replaying, Working, Stepping, Saving,
     Writing
<1>13. Complete'
  BY DEF Complete, TypeOK, Commits, Usable
<1> QED  BY <1>1, <1>2, <1>3, <1>4, <1>5, <1>6, <1>7, <1>8, <1>9, <1>10, <1>11, <1>12, <1>13

\* Every saved input is back: the log now is the queue that was saved.
LEMMA InputsDoneKeeps ==
    ASSUME IInv, NEW d \in Drivers, InputsDone(d)
    PROVE  IInv'
<1> USE ConstantsAssumption DEF IInv, InputsDone, EmptyQueue
<1>1. TypeOK'
  BY DEF TypeOK, Steps, Prompts, Journals, Queues, Places, Outside, Replaying, Working,
     Stepping, Saving, Writing
<1>2. OneOwner'
  BY DEF OneOwner, TypeOK, Outside
<1>3. BeyondCommits'
  BY DEF BeyondCommits, TypeOK, OneOwner, Outside, Journals, Commits, Working, Stepping, Saving,
     Writing
<1>4. SaveHolds'
  BY DEF SaveHolds, TypeOK, OneOwner, Outside, Writing
<1>5. CommittedModelKept'
  BY DEF CommittedModelKept, TypeOK, Commits
<1>6. CommitSound'
  BY DEF CommitSound, TypeOK, Commits
<1>7. Boundary'
  <2>1. journal.queued = target.queued /\ journal.cursor = target.cursor
    BY DEF Resubmitting
  <2> QED  BY <2>1 DEF Boundary, OneOwner, TypeOK, Outside, Saving, Writing
<1>8. Resubmitting'
  BY DEF Resubmitting, OneOwner, TypeOK, Outside, Journals, Queues
<1>9. PlanSound'
  BY DEF PlanSound, OneOwner, TypeOK, Outside, Usable, Using, Pair, Plans, Commits, Replaying,
     Working, Stepping, Saving, Writing
<1>10. Resumable'
  BY DEF Resumable, TypeOK, Commits, Journals
<1>11. Fresh'
  BY DEF Fresh, Commits
<1>12. SessionSound'
  BY DEF SessionSound, OneOwner, TypeOK, Outside, Commits, Replaying, Working, Stepping, Saving,
     Writing
<1>13. Complete'
  BY DEF Complete, TypeOK, Commits, Usable
<1> QED  BY <1>1, <1>2, <1>3, <1>4, <1>5, <1>6, <1>7, <1>8, <1>9, <1>10, <1>11, <1>12, <1>13

\* discard_future unlinks one file of a later step; the boundary keeps all
\* of its own.
LEMMA DiscardFutureKeeps ==
    ASSUME IInv, NEW d \in Drivers, DiscardFuture(d)
    PROVE  IInv'
<1> USE ConstantsAssumption DEF IInv, DiscardFuture, Later
<1>1. TypeOK'
  <2>1. committed' \in [Steps -> Manifests \cup {None}]
    BY DEF TypeOK
  <2>2. cursorFile' \in [Steps -> Nat \cup {None}]
    BY DEF TypeOK
  <2>3. queueState' \in [Steps -> Snapshots \cup {None}]
    BY DEF TypeOK
  <2> QED  BY <2>1, <2>2, <2>3 DEF TypeOK, Steps, Prompts, Journals, Queues, Places, Outside,
              Replaying, Working, Stepping, Saving, Writing
<1>2. OneOwner'
  BY DEF OneOwner, TypeOK, Outside
<1>3. BeyondCommits'
  BY DEF BeyondCommits, TypeOK, OneOwner, Outside, Journals, Commits, Working, Stepping, Saving,
     Writing
<1>4. SaveHolds'
  BY DEF SaveHolds, TypeOK, OneOwner, Outside, Writing
<1>5. CommittedModelKept'
  BY DEF CommittedModelKept, TypeOK, Commits
<1>6. CommitSound'
  BY DEF CommitSound, TypeOK, Commits
<1>7. Boundary'
  BY DEF Boundary, OneOwner, TypeOK, Outside, Saving, Writing
<1>8. Resubmitting'
  BY DEF Resubmitting, OneOwner, TypeOK, Outside, Journals, Queues
<1>9. PlanSound'
  BY NoneAssumption DEF PlanSound, OneOwner, TypeOK, Outside, Usable, Using, Pair, Plans,
     Commits, Replaying, Working, Stepping, Saving, Writing, Steps
<1>10. Resumable'
  BY DEF Resumable, TypeOK, Commits, Journals
<1>11. Fresh'
  BY DEF Fresh, Commits
<1>12. SessionSound'
  BY DEF SessionSound, OneOwner, TypeOK, Outside, Commits, Replaying, Working, Stepping, Saving,
     Writing
<1>13. Complete'
  <2>1. session # None /\ session.pending /\ session.restore = plan[d].step /\ plan[d].step \in Steps
    BY DEF PlanSound, SessionSound, TypeOK, Using, Replaying, Plans
  <2>2. ASSUME NEW n \in Steps, n <= plan[d].step
        PROVE  /\ committed'[n] # None => committed[n] # None
               /\ queueState'[n] = queueState[n]
               /\ n \in builderState => n \in builderState'
    BY <2>1, <2>2 DEF TypeOK, Steps
  <2> QED  BY <2>1, <2>2 DEF Complete, Commits, Usable
<1> QED  BY <1>1, <1>2, <1>3, <1>4, <1>5, <1>6, <1>7, <1>8, <1>9, <1>10, <1>11, <1>12, <1>13

\* discard_future ends by rewriting the pointer: no later commit is left.
LEMMA DiscardTrackerKeeps ==
    ASSUME IInv, NEW d \in Drivers, DiscardTracker(d)
    PROVE  IInv'
<1> USE ConstantsAssumption DEF IInv, DiscardTracker, Later
<1>1. TypeOK'
  BY DEF TypeOK, Steps, Prompts, Journals, Queues, Places, Outside, Replaying, Working,
     Stepping, Saving, Writing, Plans, PlanSound, Using
<1>2. OneOwner'
  BY DEF OneOwner, TypeOK, Outside
<1>3. BeyondCommits'
  BY DEF BeyondCommits, TypeOK, OneOwner, Outside, Journals, Commits, Working, Stepping, Saving,
     Writing
<1>4. SaveHolds'
  BY DEF SaveHolds, TypeOK, OneOwner, Outside, Writing
<1>5. CommittedModelKept'
  BY DEF CommittedModelKept, TypeOK, Commits
<1>6. CommitSound'
  BY DEF CommitSound, TypeOK, Commits
<1>7. Boundary'
  BY DEF Boundary, OneOwner, TypeOK, Outside, Saving, Writing
<1>8. Resubmitting'
  BY DEF Resubmitting, OneOwner, TypeOK, Outside, Journals, Queues
<1>9. PlanSound'
  BY DEF PlanSound, OneOwner, TypeOK, Outside, Usable, Using, Pair, Plans, Commits, Replaying,
     Working, Stepping, Saving, Writing
<1>10. Resumable'
  BY DEF Resumable, TypeOK, Commits, Journals
<1>11. Fresh'
  BY DEF Fresh, Commits
<1>12. SessionSound'
  BY DEF SessionSound, OneOwner, TypeOK, Outside, Commits, Replaying, Working, Stepping, Saving,
     Writing, PlanSound, Using, Steps, Plans
<1>13. Complete'
  BY DEF Complete, TypeOK, Commits, Usable
<1> QED  BY <1>1, <1>2, <1>3, <1>4, <1>5, <1>6, <1>7, <1>8, <1>9, <1>10, <1>11, <1>12, <1>13

\* _finish_restore declares the rewind done, which makes every other plan
\* stale.
LEMMA FinishRestoreKeeps ==
    ASSUME IInv, NEW d \in Drivers, FinishRestore(d)
    PROVE  IInv'
<1> USE ConstantsAssumption DEF IInv, FinishRestore, WriteSession
<1>1. TypeOK'
  <2>1. session' = [restore |-> session.restore, pending |-> FALSE] /\ session.restore \in Steps
    BY DEF TypeOK, Sessions, PlanSound, Using, Replaying, Plans
  <2>2. session' \in Sessions
    BY <2>1 DEF Sessions
  <2>3. plan' \in [Drivers -> Plans]
    BY StalePlans
  <2> QED  BY <2>2, <2>3 DEF TypeOK, Steps, Prompts, Journals, Queues, Places, Outside, Replaying,
              Working, Stepping, Saving, Writing
<1>2. OneOwner'
  BY DEF OneOwner, TypeOK, Outside
<1>3. BeyondCommits'
  <2>1. plan[d].step \in Steps /\ session.restore = plan[d].step /\ rid = plan[d].step + 1
    BY DEF TypeOK, PlanSound, Using, Replaying, Plans
  <2>2. \A n \in Commits : n <= plan[d].step
    BY <2>1 DEF SessionSound, PlanSound, Using, Replaying
  <2>3. \A n \in Commits' : n \in Int /\ n < rid
    BY <2>1, <2>2 DEF Commits, Steps
  <2> QED  BY <2>3 DEF BeyondCommits, TypeOK, OneOwner, Outside, Working, Stepping, Saving, Writing
<1>4. SaveHolds'
  BY DEF SaveHolds, TypeOK, OneOwner, Outside, Writing
<1>5. CommittedModelKept'
  BY DEF CommittedModelKept, TypeOK, Commits
<1>6. CommitSound'
  BY DEF CommitSound, TypeOK, Commits
<1>7. Boundary'
  BY DEF Boundary, OneOwner, TypeOK, Outside, Saving, Writing
<1>8. Resubmitting'
  BY DEF Resubmitting, OneOwner, TypeOK, Outside, Journals, Queues
<1>9. PlanSound'
  BY StalePlans DEF PlanSound, OneOwner, TypeOK, Outside, Usable, Using, Pair, Plans, Commits,
     Replaying, Working, Stepping, Saving, Writing
<1>10. Resumable'
  <2>1. session # None /\ session'.restore = session.restore
    BY DEF TypeOK, Sessions, PlanSound, Using, Replaying
  <2> QED  BY <2>1 DEF Resumable, Commits
<1>11. Fresh'
  <2>1. session' \in Sessions
    BY DEF TypeOK, Sessions, PlanSound, Using, Replaying
  <2> QED  BY <2>1, NoneAssumption DEF Fresh
<1>12. SessionSound'
  <2>1. /\ session # None /\ session.restore = plan[d].step /\ plan[d].step # None
        /\ session' = [restore |-> session.restore, pending |-> FALSE]
    BY DEF TypeOK, Sessions, PlanSound, Using, Replaying
  <2>2. tracker = session.restore /\ \A n \in Commits : n <= session.restore
    BY <2>1 DEF SessionSound
  <2>3. \A e \in Drivers : pc'[e] \notin Replaying \cup {"loading"}
    BY DEF TypeOK, OneOwner, Outside, Replaying
  <2> QED  BY <2>1, <2>2, <2>3 DEF SessionSound, Commits, Replaying
<1>13. Complete'
  <2>1. /\ session # None /\ session' = [session EXCEPT !.pending = FALSE] /\ session'.pending = FALSE
        /\ \A n \in Commits : n <= session.restore
    BY DEF TypeOK, Sessions, SessionSound, PlanSound, Using, Replaying
  <2> QED  BY <2>1 DEF Complete, Commits
<1> QED  BY <1>1, <1>2, <1>3, <1>4, <1>5, <1>6, <1>7, <1>8, <1>9, <1>10, <1>11, <1>12, <1>13

\* The queue draws the next prompt: cursor and queue move together.
LEMMA ProduceKeeps ==
    ASSUME IInv, NEW d \in Drivers, Produce(d)
    PROVE  IInv'
<1> USE ConstantsAssumption DEF IInv, Produce
<1>1. TypeOK'
  <2>1. journal' = [queued |-> journal.queued \cup {journal.cursor},
                    cursor |-> journal.cursor + 1, planned |-> journal.planned]
    BY DEF TypeOK, Journals
  <2>2. journal' \in Journals
    BY <2>1 DEF TypeOK, Journals
  <2> QED  BY <2>2 DEF TypeOK, Steps, Prompts, Places, Outside, Replaying, Working, Stepping,
              Saving, Writing
<1>2. OneOwner'
  BY DEF OneOwner, TypeOK, Outside
<1>3. BeyondCommits'
  BY DEF BeyondCommits, TypeOK, OneOwner, Outside, Journals, Commits, Working, Stepping, Saving,
     Writing
<1>4. SaveHolds'
  BY DEF SaveHolds, TypeOK, OneOwner, Outside, Writing
<1>5. CommittedModelKept'
  BY DEF CommittedModelKept, TypeOK, Commits
<1>6. CommitSound'
  BY DEF CommitSound, TypeOK, Commits
<1>7. Boundary'
  <2>1. journal' = [queued |-> journal.queued \cup {journal.cursor},
                    cursor |-> journal.cursor + 1, planned |-> journal.planned]
    BY DEF TypeOK, Journals
  <2>2. ASSUME Partition(model, journal.queued, journal.cursor)
        PROVE  Partition(model, journal'.queued, journal'.cursor)
    <3>1. \A p \in Prompts : model.count[p] \in Nat /\ p \in Int
      BY DEF TypeOK, Models, Prompts
    <3>2. journal.cursor \in Nat
      BY DEF TypeOK, Journals
    <3> QED  BY <2>1, <2>2, <3>1, <3>2 DEF Partition
  <2> QED  BY <2>2 DEF Boundary, OneOwner, TypeOK, Outside, Saving, Writing
<1>8. Resubmitting'
  BY DEF Resubmitting, OneOwner, TypeOK, Outside, Journals, Queues
<1>9. PlanSound'
  BY DEF PlanSound, OneOwner, TypeOK, Outside, Usable, Using, Pair, Plans, Commits, Replaying,
     Working, Stepping, Saving, Writing
<1>10. Resumable'
  BY DEF Resumable, TypeOK, Commits, Journals, Partition, Prompts, Models, Untrained
<1>11. Fresh'
  BY DEF Fresh, Commits
<1>12. SessionSound'
  BY DEF SessionSound, OneOwner, TypeOK, Outside, Commits, Replaying, Working, Stepping, Saving,
     Writing
<1>13. Complete'
  BY DEF Complete, TypeOK, Commits, Usable
<1> QED  BY <1>1, <1>2, <1>3, <1>4, <1>5, <1>6, <1>7, <1>8, <1>9, <1>10, <1>11, <1>12, <1>13

\* plan_batch takes a batch out of the queue before it is trained.
LEMMA PlanBatchKeeps ==
    ASSUME IInv, NEW d \in Drivers, PlanBatch(d)
    PROVE  IInv'
<1> USE ConstantsAssumption DEF IInv, PlanBatch
<1>1. TypeOK'
  <2>1. PICK p \in journal.queued :
            /\ journal' = [journal EXCEPT !.queued = journal.queued \ {p}, !.planned = TRUE]
            /\ target' = [target EXCEPT !.queued = {p}]
    OBVIOUS
  <2>2. p \in Prompts
    BY DEF TypeOK, Journals
  <2>3. journal' = [queued |-> journal.queued \ {p}, cursor |-> journal.cursor, planned |-> TRUE]
    BY <2>1 DEF TypeOK, Journals
  <2>4. target' = [queued |-> {p}, cursor |-> target.cursor]
    BY <2>1 DEF TypeOK, Queues
  <2>5. journal' \in Journals /\ target' \in Queues
    BY <2>2, <2>3, <2>4 DEF TypeOK, Journals, Queues
  <2> QED  BY <2>5 DEF TypeOK, Steps, Prompts, Places, Outside, Replaying, Working, Stepping,
              Saving, Writing
<1>2. OneOwner'
  BY DEF OneOwner, TypeOK, Outside
<1>3. BeyondCommits'
  BY DEF BeyondCommits, TypeOK, OneOwner, Outside, Journals, Commits, Working, Stepping, Saving,
     Writing
<1>4. SaveHolds'
  BY DEF SaveHolds, TypeOK, OneOwner, Outside, Writing
<1>5. CommittedModelKept'
  BY DEF CommittedModelKept, TypeOK, Commits
<1>6. CommitSound'
  BY DEF CommitSound, TypeOK, Commits
<1>7. Boundary'
  <2>1. (journal.queued \ target'.queued) \cup target'.queued = journal.queued
    BY DEF TypeOK, Queues
  <2>2. journal'.queued = journal.queued \ target'.queued /\ journal'.cursor = journal.cursor
    BY DEF TypeOK, Queues, Journals
  <2> QED  BY <2>1, <2>2 DEF Boundary, OneOwner, TypeOK, Outside, Saving, Writing
<1>8. Resubmitting'
  BY DEF Resubmitting, OneOwner, TypeOK, Outside, Journals, Queues
<1>9. PlanSound'
  BY DEF PlanSound, OneOwner, TypeOK, Outside, Usable, Using, Pair, Plans, Commits, Replaying,
     Working, Stepping, Saving, Writing
<1>10. Resumable'
  BY DEF Resumable, TypeOK, Commits, Journals
<1>11. Fresh'
  BY DEF Fresh, Commits
<1>12. SessionSound'
  BY DEF SessionSound, OneOwner, TypeOK, Outside, Commits, Replaying, Working, Stepping, Saving,
     Writing
<1>13. Complete'
  BY DEF Complete, TypeOK, Commits, Usable
<1> QED  BY <1>1, <1>2, <1>3, <1>4, <1>5, <1>6, <1>7, <1>8, <1>9, <1>10, <1>11, <1>12, <1>13

\* A planned batch is trained once: what left the queue is in the model.
LEMMA TrainKeeps ==
    ASSUME IInv, NEW d \in Drivers, Train(d)
    PROVE  IInv'
<1> USE ConstantsAssumption DEF IInv, Train, EmptyQueue
<1>1. TypeOK'
  <2> DEFINE counts == [p \in Prompts |-> IF p \in target.queued /\ model.count[p] < 2
                                        THEN model.count[p] + 1 ELSE model.count[p]]
  <2>1. model' = [count |-> counts, exact |-> model.exact]
    BY DEF TypeOK, Models
  <2>2. counts \in [Prompts -> Nat]
    BY DEF TypeOK, Models
  <2>3. model' \in Models /\ target' \in Queues
    BY <2>1, <2>2 DEF TypeOK, Models, Queues
  <2> QED  BY <2>3 DEF TypeOK, Steps, Prompts, Journals, Queues, Places, Outside, Replaying,
              Working, Stepping, Saving, Writing
<1>2. OneOwner'
  BY DEF OneOwner, TypeOK, Outside
<1>3. BeyondCommits'
  BY DEF BeyondCommits, TypeOK, OneOwner, Outside, Journals, Commits, Working, Stepping, Saving,
     Writing
<1>4. SaveHolds'
  BY DEF SaveHolds, TypeOK, OneOwner, Outside, Writing
<1>5. CommittedModelKept'
  BY DEF CommittedModelKept, TypeOK, Commits
<1>6. CommitSound'
  BY DEF CommitSound, TypeOK, Commits
<1>7. Boundary'
  <2>1. model'.exact = model.exact /\ journal' = journal
    BY DEF TypeOK, Models
  <2>2. ASSUME model.exact PROVE Partition(model', journal.queued, journal.cursor)
    <3>1. target.queued \cap journal.queued = {}
          /\ Partition(model, journal.queued \cup target.queued, journal.cursor)
      BY <2>2 DEF Boundary
    <3>2. ASSUME NEW p \in Prompts
          PROVE  model'.count[p] = IF p \in target.queued /\ model.count[p] < 2 THEN model.count[p] + 1
                                   ELSE model.count[p]
      BY DEF TypeOK, Models
    <3>3. \A p \in Prompts : model.count[p] \in Nat
      BY DEF TypeOK, Models
    <3> QED  BY <3>1, <3>2, <3>3 DEF Partition
  <2> QED  BY <2>1, <2>2 DEF Boundary, OneOwner, TypeOK, Outside, Saving, Writing
<1>8. Resubmitting'
  BY DEF Resubmitting, OneOwner, TypeOK, Outside, Journals, Queues
<1>9. PlanSound'
  BY DEF PlanSound, OneOwner, TypeOK, Outside, Usable, Using, Pair, Plans, Commits, Replaying,
     Working, Stepping, Saving, Writing
<1>10. Resumable'
  BY DEF Resumable, TypeOK, Commits, Journals
<1>11. Fresh'
  BY DEF Fresh, Commits
<1>12. SessionSound'
  BY DEF SessionSound, OneOwner, TypeOK, Outside, Commits, Replaying, Working, Stepping, Saving,
     Writing
<1>13. Complete'
  BY DEF Complete, TypeOK, Commits, Usable
<1> QED  BY <1>1, <1>2, <1>3, <1>4, <1>5, <1>6, <1>7, <1>8, <1>9, <1>10, <1>11, <1>12, <1>13

\* The train loop goes on without a save.
LEMMA NextRolloutKeeps ==
    ASSUME IInv, NEW d \in Drivers, NextRollout(d)
    PROVE  IInv'
<1> USE ConstantsAssumption DEF IInv, NextRollout
<1>1. TypeOK'
  BY DEF TypeOK, Steps, Prompts, Journals, Queues, Places, Outside, Replaying, Working,
     Stepping, Saving, Writing
<1>2. OneOwner'
  BY DEF OneOwner, TypeOK, Outside
<1>3. BeyondCommits'
  BY DEF BeyondCommits, TypeOK, OneOwner, Outside, Journals, Commits, Working, Stepping, Saving,
     Writing, Steps
<1>4. SaveHolds'
  BY DEF SaveHolds, TypeOK, OneOwner, Outside, Writing
<1>5. CommittedModelKept'
  BY DEF CommittedModelKept, TypeOK, Commits
<1>6. CommitSound'
  BY DEF CommitSound, TypeOK, Commits
<1>7. Boundary'
  BY DEF Boundary, OneOwner, TypeOK, Outside, Saving, Writing
<1>8. Resubmitting'
  BY DEF Resubmitting, OneOwner, TypeOK, Outside, Journals, Queues
<1>9. PlanSound'
  BY DEF PlanSound, OneOwner, TypeOK, Outside, Usable, Using, Pair, Plans, Commits, Replaying,
     Working, Stepping, Saving, Writing
<1>10. Resumable'
  BY DEF Resumable, TypeOK, Commits, Journals
<1>11. Fresh'
  BY DEF Fresh, Commits
<1>12. SessionSound'
  BY DEF SessionSound, OneOwner, TypeOK, Outside, Commits, Replaying, Working, Stepping, Saving,
     Writing
<1>13. Complete'
  BY DEF Complete, TypeOK, Commits, Usable
<1> QED  BY <1>1, <1>2, <1>3, <1>4, <1>5, <1>6, <1>7, <1>8, <1>9, <1>10, <1>11, <1>12, <1>13

\* save_model writes payloads of a step that is not committed.
LEMMA SaveModelKeeps ==
    ASSUME IInv, NEW d \in Drivers, SaveModel(d)
    PROVE  IInv'
<1> USE ConstantsAssumption DEF IInv, SaveModel
<1>1. TypeOK'
  <2>1. iter' \in [Steps -> Payloads \cup {None}]
    BY DEF TypeOK, Payloads
  <2> QED  BY <2>1 DEF TypeOK, Steps, Prompts, Journals, Queues, Places, Outside, Replaying,
              Working, Stepping, Saving, Writing
<1>2. OneOwner'
  BY DEF OneOwner, TypeOK, Outside
<1>3. BeyondCommits'
  BY DEF BeyondCommits, TypeOK, OneOwner, Outside, Journals, Commits, Working, Stepping, Saving,
     Writing
<1>4. SaveHolds'
  BY DEF SaveHolds, TypeOK, OneOwner, Outside, Writing, Payloads, Steps, BeyondCommits,
     Stepping, Saving
<1>5. CommittedModelKept'
  BY Uncommitted DEF CommittedModelKept, TypeOK, Commits, Saving, Writing
<1>6. CommitSound'
  BY DEF CommitSound, TypeOK, Commits, Payloads
<1>7. Boundary'
  BY DEF Boundary, OneOwner, TypeOK, Outside, Saving, Writing
<1>8. Resubmitting'
  BY DEF Resubmitting, OneOwner, TypeOK, Outside, Journals, Queues
<1>9. PlanSound'
  <2>1. /\ rid \notin Commits /\ \A n \in Steps \ {rid} : iter'[n] = iter[n]
        /\ \A n \in Steps : iter[n] # None => iter'[n] # None
    BY Uncommitted, NoneAssumption DEF TypeOK, Saving, Writing, Payloads, SaveHolds
  <2>2. \A e \in Drivers : Using(e) => FALSE
    BY DEF Using, OneOwner, TypeOK, Outside, Replaying
  <2> QED  BY <2>1, <2>2 DEF PlanSound, TypeOK, Plans, Usable, Using, Pair, Commits, Replaying,
              Working, Stepping, Saving, Writing
<1>10. Resumable'
  BY DEF Resumable, TypeOK, Commits, Journals
<1>11. Fresh'
  BY DEF Fresh, Commits
<1>12. SessionSound'
  BY NoneAssumption DEF SessionSound, OneOwner, TypeOK, Outside, Commits, Replaying, Working,
     Stepping, Saving, Writing, Payloads, Sessions
<1>13. Complete'
  BY DEF Complete, TypeOK, Commits, Usable
<1> QED  BY <1>1, <1>2, <1>3, <1>4, <1>5, <1>6, <1>7, <1>8, <1>9, <1>10, <1>11, <1>12, <1>13

\* The payloads of the save are written, not yet synced.
LEMMA SaveModelReturnsKeeps ==
    ASSUME IInv, NEW d \in Drivers, SaveModelReturns(d)
    PROVE  IInv'
<1> USE ConstantsAssumption DEF IInv, SaveModelReturns
<1>1. TypeOK'
  <2>1. iter' \in [Steps -> Payloads \cup {None}]
    BY DEF TypeOK, Payloads, SaveHolds, Writing
  <2> QED  BY <2>1 DEF TypeOK, Steps, Prompts, Journals, Queues, Places, Outside, Replaying,
              Working, Stepping, Saving, Writing
<1>2. OneOwner'
  BY DEF OneOwner, TypeOK, Outside
<1>3. BeyondCommits'
  BY DEF BeyondCommits, TypeOK, OneOwner, Outside, Journals, Commits, Working, Stepping, Saving,
     Writing
<1>4. SaveHolds'
  BY DEF SaveHolds, TypeOK, OneOwner, Outside, Writing, Payloads, Steps, BeyondCommits,
     Stepping, Saving
<1>5. CommittedModelKept'
  BY Uncommitted DEF CommittedModelKept, TypeOK, Commits, Saving, Writing
<1>6. CommitSound'
  BY DEF CommitSound, TypeOK, Commits, Payloads
<1>7. Boundary'
  BY DEF Boundary, OneOwner, TypeOK, Outside, Saving, Writing
<1>8. Resubmitting'
  BY DEF Resubmitting, OneOwner, TypeOK, Outside, Journals, Queues
<1>9. PlanSound'
  <2>1. /\ rid \notin Commits /\ \A n \in Steps \ {rid} : iter'[n] = iter[n]
        /\ \A n \in Steps : iter[n] # None => iter'[n] # None
    BY Uncommitted, NoneAssumption DEF TypeOK, Saving, Writing, Payloads, SaveHolds
  <2>2. \A e \in Drivers : Using(e) => FALSE
    BY DEF Using, OneOwner, TypeOK, Outside, Replaying
  <2> QED  BY <2>1, <2>2 DEF PlanSound, TypeOK, Plans, Usable, Using, Pair, Commits, Replaying,
              Working, Stepping, Saving, Writing
<1>10. Resumable'
  BY DEF Resumable, TypeOK, Commits, Journals
<1>11. Fresh'
  BY DEF Fresh, Commits
<1>12. SessionSound'
  BY NoneAssumption DEF SessionSound, OneOwner, TypeOK, Outside, Commits, Replaying, Working,
     Stepping, Saving, Writing, Payloads, Sessions, SaveHolds
<1>13. Complete'
  BY DEF Complete, TypeOK, Commits, Usable
<1> QED  BY <1>1, <1>2, <1>3, <1>4, <1>5, <1>6, <1>7, <1>8, <1>9, <1>10, <1>11, <1>12, <1>13

\* commit_checkpoint syncs what the manifest is about to name.
LEMMA SyncModelKeeps ==
    ASSUME IInv, NEW d \in Drivers, SyncModel(d)
    PROVE  IInv'
<1> USE ConstantsAssumption DEF IInv, SyncModel
<1>1. TypeOK'
  <2>1. iter' \in [Steps -> Payloads \cup {None}]
    BY DEF TypeOK, Payloads, SaveHolds, Writing
  <2> QED  BY <2>1 DEF TypeOK, Steps, Prompts, Journals, Queues, Places, Outside, Replaying,
              Working, Stepping, Saving, Writing
<1>2. OneOwner'
  BY DEF OneOwner, TypeOK, Outside
<1>3. BeyondCommits'
  BY DEF BeyondCommits, TypeOK, OneOwner, Outside, Journals, Commits, Working, Stepping, Saving,
     Writing
<1>4. SaveHolds'
  BY DEF SaveHolds, TypeOK, OneOwner, Outside, Writing, Payloads, Steps, BeyondCommits,
     Stepping, Saving
<1>5. CommittedModelKept'
  BY Uncommitted DEF CommittedModelKept, TypeOK, Commits, Saving, Writing
<1>6. CommitSound'
  BY DEF CommitSound, TypeOK, Commits, Payloads
<1>7. Boundary'
  BY DEF Boundary, OneOwner, TypeOK, Outside, Saving, Writing
<1>8. Resubmitting'
  BY DEF Resubmitting, OneOwner, TypeOK, Outside, Journals, Queues
<1>9. PlanSound'
  <2>1. /\ rid \notin Commits /\ \A n \in Steps \ {rid} : iter'[n] = iter[n]
        /\ \A n \in Steps : iter[n] # None => iter'[n] # None
    BY Uncommitted, NoneAssumption DEF TypeOK, Saving, Writing, Payloads, SaveHolds
  <2>2. \A e \in Drivers : Using(e) => FALSE
    BY DEF Using, OneOwner, TypeOK, Outside, Replaying
  <2> QED  BY <2>1, <2>2 DEF PlanSound, TypeOK, Plans, Usable, Using, Pair, Commits, Replaying,
              Working, Stepping, Saving, Writing
<1>10. Resumable'
  BY DEF Resumable, TypeOK, Commits, Journals
<1>11. Fresh'
  BY DEF Fresh, Commits
<1>12. SessionSound'
  BY NoneAssumption DEF SessionSound, OneOwner, TypeOK, Outside, Commits, Replaying, Working,
     Stepping, Saving, Writing, Payloads, Sessions, SaveHolds
<1>13. Complete'
  BY DEF Complete, TypeOK, Commits, Usable
<1> QED  BY <1>1, <1>2, <1>3, <1>4, <1>5, <1>6, <1>7, <1>8, <1>9, <1>10, <1>11, <1>12, <1>13

\* Megatron moves its pointer ahead of the commit, beyond every earlier
\* one.
LEMMA MegatronTrackerKeeps ==
    ASSUME IInv, NEW d \in Drivers, MegatronTracker(d)
    PROVE  IInv'
<1> USE ConstantsAssumption DEF IInv, MegatronTracker
<1>1. TypeOK'
  BY DEF TypeOK, Steps, Prompts, Journals, Queues, Places, Outside, Replaying, Working,
     Stepping, Saving, Writing, BeyondCommits
<1>2. OneOwner'
  BY DEF OneOwner, TypeOK, Outside
<1>3. BeyondCommits'
  BY DEF BeyondCommits, TypeOK, OneOwner, Outside, Journals, Commits, Working, Stepping, Saving,
     Writing
<1>4. SaveHolds'
  BY DEF SaveHolds, TypeOK, OneOwner, Outside, Writing
<1>5. CommittedModelKept'
  BY DEF CommittedModelKept, TypeOK, Commits
<1>6. CommitSound'
  BY DEF CommitSound, TypeOK, Commits
<1>7. Boundary'
  BY DEF Boundary, OneOwner, TypeOK, Outside, Saving, Writing
<1>8. Resubmitting'
  BY DEF Resubmitting, OneOwner, TypeOK, Outside, Journals, Queues
<1>9. PlanSound'
  BY DEF PlanSound, OneOwner, TypeOK, Outside, Usable, Using, Pair, Plans, Commits, Replaying,
     Working, Stepping, Saving, Writing, BeyondCommits, Steps
<1>10. Resumable'
  BY DEF Resumable, TypeOK, Commits, Journals
<1>11. Fresh'
  BY DEF Fresh, Commits
<1>12. SessionSound'
  <2>1. rid \in Steps /\ rid # None /\ \A n \in Commits : n <= rid
    BY DEF BeyondCommits, Working, Stepping, Saving, Writing, Commits, Steps
  <2> QED  BY <2>1 DEF SessionSound, OneOwner, TypeOK, Outside, Commits, Replaying, Working,
              Stepping, Saving, Writing
<1>13. Complete'
  BY DEF Complete, TypeOK, Commits, Usable
<1> QED  BY <1>1, <1>2, <1>3, <1>4, <1>5, <1>6, <1>7, <1>8, <1>9, <1>10, <1>11, <1>12, <1>13

\* QueueDataSource.save writes the dataset cursor.
LEMMA SaveCursorKeeps ==
    ASSUME IInv, NEW d \in Drivers, SaveCursor(d)
    PROVE  IInv'
<1> USE ConstantsAssumption DEF IInv, SaveCursor
<1>1. TypeOK'
  <2>1. cursorFile' \in [Steps -> Nat \cup {None}]
    BY DEF TypeOK, Journals
  <2> QED  BY <2>1 DEF TypeOK, Steps, Prompts, Journals, Queues, Places, Outside, Replaying,
              Working, Stepping, Saving, Writing
<1>2. OneOwner'
  BY DEF OneOwner, TypeOK, Outside
<1>3. BeyondCommits'
  BY DEF BeyondCommits, TypeOK, OneOwner, Outside, Journals, Commits, Working, Stepping, Saving,
     Writing
<1>4. SaveHolds'
  BY DEF SaveHolds, TypeOK, OneOwner, Outside, Writing
<1>5. CommittedModelKept'
  BY DEF CommittedModelKept, TypeOK, Commits
<1>6. CommitSound'
  BY DEF CommitSound, TypeOK, Commits
<1>7. Boundary'
  BY DEF Boundary, OneOwner, TypeOK, Outside, Saving, Writing
<1>8. Resubmitting'
  BY DEF Resubmitting, OneOwner, TypeOK, Outside, Journals, Queues
<1>9. PlanSound'
  BY DEF PlanSound, OneOwner, TypeOK, Outside, Usable, Using, Pair, Plans, Commits, Replaying,
     Working, Stepping, Saving, Writing
<1>10. Resumable'
  BY DEF Resumable, TypeOK, Commits, Journals
<1>11. Fresh'
  BY DEF Fresh, Commits
<1>12. SessionSound'
  BY DEF SessionSound, OneOwner, TypeOK, Outside, Commits, Replaying, Working, Stepping, Saving,
     Writing
<1>13. Complete'
  BY DEF Complete, TypeOK, Commits, Usable
<1> QED  BY <1>1, <1>2, <1>3, <1>4, <1>5, <1>6, <1>7, <1>8, <1>9, <1>10, <1>11, <1>12, <1>13

\* QueueDataSource.save snapshots the queue it paused.
LEMMA SaveQueueKeeps ==
    ASSUME IInv, NEW d \in Drivers, SaveQueue(d)
    PROVE  IInv'
<1> USE ConstantsAssumption DEF IInv, SaveQueue
<1>1. TypeOK'
  <2>1. queueState' \in [Steps -> Snapshots \cup {None}]
    BY DEF TypeOK, Journals, Snapshots
  <2> QED  BY <2>1 DEF TypeOK, Steps, Prompts, Journals, Queues, Places, Outside, Replaying,
              Working, Stepping, Saving, Writing
<1>2. OneOwner'
  BY DEF OneOwner, TypeOK, Outside
<1>3. BeyondCommits'
  BY DEF BeyondCommits, TypeOK, OneOwner, Outside, Journals, Commits, Working, Stepping, Saving,
     Writing
<1>4. SaveHolds'
  BY DEF SaveHolds, TypeOK, OneOwner, Outside, Writing, Snapshots, Journals, Steps,
     BeyondCommits, Stepping, Saving
<1>5. CommittedModelKept'
  BY DEF CommittedModelKept, TypeOK, Commits
<1>6. CommitSound'
  BY DEF CommitSound, TypeOK, Commits, BeyondCommits, Working, Stepping, Saving, Writing, Steps
<1>7. Boundary'
  BY DEF Boundary, OneOwner, TypeOK, Outside, Saving, Writing
<1>8. Resubmitting'
  BY DEF Resubmitting, OneOwner, TypeOK, Outside, Journals, Queues
<1>9. PlanSound'
  <2>1. rid \notin Commits /\ \A n \in Steps \ {rid} : queueState'[n] = queueState[n]
    BY Uncommitted DEF TypeOK, Saving, Writing
  <2>2. \A e \in Drivers : Using(e) => FALSE
    BY DEF Using, OneOwner, TypeOK, Outside, Replaying
  <2> QED  BY <2>1, <2>2 DEF PlanSound, TypeOK, Plans, Usable, Using, Pair, Commits, Replaying,
              Working, Stepping, Saving, Writing
<1>10. Resumable'
  BY DEF Resumable, TypeOK, Commits, Journals
<1>11. Fresh'
  BY DEF Fresh, Commits
<1>12. SessionSound'
  BY DEF SessionSound, OneOwner, TypeOK, Outside, Commits, Replaying, Working, Stepping, Saving,
     Writing
<1>13. Complete'
  BY DEF Complete, TypeOK, Commits, Usable, BeyondCommits, Working, Stepping, Saving, Writing,
     Steps
<1> QED  BY <1>1, <1>2, <1>3, <1>4, <1>5, <1>6, <1>7, <1>8, <1>9, <1>10, <1>11, <1>12, <1>13

\* The builder state completes the snapshot.
LEMMA SaveBuilderKeeps ==
    ASSUME IInv, NEW d \in Drivers, SaveBuilder(d)
    PROVE  IInv'
<1> USE ConstantsAssumption DEF IInv, SaveBuilder
<1>1. TypeOK'
  BY DEF TypeOK, Steps, Prompts, Journals, Queues, Places, Outside, Replaying, Working,
     Stepping, Saving, Writing, BeyondCommits
<1>2. OneOwner'
  BY DEF OneOwner, TypeOK, Outside
<1>3. BeyondCommits'
  BY DEF BeyondCommits, TypeOK, OneOwner, Outside, Journals, Commits, Working, Stepping, Saving,
     Writing
<1>4. SaveHolds'
  BY DEF SaveHolds, TypeOK, OneOwner, Outside, Writing
<1>5. CommittedModelKept'
  BY DEF CommittedModelKept, TypeOK, Commits
<1>6. CommitSound'
  BY DEF CommitSound, TypeOK, Commits
<1>7. Boundary'
  BY DEF Boundary, OneOwner, TypeOK, Outside, Saving, Writing
<1>8. Resubmitting'
  BY DEF Resubmitting, OneOwner, TypeOK, Outside, Journals, Queues
<1>9. PlanSound'
  BY DEF PlanSound, OneOwner, TypeOK, Outside, Usable, Using, Pair, Plans, Commits, Replaying,
     Working, Stepping, Saving, Writing
<1>10. Resumable'
  BY DEF Resumable, TypeOK, Commits, Journals
<1>11. Fresh'
  BY DEF Fresh, Commits
<1>12. SessionSound'
  BY DEF SessionSound, OneOwner, TypeOK, Outside, Commits, Replaying, Working, Stepping, Saving,
     Writing
<1>13. Complete'
  BY DEF Complete, TypeOK, Commits, Usable
<1> QED  BY <1>1, <1>2, <1>3, <1>4, <1>5, <1>6, <1>7, <1>8, <1>9, <1>10, <1>11, <1>12, <1>13

\* save_checkpoint moves the pointer to the step it committed.
LEMMA WriteLatestKeeps ==
    ASSUME IInv, NEW d \in Drivers, WriteLatest(d)
    PROVE  IInv'
<1> USE ConstantsAssumption DEF IInv, WriteLatest
<1>1. TypeOK'
  BY DEF TypeOK, Steps, Prompts, Journals, Queues, Places, Outside, Replaying, Working,
     Stepping, Saving, Writing, BeyondCommits
<1>2. OneOwner'
  BY DEF OneOwner, TypeOK, Outside
<1>3. BeyondCommits'
  BY DEF BeyondCommits, TypeOK, OneOwner, Outside, Journals, Commits, Working, Stepping, Saving,
     Writing, Steps
<1>4. SaveHolds'
  BY DEF SaveHolds, TypeOK, OneOwner, Outside, Writing
<1>5. CommittedModelKept'
  BY DEF CommittedModelKept, TypeOK, Commits
<1>6. CommitSound'
  BY DEF CommitSound, TypeOK, Commits
<1>7. Boundary'
  BY DEF Boundary, OneOwner, TypeOK, Outside, Saving, Writing
<1>8. Resubmitting'
  BY DEF Resubmitting, OneOwner, TypeOK, Outside, Journals, Queues
<1>9. PlanSound'
  BY DEF PlanSound, OneOwner, TypeOK, Outside, Usable, Using, Pair, Plans, Commits, Replaying,
     Working, Stepping, Saving, Writing, BeyondCommits, Steps
<1>10. Resumable'
  BY DEF Resumable, TypeOK, Commits, Journals
<1>11. Fresh'
  BY DEF Fresh, Commits
<1>12. SessionSound'
  BY DEF SessionSound, OneOwner, TypeOK, Outside, Commits, Replaying, Working, Stepping, Saving,
     Writing, BeyondCommits, Steps
<1>13. Complete'
  BY DEF Complete, TypeOK, Commits, Usable
<1> QED  BY <1>1, <1>2, <1>3, <1>4, <1>5, <1>6, <1>7, <1>8, <1>9, <1>10, <1>11, <1>12, <1>13

\* The manifest is published: it names a synced model and the queue saved
\* with it.
LEMMA WriteCommitKeeps ==
    ASSUME IInv, NEW d \in Drivers, WriteCommit(d)
    PROVE  IInv'
<1> USE ConstantsAssumption DEF IInv, WriteCommit
<1>1. TypeOK'
  <2>1. /\ iter[rid] \in Payloads /\ queueState[rid] \in Snapshots
        /\ iter[rid].model \in Models /\ queueState[rid].queued \in SUBSET Prompts
        /\ queueState[rid].cursor \in Nat
    BY DEF SaveHolds, Writing, Payloads, Snapshots
  <2>2. committed' \in [Steps -> Manifests \cup {None}]
    BY <2>1 DEF TypeOK, Manifests
  <2> QED  BY <2>2 DEF TypeOK, Steps, Prompts, Journals, Queues, Places, Outside, Replaying,
              Working, Stepping, Saving, Writing
<1>2. OneOwner'
  BY DEF OneOwner, TypeOK, Outside
<1>3. BeyondCommits'
  <2>1. \A n \in Commits' : n \in Commits \/ n = rid
    BY DEF Commits, TypeOK
  <2>2. \A n \in Commits : n \in Int /\ n < rid
    BY DEF BeyondCommits, Working, Stepping, Saving, Writing, Commits, Steps
  <2> QED  BY <2>1, <2>2 DEF BeyondCommits, TypeOK, OneOwner, Outside, Working, Stepping, Saving,
              Writing
<1>4. SaveHolds'
  BY DEF SaveHolds, TypeOK, OneOwner, Outside, Writing
<1>5. CommittedModelKept'
  BY DEF CommittedModelKept, TypeOK, Commits, SaveHolds, Writing
<1>6. CommitSound'
  BY DEF CommitSound, TypeOK, Commits, SaveHolds, Writing, Boundary, Saving
<1>7. Boundary'
  BY DEF Boundary, OneOwner, TypeOK, Outside, Saving, Writing
<1>8. Resubmitting'
  BY DEF Resubmitting, OneOwner, TypeOK, Outside, Journals, Queues
<1>9. PlanSound'
  <2>1. \A n \in Commits : n \in Commits'
    BY Uncommitted DEF Commits, TypeOK, Saving, Writing
  <2>2. \A e \in Drivers : Using(e) => FALSE
    BY DEF Using, OneOwner, TypeOK, Outside, Replaying
  <2> QED  BY <2>1, <2>2 DEF PlanSound, TypeOK, Plans, Usable, Using, Pair, Replaying,
              Working, Stepping, Saving, Writing
<1>10. Resumable'
  BY DEF Resumable, TypeOK, Commits, Journals, BeyondCommits, Stepping, Saving, Writing
<1>11. Fresh'
  BY DEF Fresh, Commits, OneOwner, Outside, TypeOK
<1>12. SessionSound'
  <2>1. /\ rid \in Steps /\ tracker = rid
        /\ \A n \in Commits : n \in Int /\ n < rid
    BY DEF BeyondCommits, SaveHolds, Working, Stepping, Saving, Writing, Commits, Steps
  <2>2. \A n \in Commits' : n \in Commits \/ n = rid
    BY DEF Commits, TypeOK
  <2>3. \A n \in Commits' : n <= tracker
    BY <2>1, <2>2 DEF Steps
  <2> QED  BY <2>1, <2>3 DEF SessionSound, OneOwner, TypeOK, Outside, Replaying, Working,
              Stepping, Saving,
              Writing, Steps
<1>13. Complete'
  <2>1. /\ rid \in builderState /\ queueState[rid] \in Snapshots /\ queueState[rid].state = "good"
    BY DEF SaveHolds
  <2>2. \A n \in Commits' : n \in Commits \/ n = rid
    BY DEF Commits, TypeOK
  <2> QED  BY <2>1, <2>2 DEF Complete, Usable, TypeOK
<1> QED  BY <1>1, <1>2, <1>3, <1>4, <1>5, <1>6, <1>7, <1>8, <1>9, <1>10, <1>11, <1>12, <1>13

\* save_checkpoint begins; the step it saves is never a committed one.
LEMMA BeginSaveKeeps ==
    ASSUME IInv, NEW d \in Drivers, BeginSave(d)
    PROVE  IInv'
<1> USE ConstantsAssumption DEF IInv, BeginSave
<1>0. ~SaveRefused
  BY Uncommitted DEF SaveRefused
<1>1. TypeOK'
  BY <1>0 DEF TypeOK, Steps, Prompts, Journals, Queues, Places, Outside, Replaying, Working,
     Stepping, Saving, Writing
<1>2. OneOwner'
  BY <1>0 DEF OneOwner, TypeOK, Outside
<1>3. BeyondCommits'
  BY <1>0 DEF BeyondCommits, TypeOK, OneOwner, Outside, Journals, Commits, Working, Stepping,
     Saving, Writing
<1>4. SaveHolds'
  BY <1>0 DEF SaveHolds, TypeOK, OneOwner, Outside, Writing
<1>5. CommittedModelKept'
  BY <1>0 DEF CommittedModelKept, TypeOK, Commits
<1>6. CommitSound'
  BY <1>0 DEF CommitSound, TypeOK, Commits
<1>7. Boundary'
  BY <1>0 DEF Boundary, OneOwner, TypeOK, Outside, Saving, Writing
<1>8. Resubmitting'
  BY <1>0 DEF Resubmitting, OneOwner, TypeOK, Outside, Journals, Queues
<1>9. PlanSound'
  BY <1>0 DEF PlanSound, OneOwner, TypeOK, Outside, Usable, Using, Pair, Plans, Commits,
     Replaying, Working, Stepping, Saving, Writing
<1>10. Resumable'
  BY <1>0 DEF Resumable, TypeOK, Commits, Journals
<1>11. Fresh'
  BY <1>0 DEF Fresh, Commits
<1>12. SessionSound'
  BY <1>0 DEF SessionSound, OneOwner, TypeOK, Outside, Commits, Replaying, Working, Stepping,
     Saving, Writing
<1>13. Complete'
  BY <1>0 DEF Complete, TypeOK, Commits, Usable
<1> QED  BY <1>1, <1>2, <1>3, <1>4, <1>5, <1>6, <1>7, <1>8, <1>9, <1>10, <1>11, <1>12, <1>13

\* The storage loses a snapshot between two jobs.
LEMMA DamageKeeps ==
    ASSUME IInv, NEW n \in Steps, NEW state \in {"lost", "corrupt"}, Damage(n, state)
    PROVE  IInv'
<1> USE ConstantsAssumption DEF IInv, Damage
<1>0. /\ \A d \in Drivers : pc[d] \in Outside
      /\ queueState'[n] \in Snapshots /\ queueState'[n].state = state
      /\ \A m \in Steps \ {n} : queueState'[m] = queueState[m]
  BY DEF OneOwner, TypeOK, Snapshots
<1>1. TypeOK'
  <2>1. queueState' \in [Steps -> Snapshots \cup {None}]
    BY <1>0 DEF TypeOK
  <2> QED  BY <2>1 DEF TypeOK, Steps, Prompts, Journals, Queues, Places, Outside, Replaying,
              Working, Stepping, Saving, Writing
<1>2. OneOwner'
  BY DEF OneOwner, TypeOK, Outside
<1>3. BeyondCommits'
  BY <1>0 DEF BeyondCommits, TypeOK, OneOwner, Outside, Journals, Commits, Working, Stepping,
     Saving, Writing
<1>4. SaveHolds'
  BY <1>0 DEF SaveHolds, TypeOK, OneOwner, Outside, Writing
<1>5. CommittedModelKept'
  BY DEF CommittedModelKept, TypeOK, Commits
<1>6. CommitSound'
  BY <1>0 DEF CommitSound, TypeOK, Commits
<1>7. Boundary'
  BY <1>0 DEF Boundary, OneOwner, TypeOK, Outside, Saving, Writing
<1>8. Resubmitting'
  BY DEF Resubmitting, OneOwner, TypeOK, Outside, Journals, Queues
<1>9. PlanSound'
  BY <1>0 DEF PlanSound, OneOwner, TypeOK, Outside, Usable, Using, Pair, Plans, Commits,
     Replaying, Working, Stepping, Saving, Writing
<1>10. Resumable'
  BY <1>0 DEF Resumable, TypeOK, Commits, Journals
<1>11. Fresh'
  BY <1>0 DEF Fresh, Commits
<1>12. SessionSound'
  BY <1>0 DEF SessionSound, OneOwner, TypeOK, Outside, Commits, Replaying, Working, Stepping,
     Saving, Writing
<1>13. Complete'
  BY <1>0 DEF Complete, TypeOK, Commits, Usable
<1> QED  BY <1>1, <1>2, <1>3, <1>4, <1>5, <1>6, <1>7, <1>8, <1>9, <1>10, <1>11, <1>12, <1>13

\* resolve_checkpoint only plans: what it chooses is loadable and names a
\* sound pair.
LEMMA ResolveKeeps ==
    ASSUME IInv, NEW d \in Drivers, NEW s \in Steps \cup {None}, Resolve(d, s),
           clean' \in BOOLEAN,
           clean' => clean /\ (s = None \/ session = None \/ ~session.pending \/ session.restore = s)
    PROVE  IInv'
<1> USE ConstantsAssumption DEF IInv, Resolve
<1> DEFINE asked == AskedStep(s)
<1>a. asked \in Steps \cup {None}
  BY AskedStepType
<1>b. PICK mode, step :
        /\ Resolved(d, mode, step)
        /\ \/ mode = "resume" /\ step = None /\ Resumes(s)
           \/ mode = "new" /\ step = None /\ ~Resumes(s) /\ Select(asked) = {}
           \/ mode = Mode(step) /\ step # None /\ step \in Select(asked)
  BY Zenon
<1>c. /\ step \in Steps \cup {None} /\ mode \in {"new", "resume", "rewind", "empty"}
      /\ step = None <=> mode \in {"new", "resume"}
      /\ step # None => iter[step] # None /\ tracker # None /\ (asked # None => step = asked)
  BY <1>a, <1>b, SelectSound DEF Mode
<1>d. /\ plan' = [plan EXCEPT ![d] = [mode |-> mode, step |-> step, current |-> TRUE,
                                      cursor |-> step # None /\ cursorFile[step] # None]]
      /\ pc' = [pc EXCEPT ![d] = "resolved"]
  BY <1>b DEF Resolved
<1>e. /\ plan'[d].mode = mode /\ plan'[d].step = step
      /\ pc'[d] = "resolved" /\ pc[d] = "down"
      /\ \A e \in Drivers \ {d} : plan'[e] = plan[e] /\ pc'[e] = pc[e]
  BY <1>d DEF TypeOK
<1>f. mode = "new" => session = None
  BY <1>b DEF Select, Resumes, AskedStep, Mode
<1>g. mode = "resume" => session # None /\ session.restore = None
  BY <1>b DEF Resumes, Mode
<1>h. mode = "rewind" => step \in Commits /\ Pair(step)
  BY <1>b DEF Mode, Pair, CommitSound, CommittedModelKept
<1>i. clean' /\ session # None /\ session.pending => step = session.restore
  BY <1>b, <1>c DEF SessionSound, AskedStep, Resumes, Select
<1>1. TypeOK'
  <2>1. [mode |-> mode, step |-> step, current |-> TRUE,
         cursor |-> step # None /\ cursorFile[step] # None] \in Plans
    BY <1>c DEF Plans
  <2>2. plan' \in [Drivers -> Plans] /\ pc' \in [Drivers -> Places]
    BY <2>1, <1>d DEF TypeOK, Places, Outside
  <2> QED  BY <2>2 DEF TypeOK
<1>2. OneOwner'
  BY <1>e DEF OneOwner, TypeOK, Outside
<1>3. BeyondCommits'
  BY <1>e DEF BeyondCommits, TypeOK, OneOwner, Outside, Journals, Commits, Working, Stepping,
     Saving, Writing
<1>4. SaveHolds'
  BY <1>e DEF SaveHolds, TypeOK, OneOwner, Outside, Writing
<1>5. CommittedModelKept'
  BY DEF CommittedModelKept, TypeOK, Commits
<1>6. CommitSound'
  BY DEF CommitSound, TypeOK, Commits
<1>7. Boundary'
  BY <1>e DEF Boundary, OneOwner, TypeOK, Outside, Saving, Writing
<1>8. Resubmitting'
  BY <1>e DEF Resubmitting, OneOwner, TypeOK, Outside, Journals, Queues
<1>9. PlanSound'
  <2>1. \A e \in Drivers : Using(e)' <=> Using(e) /\ e # d
    BY <1>e DEF Using, Replaying
  <2>2. \A n \in Steps : Pair(n)' <=> Pair(n)
    BY DEF Pair
  <2>3. \A e \in Drivers : pc'[e] \in Working \/ (pc'[e] = "loading" /\ plan'[e].step = None)
                           => e # d /\ (pc[e] \in Working \/ (pc[e] = "loading" /\ plan[e].step = None))
    BY <1>e DEF Working, Stepping, Saving, Writing
  <2>4. Commits' = Commits
    BY DEF Commits
  <2> QED  BY <1>c, <1>e, <1>f, <1>g, <1>h, <2>1, <2>2, <2>3, <2>4
           DEF PlanSound, TypeOK, Plans, Usable, Replaying, Using, Outside
<1>10. Resumable'
  BY DEF Resumable, TypeOK, Commits, Journals
<1>11. Fresh'
  BY DEF Fresh, Commits
<1>12. SessionSound'
  BY <1>e DEF SessionSound, OneOwner, TypeOK, Outside, Commits, Replaying, Working, Stepping,
     Saving, Writing
<1>13. Complete'
  BY <1>e, <1>i DEF Complete, TypeOK, Commits, Usable
<1> QED  BY <1>1, <1>2, <1>3, <1>4, <1>5, <1>6, <1>7, <1>8, <1>9, <1>10, <1>11, <1>12, <1>13

\* RolloutQueueController.__init__ revalidates the plan under the lock and
\* publishes its session.
LEMMA StartKeeps ==
    ASSUME IInv, NEW d \in Drivers, Start(d)
    PROVE  IInv'
<1> USE ConstantsAssumption DEF IInv, Start
<1>0. ASSUME ~plan[d].current PROVE IInv'
  <2>0. /\ Withdraw(d) /\ NoPlan \in Plans /\ "down" \in Places
        /\ UNCHANGED <<disk, owner, target, model, rid, budget>>
    BY <1>0 DEF NoPlan, Plans, Places, Outside
  <2>1. /\ \A e \in Drivers \ {d} : plan'[e] = plan[e] /\ pc'[e] = pc[e]
        /\ pc'[d] = "down" /\ plan'[d] = NoPlan /\ pc' \in [Drivers -> Places] /\ plan' \in [Drivers -> Plans]
        /\ UNCHANGED <<disk, owner, target, model, rid, budget>>
    BY <2>0 DEF Withdraw, TypeOK
  <2>2. TypeOK' /\ OneOwner' /\ BeyondCommits' /\ SaveHolds' /\ CommittedModelKept' /\ CommitSound'
    BY <2>1 DEF TypeOK, OneOwner, BeyondCommits, SaveHolds, CommittedModelKept, CommitSound,
       Commits, Outside,
                Working, Stepping, Saving, Writing
  <2>3. Boundary' /\ Resubmitting' /\ Resumable' /\ Fresh'
    BY <2>1 DEF Boundary, Resubmitting, Resumable, Fresh, Commits, Saving, Writing
  <2>4. PlanSound'
    BY <2>1 DEF PlanSound, Usable, Using, Pair, Commits, Replaying, Working, Stepping, Saving,
       Writing
  <2>5. SessionSound' /\ Complete'
    BY <2>1 DEF SessionSound, Complete, Usable, Commits, Replaying, Working, Stepping, Saving,
       Writing
  <2> QED  BY <2>2, <2>3, <2>4, <2>5
<1> SUFFICES ASSUME plan[d].current PROVE IInv'
  BY <1>0
<1> DEFINE fresh == [restore |-> plan[d].step, pending |-> plan[d].step # None]
<1>a. /\ Usable(d) /\ owner = None
      /\ WriteSession(IF plan[d].mode = "resume" THEN session ELSE fresh)
      /\ journal' = IF plan[d].mode = "new" THEN EmptyJournal ELSE journal
      /\ owner' = d /\ pc' = [pc EXCEPT ![d] = "loading"]
      /\ UNCHANGED <<tracker, iter, cursorFile, queueState, builderState, committed, target, model, rid,
                     budget>>
  BY DEF Usable
<1>b. /\ pc'[d] = "loading" /\ \A e \in Drivers \ {d} : pc'[e] \in Outside
      /\ pc' \in [Drivers -> Places] /\ \A e \in Drivers : ~Usable(e)'
      /\ plan' \in [Drivers -> Plans] /\ plan'[d].step = plan[d].step /\ plan'[d].mode = plan[d].mode
  BY <1>a, StalePlans DEF TypeOK, OneOwner, Outside, Places, Usable
<1>c. plan[d] \in Plans
  BY DEF TypeOK
<1>d. /\ session' = IF plan[d].mode = "resume" THEN session ELSE fresh
      /\ session' \in Sessions /\ session' # None
      /\ session'.restore = plan[d].step /\ (session'.pending => plan[d].step # None)
      /\ plan[d].step # None => session'.pending
  <2>1. fresh \in Sessions /\ fresh.restore = plan[d].step /\ fresh.pending = (plan[d].step # None)
    BY <1>c DEF Plans, Sessions
  <2>2. plan[d].mode = "resume" =>
            /\ session \in Sessions /\ session.restore = plan[d].step
            /\ plan[d].step = None /\ ~session.pending
    BY <1>a DEF PlanSound, SessionSound, TypeOK
  <2>3. session' = IF plan[d].mode = "resume" THEN session ELSE fresh
    BY <1>a DEF WriteSession
  <2> QED  BY <2>1, <2>2, <2>3, NoneAssumption
<1>e. /\ plan[d].step = None <=> plan[d].mode \in {"new", "resume"}
      /\ plan[d].mode = "new" => session = None /\ Commits = {}
      /\ plan[d].mode = "resume" => session # None /\ session' = session
  BY <1>a, <1>d DEF PlanSound, Fresh
<1>1. TypeOK'
  <2>1. journal' \in Journals
    BY <1>a DEF TypeOK, EmptyJournal, Journals
  <2> QED  BY <1>a, <1>b, <1>d, <2>1 DEF TypeOK
<1>2. OneOwner'
  BY <1>a, <1>b DEF OneOwner, TypeOK, Outside
<1>3. BeyondCommits'
  BY <1>b DEF BeyondCommits, TypeOK, OneOwner, Outside, Journals, Commits, Working, Stepping,
     Saving, Writing
<1>4. SaveHolds'
  BY <1>b DEF SaveHolds, TypeOK, OneOwner, Outside, Writing
<1>5. CommittedModelKept'
  BY <1>a DEF CommittedModelKept, TypeOK, Commits
<1>6. CommitSound'
  BY <1>a DEF CommitSound, TypeOK, Commits
<1>7. Boundary'
  BY <1>b DEF Boundary, OneOwner, TypeOK, Outside, Saving, Writing
<1>8. Resubmitting'
  BY <1>b DEF Resubmitting, OneOwner, TypeOK, Outside, Journals, Queues
<1>9. PlanSound'
  <2>1. \A e \in Drivers : Using(e)' <=> e = d
    BY <1>b DEF Using, Outside, Replaying
  <2>2. plan[d].mode = "rewind" => Pair(plan[d].step)'
    BY <1>a, <1>b DEF PlanSound, Pair
  <2>3. plan[d].step # None => iter'[plan[d].step] # None /\ tracker' # None
    BY <1>a DEF PlanSound
  <2>4. plan[d].mode = "new" => ~journal'.planned
    BY <1>a DEF EmptyJournal
  <2> QED  BY <1>b, <1>d, <1>e, <2>1, <2>2, <2>3, <2>4 DEF PlanSound, Outside, Replaying
<1>10. Resumable'
  <2>1. Partition(Untrained, EmptyJournal.queued, EmptyJournal.cursor)
    BY DEF Partition, Untrained, EmptyJournal, Prompts
  <2>2. Commits' = Commits
    BY <1>a DEF Commits
  <2> QED  BY <1>a, <1>d, <1>e, <2>1, <2>2 DEF Resumable
<1>11. Fresh'
  BY <1>d DEF Fresh, Commits
<1>12. SessionSound'
  <2>1. /\ Commits' = Commits /\ tracker' = tracker
        /\ plan[d].step # None => iter'[plan[d].step] # None /\ tracker' # None
    BY <1>a DEF Commits, PlanSound
  <2>2. \A e \in Drivers : pc'[e] \notin Working /\ pc'[e] \notin Replaying
    BY <1>b DEF Outside, Replaying, Working, Stepping, Saving, Writing
  <2>3. Commits' # {} => tracker' # None
    BY <2>1 DEF SessionSound, Fresh
  <2>4. ~session'.pending => \A n \in Commits' : n <= tracker'
    BY <1>d, <1>e, <2>1 DEF SessionSound
  <2>5. \A e \in Drivers : pc'[e] # "finish" /\ (pc'[e] = "loading" => e = d)
    BY <1>b DEF Outside
  <2> QED  BY <1>b, <1>d, <2>1, <2>2, <2>3, <2>4, <2>5 DEF SessionSound
<1>13. Complete'
  <2>1. Commits' = Commits /\ clean' = clean /\ queueState' = queueState /\ builderState' = builderState
    BY <1>a DEF Commits
  <2>2. clean /\ session # None /\ session.pending => plan[d].step = session.restore
    BY <1>a DEF Complete
  <2>3. session'.pending /\ session = None => Commits = {}
    BY DEF Fresh
  <2> QED  BY <1>b, <1>d, <1>e, <2>1, <2>2, <2>3 DEF Complete
<1> QED  BY <1>1, <1>2, <1>3, <1>4, <1>5, <1>6, <1>7, <1>8, <1>9, <1>10, <1>11, <1>12, <1>13

\* The trainers load the selected model, or start from scratch with a log
\* nothing was planned from.
LEMMA LoadModelKeeps ==
    ASSUME IInv, NEW d \in Drivers, LoadModel(d)
    PROVE  IInv'
<1> USE ConstantsAssumption DEF IInv, LoadModel
<1> DEFINE n == plan[d].step
           refused == \/ n # None /\ ~ModelMatches(n)
                      \/ plan[d].mode = "resume" /\ journal.planned
<1>0. ASSUME refused PROVE IInv'
  <2>1. iter' \in [Steps -> Payloads \cup {None}]
    BY DEF TypeOK
  <2> QED  BY <1>0, <2>1, StopKeeps
<1> SUFFICES ASSUME ~refused PROVE IInv'
  BY <1>0
<1>a. /\ owner = d /\ pc[d] = "loading"
      /\ model' = IF n = None THEN Untrained ELSE iter[n].model
      /\ rid' = IF n = None THEN 0 ELSE n + 1
      /\ pc' = [pc EXCEPT ![d] = IF n = None THEN "running" ELSE "rewinding"]
      /\ UNCHANGED <<owner, plan, target, disk, budget>>
  BY SMT
<1>b. /\ n \in Steps \cup {None} /\ session # None /\ session.restore = n
      /\ n # None => iter[n] \in Payloads
      /\ n = None => plan[d].mode \in {"new", "resume"}
  BY <1>a DEF TypeOK, Plans, PlanSound, Using
<1>c. n = None => Commits = {} /\ Partition(Untrained, journal.queued, journal.cursor)
  BY <1>a, <1>b DEF PlanSound, Resumable
<1>d. /\ pc'[d] = IF n = None THEN "running" ELSE "rewinding"
      /\ \A e \in Drivers \ {d} : pc'[e] = pc[e] /\ pc[e] \in Outside
  BY <1>a DEF TypeOK, OneOwner
<1> HIDE DEF refused
<1>1. TypeOK'
  <2>1. model' \in Models /\ rid' \in Nat
    BY <1>a, <1>b DEF Untrained, Models, Payloads, Steps
  <2>2. pc' \in [Drivers -> Places]
    BY <1>a DEF TypeOK, Places, Replaying, Working
  <2> QED  BY <1>a, <2>1, <2>2 DEF TypeOK
<1>2. OneOwner'
  BY <1>a, <1>d DEF OneOwner, TypeOK, Outside
<1>3. BeyondCommits'
  BY <1>c, <1>d DEF BeyondCommits, TypeOK, OneOwner, Outside, Journals, Commits, Working,
     Stepping, Saving, Writing
<1>4. SaveHolds'
  BY <1>d DEF SaveHolds, TypeOK, OneOwner, Outside, Writing
<1>5. CommittedModelKept'
  BY DEF CommittedModelKept, TypeOK, Commits
<1>6. CommitSound'
  BY DEF CommitSound, TypeOK, Commits
<1>7. Boundary'
  BY <1>a, <1>c, <1>d DEF Boundary, OneOwner, TypeOK, Outside, Saving, Writing
<1>8. Resubmitting'
  BY <1>d DEF Resubmitting, OneOwner, TypeOK, Outside, Journals, Queues
<1>9. PlanSound'
  <2>1. \A e \in Drivers : /\ Usable(e)' <=> Usable(e) /\ e # d
                           /\ Using(e)' <=> e = d /\ n # None
    BY <1>a, <1>d DEF Usable, Using, Outside, Replaying
  <2>2. \A m \in Steps : Pair(m)' <=> Pair(m)
    BY <1>a DEF Pair
  <2>3. Commits' = Commits /\ plan' = plan /\ session' = session
    BY <1>a DEF Commits
  <2>4. n = None => \A e \in Drivers : Usable(e) /\ plan[e].mode = "rewind" => plan[e].step \in Commits
    BY <1>a DEF PlanSound
  <2>5. \A e \in Drivers : pc'[e] \in Working \/ (pc'[e] = "loading" /\ plan'[e].step = None)
                           => e = d /\ n = None
    BY <1>d DEF Outside, Working, Stepping, Saving, Writing
  <2>6. Using(d)
    BY <1>a DEF Using
  <2>7. \A e \in Drivers : plan[e].step \in Steps \cup {None}
    BY DEF TypeOK, Plans
  <2> QED  BY <1>a, <1>b, <1>d, <2>1, <2>2, <2>3, <2>4, <2>5, <2>6, <2>7 DEF PlanSound, Replaying,
              Outside
<1>10. Resumable'
  BY DEF Resumable, TypeOK, Commits, Journals
<1>11. Fresh'
  BY DEF Fresh, Commits
<1>12. SessionSound'
  BY <1>a, <1>b, <1>c, <1>d DEF SessionSound, OneOwner, TypeOK, Outside, Commits, Replaying,
     Working, Stepping, Saving, Writing
<1>13. Complete'
  BY <1>a, <1>d DEF Complete, TypeOK, Commits, Usable
<1> QED  BY <1>1, <1>2, <1>3, <1>4, <1>5, <1>6, <1>7, <1>8, <1>9, <1>10, <1>11, <1>12, <1>13

\* reset_journal empties the log once the saved inputs were read.
LEMMA ResetJournalKeeps ==
    ASSUME IInv, NEW d \in Drivers, ResetJournal(d)
    PROVE  IInv'
<1> USE ConstantsAssumption DEF IInv, ResetJournal
<1>a. /\ RewindSource(d) \in Queues
      /\ model' = [count |-> model.count, exact |-> model.exact /\ Readable(d)]
      /\ model' \in Models
  <2>1. /\ plan[d].step \in Steps
        /\ Readable(d) => queueState[plan[d].step] \in Snapshots
    BY DEF TypeOK, Plans, PlanSound, Replaying, Readable
  <2>2. RewindSource(d) \in Queues
    BY <2>1 DEF RewindSource, Queues, Snapshots, TypeOK
  <2>3. model' = [count |-> model.count, exact |-> model.exact /\ Readable(d)]
    BY DEF TypeOK, Models
  <2>4. (model.exact /\ Readable(d)) \in BOOLEAN
    BY DEF Readable
  <2> QED  BY <2>2, <2>3, <2>4 DEF TypeOK, Models
<1>b. pc'[d] = "cursor" /\ \A e \in Drivers \ {d} : pc'[e] = pc[e] /\ pc[e] \in Outside
  BY DEF TypeOK, OneOwner
<1>1. TypeOK'
  <2>1. journal' \in Journals
    BY DEF EmptyJournal, Journals
  <2> QED  BY <1>a, <2>1 DEF TypeOK, Steps, Prompts, Journals, Queues, Places, Outside, Replaying,
              Working, Stepping, Saving, Writing
<1>2. OneOwner'
  BY DEF OneOwner, TypeOK, Outside
<1>3. BeyondCommits'
  BY <1>b DEF BeyondCommits, TypeOK, OneOwner, Outside, Journals, Commits, Working, Stepping,
     Saving, Writing
<1>4. SaveHolds'
  BY <1>b DEF SaveHolds, TypeOK, OneOwner, Outside, Writing
<1>5. CommittedModelKept'
  BY DEF CommittedModelKept, TypeOK, Commits
<1>6. CommitSound'
  BY DEF CommitSound, TypeOK, Commits
<1>7. Boundary'
  <2>1. ASSUME model'.exact PROVE Partition(model', target'.queued, target'.cursor)
    <3>1. model.exact /\ Readable(d) /\ model'.count = model.count
      BY <1>a, <2>1
    <3>2. /\ plan[d].mode = "rewind" /\ plan[d].step \in Steps
          /\ queueState[plan[d].step] \in Snapshots /\ queueState[plan[d].step].state = "good"
      BY <3>1 DEF TypeOK, Plans, PlanSound, Replaying, Readable
    <3>3. Pair(plan[d].step) /\ model = iter[plan[d].step].model
      BY <3>2 DEF PlanSound, Using, Replaying
    <3>4. Partition(model, queueState[plan[d].step].queued, queueState[plan[d].step].cursor)
      BY <3>1, <3>2, <3>3 DEF Pair
    <3> QED  BY <3>1, <3>4 DEF Partition, RewindSource
  <2> QED  BY <2>1, <1>b DEF Boundary, Outside, Saving, Writing
<1>8. Resubmitting'
  BY <1>b DEF Resubmitting, OneOwner, TypeOK, Outside, Journals, Queues, EmptyJournal
<1>9. PlanSound'
  BY DEF PlanSound, OneOwner, TypeOK, Outside, Usable, Using, Pair, Plans, Commits, Replaying,
     Working, Stepping, Saving, Writing
<1>10. Resumable'
  BY DEF Resumable, TypeOK, Commits, Journals, PlanSound, Using, Replaying
<1>11. Fresh'
  BY DEF Fresh, Commits
<1>12. SessionSound'
  BY DEF SessionSound, OneOwner, TypeOK, Outside, Commits, Replaying, Working, Stepping, Saving,
     Writing
<1>13. Complete'
  BY DEF Complete, TypeOK, Commits, Usable
<1> QED  BY <1>1, <1>2, <1>3, <1>4, <1>5, <1>6, <1>7, <1>8, <1>9, <1>10, <1>11, <1>12, <1>13

\* The attempt closes after its last rollout.
LEMMA FinishKeeps ==
    ASSUME IInv, NEW d \in Drivers, Finish(d)
    PROVE  IInv'
<1>1. iter \in [Steps -> Payloads \cup {None}]
  BY DEF IInv, TypeOK
<1> QED  BY <1>1, StopKeeps DEF Finish

\* A crash tears only payloads that were not synced.
LEMMA CrashKeeps ==
    ASSUME IInv, NEW d \in Drivers, Crash(d)
    PROVE  IInv'
<1>1. PICK lost \in SUBSET {n \in Steps : iter[n] # None /\ iter[n].state = "whole"} :
          iter' = [n \in Steps |-> IF n \in lost THEN [iter[n] EXCEPT !.state = "torn"] ELSE iter[n]]
  BY DEF Crash
<1>2. ASSUME NEW n \in Steps
      PROVE  /\ iter'[n] \in Payloads \cup {None}
             /\ iter[n] \in Payloads =>
                   /\ iter'[n] \in Payloads /\ iter'[n].model = iter[n].model
                   /\ iter[n].state = "synced" => iter'[n].state = "synced"
  <2>1. CASE n \in lost
    <3>1. iter[n] \in Payloads /\ iter[n].state = "whole"
      BY <2>1 DEF IInv, TypeOK
    <3>2. iter'[n] = [state |-> "torn", model |-> iter[n].model]
      BY <1>1, <2>1, <3>1 DEF Payloads
    <3> QED  BY <3>1, <3>2 DEF Payloads
  <2>2. CASE n \notin lost
    BY <1>1, <2>2 DEF IInv, TypeOK
  <2> QED  BY <2>1, <2>2
<1>3. iter' \in [Steps -> Payloads \cup {None}]
  BY <1>1, <1>2
<1> QED  BY <1>2, <1>3, StopKeeps DEF Crash

\* A restart without --ckpt-step.
LEMMA AutoResolveKeeps ==
    ASSUME IInv, NEW d \in Drivers, AutoResolve(d)
    PROVE  IInv'
BY ResolveKeeps DEF AutoResolve, IInv, TypeOK

\* A restart with --ckpt-step.
LEMMA ExplicitResolveKeeps ==
    ASSUME IInv, NEW d \in Drivers, NEW n \in Steps, ExplicitResolve(d, n)
    PROVE  IInv'
BY ResolveKeeps DEF ExplicitResolve, IInv, TypeOK

-----------------------------------------------------------------------------
(* The invariant holds. *)

\* Nothing is saved, and no job runs, at first.
LEMMA InitEstablishes == Init => IInv
<1> SUFFICES ASSUME Init PROVE IInv
  OBVIOUS
<1> USE ConstantsAssumption DEF Init
<1>1. Commits = {}
  BY DEF Commits
<1>2. /\ EmptyJournal \in Journals /\ EmptyQueue \in Queues /\ NoPlan \in Plans /\ Untrained \in Models
      /\ "down" \in Places
  BY DEF EmptyJournal, Journals, EmptyQueue, Queues, NoPlan, Plans, Untrained, Models, Places,
     Outside
<1>3. TypeOK
  BY <1>2 DEF TypeOK
<1>4. OneOwner /\ BeyondCommits /\ SaveHolds /\ CommittedModelKept /\ CommitSound /\ Boundary /\ Resubmitting
  BY <1>1 DEF OneOwner, BeyondCommits, SaveHolds, CommittedModelKept, CommitSound, Boundary,
     Resubmitting,
              Outside, Working, Stepping, Saving, Writing
<1>5. PlanSound /\ Resumable /\ Fresh /\ SessionSound /\ Complete
  BY <1>1 DEF PlanSound, Resumable, Fresh, SessionSound, Complete, Usable, Using, Replaying,
              Working, Stepping, Saving, Writing
<1> QED  BY <1>3, <1>4, <1>5 DEF IInv

\* Every step of every launch, job and fault keeps the invariant.
LEMMA NextKeeps == IInv /\ [Next]_vars => IInv'
<1> SUFFICES ASSUME IInv, [Next]_vars PROVE IInv'
  OBVIOUS
<1>1. ASSUME NEW d \in Drivers, AutoResolve(d) \/ (\E n \in Steps : ExplicitResolve(d, n))
                               \/ Start(d) \/ StartRefused(d) \/ Crash(d)
      PROVE  IInv'
  BY <1>1, AutoResolveKeeps, ExplicitResolveKeeps, StartKeeps, StartRefusedKeeps, CrashKeeps
<1>2. ASSUME NEW d \in Drivers, Restore(d) PROVE IInv'
  BY <1>2, LoadModelKeeps, ResetJournalKeeps, SubmitCursorKeeps, SubmitInputsKeeps, InputsDoneKeeps,
     DiscardFutureKeeps, DiscardTrackerKeeps, FinishRestoreKeeps DEF Restore
<1>3. ASSUME NEW d \in Drivers, Save(d) PROVE IInv'
  BY <1>3, BeginSaveKeeps, SaveModelKeeps, SaveModelReturnsKeeps, MegatronTrackerKeeps,
     SaveCursorKeeps,
     SaveQueueKeeps, SaveBuilderKeeps, SyncModelKeeps, WriteCommitKeeps, WriteLatestKeeps DEF Save
<1>4. ASSUME NEW d \in Drivers, TrainLoop(d) PROVE IInv'
  BY <1>4, ProduceKeeps, PlanBatchKeeps, TrainKeeps, NextRolloutKeeps, FinishKeeps DEF TrainLoop
<1>5. ASSUME NEW n \in Steps, NEW state \in {"lost", "corrupt"}, Damage(n, state) PROVE IInv'
  BY <1>5, DamageKeeps
<1>6. CASE UNCHANGED vars
  <2> USE <1>6 DEF vars, IInv
  <2>1. /\ TypeOK' /\ OneOwner' /\ BeyondCommits' /\ SaveHolds' /\ CommittedModelKept' /\ CommitSound'
        /\ Boundary' /\ Resubmitting' /\ Resumable' /\ Fresh' /\ SessionSound'
    BY DEF TypeOK, OneOwner, BeyondCommits, SaveHolds, CommittedModelKept, CommitSound, Boundary,
           Resubmitting, Resumable, Fresh, SessionSound, Commits
  <2>2. PlanSound' /\ Complete'
    BY DEF PlanSound, Complete, Usable, Using, Pair, Commits
  <2> QED  BY <2>1, <2>2
<1> QED  BY <1>1, <1>2, <1>3, <1>4, <1>5, <1>6 DEF Next

\* The inductive invariant of jobs, plans and files.
THEOREM Invariance == Spec => []IInv
<1>1. Init => IInv
  BY InitEstablishes
<1>2. IInv /\ [Next]_vars => IInv'
  BY NextKeeps
<1> QED  BY <1>1, <1>2, PTL DEF Spec

\* Type correctness of the save directory, the jobs and their memory.
THEOREM TypeCorrect == Spec => []TypeOK
<1>1. IInv => TypeOK
  BY DEF IInv
<1> QED  BY <1>1, Invariance, PTL

\* A published manifest never names a model other than the one it was written
\* for: no crash tears a synced payload and no later save writes into a
\* committed step (commit_checkpoint, save_checkpoint).
THEOREM ManifestNamesItsModel == Spec => []CommittedModelKept
<1>1. IInv => CommittedModelKept
  BY DEF IInv
<1> QED  BY <1>1, Invariance, PTL

\* Model and queue describe one boundary in every manifest and in every
\* running job, after any number of interrupted saves, rewinds and restarts.
THEOREM OneBoundary == Spec => []JointBoundary
<1>1. IInv => JointBoundary
  BY DEF IInv, JointBoundary, CommitSound, Boundary
<1> QED  BY <1>1, Invariance, PTL

\* The launch that follows is sent to a loadable step, to a commit when no
\* rewind is unfinished, and finds that commit's snapshot complete.
LEMMA RestartHasAStep == IInv => AutomaticRestart
<1> SUFFICES ASSUME IInv, clean, owner = None, ~Resumes(None)
             PROVE  LET selected == Select(AskedStep(None))
                    IN  /\ selected # {None}
                        /\ Commits # {} /\ ~session.pending => selected \subseteq Commits
                        /\ \A n \in selected \cap Commits :
                               Mode(n) = "rewind" /\ queueState[n].state = "good"
  BY DEF AutomaticRestart
<1> USE ConstantsAssumption DEF IInv
<1> DEFINE asked == AskedStep(None)
           c == IF asked # None THEN asked
                ELSE IF Commits = {} THEN tracker ELSE Min({tracker, Max(Commits)})
<1>1. asked \in Steps \cup {None}
  BY AskedStepType
<1>2. CASE tracker = None
  <2>1. Commits = {} /\ session = None
    BY <1>2 DEF Fresh, SessionSound, Resumes
  <2>2. Select(asked) = {}
    BY <1>2, <2>1 DEF Select, AskedStep
  <2> QED  BY <2>1, <2>2
<1>3. CASE tracker # None
  <2>1. session # None /\ tracker \in Steps
    BY <1>3 DEF Fresh, TypeOK
  <2>2. asked # None => /\ asked = session.restore /\ iter[c] # None /\ c \in Steps
                        /\ session.pending \/ Commits = {}
    BY <1>1, <2>1 DEF AskedStep, SessionSound
  <2>3. asked = None => /\ c \in Commits /\ ~session.pending
    <3> SUFFICES ASSUME asked = None PROVE c \in Commits /\ ~session.pending
      OBVIOUS
    <3>1. ~session.pending /\ Commits # {}
      BY <2>1 DEF AskedStep, SessionSound, Resumes
    <3>2. Max(Commits) \in Commits /\ Max(Commits) <= tracker
      BY <2>1, <3>1, LastStep DEF SessionSound, Commits
    <3>3. tracker \in Nat /\ Max(Commits) \in Nat
      BY <2>1, <3>2 DEF Commits, Steps
    <3>4. Min({tracker, Max(Commits)}) = Max(Commits)
      BY <3>2, <3>3, SmallerOf
    <3> QED  BY <3>1, <3>2, <3>4
  <2>4. c \in Commits => ModelMatches(c)
    BY NoneAssumption DEF CommittedModelKept, CommitSound, ModelMatches
  <2>5. Select(asked) = {c} /\ c \in Steps
    BY <1>3, <2>2, <2>3, <2>4 DEF Select, Commits
  <2>6. c # None
    BY <2>5 DEF Steps
  <2>7. Commits # {} /\ ~session.pending => c \in Commits
    BY <2>2, <2>3
  <2>8. c \in Commits => Mode(c) = "rewind" /\ queueState[c].state = "good"
    <3>1. session.pending => c <= session.restore
      BY <2>2, <2>3, <2>5 DEF Steps
    <3> QED  BY <3>1, NoneAssumption DEF Complete, Mode, RolloutMatches
  <2> QED  BY <2>5, <2>6, <2>7, <2>8
<1> QED  BY <1>2, <1>3

\* Whatever an interrupted save or rewind left behind, a restart without
\* --ckpt-step is not refused (_select_checkpoint, _read_checkpoint).
THEOREM RestartAccepted == Spec => []AutomaticRestart
BY Invariance, RestartHasAStep, PTL

\* save_checkpoint refuses to overwrite a committed step.  It never has to: a
\* job runs beyond every commit, because a rewind discards the later ones.
SaveNeverRefused == \A d \in Drivers : owner = d /\ pc[d] = "trained" => ~SaveRefused
THEOREM SavesAccepted == Spec => []SaveNeverRefused
<1>1. IInv => SaveNeverRefused
  BY Uncommitted DEF SaveNeverRefused, SaveRefused
<1> QED  BY <1>1, Invariance, PTL

\* A manifest is never rewritten; only the rewind to an earlier boundary, which
\* the session names until it is finished, removes one (discard_future).
ManifestStep ==
    \A n \in Commits : \/ committed'[n] = committed[n]
                       \/ committed'[n] = None /\ session.pending /\ n > session.restore
LEMMA StepKeepsManifests == IInv /\ [Next]_vars => ManifestStep
<1> SUFFICES ASSUME IInv, [Next]_vars PROVE ManifestStep
  OBVIOUS
<1>1. CASE UNCHANGED committed
  BY <1>1 DEF ManifestStep
<1>2. ASSUME NEW d \in Drivers, DiscardFuture(d) PROVE ManifestStep
  <2>1. pc[d] = "discard" /\ session.pending /\ session.restore = plan[d].step
    BY <1>2 DEF DiscardFuture, IInv, PlanSound, SessionSound, Using, Replaying
  <2>2. PICK n \in Later(d) : committed' = [committed EXCEPT ![n] = None] \/ committed' = committed
    BY <1>2 DEF DiscardFuture
  <2> QED  BY <2>1, <2>2 DEF ManifestStep, Later, IInv, TypeOK, Commits
<1>3. ASSUME NEW d \in Drivers, WriteCommit(d) PROVE ManifestStep
  <2>1. rid \notin Commits
    BY <1>3, Uncommitted DEF WriteCommit, Saving, Writing
  <2> QED  BY <1>3, <2>1 DEF WriteCommit, ManifestStep, IInv, TypeOK, Commits
<1>4. ASSUME NEW d \in Drivers, Restore(d), ~DiscardFuture(d) PROVE UNCHANGED committed
  BY <1>4 DEF Restore, LoadModel, ResetJournal, SubmitCursor, SubmitInputs, InputsDone,
     DiscardTracker,
              FinishRestore
<1>5. ASSUME NEW d \in Drivers, Save(d), ~WriteCommit(d) PROVE UNCHANGED committed
  BY <1>5 DEF Save, BeginSave, SaveModel, SaveModelReturns, MegatronTracker, SaveCursor, SaveQueue,
              SaveBuilder, SyncModel, WriteLatest
<1>6. ASSUME NEW d \in Drivers, TrainLoop(d) PROVE UNCHANGED committed
  BY <1>6 DEF TrainLoop, Produce, PlanBatch, Train, NextRollout, Finish
<1>7. ASSUME NEW d \in Drivers, AutoResolve(d) \/ (\E n \in Steps : ExplicitResolve(d, n))
                               \/ Start(d) \/ StartRefused(d) \/ Crash(d)
      PROVE  UNCHANGED committed
  BY <1>7 DEF AutoResolve, ExplicitResolve, Resolve, Start, StartRefused, Crash
<1>8. ASSUME NEW n \in Steps, NEW state \in {"lost", "corrupt"}, Damage(n, state) PROVE UNCHANGED committed
  BY <1>8 DEF Damage
<1>9. CASE UNCHANGED vars
  BY <1>1, <1>9 DEF vars
<1> QED  BY <1>1, <1>2, <1>3, <1>4, <1>5, <1>6, <1>7, <1>8, <1>9 DEF Next

\* Every step of the system leaves the published manifests as they are, or
\* discards one that is later than the boundary being restored.
THEOREM ManifestsKept == Spec => [][ManifestStep]_vars
<1>1. IInv /\ [Next]_vars => [ManifestStep]_vars
  BY StepKeepsManifests
<1> QED  BY <1>1, Invariance, PTL DEF Spec
=============================================================================
