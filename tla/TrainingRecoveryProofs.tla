----------------------- MODULE TrainingRecoveryProofs -----------------------
(***************************************************************************)
(* Proofs about TrainingRecovery: its type invariant; that a journal never *)
(* points to storage that may have been collected, and that what was       *)
(* trained beyond the last commit is retained for the next attempt; that   *)
(* rollouts are generated in order and none twice, that the window misses  *)
(* at most the next one, and that an attempt never trains up to a          *)
(* checkpoint that is already committed.                                   *)
(***************************************************************************)
EXTENDS TrainingRecovery, WellFoundedInduction, TLAPS

-----------------------------------------------------------------------------
(* Names for parts of a state or of a step; always expanded. *)
USE DEF serving, queue, disk, manager, driver, Goto, Framed, Awaiting, Persisted, Call, CallWith

(* The inductive invariant *)

Alive == managerAt \notin {"dead", "open journal"}
Absent(m, r) == m.batches[r] = "absent"

(* What a window of the current session guarantees, in memory or on disk:   *)
(* it can be read, and what was trained is in it, or covered by a commit.   *)
Sound(m) ==
    /\ Readable(m)
    /\ m.loaded => \A r \in finished : r < m.start \/ m.batches[r] = "converted"
    /\ ~m.loaded => \A r \in finished : \E c \in committed : r <= c

MemorySound  == Alive /\ Current(memory) => Sound(memory)
JournalSound == journalExists /\ Current(journal) => Sound(journal)

(* No window is of a session still to come.  Its boundary is a commit, and  *)
(* it lists nothing below; one that is not loaded is still empty.           *)
Formed(m) ==
    /\ m.origin <= session
    /\ m.start > 0 => m.start - 1 \in committed
    /\ \A r \in Rollout : Absent(m, r) \/ m.start <= r
    /\ ~m.loaded => m.start = 0 /\ \A r \in Rollout : Absent(m, r)
WindowsFormed == Formed(memory) /\ Formed(journal)

(* Without a journal nothing is lost: commits cover what was trained. *)
Unjournalled == ~journalExists => \A r \in finished : \E c \in committed : r <= c

(* Until the first manager of a session opens the journal, nothing in it is *)
(* of that session, and the queue is new.                                   *)
FirstAttempt == attachments = 0 \/ (driverAt = "attach" /\ ~reused)
FirstManager ==
    /\ attachments = 0 => driverAt = "none"
    /\ FirstAttempt => managerAt = "dead"
    /\ FirstAttempt \/ (managerAt = "open journal" /\ ~retainedServing) =>
          finished = {} /\ (journalExists => ~Current(journal))

(* Where the journal says what the memory says. *)
DriverSynced == driverAt \in {"load", "generate", "train", "save?", "notify", "next"}
Synced == journalExists /\ journal = memory
ManagerSynced ==
    \/ managerAt \in {"load", "generate", "collect", "begin", "publish converted", "finish"}
    \/ call = "generate" /\ managerAt \in {"remember raw", "retain converted"}
    \/ call = "commit" /\ managerAt = "drop batches"
    \/ managerAt = "release storage"
JournalSynced ==
    /\ DriverSynced /\ Alive => Synced
    /\ ManagerSynced => Synced

(* The manager serves one call at a time, of the driver that waits for it.  *)
OneCall ==
    /\ driverAt = "waiting" => Alive /\ managerAt # "idle" /\ call # "init"
    /\ DriverSynced \/ driverAt = "register" => managerAt \in {"idle", "dead"}
    /\ managerAt = "open journal" => call = "init"

(* Which steps belong to which call. *)
StepOfCall ==
    /\ managerAt \in {"reconcile checkpoint"} => call = "attach"
    /\ managerAt \in {"reconcile collection", "reconcile conversions"} => call \in {"init", "attach"}
    /\ managerAt \in {"remember raw", "retain raw", "persist raw", "retain converted",
                      "persist converted"} => call \in {"init", "attach", "generate"}
    /\ managerAt \in {"drop batches"} => call \in {"attach", "commit"}
    /\ managerAt \in {"persist boundary", "release storage"} => call \in {"attach", "commit", "dispose"}
    /\ managerAt \in {"generate", "collect", "begin", "publish converted"} => call = "generate"
    /\ managerAt \in {"load", "persist load"} => call = "load"
    /\ managerAt = "persist role" => call = "register"
    /\ managerAt = "finish" => call = "finish"
    /\ managerAt \in {"dispose", "remove journal"} => call = "dispose"
    /\ managerAt = "persist manager" => call = "init"

(* What the steps of a call rely on. *)
Recording ==
    /\ managerAt \in {"remember raw", "collect"} => target >= memory.start /\ memory.loaded
    /\ managerAt \in {"collect", "remember raw"} => target \in Rollout /\ Absent(memory, target)
    /\ managerAt = "remember raw" => target \in accepted /\ (call = "generate" => target \notin ready)
    /\ managerAt \in {"retain raw", "persist raw", "begin", "publish converted",
                      "retain converted"} => target \in Rollout /\ memory.batches[target] = "raw"
    /\ managerAt = "persist converted" => target \in Rollout /\ memory.batches[target] = "converted"
    /\ managerAt \in {"generate", "finish", "drop batches"} => target \in Rollout /\ target >= memory.start
    /\ managerAt \in {"generate", "retain raw", "persist raw", "begin", "publish converted",
                      "retain converted", "persist converted", "finish", "drop batches",
                      "persist boundary", "release storage", "reconcile conversions",
                      "persist load"} => memory.loaded
    /\ managerAt = "drop batches" => target \in committed
    /\ managerAt \in {"persist boundary", "release storage"} => released \cap Retained(memory) = {}
    /\ managerAt = "load" /\ ~memory.loaded => ColdStart(target)
    /\ call = "dispose" /\ managerAt \notin {"dead", "idle"} => memory.start = NumRollouts /\ memory.loaded

(* Past the reconciliation of an attempt no conversion is missing. *)
Reconciled ==
    Alive /\ Current(memory) =>
        /\ \/ DriverSynced \/ driverAt = "register"
           \/ managerAt \notin {"idle"} /\ call \in {"register", "load", "finish", "commit"}
           \/ call = "generate" /\ managerAt \notin {"idle", "retain converted"}
           => LostConversions = {}
        /\ call = "generate" /\ managerAt = "retain converted" => LostConversions \subseteq {target}
        /\ managerAt = "finish" => memory.batches[target] = "converted"
        /\ driverAt = "train" => memory.batches[rollout] = "converted"
ReadyAccepted == ready \subseteq accepted

(* Where the driver is, relative to the boundary. *)
Progress ==
    /\ driverAt \in {"train", "save?", "notify", "next"} => rollout < NumRollouts
    /\ driverAt = "notify" => rollout \in committed
    /\ Alive =>
        /\ DriverSynced /\ driverAt # "next" => memory.start <= rollout
        /\ driverAt = "next" => memory.start <= rollout + 1
        /\ driverAt \in {"generate", "train", "save?", "notify", "next"} => memory.loaded
        /\ driverAt = "generate" /\ rollout = NumRollouts => memory.start = NumRollouts
        /\ driverAt = "load" => IF memory.loaded THEN rollout = memory.start ELSE ColdStart(rollout)
        /\ driverAt = "next" /\ rollout + 1 = NumRollouts => memory.start = NumRollouts
Waiting ==
    driverAt = "waiting" =>
        /\ call \in {"load", "generate", "finish", "commit", "dispose"} => target = rollout
        /\ call \in {"generate", "finish"} =>
              rollout < NumRollouts /\ memory.start <= rollout /\ memory.loaded
        /\ call = "register" => /\ memory.start <= rollout
                                /\ IF memory.loaded THEN rollout = memory.start ELSE ColdStart(rollout)
        /\ call = "load" => memory.start <= rollout /\ (memory.loaded => rollout = memory.start)
        /\ call = "commit" => rollout < NumRollouts
        /\ call = "commit" /\ managerAt \in {"persist boundary", "release storage"} =>
              memory.start = rollout + 1

IInv ==
    /\ TypeOK /\ MemorySound /\ JournalSound /\ WindowsFormed /\ Unjournalled /\ FirstManager
    /\ JournalSynced /\ OneCall /\ StepOfCall /\ Recording /\ Reconciled /\ ReadyAccepted
    /\ Progress /\ Waiting

-----------------------------------------------------------------------------
(* A rollout is also a boundary. *)
LEMMA RolloutInBoundary == Rollout \subseteq Boundary
  BY NumRolloutsAssumption DEF Rollout, Boundary

(* Rollouts are naturals, and the boundary after one is in the job. *)
LEMMA RolloutNat == Rollout \subseteq Nat /\ \A r \in Rollout : r + 1 \in Boundary
  BY NumRolloutsAssumption DEF Rollout, Boundary

(* The fields of the two windows, for leaves about arithmetic. *)
LEMMA WindowTypes ==
    IInv => /\ memory.batches \in [Rollout -> Batch] /\ memory.start \in Nat
            /\ journal.batches \in [Rollout -> Batch] /\ journal.start \in Nat
  BY DEF IInv, TypeOK, WindowOK, DiskOK, Memory, Boundary

(* The invariant holds before the first attempt. *)
LEMMA InitIInv == Init => IInv
<1> SUFFICES ASSUME Init PROVE IInv
  OBVIOUS
<1> USE NumRolloutsAssumption DEF Init
<1>1. TypeOK
  <2>1. NewMemory(0, 0) \in Memory
    BY DEF NewMemory, Empty, Memory, Batch, Boundary
  <2>2. ServingOK /\ QueueOK /\ DiskOK /\ WindowOK
    BY <2>1 DEF ServingOK, QueueOK, DiskOK, WindowOK
  <2>3. "dead" \in ManagerAt /\ "init" \in Calls /\ "none" \in DriverAt /\ 0 \in Boundary
    BY DEF ManagerAt, Calls, DriverAt, Boundary
  <2>4. ManagerOK /\ DriverOK
    BY <2>3 DEF ManagerOK, DriverOK
  <2> QED
    BY <2>2, <2>4 DEF TypeOK
<1>2. MemorySound /\ JournalSound /\ WindowsFormed
  BY DEF MemorySound, JournalSound, WindowsFormed, Formed, Alive, Absent, NewMemory, Empty,
     Boundary
<1>3. Unjournalled /\ FirstManager /\ JournalSynced /\ OneCall /\ StepOfCall /\ Recording
  BY DEF Unjournalled, FirstManager, FirstAttempt, Alive, JournalSynced, DriverSynced,
     ManagerSynced, OneCall, StepOfCall, Recording
<1>4. Reconciled /\ ReadyAccepted /\ Progress /\ Waiting
  BY DEF Reconciled, Alive, ReadyAccepted, Progress, Waiting
<1> QED
  BY <1>1, <1>2, <1>3, <1>4 DEF IInv

(* A manager starts, from the journal of this session or from nothing. *)
LEMMA OpenJournalStep == IInv /\ OpenJournal => IInv'
<1> SUFFICES ASSUME IInv, OpenJournal PROVE IInv'
  OBVIOUS
<1>0. /\ managerAt = "open journal" /\ call = "init" /\ FirstManager /\ TypeOK /\ "init" \in Calls
      /\ OneCall
  BY DEF OpenJournal, IInv, OneCall, Calls
<1>u. /\ UNCHANGED <<session, attachments, reused, accepted, ready, finished, journal, journalExists>>
      /\ UNCHANGED <<committed, call, target, retainedServing, released, deaths>>
      /\ UNCHANGED <<rollout, attempts, driverAt>>
  BY DEF OpenJournal
<1>w. ~FirstAttempt /\ ~FirstAttempt'
  BY <1>0, <1>u DEF FirstManager, FirstAttempt
<1>d. ~DriverSynced /\ driverAt # "register" /\ driverAt # "waiting"
  BY <1>0 DEF OneCall, DriverSynced, Alive
<1>o. /\ ServingOK' /\ QueueOK' /\ DriverOK' /\ released' \subseteq Rollout
      /\ Unjournalled' /\ ReadyAccepted'
  BY <1>0, <1>u DEF IInv, TypeOK, ServingOK, QueueOK, DriverOK, WindowOK, Unjournalled,
     ReadyAccepted
<1>1. CASE journalExists /\ retainedServing
  <2>1. /\ memory' = journal /\ managerAt' = "reconcile collection"
        /\ pins' = pins /\ incarnations' = incarnations
    BY <1>1 DEF OpenJournal
  <2>2. DiskOK' /\ ManagerOK' /\ WindowOK'
    BY <1>0, <1>u, <1>o, <2>1 DEF TypeOK, DiskOK, ManagerOK, WindowOK, ManagerAt
  <2>3. MemorySound' /\ JournalSound' /\ WindowsFormed'
    BY <1>1, <1>u, <2>1 DEF IInv, MemorySound, JournalSound, WindowsFormed, Formed, Sound,
       Readable, Current, Absent
  <2>4. FirstManager' /\ JournalSynced' /\ OneCall' /\ StepOfCall' /\ Recording'
    BY <1>0, <1>u, <1>w, <1>d, <2>1 DEF FirstManager, FirstAttempt, JournalSynced, ManagerSynced,
       DriverSynced, OneCall, StepOfCall, Recording, Alive
  <2>5. Reconciled' /\ Progress' /\ Waiting'
    BY <1>0, <1>u, <1>d, <2>1 DEF Reconciled, Progress, Waiting, DriverSynced
  <2> QED
    BY <1>o, <2>2, <2>3, <2>4, <2>5 DEF IInv, TypeOK
<1>2. CASE ~(journalExists /\ retainedServing)
  <2>0. incarnations' = incarnations + 1
    BY <1>2 DEF OpenJournal
  <2>1. /\ memory' = NewMemory(incarnations', session) /\ managerAt' = "persist manager"
        /\ pins' \subseteq pins
    BY <1>2 DEF OpenJournal
  <2>2. /\ incarnations' \in Nat /\ session \in Nat
        /\ memory'.loaded = FALSE /\ memory'.start = 0 /\ memory'.origin = session
        /\ memory'.batches = Empty /\ memory' \in Memory
    <3>1. incarnations' \in Nat /\ session \in Nat
      BY <2>0 DEF IInv, TypeOK, ManagerOK, ServingOK
    <3>2. Empty \in [Rollout -> Batch] /\ 0 \in Boundary
      BY NumRolloutsAssumption DEF Empty, Batch, Boundary
    <3> QED
      BY <2>1, <3>1, <3>2 DEF NewMemory, Memory
  <2>3. DiskOK' /\ ManagerOK' /\ WindowOK'
    <3>1. "persist manager" \in ManagerAt
      BY DEF ManagerAt
    <3>2. ManagerOK'
      BY <1>0, <1>u, <2>1, <2>2, <3>1 DEF TypeOK, ManagerOK
    <3>3. DiskOK' /\ WindowOK'
      BY <1>0, <1>u, <1>o, <2>1, <2>2 DEF TypeOK, DiskOK, WindowOK
    <3> QED
      BY <3>2, <3>3
  <2>4. \A r \in Rollout : Absent(memory', r)
    BY <2>2 DEF Absent, Empty
  <2>5. MemorySound'
    <3>1. \A r \in finished : \E c \in committed : r <= c
      BY <1>0, <1>2 DEF FirstManager, IInv, Unjournalled
    <3>2. Readable(memory)'
      BY <2>4 DEF Absent, Readable
    <3> QED
      BY <1>u, <2>2, <3>1, <3>2 DEF MemorySound, Sound
  <2>6. JournalSound'
    BY <1>0, <1>2, <1>u DEF JournalSound, FirstManager, Current
  <2>7. WindowsFormed'
    BY <1>u, <2>2, <2>4 DEF IInv, WindowsFormed, Formed, Absent
  <2>8. FirstManager' /\ JournalSynced' /\ OneCall' /\ StepOfCall' /\ Recording'
    BY <1>0, <1>u, <1>w, <1>d, <2>1 DEF FirstManager, FirstAttempt, JournalSynced, ManagerSynced,
       DriverSynced, OneCall, StepOfCall, Recording, Alive
  <2>9. Reconciled' /\ Progress' /\ Waiting'
    BY <1>0, <1>u, <1>d, <2>1 DEF Reconciled, Progress, Waiting, DriverSynced
  <2> QED
    BY <1>o, <2>3, <2>5, <2>6, <2>7, <2>8, <2>9 DEF IInv, TypeOK
<1> QED
  BY <1>1, <1>2

(* The end of RolloutManager.__init__. *)
LEMMA PersistManagerStep == IInv /\ PersistManager => IInv'
<1> SUFFICES ASSUME IInv, PersistManager PROVE IInv'
  OBVIOUS
<1>1. TypeOK'
  BY DEF PersistManager, IInv, TypeOK, ServingOK, QueueOK, DiskOK, ManagerOK, WindowOK,
     DriverOK, ManagerAt, Calls, DriverAt
<1>2. MemorySound' /\ JournalSound' /\ WindowsFormed' /\ Unjournalled'
  BY DEF PersistManager, IInv, MemorySound, Alive, Current, Sound, Readable, JournalSound,
     WindowsFormed, Formed, Absent, Unjournalled
<1>3. FirstManager' /\ JournalSynced' /\ OneCall' /\ StepOfCall'
  BY DEF PersistManager, IInv, FirstManager, FirstAttempt, Current, JournalSynced, Synced,
     ManagerSynced, DriverSynced, Alive, OneCall, StepOfCall
<1>4. Recording' /\ Reconciled' /\ ReadyAccepted'
  BY DEF PersistManager, IInv, Recording, Absent, Retained, ColdStart, Reconciled, Alive,
     Current, DriverSynced, LostConversions, ReadyAccepted
<1>5. Progress' /\ Waiting'
  BY DEF PersistManager, IInv, Progress, Alive, DriverSynced, ColdStart, Waiting
<1> QED
  BY <1>1, <1>2, <1>3, <1>4, <1>5 DEF IInv

(* The collection that was accepted but not recorded is found. *)
LEMMA ReconcileRawStep == IInv /\ ReconcileRaw => IInv'
<1> SUFFICES ASSUME IInv, ReconcileRaw PROVE IInv'
  OBVIOUS
<1>1. TypeOK'
  <2>1. ServingOK' /\ QueueOK' /\ DiskOK' /\ WindowOK' /\ DriverOK'
    BY DEF ReconcileRaw, AfterReconcile, LostCollection, Returned, ResumeAt, IInv, TypeOK,
       ServingOK, QueueOK, DiskOK, WindowOK, DriverOK, DriverAt, StepOfCall
  <2>2. ManagerOK'
    <3>1. target' \in Boundary
      BY RolloutInBoundary DEF ReconcileRaw, AfterReconcile, LostCollection, Returned,
         ResumeAt, IInv, TypeOK, QueueOK, ManagerOK
    <3>2. managerAt' \in {"idle", "persist manager", "remember raw", "reconcile conversions"}
      BY DEF ReconcileRaw, AfterReconcile, LostCollection, Returned, ResumeAt, IInv, StepOfCall
    <3>3. {"idle", "persist manager", "remember raw", "reconcile conversions"} \subseteq ManagerAt
      BY DEF ManagerAt
    <3> QED
      BY <3>1, <3>2, <3>3 DEF ReconcileRaw, AfterReconcile, LostCollection, Returned,
         ResumeAt, IInv, TypeOK, ManagerOK, Calls
  <2> QED
    BY <2>1, <2>2 DEF TypeOK
<1>2. MemorySound' /\ JournalSound' /\ WindowsFormed' /\ Unjournalled'
  BY DEF ReconcileRaw, AfterReconcile, LostCollection, Returned, ResumeAt, IInv, MemorySound,
     Alive, Current, Sound, Readable, JournalSound, WindowsFormed, Formed, Absent, Unjournalled
<1>3. FirstManager' /\ JournalSynced' /\ OneCall' /\ StepOfCall'
  BY DEF ReconcileRaw, AfterReconcile, LostCollection, Returned, ResumeAt, IInv, FirstManager,
     FirstAttempt, Current, JournalSynced, Synced, ManagerSynced, DriverSynced, Alive, OneCall,
     StepOfCall
<1>4. Recording'
  <2>0. /\ managerAt = "reconcile collection" /\ call \in {"init", "attach"}
        /\ call' = call /\ memory' = memory /\ accepted' = accepted
    BY DEF ReconcileRaw, AfterReconcile, LostCollection, Returned, ResumeAt, IInv, StepOfCall
  <2>1. CASE managerAt' \in {"idle", "persist manager"}
    BY <2>0, <2>1 DEF Recording
  <2>2. CASE memory.loaded /\ managerAt' = "reconcile conversions"
    BY <2>0, <2>2 DEF Recording
  <2>3. ASSUME NEW r \in accepted, memory.loaded, NextRollout(memory, r), target' = r,
               managerAt' = "remember raw"
        PROVE  Recording'
    <3>0. NextRollout(memory, r)
      BY <2>3
    <3>1. r \in Rollout /\ r \in Nat /\ memory.start \in Nat
      BY WindowTypes DEF IInv, TypeOK, QueueOK, Rollout
    <3>2. Absent(memory, r)
      BY <3>0, <3>1 DEF NextRollout, Retained, Absent
    <3>3. r >= memory.start
      <4>1. CASE Retained(memory) = {}
        BY <3>0, <3>1, <4>1 DEF NextRollout
      <4>2. CASE Retained(memory) # {}
        <5>1. r - 1 \in Rollout /\ ~Absent(memory, r - 1)
          BY <2>3, <4>2 DEF NextRollout, Retained, Absent
        <5>2. memory.start <= r - 1
          BY <5>1 DEF IInv, WindowsFormed, Formed
        <5> QED
          BY <3>1, <5>2
      <4> QED
        BY <4>1, <4>2
    <3> QED
      BY <2>0, <2>3, <3>1, <3>2, <3>3 DEF Recording, Absent, Alive
  <2> QED
    <3>1. CASE ~memory.loaded /\ AfterReconcile
      BY <2>1, <3>1 DEF AfterReconcile, Returned
    <3>2. CASE memory.loaded /\ Goto("reconcile conversions")
      BY <2>2, <3>2
    <3> QED
      BY <2>3, <3>1, <3>2 DEF ReconcileRaw, LostCollection
<1>5. Reconciled'
  <2>0. /\ managerAt = "reconcile collection" /\ call \in {"init", "attach"}
        /\ call' = call /\ memory' = memory /\ ready' = ready /\ session' = session
        /\ ~DriverSynced /\ driverAt # "register"
    BY DEF ReconcileRaw, AfterReconcile, LostCollection, Returned, ResumeAt, IInv, StepOfCall,
       OneCall
  <2>1. CASE driverAt' = driverAt
    BY <2>0, <2>1 DEF Reconciled, DriverSynced, ReconcileRaw, AfterReconcile, LostCollection,
       Returned, ResumeAt
  <2>2. CASE driverAt' # driverAt
    <3>1. ~memory.loaded /\ driverAt' = "register" /\ managerAt' = "idle"
      BY <2>0, <2>2 DEF ReconcileRaw, AfterReconcile, LostCollection, Returned, ResumeAt
    <3>2. LostConversions' = {}
      BY <2>0, <3>1 DEF IInv, WindowsFormed, Formed, Absent, LostConversions, TypeOK, QueueOK
    <3> QED
      BY <3>1, <3>2 DEF Reconciled, DriverSynced
  <2> QED
    BY <2>1, <2>2
<1>6. ReadyAccepted'
  BY DEF ReconcileRaw, AfterReconcile, LostCollection, Returned, ResumeAt, IInv, ReadyAccepted
<1>7. Progress' /\ Waiting'
  BY DEF ReconcileRaw, AfterReconcile, LostCollection, Returned, ResumeAt, IInv, Progress,
     Alive, DriverSynced, ColdStart, Waiting, OneCall, StepOfCall
<1> QED
  BY <1>1, <1>2, <1>3, <1>4, <1>5, <1>6, <1>7 DEF IInv

(* A conversion that was committed but not recorded is found. *)
LEMMA ReconcileConvertedStep == IInv /\ ReconcileConverted => IInv'
<1> SUFFICES ASSUME IInv, ReconcileConverted PROVE IInv'
  OBVIOUS
<1>1. TypeOK'
  <2>1. ServingOK' /\ QueueOK' /\ DiskOK' /\ WindowOK' /\ DriverOK'
    BY DEF ReconcileConverted, AfterReconcile, LostConversions, Returned, ResumeAt, IInv,
       TypeOK, ServingOK, QueueOK, DiskOK, WindowOK, DriverOK, DriverAt, StepOfCall
  <2>2. ManagerOK'
    <3>1. target' \in Boundary
      BY RolloutInBoundary DEF ReconcileConverted, AfterReconcile, LostConversions,
         Returned, ResumeAt, IInv, TypeOK, QueueOK, ManagerOK
    <3>2. managerAt' \in {"idle", "persist manager", "retain converted"}
      BY DEF ReconcileConverted, AfterReconcile, LostConversions, Returned, ResumeAt, IInv,
         StepOfCall
    <3>3. {"idle", "persist manager", "retain converted"} \subseteq ManagerAt
      BY DEF ManagerAt
    <3> QED
      BY <3>1, <3>2, <3>3 DEF ReconcileConverted, AfterReconcile, LostConversions, Returned,
         ResumeAt, IInv, TypeOK, ManagerOK, Calls
  <2> QED
    BY <2>1, <2>2 DEF TypeOK
<1>2. MemorySound' /\ JournalSound' /\ WindowsFormed' /\ Unjournalled'
  BY DEF ReconcileConverted, AfterReconcile, LostConversions, Returned, ResumeAt, IInv,
     MemorySound, Alive, Current, Sound, Readable, JournalSound, WindowsFormed, Formed, Absent,
     Unjournalled
<1>3. FirstManager' /\ JournalSynced' /\ OneCall' /\ StepOfCall'
  BY DEF ReconcileConverted, AfterReconcile, LostConversions, Returned, ResumeAt, IInv,
     FirstManager, FirstAttempt, Current, JournalSynced, Synced, ManagerSynced, DriverSynced,
     Alive, OneCall, StepOfCall
<1>4. Recording'
  <2>1. /\ managerAt = "reconcile conversions" /\ call \in {"init", "attach"} /\ memory.loaded
        /\ UNCHANGED <<call, memory>>
    BY DEF ReconcileConverted, IInv, StepOfCall, Recording
  <2>2. CASE AfterReconcile
    <3>1. managerAt' \in {"idle", "persist manager"}
      BY <2>2 DEF AfterReconcile, Returned
    <3> QED
      BY <2>1, <3>1 DEF Recording
  <2>3. ASSUME NEW r \in LostConversions, target' = r, managerAt' = "retain converted"
        PROVE  Recording'
    <3>1. r \in Rollout /\ memory.batches[r] = "raw"
      BY DEF LostConversions, IInv, TypeOK, QueueOK
    <3> QED
      BY <2>1, <2>3, <3>1 DEF Recording
  <2> QED
    BY <2>2, <2>3 DEF ReconcileConverted
<1>5. Reconciled'
  BY DEF ReconcileConverted, AfterReconcile, LostConversions, Returned, ResumeAt, IInv,
     Reconciled, Alive, Current, DriverSynced, OneCall, StepOfCall
<1>6. ReadyAccepted'
  BY DEF ReconcileConverted, AfterReconcile, LostConversions, Returned, ResumeAt, IInv,
     ReadyAccepted
<1>7. Progress' /\ Waiting'
  BY DEF ReconcileConverted, AfterReconcile, LostConversions, Returned, ResumeAt, IInv,
     Progress, Alive, DriverSynced, ColdStart, Waiting, OneCall, StepOfCall
<1> QED
  BY <1>1, <1>2, <1>3, <1>4, <1>5, <1>6, <1>7 DEF IInv

(* A batch enters the window: the queue holds it, so it can be read. *)
LEMMA RememberRawStep == IInv /\ RememberRaw => IInv'
<1> SUFFICES ASSUME IInv, RememberRaw PROVE IInv'
  OBVIOUS
<1>1. TypeOK'
  <2>1. ServingOK' /\ QueueOK' /\ DiskOK'
    BY DEF RememberRaw, IInv, TypeOK, ServingOK, QueueOK, DiskOK
  <2>2. ManagerOK' /\ WindowOK'
    BY DEF RememberRaw, IInv, TypeOK, ManagerOK, WindowOK, ManagerAt, Calls, Memory, Batch
  <2>3. DriverOK'
    BY DEF RememberRaw, IInv, TypeOK, DriverOK, DriverAt
  <2> QED
    BY <2>1, <2>2, <2>3 DEF TypeOK
<1>2. MemorySound'
  <2>1. /\ memory'.incarnation = memory.incarnation /\ memory'.origin = memory.origin
        /\ memory'.start = memory.start /\ memory'.loaded = memory.loaded
        /\ memory'.batches = [memory.batches EXCEPT ![target] = "raw"]
    BY DEF RememberRaw, IInv, TypeOK, WindowOK, Memory
  <2>2. memory.batches \in [Rollout -> Batch] /\ memory.start \in Nat /\ memory.loaded
    BY WindowTypes DEF RememberRaw, IInv, Recording
  <2>3. /\ target \in Rollout /\ target \in accepted /\ target >= memory.start
        /\ Absent(memory, target) /\ Alive
    BY DEF RememberRaw, IInv, Recording, Alive
  <2>4. UNCHANGED <<pins, accepted, finished, committed, session>>
    BY DEF RememberRaw
  <2>5. \A r \in Rollout : /\ RawPin(memory', r) = RawPin(memory, r)
                          /\ BothPins(memory', r) = BothPins(memory, r)
    BY <2>1 DEF RawPin, BothPins
  <2> SUFFICES ASSUME Sound(memory) PROVE Sound(memory)'
    BY <2>1, <2>3, <2>4 DEF IInv, MemorySound, Current
  <2>6. target \notin finished
    BY <2>2, <2>3 DEF Sound, Absent, Rollout
  <2>7. Readable(memory)'
    BY <2>1, <2>2, <2>3, <2>4, <2>5, <2>6 DEF Sound, Readable
  <2> QED
    BY <2>1, <2>2, <2>3, <2>4, <2>6, <2>7 DEF Sound, Absent
<1>3. JournalSound' /\ Unjournalled'
  BY DEF RememberRaw, IInv, JournalSound, Current, Sound, Readable, Unjournalled
<1>4. WindowsFormed'
  <2>1. /\ memory'.origin = memory.origin /\ memory'.start = memory.start
        /\ memory'.loaded = memory.loaded
        /\ memory'.batches = [memory.batches EXCEPT ![target] = "raw"]
    BY DEF RememberRaw, IInv, TypeOK, WindowOK, Memory
  <2>2. UNCHANGED <<committed, session, journal>> /\ memory.loaded
    BY DEF RememberRaw, IInv, Recording
  <2>3. memory.batches \in [Rollout -> Batch] /\ target \in Rollout /\ memory.start <= target
    BY WindowTypes DEF RememberRaw, IInv, Recording, WindowsFormed, Formed, Absent
  <2>4. Formed(memory)'
    BY <2>1, <2>2, <2>3 DEF IInv, WindowsFormed, Formed, Absent
  <2>5. Formed(journal)'
    BY <2>2 DEF IInv, WindowsFormed, Formed, Absent
  <2> QED
    BY <2>4, <2>5 DEF WindowsFormed
<1>5. FirstManager' /\ JournalSynced' /\ OneCall' /\ StepOfCall'
  BY DEF RememberRaw, IInv, FirstManager, FirstAttempt, Current, JournalSynced, Synced,
     ManagerSynced, DriverSynced, Alive, OneCall, StepOfCall
<1>6. Recording'
  BY NumRolloutsAssumption DEF RememberRaw, IInv, Recording, Absent, Retained, ColdStart,
     OneCall, StepOfCall, Alive, DriverSynced, TypeOK, MemorySound, Memory, Rollout, Boundary,
     Batch, Data, ManagerAt, Calls, DriverAt, ServingOK, QueueOK, DiskOK, ManagerOK, WindowOK,
     DriverOK
<1>7. Reconciled'
  <2>1. /\ memory'.origin = memory.origin
        /\ memory'.batches = [memory.batches EXCEPT ![target] = "raw"]
        /\ memory.batches \in [Rollout -> Batch] /\ target \in Rollout /\ ready \subseteq Rollout
    BY DEF RememberRaw, IInv, TypeOK, WindowOK, QueueOK, Memory, Recording
  <2>2. /\ managerAt = "remember raw" /\ managerAt' = "retain raw"
        /\ UNCHANGED <<call, driverAt, session, ready>>
    BY DEF RememberRaw
  <2>3. ~DriverSynced /\ driverAt # "register" /\ call \in {"init", "attach", "generate"}
    BY <2>2 DEF IInv, OneCall, StepOfCall
  <2>4. call = "generate" => target \notin ready
    BY <2>2 DEF IInv, Recording
  <2>5. target \notin ready => LostConversions' = LostConversions
    BY <2>1, <2>2 DEF LostConversions
  <2>6. Current(memory)' /\ call = "generate" => LostConversions = {}
    BY <2>1, <2>2 DEF IInv, Reconciled, Current, Alive
  <2> QED
    BY <2>2, <2>3, <2>4, <2>5, <2>6 DEF Reconciled, DriverSynced
<1>8. ReadyAccepted'
  BY DEF RememberRaw, IInv, ReadyAccepted
<1>9. Progress'
  BY DEF RememberRaw, IInv, Progress, Alive, DriverSynced, ColdStart, OneCall, StepOfCall
<1>10. Waiting'
  BY NumRolloutsAssumption DEF RememberRaw, IInv, Waiting, ColdStart, OneCall, StepOfCall,
     Alive, DriverSynced, TypeOK, Recording, Progress, Rollout, Boundary, Memory, WindowsFormed,
     Formed, ServingOK, QueueOK, DiskOK, ManagerOK, WindowOK, DriverOK
<1> QED
  BY <1>1, <1>2, <1>3, <1>4, <1>5, <1>6, <1>7, <1>8, <1>9, <1>10 DEF IInv

(* The raw data of the batch is pinned. *)
LEMMA RetainRawStep == IInv /\ RetainRaw => IInv'
<1> SUFFICES ASSUME IInv, RetainRaw PROVE IInv'
  OBVIOUS
<1>1. TypeOK'
  <2>1. ServingOK' /\ QueueOK' /\ ManagerOK' /\ WindowOK' /\ DriverOK'
    BY DEF RetainRaw, IInv, TypeOK, ServingOK, QueueOK, ManagerOK, WindowOK, DriverOK,
       ManagerAt, Calls, DriverAt
  <2>2. DiskOK'
    <3>1. RawPin(memory, target) \in Nat \X Rollout \X Data
      <4>1. memory.incarnation \in Nat /\ target \in Rollout
        BY DEF RetainRaw, IInv, TypeOK, WindowOK, Memory, Recording
      <4> QED
        BY <4>1 DEF RawPin, Data
    <3> QED
      BY <3>1 DEF RetainRaw, IInv, TypeOK, DiskOK
  <2> QED
    BY <2>1, <2>2 DEF TypeOK
<1>2. MemorySound' /\ JournalSound' /\ WindowsFormed' /\ Unjournalled'
  BY DEF RetainRaw, IInv, MemorySound, Alive, Current, Sound, Readable, JournalSound,
     WindowsFormed, Formed, Absent, Unjournalled
<1>3. FirstManager' /\ JournalSynced' /\ OneCall' /\ StepOfCall'
  BY DEF RetainRaw, IInv, FirstManager, FirstAttempt, Current, JournalSynced, Synced,
     ManagerSynced, DriverSynced, Alive, OneCall, StepOfCall
<1>4. Recording' /\ Reconciled' /\ ReadyAccepted'
  BY DEF RetainRaw, IInv, Recording, Absent, Retained, ColdStart, Reconciled, Alive, Current,
     DriverSynced, LostConversions, ReadyAccepted
<1>5. Progress' /\ Waiting'
  BY DEF RetainRaw, IInv, Progress, Alive, DriverSynced, ColdStart, Waiting
<1> QED
  BY <1>1, <1>2, <1>3, <1>4, <1>5 DEF IInv

(* The journal now lists the batch. *)
LEMMA PersistRawStep == IInv /\ PersistRaw => IInv'
<1> SUFFICES ASSUME IInv, PersistRaw PROVE IInv'
  OBVIOUS
<1>1. TypeOK'
  BY DEF PersistRaw, IInv, TypeOK, ServingOK, QueueOK, DiskOK, ManagerOK, WindowOK, DriverOK,
     ManagerAt, Calls, DriverAt
<1>2. MemorySound' /\ JournalSound' /\ WindowsFormed' /\ Unjournalled'
  BY DEF PersistRaw, IInv, MemorySound, Alive, Current, Sound, Readable, JournalSound,
     WindowsFormed, Formed, Absent, Unjournalled
<1>3. FirstManager' /\ JournalSynced' /\ OneCall' /\ StepOfCall'
  BY DEF PersistRaw, IInv, FirstManager, FirstAttempt, Current, JournalSynced, Synced,
     ManagerSynced, DriverSynced, Alive, OneCall, StepOfCall
<1>4. Recording' /\ Reconciled' /\ ReadyAccepted'
  BY DEF PersistRaw, IInv, Recording, Absent, Retained, ColdStart, Reconciled, Alive, Current,
     DriverSynced, LostConversions, ReadyAccepted
<1>5. Progress' /\ Waiting'
  BY DEF PersistRaw, IInv, Progress, Alive, DriverSynced, ColdStart, Waiting
<1> QED
  BY <1>1, <1>2, <1>3, <1>4, <1>5 DEF IInv

(* A conversion is pinned, then entered in the window. *)
LEMMA RetainConvertedStep == IInv /\ RetainConverted => IInv'
<1> SUFFICES ASSUME IInv, RetainConverted PROVE IInv'
  OBVIOUS
<1>1. TypeOK'
  <2>1. ServingOK' /\ QueueOK' /\ ManagerOK' /\ WindowOK' /\ DriverOK'
    BY DEF RetainConverted, IInv, TypeOK, ServingOK, QueueOK, ManagerOK, WindowOK, DriverOK,
       ManagerAt, Calls, Memory, Batch, DriverAt
  <2>2. DiskOK'
    <3>1. BothPins(memory, target) \subseteq Nat \X Rollout \X Data
      <4>1. memory.incarnation \in Nat /\ target \in Rollout
        BY DEF RetainConverted, IInv, TypeOK, WindowOK, Memory, Recording
      <4> QED
        BY <4>1 DEF BothPins, RawPin, Data
    <3>2. pins' = pins \cup BothPins(memory, target) /\ UNCHANGED <<journal, journalExists, committed>>
      BY DEF RetainConverted
    <3> QED
      BY <3>1, <3>2 DEF IInv, TypeOK, DiskOK
  <2> QED
    BY <2>1, <2>2 DEF TypeOK
<1>2. MemorySound'
  <2>1. /\ memory'.incarnation = memory.incarnation /\ memory'.origin = memory.origin
        /\ memory'.start = memory.start /\ memory'.loaded = memory.loaded
        /\ memory'.batches = [memory.batches EXCEPT ![target] = "converted"]
    BY DEF RetainConverted, IInv, TypeOK, WindowOK, Memory
  <2>2. memory.batches \in [Rollout -> Batch] /\ target \in Rollout /\ Alive /\ memory.loaded
    BY WindowTypes DEF RetainConverted, IInv, Recording, Alive
  <2>3. pins' = pins \cup BothPins(memory, target)
    BY DEF RetainConverted
  <2>4. UNCHANGED <<accepted, finished, committed, session>>
    BY DEF RetainConverted
  <2>5. \A r \in Rollout : /\ RawPin(memory', r) = RawPin(memory, r)
                          /\ BothPins(memory', r) = BothPins(memory, r)
    BY <2>1 DEF RawPin, BothPins
  <2> SUFFICES ASSUME Sound(memory) PROVE Sound(memory)'
    BY <2>1, <2>2, <2>4 DEF IInv, MemorySound, Current
  <2>6. Readable(memory)'
    BY <2>1, <2>2, <2>3, <2>4, <2>5 DEF Sound, Readable
  <2> QED
    BY <2>1, <2>2, <2>4, <2>6 DEF Sound
<1>3. JournalSound' /\ Unjournalled'
  BY DEF RetainConverted, IInv, JournalSound, Current, Sound, Readable, Unjournalled
<1>4. WindowsFormed'
  <2>1. /\ memory'.origin = memory.origin /\ memory'.start = memory.start
        /\ memory'.loaded = memory.loaded
        /\ memory'.batches = [memory.batches EXCEPT ![target] = "converted"]
    BY DEF RetainConverted, IInv, TypeOK, WindowOK, Memory
  <2>2. UNCHANGED <<committed, session, journal>> /\ memory.loaded
    BY DEF RetainConverted, IInv, Recording
  <2>3. memory.batches \in [Rollout -> Batch] /\ target \in Rollout /\ memory.start <= target
    BY WindowTypes DEF RetainConverted, IInv, Recording, WindowsFormed, Formed, Absent
  <2>4. Formed(memory)'
    BY <2>1, <2>2, <2>3 DEF IInv, WindowsFormed, Formed, Absent
  <2>5. Formed(journal)'
    BY <2>2 DEF IInv, WindowsFormed, Formed, Absent
  <2> QED
    BY <2>4, <2>5 DEF WindowsFormed
<1>5. FirstManager' /\ JournalSynced' /\ OneCall' /\ StepOfCall'
  BY DEF RetainConverted, IInv, FirstManager, FirstAttempt, Current, JournalSynced, Synced,
     ManagerSynced, DriverSynced, Alive, OneCall, StepOfCall
<1>6. Recording'
  BY NumRolloutsAssumption DEF RetainConverted, IInv, Recording, Absent, Retained, ColdStart,
     OneCall, StepOfCall, Alive, DriverSynced, TypeOK, MemorySound, Memory, Rollout, Boundary,
     Batch, Data, ManagerAt, Calls, DriverAt, ServingOK, QueueOK, DiskOK, ManagerOK, WindowOK,
     DriverOK
<1>7. Reconciled'
  <2>1. /\ memory'.origin = memory.origin
        /\ memory'.batches = [memory.batches EXCEPT ![target] = "converted"]
        /\ memory.batches \in [Rollout -> Batch] /\ target \in Rollout /\ ready \subseteq Rollout
    BY DEF RetainConverted, IInv, TypeOK, WindowOK, QueueOK, Memory, Recording
  <2>2. /\ managerAt = "retain converted" /\ managerAt' = "persist converted"
        /\ UNCHANGED <<call, driverAt, session, ready>>
    BY DEF RetainConverted
  <2>3. ~DriverSynced /\ driverAt # "register" /\ call \in {"init", "attach", "generate"}
    BY <2>2 DEF IInv, OneCall, StepOfCall
  <2>4. LostConversions \subseteq {target} => LostConversions' = {}
    BY <2>1, <2>2 DEF LostConversions
  <2>5. Current(memory)' /\ call = "generate" => LostConversions \subseteq {target}
    BY <2>1, <2>2 DEF IInv, Reconciled, Current, Alive
  <2> QED
    BY <2>2, <2>3, <2>4, <2>5 DEF Reconciled, DriverSynced
<1>8. ReadyAccepted'
  BY DEF RetainConverted, IInv, ReadyAccepted
<1>9. Progress'
  BY DEF RetainConverted, IInv, Progress, Alive, DriverSynced, ColdStart, OneCall, StepOfCall
<1>10. Waiting'
  BY NumRolloutsAssumption DEF RetainConverted, IInv, Waiting, ColdStart, OneCall, StepOfCall,
     Alive, DriverSynced, TypeOK, Recording, Progress, Rollout, Boundary, Memory, WindowsFormed,
     Formed, ServingOK, QueueOK, DiskOK, ManagerOK, WindowOK, DriverOK
<1> QED
  BY <1>1, <1>2, <1>3, <1>4, <1>5, <1>6, <1>7, <1>8, <1>9, <1>10 DEF IInv

(* The journal now lists the conversion. *)
LEMMA PersistConvertedStep == IInv /\ PersistConverted => IInv'
<1> SUFFICES ASSUME IInv, PersistConverted PROVE IInv'
  OBVIOUS
<1>1. TypeOK'
  <2>1. ServingOK' /\ QueueOK' /\ DiskOK'
    BY DEF PersistConverted, Returned, ResumeAt, IInv, TypeOK, ServingOK, QueueOK, DiskOK,
       WindowOK
  <2>2. ManagerOK' /\ WindowOK'
    BY DEF PersistConverted, Returned, ResumeAt, IInv, TypeOK, ManagerOK, WindowOK, ManagerAt,
       Calls
  <2>3. DriverOK'
    BY DEF PersistConverted, Returned, ResumeAt, IInv, TypeOK, DriverOK, DriverAt, StepOfCall
  <2> QED
    BY <2>1, <2>2, <2>3 DEF TypeOK
<1>2. MemorySound' /\ JournalSound' /\ WindowsFormed' /\ Unjournalled'
  BY DEF PersistConverted, Returned, ResumeAt, IInv, MemorySound, Alive, Current, Sound,
     Readable, JournalSound, WindowsFormed, Formed, Absent, Unjournalled
<1>3. FirstManager' /\ JournalSynced' /\ OneCall' /\ StepOfCall'
  BY DEF PersistConverted, Returned, ResumeAt, IInv, FirstManager, FirstAttempt, Current,
     JournalSynced, Synced, ManagerSynced, DriverSynced, Alive, OneCall, StepOfCall
<1>4. Recording' /\ ReadyAccepted'
  BY DEF PersistConverted, Returned, ResumeAt, IInv, Recording, Absent, Retained, ColdStart,
     ReadyAccepted
<1>5. Reconciled'
  <2>1. /\ managerAt = "persist converted" /\ UNCHANGED <<call, memory, ready, session, rollout, target>>
    BY DEF PersistConverted, Returned, ResumeAt
  <2>2. ~DriverSynced /\ driverAt # "register" /\ call \in {"init", "attach", "generate"}
    BY <2>1 DEF IInv, OneCall, StepOfCall
  <2>3. CASE call # "generate"
    BY <2>1, <2>2, <2>3 DEF PersistConverted, Reconciled, DriverSynced
  <2>4. CASE call = "generate"
    <3>1. managerAt' = "idle"
      BY <2>4 DEF PersistConverted, Returned
    <3>2. Current(memory)' => LostConversions' = {}
      BY <2>1, <2>4 DEF IInv, Reconciled, Current, Alive, LostConversions
    <3>3. driverAt' = "train" => memory.batches[rollout] = "converted"
      <4>1. driverAt' = "train" => driverAt = "waiting"
        BY <2>2 DEF PersistConverted, Returned, DriverSynced
      <4>2. driverAt = "waiting" => target = rollout
        BY <2>4 DEF IInv, Waiting
      <4>3. memory.batches[target] = "converted"
        BY <2>1 DEF IInv, Recording
      <4> QED
        BY <4>1, <4>2, <4>3
    <3> QED
      BY <2>1, <3>1, <3>2, <3>3 DEF Reconciled
  <2> QED
    BY <2>3, <2>4
<1>6. Progress' /\ Waiting'
  BY DEF PersistConverted, Returned, ResumeAt, IInv, Progress, Alive, DriverSynced, ColdStart,
     Waiting
<1> QED
  BY <1>1, <1>2, <1>3, <1>4, <1>5, <1>6 DEF IInv

(* A commit the window does not know of is found. *)
LEMMA ReconcileCheckpointStep == IInv /\ ReconcileCheckpoint => IInv'
<1> SUFFICES ASSUME IInv, ReconcileCheckpoint PROVE IInv'
  OBVIOUS
<1>1. TypeOK'
  <2>1. ServingOK' /\ QueueOK' /\ DiskOK' /\ WindowOK' /\ DriverOK'
    BY DEF ReconcileCheckpoint, UnknownCommit, IInv, TypeOK, ServingOK, QueueOK, DiskOK,
       WindowOK, DriverOK, DriverAt
  <2>2. ManagerOK'
    <3>1. target' \in Boundary
      BY RolloutInBoundary DEF ReconcileCheckpoint, UnknownCommit, IInv, TypeOK, DiskOK, ManagerOK
    <3>2. managerAt' \in {"drop batches", "reconcile collection"}
      BY DEF ReconcileCheckpoint, UnknownCommit, IInv, StepOfCall
    <3>3. {"drop batches", "reconcile collection"} \subseteq ManagerAt
      BY DEF ManagerAt
    <3> QED
      BY <3>1, <3>2, <3>3 DEF ReconcileCheckpoint, UnknownCommit, IInv, TypeOK, ManagerOK, Calls
  <2> QED
    BY <2>1, <2>2 DEF TypeOK
<1>2. MemorySound' /\ JournalSound' /\ WindowsFormed' /\ Unjournalled'
  BY DEF ReconcileCheckpoint, UnknownCommit, IInv, MemorySound, Alive, Current, Sound, Readable,
     JournalSound, WindowsFormed, Formed, Absent, Unjournalled
<1>3. FirstManager' /\ JournalSynced' /\ OneCall' /\ StepOfCall'
  BY DEF ReconcileCheckpoint, UnknownCommit, IInv, FirstManager, FirstAttempt, Current,
     JournalSynced, Synced, ManagerSynced, DriverSynced, Alive, OneCall, StepOfCall
<1>4. Recording'
  <2>1. call = "attach" /\ UNCHANGED <<call, memory, committed>>
    BY DEF ReconcileCheckpoint, IInv, StepOfCall
  <2>2. CASE managerAt' = "reconcile collection"
    BY <2>1, <2>2 DEF Recording
  <2>3. ASSUME NEW c \in committed, UnknownCommit(c), target' = c, managerAt' = "drop batches"
        PROVE  Recording'
    <3>1. c \in Rollout /\ c >= memory.start /\ memory.loaded
      BY <2>3 DEF UnknownCommit, IInv, TypeOK, DiskOK
    <3> QED
      BY <2>1, <2>3, <3>1 DEF Recording
  <2> QED
    BY <2>2, <2>3 DEF ReconcileCheckpoint
<1>5. Reconciled'
  BY DEF ReconcileCheckpoint, UnknownCommit, IInv, Reconciled, Alive, Current, DriverSynced,
     LostConversions
<1>6. ReadyAccepted'
  BY DEF ReconcileCheckpoint, UnknownCommit, IInv, ReadyAccepted
<1>7. Progress' /\ Waiting'
  BY DEF ReconcileCheckpoint, UnknownCommit, IInv, Progress, Alive, DriverSynced, ColdStart,
     Waiting, OneCall, StepOfCall
<1> QED
  BY <1>1, <1>2, <1>3, <1>4, <1>5, <1>6, <1>7 DEF IInv

(* The window moves past a commit; the storage is still pinned. *)
LEMMA DropBatchesStep == IInv /\ DropBatches => IInv'
<1> SUFFICES ASSUME IInv, DropBatches PROVE IInv'
  OBVIOUS
<1>1. TypeOK'
  <2>1. ServingOK' /\ QueueOK' /\ DiskOK'
    BY DEF DropBatches, Shrunk, IInv, TypeOK, ServingOK, QueueOK, DiskOK
  <2>2. ManagerOK' /\ DriverOK'
    BY DEF DropBatches, Shrunk, IInv, TypeOK, ManagerOK, DriverOK, ManagerAt, Calls, DriverAt
  <2>3. WindowOK'
    <3>1. /\ memory'.incarnation = memory.incarnation /\ memory'.origin = memory.origin
          /\ memory'.start = target + 1 /\ memory'.loaded = memory.loaded
          /\ memory'.batches = [r \in Rollout |-> IF r <= target THEN "absent" ELSE memory.batches[r]]
      BY DEF DropBatches, Shrunk, BoundaryAfter, Covered, IInv, TypeOK, WindowOK, Memory
    <3>2. target + 1 \in Boundary /\ Rollout \subseteq Int
      <4>1. target \in Rollout
        BY DEF DropBatches, Shrunk, IInv, Recording
      <4> QED
        BY <4>1, RolloutNat
    <3>3. memory' = [memory EXCEPT !.start = memory'.start, !.batches = memory'.batches]
      BY <3>1 DEF DropBatches, Shrunk, BoundaryAfter, Covered
    <3>4. memory'.batches \in [Rollout -> Batch]
      BY <3>1, WindowTypes DEF Batch
    <3>5. memory' \in Memory
      BY <3>1, <3>2, <3>3, <3>4 DEF IInv, TypeOK, WindowOK, Memory
    <3> QED
      BY <3>5 DEF DropBatches, Shrunk, Retained, WindowOK
  <2> QED
    BY <2>1, <2>2, <2>3 DEF TypeOK
<1>2. MemorySound'
  <2>1. /\ memory'.incarnation = memory.incarnation /\ memory'.origin = memory.origin
        /\ memory'.start = target + 1 /\ memory'.loaded = memory.loaded
        /\ memory'.batches = [r \in Rollout |-> IF r <= target THEN "absent" ELSE memory.batches[r]]
    BY DEF DropBatches, Shrunk, BoundaryAfter, Covered, IInv, TypeOK, WindowOK, Memory
  <2>2. /\ target \in Rollout /\ target >= memory.start /\ Alive /\ memory.loaded
        /\ finished \subseteq Rollout
    BY DEF DropBatches, Shrunk, IInv, Recording, Alive, TypeOK, QueueOK
  <2>3. UNCHANGED <<pins, accepted, finished, committed, session>>
    BY DEF DropBatches, Shrunk
  <2>4. \A r \in Rollout : /\ RawPin(memory', r) = RawPin(memory, r)
                          /\ BothPins(memory', r) = BothPins(memory, r)
    BY <2>1 DEF RawPin, BothPins
  <2> SUFFICES ASSUME Sound(memory) PROVE Sound(memory)'
    BY <2>1, <2>2, <2>3 DEF IInv, MemorySound, Current
  <2>5. Readable(memory)'
    BY <2>1, <2>3, <2>4 DEF Sound, Readable
  <2>6. ASSUME NEW r \in finished PROVE r < memory'.start \/ memory'.batches[r] = "converted"
    <3>1. r < memory.start \/ memory.batches[r] = "converted"
      BY <2>2 DEF Sound
    <3>2. r \in Rollout /\ r \in Int /\ target \in Int /\ memory.start \in Int
      BY <2>2, WindowTypes, RolloutNat
    <3> QED
      BY <2>1, <2>2, <3>1, <3>2
  <2> QED
    BY <2>1, <2>2, <2>3, <2>5, <2>6 DEF Sound
<1>3. JournalSound' /\ Unjournalled'
  BY DEF DropBatches, Shrunk, BoundaryAfter, Covered, IInv, JournalSound, Current, Sound,
     Readable, Unjournalled
<1>4. WindowsFormed'
  <2>1. /\ memory'.incarnation = memory.incarnation /\ memory'.origin = memory.origin
        /\ memory'.start = target + 1 /\ memory'.loaded = memory.loaded
        /\ memory'.batches = [r \in Rollout |-> IF r <= target THEN "absent" ELSE memory.batches[r]]
    BY DEF DropBatches, Shrunk, BoundaryAfter, Covered, IInv, TypeOK, WindowOK, Memory
  <2>2. target \in Rollout /\ target \in committed /\ memory.loaded /\ Rollout \subseteq Nat
    BY RolloutNat DEF DropBatches, Shrunk, IInv, Recording
  <2>3. UNCHANGED <<committed, session, journal>>
    BY DEF DropBatches, Shrunk
  <2>4. memory'.start - 1 \in committed
    <3>1. target \in Nat /\ target \in committed
      BY <2>2
    <3>2. memory'.start = target + 1
      BY <2>1
    <3>3. memory'.start - 1 = target
      BY <3>1, <3>2
    <3> QED
      BY <3>1, <3>3
  <2>5. \A r \in Rollout : memory'.batches[r] = "absent" \/ memory'.start <= r
    BY <2>1, <2>2
  <2>6. Formed(memory)'
    BY <2>1, <2>2, <2>3, <2>4, <2>5 DEF IInv, WindowsFormed, Formed, Absent
  <2>7. Formed(journal)'
    BY <2>3 DEF IInv, WindowsFormed, Formed, Absent
  <2> QED
    BY <2>6, <2>7 DEF WindowsFormed
<1>5. FirstManager' /\ JournalSynced' /\ OneCall' /\ StepOfCall'
  BY DEF DropBatches, Shrunk, BoundaryAfter, Covered, IInv, FirstManager, FirstAttempt, Current,
     JournalSynced, Synced, ManagerSynced, DriverSynced, Alive, OneCall, StepOfCall
<1>6. Recording'
  <2>1. /\ memory'.incarnation = memory.incarnation /\ memory'.origin = memory.origin
        /\ memory'.start = target + 1 /\ memory'.loaded = memory.loaded
        /\ memory'.batches = [r \in Rollout |-> IF r <= target THEN "absent" ELSE memory.batches[r]]
    BY DEF DropBatches, Shrunk, BoundaryAfter, Covered, IInv, TypeOK, WindowOK, Memory
  <2>2. released' \cap Retained(memory)' = {}
    BY <2>1 DEF DropBatches, Shrunk, Covered, Retained
  <2>3. managerAt' = "persist boundary" /\ call \in {"attach", "commit"} /\ memory.loaded /\ call' = call
    BY DEF DropBatches, Shrunk, IInv, StepOfCall, Recording
  <2> QED
    BY <2>1, <2>2, <2>3 DEF Recording
<1>7. Reconciled'
  <2>1. /\ memory'.incarnation = memory.incarnation /\ memory'.origin = memory.origin
        /\ memory'.start = target + 1 /\ memory'.loaded = memory.loaded
        /\ memory'.batches = [r \in Rollout |-> IF r <= target THEN "absent" ELSE memory.batches[r]]
    BY DEF DropBatches, Shrunk, BoundaryAfter, Covered, IInv, TypeOK, WindowOK, Memory
  <2>2. /\ managerAt = "drop batches" /\ managerAt' = "persist boundary" /\ UNCHANGED <<call, ready, session, driverAt>>
        /\ call \in {"attach", "commit"} /\ ~DriverSynced /\ driverAt # "register" /\ ready \subseteq Rollout
    BY DEF DropBatches, Shrunk, BoundaryAfter, Covered, IInv, StepOfCall, OneCall, TypeOK, QueueOK
  <2>3. LostConversions' \subseteq LostConversions
    BY <2>1, <2>2 DEF LostConversions
  <2>4. Current(memory)' /\ call = "commit" => LostConversions = {}
    BY <2>1, <2>2 DEF IInv, Reconciled, Current, Alive
  <2> QED
    BY <2>2, <2>3, <2>4 DEF Reconciled, DriverSynced
<1>8. ReadyAccepted'
  BY DEF DropBatches, Shrunk, BoundaryAfter, Covered, IInv, ReadyAccepted
<1>9. Progress'
  BY DEF DropBatches, Shrunk, BoundaryAfter, Covered, IInv, Progress, Alive, DriverSynced,
     ColdStart, OneCall, StepOfCall
<1>10. Waiting'
  BY NumRolloutsAssumption DEF DropBatches, Shrunk, BoundaryAfter, Covered, IInv, Waiting,
     ColdStart, OneCall, StepOfCall, Alive, DriverSynced, TypeOK, Recording, Progress, Rollout,
     Boundary, Memory, WindowsFormed, Formed, ServingOK, QueueOK, DiskOK, ManagerOK, WindowOK,
     DriverOK
<1> QED
  BY <1>1, <1>2, <1>3, <1>4, <1>5, <1>6, <1>7, <1>8, <1>9, <1>10 DEF IInv

(* The journal no longer lists what is about to be released. *)
LEMMA PersistBoundaryStep == IInv /\ PersistBoundary => IInv'
<1> SUFFICES ASSUME IInv, PersistBoundary PROVE IInv'
  OBVIOUS
<1>1. TypeOK'
  BY DEF PersistBoundary, IInv, TypeOK, ServingOK, QueueOK, DiskOK, ManagerOK, WindowOK,
     DriverOK, ManagerAt, Calls, DriverAt
<1>2. MemorySound' /\ JournalSound' /\ WindowsFormed' /\ Unjournalled'
  BY DEF PersistBoundary, IInv, MemorySound, Alive, Current, Sound, Readable, JournalSound,
     WindowsFormed, Formed, Absent, Unjournalled
<1>3. FirstManager' /\ JournalSynced' /\ OneCall' /\ StepOfCall'
  BY DEF PersistBoundary, IInv, FirstManager, FirstAttempt, Current, JournalSynced, Synced,
     ManagerSynced, DriverSynced, Alive, OneCall, StepOfCall
<1>4. Recording' /\ Reconciled' /\ ReadyAccepted'
  BY DEF PersistBoundary, IInv, Recording, Absent, Retained, ColdStart, Reconciled, Alive,
     Current, DriverSynced, LostConversions, ReadyAccepted
<1>5. Progress' /\ Waiting'
  BY DEF PersistBoundary, IInv, Progress, Alive, DriverSynced, ColdStart, Waiting
<1> QED
  BY <1>1, <1>2, <1>3, <1>4, <1>5 DEF IInv

(* Only batches that neither window lists are released. *)
LEMMA ReleaseStorageStep == IInv /\ ReleaseStorage => IInv'
<1> SUFFICES ASSUME IInv, ReleaseStorage PROVE IInv'
  OBVIOUS
<1>1. TypeOK'
  <2>1. ServingOK' /\ QueueOK' /\ DiskOK'
    BY DEF ReleaseStorage, Returned, ResumeAt, IInv, TypeOK, ServingOK, QueueOK, DiskOK
  <2>2. ManagerOK' /\ WindowOK'
    BY DEF ReleaseStorage, Returned, ResumeAt, IInv, TypeOK, ManagerOK, WindowOK, ManagerAt, Calls
  <2>3. DriverOK'
    BY DEF ReleaseStorage, Returned, ResumeAt, IInv, TypeOK, DriverOK, DriverAt, StepOfCall
  <2> QED
    BY <2>1, <2>2, <2>3 DEF TypeOK
<1>2. MemorySound'
  <2>1. /\ managerAt = "release storage" /\ pins' = pins \ PinsOf(memory, released)
        /\ UNCHANGED <<memory, accepted, finished, committed, session>>
    BY DEF ReleaseStorage, Returned, ResumeAt
  <2>2. \A r \in Rollout : ~Absent(memory, r) => r \notin released
    BY <2>1 DEF IInv, Recording, Retained, Absent
  <2>3. \A r \in Rollout \ released :
           /\ BothPins(memory, r) \cap PinsOf(memory, released) = {}
           /\ RawPin(memory, r) \notin PinsOf(memory, released)
    BY DEF PinsOf, BothPins, RawPin
  <2> SUFFICES ASSUME Sound(memory) PROVE Sound(memory)'
    BY <2>1 DEF IInv, MemorySound, Current, Alive
  <2>4. Readable(memory)'
    BY <2>1, <2>2, <2>3 DEF Sound, Readable, Absent
  <2> QED
    BY <2>1, <2>4 DEF Sound
<1>3. JournalSound'
  <2>1. /\ managerAt = "release storage" /\ journal = memory
        /\ UNCHANGED <<memory, journal, session>>
    BY DEF ReleaseStorage, Returned, ResumeAt, IInv, JournalSynced, ManagerSynced, Synced
  <2>2. managerAt' \in {"reconcile collection", "idle", "remove journal"}
    BY DEF ReleaseStorage, Returned
  <2> QED
    BY <1>2, <2>1, <2>2 DEF MemorySound, JournalSound, Alive, Current, Sound, Readable
<1>4. WindowsFormed' /\ Unjournalled'
  BY DEF ReleaseStorage, Returned, ResumeAt, IInv, WindowsFormed, Formed, Absent, Unjournalled
<1>5. FirstManager' /\ JournalSynced' /\ OneCall' /\ StepOfCall'
  BY DEF ReleaseStorage, Returned, ResumeAt, IInv, FirstManager, FirstAttempt, Current,
     JournalSynced, Synced, ManagerSynced, DriverSynced, Alive, OneCall, StepOfCall
<1>6. Recording' /\ Reconciled' /\ ReadyAccepted'
  BY DEF ReleaseStorage, Returned, ResumeAt, IInv, Recording, Absent, Retained, ColdStart,
     Reconciled, Alive, Current, DriverSynced, LostConversions, ReadyAccepted
<1>7. Progress'
  <2>1. /\ managerAt = "release storage" /\ UNCHANGED <<memory, rollout, call, committed>>
        /\ managerAt' # "dead" /\ memory.loaded /\ call \in {"attach", "commit", "dispose"}
    BY DEF ReleaseStorage, Returned, ResumeAt, IInv, StepOfCall, Recording
  <2>2. CASE driverAt' = driverAt
    <3>1. ~DriverSynced
      BY <2>1 DEF IInv, OneCall
    <3> QED
      BY <2>2, <3>1 DEF Progress, DriverSynced
  <2>3. CASE driverAt' # driverAt
    <3>1. driverAt = "waiting" /\ call = "commit" /\ driverAt' = "next"
      BY <2>1, <2>3 DEF ReleaseStorage, Returned, ResumeAt
    <3>2. memory.start = rollout + 1 /\ rollout < NumRollouts
      BY <2>1, <3>1 DEF IInv, Waiting
    <3>3. memory.start <= rollout + 1 /\ (rollout + 1 = NumRollouts => memory.start = NumRollouts)
      BY <3>2, WindowTypes
    <3> QED
      BY <2>1, <3>1, <3>2, <3>3 DEF Progress, DriverSynced
  <2> QED
    BY <2>2, <2>3
<1>8. Waiting'
  BY DEF ReleaseStorage, Returned, ResumeAt, IInv, Waiting, ColdStart
<1> QED
  BY <1>1, <1>2, <1>3, <1>4, <1>5, <1>6, <1>7, <1>8 DEF IInv

(* resume_role writes the journal once more. *)
LEMMA RegisterTrainersStep == IInv /\ RegisterTrainers => IInv'
<1> SUFFICES ASSUME IInv, RegisterTrainers PROVE IInv'
  OBVIOUS
<1>1. TypeOK'
  BY DEF RegisterTrainers, Returned, ResumeAt, IInv, TypeOK, ServingOK, QueueOK, DiskOK,
     ManagerOK, WindowOK, DriverOK, ManagerAt, Calls, DriverAt, StepOfCall
<1>2. MemorySound' /\ JournalSound' /\ WindowsFormed' /\ Unjournalled'
  BY DEF RegisterTrainers, Returned, ResumeAt, IInv, MemorySound, Alive, Current, Sound,
     Readable, JournalSound, WindowsFormed, Formed, Absent, Unjournalled
<1>3. FirstManager' /\ JournalSynced' /\ OneCall' /\ StepOfCall'
  BY DEF RegisterTrainers, Returned, ResumeAt, IInv, FirstManager, FirstAttempt, Current,
     JournalSynced, Synced, ManagerSynced, DriverSynced, Alive, OneCall, StepOfCall
<1>4. Recording' /\ Reconciled' /\ ReadyAccepted'
  BY DEF RegisterTrainers, Returned, ResumeAt, IInv, Recording, Absent, Retained, ColdStart,
     Reconciled, Alive, Current, DriverSynced, LostConversions, ReadyAccepted, OneCall,
     StepOfCall
<1>5. Progress' /\ Waiting'
  BY DEF RegisterTrainers, Returned, ResumeAt, IInv, Progress, Alive, DriverSynced, ColdStart,
     Waiting, OneCall, StepOfCall
<1> QED
  BY <1>1, <1>2, <1>3, <1>4, <1>5 DEF IInv

(* A window that is not loaded takes its boundary from the commits. *)
LEMMA LoadStep == IInv /\ Load => IInv'
<1> SUFFICES ASSUME IInv, Load PROVE IInv'
  OBVIOUS
<1>1. TypeOK'
  <2>1. ServingOK' /\ QueueOK' /\ DiskOK' /\ ManagerOK' /\ DriverOK'
    BY DEF Load, Returned, ResumeAt, IInv, TypeOK, ServingOK, QueueOK, DiskOK, ManagerOK,
       DriverOK, ManagerAt, Calls, DriverAt, StepOfCall
  <2>2. WindowOK'
    <3>1. CASE memory.loaded
      BY <3>1 DEF Load, Returned, ResumeAt, IInv, TypeOK, WindowOK
    <3>2. CASE ~memory.loaded
      <4>1. memory' = [memory EXCEPT !.loaded = TRUE, !.start = target] /\ released' = released
        BY <3>2 DEF Load
      <4> QED
        BY <4>1 DEF IInv, TypeOK, WindowOK, ManagerOK, Memory
    <3> QED
      BY <3>1, <3>2
  <2> QED
    BY <2>1, <2>2 DEF TypeOK
<1>2. MemorySound'
  <2>0. managerAt = "load" /\ UNCHANGED <<committed, session, journal, journalExists>>
    BY DEF Load
  <2>t. target \in Nat
    BY NumRolloutsAssumption DEF IInv, TypeOK, ManagerOK, Boundary
  <2>1. CASE memory.loaded
    <3>1. memory' = memory
      BY <2>1 DEF Load
    <3> QED
      BY <2>0, <3>1 DEF Load, Returned, ResumeAt, IInv, MemorySound, Sound, Readable, Alive,
         Current
  <2>2. CASE ~memory.loaded
    <3>1. memory' = [memory EXCEPT !.loaded = TRUE, !.start = target]
      BY <2>2 DEF Load
    <3>2. /\ memory'.incarnation = memory.incarnation /\ memory'.origin = memory.origin
          /\ memory'.loaded = TRUE /\ memory'.start = target /\ memory'.batches = memory.batches
      BY <3>1 DEF IInv, TypeOK, WindowOK, Memory
    <3>3. ColdStart(target) /\ \A r \in Rollout : memory.batches[r] = "absent"
      BY <2>0, <2>2 DEF IInv, Recording, WindowsFormed, Formed, Absent
    <3>4. UNCHANGED <<pins, accepted, finished, committed, session>>
      BY DEF Load
    <3>5. Readable(memory)'
      BY <3>2, <3>3 DEF Readable
    <3>6. ASSUME Current(memory), NEW r \in finished PROVE r < target
      <4>1. PICK c \in committed : r <= c
        BY <2>0, <2>2, <3>6 DEF IInv, MemorySound, Sound, Alive
      <4>2. r \in Int /\ c \in Int /\ target \in Int
        BY <2>t, RolloutNat DEF IInv, TypeOK, QueueOK, DiskOK
      <4>3. c < target
        BY <3>3 DEF ColdStart
      <4> QED
        BY <4>1, <4>2, <4>3
    <3> QED
      BY <3>2, <3>4, <3>5, <3>6 DEF MemorySound, Sound, Current
  <2> QED
    BY <2>1, <2>2
<1>3. JournalSound' /\ Unjournalled'
  BY DEF Load, Returned, ResumeAt, IInv, JournalSound, Current, Sound, Readable, Unjournalled
<1>4. WindowsFormed'
  <2>0. managerAt = "load" /\ UNCHANGED <<committed, session, journal, journalExists>>
    BY DEF Load
  <2>t. target \in Nat
    BY NumRolloutsAssumption DEF IInv, TypeOK, ManagerOK, Boundary
  <2>1. CASE memory.loaded
    <3>1. memory' = memory
      BY <2>1 DEF Load
    <3> QED
      BY <2>0, <3>1 DEF IInv, WindowsFormed, Formed, Absent
  <2>2. CASE ~memory.loaded
    <3>1. memory' = [memory EXCEPT !.loaded = TRUE, !.start = target]
      BY <2>2 DEF Load
    <3>2. /\ memory'.incarnation = memory.incarnation /\ memory'.origin = memory.origin
          /\ memory'.loaded = TRUE /\ memory'.start = target /\ memory'.batches = memory.batches
      BY <3>1 DEF IInv, TypeOK, WindowOK, Memory
    <3>3. ColdStart(target) /\ \A r \in Rollout : memory.batches[r] = "absent"
      BY <2>0, <2>2 DEF IInv, Recording, WindowsFormed, Formed, Absent
    <3>4. memory.origin <= session /\ Formed(journal)
      BY DEF IInv, WindowsFormed, Formed
    <3>5. Formed(memory)'
      BY <2>0, <2>t, <3>2, <3>3, <3>4 DEF Formed, Absent, ColdStart
    <3>6. Formed(journal)'
      BY <2>0, <3>4 DEF Formed, Absent
    <3> QED
      BY <3>5, <3>6 DEF WindowsFormed
  <2> QED
    BY <2>1, <2>2
<1>5. FirstManager' /\ JournalSynced' /\ OneCall' /\ StepOfCall'
  BY DEF Load, Returned, ResumeAt, IInv, FirstManager, FirstAttempt, Current, JournalSynced,
     Synced, ManagerSynced, DriverSynced, Alive, OneCall, StepOfCall
<1>6. Recording'
  <2>1. managerAt' \in {"idle", "persist load"} /\ call' = call /\ call = "load"
    BY DEF Load, Returned, IInv, StepOfCall
  <2>2. managerAt' = "persist load" => memory'.loaded
    BY DEF Load, Returned, IInv, TypeOK, WindowOK, Memory
  <2> QED
    BY <2>1, <2>2 DEF Recording
<1>7. Reconciled'
  <2>1. /\ managerAt = "load" /\ call = "load" /\ UNCHANGED <<call, ready, session>>
        /\ ~DriverSynced /\ driverAt # "register"
    BY DEF Load, Returned, ResumeAt, IInv, StepOfCall, OneCall
  <2>2. memory'.batches = memory.batches /\ memory'.origin = memory.origin
    BY DEF Load, Returned, ResumeAt, IInv, TypeOK, WindowOK, Memory
  <2>3. Current(memory)' => LostConversions' = {}
    BY <2>1, <2>2 DEF IInv, Reconciled, Current, Alive, LostConversions
  <2>4. driverAt' # "train" /\ managerAt' \in {"idle", "persist load"}
    BY <2>1 DEF Load, Returned, ResumeAt, DriverSynced
  <2> QED
    BY <2>1, <2>3, <2>4 DEF Reconciled
<1>8. ReadyAccepted'
  BY DEF Load, Returned, ResumeAt, IInv, ReadyAccepted
<1>9. Progress'
  BY DEF Load, Returned, ResumeAt, IInv, Progress, Alive, DriverSynced, ColdStart, OneCall,
     StepOfCall, Waiting, Recording, WindowsFormed, Formed
<1>10. Waiting'
  <2>1. /\ managerAt = "load" /\ call = "load" /\ UNCHANGED <<call, rollout, target>>
    BY DEF Load, Returned, ResumeAt, IInv, StepOfCall
  <2>2. CASE driverAt' # "waiting"
    BY <2>2 DEF Waiting
  <2>3. CASE driverAt' = "waiting"
    <3>1. driverAt = "waiting" /\ ~memory.loaded
      BY <2>1, <2>3 DEF Load, Returned, ResumeAt
    <3>2. target = rollout
      BY <2>1, <3>1 DEF IInv, Waiting
    <3>3. memory'.start = target /\ memory'.loaded
      BY <3>1 DEF Load, IInv, TypeOK, WindowOK, Memory
    <3>4. target \in Int
      BY DEF IInv, TypeOK, ManagerOK, Boundary
    <3> QED
      BY <2>1, <3>2, <3>3, <3>4 DEF Waiting
  <2> QED
    BY <2>2, <2>3
<1> QED
  BY <1>1, <1>2, <1>3, <1>4, <1>5, <1>6, <1>7, <1>8, <1>9, <1>10 DEF IInv

(* The journal takes the loaded boundary. *)
LEMMA PersistLoadStep == IInv /\ PersistLoad => IInv'
<1> SUFFICES ASSUME IInv, PersistLoad PROVE IInv'
  OBVIOUS
<1>1. TypeOK'
  BY DEF PersistLoad, Returned, ResumeAt, IInv, TypeOK, ServingOK, QueueOK, DiskOK, ManagerOK,
     WindowOK, DriverOK, ManagerAt, Calls, DriverAt, StepOfCall
<1>2. MemorySound' /\ JournalSound' /\ WindowsFormed' /\ Unjournalled'
  BY DEF PersistLoad, Returned, ResumeAt, IInv, MemorySound, Alive, Current, Sound, Readable,
     JournalSound, WindowsFormed, Formed, Absent, Unjournalled
<1>3. FirstManager' /\ JournalSynced' /\ OneCall' /\ StepOfCall'
  BY DEF PersistLoad, Returned, ResumeAt, IInv, FirstManager, FirstAttempt, Current,
     JournalSynced, Synced, ManagerSynced, DriverSynced, Alive, OneCall, StepOfCall
<1>4. Recording' /\ Reconciled' /\ ReadyAccepted'
  BY DEF PersistLoad, Returned, ResumeAt, IInv, Recording, Absent, Retained, ColdStart,
     Reconciled, Alive, Current, DriverSynced, LostConversions, ReadyAccepted, OneCall,
     StepOfCall
<1>5. Progress' /\ Waiting'
  BY DEF PersistLoad, Returned, ResumeAt, IInv, Progress, Alive, DriverSynced, ColdStart,
     Waiting, OneCall, StepOfCall, Recording, WindowsFormed, Formed
<1> QED
  BY <1>1, <1>2, <1>3, <1>4, <1>5 DEF IInv

(* A rollout is replayed, converted or collected. *)
LEMMA GenerateStep == IInv /\ Generate => IInv'
<1> SUFFICES ASSUME IInv, Generate PROVE IInv'
  OBVIOUS
<1>1. TypeOK'
  <2>1. ServingOK' /\ QueueOK' /\ DiskOK'
    BY DEF Generate, Returned, ResumeAt, IInv, TypeOK, ServingOK, QueueOK, DiskOK
  <2>2. ManagerOK' /\ WindowOK'
    BY DEF Generate, Returned, ResumeAt, IInv, TypeOK, ManagerOK, WindowOK, ManagerAt, Calls
  <2>3. DriverOK'
    BY DEF Generate, Returned, ResumeAt, IInv, TypeOK, DriverOK, DriverAt, StepOfCall
  <2> QED
    BY <2>1, <2>2, <2>3 DEF TypeOK
<1>2. MemorySound' /\ JournalSound' /\ WindowsFormed' /\ Unjournalled'
  BY DEF Generate, Returned, ResumeAt, IInv, MemorySound, Alive, Current, Sound, Readable,
     JournalSound, WindowsFormed, Formed, Absent, Unjournalled
<1>3. FirstManager' /\ JournalSynced' /\ OneCall' /\ StepOfCall'
  BY DEF Generate, Returned, ResumeAt, IInv, FirstManager, FirstAttempt, Current, JournalSynced,
     Synced, ManagerSynced, DriverSynced, Alive, OneCall, StepOfCall
<1>4. Recording' /\ ReadyAccepted'
  BY DEF Generate, Returned, ResumeAt, IInv, Recording, Absent, Retained, ColdStart, ReadyAccepted
<1>5. Reconciled'
  <2>1. /\ managerAt = "generate" /\ call = "generate" /\ UNCHANGED <<call, memory, ready, session, rollout, target>>
        /\ ~DriverSynced /\ driverAt # "register"
    BY DEF Generate, Returned, ResumeAt, IInv, StepOfCall, OneCall
  <2>2. Current(memory)' => LostConversions' = {}
    BY <2>1 DEF IInv, Reconciled, Current, Alive, LostConversions
  <2>3. managerAt' \in {"idle", "begin", "collect"}
    BY DEF Generate, Returned
  <2>4. driverAt' = "train" => memory.batches[rollout] = "converted"
    <3>1. driverAt' = "train" => driverAt = "waiting" /\ memory.batches[target] = "converted"
      BY <2>1 DEF Generate, Returned, DriverSynced
    <3>2. driverAt = "waiting" => target = rollout
      BY <2>1 DEF IInv, Waiting
    <3> QED
      BY <3>1, <3>2
  <2> QED
    BY <2>1, <2>2, <2>3, <2>4 DEF Reconciled
<1>6. Progress' /\ Waiting'
  BY DEF Generate, Returned, ResumeAt, IInv, Progress, Alive, DriverSynced, ColdStart, Waiting,
     OneCall, StepOfCall
<1> QED
  BY <1>1, <1>2, <1>3, <1>4, <1>5, <1>6 DEF IInv

(* The queue accepts a collection. *)
LEMMA CollectStep == IInv /\ Collect => IInv'
<1> SUFFICES ASSUME IInv, Collect PROVE IInv'
  OBVIOUS
<1>1. TypeOK'
  <2>1. ServingOK' /\ QueueOK' /\ DiskOK'
    BY DEF Collect, IInv, TypeOK, ServingOK, QueueOK, DiskOK, Recording
  <2>2. ManagerOK' /\ WindowOK'
    BY DEF Collect, IInv, TypeOK, ManagerOK, WindowOK, ManagerAt, Calls
  <2>3. DriverOK'
    BY DEF Collect, IInv, TypeOK, DriverOK, DriverAt
  <2> QED
    BY <2>1, <2>2, <2>3 DEF TypeOK
<1>2. MemorySound' /\ JournalSound' /\ WindowsFormed' /\ Unjournalled'
  BY DEF Collect, IInv, MemorySound, Alive, Current, Sound, Readable, JournalSound,
     WindowsFormed, Formed, Absent, Unjournalled
<1>3. FirstManager' /\ JournalSynced' /\ OneCall' /\ StepOfCall'
  BY DEF Collect, IInv, FirstManager, FirstAttempt, Current, JournalSynced, Synced,
     ManagerSynced, DriverSynced, Alive, OneCall, StepOfCall
<1>4. Recording'
  <2>1. /\ managerAt = "collect" /\ managerAt' = "remember raw" /\ call' = call /\ call = "generate"
        /\ accepted' = accepted \cup {target} /\ UNCHANGED <<ready, memory, target>>
        /\ target \notin accepted
    BY DEF Collect, IInv, StepOfCall
  <2>2. target \notin ready
    BY <2>1 DEF IInv, ReadyAccepted
  <2>3. target >= memory.start /\ memory.loaded /\ target \in Rollout /\ Absent(memory, target)
    BY <2>1 DEF IInv, Recording
  <2> QED
    BY <2>1, <2>2, <2>3 DEF Recording, Absent
<1>5. Reconciled' /\ ReadyAccepted'
  BY DEF Collect, IInv, Reconciled, Alive, Current, DriverSynced, LostConversions, ReadyAccepted
<1>6. Progress' /\ Waiting'
  BY DEF Collect, IInv, Progress, Alive, DriverSynced, ColdStart, Waiting
<1> QED
  BY <1>1, <1>2, <1>3, <1>4, <1>5, <1>6 DEF IInv

(* A conversion the queue has is used; a new one is built. *)
LEMMA BeginStep == IInv /\ Begin => IInv'
<1> SUFFICES ASSUME IInv, Begin PROVE IInv'
  OBVIOUS
<1>1. TypeOK'
  BY DEF Begin, Returned, ResumeAt, IInv, TypeOK, ServingOK, QueueOK, DiskOK, ManagerOK,
     WindowOK, DriverOK, ManagerAt, Calls, DriverAt, StepOfCall
<1>2. MemorySound' /\ JournalSound' /\ WindowsFormed' /\ Unjournalled'
  BY DEF Begin, Returned, ResumeAt, IInv, MemorySound, Alive, Current, Sound, Readable,
     JournalSound, WindowsFormed, Formed, Absent, Unjournalled
<1>3. FirstManager' /\ JournalSynced' /\ OneCall' /\ StepOfCall'
  BY DEF Begin, Returned, ResumeAt, IInv, FirstManager, FirstAttempt, Current, JournalSynced,
     Synced, ManagerSynced, DriverSynced, Alive, OneCall, StepOfCall
<1>4. Recording' /\ Reconciled' /\ ReadyAccepted'
  BY DEF Begin, Returned, ResumeAt, IInv, Recording, Absent, Retained, ColdStart, Reconciled,
     Alive, Current, DriverSynced, LostConversions, ReadyAccepted, OneCall, StepOfCall
<1>5. Progress' /\ Waiting'
  BY DEF Begin, Returned, ResumeAt, IInv, Progress, Alive, DriverSynced, ColdStart, Waiting,
     OneCall, StepOfCall
<1> QED
  BY <1>1, <1>2, <1>3, <1>4, <1>5 DEF IInv

(* The queue commits a conversion. *)
LEMMA PublishConvertedStep == IInv /\ PublishConverted => IInv'
<1> SUFFICES ASSUME IInv, PublishConverted PROVE IInv'
  OBVIOUS
<1>1. TypeOK'
  <2>1. ServingOK' /\ QueueOK' /\ DiskOK'
    BY DEF PublishConverted, IInv, TypeOK, ServingOK, QueueOK, DiskOK, Recording
  <2>2. ManagerOK' /\ WindowOK'
    BY DEF PublishConverted, IInv, TypeOK, ManagerOK, WindowOK, ManagerAt, Calls
  <2>3. DriverOK'
    BY DEF PublishConverted, IInv, TypeOK, DriverOK, DriverAt
  <2> QED
    BY <2>1, <2>2, <2>3 DEF TypeOK
<1>2. MemorySound' /\ JournalSound' /\ WindowsFormed' /\ Unjournalled'
  BY DEF PublishConverted, IInv, MemorySound, Alive, Current, Sound, Readable, JournalSound,
     WindowsFormed, Formed, Absent, Unjournalled
<1>3. FirstManager' /\ JournalSynced' /\ OneCall' /\ StepOfCall'
  BY DEF PublishConverted, IInv, FirstManager, FirstAttempt, Current, JournalSynced, Synced,
     ManagerSynced, DriverSynced, Alive, OneCall, StepOfCall
<1>4. Recording' /\ Reconciled' /\ ReadyAccepted'
  BY DEF PublishConverted, IInv, Recording, Absent, Retained, ColdStart, Reconciled, Alive,
     Current, DriverSynced, LostConversions, ReadyAccepted, OneCall, StepOfCall
<1>5. Progress' /\ Waiting'
  BY DEF PublishConverted, IInv, Progress, Alive, DriverSynced, ColdStart, Waiting
<1> QED
  BY <1>1, <1>2, <1>3, <1>4, <1>5 DEF IInv

(* The queue may erase a batch that both windows list as converted. *)
LEMMA FinishBatchStep == IInv /\ FinishBatch => IInv'
<1> SUFFICES ASSUME IInv, FinishBatch PROVE IInv'
  OBVIOUS
<1>1. TypeOK'
  BY DEF FinishBatch, Returned, ResumeAt, IInv, TypeOK, ServingOK, QueueOK, DiskOK, ManagerOK,
     WindowOK, DriverOK, Recording, ManagerAt, Calls, DriverAt, StepOfCall
<1>2. MemorySound'
  <2>1. /\ managerAt = "finish" /\ finished' = finished \cup {target} /\ target \in ready
        /\ UNCHANGED <<pins, accepted, committed, session, memory, journal, journalExists>>
    BY DEF FinishBatch, Returned, ResumeAt
  <2>2. Current(memory) => memory.batches[target] = "converted"
    BY <2>1 DEF IInv, Reconciled, Alive
  <2>3. memory.loaded
    BY <2>1 DEF IInv, Recording
  <2> SUFFICES ASSUME Sound(memory), Current(memory) PROVE Sound(memory)'
    BY <2>1 DEF IInv, MemorySound, Current, Alive
  <2>4. Readable(memory)'
    BY <2>1, <2>2 DEF Sound, Readable
  <2> QED
    BY <2>1, <2>2, <2>3, <2>4 DEF Sound
<1>3. JournalSound'
  <2>1. managerAt = "finish" /\ UNCHANGED <<memory, journal, session>> /\ managerAt' = "idle"
    BY DEF FinishBatch, Returned, ResumeAt
  <2>2. journal = memory
    BY <2>1 DEF IInv, JournalSynced, ManagerSynced, Synced
  <2> QED
    BY <1>2, <2>1, <2>2 DEF MemorySound, JournalSound, Alive, Current, Sound, Readable
<1>4. WindowsFormed'
  BY DEF FinishBatch, Returned, ResumeAt, IInv, WindowsFormed, Formed, Absent
<1>5. Unjournalled'
  BY NumRolloutsAssumption DEF FinishBatch, Returned, ResumeAt, IInv, Unjournalled, OneCall,
     StepOfCall, Alive, DriverSynced, JournalSynced, Synced, ManagerSynced
<1>6. FirstManager' /\ JournalSynced' /\ OneCall' /\ StepOfCall'
  BY DEF FinishBatch, Returned, ResumeAt, IInv, FirstManager, FirstAttempt, Current,
     JournalSynced, Synced, ManagerSynced, DriverSynced, Alive, OneCall, StepOfCall
<1>7. Recording' /\ Reconciled' /\ ReadyAccepted'
  BY DEF FinishBatch, Returned, ResumeAt, IInv, Recording, Absent, Retained, ColdStart,
     Reconciled, Alive, Current, DriverSynced, LostConversions, ReadyAccepted, OneCall,
     StepOfCall
<1>8. Progress' /\ Waiting'
  BY DEF FinishBatch, Returned, ResumeAt, IInv, Progress, Alive, DriverSynced, ColdStart,
     Waiting, OneCall, StepOfCall
<1> QED
  BY <1>1, <1>2, <1>3, <1>4, <1>5, <1>6, <1>7, <1>8 DEF IInv

(* The window is emptied once the last commit covers it. *)
LEMMA DisposeStep == IInv /\ Dispose => IInv'
<1> SUFFICES ASSUME IInv, Dispose PROVE IInv'
  OBVIOUS
<1>1. TypeOK'
  <2>1. ServingOK' /\ QueueOK' /\ DiskOK' /\ WindowOK'
    BY DEF Dispose, Empty, IInv, TypeOK, ServingOK, QueueOK, DiskOK, WindowOK, Memory, Batch,
       Retained
  <2>2. ManagerOK' /\ DriverOK'
    BY DEF Dispose, Empty, IInv, TypeOK, ManagerOK, DriverOK, ManagerAt, Calls, DriverAt
  <2> QED
    BY <2>1, <2>2 DEF TypeOK
<1>2. MemorySound'
  <2>1. /\ memory'.incarnation = memory.incarnation /\ memory'.origin = memory.origin
        /\ memory'.start = memory.start /\ memory'.loaded = memory.loaded /\ memory'.batches = Empty
    BY DEF Dispose, IInv, TypeOK, WindowOK, Memory
  <2>2. memory.start = NumRollouts /\ memory.loaded
    BY DEF Dispose, IInv, StepOfCall, Recording
  <2>3. UNCHANGED <<pins, accepted, finished, committed, session>>
    BY DEF Dispose
  <2>4. \A r \in finished : r < memory.start
    BY <2>2, NumRolloutsAssumption DEF IInv, TypeOK, QueueOK, Rollout
  <2>5. Readable(memory)'
    BY <2>1 DEF Readable, Empty
  <2> QED
    BY <2>1, <2>2, <2>3, <2>4, <2>5 DEF MemorySound, Sound
<1>3. JournalSound'
  BY DEF Dispose, Empty, IInv, JournalSound, Current, Sound, Readable
<1>4. WindowsFormed'
  BY NumRolloutsAssumption DEF Dispose, Empty, IInv, WindowsFormed, Formed, Absent, OneCall,
     StepOfCall, Alive, DriverSynced, TypeOK, Memory, Boundary, ServingOK, QueueOK, DiskOK,
     ManagerOK, WindowOK, DriverOK
<1>5. Unjournalled'
  BY DEF Dispose, Empty, IInv, Unjournalled
<1>6. FirstManager' /\ JournalSynced' /\ OneCall' /\ StepOfCall'
  BY DEF Dispose, Empty, IInv, FirstManager, FirstAttempt, Current, JournalSynced, Synced,
     ManagerSynced, DriverSynced, Alive, OneCall, StepOfCall
<1>7. Recording'
  <2>1. /\ memory'.start = memory.start /\ memory'.loaded = memory.loaded /\ memory'.batches = Empty
    BY DEF Dispose, IInv, TypeOK, WindowOK, Memory
  <2>2. managerAt' = "persist boundary" /\ call' = call /\ call = "dispose"
    BY DEF Dispose, Empty, IInv, StepOfCall
  <2>3. Retained(memory)' = {}
    BY <2>1 DEF Retained, Empty
  <2>4. memory.start = NumRollouts /\ memory.loaded
    BY <2>2 DEF Dispose, IInv, Recording
  <2> QED
    BY <2>1, <2>2, <2>3, <2>4 DEF Recording
<1>8. Reconciled' /\ ReadyAccepted'
  BY DEF Dispose, Empty, IInv, Reconciled, Alive, Current, DriverSynced, LostConversions,
     ReadyAccepted, OneCall, StepOfCall
<1>9. Progress' /\ Waiting'
  BY DEF Dispose, Empty, IInv, Progress, Alive, DriverSynced, ColdStart, Waiting, OneCall,
     StepOfCall
<1> QED
  BY <1>1, <1>2, <1>3, <1>4, <1>5, <1>6, <1>7, <1>8, <1>9 DEF IInv

(* The journal goes last, when a commit covers all that was trained. *)
LEMMA RemoveJournalStep == IInv /\ RemoveJournal => IInv'
<1> SUFFICES ASSUME IInv, RemoveJournal PROVE IInv'
  OBVIOUS
<1>1. TypeOK'
  BY DEF RemoveJournal, Disposed, IInv, TypeOK, ServingOK, QueueOK, DiskOK, ManagerOK, WindowOK,
     DriverOK, ManagerAt, Calls, DriverAt
<1>2. MemorySound' /\ JournalSound' /\ WindowsFormed'
  BY DEF RemoveJournal, Disposed, IInv, MemorySound, Alive, Current, Sound, Readable,
     JournalSound, WindowsFormed, Formed, Absent
<1>3. Unjournalled'
  <2>1. memory.start = NumRollouts /\ UNCHANGED <<finished, committed>>
    BY DEF RemoveJournal, Disposed, IInv, StepOfCall, Recording
  <2>2. NumRollouts - 1 \in committed
    BY <2>1, NumRolloutsAssumption DEF IInv, WindowsFormed, Formed
  <2>3. \A r \in finished : r <= NumRollouts - 1
    BY NumRolloutsAssumption DEF IInv, TypeOK, QueueOK, Rollout
  <2> QED
    BY <2>1, <2>2, <2>3 DEF Unjournalled
<1>4. FirstManager' /\ JournalSynced' /\ OneCall' /\ StepOfCall'
  BY DEF RemoveJournal, Disposed, IInv, FirstManager, FirstAttempt, Current, JournalSynced,
     Synced, ManagerSynced, DriverSynced, Alive, OneCall, StepOfCall
<1>5. Recording' /\ Reconciled' /\ ReadyAccepted'
  BY DEF RemoveJournal, Disposed, IInv, Recording, Absent, Retained, ColdStart, Reconciled,
     Alive, Current, DriverSynced, LostConversions, ReadyAccepted
<1>6. Progress' /\ Waiting'
  BY DEF RemoveJournal, Disposed, IInv, Progress, Alive, DriverSynced, ColdStart, Waiting
<1> QED
  BY <1>1, <1>2, <1>3, <1>4, <1>5, <1>6 DEF IInv

(* The serving owner admits the first or a later driver. *)
LEMMA AttachServingStep == IInv /\ AttachServing => IInv'
<1> SUFFICES ASSUME IInv, AttachServing PROVE IInv'
  OBVIOUS
<1>1. TypeOK'
  <2>1. ServingOK' /\ QueueOK' /\ DiskOK' /\ WindowOK'
    BY DEF AttachServing, Reused, IInv, TypeOK, ServingOK, QueueOK, DiskOK, WindowOK
  <2>2. ManagerOK'
    BY DEF AttachServing, Reused, IInv, TypeOK, ManagerOK, ManagerAt, Calls
  <2>3. DriverOK'
    BY DEF AttachServing, Reused, IInv, TypeOK, DriverOK, DriverAt
  <2> QED
    BY <2>1, <2>2, <2>3 DEF TypeOK
<1>2. MemorySound' /\ JournalSound' /\ WindowsFormed' /\ Unjournalled'
  BY DEF AttachServing, Reused, IInv, MemorySound, Alive, Current, Sound, Readable,
     JournalSound, WindowsFormed, Formed, Absent, Unjournalled
<1>3. FirstManager'
  <2>1. CASE attachments = 0
    BY <2>1 DEF AttachServing, Reused, IInv, FirstManager, FirstAttempt, Alive, Current
  <2>2. CASE attachments # 0
    <3>1. attachments > 0 /\ attachments' # 0
      BY <2>2 DEF AttachServing, Reused, IInv, TypeOK, ServingOK
    <3> QED
      BY <3>1 DEF AttachServing, Reused, IInv, FirstManager, FirstAttempt, Alive, Current
  <2> QED
    BY <2>1, <2>2
<1>4. JournalSynced' /\ OneCall' /\ StepOfCall'
  BY DEF AttachServing, Reused, IInv, JournalSynced, Synced, ManagerSynced, DriverSynced, Alive,
     OneCall, StepOfCall
<1>5. Recording'
  BY DEF AttachServing, Reused, IInv, Recording, Absent, Retained, ColdStart
<1>6. Reconciled'
  BY DEF AttachServing, Reused, IInv, Reconciled, Alive, Current, DriverSynced, LostConversions
<1>7. ReadyAccepted'
  BY DEF AttachServing, Reused, IInv, ReadyAccepted
<1>8. Progress' /\ Waiting'
  BY DEF AttachServing, Reused, IInv, Progress, Alive, DriverSynced, ColdStart, Waiting
<1> QED
  BY <1>1, <1>2, <1>3, <1>4, <1>5, <1>6, <1>7, <1>8 DEF IInv

(* A manager is created with what the driver was told. *)
LEMMA CreateManagerStep == IInv /\ CreateManager => IInv'
<1> SUFFICES ASSUME IInv, CreateManager PROVE IInv'
  OBVIOUS
<1>1. TypeOK'
  <2>1. ServingOK' /\ QueueOK' /\ DiskOK' /\ WindowOK' /\ DriverOK'
    BY DEF CreateManager, IInv, TypeOK, ServingOK, QueueOK, DiskOK, WindowOK, DriverOK, DriverAt
  <2>2. ManagerOK'
    <3>1. "open journal" \in ManagerAt /\ "init" \in Calls
      BY DEF ManagerAt, Calls
    <3> QED
      BY <3>1 DEF CreateManager, IInv, TypeOK, ManagerOK, ServingOK
  <2> QED
    BY <2>1, <2>2 DEF TypeOK
<1>2. MemorySound' /\ JournalSound' /\ WindowsFormed' /\ Unjournalled'
  BY DEF CreateManager, IInv, MemorySound, Alive, Current, Sound, Readable, JournalSound,
     WindowsFormed, Formed, Absent, Unjournalled
<1>3. FirstManager' /\ JournalSynced' /\ OneCall' /\ StepOfCall'
  BY DEF CreateManager, IInv, FirstManager, FirstAttempt, Current, JournalSynced, Synced,
     ManagerSynced, DriverSynced, Alive, OneCall, StepOfCall
<1>4. Recording' /\ Reconciled' /\ ReadyAccepted'
  BY DEF CreateManager, IInv, Recording, Absent, Retained, ColdStart, Reconciled, Alive,
     Current, DriverSynced, LostConversions, ReadyAccepted
<1>5. Progress' /\ Waiting'
  BY DEF CreateManager, IInv, Progress, Alive, DriverSynced, ColdStart, Waiting
<1> QED
  BY <1>1, <1>2, <1>3, <1>4, <1>5 DEF IInv

(* The driver finds the named manager. *)
LEMMA FindManagerStep == IInv /\ FindManager => IInv'
<1> SUFFICES ASSUME IInv, FindManager PROVE IInv'
  OBVIOUS
<1>1. TypeOK'
  <2>1. ServingOK' /\ QueueOK' /\ DiskOK' /\ WindowOK'
    BY DEF FindManager, IInv, TypeOK, ServingOK, QueueOK, DiskOK, WindowOK
  <2>2. ManagerOK' /\ DriverOK'
    BY DEF FindManager, IInv, TypeOK, ManagerOK, DriverOK, ManagerAt, Calls, DriverAt
  <2> QED
    BY <2>1, <2>2 DEF TypeOK
<1>2. MemorySound' /\ JournalSound' /\ WindowsFormed' /\ Unjournalled'
  BY DEF FindManager, IInv, MemorySound, Alive, Current, Sound, Readable, JournalSound,
     WindowsFormed, Formed, Absent, Unjournalled
<1>3. FirstManager' /\ JournalSynced' /\ OneCall' /\ StepOfCall'
  BY DEF FindManager, IInv, FirstManager, FirstAttempt, Current, JournalSynced, Synced,
     ManagerSynced, DriverSynced, Alive, OneCall, StepOfCall
<1>4. Recording'
  BY DEF FindManager, IInv, Recording, Absent, Retained, ColdStart, OneCall
<1>5. Reconciled'
  BY DEF FindManager, IInv, Reconciled, Alive, Current, DriverSynced, LostConversions, OneCall
<1>6. ReadyAccepted'
  BY DEF FindManager, IInv, ReadyAccepted, OneCall
<1>7. Progress' /\ Waiting'
  BY DEF FindManager, IInv, Progress, Alive, DriverSynced, ColdStart, Waiting
<1> QED
  BY <1>1, <1>2, <1>3, <1>4, <1>5, <1>6, <1>7 DEF IInv

(* The driver attaches to an idle manager. *)
LEMMA AttachManagerStep == IInv /\ AttachManager => IInv'
<1> SUFFICES ASSUME IInv, AttachManager PROVE IInv'
  OBVIOUS
<1>1. TypeOK'
  BY DEF AttachManager, IInv, TypeOK, ServingOK, QueueOK, DiskOK, ManagerOK, WindowOK, DriverOK,
     ManagerAt, Calls, DriverAt
<1>2. MemorySound' /\ JournalSound' /\ WindowsFormed' /\ Unjournalled'
  BY DEF AttachManager, IInv, MemorySound, Alive, Current, Sound, Readable, JournalSound,
     WindowsFormed, Formed, Absent, Unjournalled
<1>3. FirstManager' /\ JournalSynced' /\ OneCall' /\ StepOfCall'
  BY DEF AttachManager, IInv, FirstManager, FirstAttempt, Current, JournalSynced, Synced,
     ManagerSynced, DriverSynced, Alive, OneCall, StepOfCall
<1>4. Recording' /\ Reconciled' /\ ReadyAccepted'
  BY DEF AttachManager, IInv, Recording, Absent, Retained, ColdStart, Reconciled, Alive,
     Current, DriverSynced, LostConversions, ReadyAccepted
<1>5. Progress' /\ Waiting'
  BY DEF AttachManager, IInv, Progress, Alive, DriverSynced, ColdStart, Waiting
<1> QED
  BY <1>1, <1>2, <1>3, <1>4, <1>5 DEF IInv

(* Trainers start from the retained boundary or from the commits. *)
LEMMA CreateModelsStep == IInv /\ CreateModels => IInv'
<1> SUFFICES ASSUME IInv, CreateModels PROVE IInv'
  OBVIOUS
<1>1. TypeOK'
  BY DEF CreateModels, IInv, TypeOK, ServingOK, QueueOK, DiskOK, ManagerOK, WindowOK, DriverOK,
     ManagerAt, Calls, DriverAt
<1>2. MemorySound' /\ JournalSound' /\ WindowsFormed' /\ Unjournalled'
  BY DEF CreateModels, IInv, MemorySound, Alive, Current, Sound, Readable, JournalSound,
     WindowsFormed, Formed, Absent, Unjournalled
<1>3. FirstManager' /\ JournalSynced' /\ OneCall' /\ StepOfCall'
  BY DEF CreateModels, IInv, FirstManager, FirstAttempt, Current, JournalSynced, Synced,
     ManagerSynced, DriverSynced, Alive, OneCall, StepOfCall
<1>4. Recording' /\ Reconciled' /\ ReadyAccepted'
  BY DEF CreateModels, IInv, Recording, Absent, Retained, ColdStart, Reconciled, Alive, Current,
     DriverSynced, LostConversions, ReadyAccepted
<1>5. Progress'
  BY DEF CreateModels, IInv, Progress, Alive, DriverSynced, ColdStart
<1>6. Waiting'
  <2>1. PICK b \in Boundary : (IF memory.loaded THEN b = memory.start ELSE ColdStart(b)) /\ rollout' = b
    BY DEF CreateModels
  <2>2. memory.start <= b
    BY <2>1 DEF IInv, WindowsFormed, Formed, TypeOK, WindowOK, Memory, Boundary
  <2> QED
    BY <2>1, <2>2 DEF CreateModels, Waiting, ColdStart
<1> QED
  BY <1>1, <1>2, <1>3, <1>4, <1>5, <1>6 DEF IInv

(* The driver asks for the initial load. *)
LEMMA LoadRolloutStep == IInv /\ LoadRollout => IInv'
<1> SUFFICES ASSUME IInv, LoadRollout PROVE IInv'
  OBVIOUS
<1>1. TypeOK'
  BY DEF LoadRollout, IInv, TypeOK, ServingOK, QueueOK, DiskOK, ManagerOK, WindowOK, DriverOK,
     ManagerAt, Calls, DriverAt
<1>2. MemorySound' /\ JournalSound' /\ WindowsFormed' /\ Unjournalled'
  BY DEF LoadRollout, IInv, MemorySound, Alive, Current, Sound, Readable, JournalSound,
     WindowsFormed, Formed, Absent, Unjournalled
<1>3. FirstManager' /\ JournalSynced' /\ OneCall' /\ StepOfCall'
  BY DEF LoadRollout, IInv, FirstManager, FirstAttempt, Current, JournalSynced, Synced,
     ManagerSynced, DriverSynced, Alive, OneCall, StepOfCall
<1>4. Recording'
  BY NumRolloutsAssumption DEF LoadRollout, IInv, Recording, TypeOK, DriverOK, WindowOK,
     Rollout, Boundary, Progress, Alive, Absent, DriverSynced, StepOfCall, ColdStart
<1>5. Reconciled' /\ ReadyAccepted'
  BY DEF LoadRollout, IInv, Reconciled, Alive, Current, DriverSynced, LostConversions,
     ReadyAccepted
<1>6. Progress' /\ Waiting'
  BY DEF LoadRollout, IInv, Progress, Alive, DriverSynced, ColdStart, Waiting
<1> QED
  BY <1>1, <1>2, <1>3, <1>4, <1>5, <1>6 DEF IInv

(* The driver asks for a rollout. *)
LEMMA CallGenerateStep == IInv /\ CallGenerate => IInv'
<1> SUFFICES ASSUME IInv, CallGenerate PROVE IInv'
  OBVIOUS
<1>1. TypeOK'
  BY DEF CallGenerate, IInv, TypeOK, ServingOK, QueueOK, DiskOK, ManagerOK, WindowOK, DriverOK,
     ManagerAt, Calls, DriverAt
<1>2. MemorySound' /\ JournalSound' /\ WindowsFormed' /\ Unjournalled'
  BY DEF CallGenerate, IInv, MemorySound, Alive, Current, Sound, Readable, JournalSound,
     WindowsFormed, Formed, Absent, Unjournalled
<1>3. FirstManager' /\ JournalSynced' /\ OneCall' /\ StepOfCall'
  BY DEF CallGenerate, IInv, FirstManager, FirstAttempt, Current, JournalSynced, Synced,
     ManagerSynced, DriverSynced, Alive, OneCall, StepOfCall
<1>4. Recording'
  BY NumRolloutsAssumption DEF CallGenerate, IInv, Recording, TypeOK, DriverOK, WindowOK,
     Rollout, Boundary, Progress, Alive, Absent, DriverSynced, StepOfCall, Memory, ColdStart
<1>5. Reconciled' /\ ReadyAccepted'
  BY DEF CallGenerate, IInv, Reconciled, Alive, Current, DriverSynced, LostConversions,
     ReadyAccepted
<1>6. Progress' /\ Waiting'
  BY DEF CallGenerate, IInv, Progress, Alive, DriverSynced, ColdStart, Waiting
<1> QED
  BY <1>1, <1>2, <1>3, <1>4, <1>5, <1>6 DEF IInv

(* The driver reports a trained rollout. *)
LEMMA CallFinishStep == IInv /\ CallFinish => IInv'
<1> SUFFICES ASSUME IInv, CallFinish PROVE IInv'
  OBVIOUS
<1>1. TypeOK'
  BY DEF CallFinish, IInv, TypeOK, ServingOK, QueueOK, DiskOK, ManagerOK, WindowOK, DriverOK,
     ManagerAt, Calls, DriverAt
<1>2. MemorySound' /\ JournalSound' /\ WindowsFormed' /\ Unjournalled'
  BY DEF CallFinish, IInv, MemorySound, Alive, Current, Sound, Readable, JournalSound,
     WindowsFormed, Formed, Absent, Unjournalled
<1>3. FirstManager' /\ JournalSynced' /\ OneCall' /\ StepOfCall'
  BY DEF CallFinish, IInv, FirstManager, FirstAttempt, Current, JournalSynced, Synced,
     ManagerSynced, DriverSynced, Alive, OneCall, StepOfCall
<1>4. Recording'
  BY NumRolloutsAssumption DEF CallFinish, IInv, Recording, TypeOK, DriverOK, WindowOK, Rollout,
     Boundary, Progress, Alive, Absent, DriverSynced, StepOfCall, Memory, ColdStart
<1>5. Reconciled' /\ ReadyAccepted'
  BY DEF CallFinish, IInv, Reconciled, Alive, Current, DriverSynced, LostConversions,
     ReadyAccepted
<1>6. Progress' /\ Waiting'
  BY DEF CallFinish, IInv, Progress, Alive, DriverSynced, ColdStart, Waiting
<1> QED
  BY <1>1, <1>2, <1>3, <1>4, <1>5, <1>6 DEF IInv

(* A joint checkpoint is committed. *)
LEMMA CommitCheckpointStep == IInv /\ CommitCheckpoint => IInv'
<1> SUFFICES ASSUME IInv, CommitCheckpoint PROVE IInv'
  OBVIOUS
<1>1. TypeOK'
  <2>1. ServingOK'
    BY DEF CommitCheckpoint, IInv, TypeOK, ServingOK
  <2>2. QueueOK'
    BY DEF CommitCheckpoint, IInv, TypeOK, QueueOK
  <2>3. DiskOK'
    BY NumRolloutsAssumption DEF CommitCheckpoint, IInv, TypeOK, DiskOK, DriverOK, Progress,
       Rollout, Boundary
  <2>4. ManagerOK' /\ DriverOK'
    BY DEF CommitCheckpoint, IInv, TypeOK, ManagerOK, DriverOK, ManagerAt, Calls, DriverAt
  <2>5. WindowOK'
    BY DEF CommitCheckpoint, IInv, TypeOK, WindowOK
  <2> QED
    BY <2>1, <2>2, <2>3, <2>4, <2>5 DEF TypeOK
<1>2. MemorySound' /\ JournalSound' /\ WindowsFormed' /\ Unjournalled'
  BY DEF CommitCheckpoint, IInv, MemorySound, Alive, Current, Sound, Readable, JournalSound,
     WindowsFormed, Formed, Absent, Unjournalled
<1>3. FirstManager' /\ JournalSynced' /\ OneCall' /\ StepOfCall'
  BY DEF CommitCheckpoint, IInv, FirstManager, FirstAttempt, Current, JournalSynced, Synced,
     ManagerSynced, DriverSynced, Alive, OneCall, StepOfCall
<1>4. Recording'
  BY NumRolloutsAssumption DEF CommitCheckpoint, IInv, Recording, OneCall, DriverSynced
<1>5. Reconciled' /\ ReadyAccepted'
  BY DEF CommitCheckpoint, IInv, Reconciled, Alive, Current, DriverSynced, LostConversions,
     ReadyAccepted
<1>6. Progress' /\ Waiting'
  BY DEF CommitCheckpoint, IInv, Progress, Alive, DriverSynced, ColdStart, Waiting
<1> QED
  BY <1>1, <1>2, <1>3, <1>4, <1>5, <1>6 DEF IInv

(* A rollout other than the last is not saved. *)
LEMMA SkipCheckpointStep == IInv /\ SkipCheckpoint => IInv'
<1> SUFFICES ASSUME IInv, SkipCheckpoint PROVE IInv'
  OBVIOUS
<1>1. TypeOK'
  <2>1. ServingOK' /\ QueueOK' /\ DiskOK' /\ WindowOK'
    BY DEF SkipCheckpoint, IInv, TypeOK, ServingOK, QueueOK, DiskOK, WindowOK
  <2>2. ManagerOK' /\ DriverOK'
    BY DEF SkipCheckpoint, IInv, TypeOK, ManagerOK, DriverOK, ManagerAt, Calls, DriverAt
  <2> QED
    BY <2>1, <2>2 DEF TypeOK
<1>2. MemorySound' /\ JournalSound' /\ WindowsFormed' /\ Unjournalled'
  BY DEF SkipCheckpoint, IInv, MemorySound, Alive, Current, Sound, Readable, JournalSound,
     WindowsFormed, Formed, Absent, Unjournalled
<1>3. FirstManager' /\ JournalSynced' /\ OneCall' /\ StepOfCall'
  BY DEF SkipCheckpoint, IInv, FirstManager, FirstAttempt, Current, JournalSynced, Synced,
     ManagerSynced, DriverSynced, Alive, OneCall, StepOfCall
<1>4. Recording'
  BY DEF SkipCheckpoint, IInv, Recording, Absent, Retained, ColdStart, OneCall
<1>5. Reconciled'
  BY DEF SkipCheckpoint, IInv, Reconciled, Alive, Current, DriverSynced, LostConversions, OneCall
<1>6. ReadyAccepted'
  BY DEF SkipCheckpoint, IInv, ReadyAccepted, OneCall
<1>7. Progress'
  <2>1. /\ driverAt = "save?" /\ driverAt' = "next" /\ UNCHANGED <<managerAt, memory, rollout, committed>>
    BY DEF SkipCheckpoint
  <2>2. /\ rollout + 1 < NumRollouts /\ rollout \in Int /\ memory.start \in Int
    BY NumRolloutsAssumption, WindowTypes DEF SkipCheckpoint, IInv, TypeOK, DriverOK, Boundary
  <2>3. Alive => memory.start <= rollout /\ memory.loaded
    BY <2>1 DEF IInv, Progress, DriverSynced
  <2>4. rollout < NumRollouts /\ rollout + 1 # NumRollouts /\ (Alive => memory.start <= rollout + 1)
    BY <2>2, <2>3, NumRolloutsAssumption
  <2> QED
    BY <2>1, <2>3, <2>4 DEF Progress, DriverSynced, Alive
<1>8. Waiting'
  BY DEF SkipCheckpoint, IInv, Waiting, ColdStart
<1> QED
  BY <1>1, <1>2, <1>3, <1>4, <1>5, <1>6, <1>7, <1>8 DEF IInv

(* The driver reports the commit. *)
LEMMA NotifyCommitStep == IInv /\ NotifyCommit => IInv'
<1> SUFFICES ASSUME IInv, NotifyCommit PROVE IInv'
  OBVIOUS
<1>1. TypeOK'
  BY DEF NotifyCommit, IInv, TypeOK, ServingOK, QueueOK, DiskOK, ManagerOK, WindowOK, DriverOK,
     ManagerAt, Calls, DriverAt
<1>2. MemorySound' /\ JournalSound' /\ WindowsFormed' /\ Unjournalled'
  BY DEF NotifyCommit, IInv, MemorySound, Alive, Current, Sound, Readable, JournalSound,
     WindowsFormed, Formed, Absent, Unjournalled
<1>3. FirstManager' /\ JournalSynced' /\ OneCall' /\ StepOfCall'
  BY DEF NotifyCommit, IInv, FirstManager, FirstAttempt, Current, JournalSynced, Synced,
     ManagerSynced, DriverSynced, Alive, OneCall, StepOfCall
<1>4. Recording'
  <2>1. /\ driverAt = "notify" /\ managerAt = "idle" /\ managerAt' = "drop batches" /\ call' = "commit"
        /\ target' = rollout /\ UNCHANGED <<memory, committed>>
    BY DEF NotifyCommit
  <2>2. /\ rollout < NumRollouts /\ rollout \in committed /\ memory.start <= rollout /\ memory.loaded
    BY <2>1 DEF IInv, Progress, Alive, DriverSynced
  <2>3. rollout \in Rollout /\ rollout >= memory.start
    <3>1. rollout \in Boundary /\ memory.start \in Int
      BY WindowTypes DEF IInv, TypeOK, DriverOK
    <3> QED
      BY <2>2, <3>1, NumRolloutsAssumption DEF Boundary, Rollout
  <2> QED
    BY <2>1, <2>2, <2>3 DEF Recording
<1>5. Reconciled' /\ ReadyAccepted'
  BY DEF NotifyCommit, IInv, Reconciled, Alive, Current, DriverSynced, LostConversions,
     ReadyAccepted
<1>6. Progress' /\ Waiting'
  BY DEF NotifyCommit, IInv, Progress, Alive, DriverSynced, ColdStart, Waiting
<1> QED
  BY <1>1, <1>2, <1>3, <1>4, <1>5, <1>6 DEF IInv

(* The train loop goes on. *)
LEMMA NextIterationStep == IInv /\ NextIteration => IInv'
<1> SUFFICES ASSUME IInv, NextIteration PROVE IInv'
  OBVIOUS
<1>1. TypeOK'
  <2>1. ServingOK' /\ QueueOK' /\ DiskOK' /\ WindowOK'
    BY DEF NextIteration, IInv, TypeOK, ServingOK, QueueOK, DiskOK, WindowOK
  <2>2. ManagerOK'
    BY DEF NextIteration, IInv, TypeOK, ManagerOK, ManagerAt, Calls
  <2>3. DriverOK'
    BY NumRolloutsAssumption DEF NextIteration, IInv, TypeOK, DriverOK, DriverAt, Progress,
       Boundary
  <2> QED
    BY <2>1, <2>2, <2>3 DEF TypeOK
<1>2. MemorySound' /\ JournalSound' /\ WindowsFormed' /\ Unjournalled'
  BY DEF NextIteration, IInv, MemorySound, Alive, Current, Sound, Readable, JournalSound,
     WindowsFormed, Formed, Absent, Unjournalled
<1>3. FirstManager' /\ JournalSynced' /\ OneCall' /\ StepOfCall'
  BY DEF NextIteration, IInv, FirstManager, FirstAttempt, Current, JournalSynced, Synced,
     ManagerSynced, DriverSynced, Alive, OneCall, StepOfCall
<1>4. Recording' /\ Reconciled' /\ ReadyAccepted'
  BY DEF NextIteration, IInv, Recording, Absent, Retained, ColdStart, Reconciled, Alive,
     Current, DriverSynced, LostConversions, ReadyAccepted
<1>5. Progress' /\ Waiting'
  BY DEF NextIteration, IInv, Progress, Alive, DriverSynced, ColdStart, Waiting
<1> QED
  BY <1>1, <1>2, <1>3, <1>4, <1>5 DEF IInv

(* The driver disposes of the session after the last rollout. *)
LEMMA FinishStep == IInv /\ Finish => IInv'
<1> SUFFICES ASSUME IInv, Finish PROVE IInv'
  OBVIOUS
<1>1. TypeOK'
  BY DEF Finish, IInv, TypeOK, ServingOK, QueueOK, DiskOK, ManagerOK, WindowOK, DriverOK,
     ManagerAt, Calls, DriverAt
<1>2. MemorySound' /\ JournalSound' /\ WindowsFormed' /\ Unjournalled'
  BY DEF Finish, IInv, MemorySound, Alive, Current, Sound, Readable, JournalSound,
     WindowsFormed, Formed, Absent, Unjournalled
<1>3. FirstManager' /\ JournalSynced' /\ OneCall' /\ StepOfCall'
  BY DEF Finish, IInv, FirstManager, FirstAttempt, Current, JournalSynced, Synced,
     ManagerSynced, DriverSynced, Alive, OneCall, StepOfCall
<1>4. Recording'
  BY NumRolloutsAssumption DEF Finish, IInv, Recording, TypeOK, DriverOK, WindowOK, Rollout,
     Boundary, Progress, Alive, Absent, DriverSynced, StepOfCall, Memory, ColdStart
<1>5. Reconciled' /\ ReadyAccepted'
  BY DEF Finish, IInv, Reconciled, Alive, Current, DriverSynced, LostConversions, ReadyAccepted
<1>6. Progress' /\ Waiting'
  BY DEF Finish, IInv, Progress, Alive, DriverSynced, ColdStart, Waiting
<1> QED
  BY <1>1, <1>2, <1>3, <1>4, <1>5, <1>6 DEF IInv

(* A call raises at any of its steps. *)
LEMMA CallRaisesStep == IInv /\ CallRaises => IInv'
<1> SUFFICES ASSUME IInv, CallRaises PROVE IInv'
  OBVIOUS
<1>1. TypeOK'
  BY DEF CallRaises, IInv, TypeOK, ServingOK, QueueOK, DiskOK, ManagerOK, WindowOK, DriverOK,
     ManagerAt, Calls, DriverAt
<1>2. MemorySound'
  BY NumRolloutsAssumption DEF CallRaises, IInv, MemorySound, Alive, Current, OneCall, Sound,
     Readable, Absent, StepOfCall
<1>3. JournalSound' /\ WindowsFormed' /\ Unjournalled'
  BY DEF CallRaises, IInv, JournalSound, Current, Sound, Readable, WindowsFormed, Formed,
     Absent, Unjournalled
<1>4. FirstManager' /\ JournalSynced' /\ OneCall' /\ StepOfCall'
  BY DEF CallRaises, IInv, FirstManager, FirstAttempt, Current, JournalSynced, Synced,
     ManagerSynced, DriverSynced, Alive, OneCall, StepOfCall
<1>5. Recording' /\ Reconciled' /\ ReadyAccepted'
  BY DEF CallRaises, IInv, Recording, Absent, Retained, ColdStart, Reconciled, Alive, Current,
     DriverSynced, LostConversions, ReadyAccepted, OneCall, StepOfCall
<1>6. Progress' /\ Waiting'
  BY DEF CallRaises, IInv, Progress, Alive, DriverSynced, ColdStart, Waiting, OneCall, StepOfCall
<1> QED
  BY <1>1, <1>2, <1>3, <1>4, <1>5, <1>6 DEF IInv

(* Cleanup goes on after an error. *)
LEMMA DisposeRaisesStep == IInv /\ DisposeRaises => IInv'
<1> SUFFICES ASSUME IInv, DisposeRaises PROVE IInv'
  OBVIOUS
<1>1. TypeOK'
  BY DEF DisposeRaises, Disposed, IInv, TypeOK, ServingOK, QueueOK, DiskOK, ManagerOK, WindowOK,
     DriverOK, ManagerAt, Calls, DriverAt
<1>2. MemorySound'
  BY NumRolloutsAssumption DEF DisposeRaises, Disposed, IInv, MemorySound, Alive, Current,
     OneCall, Sound, Readable, Absent, StepOfCall
<1>3. JournalSound' /\ WindowsFormed' /\ Unjournalled'
  BY DEF DisposeRaises, Disposed, IInv, JournalSound, Current, Sound, Readable, WindowsFormed,
     Formed, Absent, Unjournalled
<1>4. FirstManager' /\ JournalSynced' /\ OneCall' /\ StepOfCall'
  BY DEF DisposeRaises, Disposed, IInv, FirstManager, FirstAttempt, Current, JournalSynced,
     Synced, ManagerSynced, DriverSynced, Alive, OneCall, StepOfCall
<1>5. Recording'
  BY NumRolloutsAssumption DEF DisposeRaises, Disposed, IInv, Recording, StepOfCall, ColdStart
<1>6. Reconciled' /\ ReadyAccepted'
  BY DEF DisposeRaises, Disposed, IInv, Reconciled, Alive, Current, DriverSynced,
     LostConversions, ReadyAccepted, OneCall, StepOfCall
<1>7. Progress' /\ Waiting'
  BY DEF DisposeRaises, Disposed, IInv, Progress, Alive, DriverSynced, ColdStart, Waiting,
     OneCall, StepOfCall
<1> QED
  BY <1>1, <1>2, <1>3, <1>4, <1>5, <1>6, <1>7 DEF IInv

(* The manager dies at any step. *)
LEMMA ManagerDiesStep == IInv /\ ManagerDies => IInv'
<1> SUFFICES ASSUME IInv, ManagerDies PROVE IInv'
  OBVIOUS
<1>1. TypeOK'
  <2>1. ServingOK' /\ QueueOK' /\ DiskOK' /\ WindowOK' /\ DriverOK'
    BY DEF ManagerDies, IInv, TypeOK, ServingOK, QueueOK, DiskOK, WindowOK, DriverOK, DriverAt
  <2>2. ManagerOK'
    <3>1. "dead" \in ManagerAt /\ managerAt' = "dead" /\ deaths' = deaths + 1
      BY DEF ManagerAt, ManagerDies
    <3>2. deaths' \in Nat
      BY <3>1 DEF IInv, TypeOK, ManagerOK
    <3>3. UNCHANGED <<call, target, retainedServing, incarnations>>
      BY DEF ManagerDies
    <3> QED
      BY <3>1, <3>2, <3>3 DEF IInv, TypeOK, ManagerOK
  <2> QED
    BY <2>1, <2>2 DEF TypeOK
<1>2. MemorySound' /\ JournalSound' /\ WindowsFormed' /\ Unjournalled'
  BY DEF ManagerDies, IInv, MemorySound, Alive, Current, Sound, Readable, JournalSound,
     WindowsFormed, Formed, Absent, Unjournalled
<1>3. FirstManager' /\ JournalSynced' /\ OneCall' /\ StepOfCall'
  BY DEF ManagerDies, IInv, FirstManager, FirstAttempt, Current, JournalSynced, Synced,
     ManagerSynced, DriverSynced, Alive, OneCall, StepOfCall
<1>4. Recording' /\ Reconciled' /\ ReadyAccepted'
  BY DEF ManagerDies, IInv, Recording, Absent, Retained, ColdStart, Reconciled, Alive, Current,
     DriverSynced, LostConversions, ReadyAccepted
<1>5. Progress' /\ Waiting'
  BY DEF ManagerDies, IInv, Progress, Alive, DriverSynced, ColdStart, Waiting
<1> QED
  BY <1>1, <1>2, <1>3, <1>4, <1>5 DEF IInv

(* The driver finds its manager dead. *)
LEMMA CallFailsStep == IInv /\ CallFails => IInv'
<1> SUFFICES ASSUME IInv, CallFails PROVE IInv'
  OBVIOUS
<1>1. TypeOK'
  BY DEF CallFails, IInv, TypeOK, ServingOK, QueueOK, DiskOK, ManagerOK, WindowOK, DriverOK,
     ManagerAt, Calls, DriverAt
<1>2. MemorySound' /\ JournalSound' /\ WindowsFormed' /\ Unjournalled'
  BY DEF CallFails, IInv, MemorySound, Alive, Current, Sound, Readable, JournalSound,
     WindowsFormed, Formed, Absent, Unjournalled
<1>3. FirstManager' /\ JournalSynced' /\ OneCall' /\ StepOfCall'
  BY DEF CallFails, IInv, FirstManager, FirstAttempt, Current, JournalSynced, Synced,
     ManagerSynced, DriverSynced, Alive, OneCall, StepOfCall
<1>4. Recording' /\ Reconciled' /\ ReadyAccepted'
  BY DEF CallFails, IInv, Recording, Absent, Retained, ColdStart, Reconciled, Alive, Current,
     DriverSynced, LostConversions, ReadyAccepted
<1>5. Progress' /\ Waiting'
  BY DEF CallFails, IInv, Progress, Alive, DriverSynced, ColdStart, Waiting
<1> QED
  BY <1>1, <1>2, <1>3, <1>4, <1>5 DEF IInv

(* The driver dies; its call goes on. *)
LEMMA DriverDiesStep == IInv /\ DriverDies => IInv'
<1> SUFFICES ASSUME IInv, DriverDies PROVE IInv'
  OBVIOUS
<1>1. TypeOK'
  <2>1. ServingOK' /\ QueueOK' /\ DiskOK'
    BY DEF DriverDies, Attempting, IInv, TypeOK, ServingOK, QueueOK, DiskOK
  <2>2. ManagerOK' /\ WindowOK'
    BY DEF DriverDies, Attempting, IInv, TypeOK, ManagerOK, WindowOK, ManagerAt, Calls
  <2>3. DriverOK'
    BY DEF DriverDies, Attempting, IInv, TypeOK, DriverOK, DriverAt
  <2> QED
    BY <2>1, <2>2, <2>3 DEF TypeOK
<1>2. MemorySound' /\ JournalSound' /\ WindowsFormed' /\ Unjournalled'
  BY DEF DriverDies, Attempting, IInv, MemorySound, Alive, Current, Sound, Readable,
     JournalSound, WindowsFormed, Formed, Absent, Unjournalled
<1>3. FirstManager' /\ JournalSynced' /\ OneCall' /\ StepOfCall'
  BY DEF DriverDies, Attempting, IInv, FirstManager, FirstAttempt, Current, JournalSynced,
     Synced, ManagerSynced, DriverSynced, Alive, OneCall, StepOfCall
<1>4. Recording'
  BY DEF DriverDies, Attempting, IInv, Recording, Absent, Retained, ColdStart, OneCall
<1>5. Reconciled'
  BY DEF DriverDies, Attempting, IInv, Reconciled, Alive, Current, DriverSynced,
     LostConversions, OneCall
<1>6. ReadyAccepted'
  BY DEF DriverDies, Attempting, IInv, ReadyAccepted, OneCall
<1>7. Progress' /\ Waiting'
  BY DEF DriverDies, Attempting, IInv, Progress, Alive, DriverSynced, ColdStart, Waiting
<1> QED
  BY <1>1, <1>2, <1>3, <1>4, <1>5, <1>6, <1>7 DEF IInv

(* The session is lost; no journal is of the next one. *)
LEMMA SessionLostStep == IInv /\ SessionLost => IInv'
<1> SUFFICES ASSUME IInv, SessionLost PROVE IInv'
  OBVIOUS
<1>1. TypeOK'
  <2>1. ServingOK' /\ QueueOK' /\ DiskOK' /\ WindowOK'
    BY DEF SessionLost, IInv, TypeOK, ServingOK, QueueOK, DiskOK, WindowOK
  <2>2. ManagerOK' /\ DriverOK'
    BY DEF SessionLost, IInv, TypeOK, ManagerOK, DriverOK, ManagerAt, Calls, DriverAt
  <2> QED
    BY <2>1, <2>2 DEF TypeOK
<1>2. MemorySound'
  BY DEF SessionLost, IInv, MemorySound, Alive, Current, Sound, Readable
<1>3. JournalSound'
  BY NumRolloutsAssumption DEF SessionLost, IInv, JournalSound, TypeOK, DiskOK, ServingOK,
     Current, WindowsFormed, Formed, Memory
<1>4. WindowsFormed'
  <2>1. session' = session + 1 /\ UNCHANGED <<memory, journal, committed>>
    BY DEF SessionLost
  <2>2. memory.origin <= session' /\ journal.origin <= session'
    BY <2>1 DEF IInv, WindowsFormed, Formed, TypeOK, ServingOK, DiskOK, WindowOK, Memory
  <2> QED
    BY <2>1, <2>2 DEF IInv, WindowsFormed, Formed, Absent
<1>5. Unjournalled'
  BY DEF SessionLost, IInv, Unjournalled
<1>6. FirstManager'
  <2>1. /\ session' = session + 1 /\ attachments' = 0 /\ finished' = {} /\ managerAt' = "dead"
        /\ driverAt' = "none" /\ UNCHANGED <<journal, journalExists>>
    BY DEF SessionLost
  <2>2. ~Current(journal)'
    <3>1. journal.origin <= session /\ journal.origin \in Int /\ session \in Int
      BY DEF IInv, WindowsFormed, Formed, TypeOK, ServingOK, DiskOK, Memory
    <3>2. journal.origin # session + 1
      BY <3>1
    <3> QED
      BY <2>1, <3>2 DEF Current
  <2> QED
    BY <2>1, <2>2 DEF FirstManager, FirstAttempt
<1>7. JournalSynced' /\ OneCall' /\ StepOfCall'
  BY DEF SessionLost, IInv, JournalSynced, Synced, ManagerSynced, DriverSynced, Alive, OneCall,
     StepOfCall
<1>8. Recording' /\ Reconciled' /\ ReadyAccepted'
  BY DEF SessionLost, IInv, Recording, Absent, Retained, ColdStart, Reconciled, Alive, Current,
     DriverSynced, LostConversions, ReadyAccepted
<1>9. Progress' /\ Waiting'
  BY DEF SessionLost, IInv, Progress, Alive, DriverSynced, ColdStart, Waiting
<1> QED
  BY <1>1, <1>2, <1>3, <1>4, <1>5, <1>6, <1>7, <1>8, <1>9 DEF IInv

(* Every step of the system preserves the inductive invariant. *)
LEMMA NextIInv == IInv /\ [Next]_vars => IInv'
<1> SUFFICES ASSUME IInv, [Next]_vars PROVE IInv'
  OBVIOUS
<1>1. CASE ManagerStep
  BY <1>1, OpenJournalStep, PersistManagerStep, ReconcileRawStep, ReconcileConvertedStep,
     RememberRawStep, RetainRawStep, PersistRawStep, RetainConvertedStep, PersistConvertedStep,
     ReconcileCheckpointStep, DropBatchesStep, PersistBoundaryStep, ReleaseStorageStep,
     RegisterTrainersStep, LoadStep, PersistLoadStep, GenerateStep, CollectStep, BeginStep,
     PublishConvertedStep, FinishBatchStep, DisposeStep, RemoveJournalStep DEF ManagerStep
<1>2. CASE AttachServing
  BY <1>2, AttachServingStep
<1>3. CASE DriverStep
  BY <1>3, CreateManagerStep, FindManagerStep, AttachManagerStep, CreateModelsStep,
     LoadRolloutStep, CallGenerateStep, CallFinishStep, CommitCheckpointStep,
     SkipCheckpointStep, NotifyCommitStep, NextIterationStep, FinishStep DEF DriverStep
<1>4. CASE Failure
  BY <1>4, CallRaisesStep, DisposeRaisesStep, ManagerDiesStep, CallFailsStep, DriverDiesStep,
     SessionLostStep DEF Failure
<1>5. CASE UNCHANGED vars
  <2> USE <1>5 DEF vars, IInv
  <2>1. TypeOK'
    BY DEF TypeOK, ServingOK, QueueOK, DiskOK, ManagerOK, WindowOK, DriverOK
  <2>2. MemorySound' /\ JournalSound' /\ WindowsFormed' /\ Unjournalled'
    BY DEF MemorySound, JournalSound, WindowsFormed, Unjournalled, Sound, Readable, Formed,
       Alive, Absent, Current
  <2>3. FirstManager' /\ OneCall' /\ ReadyAccepted'
    BY DEF FirstManager, FirstAttempt, Current, DriverSynced, Alive, OneCall, ReadyAccepted
  <2>4. JournalSynced' /\ StepOfCall'
    BY DEF JournalSynced, Synced, ManagerSynced, DriverSynced, Alive, StepOfCall
  <2>5. Recording'
    BY DEF Recording, Absent, Retained, ColdStart
  <2>6. Reconciled'
    BY DEF Reconciled, Alive, Current, DriverSynced, LostConversions
  <2>7. Progress' /\ Waiting'
    BY DEF Progress, Waiting, Alive, DriverSynced, ColdStart
  <2> QED
    BY <2>1, <2>2, <2>3, <2>4, <2>5, <2>6, <2>7
<1> QED
  BY <1>1, <1>2, <1>3, <1>4, <1>5 DEF Next

-----------------------------------------------------------------------------
(* The theorems *)

(* The invariant holds in every behaviour, whatever fails and whenever. *)
THEOREM Invariant == Spec => []IInv
<1>1. Init => IInv
  BY InitIInv
<1>2. IInv /\ [Next]_vars => IInv'
  BY NextIInv
<1> QED
  BY <1>1, <1>2, PTL DEF Spec

(* The recovery state keeps its type: no boundary or target leaves the job,  *)
(* for every number of rollouts, attempts, deaths and sessions.              *)
THEOREM TypeCorrect == Spec => []TypeOK
<1>1. IInv => TypeOK
  BY DEF IInv
<1> QED
  BY <1>1, Invariant, PTL

(* What a journal of the living session lists can be read, at every point    *)
(* of remember_raw, remember_converted, checkpoint_committed and dispose     *)
(* where the manager may raise or die.                                       *)
THEOREM JournalAlwaysReadable == Spec => []JournalReadable
<1>1. IInv => JournalReadable
  BY DEF IInv, JournalSound, Sound, JournalReadable
<1> QED
  BY <1>1, Invariant, PTL

(* What was trained and is not covered by a commit is in the journal,        *)
(* converted: after finish_batch there is no other copy to train from.       *)
THEOREM TrainedAlwaysRetained == Spec => []FinishedRetained
<1>1. IInv => FinishedRetained
  <2> SUFFICES ASSUME IInv, journalExists, Current(journal), NEW r \in finished
               PROVE  journal.batches[r] = "converted" \/ \E c \in committed : c >= r
    BY DEF FinishedRetained
  <2>1. Sound(journal) /\ Formed(journal) /\ r \in Int /\ journal.start \in Nat
    BY WindowTypes, RolloutNat DEF IInv, JournalSound, WindowsFormed, TypeOK, QueueOK
  <2>2. committed \subseteq Nat
    BY RolloutNat DEF IInv, TypeOK, DiskOK
  <2>3. CASE journal.loaded
    <3>1. CASE r < journal.start
      <4>1. r \in Nat
        BY RolloutNat DEF IInv, TypeOK, QueueOK
      <4>2. journal.start > 0 /\ journal.start - 1 >= r
        BY <2>1, <3>1, <4>1
      <4>3. journal.start - 1 \in committed
        BY <2>1, <4>2 DEF Formed
      <4> QED
        BY <4>2, <4>3
    <3>2. CASE journal.batches[r] = "converted"
      BY <3>2
    <3> QED
      BY <2>1, <2>3, <3>1, <3>2 DEF Sound
  <2>4. CASE ~journal.loaded
    <3>1. PICK c \in committed : r <= c
      BY <2>1, <2>4 DEF Sound
    <3> QED
      BY <2>1, <2>2, <3>1
  <2> QED
    BY <2>3, <2>4
<1> QED
  BY <1>1, Invariant, PTL

-----------------------------------------------------------------------------
(* The order of rollouts: an inductive invariant on top of IInv *)

(* A window lists consecutive rollouts from its boundary. *)
Contiguous(m) ==
    \A r \in Retained(m), q \in Rollout : m.start <= q /\ q <= r => q \in Retained(m)
Contiguity == Contiguous(memory) /\ Contiguous(journal)

(* No commit is at or after the rollout an attempt works on. *)
CommitsBelow(b) == \A c \in committed : c < b
CommitsBehind ==
    /\ driverAt \in {"load", "generate", "train", "save?"} => CommitsBelow(rollout)
    /\ driverAt \in {"notify", "next"} => CommitsBelow(rollout + 1)
    /\ driverAt = "register" /\ Alive /\ memory.loaded => CommitsBelow(memory.start)
    /\ driverAt = "waiting" =>
        /\ call \in {"register", "load", "generate", "finish"} => CommitsBelow(rollout)
        /\ call = "commit" => CommitsBelow(rollout + 1)
        /\ call = "attach" /\ managerAt = "drop batches" => CommitsBelow(target + 1)
        /\ call = "attach" /\ managerAt \notin {"reconcile checkpoint", "drop batches"} /\ memory.loaded =>
              CommitsBelow(memory.start)

(* A rollout is asked for when the one before it is in the window, or it is  *)
(* the first of the window.                                                  *)
Follows(m, r) == r = m.start \/ r - 1 \in Retained(m)
InOrder ==
    /\ Alive =>
        /\ driverAt \in {"train", "save?"} => rollout \in Retained(memory)
        /\ driverAt = "next" => Follows(memory, rollout + 1)
        /\ driverAt = "generate" => Follows(memory, rollout)
        /\ driverAt = "waiting" /\ call = "finish" => rollout \in Retained(memory)
    /\ managerAt = "generate" => Follows(memory, target)
    /\ managerAt \in {"collect", "remember raw"} => NextRollout(memory, target)

(* What the queue has accepted and a window does not list: nothing but the   *)
(* next rollout, and nothing beyond a commit while it is not loaded.         *)
Listed(m, r) == r < m.start \/ r \in Retained(m)
Accounted(m) ==
    /\ m.loaded => \A r \in accepted : Listed(m, r) \/ NextRollout(m, r)
    /\ ~m.loaded => \A r \in accepted : \E c \in committed : r <= c
AcceptedAccounted ==
    /\ Alive /\ Current(memory) => Accounted(memory)
    /\ journalExists /\ Current(journal) => Accounted(journal)
    /\ ~journalExists => \A r \in accepted : \E c \in committed : r <= c
    /\ FirstAttempt \/ (managerAt = "open journal" /\ ~retainedServing) => accepted = {}

(* Past the reconciliation of an attempt no collection is missing. *)
PastCollection ==
    \/ DriverSynced \/ driverAt = "register"
    \/ managerAt # "idle" /\ call \in {"register", "load", "finish", "commit"}
    \/ managerAt \notin {"idle", "remember raw"} /\ call = "generate"
    \/ managerAt \in {"retain raw", "persist raw", "reconcile conversions", "retain converted",
                     "persist converted"} /\ call \in {"init", "attach"}
CollectionsListed ==
    Alive /\ Current(memory) /\ memory.loaded /\ PastCollection => \A r \in accepted : Listed(memory, r)

Ordered == Contiguity /\ CommitsBehind /\ InOrder /\ AcceptedAccounted /\ CollectionsListed

-----------------------------------------------------------------------------
(* Lemmas *)

(* Facts about types, for leaves about arithmetic. *)
LEMMA Numbers ==
    ASSUME IInv
    PROVE  /\ Rollout \subseteq Nat /\ Boundary \subseteq Nat /\ Rollout \subseteq Boundary
           /\ memory.start \in Nat /\ journal.start \in Nat /\ rollout \in Nat /\ target \in Nat
           /\ accepted \subseteq Rollout /\ committed \subseteq Rollout
BY WindowTypes, RolloutInBoundary, RolloutNat
   DEF IInv, TypeOK, QueueOK, DiskOK, DriverOK, ManagerOK, Boundary

(* A set of rollouts that is not empty has a last one. *)
LEMMA LastRollout ==
    ASSUME NEW S \in SUBSET Rollout, S # {}
    PROVE  \E m \in S : \A r \in S : r <= m
<1> DEFINE T == {NumRollouts - r : r \in S}
<1>1. T \subseteq Nat /\ T # {}
  <2>1. \A r \in S : NumRollouts - r \in Nat
    BY NumRolloutsAssumption DEF Rollout
  <2> QED  BY <2>1
<1>2. \E x \in T : \A y \in T : ~ (<<y, x>> \in OpToRel(<, Nat))
  BY <1>1, NatLessThanWellFounded, WFMin, Zenon
<1>3. PICK x \in T : \A y \in T : x <= y
  <2>1. \A y, x \in Nat : y < x => <<y, x>> \in OpToRel(<, Nat)
    BY DEF OpToRel
  <2>2. PICK x \in T : \A y \in T : ~ (<<y, x>> \in OpToRel(<, Nat))
    BY <1>2
  <2>3. \A y \in T : x \in Nat /\ y \in Nat /\ ~ (y < x)
    BY <1>1, <2>1, <2>2
  <2> QED  BY <2>3
<1>4. PICK m \in S : x = NumRollouts - m
  OBVIOUS
<1>5. \A r \in S : NumRollouts - m <= NumRollouts - r
  BY <1>3, <1>4
<1>6. \A r \in S : r \in Int /\ NumRollouts \in Int
  BY NumRolloutsAssumption DEF Rollout
<1> QED  BY <1>5, <1>6

(* If no commit is both the newest and unknown to the window, then every    *)
(* commit is below the boundary of the window.                              *)
LEMMA KnownCommits ==
    ASSUME IInv, memory.loaded, \A c \in committed : ~UnknownCommit(c)
    PROVE  CommitsBelow(memory.start)
<1>1. CASE committed = {}
  BY <1>1 DEF CommitsBelow
<1>2. CASE committed # {}
  <2>1. PICK m \in committed : \A c \in committed : c <= m
    BY <1>2, Numbers, LastRollout
  <2>2. ~ (m >= memory.start)
    BY <2>1 DEF UnknownCommit
  <2> QED  BY <2>1, <2>2, Numbers DEF CommitsBelow
<1> QED  BY <1>1, <1>2

(* Only one rollout can come next. *)
LEMMA OneNext ==
    ASSUME NEW m, Retained(m) \subseteq Rollout, NEW r \in Rollout, NEW s \in Rollout,
           NextRollout(m, r), NextRollout(m, s)
    PROVE  r = s
BY RolloutNat DEF NextRollout

(* Steps that leave windows, commits and the accepted rollouts alone. *)
LEMMA AccountedFrame ==
    ASSUME Ordered, UNCHANGED <<memory, journal, journalExists, accepted, committed, session>>,
           Alive' => Alive,
           FirstAttempt' \/ (managerAt' = "open journal" /\ ~retainedServing') =>
               FirstAttempt \/ (managerAt = "open journal" /\ ~retainedServing)
    PROVE  AcceptedAccounted'
BY DEF Ordered, AcceptedAccounted, Accounted, Listed, NextRollout, Retained, Current

(* A new window lists nothing and is not loaded. *)
LEMMA NewWindow ==
    ASSUME NEW i, NEW s
    PROVE  Retained(NewMemory(i, s)) = {} /\ ~NewMemory(i, s).loaded
BY DEF NewMemory, Empty, Retained

(* What the fields of the window become when its batches are replaced. *)
LEMMA NewBatches ==
    ASSUME NEW m \in Memory, NEW n, NEW b, n = [m EXCEPT !.batches = b]
    PROVE  n.batches = b /\ n.start = m.start /\ n.loaded = m.loaded /\ n.origin = m.origin
BY DEF Memory

(* What is not beyond some commit is below a start id above all of them. *)
LEMMA BelowAll ==
    ASSUME IInv, \A r \in accepted : \E c \in committed : r <= c, \A c \in committed : c < target
    PROVE  \A r \in accepted : r < target
BY Numbers

(* A rollout in the window is followed by the next one. *)
LEMMA NextFollows ==
    ASSUME IInv, rollout \in Retained(memory)
    PROVE  Follows(memory, rollout + 1)
<1>1. rollout + 1 - 1 = rollout
  BY Numbers
<1> QED  BY <1>1, Numbers DEF Follows

(* Every rollout comes before the end of the job. *)
LEMMA LastOfJob ==
    \A r \in Rollout : r < NumRollouts /\ r <= NumRollouts - 1 /\ NumRollouts > 0
BY NumRolloutsAssumption DEF Rollout

(* Commits not above one of them are below the boundary after it. *)
LEMMA BelowNext ==
    ASSUME IInv
    PROVE  \A m \in committed : (\A c \in committed : c <= m) => \A c \in committed : c < m + 1
BY Numbers

(* At the end of the job every rollout is covered by the last commit. *)
LEMMA AllCommitted ==
    ASSUME IInv, memory.start = NumRollouts
    PROVE  \A r \in Rollout : \E c \in committed : r <= c
<1>1. memory.start > 0 => memory.start - 1 \in committed
  BY DEF IInv, WindowsFormed, Formed
<1>2. NumRollouts - 1 \in committed
  BY <1>1, LastOfJob, NumRolloutsAssumption
<1> QED  BY <1>2, LastOfJob

(* The manager reads the journal of the session it was given, or starts an  *)
(* empty window.                                                            *)
LEMMA OpenJournalOrdered ==
    ASSUME IInv, IInv', Ordered, OpenJournal
    PROVE  Ordered'
<1> USE DEF Ordered, OpenJournal
<1>1. Contiguity'
  <2>1. memory' = journal \/ memory' = NewMemory(incarnations + 1, session)
    OBVIOUS
  <2>2. Contiguous(NewMemory(incarnations + 1, session))
    BY NewWindow DEF Contiguous
  <2>3. Contiguous(journal)' <=> Contiguous(journal)
    BY DEF Contiguous, Retained
  <2>4. Contiguous(memory)' <=> Contiguous(memory')
    BY DEF Contiguous, Retained
  <2> QED  BY <2>1, <2>2, <2>3, <2>4 DEF Contiguity
<1>2. CommitsBehind'
  BY DEF CommitsBehind, CommitsBelow, Alive, IInv, OneCall, StepOfCall, DriverSynced
<1>3. InOrder'
  BY DEF InOrder, Follows, NextRollout, Retained, Alive, IInv, OneCall, StepOfCall, DriverSynced
<1>4. AcceptedAccounted'
  <2>1. CASE journalExists /\ retainedServing
    BY <2>1 DEF AcceptedAccounted, Accounted, Listed, NextRollout, Retained, Current, FirstAttempt
  <2>2. CASE ~(journalExists /\ retainedServing)
    <3>1. \A r \in accepted : \E c \in committed : r <= c
      BY <2>2 DEF AcceptedAccounted
    <3>2. ~memory'.loaded
      <4>1. memory' = NewMemory(incarnations + 1, session)
        BY <2>2
      <4> QED  BY <4>1, NewWindow
    <3> QED  BY <2>2, <3>1, <3>2 DEF AcceptedAccounted, Accounted, Listed, NextRollout, Retained,
                Current,
                                     FirstAttempt
  <2> QED  BY <2>1, <2>2
<1>5. CollectionsListed'
  BY DEF CollectionsListed, PastCollection, DriverSynced, Listed, Retained, Current, Alive,
     IInv, OneCall, StepOfCall
<1> QED  BY <1>1, <1>2, <1>3, <1>4, <1>5

(* The constructor ends by writing the journal: it now says what the window *)
(* says.                                                                    *)
LEMMA PersistManagerOrdered ==
    ASSUME IInv, IInv', Ordered, PersistManager
    PROVE  Ordered'
<1> USE DEF Ordered, PersistManager
<1>1. Contiguity'
  BY DEF Contiguity, Contiguous, Retained
<1>2. CommitsBehind'
  BY DEF CommitsBehind, CommitsBelow, Alive, IInv, OneCall, StepOfCall, DriverSynced
<1>3. InOrder'
  BY DEF InOrder, Follows, NextRollout, Retained, Alive, IInv, OneCall, StepOfCall, DriverSynced
<1>4. AcceptedAccounted'
  BY DEF AcceptedAccounted, Accounted, Listed, NextRollout, Retained, Current, Alive,
     FirstAttempt
<1>5. CollectionsListed'
  BY DEF CollectionsListed, PastCollection, DriverSynced, Listed, Retained, Current, Alive,
     IInv, OneCall, StepOfCall
<1> QED  BY <1>1, <1>2, <1>3, <1>4, <1>5

(* reconcile_collection stops looking for collections only when no next one *)
(* is accepted.                                                             *)
LEMMA ReconcileRawOrdered ==
    ASSUME IInv, IInv', Ordered, ReconcileRaw
    PROVE  Ordered'
<1> USE DEF Ordered, ReconcileRaw, AfterReconcile, Returned, ResumeAt, LostCollection, LostConversions
<1>1. Contiguity'
  BY DEF Contiguity, Contiguous, Retained
<1>2. CommitsBehind'
  BY DEF CommitsBehind, CommitsBelow, Alive, IInv, OneCall, StepOfCall, DriverSynced
<1>3. InOrder'
  BY DEF InOrder, Follows, NextRollout, Retained, Alive, IInv, OneCall, StepOfCall, DriverSynced
<1>4. AcceptedAccounted'
  BY AccountedFrame DEF IInv, FirstAttempt, StepOfCall, OneCall, Alive
<1>5. CollectionsListed'
  <2>1. ASSUME \A r \in accepted : ~LostCollection(r), memory.loaded, Current(memory), Alive
        PROVE  \A r \in accepted : Listed(memory, r)
    BY <2>1 DEF AcceptedAccounted, Accounted
  <2> QED  BY <2>1 DEF CollectionsListed, PastCollection, DriverSynced, Listed, Retained, Current,
              Alive, IInv,
                       OneCall, StepOfCall
<1> QED  BY <1>1, <1>2, <1>3, <1>4, <1>5

(* The search for lost conversions changes neither the window nor what is   *)
(* accepted.                                                                *)
LEMMA ReconcileConvertedOrdered ==
    ASSUME IInv, IInv', Ordered, ReconcileConverted
    PROVE  Ordered'
<1> USE DEF Ordered, ReconcileConverted, AfterReconcile, Returned, ResumeAt, LostCollection, LostConversions
<1>1. Contiguity'
  BY DEF Contiguity, Contiguous, Retained
<1>2. CommitsBehind'
  BY DEF CommitsBehind, CommitsBelow, Alive, IInv, OneCall, StepOfCall, DriverSynced
<1>3. InOrder'
  BY DEF InOrder, Follows, NextRollout, Retained, Alive, IInv, OneCall, StepOfCall, DriverSynced
<1>4. AcceptedAccounted'
  BY AccountedFrame DEF IInv, FirstAttempt, StepOfCall, OneCall, Alive
<1>5. CollectionsListed'
  BY DEF CollectionsListed, PastCollection, DriverSynced, Listed, Retained, Current, Alive,
     IInv, OneCall, StepOfCall
<1> QED  BY <1>1, <1>2, <1>3, <1>4, <1>5

(* The next rollout enters the window: it stays consecutive, and lists all  *)
(* that is accepted.                                                        *)
LEMMA RememberRawOrdered ==
    ASSUME IInv, IInv', Ordered, RememberRaw
    PROVE  Ordered'
<1> USE DEF Ordered
<1>a. /\ target \in Rollout /\ memory.batches \in [Rollout -> Batch]
      /\ NextRollout(memory, target) /\ managerAt = "remember raw" /\ memory \in Memory
  BY WindowTypes DEF IInv, Recording, InOrder, TypeOK, WindowOK, RememberRaw
<1>b. /\ Retained(memory)' = Retained(memory) \cup {target}
      /\ memory'.start = memory.start /\ memory'.loaded = memory.loaded /\ memory'.origin = memory.origin
  <2>1. memory' = [memory EXCEPT !.batches = [memory.batches EXCEPT ![target] = "raw"]]
    BY DEF RememberRaw
  <2>2. /\ memory'.batches = [memory.batches EXCEPT ![target] = "raw"] /\ memory'.start = memory.start
        /\ memory'.loaded = memory.loaded /\ memory'.origin = memory.origin
    BY <1>a, <2>1 DEF Memory
  <2> QED  BY <1>a, <2>2 DEF Retained
<1>c. ASSUME Alive, Current(memory), memory.loaded PROVE \A r \in accepted : Listed(memory, r)'
  <2>1. \A r \in accepted : Listed(memory, r) \/ r = target
    BY <1>a, <1>c, OneNext, Numbers DEF AcceptedAccounted, Accounted, Retained
  <2>2. accepted' = accepted
    BY DEF RememberRaw
  <2> QED  BY <1>b, <2>1, <2>2 DEF Listed
<1>d. UNCHANGED <<journal, accepted, committed, session>>
  BY DEF RememberRaw
<1>1. Contiguity'
  <2>1. ASSUME NEW q \in Rollout, memory.start <= q, q <= target
        PROVE  q = target \/ q \in Retained(memory)
    <3>1. q \in Nat /\ target \in Nat /\ memory.start \in Nat
      BY <1>a, Numbers
    <3>2. CASE Retained(memory) = {}
      <4>1. target = memory.start
        BY <1>a, <3>2 DEF NextRollout
      <4> QED  BY <2>1, <3>1, <4>1
    <3>3. CASE target - 1 \in Retained(memory)
      BY <2>1, <3>1, <3>3 DEF Contiguity, Contiguous
    <3> QED  BY <1>a, <3>2, <3>3 DEF NextRollout
  <2>2. \A r \in Retained(memory), q \in Rollout : memory.start <= q /\ q <= r => q \in Retained(memory)
    BY DEF Contiguity, Contiguous
  <2>3. Contiguous(memory)'
    BY <1>b, <2>1, <2>2 DEF Contiguous
  <2> QED  BY <1>d, <2>3 DEF Contiguity, Contiguous, Retained
<1>2. CommitsBehind'
  BY <1>a, <1>b DEF CommitsBehind, CommitsBelow, Alive, IInv, OneCall, StepOfCall, DriverSynced,
     RememberRaw
<1>3. InOrder'
  BY DEF InOrder, Follows, NextRollout, Retained, Alive, IInv, OneCall, StepOfCall,
     DriverSynced, RememberRaw
<1>4. AcceptedAccounted'
  <2>1. Alive' /\ Current(memory)' => Accounted(memory)'
    BY <1>b, <1>c DEF AcceptedAccounted, Accounted, Current, Alive, RememberRaw
  <2>2. Accounted(journal)' <=> Accounted(journal)
    BY <1>d DEF Accounted, Listed, NextRollout, Retained
  <2> QED  BY <2>1, <2>2 DEF AcceptedAccounted, Current, FirstAttempt, RememberRaw
<1>5. CollectionsListed'
  BY <1>a, <1>b, <1>c DEF CollectionsListed, Current, Alive, RememberRaw
<1> QED  BY <1>1, <1>2, <1>3, <1>4, <1>5

(* Pinning a collection changes no window. *)
LEMMA RetainRawOrdered ==
    ASSUME IInv, IInv', Ordered, RetainRaw
    PROVE  Ordered'
<1> USE DEF Ordered, RetainRaw
<1>1. Contiguity'
  BY DEF Contiguity, Contiguous, Retained
<1>2. CommitsBehind'
  BY DEF CommitsBehind, CommitsBelow, Alive, IInv, OneCall, StepOfCall, DriverSynced
<1>3. InOrder'
  BY DEF InOrder, Follows, NextRollout, Retained, Alive, IInv, OneCall, StepOfCall, DriverSynced
<1>4. AcceptedAccounted'
  BY DEF AcceptedAccounted, Accounted, Listed, NextRollout, Retained, Current, Alive,
     FirstAttempt
<1>5. CollectionsListed'
  BY DEF CollectionsListed, PastCollection, DriverSynced, Listed, Retained, Current, Alive,
     IInv, OneCall, StepOfCall
<1> QED  BY <1>1, <1>2, <1>3, <1>4, <1>5

(* The journal is written after a collection entered the window. *)
LEMMA PersistRawOrdered ==
    ASSUME IInv, IInv', Ordered, PersistRaw
    PROVE  Ordered'
<1> USE DEF Ordered, PersistRaw
<1>1. Contiguity'
  BY DEF Contiguity, Contiguous, Retained
<1>2. CommitsBehind'
  BY DEF CommitsBehind, CommitsBelow, Alive, IInv, OneCall, StepOfCall, DriverSynced
<1>3. InOrder'
  BY DEF InOrder, Follows, NextRollout, Retained, Alive, IInv, OneCall, StepOfCall, DriverSynced
<1>4. AcceptedAccounted'
  BY DEF AcceptedAccounted, Accounted, Listed, NextRollout, Retained, Current, Alive,
     FirstAttempt
<1>5. CollectionsListed'
  BY DEF CollectionsListed, PastCollection, DriverSynced, Listed, Retained, Current, Alive,
     IInv, OneCall, StepOfCall
<1> QED  BY <1>1, <1>2, <1>3, <1>4, <1>5

(* A batch of the window is marked converted: the window lists what it      *)
(* listed.                                                                  *)
LEMMA RetainConvertedOrdered ==
    ASSUME IInv, IInv', Ordered, RetainConverted
    PROVE  Ordered'
<1> USE DEF Ordered, RetainConverted
<1>a. /\ target \in Rollout /\ memory.batches \in [Rollout -> Batch] /\ memory.batches[target] = "raw"
  BY WindowTypes DEF IInv, Recording
<1>b. /\ Retained(memory)' = Retained(memory)
      /\ memory'.start = memory.start /\ memory'.loaded = memory.loaded /\ memory'.origin = memory.origin
  BY <1>a, WindowTypes DEF IInv, TypeOK, WindowOK, Memory, Retained
<1>1. Contiguity'
  BY <1>b DEF Contiguity, Contiguous, Retained
<1>2. CommitsBehind'
  BY <1>b DEF CommitsBehind, CommitsBelow, Alive, IInv, OneCall, StepOfCall, DriverSynced
<1>3. InOrder'
  BY DEF InOrder, Follows, NextRollout, Retained, Alive, IInv, OneCall, StepOfCall, DriverSynced
<1>4. AcceptedAccounted'
  <2>1. Accounted(memory)' <=> Accounted(memory)
    BY <1>b DEF Accounted, Listed, NextRollout
  <2>2. Accounted(journal)' <=> Accounted(journal)
    BY DEF Accounted, Listed, NextRollout, Retained
  <2> QED  BY <1>b, <2>1, <2>2 DEF AcceptedAccounted, Current, FirstAttempt, Alive
<1>5. CollectionsListed'
  BY <1>b DEF CollectionsListed, PastCollection, DriverSynced, Listed, Current, Alive, IInv,
     OneCall, StepOfCall
<1> QED  BY <1>1, <1>2, <1>3, <1>4, <1>5

(* The journal is written, and a generate call ends with its rollout in the *)
(* window.                                                                  *)
LEMMA PersistConvertedOrdered ==
    ASSUME IInv, IInv', Ordered, PersistConverted
    PROVE  Ordered'
<1> USE DEF Ordered, PersistConverted, Returned, ResumeAt
<1>1. Contiguity'
  BY DEF Contiguity, Contiguous, Retained
<1>2. CommitsBehind'
  BY DEF CommitsBehind, CommitsBelow, Alive, IInv, OneCall, StepOfCall, DriverSynced
<1>3. InOrder'
  BY DEF InOrder, Follows, NextRollout, Retained, Alive, IInv, OneCall, StepOfCall,
     DriverSynced, Recording, Waiting
<1>4. AcceptedAccounted'
  BY DEF AcceptedAccounted, Accounted, Listed, NextRollout, Retained, Current, Alive,
     FirstAttempt
<1>5. CollectionsListed'
  BY DEF CollectionsListed, PastCollection, DriverSynced, Listed, Retained, Current, Alive,
     IInv, OneCall, StepOfCall
<1> QED  BY <1>1, <1>2, <1>3, <1>4, <1>5

(* attach_training looks at the newest joint commit; if it is known, all    *)
(* are.                                                                     *)
LEMMA ReconcileCheckpointOrdered ==
    ASSUME IInv, IInv', Ordered, ReconcileCheckpoint
    PROVE  Ordered'
<1> USE DEF Ordered, ReconcileCheckpoint, UnknownCommit
<1>1. Contiguity'
  BY DEF Contiguity, Contiguous, Retained
<1>2. CommitsBehind'
  <2>1. (\A c \in committed : ~UnknownCommit(c)) /\ memory.loaded => CommitsBelow(memory.start)
    BY KnownCommits
  <2>2. managerAt' = "drop batches" => CommitsBelow(target + 1)'
    <3>1. managerAt' = "drop batches" => target' \in committed /\ \A c \in committed : c <= target'
      BY DEF UnknownCommit, AfterReconcile
    <3> QED  BY <3>1, BelowNext DEF CommitsBelow
  <2> QED  BY <2>1, <2>2 DEF CommitsBehind, CommitsBelow, UnknownCommit, IInv, OneCall,
              StepOfCall, Alive
<1>3. InOrder'
  BY DEF InOrder, Follows, NextRollout, Retained, Alive, IInv, OneCall, StepOfCall, DriverSynced
<1>4. AcceptedAccounted'
  BY DEF AcceptedAccounted, Accounted, Listed, NextRollout, Retained, Current, Alive,
     FirstAttempt
<1>5. CollectionsListed'
  BY DEF CollectionsListed, PastCollection, DriverSynced, Listed, Retained, Current, Alive,
     IInv, OneCall, StepOfCall
<1> QED  BY <1>1, <1>2, <1>3, <1>4, <1>5

(* The boundary moves behind the commit and the window drops what it        *)
(* covers, and nothing else.                                                *)
LEMMA DropBatchesOrdered ==
    ASSUME IInv, IInv', Ordered, DropBatches
    PROVE  Ordered'
<1> USE DEF Ordered
<1>a. /\ target \in Rollout /\ target >= memory.start /\ memory.loaded
      /\ memory.batches \in [Rollout -> Batch] /\ call \in {"attach", "commit"}
  BY WindowTypes DEF IInv, Recording, StepOfCall, DropBatches, Shrunk, Covered, BoundaryAfter
<1>b. /\ Retained(memory)' = {r \in Retained(memory) : r > target}
      /\ memory'.start = target + 1 /\ memory'.loaded /\ memory'.origin = memory.origin
  <2>1. memory \in Memory
    BY DEF IInv, TypeOK, WindowOK
  <2>2. memory' = [[memory EXCEPT !.start = target + 1] EXCEPT !.batches =
                      [r \in Rollout |-> IF r <= target THEN "absent" ELSE memory.batches[r]]]
    BY DEF DropBatches, Shrunk, Covered, BoundaryAfter
  <2>3. /\ memory'.batches = [r \in Rollout |-> IF r <= target THEN "absent" ELSE memory.batches[r]]
        /\ memory'.start = target + 1 /\ memory'.loaded = memory.loaded /\ memory'.origin = memory.origin
    BY <2>1, <2>2 DEF Memory
  <2>4. \A r \in Rollout : (r > target) = ~(r <= target)
    BY <1>a, Numbers
  <2> QED  BY <1>a, <2>3, <2>4 DEF Retained
<1>d. UNCHANGED <<journal, accepted, committed, session>>
  BY DEF DropBatches, Shrunk, Covered, BoundaryAfter
<1>c. ASSUME NEW r \in accepted
      PROVE  /\ Listed(memory, r) => Listed(memory, r)'
             /\ NextRollout(memory, r) => Listed(memory, r)' \/ NextRollout(memory, r)'
  <2>1. r \in Nat /\ target \in Nat /\ memory.start \in Nat /\ \A s \in Retained(memory) : s \in Nat
    BY Numbers DEF Retained
  <2>2. CASE r <= target
    BY <1>b, <2>1, <2>2 DEF Listed
  <2>3. CASE r > target
    <3>1. Listed(memory, r) => Listed(memory, r)'
      BY <1>a, <1>b, <2>1, <2>3 DEF Listed
    <3>2. ASSUME NextRollout(memory, r) PROVE NextRollout(memory, r)'
      <4>1. /\ \A s \in Retained(memory) : s < r
            /\ Retained(memory) # {} /\ r - 1 \in Retained(memory)
        BY <1>a, <2>1, <2>3, <3>2 DEF NextRollout
      <4>2. \A s \in Retained(memory)' : s < r
        BY <1>b, <4>1
      <4>3. CASE r - 1 = target
        <5>1. Retained(memory)' = {}
          BY <1>b, <2>1, <4>1, <4>3
        <5> QED  BY <1>b, <2>1, <4>3, <5>1 DEF NextRollout
      <4>4. CASE r - 1 > target
        BY <1>b, <4>1, <4>2, <4>4 DEF NextRollout
      <4> QED  BY <2>1, <2>3, <4>3, <4>4
    <3> QED  BY <3>1, <3>2
  <2> QED  BY <2>1, <2>2, <2>3
<1>1. Contiguity'
  <2>1. ASSUME NEW r \in Retained(memory)', NEW q \in Rollout, memory'.start <= q, q <= r
        PROVE  q \in Retained(memory)'
    <3>1. q \in Nat /\ target \in Nat /\ memory.start \in Nat /\ r \in Retained(memory)
      BY <1>b, Numbers
    <3>2. memory.start <= q /\ q > target
      BY <1>a, <1>b, <2>1, <3>1
    <3> QED  BY <1>b, <2>1, <3>1, <3>2 DEF Contiguity, Contiguous
  <2>2. Contiguous(memory)'
    BY <2>1 DEF Contiguous
  <2> QED  BY <1>d, <2>2 DEF Contiguity, Contiguous, Retained
<1>2. CommitsBehind'
  BY <1>a, <1>b DEF CommitsBehind, CommitsBelow, Alive, IInv, OneCall, StepOfCall, DriverSynced,
     DropBatches, Shrunk, Covered, BoundaryAfter
<1>3. InOrder'
  BY DEF InOrder, Follows, NextRollout, Retained, Alive, IInv, OneCall, StepOfCall,
     DriverSynced, DropBatches, Shrunk, Covered, BoundaryAfter
<1>4. AcceptedAccounted'
  <2>1. Alive' /\ Current(memory)' => Accounted(memory)'
    BY <1>a, <1>b, <1>c DEF AcceptedAccounted, Accounted, Current, Alive, DropBatches, Shrunk,
       Covered, BoundaryAfter
  <2>2. Accounted(journal)' <=> Accounted(journal)
    BY <1>d DEF Accounted, Listed, NextRollout, Retained
  <2> QED  BY <2>1, <2>2 DEF AcceptedAccounted, Current, FirstAttempt, DropBatches, Shrunk,
              Covered, BoundaryAfter
<1>5. CollectionsListed'
  BY <1>a, <1>b, <1>c DEF CollectionsListed, PastCollection, DriverSynced, Current, Alive, IInv,
     OneCall, DropBatches, Shrunk, Covered, BoundaryAfter
<1> QED  BY <1>1, <1>2, <1>3, <1>4, <1>5

(* The moved boundary becomes durable. *)
LEMMA PersistBoundaryOrdered ==
    ASSUME IInv, IInv', Ordered, PersistBoundary
    PROVE  Ordered'
<1> USE DEF Ordered, PersistBoundary
<1>1. Contiguity'
  BY DEF Contiguity, Contiguous, Retained
<1>2. CommitsBehind'
  BY DEF CommitsBehind, CommitsBelow, Alive, IInv, OneCall, StepOfCall, DriverSynced
<1>3. InOrder'
  BY DEF InOrder, Follows, NextRollout, Retained, Alive, IInv, OneCall, StepOfCall, DriverSynced
<1>4. AcceptedAccounted'
  BY DEF AcceptedAccounted, Accounted, Listed, NextRollout, Retained, Current, Alive,
     FirstAttempt
<1>5. CollectionsListed'
  BY DEF CollectionsListed, PastCollection, DriverSynced, Listed, Retained, Current, Alive,
     IInv, OneCall, StepOfCall
<1> QED  BY <1>1, <1>2, <1>3, <1>4, <1>5

(* Storage is released after the boundary is durable. *)
LEMMA ReleaseStorageOrdered ==
    ASSUME IInv, IInv', Ordered, ReleaseStorage
    PROVE  Ordered'
<1> USE DEF Ordered, ReleaseStorage, Returned, ResumeAt
<1>1. Contiguity'
  BY DEF Contiguity, Contiguous, Retained
<1>2. CommitsBehind'
  BY DEF CommitsBehind, CommitsBelow, Alive, IInv, OneCall, StepOfCall, DriverSynced
<1>3. InOrder'
  BY Numbers DEF InOrder, Follows, NextRollout, Retained, Alive, IInv, OneCall, StepOfCall,
     DriverSynced, Waiting
<1>4. AcceptedAccounted'
  BY DEF AcceptedAccounted, Accounted, Listed, NextRollout, Retained, Current, Alive,
     FirstAttempt
<1>5. CollectionsListed'
  BY DEF CollectionsListed, PastCollection, DriverSynced, Listed, Retained, Current, Alive,
     IInv, OneCall, StepOfCall
<1> QED  BY <1>1, <1>2, <1>3, <1>4, <1>5

(* The journal is written once more when trainers register. *)
LEMMA RegisterTrainersOrdered ==
    ASSUME IInv, IInv', Ordered, RegisterTrainers
    PROVE  Ordered'
<1> USE DEF Ordered, RegisterTrainers, Returned, ResumeAt
<1>1. Contiguity'
  BY DEF Contiguity, Contiguous, Retained
<1>2. CommitsBehind'
  BY DEF CommitsBehind, CommitsBelow, Alive, IInv, OneCall, StepOfCall, DriverSynced
<1>3. InOrder'
  BY DEF InOrder, Follows, NextRollout, Retained, Alive, IInv, OneCall, StepOfCall, DriverSynced
<1>4. AcceptedAccounted'
  BY DEF AcceptedAccounted, Accounted, Listed, NextRollout, Retained, Current, Alive,
     FirstAttempt, IInv, StepOfCall, OneCall
<1>5. CollectionsListed'
  BY DEF CollectionsListed, PastCollection, DriverSynced, Listed, Retained, Current, Alive,
     IInv, OneCall, StepOfCall
<1> QED  BY <1>1, <1>2, <1>3, <1>4, <1>5

(* An empty window starts at the rollout of a cold start, which is after    *)
(* every commit.                                                            *)
LEMMA LoadOrdered ==
    ASSUME IInv, IInv', Ordered, Load
    PROVE  Ordered'
<1> USE DEF Ordered, Load, Returned, ResumeAt
<1>a. /\ managerAt = "load" /\ call = "load" /\ memory \in Memory
      /\ ~memory.loaded => Retained(memory) = {} /\ ColdStart(target)
  BY DEF IInv, StepOfCall, TypeOK, WindowOK, WindowsFormed, Formed, Absent, Retained, Recording
<1>b. ~memory.loaded => /\ Retained(memory)' = {} /\ memory'.start = target /\ memory'.loaded
                        /\ memory'.origin = memory.origin
  BY <1>a DEF Memory, Retained
<1>1. Contiguity'
  <2>1. Contiguous(memory)'
    BY <1>b DEF Contiguity, Contiguous, Retained
  <2> QED  BY <2>1 DEF Contiguity, Contiguous, Retained
<1>2. CommitsBehind'
  BY DEF CommitsBehind, CommitsBelow, Alive, IInv, OneCall, StepOfCall, DriverSynced
<1>3. InOrder'
  BY <1>a DEF InOrder, Follows, NextRollout, Retained, Alive, IInv, OneCall, StepOfCall,
     DriverSynced, Waiting
<1>4. AcceptedAccounted'
  <2>1. CASE memory.loaded
    BY <1>a, <2>1, AccountedFrame DEF FirstAttempt, Alive, IInv, OneCall
  <2>2. CASE ~memory.loaded
    <3>1. Alive /\ Current(memory) => \A r \in accepted : r < target
      <4>1. Alive /\ Current(memory) => \A r \in accepted : \E c \in committed : r <= c
        BY <2>2 DEF AcceptedAccounted, Accounted
      <4>2. \A c \in committed : c < target
        BY <1>a, <2>2 DEF ColdStart
      <4> QED  BY <4>1, <4>2, BelowAll
    <3>2. Alive' /\ Current(memory)' => Accounted(memory)'
      BY <1>a, <1>b, <2>2, <3>1 DEF Accounted, Listed, Current, Alive
    <3>3. Accounted(journal)' <=> Accounted(journal)
      BY DEF Accounted, Listed, NextRollout, Retained
    <3> QED  BY <1>a, <2>2, <3>2, <3>3 DEF AcceptedAccounted, Current, FirstAttempt
  <2> QED  BY <2>1, <2>2
<1>5. CollectionsListed'
  <2>1. CASE memory.loaded
    BY <1>a, <2>1 DEF CollectionsListed, PastCollection, DriverSynced, Listed, Retained, Current,
       Alive, IInv,
                      OneCall
  <2>2. CASE ~memory.loaded
    <3>1. Alive /\ Current(memory) => \A r \in accepted : r < target
      <4>1. Alive /\ Current(memory) => \A r \in accepted : \E c \in committed : r <= c
        BY <2>2 DEF AcceptedAccounted, Accounted
      <4>2. \A c \in committed : c < target
        BY <1>a, <2>2 DEF ColdStart
      <4> QED  BY <4>1, <4>2, BelowAll
    <3> QED  BY <1>a, <1>b, <2>2, <3>1 DEF CollectionsListed, Listed, Current, Alive
  <2> QED  BY <2>1, <2>2
<1> QED  BY <1>1, <1>2, <1>3, <1>4, <1>5

(* The loaded window becomes durable. *)
LEMMA PersistLoadOrdered ==
    ASSUME IInv, IInv', Ordered, PersistLoad
    PROVE  Ordered'
<1> USE DEF Ordered, PersistLoad, Returned, ResumeAt
<1>1. Contiguity'
  BY DEF Contiguity, Contiguous, Retained
<1>2. CommitsBehind'
  BY DEF CommitsBehind, CommitsBelow, Alive, IInv, OneCall, StepOfCall, DriverSynced
<1>3. InOrder'
  BY DEF InOrder, Follows, NextRollout, Retained, Alive, IInv, OneCall, StepOfCall,
     DriverSynced, Waiting, Recording
<1>4. AcceptedAccounted'
  BY DEF AcceptedAccounted, Accounted, Listed, NextRollout, Retained, Current, Alive,
     FirstAttempt, IInv, StepOfCall, OneCall
<1>5. CollectionsListed'
  BY DEF CollectionsListed, PastCollection, DriverSynced, Listed, Retained, Current, Alive,
     IInv, OneCall, StepOfCall
<1> QED  BY <1>1, <1>2, <1>3, <1>4, <1>5

(* A rollout is collected only if it follows the newest batch of the        *)
(* window.                                                                  *)
LEMMA GenerateOrdered ==
    ASSUME IInv, IInv', Ordered, Generate
    PROVE  Ordered'
<1> USE DEF Ordered, Generate, Returned, ResumeAt
<1>a. /\ managerAt = "generate" /\ call = "generate" /\ target \in Rollout /\ target >= memory.start
      /\ Retained(memory) \subseteq Rollout
  BY DEF IInv, StepOfCall, Recording, Retained
<1>b. target \notin Retained(memory) => NextRollout(memory, target)
  <2> SUFFICES ASSUME target \notin Retained(memory) PROVE NextRollout(memory, target)
    OBVIOUS
  <2>1. \A s \in Retained(memory) : s < target
    BY <1>a, Numbers DEF Contiguity, Contiguous
  <2>2. Follows(memory, target)
    BY <1>a DEF InOrder
  <2>3. \A s \in Retained(memory) : memory.start <= s
    BY DEF IInv, WindowsFormed, Formed, Absent, Retained
  <2> QED  BY <1>a, <2>1, <2>2, <2>3, Numbers DEF NextRollout, Follows
<1>c. memory.batches[target] # "absent" => target \in Retained(memory)
  BY <1>a DEF Retained
<1>d. memory.batches[target] = "absent" => target \notin Retained(memory)
  BY DEF Retained
<1>1. Contiguity'
  BY DEF Contiguity, Contiguous, Retained
<1>2. CommitsBehind'
  BY DEF CommitsBehind, CommitsBelow, Alive, IInv, OneCall, StepOfCall, DriverSynced
<1>3. InOrder'
  <2>1. driverAt = "waiting" => target = rollout
    BY <1>a DEF IInv, Waiting
  <2>2. managerAt' = "collect" => NextRollout(memory, target)'
    BY <1>b, <1>d DEF NextRollout, Retained
  <2>3. Alive /\ driverAt \notin {"train", "save?", "next", "generate"}
    BY <1>a DEF IInv, OneCall, DriverSynced, Alive
  <2> QED  BY <1>a, <1>c, <2>1, <2>2, <2>3 DEF InOrder, Retained, IInv, OneCall
<1>4. AcceptedAccounted'
  BY AccountedFrame DEF IInv, FirstAttempt, StepOfCall, OneCall, Alive
<1>5. CollectionsListed'
  BY DEF CollectionsListed, PastCollection, DriverSynced, Listed, Retained, Current, Alive,
     IInv, OneCall, StepOfCall
<1> QED  BY <1>1, <1>2, <1>3, <1>4, <1>5

(* The queue accepts the next rollout; until it is remembered it is the     *)
(* only one not listed.                                                     *)
LEMMA CollectOrdered ==
    ASSUME IInv, IInv', Ordered, Collect
    PROVE  Ordered'
<1> USE DEF Ordered
<1>a. /\ managerAt = "collect" /\ call = "generate" /\ target \in Rollout /\ target >= memory.start
      /\ memory.loaded /\ journalExists /\ journal = memory
      /\ NextRollout(memory, target)
  BY DEF IInv, StepOfCall, Recording, JournalSynced, ManagerSynced, Synced, InOrder, Collect
<1>b. Alive /\ Current(memory) => \A r \in accepted : Listed(memory, r)
  BY <1>a DEF CollectionsListed, PastCollection
<1>c. UNCHANGED <<memory, journal, journalExists, committed, session, attachments, reused, retainedServing, driverAt>>
  BY DEF Collect
<1>d. accepted' = accepted \cup {target} /\ managerAt' = "remember raw"
  BY DEF Collect
<1>e. Alive /\ Current(memory) => Accounted(memory)'
  BY <1>a, <1>b, <1>c, <1>d DEF Accounted, Listed, NextRollout, Retained
<1>1. Contiguity'
  BY DEF Contiguity, Contiguous, Retained, Collect
<1>2. CommitsBehind'
  BY DEF CommitsBehind, CommitsBelow, Alive, IInv, OneCall, StepOfCall, DriverSynced, Collect
<1>3. InOrder'
  BY DEF InOrder, Follows, NextRollout, Retained, Alive, IInv, OneCall, StepOfCall,
     DriverSynced, Collect
<1>4. AcceptedAccounted'
  <2>1. Alive /\ ~FirstAttempt
    BY <1>a DEF Alive, IInv, FirstManager
  <2>2. /\ ~FirstAttempt' /\ managerAt' # "open journal" /\ journalExists'
        /\ Current(memory)' = Current(memory) /\ Current(journal)' = Current(memory)
    <3>1. FirstAttempt' = FirstAttempt
      BY <1>c DEF FirstAttempt
    <3>2. managerAt' # "open journal" /\ journalExists'
      BY <1>a, <1>c, <1>d
    <3> QED  BY <1>a, <1>c, <2>1, <3>1, <3>2 DEF Current
  <2>3. Accounted(journal)' <=> Accounted(memory)'
    <3>1. journal' = memory'
      BY <1>a, <1>c
    <3> QED  BY <3>1 DEF Accounted, Listed, NextRollout, Retained
  <2> QED  BY <1>c, <1>d, <1>e, <2>1, <2>2, <2>3 DEF AcceptedAccounted
<1>5. CollectionsListed'
  BY DEF CollectionsListed, PastCollection, DriverSynced, Listed, Retained, Current, Alive,
     IInv, OneCall, StepOfCall, Collect
<1> QED  BY <1>1, <1>2, <1>3, <1>4, <1>5

(* A conversion the queue already has ends the call with its rollout in the *)
(* window.                                                                  *)
LEMMA BeginOrdered ==
    ASSUME IInv, IInv', Ordered, Begin
    PROVE  Ordered'
<1> USE DEF Ordered, Begin, Returned, ResumeAt
<1>1. Contiguity'
  BY DEF Contiguity, Contiguous, Retained
<1>2. CommitsBehind'
  BY DEF CommitsBehind, CommitsBelow, Alive, IInv, OneCall, StepOfCall, DriverSynced
<1>3. InOrder'
  BY DEF InOrder, Follows, NextRollout, Retained, Alive, IInv, OneCall, StepOfCall,
     DriverSynced, Recording, Waiting
<1>4. AcceptedAccounted'
  BY AccountedFrame DEF IInv, FirstAttempt, StepOfCall, OneCall, Alive
<1>5. CollectionsListed'
  BY DEF CollectionsListed, PastCollection, DriverSynced, Listed, Retained, Current, Alive,
     IInv, OneCall, StepOfCall
<1> QED  BY <1>1, <1>2, <1>3, <1>4, <1>5

(* The queue commits a conversion of a rollout it had accepted. *)
LEMMA PublishConvertedOrdered ==
    ASSUME IInv, IInv', Ordered, PublishConverted
    PROVE  Ordered'
<1> USE DEF Ordered, PublishConverted
<1>1. Contiguity'
  BY DEF Contiguity, Contiguous, Retained
<1>2. CommitsBehind'
  BY DEF CommitsBehind, CommitsBelow, Alive, IInv, OneCall, StepOfCall, DriverSynced
<1>3. InOrder'
  BY DEF InOrder, Follows, NextRollout, Retained, Alive, IInv, OneCall, StepOfCall, DriverSynced
<1>4. AcceptedAccounted'
  BY DEF AcceptedAccounted, Accounted, Listed, NextRollout, Retained, Current, Alive,
     FirstAttempt
<1>5. CollectionsListed'
  BY DEF CollectionsListed, PastCollection, DriverSynced, Listed, Retained, Current, Alive,
     IInv, OneCall, StepOfCall
<1> QED  BY <1>1, <1>2, <1>3, <1>4, <1>5

(* training_completed lets the queue erase a batch; the window keeps it. *)
LEMMA FinishBatchOrdered ==
    ASSUME IInv, IInv', Ordered, FinishBatch
    PROVE  Ordered'
<1> USE DEF Ordered, FinishBatch, Returned, ResumeAt
<1>1. Contiguity'
  BY DEF Contiguity, Contiguous, Retained
<1>2. CommitsBehind'
  BY DEF CommitsBehind, CommitsBelow, Alive, IInv, OneCall, StepOfCall, DriverSynced
<1>3. InOrder'
  BY DEF InOrder, Follows, NextRollout, Retained, Alive, IInv, OneCall, StepOfCall, DriverSynced
<1>4. AcceptedAccounted'
  BY AccountedFrame DEF IInv, FirstAttempt, StepOfCall, OneCall, Alive
<1>5. CollectionsListed'
  BY DEF CollectionsListed, PastCollection, DriverSynced, Listed, Retained, Current, Alive,
     IInv, OneCall, StepOfCall
<1> QED  BY <1>1, <1>2, <1>3, <1>4, <1>5

(* The window is emptied when the job is done: every rollout is below its   *)
(* boundary.                                                                *)
LEMMA DisposeOrdered ==
    ASSUME IInv, IInv', Ordered, Dispose
    PROVE  Ordered'
<1> USE DEF Ordered, Dispose
<1>a. /\ managerAt = "dispose" /\ call = "dispose" /\ memory \in Memory
      /\ memory.start = NumRollouts /\ memory.loaded
  BY DEF IInv, StepOfCall, TypeOK, WindowOK, Recording
<1>b. /\ Retained(memory)' = {} /\ memory'.start = memory.start /\ memory'.loaded
      /\ memory'.origin = memory.origin
  BY <1>a DEF Memory, Retained, Empty
<1>1. Contiguity'
  <2>1. Contiguous(memory)'
    BY <1>b DEF Contiguous
  <2> QED  BY <2>1 DEF Contiguity, Contiguous, Retained
<1>2. CommitsBehind'
  BY DEF CommitsBehind, CommitsBelow, Alive, IInv, OneCall, StepOfCall, DriverSynced
<1>3. InOrder'
  BY <1>a, <1>b DEF InOrder, Follows, NextRollout, Retained, Alive, IInv, OneCall, StepOfCall,
     DriverSynced, Recording
<1>4. AcceptedAccounted'
  <2>1. \A r \in accepted : r < NumRollouts
    <3> QED  BY LastOfJob, Numbers
  <2>2. Accounted(memory)'
    BY <1>a, <1>b, <2>1 DEF Accounted, Listed
  <2>3. Accounted(journal)' <=> Accounted(journal)
    BY DEF Accounted, Listed, NextRollout, Retained
  <2> QED  BY <1>a, <2>2, <2>3 DEF AcceptedAccounted, Current, FirstAttempt
<1>5. CollectionsListed'
  BY DEF CollectionsListed, PastCollection, DriverSynced, Listed, Retained, Current, Alive,
     IInv, OneCall, StepOfCall
<1> QED  BY <1>1, <1>2, <1>3, <1>4, <1>5

(* Without the journal nothing is lost: every accepted rollout is covered   *)
(* by a commit.                                                             *)
LEMMA RemoveJournalOrdered ==
    ASSUME IInv, IInv', Ordered, RemoveJournal
    PROVE  Ordered'
<1> USE DEF Ordered, RemoveJournal, Disposed
<1>1. Contiguity'
  BY DEF Contiguity, Contiguous, Retained
<1>2. CommitsBehind'
  BY DEF CommitsBehind, CommitsBelow, Alive, IInv, OneCall, StepOfCall, DriverSynced
<1>3. InOrder'
  BY DEF InOrder, Follows, NextRollout, Retained, Alive, IInv, OneCall, StepOfCall, DriverSynced
<1>4. AcceptedAccounted'
  <2>1. call = "dispose" /\ memory.start = NumRollouts /\ Alive
    BY DEF IInv, StepOfCall, Recording, Alive
  <2>2. \A r \in accepted : \E c \in committed : r <= c
    <3> QED  BY <2>1, AllCommitted, Numbers
  <2>3. /\ Accounted(memory)' <=> Accounted(memory)
        /\ ~FirstAttempt /\ ~FirstAttempt'
    BY <2>1 DEF Accounted, Listed, NextRollout, Retained, IInv, FirstManager, FirstAttempt, Alive
  <2> QED  BY <2>1, <2>2, <2>3 DEF AcceptedAccounted, Current
<1>5. CollectionsListed'
  BY DEF CollectionsListed, PastCollection, DriverSynced, Listed, Retained, Current, Alive,
     IInv, OneCall, StepOfCall
<1> QED  BY <1>1, <1>2, <1>3, <1>4, <1>5

(* The owner admits a driver; nothing of the first one is accepted yet. *)
LEMMA AttachServingOrdered ==
    ASSUME IInv, IInv', Ordered, AttachServing
    PROVE  Ordered'
<1> USE DEF Ordered, AttachServing, Reused
<1>1. Contiguity'
  BY DEF Contiguity, Contiguous, Retained
<1>2. CommitsBehind'
  BY DEF CommitsBehind, CommitsBelow, Alive, IInv, OneCall, StepOfCall, DriverSynced
<1>3. InOrder'
  BY DEF InOrder, Follows, NextRollout, Retained, Alive, IInv, OneCall, StepOfCall, DriverSynced
<1>4. AcceptedAccounted'
  <2>1. FirstAttempt' => FirstAttempt
    <3>1. ~reused' => attachments = 0
      <4>1. ~reused' => ~(attachments > 0)
        OBVIOUS
      <4> QED  BY <4>1 DEF IInv, TypeOK, ServingOK
    <3>2. attachments' # 0
      BY DEF IInv, TypeOK, ServingOK
    <3> QED  BY <3>1, <3>2 DEF FirstAttempt
  <2> QED  BY <2>1, AccountedFrame DEF Alive
<1>5. CollectionsListed'
  BY DEF CollectionsListed, PastCollection, DriverSynced, Listed, Retained, Current, Alive,
     IInv, OneCall, StepOfCall
<1> QED  BY <1>1, <1>2, <1>3, <1>4, <1>5

(* A driver starts the manager and tells it whether the session was reused. *)
LEMMA CreateManagerOrdered ==
    ASSUME IInv, IInv', Ordered, CreateManager
    PROVE  Ordered'
<1> USE DEF Ordered, CreateManager
<1>1. Contiguity'
  BY DEF Contiguity, Contiguous, Retained
<1>2. CommitsBehind'
  BY DEF CommitsBehind, CommitsBelow, Alive, IInv, OneCall, StepOfCall, DriverSynced
<1>3. InOrder'
  BY DEF InOrder, Follows, NextRollout, Retained, Alive, IInv, OneCall, StepOfCall, DriverSynced
<1>4. AcceptedAccounted'
  BY DEF AcceptedAccounted, Accounted, Listed, NextRollout, Retained, Current, Alive,
     FirstAttempt
<1>5. CollectionsListed'
  BY DEF CollectionsListed, PastCollection, DriverSynced, Listed, Retained, Current, Alive,
     IInv, OneCall, StepOfCall
<1> QED  BY <1>1, <1>2, <1>3, <1>4, <1>5

(* A driver finds the manager running. *)
LEMMA FindManagerOrdered ==
    ASSUME IInv, IInv', Ordered, FindManager
    PROVE  Ordered'
<1> USE DEF Ordered, FindManager
<1>1. Contiguity'
  BY DEF Contiguity, Contiguous, Retained
<1>2. CommitsBehind'
  BY DEF CommitsBehind, CommitsBelow, Alive, IInv, OneCall, StepOfCall, DriverSynced
<1>3. InOrder'
  BY DEF InOrder, Follows, NextRollout, Retained, Alive, IInv, OneCall, StepOfCall, DriverSynced
<1>4. AcceptedAccounted'
  BY DEF AcceptedAccounted, Accounted, Listed, NextRollout, Retained, Current, Alive,
     FirstAttempt
<1>5. CollectionsListed'
  BY DEF CollectionsListed, PastCollection, DriverSynced, Listed, Retained, Current, Alive,
     IInv, OneCall, StepOfCall
<1> QED  BY <1>1, <1>2, <1>3, <1>4, <1>5

(* attach_training: the manager is going to reconcile with the newest       *)
(* commit.                                                                  *)
LEMMA AttachManagerOrdered ==
    ASSUME IInv, IInv', Ordered, AttachManager
    PROVE  Ordered'
<1> USE DEF Ordered, AttachManager
<1>1. Contiguity'
  BY DEF Contiguity, Contiguous, Retained
<1>2. CommitsBehind'
  BY DEF CommitsBehind, CommitsBelow, Alive, IInv, OneCall, StepOfCall, DriverSynced
<1>3. InOrder'
  BY DEF InOrder, Follows, NextRollout, Retained, Alive, IInv, OneCall, StepOfCall, DriverSynced
<1>4. AcceptedAccounted'
  BY DEF AcceptedAccounted, Accounted, Listed, NextRollout, Retained, Current, Alive,
     FirstAttempt
<1>5. CollectionsListed'
  BY DEF CollectionsListed, PastCollection, DriverSynced, Listed, Retained, Current, Alive,
     IInv, OneCall, StepOfCall
<1> QED  BY <1>1, <1>2, <1>3, <1>4, <1>5

(* The driver has the manager load the rollout it starts from. *)
LEMMA LoadRolloutOrdered ==
    ASSUME IInv, IInv', Ordered, LoadRollout
    PROVE  Ordered'
<1> USE DEF Ordered, LoadRollout
<1>1. Contiguity'
  BY DEF Contiguity, Contiguous, Retained
<1>2. CommitsBehind'
  BY DEF CommitsBehind, CommitsBelow, Alive, IInv, OneCall, StepOfCall, DriverSynced
<1>3. InOrder'
  BY DEF InOrder, Follows, NextRollout, Retained, Alive, IInv, OneCall, StepOfCall, DriverSynced
<1>4. AcceptedAccounted'
  BY DEF AcceptedAccounted, Accounted, Listed, NextRollout, Retained, Current, Alive,
     FirstAttempt
<1>5. CollectionsListed'
  BY DEF CollectionsListed, PastCollection, DriverSynced, Listed, Retained, Current, Alive,
     IInv, OneCall, StepOfCall
<1> QED  BY <1>1, <1>2, <1>3, <1>4, <1>5

(* The driver asks for the rollout it is at, which follows the window. *)
LEMMA CallGenerateOrdered ==
    ASSUME IInv, IInv', Ordered, CallGenerate
    PROVE  Ordered'
<1> USE DEF Ordered, CallGenerate
<1>1. Contiguity'
  BY DEF Contiguity, Contiguous, Retained
<1>2. CommitsBehind'
  BY DEF CommitsBehind, CommitsBelow, Alive, IInv, OneCall, StepOfCall, DriverSynced
<1>3. InOrder'
  BY DEF InOrder, Follows, NextRollout, Retained, Alive, IInv, OneCall, StepOfCall, DriverSynced
<1>4. AcceptedAccounted'
  BY DEF AcceptedAccounted, Accounted, Listed, NextRollout, Retained, Current, Alive,
     FirstAttempt
<1>5. CollectionsListed'
  BY DEF CollectionsListed, PastCollection, DriverSynced, Listed, Retained, Current, Alive,
     IInv, OneCall, StepOfCall
<1> QED  BY <1>1, <1>2, <1>3, <1>4, <1>5

(* The driver reports a rollout trained that is in the window. *)
LEMMA CallFinishOrdered ==
    ASSUME IInv, IInv', Ordered, CallFinish
    PROVE  Ordered'
<1> USE DEF Ordered, CallFinish
<1>1. Contiguity'
  BY DEF Contiguity, Contiguous, Retained
<1>2. CommitsBehind'
  BY DEF CommitsBehind, CommitsBelow, Alive, IInv, OneCall, StepOfCall, DriverSynced
<1>3. InOrder'
  BY DEF InOrder, Follows, NextRollout, Retained, Alive, IInv, OneCall, StepOfCall, DriverSynced
<1>4. AcceptedAccounted'
  BY DEF AcceptedAccounted, Accounted, Listed, NextRollout, Retained, Current, Alive,
     FirstAttempt
<1>5. CollectionsListed'
  BY DEF CollectionsListed, PastCollection, DriverSynced, Listed, Retained, Current, Alive,
     IInv, OneCall, StepOfCall
<1> QED  BY <1>1, <1>2, <1>3, <1>4, <1>5

(* The driver tells the manager about its commit. *)
LEMMA NotifyCommitOrdered ==
    ASSUME IInv, IInv', Ordered, NotifyCommit
    PROVE  Ordered'
<1> USE DEF Ordered, NotifyCommit
<1>1. Contiguity'
  BY DEF Contiguity, Contiguous, Retained
<1>2. CommitsBehind'
  BY DEF CommitsBehind, CommitsBelow, Alive, IInv, OneCall, StepOfCall, DriverSynced
<1>3. InOrder'
  BY DEF InOrder, Follows, NextRollout, Retained, Alive, IInv, OneCall, StepOfCall, DriverSynced
<1>4. AcceptedAccounted'
  BY DEF AcceptedAccounted, Accounted, Listed, NextRollout, Retained, Current, Alive,
     FirstAttempt
<1>5. CollectionsListed'
  BY DEF CollectionsListed, PastCollection, DriverSynced, Listed, Retained, Current, Alive,
     IInv, OneCall, StepOfCall
<1> QED  BY <1>1, <1>2, <1>3, <1>4, <1>5

(* The train loop goes to the next rollout. *)
LEMMA NextIterationOrdered ==
    ASSUME IInv, IInv', Ordered, NextIteration
    PROVE  Ordered'
<1> USE DEF Ordered, NextIteration
<1>1. Contiguity'
  BY DEF Contiguity, Contiguous, Retained
<1>2. CommitsBehind'
  BY DEF CommitsBehind, CommitsBelow, Alive, IInv, OneCall, StepOfCall, DriverSynced
<1>3. InOrder'
  BY DEF InOrder, Follows, NextRollout, Retained, Alive, IInv, OneCall, StepOfCall, DriverSynced
<1>4. AcceptedAccounted'
  BY DEF AcceptedAccounted, Accounted, Listed, NextRollout, Retained, Current, Alive,
     FirstAttempt
<1>5. CollectionsListed'
  BY DEF CollectionsListed, PastCollection, DriverSynced, Listed, Retained, Current, Alive,
     IInv, OneCall, StepOfCall
<1> QED  BY <1>1, <1>2, <1>3, <1>4, <1>5

(* The driver disposes of the session after the last rollout. *)
LEMMA FinishOrdered ==
    ASSUME IInv, IInv', Ordered, Finish
    PROVE  Ordered'
<1> USE DEF Ordered, Finish
<1>1. Contiguity'
  BY DEF Contiguity, Contiguous, Retained
<1>2. CommitsBehind'
  BY DEF CommitsBehind, CommitsBelow, Alive, IInv, OneCall, StepOfCall, DriverSynced
<1>3. InOrder'
  BY DEF InOrder, Follows, NextRollout, Retained, Alive, IInv, OneCall, StepOfCall, DriverSynced
<1>4. AcceptedAccounted'
  BY DEF AcceptedAccounted, Accounted, Listed, NextRollout, Retained, Current, Alive,
     FirstAttempt
<1>5. CollectionsListed'
  BY DEF CollectionsListed, PastCollection, DriverSynced, Listed, Retained, Current, Alive,
     IInv, OneCall, StepOfCall
<1> QED  BY <1>1, <1>2, <1>3, <1>4, <1>5

(* The manager dies: the window goes and the journal stays. *)
LEMMA ManagerDiesOrdered ==
    ASSUME IInv, IInv', Ordered, ManagerDies
    PROVE  Ordered'
<1> USE DEF Ordered, ManagerDies
<1>1. Contiguity'
  BY DEF Contiguity, Contiguous, Retained
<1>2. CommitsBehind'
  BY DEF CommitsBehind, CommitsBelow, Alive, IInv, OneCall, StepOfCall, DriverSynced
<1>3. InOrder'
  BY DEF InOrder, Follows, NextRollout, Retained, Alive, IInv, OneCall, StepOfCall, DriverSynced
<1>4. AcceptedAccounted'
  BY DEF AcceptedAccounted, Accounted, Listed, NextRollout, Retained, Current, Alive,
     FirstAttempt
<1>5. CollectionsListed'
  BY DEF CollectionsListed, PastCollection, DriverSynced, Listed, Retained, Current, Alive,
     IInv, OneCall, StepOfCall
<1> QED  BY <1>1, <1>2, <1>3, <1>4, <1>5

(* A driver finds its manager dead. *)
LEMMA CallFailsOrdered ==
    ASSUME IInv, IInv', Ordered, CallFails
    PROVE  Ordered'
<1> USE DEF Ordered, CallFails
<1>1. Contiguity'
  BY DEF Contiguity, Contiguous, Retained
<1>2. CommitsBehind'
  BY DEF CommitsBehind, CommitsBelow, Alive, IInv, OneCall, StepOfCall, DriverSynced
<1>3. InOrder'
  BY DEF InOrder, Follows, NextRollout, Retained, Alive, IInv, OneCall, StepOfCall, DriverSynced
<1>4. AcceptedAccounted'
  BY DEF AcceptedAccounted, Accounted, Listed, NextRollout, Retained, Current, Alive,
     FirstAttempt
<1>5. CollectionsListed'
  BY DEF CollectionsListed, PastCollection, DriverSynced, Listed, Retained, Current, Alive,
     IInv, OneCall, StepOfCall
<1> QED  BY <1>1, <1>2, <1>3, <1>4, <1>5

(* The driver dies: a call it made goes on. *)
LEMMA DriverDiesOrdered ==
    ASSUME IInv, IInv', Ordered, DriverDies
    PROVE  Ordered'
<1> USE DEF Ordered, DriverDies
<1>1. Contiguity'
  BY DEF Contiguity, Contiguous, Retained
<1>2. CommitsBehind'
  BY DEF CommitsBehind, CommitsBelow, Alive, IInv, OneCall, StepOfCall, DriverSynced
<1>3. InOrder'
  BY DEF InOrder, Follows, NextRollout, Retained, Alive, IInv, OneCall, StepOfCall, DriverSynced
<1>4. AcceptedAccounted'
  BY DEF AcceptedAccounted, Accounted, Listed, NextRollout, Retained, Current, Alive,
     FirstAttempt
<1>5. CollectionsListed'
  BY DEF CollectionsListed, PastCollection, DriverSynced, Listed, Retained, Current, Alive,
     IInv, OneCall, StepOfCall
<1> QED  BY <1>1, <1>2, <1>3, <1>4, <1>5

(* The job is stopped: the queue goes with its session, so the files are of *)
(* no session.                                                              *)
LEMMA SessionLostOrdered ==
    ASSUME IInv, IInv', Ordered, SessionLost
    PROVE  Ordered'
<1> USE DEF Ordered, SessionLost
<1>1. Contiguity'
  BY DEF Contiguity, Contiguous, Retained
<1>2. CommitsBehind'
  BY DEF CommitsBehind, CommitsBelow, Alive, IInv, OneCall, StepOfCall, DriverSynced
<1>3. InOrder'
  BY DEF InOrder, Follows, NextRollout, Retained, Alive, IInv, OneCall, StepOfCall, DriverSynced
<1>4. AcceptedAccounted'
  BY DEF AcceptedAccounted, Accounted, Listed, NextRollout, Retained, Current, Alive,
     FirstAttempt
<1>5. CollectionsListed'
  BY DEF CollectionsListed, PastCollection, DriverSynced, Listed, Retained, Current, Alive,
     IInv, OneCall, StepOfCall
<1> QED  BY <1>1, <1>2, <1>3, <1>4, <1>5

(* Trainers start at the boundary of the window, or after the newest        *)
(* commit.                                                                  *)
LEMMA CreateModelsOrdered ==
    ASSUME IInv, IInv', Ordered, CreateModels
    PROVE  Ordered'
<1> USE DEF Ordered, CreateModels
<1>1. Contiguity'
  BY DEF Contiguity, Contiguous, Retained
<1>2. CommitsBehind'
  <2>1. driverAt = "register" /\ managerAt = "idle" /\ committed' = committed
    OBVIOUS
  <2>2. memory.loaded => CommitsBelow(memory.start)
    BY <2>1 DEF CommitsBehind, Alive
  <2>3. CommitsBelow(rollout')
    BY <2>2 DEF ColdStart, CommitsBelow
  <2>4. driverAt' = "waiting" /\ call' = "register"
    OBVIOUS
  <2> QED  BY <2>1, <2>3, <2>4 DEF CommitsBehind, CommitsBelow
<1>3. InOrder'
  BY DEF InOrder, Follows, NextRollout, Retained, Alive, IInv, OneCall, StepOfCall, DriverSynced
<1>4. AcceptedAccounted'
  BY DEF AcceptedAccounted, Accounted, Listed, NextRollout, Retained, Current, Alive,
     FirstAttempt
<1>5. CollectionsListed'
  BY DEF CollectionsListed, PastCollection, DriverSynced, Listed, Retained, Current, Alive,
     IInv, OneCall, StepOfCall
<1> QED  BY <1>1, <1>2, <1>3, <1>4, <1>5

(* save_checkpoint commits the trained rollout: commits stay behind the     *)
(* next one.                                                                *)
LEMMA CommitCheckpointOrdered ==
    ASSUME IInv, IInv', Ordered, CommitCheckpoint
    PROVE  Ordered'
<1> USE DEF Ordered, CommitCheckpoint
<1>1. Contiguity'
  BY DEF Contiguity, Contiguous, Retained
<1>2. CommitsBehind'
  <2>1. CommitsBelow(rollout)
    BY DEF CommitsBehind
  <2>2. CommitsBelow(rollout + 1)'
    BY <2>1, Numbers DEF CommitsBelow
  <2> QED  BY <2>2 DEF CommitsBehind
<1>3. InOrder'
  BY DEF InOrder, Follows, NextRollout, Retained, Alive, IInv, OneCall, StepOfCall, DriverSynced
<1>4. AcceptedAccounted'
  BY DEF AcceptedAccounted, Accounted, Listed, NextRollout, Retained, Current, Alive,
     FirstAttempt
<1>5. CollectionsListed'
  BY DEF CollectionsListed, PastCollection, DriverSynced, Listed, Retained, Current, Alive,
     IInv, OneCall, StepOfCall
<1> QED  BY <1>1, <1>2, <1>3, <1>4, <1>5

(* No save is due: the next rollout follows the trained one, which is in    *)
(* the window.                                                              *)
LEMMA SkipCheckpointOrdered ==
    ASSUME IInv, IInv', Ordered, SkipCheckpoint
    PROVE  Ordered'
<1> USE DEF Ordered, SkipCheckpoint
<1>1. Contiguity'
  BY DEF Contiguity, Contiguous, Retained
<1>2. CommitsBehind'
  <2>1. CommitsBelow(rollout)
    BY DEF CommitsBehind
  <2>2. CommitsBelow(rollout + 1)'
    BY <2>1, Numbers DEF CommitsBelow
  <2> QED  BY <2>2 DEF CommitsBehind
<1>3. InOrder'
  <2>1. Alive => rollout \in Retained(memory)
    BY DEF InOrder
  <2>3. Alive => Follows(memory, rollout + 1)
    BY <2>1, NextFollows
  <2>4. \A r : (Follows(memory, r)' <=> Follows(memory, r)) /\ (NextRollout(memory, r)' <=> NextRollout(memory, r))
    BY DEF Follows, NextRollout, Retained
  <2>5. managerAt' = managerAt /\ rollout' = rollout /\ target' = target /\ (Alive' <=> Alive) /\ driverAt' = "next"
    BY DEF Alive
  <2> QED  BY <2>3, <2>4, <2>5 DEF InOrder
<1>4. AcceptedAccounted'
  BY DEF AcceptedAccounted, Accounted, Listed, NextRollout, Retained, Current, Alive,
     FirstAttempt
<1>5. CollectionsListed'
  BY DEF CollectionsListed, PastCollection, DriverSynced, Listed, Retained, Current, Alive,
     IInv, OneCall, StepOfCall
<1> QED  BY <1>1, <1>2, <1>3, <1>4, <1>5

(* A call raises where it stands: what was accepted and not remembered      *)
(* stays the next rollout.                                                  *)
LEMMA CallRaisesOrdered ==
    ASSUME IInv, IInv', Ordered, CallRaises
    PROVE  Ordered'
<1> USE DEF Ordered, CallRaises
<1>1. Contiguity'
  BY DEF Contiguity, Contiguous, Retained
<1>2. CommitsBehind'
  BY DEF CommitsBehind, CommitsBelow, Alive, IInv, OneCall, StepOfCall, DriverSynced
<1>3. InOrder'
  BY DEF InOrder, Follows, NextRollout, Retained, Alive, IInv, OneCall, StepOfCall, DriverSynced
<1>4. AcceptedAccounted'
  BY AccountedFrame DEF IInv, FirstAttempt, StepOfCall, OneCall, Alive
<1>5. CollectionsListed'
  BY DEF CollectionsListed, PastCollection, DriverSynced, Listed, Retained, Current, Alive,
     IInv, OneCall, StepOfCall
<1> QED  BY <1>1, <1>2, <1>3, <1>4, <1>5

(* A dispose that raises goes on with the removal of the journal. *)
LEMMA DisposeRaisesOrdered ==
    ASSUME IInv, IInv', Ordered, DisposeRaises
    PROVE  Ordered'
<1> USE DEF Ordered, DisposeRaises, Disposed
<1>1. Contiguity'
  BY DEF Contiguity, Contiguous, Retained
<1>2. CommitsBehind'
  BY DEF CommitsBehind, CommitsBelow, Alive, IInv, OneCall, StepOfCall, DriverSynced
<1>3. InOrder'
  BY DEF InOrder, Follows, NextRollout, Retained, Alive, IInv, OneCall, StepOfCall, DriverSynced
<1>4. AcceptedAccounted'
  BY AccountedFrame DEF IInv, FirstAttempt, StepOfCall, OneCall, Alive
<1>5. CollectionsListed'
  BY DEF CollectionsListed, PastCollection, DriverSynced, Listed, Retained, Current, Alive,
     IInv, OneCall, StepOfCall
<1> QED  BY <1>1, <1>2, <1>3, <1>4, <1>5

(* A step that changes nothing keeps the order. *)
LEMMA StutterOrdered ==
    ASSUME Ordered, UNCHANGED vars
    PROVE  Ordered'
<1> USE DEF Ordered, vars
<1>1. Contiguity' /\ InOrder'
  BY DEF Contiguity, Contiguous, InOrder, Follows, NextRollout, Retained, Alive
<1>2. CommitsBehind'
  BY DEF CommitsBehind, CommitsBelow, Alive
<1>3. AcceptedAccounted'
  BY AccountedFrame DEF Alive, FirstAttempt
<1>4. CollectionsListed'
  BY DEF CollectionsListed, PastCollection, DriverSynced, Listed, Retained, Current, Alive
<1> QED  BY <1>1, <1>2, <1>3, <1>4

(* A job starts with empty windows, no commit and nothing accepted. *)
LEMMA InitOrdered == Init => Ordered
<1> SUFFICES ASSUME Init PROVE Ordered
  OBVIOUS
<1> USE DEF Init
<1>1. Contiguity
  BY NewWindow DEF Contiguity, Contiguous
<1>2. CommitsBehind /\ InOrder /\ CollectionsListed
  BY DEF CommitsBehind, InOrder, CollectionsListed, PastCollection, DriverSynced, Alive
<1>3. AcceptedAccounted
  BY DEF AcceptedAccounted, Alive
<1> QED  BY <1>1, <1>2, <1>3 DEF Ordered

(* Every step of the system keeps the order. *)
LEMMA NextOrdered == IInv /\ Ordered /\ [Next]_vars => Ordered'
<1> SUFFICES ASSUME IInv, Ordered, [Next]_vars PROVE Ordered'
  OBVIOUS
<1>0. IInv'
  BY NextIInv
<1>1. CASE ManagerStep
  BY <1>0, <1>1, OpenJournalOrdered, PersistManagerOrdered, ReconcileRawOrdered,
     ReconcileConvertedOrdered, RememberRawOrdered, RetainRawOrdered, PersistRawOrdered,
     RetainConvertedOrdered, PersistConvertedOrdered, ReconcileCheckpointOrdered,
     DropBatchesOrdered, PersistBoundaryOrdered, ReleaseStorageOrdered, RegisterTrainersOrdered,
     LoadOrdered, PersistLoadOrdered, GenerateOrdered, CollectOrdered, BeginOrdered,
     PublishConvertedOrdered, FinishBatchOrdered, DisposeOrdered, RemoveJournalOrdered
     DEF ManagerStep
<1>2. CASE AttachServing
  BY <1>0, <1>2, AttachServingOrdered
<1>3. CASE DriverStep
  BY <1>0, <1>3, CreateManagerOrdered, FindManagerOrdered, AttachManagerOrdered,
     CreateModelsOrdered, LoadRolloutOrdered, CallGenerateOrdered, CallFinishOrdered,
     CommitCheckpointOrdered, SkipCheckpointOrdered, NotifyCommitOrdered, NextIterationOrdered,
     FinishOrdered DEF DriverStep
<1>4. CASE Failure
  BY <1>0, <1>4, CallRaisesOrdered, DisposeRaisesOrdered, ManagerDiesOrdered, CallFailsOrdered,
     DriverDiesOrdered, SessionLostOrdered DEF Failure
<1>5. CASE UNCHANGED vars
  BY <1>5, StutterOrdered
<1> QED  BY <1>1, <1>2, <1>3, <1>4, <1>5 DEF Next

-----------------------------------------------------------------------------
(* The theorems *)

(* Both invariants hold in every behaviour, whatever fails and whenever. *)
THEOREM OrderInvariant == Spec => [](IInv /\ Ordered)
<1>1. Init => IInv /\ Ordered
  BY InitIInv, InitOrdered
<1>2. IInv /\ Ordered /\ [Next]_vars => (IInv /\ Ordered)'
  BY NextIInv, NextOrdered
<1> QED  BY <1>1, <1>2, PTL DEF Spec

(* reconcile_collection finds the one rollout that was accepted and not      *)
(* journalled, so that no call of _generate collects a rollout twice.        *)
THEOREM NeverRegenerated == Spec => []NoRegeneration
<1>1. IInv /\ Ordered => NoRegeneration
  <2> SUFFICES ASSUME IInv, Ordered, Loaded, managerAt = "collect", target \in accepted
               PROVE  FALSE
    BY DEF NoRegeneration
  <2>1. Listed(memory, target)
    BY DEF Ordered, CollectionsListed, PastCollection, IInv, StepOfCall, Loaded, Alive
  <2>2. target \in Nat /\ memory.start \in Nat /\ target >= memory.start
    BY Numbers DEF IInv, Recording
  <2>3. target \notin Retained(memory)
    BY DEF IInv, Recording, Retained, Absent
  <2> QED  BY <2>1, <2>2, <2>3 DEF Listed
<1> QED  BY <1>1, OrderInvariant, PTL

(* save_checkpoint is never asked to overwrite a commit: an attempt starts   *)
(* after the newest one, however the one before it ended.                    *)
THEOREM NeverRecommitted == Spec => []NoRecommit
<1>1. IInv /\ Ordered => NoRecommit
  <2> SUFFICES ASSUME IInv, Ordered, driverAt = "save?", rollout \in committed PROVE FALSE
    BY DEF NoRecommit
  <2>1. rollout < rollout
    BY DEF Ordered, CommitsBehind, CommitsBelow
  <2> QED  BY <2>1, Numbers
<1> QED  BY <1>1, OrderInvariant, PTL

(* Of the rollouts the queue has accepted, the window misses at most the     *)
(* next one: what reconcile_collection looks for is all there can be.        *)
THEOREM WindowAlwaysComplete == Spec => []WindowComplete
<1>1. IInv /\ Ordered => WindowComplete
  <2> SUFFICES ASSUME IInv, Ordered, Loaded, NEW r \in accepted
               PROVE  r < memory.start \/ memory.batches[r] # "absent" \/ NextRollout(memory, r)
    BY DEF WindowComplete
  <2>1. Listed(memory, r) \/ NextRollout(memory, r)
    BY DEF Ordered, AcceptedAccounted, Accounted, Loaded, Alive
  <2> QED  BY <2>1 DEF Listed, Retained
<1> QED  BY <1>1, OrderInvariant, PTL
=============================================================================
