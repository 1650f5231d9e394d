------------------------- MODULE AsyncWorkerProofs -------------------------
(***************************************************************************)
(* Proofs about AsyncWorker: the two threads of the worker neither lose a  *)
(* prompt nor deliver one twice.                                           *)
(***************************************************************************)
EXTENDS AsyncWorker, FiniteSetTheorems, TLAPS

-----------------------------------------------------------------------------
(* The inductive invariant *)

ManagerPlace ==
    {"generate", "collect", "failed", "closed", "state: cursor", "state: buffer", "state: ready",
     "paused for update", "save: end", "update weights"}
    \cup {Pausing[call] : call \in PauseCalls} \cup {Waiting[call] : call \in PauseCalls}

Copied == [cursor : Nat, buffer : Seq(Group), ready : Seq(Group), consumed : SUBSET Group]

TypeOK ==
    /\ cursor \in 0..MaxGroups /\ buffer \in Seq(Group) /\ outputQueue \in Seq(Group)
    /\ running \in BOOLEAN /\ paused \in BOOLEAN /\ admissionPaused \in BOOLEAN
    /\ active \in Nat /\ error \in BOOLEAN
    /\ loopAt \in {"event loop", "top up", "admit", "publish", "draining", "dead"}
    /\ activeTasks \subseteq Group /\ generating \subseteq Group
    /\ agenda \in Seq(Wake \cup Done) /\ aborts \in 0..MaxAborts
    /\ managerAt \in ManagerPlace /\ round \in Nat
    /\ collected \subseteq Group /\ dropped \subseteq Group /\ batches \in Seq(SUBSET Group)
    /\ previous \in [PauseCalls -> BOOLEAN] /\ inSave \in BOOLEAN
    /\ snapshot \in Copied /\ saved \in Copied

(* Where a group is.                                                          *)
CallsOf(g)    == {call \in Done : call.group = g}
CalledBack(g) == Positions(agenda, CallsOf(g))
Buffered(g)   == Positions(buffer, {g})
Finished(g)   == Positions(outputQueue, {g})

Somewhere(g) ==
    \/ g \in generating \/ CalledBack(g) # {} \/ Buffered(g) # {} \/ Finished(g) # {}
    \/ g \in collected \/ g \in dropped \/ g \in delivered

(* The places exclude each other and hold issued groups only; each sequence   *)
(* has a group once.                                                          *)
Solo(S) == \A x, y \in S : x = y

Alone(g) ==
    /\ Solo(CalledBack(g)) /\ Solo(Buffered(g)) /\ Solo(Finished(g))
    /\ g \in generating => CalledBack(g) = {} /\ Buffered(g) = {} /\ Finished(g) = {}
    /\ CalledBack(g) # {} => Buffered(g) = {} /\ Finished(g) = {}
    /\ Buffered(g) # {} => Finished(g) = {}
    /\ g \in generating \/ CalledBack(g) # {} \/ Buffered(g) # {} \/ Finished(g) # {}
          => g \notin collected /\ g \notin dropped /\ g \notin delivered
    /\ g \in collected => g \notin dropped /\ g \notin delivered
    /\ g \in dropped => g \notin delivered
    /\ Somewhere(g) => g <= cursor
OnePlace == \A g \in Group : Alone(g)

(* Nothing the source issued is lost. *)
Crashes == {call \in Done : call.outcome = "crashed"}
Accounted == Healthy => \A g \in Group : g <= cursor => Somewhere(g)

(* At most one wake-up is in the agenda, none while the loop runs.  A task    *)
(* that was reaped before its callback ran is called back before the loop     *)
(* resumes.                                                                   *)
Wakes   == Positions(agenda, Wake)
Resumes == Positions(agenda, {[kind |-> "resume"]})
InOrder ==
    /\ Solo(Wakes)
    /\ loopAt \in {"top up", "admit", "publish"} => Wakes = {}
    /\ loopAt \notin {"draining", "dead"} =>
          \A g \in Group \ activeTasks : \A i \in CalledBack(g) : \E j \in Resumes : j > i

(* The loop counts the tasks under way; those and the finished groups are     *)
(* fewer than twice what may run at once.                                     *)
InFlight == generating \cup {g \in Group : CalledBack(g) # {}}
Limited ==
    /\ generating \subseteq activeTasks
    /\ Cardinality(activeTasks) <= Concurrency
    /\ loopAt = "admit" => Cardinality(activeTasks) < Concurrency /\ Len(outputQueue) < Concurrency
    /\ Len(outputQueue) + Cardinality(InFlight) < 2 * Concurrency

IInv == TypeOK /\ OnePlace /\ Accounted /\ InOrder /\ Limited

-----------------------------------------------------------------------------
(* Lemmas about sequences and finite sets *)

(* The assumptions on the constants, and the prompts.                         *)
LEMMA Constants ==
    /\ Concurrency \in Nat \ {0} /\ MaxGroups \in Nat /\ MaxAborts \in Nat
    /\ IsFiniteSet(Group) /\ Group \subseteq Nat \ {0}
    /\ \A n \in Nat \ {0} : n \in Group <=> n <= MaxGroups
<1>1. Concurrency \in Nat \ {0} /\ MaxGroups \in Nat /\ MaxAborts \in Nat
  BY ConcurrencyAssumption, BoundsAssumption
<1>2. 1 \in Int /\ MaxGroups \in Int
  BY <1>1
<1>3. IsFiniteSet(Group)
  BY <1>2, FS_Interval DEF Group
<1>4. Group \subseteq Nat \ {0} /\ \A n \in Nat \ {0} : n \in Group <=> n <= MaxGroups
  BY <1>1 DEF Group
<1> QED  BY <1>1, <1>3, <1>4

(* A wake-up is no callback.                                                  *)
LEMMA WakeNotDone ==
    /\ \A e \in Wake : e \notin Done
    /\ [kind |-> "wake"] \in Wake /\ [kind |-> "resume"] \in Wake
    /\ [kind |-> "wake"] # [kind |-> "resume"]
    /\ \A e \in Wake : e = [kind |-> "wake"] \/ e = [kind |-> "resume"]
BY DEF Wake, Done

(* The callback of a task.                                                    *)
LEMMA CallbackIs ==
    ASSUME NEW g \in Group, NEW o \in Outcome
    PROVE  LET call == [kind |-> "callback", group |-> g, outcome |-> o]
           IN  call \in Done /\ call.group = g /\ call.outcome = o /\ call \notin Wake
BY WakeNotDone DEF Done

(* Where an appended item is.                                                 *)
LEMMA PositionsAppend ==
    ASSUME NEW T, NEW s \in Seq(T), NEW x \in T, NEW S
    PROVE  \A i : i \in Positions(Append(s, x), S) <=>
               i \in Positions(s, S) \/ (i = Len(s) + 1 /\ x \in S)
<1> DEFINE t == Append(s, x)
<1>1. /\ Len(s) \in Nat /\ DOMAIN s = 1..Len(s) /\ DOMAIN t = 1..(Len(s) + 1)
      /\ t[Len(s) + 1] = x /\ \A i \in 1..Len(s) : t[i] = s[i]
  OBVIOUS
<1> HIDE DEF t
<1>2. \A i : i \in Positions(t, S) <=> i \in Positions(s, S) \/ (i = Len(s) + 1 /\ x \in S)
  BY <1>1 DEF Positions
<1> QED  BY <1>2 DEF t

(* An item of another kind changes nothing.                                   *)
LEMMA PositionsOther ==
    ASSUME NEW T, NEW s \in Seq(T), NEW x \in T, NEW S, x \notin S
    PROVE  Positions(Append(s, x), S) = Positions(s, S)
<1> DEFINE after == Positions(Append(s, x), S)
           before == Positions(s, S)
<1>1. \A i : i \in after <=> i \in before
  BY PositionsAppend
<1> HIDE DEF after, before
<1>2. after = before
  BY <1>1
<1> QED  BY <1>2 DEF after, before

(* Where items are in a sequence without its head.                            *)
LEMMA PositionsTail ==
    ASSUME NEW T, NEW s \in Seq(T), s # <<>>, NEW S
    PROVE  /\ \A i : i \in Positions(Tail(s), S) <=> i \in Nat /\ i >= 1 /\ i + 1 \in Positions(s, S)
           /\ \A i \in Positions(s, S) : i \in Nat \ {0}
           /\ 1 \in Positions(s, S) <=> Head(s) \in S
<1> DEFINE t == Tail(s)
<1>1. /\ Len(s) \in Nat /\ Len(s) > 0 /\ DOMAIN s = 1..Len(s) /\ DOMAIN t = 1..(Len(s) - 1)
      /\ \A i \in 1..(Len(s) - 1) : t[i] = s[i + 1]
      /\ Head(s) = s[1]
  OBVIOUS
<1> HIDE DEF t
<1>2. \A i : i \in Positions(t, S) <=> i \in Nat /\ i >= 1 /\ i + 1 \in Positions(s, S)
  BY <1>1 DEF Positions
<1>3. \A i \in Positions(s, S) : i \in Nat \ {0}
  BY <1>1 DEF Positions
<1>4. 1 \in Positions(s, S) <=> Head(s) \in S
  BY <1>1 DEF Positions
<1> QED  BY <1>2, <1>3, <1>4 DEF t

(* Whether there are such items, after one was added or taken.                *)
LEMMA AnyLeft ==
    ASSUME NEW T, NEW s \in Seq(T), NEW S
    PROVE  /\ \A x \in T : Positions(Append(s, x), S) # {} <=> Positions(s, S) # {} \/ x \in S
           /\ s # <<>> => (Positions(s, S) # {} <=> Positions(Tail(s), S) # {} \/ Head(s) \in S)
<1>1. ASSUME NEW x \in T PROVE Positions(Append(s, x), S) # {} <=> Positions(s, S) # {} \/ x \in S
  <2>1. \A i : i \in Positions(Append(s, x), S) <=> i \in Positions(s, S) \/ (i = Len(s) + 1 /\ x \in S)
    BY PositionsAppend
  <2> QED  BY <2>1
<1>2. ASSUME s # <<>>, NEW i \in Positions(s, S), Head(s) \notin S PROVE Positions(Tail(s), S) # {}
  <2>1. i \in Nat /\ i # 0 /\ i # 1
    BY <1>2, PositionsTail
  <2>2. i - 1 \in Nat /\ i - 1 >= 1 /\ (i - 1) + 1 = i
    BY <2>1
  <2>3. i - 1 \in Positions(Tail(s), S)
    BY <1>2, <2>2, PositionsTail
  <2> QED  BY <2>3
<1>3. ASSUME s # <<>>, NEW i \in Positions(Tail(s), S) PROVE Positions(s, S) # {}
  BY <1>3, PositionsTail
<1>4. ASSUME s # <<>>, Head(s) \in S PROVE Positions(s, S) # {}
  BY <1>4, PositionsTail
<1> QED  BY <1>1, <1>2, <1>3, <1>4

(* An item that is not there yet may be appended.                             *)
LEMMA SoloAppend ==
    ASSUME NEW T, NEW s \in Seq(T), NEW x \in T, NEW S, Solo(Positions(s, S)),
           x \in S => Positions(s, S) = {}
    PROVE  /\ Solo(Positions(Append(s, x), S))
           /\ Positions(Append(s, x), S) # {} <=> Positions(s, S) # {} \/ x \in S
<1>1. \A i : i \in Positions(Append(s, x), S) <=> i \in Positions(s, S) \/ (i = Len(s) + 1 /\ x \in S)
  BY PositionsAppend
<1> QED  BY <1>1 DEF Solo

(* What was at the head is gone.                                              *)
LEMMA SoloTail ==
    ASSUME NEW T, NEW s \in Seq(T), s # <<>>, NEW S, Solo(Positions(s, S))
    PROVE  /\ Solo(Positions(Tail(s), S))
           /\ Positions(Tail(s), S) # {} <=> Positions(s, S) # {} /\ Head(s) \notin S
<1>1. /\ \A i : i \in Positions(Tail(s), S) <=> i \in Nat /\ i >= 1 /\ i + 1 \in Positions(s, S)
      /\ \A i \in Positions(s, S) : i \in Nat \ {0}
      /\ 1 \in Positions(s, S) <=> Head(s) \in S
  BY PositionsTail
<1>2. Solo(Positions(Tail(s), S))
  <2>1. ASSUME NEW i \in Positions(Tail(s), S), NEW j \in Positions(Tail(s), S) PROVE i = j
    <3>1. i \in Nat /\ j \in Nat /\ i + 1 = j + 1
      BY <1>1, <2>1 DEF Solo
    <3> QED  BY <3>1
  <2> QED  BY <2>1 DEF Solo
<1>3. ASSUME NEW i \in Positions(Tail(s), S) PROVE Head(s) \notin S
  <2>1. i \in Nat /\ i >= 1 /\ i + 1 \in Positions(s, S)
    BY <1>1, <1>3
  <2>2. i + 1 # 1
    BY <2>1
  <2>3. 1 \notin Positions(s, S)
    BY <2>1, <2>2 DEF Solo
  <2> QED  BY <1>1, <2>3
<1> QED  BY <1>2, <1>3, AnyLeft

(* An item at the head of a sequence is somewhere in it.                      *)
LEMMA HeadIs ==
    ASSUME NEW T, NEW s \in Seq(T), s # <<>>
    PROVE  /\ Head(s) \in T /\ Tail(s) \in Seq(T) /\ Len(Tail(s)) = Len(s) - 1 /\ Len(s) \in Nat
           /\ \A S : Head(s) \in S => Positions(s, S) # {}
<1>1. Head(s) \in T /\ Tail(s) \in Seq(T) /\ Len(Tail(s)) = Len(s) - 1 /\ Len(s) \in Nat
  OBVIOUS
<1>2. ASSUME NEW S, Head(s) \in S PROVE 1 \in Positions(s, S)
  BY <1>2, PositionsTail
<1> QED  BY <1>1, <1>2

(* A sequence with one item more.                                             *)
LEMMA AppendIs ==
    ASSUME NEW T, NEW s \in Seq(T), NEW x \in T
    PROVE  Append(s, x) \in Seq(T) /\ Len(Append(s, x)) = Len(s) + 1 /\ Len(s) \in Nat
OBVIOUS

(* Lengths are naturals.                                                      *)
LEMMA Lengths == ASSUME NEW T, NEW s \in Seq(T) PROVE Len(s) \in Nat
OBVIOUS

(* What a sequence holds is of its type.                                      *)
LEMMA Items == ASSUME NEW T, NEW s \in Seq(T) PROVE \A i \in DOMAIN s : s[i] \in T
OBVIOUS

(* What is delivered are groups.                                              *)
LEMMA DeliveredGroups == ASSUME batches \in Seq(SUBSET Group) PROVE delivered \subseteq Group
<1>1. \A n \in DOMAIN batches : batches[n] \in SUBSET Group
  BY Items
<1>2. ASSUME NEW g \in delivered PROVE g \in Group
  BY <1>1 DEF delivered
<1> QED  BY <1>2

(* Nothing is in an empty sequence.                                           *)
LEMMA EmptyHolds == \A S : Positions(<<>>, S) = {}
BY DEF Positions

(* Sets of groups are finite; how they grow and shrink.                       *)
LEMMA Counting ==
    ASSUME NEW A \in SUBSET Group
    PROVE  /\ IsFiniteSet(A) /\ Cardinality(A) \in Nat
           /\ \A B \in SUBSET A : IsFiniteSet(B) /\ Cardinality(B) \in Nat /\ Cardinality(B) <= Cardinality(A)
           /\ \A g : Cardinality(A \cup {g}) = IF g \in A THEN Cardinality(A) ELSE Cardinality(A) + 1
           /\ \A g \in A : Cardinality(A \ {g}) = Cardinality(A) - 1
<1>1. IsFiniteSet(A)
  BY Constants, FS_Subset
<1>2. Cardinality(A) \in Nat
  BY <1>1, FS_CardinalityType
<1>3. \A B \in SUBSET A : IsFiniteSet(B) /\ Cardinality(B) \in Nat /\ Cardinality(B) <= Cardinality(A)
  BY <1>1, FS_Subset, FS_CardinalityType
<1>4. \A g : Cardinality(A \cup {g}) = IF g \in A THEN Cardinality(A) ELSE Cardinality(A) + 1
  BY <1>1, FS_AddElement
<1>5. \A g \in A : Cardinality(A \ {g}) = Cardinality(A) - 1
  BY <1>1, FS_RemoveElement
<1> QED  BY <1>1, <1>2, <1>3, <1>4, <1>5

-----------------------------------------------------------------------------
(* Types *)

(* The places of the manager.                                                 *)
LEMMA ManagerPlaces ==
    /\ {"generate", "collect", "failed", "closed", "state: cursor", "state: buffer", "state: ready",
        "paused for update", "save: end", "update weights",
        "state: pause", "admission: pause", "save: pause"} \subseteq ManagerPlace
    /\ \A call \in PauseCalls : Pausing[call] \in ManagerPlace /\ Waiting[call] \in ManagerPlace
<1>1. \A call \in PauseCalls : Pausing[call] \in ManagerPlace /\ Waiting[call] \in ManagerPlace
  BY DEF ManagerPlace
<1>2. /\ "state" \in PauseCalls /\ "admission" \in PauseCalls /\ "save" \in PauseCalls
      /\ Pausing["state"] = "state: pause" /\ Pausing["admission"] = "admission: pause"
      /\ Pausing["save"] = "save: pause"
  BY DEF PauseCalls, Pausing
<1>3. {"state: pause", "admission: pause", "save: pause"} \subseteq ManagerPlace
  BY <1>1, <1>2
<1> QED  BY <1>1, <1>3 DEF ManagerPlace

(* Sequences of no item and of one.                                           *)
LEMMA Short == \A T : <<>> \in Seq(T) /\ \A x \in T : <<x>> \in Seq(T) /\ Append(<<>>, x) = <<x>>
OBVIOUS

(* Counting up to a bound.                                                    *)
LEMMA Bounded ==
    ASSUME NEW bound \in Nat, NEW n \in 0..bound
    PROVE  /\ 0 \in 0..bound /\ n \in Nat /\ (n < bound => n # bound)
           /\ n # bound => n + 1 \in 1..bound /\ n + 1 \in 0..bound
OBVIOUS

(* Counting without a bound.                                                  *)
LEMMA Successor == \A n \in Nat : n + 1 \in Nat
OBVIOUS

(* The empty snapshot.                                                        *)
LEMMA NoStateType == NoState \in Copied
<1>1. 0 \in Nat /\ <<>> \in Seq(Group) /\ {} \in SUBSET Group
  OBVIOUS
<1> QED  BY <1>1 DEF NoState, Copied

(* Before the first step nothing is anywhere.                                 *)
LEMMA TypeInit == Init => TypeOK
<1> SUFFICES ASSUME Init PROVE TypeOK
  OBVIOUS
<1>1. NoState \in Copied
  BY NoStateType
<1>2. agenda \in Seq(Wake \cup Done)
  BY WakeNotDone, Short DEF Init
<1>4. MaxGroups \in Nat /\ MaxAborts \in Nat
  BY Constants
<1>5. 0 \in 0..MaxGroups /\ 0 \in 0..MaxAborts /\ 0 \in Nat /\ 1 \in Nat
  BY <1>4
<1>6. buffer \in Seq(Group) /\ outputQueue \in Seq(Group)
  BY Short DEF Init
<1>7. managerAt \in ManagerPlace /\ batches \in Seq(SUBSET Group)
  BY ManagerPlaces, Short DEF Init
<1>3. previous \in [PauseCalls -> BOOLEAN]
  BY DEF Init
<1> QED  BY <1>1, <1>2, <1>3, <1>5, <1>6, <1>7 DEF Init, TypeOK

(* The steps of the loop thread keep the types.                               *)
LEMMA TypeLoop ==
    ASSUME TypeOK, LoopStep \/ \E g \in Group, o \in Outcome : TaskDone(g, o)
    PROVE  TypeOK'
<1> USE DEF TypeOK, source, flags, loop, manager
<1>1. ASSUME NEW g \in Group, NEW o \in Outcome, TaskDone(g, o) PROVE TypeOK'
  <2>1. [kind |-> "callback", group |-> g, outcome |-> o] \in Wake \cup Done
    BY CallbackIs
  <2>2. agenda' \in Seq(Wake \cup Done)
    BY <1>1, <2>1, AppendIs DEF TaskDone
  <2>3. aborts' \in 0..MaxAborts
    <3>1. MaxAborts \in Nat
      BY Constants
    <3>2. aborts' = aborts \/ (aborts < MaxAborts /\ aborts' = aborts + 1)
      BY <1>1 DEF TaskDone
    <3>3. aborts \in 0..MaxAborts
      OBVIOUS
    <3> QED  BY <3>1, <3>2, <3>3, Bounded
  <2> QED  BY <1>1, <2>2, <2>3 DEF TaskDone
<1>2. CASE DoneCallback
  <2>1. agenda # <<>> /\ Head(agenda) \in Done /\ agenda' = Tail(agenda)
    BY <1>2 DEF DoneCallback
  <2>2. agenda' \in Seq(Wake \cup Done)
    BY <2>1, HeadIs
  <2> DEFINE g == Head(agenda).group
  <2>3. g \in Group
    BY <2>1 DEF Done
  <2>4. Append(buffer, g) \in Seq(Group) /\ Append(outputQueue, g) \in Seq(Group)
    BY <2>3, AppendIs
  <2>5. /\ buffer' = buffer \/ buffer' = Append(buffer, g)
        /\ outputQueue' = outputQueue \/ outputQueue' = Append(outputQueue, g)
        /\ error' \in BOOLEAN
    BY <1>2 DEF DoneCallback
  <2> HIDE DEF g
  <2>6. buffer' \in Seq(Group) /\ outputQueue' \in Seq(Group)
    BY <2>4, <2>5
  <2> QED  BY <1>2, <2>2, <2>5, <2>6 DEF DoneCallback
<1>3. CASE Reap
  <2>1. agenda # <<>>
    BY <1>3 DEF Reap
  <2>2. Tail(agenda) \in Seq(Wake \cup Done)
    BY <2>1, HeadIs
  <2>3. Append(Tail(agenda), [kind |-> "resume"]) \in Seq(Wake \cup Done)
    BY <2>2, AppendIs, WakeNotDone
  <2>4. agenda' \in Seq(Wake \cup Done) /\ loopAt' \in {"top up", "event loop"} /\ activeTasks' \subseteq Group
    BY <1>3, <2>2, <2>3 DEF Reap
  <2> QED  BY <1>3, <2>4 DEF Reap
<1>4. CASE ResumeLoop \/ StopLoop
  <2>1. agenda # <<>> /\ agenda' = Tail(agenda)
    BY <1>4 DEF ResumeLoop, StopLoop
  <2>2. agenda' \in Seq(Wake \cup Done)
    BY <2>1, HeadIs
  <2> QED  BY <1>4, <2>2 DEF ResumeLoop, StopLoop
<1>5. CASE TopUp
  BY <1>5 DEF TopUp
<1>6. CASE Admit
  <2>1. CASE SourceEmpty
    BY <1>6, <2>1 DEF Admit
  <2>2. CASE ~SourceEmpty /\ buffer # <<>>
    <3>1. Head(buffer) \in Group /\ Tail(buffer) \in Seq(Group)
      BY <2>2, HeadIs
    <3>2. /\ cursor' = cursor /\ buffer' = Tail(buffer) /\ activeTasks' = activeTasks \cup {Head(buffer)}
          /\ generating' = generating \cup {Head(buffer)} /\ loopAt' = "top up"
      BY <1>6, <2>2 DEF Admit
    <3> QED  BY <1>6, <3>1, <3>2 DEF Admit
  <2>3. CASE ~SourceEmpty /\ buffer = <<>>
    <3>1. cursor # MaxGroups /\ MaxGroups \in Nat
      BY <2>3, Constants DEF SourceEmpty
    <3>2. cursor + 1 \in Group /\ cursor + 1 \in 0..MaxGroups
      BY <3>1, Bounded DEF Group
    <3>3. /\ cursor' = cursor + 1 /\ buffer' = buffer /\ activeTasks' = activeTasks \cup {cursor + 1}
          /\ generating' = generating \cup {cursor + 1} /\ loopAt' = "top up"
      BY <1>6, <2>3 DEF Admit
    <3> QED  BY <1>6, <3>2, <3>3 DEF Admit
  <2> QED  BY <2>1, <2>2, <2>3
<1>7. CASE Publish
  <2>1. active' \in Nat
    BY <1>7, Counting DEF Publish
  <2>2. generating' \subseteq Group /\ agenda' \in Seq(Wake \cup Done) /\ running' \in BOOLEAN
        /\ loopAt' \in {"dead", "event loop"}
    <3>1. <<>> \in Seq(Wake \cup Done)
      BY Short
    <3>2. CASE error
      BY <1>7, <3>1, <3>2 DEF Publish
    <3>3. CASE ~error
      BY <1>7, <3>3 DEF Publish
    <3> QED  BY <3>2, <3>3
  <2> QED  BY <1>7, <2>1, <2>2 DEF Publish
<1>8. CASE Timer
  <2>1. agenda' \in Seq(Wake \cup Done)
    BY <1>8, WakeNotDone, AppendIs DEF Timer
  <2> QED  BY <1>8, <2>1 DEF Timer
<1>9. CASE ExitThread
  <2>1. agenda' \in Seq(Wake \cup Done)
    BY <1>9 DEF ExitThread
  <2> QED  BY <1>9, <2>1 DEF ExitThread
<1> QED  BY <1>1, <1>2, <1>3, <1>4, <1>5, <1>6, <1>7, <1>8, <1>9 DEF LoopStep

(* The steps of the manager thread keep the types.                            *)
LEMMA TypeManager ==
    ASSUME TypeOK, ManagerStep \/ \E keep \in BOOLEAN : Collect(keep)
    PROVE  TypeOK'
<1> USE DEF TypeOK, source, flags, loop, ManagerOnly
<1>1. ASSUME NEW keep \in BOOLEAN, Collect(keep) PROVE TypeOK'
  <2>1. outputQueue # <<>> /\ outputQueue' = Tail(outputQueue)
    BY <1>1 DEF Collect
  <2>2. Head(outputQueue) \in Group /\ outputQueue' \in Seq(Group)
    BY <2>1, HeadIs
  <2>3. collected' \subseteq Group /\ dropped' \subseteq Group
    BY <1>1, <2>2 DEF Collect
  <2> QED  BY <1>1, <2>2, <2>3 DEF Collect
<1>2. CASE BeginGenerate
  BY <1>2, ManagerPlaces DEF BeginGenerate
<1>3. CASE CollectFails
  BY <1>3, ManagerPlaces DEF CollectFails
<1>4. CASE Collected
  <2>1. batches' = Append(batches, collected) /\ collected \in SUBSET Group
    BY <1>4 DEF Collected
  <2>2. batches' \in Seq(SUBSET Group)
    BY <2>1, AppendIs
  <2> QED  BY <1>4, <2>2, ManagerPlaces DEF Collected
<1>5. ASSUME NEW call \in PauseCalls, PauseCall(call) PROVE TypeOK'
  <2>1. managerAt' \in ManagerPlace /\ previous' \in [PauseCalls -> BOOLEAN] /\ paused' \in BOOLEAN
    BY <1>5, ManagerPlaces DEF PauseCall
  <2> QED  BY <1>5, <2>1 DEF PauseCall
<1>6. ASSUME NEW call, NEW drain, NEW next \in ManagerPlace, PauseReturn(call, drain, next) PROVE TypeOK'
  BY <1>6, ManagerPlaces DEF PauseReturn
<1>7. CASE CopyCursor
  <2>1. cursor \in Nat /\ delivered \cup dropped \in SUBSET Group
    <3>1. MaxGroups \in Nat
      BY Constants
    <3>2. batches \in Seq(SUBSET Group)
      OBVIOUS
    <3>3. delivered \subseteq Group
      BY <3>2, DeliveredGroups
    <3> QED  BY <3>1, <3>3, Bounded
  <2>2. [NoState EXCEPT !.cursor = cursor, !.consumed = delivered \cup dropped] \in Copied
    BY <2>1, NoStateType DEF Copied
  <2>3. snapshot' \in Copied /\ managerAt' \in ManagerPlace
    BY <1>7, <2>2, ManagerPlaces DEF CopyCursor
  <2> QED  BY <1>7, <2>3 DEF CopyCursor
<1>8. CASE CopyBuffer
  <2>1. snapshot' \in Copied /\ managerAt' \in ManagerPlace
    BY <1>8, ManagerPlaces DEF CopyBuffer, Copied
  <2> QED  BY <1>8, <2>1 DEF CopyBuffer
<1>9. CASE CopyReady
  <2>1. [snapshot EXCEPT !.ready = outputQueue] \in Copied
    BY DEF Copied
  <2>2. saved' \in Copied /\ managerAt' \in ManagerPlace
    BY <1>9, <2>1, ManagerPlaces DEF CopyReady
  <2>3. "state" \in PauseCalls /\ paused' \in BOOLEAN
    BY <1>9 DEF CopyReady, PauseCalls
  <2> QED  BY <1>9, <2>2, <2>3 DEF CopyReady
<1>10. CASE BeginSave
  BY <1>10, ManagerPlaces DEF BeginSave
<1>11. CASE EndSave
  BY <1>11, ManagerPlaces DEF EndSave, PauseCalls
<1>12. CASE SkipSave
  BY <1>12, ManagerPlaces DEF SkipSave
<1>13. CASE ResumeAdmission
  <2>1. "admission" \in PauseCalls /\ managerAt' \in ManagerPlace /\ round' = round + 1
    BY <1>13, ManagerPlaces DEF ResumeAdmission, PauseCalls
  <2>3. round' \in Nat
    BY <2>1, Successor
  <2>2. paused' \in BOOLEAN
    BY <1>13, <2>1 DEF ResumeAdmission
  <2> QED  BY <1>13, <2>1, <2>2, <2>3 DEF ResumeAdmission
<1>14. CASE Close
  BY <1>14, ManagerPlaces DEF Close
<1>15. CASE Pause
  <2>1. "state: cursor" \in ManagerPlace /\ "paused for update" \in ManagerPlace /\ "state: pause" \in ManagerPlace
    BY ManagerPlaces
  <2> QED  BY <1>5, <1>6, <1>15, <2>1 DEF Pause
<1> QED  BY <1>1, <1>2, <1>3, <1>4, <1>7, <1>8, <1>9, <1>10, <1>11, <1>12, <1>13, <1>14, <1>15
         DEF ManagerStep

-----------------------------------------------------------------------------
(* What most steps leave alone *)

(* The loop's wake-ups come and go; every group stays where it is.            *)
LEMMA CallsStay ==
    ASSUME OnePlace, Accounted, Healthy' => Healthy,
           UNCHANGED <<cursor, buffer, outputQueue, generating, collected, dropped, delivered>>,
           \A g \in Group : Solo(CalledBack(g)') /\ (CalledBack(g)' # {} <=> CalledBack(g) # {})
    PROVE  OnePlace' /\ Accounted' /\ InFlight' = InFlight
<1>1. ASSUME NEW g \in Group PROVE Alone(g)' /\ (Somewhere(g)' <=> Somewhere(g))
  <2>1. Alone(g)
    BY DEF OnePlace
  <2>2. Buffered(g)' = Buffered(g) /\ Finished(g)' = Finished(g)
    BY DEF Buffered, Finished
  <2>3. Solo(CalledBack(g)') /\ (CalledBack(g)' # {} <=> CalledBack(g) # {})
    OBVIOUS
  <2>4. Somewhere(g)' <=> Somewhere(g)
    BY <2>2, <2>3 DEF Somewhere
  <2> QED  BY <2>1, <2>2, <2>3, <2>4 DEF Alone
<1>2. OnePlace' /\ Accounted'
  BY <1>1 DEF OnePlace, Accounted
<1>3. InFlight' = InFlight
  BY DEF InFlight
<1> QED  BY <1>2, <1>3

(* Steps that touch neither the loop thread nor the groups.                   *)
LEMMA Elsewhere ==
    ASSUME IInv, UNCHANGED <<source, error, outputQueue, loop, collected, dropped, delivered>>
    PROVE  OnePlace' /\ Accounted' /\ InOrder' /\ Limited'
<1> USE DEF IInv, source, loop
<1>1. \A g \in Group : CalledBack(g)' = CalledBack(g) /\ Solo(CalledBack(g))
  BY DEF CalledBack, OnePlace, Alone
<1>2. Healthy' => Healthy
  BY DEF Healthy
<1>3. OnePlace' /\ Accounted' /\ InFlight' = InFlight
  BY <1>1, <1>2, CallsStay
<1>4. InOrder'
  BY <1>1 DEF InOrder, Wakes, Resumes
<1>5. Limited'
  BY <1>3 DEF Limited
<1> QED  BY <1>3, <1>4, <1>5

(* A wake-up leaves the head of the agenda.                                   *)
LEMMA WakeTaken ==
    ASSUME IInv, agenda # <<>>, Head(agenda) \in Wake
    PROVE  /\ Tail(agenda) \in Seq(Wake \cup Done)
           /\ Positions(Tail(agenda), Wake) = {}
           /\ Positions(Tail(agenda), Crashes) # {} <=> Positions(agenda, Crashes) # {}
           /\ \A g \in Group :
                 /\ Solo(Positions(Tail(agenda), CallsOf(g)))
                 /\ Positions(Tail(agenda), CallsOf(g)) # {} <=> CalledBack(g) # {}
<1>1. agenda \in Seq(Wake \cup Done) /\ Tail(agenda) \in Seq(Wake \cup Done)
  BY HeadIs DEF IInv, TypeOK
<1>2. Head(agenda) \notin Crashes /\ \A g : Head(agenda) \notin CallsOf(g)
  BY WakeNotDone DEF Crashes, CallsOf
<1>3. Positions(Tail(agenda), Wake) = {}
  <2>1. Solo(Positions(agenda, Wake))
    BY DEF IInv, InOrder, Wakes
  <2> QED  BY <1>1, <2>1, SoloTail
<1>4. Positions(Tail(agenda), Crashes) # {} <=> Positions(agenda, Crashes) # {}
  BY <1>1, <1>2, AnyLeft
<1>5. ASSUME NEW g \in Group
      PROVE  /\ Solo(Positions(Tail(agenda), CallsOf(g)))
             /\ Positions(Tail(agenda), CallsOf(g)) # {} <=> CalledBack(g) # {}
  <2>1. Solo(Positions(agenda, CallsOf(g)))
    BY DEF IInv, OnePlace, Alone, CalledBack
  <2> QED  BY <1>1, <1>2, <2>1, SoloTail DEF CalledBack
<1> QED  BY <1>1, <1>3, <1>4, <1>5

(* A wake-up joins an agenda that has none.                                   *)
LEMMA WakeAdded ==
    ASSUME NEW s \in Seq(Wake \cup Done), NEW e \in Wake, Positions(s, Wake) = {}
    PROVE  /\ Append(s, e) \in Seq(Wake \cup Done)
           /\ Solo(Positions(Append(s, e), Wake))
           /\ Positions(Append(s, e), Crashes) # {} <=> Positions(s, Crashes) # {}
           /\ \A g : Positions(Append(s, e), CallsOf(g)) = Positions(s, CallsOf(g))
<1>1. Append(s, e) \in Seq(Wake \cup Done)
  BY AppendIs
<1>2. e \notin Crashes /\ \A g : e \notin CallsOf(g)
  BY WakeNotDone DEF Crashes, CallsOf
<1>3. Solo(Positions(Append(s, e), Wake))
  <2>1. Solo(Positions(s, Wake))
    BY DEF Solo
  <2>2. e \in Wake \cup Done
    OBVIOUS
  <2>3. e \in Wake => Positions(s, Wake) = {}
    OBVIOUS
  <2> HIDE DEF Solo
  <2> QED  BY <2>1, <2>2, <2>3, SoloAppend
<1>4. Positions(Append(s, e), Crashes) # {} <=> Positions(s, Crashes) # {}
  BY <1>2, AnyLeft
<1>5. \A g : Positions(Append(s, e), CallsOf(g)) = Positions(s, CallsOf(g))
  <2>1. e \in Wake \cup Done
    OBVIOUS
  <2> QED  BY <1>2, <2>1, PositionsOther
<1> QED  BY <1>1, <1>3, <1>4, <1>5

(* While the loop runs, the tasks under way are those it counts.              *)
LEMMA AllActive ==
    ASSUME IInv, loopAt \notin {"draining", "dead"}, Wakes = {}
    PROVE  InFlight \subseteq activeTasks
<1> USE DEF IInv
<1>1. Resumes = {}
  <2>1. Resumes \subseteq Wakes
    BY WakeNotDone DEF Resumes, Wakes, Positions
  <2> QED  BY <2>1
<1>2. ASSUME NEW g \in Group, CalledBack(g) # {} PROVE g \in activeTasks
  BY <1>1, <1>2 DEF InOrder
<1> QED  BY <1>2 DEF InFlight, Limited

-----------------------------------------------------------------------------
(* The loop thread *)

(* A task that ends leaves the running tasks and is called back.              *)
LEMMA TaskDoneStep ==
    ASSUME IInv, NEW h \in Group, NEW o \in Outcome, TaskDone(h, o)
    PROVE  OnePlace' /\ Accounted' /\ InOrder' /\ Limited'
<1> USE DEF IInv
<1> DEFINE call == [kind |-> "callback", group |-> h, outcome |-> o]
<1>1. call \in Done /\ call.group = h /\ call \notin Wake /\ call \in Wake \cup Done
  BY CallbackIs
<1>2. /\ h \in generating /\ generating' = generating \ {h} /\ agenda' = Append(agenda, call)
      /\ UNCHANGED <<cursor, buffer, outputQueue, error, loopAt, activeTasks, collected, dropped, delivered>>
      /\ loopAt \in {"event loop", "draining"}
  BY DEF TaskDone, Awaiting, source, flags, manager, delivered
<1> HIDE DEF call
<1>3. agenda \in Seq(Wake \cup Done)
  BY DEF TypeOK
<1>4. \A g : call \in CallsOf(g) <=> g = h
  BY <1>1 DEF CallsOf
<1>5. ASSUME NEW g \in Group
      PROVE  Solo(CalledBack(g)') /\ (CalledBack(g)' # {} <=> CalledBack(g) # {} \/ g = h)
  <2>1. Alone(g)
    BY DEF OnePlace
  <2>2. Solo(Positions(agenda, CallsOf(g))) /\ (call \in CallsOf(g) => Positions(agenda, CallsOf(g)) = {})
    BY <1>2, <1>4, <2>1 DEF Alone, CalledBack
  <2>3. /\ Solo(Positions(Append(agenda, call), CallsOf(g)))
        /\ Positions(Append(agenda, call), CallsOf(g)) # {} <=> Positions(agenda, CallsOf(g)) # {} \/ call \in CallsOf(g)
    BY <1>1, <1>3, <2>2, SoloAppend
  <2>4. CalledBack(g)' = Positions(Append(agenda, call), CallsOf(g))
    BY <1>2 DEF CalledBack, CallsOf
  <2> QED  BY <1>4, <2>3, <2>4 DEF CalledBack
<1>6. ASSUME NEW g \in Group PROVE Alone(g)' /\ (Somewhere(g)' <=> Somewhere(g))
  <2>1. Alone(g)
    BY DEF OnePlace
  <2>2. Buffered(g)' = Buffered(g) /\ Finished(g)' = Finished(g)
    BY <1>2 DEF Buffered, Finished
  <2>3. g \in generating' <=> g \in generating /\ g # h
    BY <1>2
  <2>4. Somewhere(g)' <=> Somewhere(g)
    BY <1>2, <1>5, <2>2, <2>3 DEF Somewhere
  <2>5. CASE g = h
    BY <1>2, <1>5, <2>1, <2>2, <2>3, <2>4, <2>5 DEF Alone
  <2>6. CASE g # h
    BY <1>2, <1>5, <2>1, <2>2, <2>3, <2>4, <2>6 DEF Alone
  <2> QED  BY <2>4, <2>5, <2>6
<1>7. Healthy' => Healthy
  <2>1. Positions(Append(agenda, call), Crashes) = {} => Positions(agenda, Crashes) = {}
    BY <1>1, <1>3, AnyLeft
  <2> QED  BY <1>2, <2>1 DEF Healthy, Crashes
<1>8. OnePlace' /\ Accounted'
  BY <1>2, <1>6, <1>7 DEF OnePlace, Accounted
<1>9. InOrder'
  <2>1. Wakes' = Wakes
    BY <1>1, <1>2, <1>3, PositionsOther DEF Wakes
  <2>2. call \notin {[kind |-> "resume"]}
    BY <1>1, WakeNotDone
  <2>3. Resumes' = Resumes
    BY <1>1, <1>2, <1>3, <2>2, PositionsOther DEF Resumes
  <2>4. h \in activeTasks
    BY <1>2 DEF Limited
  <2>5. ASSUME NEW g \in Group \ activeTasks, NEW i \in CalledBack(g)' PROVE i \in CalledBack(g)
    <3>1. call \notin CallsOf(g)
      BY <1>4, <2>4, <2>5
    <3>2. CalledBack(g)' = Positions(Append(agenda, call), CallsOf(g))
      BY <1>2 DEF CalledBack, CallsOf
    <3> QED  BY <1>1, <1>3, <2>5, <3>1, <3>2, PositionsAppend DEF CalledBack
  <2> QED  BY <1>2, <2>1, <2>3, <2>5 DEF InOrder
<1>10. Limited'
  <2>1. InFlight' = InFlight
    BY <1>2, <1>5 DEF InFlight
  <2> QED  BY <1>2, <2>1 DEF Limited
<1> QED  BY <1>8, <1>9, <1>10

(* Reaping.  Tasks whose callbacks still wait are forgotten only if the loop  *)
(* comes back behind them.                                                    *)
LEMMA ReapStep ==
    ASSUME IInv, Reap
    PROVE  OnePlace' /\ Accounted' /\ InOrder' /\ Limited'
<1> USE DEF IInv
<1>1. /\ loopAt = "event loop" /\ agenda # <<>> /\ Head(agenda) \in Wake
      /\ activeTasks' = activeTasks \cap generating
      /\ UNCHANGED <<cursor, buffer, outputQueue, error, generating, collected, dropped, delivered>>
  BY WakeNotDone DEF Reap, source, flags, manager, delivered
<1> DEFINE tail == Tail(agenda)
           resume == [kind |-> "resume"]
<1>2. \/ activeTasks \subseteq generating /\ loopAt' = "top up" /\ agenda' = tail
      \/ loopAt' = "event loop" /\ agenda' = Append(tail, resume)
  BY DEF Reap
<1>3. /\ tail \in Seq(Wake \cup Done) /\ Positions(tail, Wake) = {}
      /\ Positions(tail, Crashes) # {} <=> Positions(agenda, Crashes) # {}
      /\ \A g \in Group :
            /\ Solo(Positions(tail, CallsOf(g)))
            /\ Positions(tail, CallsOf(g)) # {} <=> CalledBack(g) # {}
  BY <1>1, WakeTaken
<1>4. /\ resume \in Wake /\ resume \in Wake \cup Done
  BY WakeNotDone
<1> HIDE DEF tail, resume
<1>5. /\ Solo(Positions(Append(tail, resume), Wake))
      /\ Positions(Append(tail, resume), Crashes) # {} <=> Positions(tail, Crashes) # {}
      /\ \A g : Positions(Append(tail, resume), CallsOf(g)) = Positions(tail, CallsOf(g))
  BY <1>3, <1>4, WakeAdded
<1>6. ASSUME NEW g PROVE CalledBack(g)' = Positions(tail, CallsOf(g))
  <2>1. CalledBack(g)' = Positions(agenda', CallsOf(g))
    BY DEF CalledBack, CallsOf
  <2> QED  BY <1>2, <1>5, <2>1
<1>7. Healthy' => Healthy
  <2>1. Positions(agenda', Crashes) # {} <=> Positions(agenda, Crashes) # {}
    BY <1>2, <1>3, <1>5
  <2> QED  BY <1>1, <2>1 DEF Healthy, Crashes
<1>8. OnePlace' /\ Accounted' /\ InFlight' = InFlight
  BY <1>1, <1>3, <1>6, <1>7, CallsStay
<1>9. InOrder'
  <2>1. CASE activeTasks \subseteq generating /\ loopAt' = "top up" /\ agenda' = tail
    <3>1. Wakes' = {}
      BY <1>3, <2>1 DEF Wakes
    <3>2. ASSUME NEW g \in Group \ activeTasks' PROVE CalledBack(g)' = {}
      <4>1. g \notin activeTasks
        BY <1>1, <2>1, <3>2
      <4>2. ASSUME NEW i \in CalledBack(g), NEW j \in Resumes, j > i PROVE FALSE
        <5>1. j \in Wakes /\ 1 \in Wakes
          <6>1. Resumes \subseteq Wakes
            BY WakeNotDone DEF Resumes, Wakes, Positions
          <6>2. agenda \in Seq(Wake \cup Done)
            BY DEF TypeOK
          <6> QED  BY <1>1, <4>2, <6>1, <6>2, PositionsTail DEF Wakes
        <5>2. j = 1
          BY <5>1 DEF InOrder, Solo
        <5>3. i \in Nat \ {0}
          <6>1. agenda \in Seq(Wake \cup Done)
            BY DEF TypeOK
          <6> QED  BY <1>1, <4>2, <6>1, PositionsTail DEF CalledBack
        <5> QED  BY <4>2, <5>2, <5>3
      <4>3. CalledBack(g) = {}
        BY <1>1, <3>2, <4>1, <4>2 DEF InOrder
      <4> QED  BY <1>3, <1>6, <3>2, <4>3
    <3> QED  BY <2>1, <3>1, <3>2 DEF InOrder, Solo
  <2>2. CASE loopAt' = "event loop" /\ agenda' = Append(tail, resume)
    <3>1. Solo(Wakes')
      BY <1>5, <2>2 DEF Wakes
    <3>2. Len(tail) + 1 \in Resumes'
      BY <1>3, <1>4, <2>2, PositionsAppend DEF Resumes, resume
    <3>3. ASSUME NEW g, NEW i \in CalledBack(g)' PROVE Len(tail) + 1 > i
      BY <1>3, <1>6, <3>3 DEF Positions
    <3> QED  BY <2>2, <3>1, <3>2, <3>3 DEF InOrder
  <2> QED  BY <1>2, <2>1, <2>2
<1>10. Limited'
  <2>1. activeTasks \subseteq Group
    BY DEF TypeOK
  <2>2. /\ Cardinality(activeTasks') <= Cardinality(activeTasks)
        /\ Cardinality(activeTasks') \in Nat /\ Cardinality(activeTasks) \in Nat
    BY <1>1, <2>1, Counting
  <2>3. Cardinality(activeTasks') <= Concurrency
    BY <2>2, Constants DEF Limited
  <2>4. generating' \subseteq activeTasks'
    BY <1>1 DEF Limited
  <2>5. loopAt' # "admit"
    BY <1>2
  <2> QED  BY <1>1, <1>8, <2>3, <2>4, <2>5 DEF Limited
<1> QED  BY <1>8, <1>9, <1>10

(* The loop resumes, or stops: no wake-up is left, so every callback of a     *)
(* task that was reaped has run.                                              *)
LEMMA WakeStep ==
    ASSUME IInv, ResumeLoop \/ StopLoop
    PROVE  OnePlace' /\ Accounted' /\ InOrder' /\ Limited'
<1> USE DEF IInv
<1>1. /\ loopAt = "event loop" /\ agenda # <<>> /\ Head(agenda) \in Wake /\ agenda' = Tail(agenda)
      /\ UNCHANGED <<cursor, buffer, outputQueue, error, activeTasks, generating, collected, dropped, delivered>>
      /\ loopAt' \in {"top up", "draining"}
  BY WakeNotDone DEF ResumeLoop, StopLoop, source, flags, manager, delivered
<1> DEFINE tail == Tail(agenda)
<1>2. /\ tail \in Seq(Wake \cup Done) /\ Positions(tail, Wake) = {}
      /\ Positions(tail, Crashes) # {} <=> Positions(agenda, Crashes) # {}
      /\ \A g \in Group :
            /\ Solo(Positions(tail, CallsOf(g)))
            /\ Positions(tail, CallsOf(g)) # {} <=> CalledBack(g) # {}
  BY <1>1, WakeTaken
<1>3. agenda' = tail
  BY <1>1
<1> HIDE DEF tail
<1>4. ASSUME NEW g PROVE CalledBack(g)' = Positions(tail, CallsOf(g))
  BY <1>3 DEF CalledBack, CallsOf
<1>5. Healthy' => Healthy
  BY <1>1, <1>2, <1>3 DEF Healthy, Crashes
<1>6. OnePlace' /\ Accounted' /\ InFlight' = InFlight
  BY <1>1, <1>2, <1>4, <1>5, CallsStay
<1>7. Wakes' = {}
  BY <1>2, <1>3 DEF Wakes
<1>8. CASE loopAt' = "draining"
  BY <1>6, <1>7, <1>8, <1>1 DEF InOrder, Solo, Limited
<1>9. CASE loopAt' = "top up"
  <2>1. Head(agenda) = [kind |-> "resume"]
    BY <1>9 DEF ResumeLoop, StopLoop
  <2>2. agenda \in Seq(Wake \cup Done)
    BY DEF TypeOK
  <2>3. ASSUME NEW g \in Group \ activeTasks', NEW i \in CalledBack(g)' PROVE FALSE
    <3>1. i \in Nat /\ i >= 1 /\ i + 1 \in CalledBack(g)
      BY <1>1, <1>4, <2>2, <2>3, PositionsTail DEF CalledBack, tail
    <3>2. g \in Group \ activeTasks
      BY <1>1, <2>3
    <3>3. PICK j \in Resumes : j > i + 1
      BY <1>1, <3>1, <3>2 DEF InOrder
    <3>4. j \in Wakes /\ 1 \in Wakes
      <4>1. Resumes \subseteq Wakes
        BY WakeNotDone DEF Resumes, Wakes, Positions
      <4> QED  BY <1>1, <2>2, <4>1, PositionsTail DEF Wakes
    <3>5. j = 1
      BY <3>4 DEF InOrder, Solo
    <3> QED  BY <3>1, <3>3, <3>5
  <2>4. InOrder'
    BY <1>7, <2>3 DEF InOrder, Solo
  <2>5. Limited'
    BY <1>1, <1>6, <1>9 DEF Limited
  <2> QED  BY <1>6, <2>4, <2>5
<1> QED  BY <1>1, <1>8, <1>9

(* The poll interval ends.                                                    *)
LEMMA TimerStep ==
    ASSUME IInv, Timer
    PROVE  OnePlace' /\ Accounted' /\ InOrder' /\ Limited'
<1> USE DEF IInv
<1> DEFINE wake == [kind |-> "wake"]
<1>1. /\ loopAt = "event loop" /\ agenda' = Append(agenda, wake)
      /\ UNCHANGED <<cursor, buffer, outputQueue, error, loopAt, activeTasks, generating, collected, dropped, delivered>>
      /\ ~\E i \in 1..Len(agenda) : agenda[i] \in Wake
  BY DEF Timer, source, flags, manager, delivered
<1>2. agenda \in Seq(Wake \cup Done) /\ wake \in Wake /\ wake \in Wake \cup Done
  BY WakeNotDone DEF TypeOK
<1>3. DOMAIN agenda = 1..Len(agenda)
  BY <1>2
<1>4. Positions(agenda, Wake) = {}
  BY <1>1, <1>3 DEF Positions
<1> HIDE DEF wake
<1>5. /\ Solo(Positions(Append(agenda, wake), Wake))
      /\ Positions(Append(agenda, wake), Crashes) # {} <=> Positions(agenda, Crashes) # {}
      /\ \A g : Positions(Append(agenda, wake), CallsOf(g)) = Positions(agenda, CallsOf(g))
  BY <1>2, <1>4, WakeAdded
<1>6. ASSUME NEW g PROVE CalledBack(g)' = CalledBack(g)
  BY <1>1, <1>5 DEF CalledBack, CallsOf
<1>7. Healthy' => Healthy
  BY <1>1, <1>5 DEF Healthy, Crashes
<1>8. \A g \in Group : Solo(CalledBack(g))
  BY DEF OnePlace, Alone
<1>9. OnePlace' /\ Accounted' /\ InFlight' = InFlight
  BY <1>1, <1>6, <1>7, <1>8, CallsStay
<1>10. InOrder'
  <2>1. Solo(Wakes')
    BY <1>1, <1>5 DEF Wakes
  <2>2. ASSUME NEW g \in Group, CalledBack(g) # {} PROVE g \in activeTasks
    <3>1. Wakes = {}
      BY <1>4 DEF Wakes
    <3>2. InFlight \subseteq activeTasks
      BY <1>1, <3>1, AllActive
    <3> QED  BY <2>2, <3>2 DEF InFlight
  <2> QED  BY <1>1, <1>6, <2>1, <2>2 DEF InOrder
<1>11. Limited'
  BY <1>1, <1>9 DEF Limited
<1> QED  BY <1>9, <1>10, <1>11

(* The top-up condition.                                                      *)
LEMMA TopUpStep ==
    ASSUME IInv, TopUp
    PROVE  OnePlace' /\ Accounted' /\ InOrder' /\ Limited'
<1> USE DEF IInv
<1>1. /\ loopAt = "top up" /\ loopAt' = IF MayAdmit THEN "admit" ELSE "publish"
      /\ UNCHANGED <<cursor, buffer, outputQueue, error, activeTasks, generating, agenda, collected, dropped, delivered>>
  BY DEF TopUp, source, flags, manager, delivered
<1>2. \A g \in Group : CalledBack(g)' = CalledBack(g) /\ Solo(CalledBack(g))
  BY <1>1 DEF CalledBack, OnePlace, Alone
<1>3. Healthy' => Healthy
  BY <1>1 DEF Healthy
<1>4. OnePlace' /\ Accounted' /\ InFlight' = InFlight
  BY <1>1, <1>2, <1>3, CallsStay
<1>5. InOrder'
  BY <1>1, <1>2 DEF InOrder, Wakes, Resumes
<1>6. Limited'
  BY <1>1, <1>4 DEF Limited, MayAdmit
<1> QED  BY <1>4, <1>5, <1>6

(* A callback's error ends the thread; otherwise the loop sleeps.             *)
LEMMA EndOfLoopStep ==
    ASSUME IInv, Publish \/ ExitThread
    PROVE  OnePlace' /\ Accounted' /\ InOrder' /\ Limited'
<1> USE DEF IInv
<1>1. UNCHANGED <<cursor, buffer, outputQueue, error, activeTasks, collected, dropped, delivered>>
  BY DEF Publish, ExitThread, source, flags, manager, delivered
<1>2. CASE loopAt' = "dead"
  <2>1. generating' = {} /\ agenda' = <<>>
    BY <1>2 DEF Publish, ExitThread
  <2>2. \A S : Positions(agenda', S) = {}
    BY <2>1, EmptyHolds
  <2>3. ASSUME NEW g \in Group PROVE Alone(g)'
    <3>1. Alone(g)
      BY DEF OnePlace
    <3>2. /\ Buffered(g)' = Buffered(g) /\ Finished(g)' = Finished(g) /\ CalledBack(g)' = {}
          /\ g \notin generating'
      BY <1>1, <2>1, <2>2 DEF Buffered, Finished, CalledBack, CallsOf
    <3> QED  BY <1>1, <3>1, <3>2 DEF Alone, Somewhere, Solo
  <2>4. OnePlace' /\ Accounted'
    BY <1>2, <2>3 DEF OnePlace, Accounted, Healthy
  <2>5. InOrder'
    BY <1>2, <2>2 DEF InOrder, Wakes, Solo
  <2>6. InFlight' = {}
    BY <2>1, <2>2 DEF InFlight, CalledBack, CallsOf
  <2>7. Limited'
    <3>1. InFlight \subseteq Group
      BY DEF InFlight, TypeOK
    <3>2. Cardinality(InFlight') <= Cardinality(InFlight) /\ Cardinality(InFlight) \in Nat /\ Cardinality(InFlight') \in Nat
      BY <2>6, <3>1, Counting
    <3>3. Len(outputQueue) \in Nat
      <4>1. outputQueue \in Seq(Group)
        BY DEF TypeOK
      <4> QED  BY <4>1, Lengths
    <3>4. Len(outputQueue) + Cardinality(InFlight') < 2 * Concurrency
      BY <3>2, <3>3, Constants DEF Limited
    <3> QED  BY <1>1, <1>2, <2>1, <3>4 DEF Limited
  <2> QED  BY <2>4, <2>5, <2>7
<1>3. CASE loopAt' # "dead"
  <2>1. loopAt = "publish" /\ loopAt' = "event loop" /\ UNCHANGED <<generating, agenda>>
    BY <1>3 DEF Publish, ExitThread
  <2>2. \A g \in Group : CalledBack(g)' = CalledBack(g) /\ Solo(CalledBack(g))
    BY <2>1 DEF CalledBack, OnePlace, Alone
  <2>3. Healthy' => Healthy
    BY <1>1, <2>1 DEF Healthy
  <2>4. OnePlace' /\ Accounted' /\ InFlight' = InFlight
    BY <1>1, <2>1, <2>2, <2>3, CallsStay
  <2>5. InOrder'
    BY <1>1, <2>1, <2>2 DEF InOrder, Wakes, Resumes
  <2>6. Limited'
    BY <1>1, <2>1, <2>4 DEF Limited
  <2> QED  BY <2>4, <2>5, <2>6
<1> QED  BY <1>2, <1>3

(* A callback keeps the error, puts the group back or queues its result.      *)
LEMMA CallbackStep ==
    ASSUME IInv, DoneCallback
    PROVE  OnePlace' /\ Accounted' /\ InOrder' /\ Limited'
<1> USE DEF IInv
<1> DEFINE h == Head(agenda).group
           o == Head(agenda).outcome
           tail == Tail(agenda)
<1>1. /\ agenda # <<>> /\ Head(agenda) \in Done /\ agenda' = tail /\ h \in Group /\ o \in Outcome
      /\ error' = (error \/ o = "crashed")
      /\ buffer' = IF o = "aborted" THEN Append(buffer, h) ELSE buffer
      /\ outputQueue' = IF o = "complete" THEN Append(outputQueue, h) ELSE outputQueue
      /\ UNCHANGED <<cursor, loopAt, activeTasks, generating, collected, dropped, delivered>>
      /\ loopAt \in {"event loop", "draining"}
  BY DEF DoneCallback, Deliverable, Awaiting, manager, delivered, Done
<1>2. /\ agenda \in Seq(Wake \cup Done) /\ buffer \in Seq(Group) /\ outputQueue \in Seq(Group)
      /\ Len(outputQueue) \in Nat
  <2>1. agenda \in Seq(Wake \cup Done) /\ buffer \in Seq(Group) /\ outputQueue \in Seq(Group)
    BY DEF TypeOK
  <2> QED  BY <2>1, Lengths
<1>3. \A g : Head(agenda) \in CallsOf(g) <=> g = h
  BY <1>1 DEF CallsOf
<1>4. Head(agenda) \in Crashes <=> o = "crashed"
  BY <1>1 DEF Crashes
<1>5. CalledBack(h) # {} /\ h \notin generating
  <2>1. Head(agenda) \in CallsOf(h)
    BY <1>3
  <2>2. CalledBack(h) # {}
    BY <1>1, <1>2, <2>1, HeadIs DEF CalledBack
  <2>3. Alone(h)
    BY <1>1 DEF OnePlace
  <2> QED  BY <2>2, <2>3 DEF Alone
<1>6. ASSUME NEW g \in Group PROVE Solo(CalledBack(g)') /\ (CalledBack(g)' # {} <=> CalledBack(g) # {} /\ g # h)
  <2>1. Solo(Positions(agenda, CallsOf(g)))
    BY DEF OnePlace, Alone, CalledBack
  <2>2. /\ Solo(Positions(tail, CallsOf(g)))
        /\ Positions(tail, CallsOf(g)) # {} <=> Positions(agenda, CallsOf(g)) # {} /\ Head(agenda) \notin CallsOf(g)
    BY <1>1, <1>2, <2>1, SoloTail
  <2>3. CalledBack(g)' = Positions(tail, CallsOf(g))
    BY <1>1 DEF CalledBack, CallsOf
  <2> QED  BY <1>3, <2>2, <2>3 DEF CalledBack
<1> HIDE DEF h, o, tail
<1>7. ASSUME NEW g \in Group
      PROVE  /\ Solo(Buffered(g)') /\ (Buffered(g)' # {} <=> Buffered(g) # {} \/ (g = h /\ o = "aborted"))
             /\ Solo(Finished(g)') /\ (Finished(g)' # {} <=> Finished(g) # {} \/ (g = h /\ o = "complete"))
  <2>1. Alone(g)
    BY DEF OnePlace
  <2>2. h \in {g} => Positions(buffer, {g}) = {} /\ Positions(outputQueue, {g}) = {}
    BY <1>5, <2>1 DEF Alone, Buffered, Finished
  <2>3. Solo(Positions(buffer, {g})) /\ Solo(Positions(outputQueue, {g}))
    BY <2>1 DEF Alone, Buffered, Finished
  <2>4. /\ Solo(Positions(Append(buffer, h), {g}))
        /\ Positions(Append(buffer, h), {g}) # {} <=> Positions(buffer, {g}) # {} \/ h \in {g}
    BY <1>1, <1>2, <2>2, <2>3, SoloAppend
  <2>5. /\ Solo(Positions(Append(outputQueue, h), {g}))
        /\ Positions(Append(outputQueue, h), {g}) # {} <=> Positions(outputQueue, {g}) # {} \/ h \in {g}
    BY <1>1, <1>2, <2>2, <2>3, SoloAppend
  <2>6. Solo(Buffered(g)') /\ (Buffered(g)' # {} <=> Buffered(g) # {} \/ (g = h /\ o = "aborted"))
    BY <1>1, <2>3, <2>4 DEF Buffered
  <2>7. Solo(Finished(g)') /\ (Finished(g)' # {} <=> Finished(g) # {} \/ (g = h /\ o = "complete"))
    BY <1>1, <2>3, <2>5 DEF Finished
  <2> QED  BY <2>6, <2>7
<1>8. ASSUME NEW g \in Group
      PROVE  Alone(g)' /\ (Somewhere(g)' <=> Somewhere(g) /\ ~(g = h /\ o = "crashed"))
  <2>1. Alone(g)
    BY DEF OnePlace
  <2>2. CASE g # h
    <3>1. /\ CalledBack(g)' # {} <=> CalledBack(g) # {}
          /\ Buffered(g)' # {} <=> Buffered(g) # {}
          /\ Finished(g)' # {} <=> Finished(g) # {}
      BY <1>6, <1>7, <2>2
    <3>2. Somewhere(g)' <=> Somewhere(g)
      BY <1>1, <3>1 DEF Somewhere
    <3>3. Alone(g)'
      BY <1>1, <1>6, <1>7, <2>1, <3>1, <3>2 DEF Alone
    <3> QED  BY <2>2, <3>2, <3>3
  <2>3. CASE g = h
    <3>1. /\ CalledBack(g) # {} /\ Buffered(g) = {} /\ Finished(g) = {} /\ g \notin generating
          /\ g \notin collected /\ g \notin dropped /\ g \notin delivered /\ g <= cursor
      BY <1>5, <2>1, <2>3 DEF Alone, Somewhere
    <3>2. /\ CalledBack(g)' = {} /\ (Buffered(g)' # {} <=> o = "aborted") /\ (Finished(g)' # {} <=> o = "complete")
          /\ g \notin generating' /\ g \notin collected' /\ g \notin dropped' /\ g \notin delivered'
      BY <1>1, <1>6, <1>7, <2>3, <3>1
    <3>3. Somewhere(g)' <=> o # "crashed"
      BY <1>1, <3>2 DEF Somewhere, Outcome
    <3>4. Somewhere(g)
      BY <3>1 DEF Somewhere
    <3>5. Alone(g)'
      BY <1>1, <1>6, <1>7, <3>1, <3>2 DEF Alone, Somewhere
    <3> QED  BY <2>3, <3>3, <3>4, <3>5
  <2> QED  BY <2>2, <2>3
<1>9. Healthy' => Healthy /\ o # "crashed"
  <2>1. Positions(agenda, Crashes) # {} <=> Positions(tail, Crashes) # {} \/ Head(agenda) \in Crashes
    <3>1. agenda # <<>> /\ agenda \in Seq(Wake \cup Done)
      BY <1>1, <1>2
    <3>2. Positions(agenda, Crashes) # {} <=> Positions(Tail(agenda), Crashes) # {} \/ Head(agenda) \in Crashes
      BY <3>1, AnyLeft
    <3> QED  BY <3>2 DEF tail
  <2> QED  BY <1>1, <1>4, <2>1 DEF Healthy, Crashes
<1>10. OnePlace' /\ Accounted'
  BY <1>1, <1>8, <1>9 DEF OnePlace, Accounted
<1>11. InOrder'
  <2>1. \A S : \A i : i \in Positions(tail, S) <=> i \in Nat /\ i >= 1 /\ i + 1 \in Positions(agenda, S)
    BY <1>1, <1>2, PositionsTail DEF tail
  <2>2. Solo(Wakes')
    <3>1. Solo(Positions(agenda, Wake))
      BY DEF InOrder, Wakes
    <3>2. Solo(Positions(tail, Wake))
      BY <1>1, <1>2, <3>1, SoloTail DEF tail
    <3> QED  BY <1>1, <3>2 DEF Wakes
  <2>3. ASSUME loopAt = "event loop", NEW g \in Group \ activeTasks, NEW i \in CalledBack(g)'
        PROVE  \E j \in Resumes' : j > i
    <3>1. CalledBack(g)' = Positions(tail, CallsOf(g)) /\ Resumes' = Positions(tail, {[kind |-> "resume"]})
      BY <1>1 DEF CalledBack, CallsOf, Resumes
    <3>2. i \in Nat /\ i >= 1 /\ i + 1 \in CalledBack(g)
      BY <2>1, <2>3, <3>1 DEF CalledBack
    <3>3. PICK j \in Resumes : j > i + 1
      BY <2>3, <3>2 DEF InOrder
    <3>4. j \in Nat
      <4>1. agenda # <<>> /\ agenda \in Seq(Wake \cup Done)
        BY <1>1, <1>2
      <4>2. \A k \in Resumes : k \in Nat \ {0}
        BY <4>1, PositionsTail DEF Resumes
      <4> QED  BY <3>3, <4>2
    <3>5. j - 1 \in Nat /\ j - 1 >= 1 /\ (j - 1) + 1 = j /\ j - 1 > i
      BY <3>2, <3>3, <3>4
    <3>6. j - 1 \in Resumes'
      BY <2>1, <3>1, <3>5 DEF Resumes
    <3> QED  BY <3>5, <3>6
  <2> QED  BY <1>1, <2>2, <2>3 DEF InOrder
<1>12. Limited'
  <2>1. InFlight' = InFlight \ {h}
    <3>1. generating \subseteq Group
      BY DEF TypeOK
    <3> QED  BY <1>1, <1>5, <1>6, <3>1 DEF InFlight
  <2>2. h \in InFlight /\ InFlight \subseteq Group
    BY <1>1, <1>5 DEF InFlight, TypeOK
  <2>3. /\ Cardinality(InFlight) \in Nat /\ Cardinality(InFlight') \in Nat
        /\ Cardinality(InFlight') = Cardinality(InFlight) - 1
    <3>1. InFlight \ {h} \in SUBSET InFlight
      OBVIOUS
    <3> QED  BY <2>1, <2>2, <3>1, Counting
  <2>4. Len(outputQueue') = Len(outputQueue) \/ Len(outputQueue') = Len(outputQueue) + 1
    BY <1>1, <1>2, AppendIs
  <2>5. Len(outputQueue') + Cardinality(InFlight') < 2 * Concurrency
    BY <1>2, <2>3, <2>4, Constants DEF Limited
  <2> QED  BY <1>1, <2>5 DEF Limited
<1> QED  BY <1>10, <1>11, <1>12

(* get_samples issues a group that is nowhere else: one that was put back, or *)
(* the next prompt.                                                           *)
LEMMA AdmitStep ==
    ASSUME IInv, Admit
    PROVE  OnePlace' /\ Accounted' /\ InOrder' /\ Limited'
<1> USE DEF IInv
<1>1. /\ loopAt = "admit" /\ loopAt' \in {"publish", "top up"}
      /\ UNCHANGED <<error, outputQueue, agenda, collected, dropped, delivered>>
  BY DEF Admit, flags, manager, delivered
<1>2. \A g \in Group : CalledBack(g)' = CalledBack(g) /\ Solo(CalledBack(g))
  BY <1>1 DEF CalledBack, CallsOf, OnePlace, Alone
<1>3. Healthy' => Healthy
  BY <1>1 DEF Healthy
<1>4. Wakes' = {} /\ Wakes = {} /\ Resumes' = Resumes
  BY <1>1 DEF InOrder, Wakes, Resumes
<1>5. CASE SourceEmpty
  <2>1. UNCHANGED <<cursor, buffer, activeTasks, generating>> /\ loopAt' = "publish"
    BY <1>5 DEF Admit, source
  <2>2. OnePlace' /\ Accounted' /\ InFlight' = InFlight
    BY <1>1, <1>2, <1>3, <2>1, CallsStay
  <2>3. InOrder'
    BY <1>1, <1>2, <1>4, <2>1 DEF InOrder, Solo
  <2>4. Limited'
    BY <1>1, <2>1, <2>2 DEF Limited
  <2> QED  BY <2>2, <2>3, <2>4
<1>6. CASE ~SourceEmpty
  <2> DEFINE h == IF buffer # <<>> THEN Head(buffer) ELSE cursor + 1
  <2>1. /\ activeTasks' = activeTasks \cup {h} /\ generating' = generating \cup {h} /\ loopAt' = "top up"
        /\ buffer # <<>> => cursor' = cursor /\ buffer' = Tail(buffer)
        /\ buffer = <<>> => cursor' = cursor + 1 /\ buffer' = buffer
    BY <1>6 DEF Admit
  <2>2. buffer \in Seq(Group) /\ cursor \in 0..MaxGroups /\ MaxGroups \in Nat
    BY Constants DEF TypeOK
  <2>3. cursor \in Nat
    BY <2>2, Bounded
  <2>4. ASSUME buffer # <<>> PROVE h = Head(buffer) /\ h \in Group /\ Buffered(h) # {}
    BY <2>2, <2>4, HeadIs DEF Buffered
  <2>5. ASSUME buffer # <<>>, NEW g \in Group
        PROVE  Solo(Buffered(g)') /\ (Buffered(g)' # {} <=> Buffered(g) # {} /\ g # h)
    <3>2. Solo(Positions(buffer, {g}))
      BY DEF OnePlace, Alone, Buffered
    <3>3. Solo(Positions(Tail(buffer), {g})) /\ (Positions(Tail(buffer), {g}) # {} <=> Positions(buffer, {g}) # {} /\ Head(buffer) \notin {g})
      BY <2>2, <2>5, <3>2, SoloTail
    <3> QED  BY <2>1, <2>5, <2>4, <3>3 DEF Buffered
  <2>6. ASSUME buffer = <<>>
        PROVE  h = cursor + 1 /\ h \in Group /\ \A g \in Group : Buffered(g)' = Buffered(g)
    <3>1. cursor # MaxGroups
      BY <1>6, <2>6 DEF SourceEmpty
    <3>2. cursor + 1 \in Group
      BY <2>2, <3>1, Bounded DEF Group
    <3> QED  BY <2>1, <2>6, <3>2 DEF Buffered
  <2>7. h \in Group
    BY <2>6, <2>4
  <2>8. /\ h \notin generating /\ CalledBack(h) = {} /\ Finished(h) = {}
        /\ h \notin collected /\ h \notin dropped /\ h \notin delivered
    <3>1. Alone(h)
      BY <2>7 DEF OnePlace
    <3>2. CASE buffer # <<>>
      BY <2>7, <2>4, <3>1, <3>2 DEF Alone
    <3>3. CASE buffer = <<>>
      <4>1. ~(h <= cursor)
        BY <2>3, <2>6, <3>3
      <4> QED  BY <3>1, <4>1 DEF Alone, Somewhere
    <3> QED  BY <3>2, <3>3
  <2> HIDE DEF h
  <2>9. ASSUME NEW g \in Group
        PROVE  Solo(Buffered(g)') /\ (Buffered(g)' # {} <=> Buffered(g) # {} /\ g # h)
    <3>1. CASE buffer # <<>>
      BY <2>5, <3>1
    <3>2. CASE buffer = <<>>
      <4>1. Buffered(g) = {}
        BY <3>2, EmptyHolds DEF Buffered
      <4> QED  BY <2>6, <3>2, <4>1 DEF Solo
    <3> QED  BY <3>1, <3>2
  <2>10. ASSUME NEW g \in Group
        PROVE  /\ g <= cursor => g <= cursor'
               /\ g <= cursor' <=> g <= cursor \/ g = h
    <3>1. g \in Nat
      BY Constants
    <3>2. CASE buffer # <<>>
      <4>1. h <= cursor
        BY <2>7, <2>4, <3>2 DEF OnePlace, Alone, Somewhere
      <4> QED  BY <2>1, <3>2, <4>1
    <3>3. CASE buffer = <<>>
      <4>1. cursor' = cursor + 1 /\ h = cursor + 1
        BY <2>1, <2>6, <3>3
      <4> QED  BY <2>3, <3>1, <4>1
    <3> QED  BY <3>2, <3>3
  <2>11. ASSUME NEW g \in Group
         PROVE  Alone(g)' /\ (Somewhere(g)' <=> Somewhere(g) \/ g = h)
    <3>1. Alone(g)
      BY DEF OnePlace
    <3>2. Finished(g)' = Finished(g)
      BY <1>1 DEF Finished
    <3>3. g \in generating' <=> g \in generating \/ g = h
      BY <2>1
    <3>4. CASE g = h
      <4>1. g \in generating' /\ CalledBack(g)' = {} /\ Buffered(g)' = {} /\ Finished(g)' = {}
            /\ g \notin collected' /\ g \notin dropped' /\ g \notin delivered'
        BY <1>1, <1>2, <2>8, <2>9, <3>2, <3>3, <3>4
      <4> QED  BY <2>10, <3>4, <4>1 DEF Alone, Somewhere, Solo
    <3>5. CASE g # h
      <4>1. Buffered(g)' # {} <=> Buffered(g) # {}
        BY <2>9, <3>5
      <4>2. Somewhere(g)' <=> Somewhere(g)
        BY <1>1, <1>2, <3>2, <3>3, <3>5, <4>1 DEF Somewhere
      <4> QED  BY <1>1, <1>2, <2>9, <2>10, <3>1, <3>2, <3>3, <3>5, <4>1, <4>2 DEF Alone
    <3> QED  BY <3>4, <3>5
  <2>12. OnePlace' /\ Accounted'
    BY <1>3, <2>10, <2>11 DEF OnePlace, Accounted
  <2>13. InOrder'
    BY <1>1, <1>2, <1>4, <2>1 DEF InOrder, Solo
  <2>14. Limited'
    <3>1. activeTasks \subseteq Group /\ activeTasks' \subseteq Group
      BY <2>1, <2>7 DEF TypeOK
    <3>2. /\ Cardinality(activeTasks) \in Nat /\ Cardinality(activeTasks') \in Nat
          /\ Cardinality(activeTasks') <= Cardinality(activeTasks) + 1
      <4>1. Cardinality(activeTasks') = IF h \in activeTasks THEN Cardinality(activeTasks) ELSE Cardinality(activeTasks) + 1
        BY <2>1, <3>1, Counting
      <4>2. Cardinality(activeTasks) \in Nat /\ Cardinality(activeTasks') \in Nat
        BY <3>1, Counting
      <4> QED  BY <4>1, <4>2
    <3>3. Cardinality(activeTasks') <= Concurrency
      <4>1. Cardinality(activeTasks) < Concurrency /\ Concurrency \in Nat
        BY <1>1, Constants DEF Limited
      <4> QED  BY <3>2, <4>1
    <3>4. generating' \subseteq activeTasks'
      BY <2>1 DEF Limited
    <3>5. InFlight' \subseteq activeTasks'
      <4>1. InFlight \subseteq activeTasks
        BY <1>1, <1>4, AllActive
      <4> QED  BY <1>2, <2>1, <4>1 DEF InFlight
    <3>6. Cardinality(InFlight') \in Nat /\ Cardinality(InFlight') <= Cardinality(activeTasks')
      BY <3>1, <3>5, Counting
    <3>7. outputQueue \in Seq(Group)
      BY DEF TypeOK
    <3>8. Len(outputQueue) \in Nat /\ Len(outputQueue) < Concurrency
      BY <1>1, <3>7, Lengths DEF Limited
    <3>9. Len(outputQueue') + Cardinality(InFlight') < 2 * Concurrency
      <4>1. Concurrency \in Nat /\ outputQueue' = outputQueue
        BY <1>1, Constants
      <4> QED  BY <3>2, <3>3, <3>6, <3>8, <4>1
    <3> QED  BY <2>1, <3>3, <3>4, <3>9 DEF Limited
  <2> QED  BY <2>12, <2>13, <2>14
<1> QED  BY <1>5, <1>6

-----------------------------------------------------------------------------
(* The manager thread *)

(* A finished group is kept for the rollout or dropped.                       *)
LEMMA CollectStep ==
    ASSUME IInv, NEW keep \in BOOLEAN, Collect(keep)
    PROVE  OnePlace' /\ Accounted' /\ InOrder' /\ Limited'
<1> USE DEF IInv
<1> DEFINE h == Head(outputQueue)
<1>1. /\ outputQueue # <<>> /\ outputQueue' = Tail(outputQueue)
      /\ UNCHANGED <<cursor, buffer, error, loopAt, activeTasks, generating, agenda, delivered>>
      /\ \/ collected' = collected \cup {h} /\ dropped' = dropped
         \/ dropped' = dropped \cup {h} /\ collected' = collected
  BY DEF Collect, source, flags, loop, delivered
<1>2. outputQueue \in Seq(Group)
  BY DEF TypeOK
<1>3. /\ h \in Group /\ Finished(h) # {} /\ Len(outputQueue') = Len(outputQueue) - 1
      /\ Len(outputQueue) \in Nat
  BY <1>1, <1>2, HeadIs DEF Finished
<1>4. ASSUME NEW g \in Group PROVE Solo(Finished(g)') /\ (Finished(g)' # {} <=> Finished(g) # {} /\ g # h)
  <2>1. Solo(Positions(outputQueue, {g}))
    BY DEF OnePlace, Alone, Finished
  <2>2. Solo(Positions(Tail(outputQueue), {g})) /\ (Positions(Tail(outputQueue), {g}) # {} <=> Positions(outputQueue, {g}) # {} /\ h \notin {g})
    BY <1>1, <1>2, <2>1, SoloTail
  <2> QED  BY <1>1, <2>2 DEF Finished
<1> HIDE DEF h
<1>5. ASSUME NEW g \in Group PROVE Alone(g)' /\ (Somewhere(g)' <=> Somewhere(g))
  <2>1. Alone(g)
    BY DEF OnePlace
  <2>2. Buffered(g)' = Buffered(g) /\ CalledBack(g)' = CalledBack(g)
    BY <1>1 DEF Buffered, CalledBack, CallsOf
  <2>3. CASE g = h
    <3>1. /\ g \notin generating /\ CalledBack(g) = {} /\ Buffered(g) = {} /\ Somewhere(g) /\ g <= cursor
          /\ g \notin collected /\ g \notin dropped /\ g \notin delivered
      BY <1>3, <2>1, <2>3 DEF Alone, Somewhere
    <3>2. /\ g \notin generating' /\ CalledBack(g)' = {} /\ Buffered(g)' = {} /\ Finished(g)' = {} /\ g \notin delivered'
          /\ (g \in collected' /\ g \notin dropped') \/ (g \in dropped' /\ g \notin collected')
      BY <1>1, <1>4, <2>2, <2>3, <3>1
    <3>3. Somewhere(g)'
      BY <3>2 DEF Somewhere
    <3>4. Alone(g)'
      BY <1>1, <3>1, <3>2 DEF Alone, Solo
    <3> QED  BY <3>1, <3>3, <3>4
  <2>4. CASE g # h
    <3>1. (g \in collected' <=> g \in collected) /\ (g \in dropped' <=> g \in dropped)
      BY <1>1, <2>4
    <3>2. Finished(g)' # {} <=> Finished(g) # {}
      BY <1>4, <2>4
    <3>3. Somewhere(g)' <=> Somewhere(g)
      BY <1>1, <2>2, <3>1, <3>2 DEF Somewhere
    <3>4. Alone(g)'
      BY <1>1, <1>4, <2>1, <2>2, <3>1, <3>2, <3>3 DEF Alone
    <3> QED  BY <3>3, <3>4
  <2> QED  BY <2>3, <2>4
<1>6. Healthy' => Healthy
  BY <1>1 DEF Healthy
<1>7. OnePlace' /\ Accounted'
  BY <1>1, <1>5, <1>6 DEF OnePlace, Accounted
<1>8. \A g : CalledBack(g)' = CalledBack(g)
  BY <1>1 DEF CalledBack, CallsOf
<1>9. InOrder'
  BY <1>1, <1>8 DEF InOrder, Wakes, Resumes
<1>10. Limited'
  <2>1. InFlight' = InFlight
    BY <1>1, <1>8 DEF InFlight
  <2>2. InFlight \subseteq Group
    BY DEF InFlight, TypeOK
  <2>3. Cardinality(InFlight) \in Nat
    BY <2>2, Counting
  <2>4. Len(outputQueue') + Cardinality(InFlight) < 2 * Concurrency
    BY <1>3, <2>3, Constants DEF Limited
  <2>5. Len(outputQueue) < Concurrency => Len(outputQueue') < Concurrency
    BY <1>3, Constants
  <2> QED  BY <1>1, <2>1, <2>4, <2>5 DEF Limited
<1> QED  BY <1>7, <1>9, <1>10

(* One batch more.                                                            *)
LEMMA DeliveredGrows ==
    ASSUME batches \in Seq(SUBSET Group), collected \in SUBSET Group, batches' = Append(batches, collected)
    PROVE  delivered' = delivered \cup collected
<1>1. /\ Len(batches) \in Nat /\ DOMAIN batches = 1..Len(batches) /\ DOMAIN batches' = 1..(Len(batches) + 1)
      /\ batches'[Len(batches) + 1] = collected /\ \A n \in 1..Len(batches) : batches'[n] = batches[n]
  OBVIOUS
<1>2. \A g : g \in delivered' <=> \E n \in DOMAIN batches' : g \in batches'[n]
  BY DEF delivered
<1>3. \A g : g \in delivered <=> \E n \in DOMAIN batches : g \in batches[n]
  BY DEF delivered
<1>4. \A g : g \in delivered' <=> g \in delivered \cup collected
  BY <1>1, <1>2, <1>3
<1> QED  BY <1>4

(* The rollout's groups go to training.                                       *)
LEMMA CollectedStep ==
    ASSUME IInv, Collected
    PROVE  OnePlace' /\ Accounted' /\ InOrder' /\ Limited'
<1> USE DEF IInv
<1>1. /\ delivered' = delivered \cup collected /\ collected' = {} /\ dropped' = dropped
      /\ UNCHANGED <<cursor, buffer, outputQueue, error, loopAt, activeTasks, generating, agenda>>
  BY DeliveredGrows DEF Collected, ManagerOnly, source, loop, TypeOK
<1>2. ASSUME NEW g \in Group PROVE Alone(g)' /\ (Somewhere(g)' <=> Somewhere(g))
  <2>1. Alone(g)
    BY DEF OnePlace
  <2>2. /\ Buffered(g)' = Buffered(g) /\ CalledBack(g)' = CalledBack(g) /\ Finished(g)' = Finished(g)
    BY <1>1 DEF Buffered, CalledBack, CallsOf, Finished
  <2>3. /\ g \in delivered' <=> g \in delivered \/ g \in collected
        /\ g \notin collected' /\ (g \in dropped' <=> g \in dropped) /\ (g \in generating' <=> g \in generating)
    BY <1>1
  <2>4. Somewhere(g)' <=> Somewhere(g)
    BY <2>2, <2>3 DEF Somewhere
  <2> QED  BY <1>1, <2>1, <2>2, <2>3, <2>4 DEF Alone
<1>3. Healthy' => Healthy
  BY <1>1 DEF Healthy
<1>4. OnePlace' /\ Accounted'
  BY <1>1, <1>2, <1>3 DEF OnePlace, Accounted
<1>5. \A g : CalledBack(g)' = CalledBack(g)
  BY <1>1 DEF CalledBack, CallsOf
<1>6. InOrder'
  BY <1>1, <1>5 DEF InOrder, Wakes, Resumes
<1>7. Limited'
  BY <1>1, <1>5 DEF Limited, InFlight
<1> QED  BY <1>4, <1>6, <1>7

(* The other steps of the manager: pause, resume, snapshots and close.        *)
LEMMA ManagerSteps ==
    ASSUME IInv, ManagerStep, ~Collected
    PROVE  OnePlace' /\ Accounted' /\ InOrder' /\ Limited'
<1>1. UNCHANGED <<source, error, outputQueue, loop, collected, dropped, delivered>>
  BY DEF ManagerStep, BeginGenerate, CollectFails, Pause, PauseCall, PauseReturn, CopyCursor, CopyBuffer,
         CopyReady, BeginSave, EndSave, SkipSave, ResumeAdmission, Close, ManagerOnly, delivered
<1> QED  BY <1>1, Elsewhere

-----------------------------------------------------------------------------
(* The invariant *)

(* Nothing is delivered without a batch.                                      *)
LEMMA Undelivered == batches = <<>> => delivered = {}
<1>1. DOMAIN <<>> = {}
  OBVIOUS
<1>2. ASSUME batches = <<>>, NEW g \in delivered PROVE FALSE
  BY <1>1, <1>2 DEF delivered
<1> QED  BY <1>2

(* At first no prompt is issued.                                              *)
LEMMA InitStep == Init => IInv
<1> SUFFICES ASSUME Init PROVE IInv
  OBVIOUS
<1>0. delivered = {}
  BY Undelivered DEF Init
<1>1. /\ cursor = 0 /\ buffer = <<>> /\ outputQueue = <<>> /\ loopAt = "event loop" /\ activeTasks = {}
      /\ generating = {} /\ collected = {} /\ dropped = {} /\ delivered = {}
      /\ agenda = <<[kind |-> "wake"]>>
  BY <1>0 DEF Init
<1>2. <<>> \in Seq(Wake \cup Done) /\ [kind |-> "wake"] \in Wake /\ Positions(<<>>, Wake) = {}
  BY Short, WakeNotDone, EmptyHolds
<1>3. /\ Solo(Positions(agenda, Wake))
      /\ \A g : Positions(agenda, CallsOf(g)) = {}
  <2>1. /\ Solo(Positions(Append(<<>>, [kind |-> "wake"]), Wake))
        /\ \A g : Positions(Append(<<>>, [kind |-> "wake"]), CallsOf(g)) = Positions(<<>>, CallsOf(g))
    BY <1>2, WakeAdded
  <2>2. agenda = Append(<<>>, [kind |-> "wake"])
    BY <1>1, <1>2, Short
  <2> QED  BY <2>1, <2>2, EmptyHolds
<1>4. \A g : Buffered(g) = {} /\ Finished(g) = {} /\ CalledBack(g) = {}
  BY <1>1, <1>3, EmptyHolds DEF Buffered, Finished, CalledBack
<1>5. \A g : ~Somewhere(g)
  BY <1>1, <1>4 DEF Somewhere
<1>6. OnePlace
  BY <1>1, <1>4, <1>5 DEF OnePlace, Alone, Solo
<1>7. Accounted
  <2>1. ASSUME NEW g \in Group PROVE ~(g <= 0)
    <3>1. g \in Nat \ {0}
      BY Constants
    <3> QED  BY <3>1
  <2> QED  BY <1>1, <2>1 DEF Accounted
<1>8. InOrder
  BY <1>1, <1>3, <1>4 DEF InOrder, Wakes
<1>9. Limited
  <2>1. InFlight = {}
    BY <1>1, <1>4 DEF InFlight
  <2>2. Cardinality(InFlight) = 0 /\ Cardinality(activeTasks) = 0
    BY <1>1, <2>1, FS_EmptySet
  <2>3. Len(outputQueue) = 0
    BY <1>1
  <2>4. 0 + 0 < 2 * Concurrency /\ 0 <= Concurrency
    BY Constants
  <2> QED  BY <1>1, <2>2, <2>3, <2>4 DEF Limited
<1> QED  BY TypeInit, <1>6, <1>7, <1>8, <1>9 DEF IInv

(* Every step keeps the invariant.                                            *)
LEMMA NextStep == IInv /\ [Next]_vars => IInv'
<1> SUFFICES ASSUME IInv, [Next]_vars PROVE IInv'
  OBVIOUS
<1>1. CASE UNCHANGED vars
  <2>1. UNCHANGED <<source, flags, outputQueue, loop, manager>>
    BY <1>1 DEF vars
  <2>2. OnePlace' /\ Accounted' /\ InOrder' /\ Limited'
    BY <2>1, Elsewhere DEF flags, manager, delivered
  <2>3. TypeOK'
    BY <2>1 DEF IInv, TypeOK, source, flags, loop, manager, delivered
  <2> QED  BY <2>2, <2>3 DEF IInv
<1>2. CASE LoopStep
  <2>1. TypeOK'
    BY <1>2, TypeLoop DEF IInv
  <2>2. OnePlace' /\ Accounted' /\ InOrder' /\ Limited'
    BY <1>2, ReapStep, WakeStep, TopUpStep, AdmitStep, EndOfLoopStep, TimerStep, CallbackStep DEF LoopStep
  <2> QED  BY <2>1, <2>2 DEF IInv
<1>3. ASSUME NEW g \in Group, NEW o \in Outcome, TaskDone(g, o) PROVE IInv'
  BY <1>3, TypeLoop, TaskDoneStep DEF IInv
<1>4. CASE ManagerStep
  <2>1. TypeOK'
    BY <1>4, TypeManager DEF IInv
  <2>2. OnePlace' /\ Accounted' /\ InOrder' /\ Limited'
    BY <1>4, CollectedStep, ManagerSteps
  <2> QED  BY <2>1, <2>2 DEF IInv
<1>5. ASSUME NEW keep \in BOOLEAN, Collect(keep) PROVE IInv'
  BY <1>5, TypeManager, CollectStep DEF IInv
<1> QED  BY <1>1, <1>2, <1>3, <1>4, <1>5 DEF Next

(* The two threads keep the inductive invariant.                              *)
THEOREM Invariance == Spec => []IInv
BY InitStep, NextStep, PTL DEF Spec

-----------------------------------------------------------------------------
(* Results *)

(* A set whose elements are all the same.                                     *)
LEMMA AtMostOne ==
    ASSUME NEW S, Solo(S)
    PROVE  Cardinality(S) = IF S = {} THEN 0 ELSE 1
<1>1. CASE S = {}
  BY <1>1, FS_EmptySet
<1>2. CASE S # {}
  <2>1. PICK x \in S : TRUE
    BY <1>2
  <2>2. S = {x}
    BY <2>1 DEF Solo
  <2>3. Cardinality({x}) = 1
    BY FS_Singleton
  <2> QED  BY <1>2, <2>2, <2>3
<1> QED  BY <1>1, <1>2

(* What the places of a group are.                                            *)
LEMMA PlacesAre ==
    ASSUME NEW g, NEW x
    PROVE  x \in Places(g) <=>
             \/ x = <<"generating", g>> /\ g \in generating
             \/ \E i \in CalledBack(g) : x = <<"agenda", i>>
             \/ \E i \in Buffered(g) : x = <<"buffer", i>>
             \/ \E i \in Finished(g) : x = <<"output queue", i>>
             \/ x = <<"collected", g>> /\ g \in collected
             \/ x = <<"dropped", g>> /\ g \in dropped
             \/ x = <<"delivered", g>> /\ g \in delivered
BY DEF Places, CalledBack, CallsOf, Buffered, Finished

(* A group is in one place at most, and in none if and only if it is nowhere. *)
LEMMA PlacesCount ==
    ASSUME NEW g, Alone(g)
    PROVE  Cardinality(Places(g)) = IF Somewhere(g) THEN 1 ELSE 0
<1>1. Solo(Places(g))
  <2>1. CASE CalledBack(g) # {}
    <3>1. PICK i \in CalledBack(g) : TRUE
      BY <2>1
    <3>2. \A x \in Places(g) : x = <<"agenda", i>>
      BY <2>1, <3>1, PlacesAre DEF Alone, Solo
    <3> QED  BY <3>2 DEF Solo
  <2>2. CASE Buffered(g) # {}
    <3>1. PICK i \in Buffered(g) : TRUE
      BY <2>2
    <3>2. \A x \in Places(g) : x = <<"buffer", i>>
      BY <2>2, <3>1, PlacesAre DEF Alone, Solo
    <3> QED  BY <3>2 DEF Solo
  <2>3. CASE Finished(g) # {}
    <3>1. PICK i \in Finished(g) : TRUE
      BY <2>3
    <3>2. \A x \in Places(g) : x = <<"output queue", i>>
      BY <2>3, <3>1, PlacesAre DEF Alone, Solo
    <3> QED  BY <3>2 DEF Solo
  <2>4. CASE CalledBack(g) = {} /\ Buffered(g) = {} /\ Finished(g) = {}
    <3>1. ASSUME NEW x \in Places(g)
          PROVE  \/ x = <<"generating", g>> /\ g \in generating
                 \/ x = <<"collected", g>> /\ g \in collected
                 \/ x = <<"dropped", g>> /\ g \in dropped
                 \/ x = <<"delivered", g>> /\ g \in delivered
      BY <2>4, <3>1, PlacesAre
    <3> QED  BY <3>1 DEF Alone, Solo
  <2> QED  BY <2>1, <2>2, <2>3, <2>4
<1>2. Places(g) # {} <=> Somewhere(g)
  <2>1. ASSUME NEW x \in Places(g) PROVE Somewhere(g)
    BY <2>1, PlacesAre DEF Somewhere
  <2>2. ASSUME Somewhere(g) PROVE \E x : x \in Places(g)
    <3>1. CASE CalledBack(g) # {}
      <4>1. PICK i \in CalledBack(g) : TRUE
        BY <3>1
      <4>2. <<"agenda", i>> \in Places(g)
        BY <4>1, PlacesAre
      <4> QED  BY <4>2
    <3>2. CASE Buffered(g) # {}
      <4>1. PICK i \in Buffered(g) : TRUE
        BY <3>2
      <4>2. <<"buffer", i>> \in Places(g)
        BY <4>1, PlacesAre
      <4> QED  BY <4>2
    <3>3. CASE Finished(g) # {}
      <4>1. PICK i \in Finished(g) : TRUE
        BY <3>3
      <4>2. <<"output queue", i>> \in Places(g)
        BY <4>1, PlacesAre
      <4> QED  BY <4>2
    <3>4. CASE g \in generating
      <4>1. <<"generating", g>> \in Places(g)
        BY <3>4, PlacesAre
      <4> QED  BY <4>1
    <3>5. CASE g \in collected
      <4>1. <<"collected", g>> \in Places(g)
        BY <3>5, PlacesAre
      <4> QED  BY <4>1
    <3>6. CASE g \in dropped
      <4>1. <<"dropped", g>> \in Places(g)
        BY <3>6, PlacesAre
      <4> QED  BY <4>1
    <3>7. CASE g \in delivered
      <4>1. <<"delivered", g>> \in Places(g)
        BY <3>7, PlacesAre
      <4> QED  BY <4>1
    <3> QED  BY <2>2, <3>1, <3>2, <3>3, <3>4, <3>5, <3>6, <3>7 DEF Somewhere
  <2> QED  BY <2>1, <2>2
<1>3. Cardinality(Places(g)) = IF Places(g) = {} THEN 0 ELSE 1
  BY <1>1, AtMostOne
<1> QED  BY <1>2, <1>3

(* While the loop thread lives and no task has raised, a prompt the source    *)
(* issued is in exactly one place, whatever the two threads do in between.    *)
THEOREM GroupsAlwaysConserved == Spec => []GroupsConserved
<1>1. ASSUME IInv, Healthy, NEW g \in Group PROVE Occurrences(g) = IF g <= cursor THEN 1 ELSE 0
  <2>1. Alone(g) /\ (g <= cursor => Somewhere(g))
    BY <1>1 DEF IInv, OnePlace, Accounted
  <2>2. Somewhere(g) <=> g <= cursor
    BY <2>1 DEF Alone
  <2>3. Cardinality(Places(g)) = IF Somewhere(g) THEN 1 ELSE 0
    BY <2>1, PlacesCount
  <2> QED  BY <2>2, <2>3 DEF Occurrences
<1>2. IInv => GroupsConserved
  BY <1>1 DEF GroupsConserved
<1> QED  BY <1>2, Invariance, PTL

(* Raised or not, no prompt is ever in two places, nor anywhere before it is  *)
(* issued.                                                                    *)
THEOREM NeverTwice == Spec => [](\A g \in Group : Occurrences(g) <= 1 /\ (Occurrences(g) = 1 => g <= cursor))
<1>1. ASSUME IInv, NEW g \in Group PROVE Occurrences(g) <= 1 /\ (Occurrences(g) = 1 => g <= cursor)
  <2>1. Alone(g)
    BY <1>1 DEF IInv, OnePlace
  <2>2. Cardinality(Places(g)) = IF Somewhere(g) THEN 1 ELSE 0
    BY <2>1, PlacesCount
  <2>3. Somewhere(g) => g <= cursor
    BY <2>1 DEF Alone
  <2> QED  BY <2>2, <2>3 DEF Occurrences
<1>2. IInv => \A g \in Group : Occurrences(g) <= 1 /\ (Occurrences(g) = 1 => g <= cursor)
  BY <1>1
<1> QED  BY <1>2, Invariance, PTL

(* The backpressure of the top-up condition.                                  *)
Backpressure ==
    /\ Cardinality(generating) <= Concurrency
    /\ Len(outputQueue) + Cardinality(generating) < 2 * Concurrency

(* No more than Concurrency tasks run, and finished and running groups        *)
(* together are fewer than twice that, however the callbacks, the reaping of  *)
(* tasks and the manager interleave: the worker prefetches a bounded amount.  *)
THEOREM QueueBounded == Spec => []Backpressure
<1>1. ASSUME IInv PROVE Backpressure
  <2>1. activeTasks \subseteq Group /\ InFlight \subseteq Group /\ outputQueue \in Seq(Group)
    BY <1>1 DEF IInv, TypeOK, InFlight
  <2>2. generating \subseteq activeTasks /\ generating \subseteq InFlight
    BY <1>1 DEF IInv, Limited, InFlight
  <2>3. /\ Cardinality(generating) \in Nat /\ Cardinality(activeTasks) \in Nat /\ Cardinality(InFlight) \in Nat
        /\ Cardinality(generating) <= Cardinality(activeTasks)
        /\ Cardinality(generating) <= Cardinality(InFlight)
    BY <2>1, <2>2, Counting
  <2>4. Len(outputQueue) \in Nat
    BY <2>1, Lengths
  <2>5. /\ Cardinality(activeTasks) <= Concurrency
        /\ Len(outputQueue) + Cardinality(InFlight) < 2 * Concurrency
    BY <1>1 DEF IInv, Limited
  <2> QED  BY <2>3, <2>4, <2>5, Constants DEF Backpressure
<1> QED  BY <1>1, Invariance, PTL

(* The worker's state stays within its types; what a snapshot holds are       *)
(* prompts.                                                                   *)
THEOREM TypeCorrect == Spec => []TypeOK
<1>1. IInv => TypeOK
  BY DEF IInv
<1> QED  BY <1>1, Invariance, PTL

-----------------------------------------------------------------------------
(* The worker implements PromptDelivery *)

PlacesOf == [g \in Group |-> PlaceOf(g)]
Implements == Abstract!Next \/ UNCHANGED <<PlacesOf, batches>>

(* What a step that moves the groups of a set has to show.                    *)
LEMMA Moves ==
    ASSUME NEW G \in SUBSET Group, G # {}, NEW from, NEW to, \A g \in G : PlaceOf(g) = from,
           \A g \in Group : PlaceOf(g)' = IF g \in G THEN to ELSE PlaceOf(g)
    PROVE  Abstract!Move(G, from, to)
<1>1. PlacesOf' = [g \in Group |-> IF g \in G THEN to ELSE PlacesOf[g]]
  <2>1. PlacesOf' = [g \in Group |-> PlaceOf(g)']
    BY DEF PlacesOf
  <2>2. \A g \in Group : PlacesOf[g] = PlaceOf(g)
    BY DEF PlacesOf
  <2> QED  BY <2>1, <2>2
<1>2. \A g \in G : PlacesOf[g] = from
  BY DEF PlacesOf
<1> QED  BY <1>1, <1>2 DEF Abstract!Move, PlacesOf

(* Whatever a task, a callback or a pause does, delivery does not advance.    *)
LEMMA QuietStep ==
    ASSUME UNCHANGED <<cursor, collected, dropped, batches>>
    PROVE  Implements
<1>1. \A g : PlaceOf(g)' = PlaceOf(g)
  BY DEF PlaceOf, delivered
<1> QED  BY <1>1 DEF Implements, PlacesOf

(* A new prompt is issued.                                                    *)
LEMMA AdmitReads ==
    ASSUME IInv, Admit
    PROVE  Implements
<1> USE DEF IInv
<1>1. UNCHANGED <<collected, dropped, batches>>
  BY DEF Admit, manager
<1>2. CASE SourceEmpty \/ buffer # <<>>
  <2>1. cursor' = cursor
    BY <1>2 DEF Admit, source, SourceEmpty
  <2> QED  BY <1>1, <2>1, QuietStep
<1>3. CASE ~SourceEmpty /\ buffer = <<>>
  <2> DEFINE h == cursor + 1
  <2>1. cursor' = h
    BY <1>3 DEF Admit
  <2>2. cursor \in 0..MaxGroups /\ MaxGroups \in Nat /\ cursor # MaxGroups
    BY <1>3, Constants DEF TypeOK, SourceEmpty
  <2>3. h \in Group /\ h > cursor /\ cursor \in Nat
    BY <2>2 DEF Group
  <2>4. \A g \in Group : g > cursor' <=> g > cursor /\ g # h
    <3>1. Group \subseteq Nat
      BY Constants
    <3> QED  BY <2>1, <2>3, <3>1
  <2>5. h \notin collected /\ h \notin delivered /\ h \notin dropped
    <3>1. ~(h <= cursor)
      BY <2>3
    <3> QED  BY <2>3, <3>1 DEF OnePlace, Alone, Somewhere
  <2> HIDE DEF h
  <2>6. delivered' = delivered
    BY <1>1 DEF delivered
  <2>7. PlaceOf(h) = "unread"
    BY <2>3, <2>5 DEF PlaceOf
  <2>8. ASSUME NEW g \in Group PROVE PlaceOf(g)' = IF g = h THEN "open" ELSE PlaceOf(g)
    <3>1. CASE g = h
      BY <1>1, <2>4, <2>5, <2>6, <3>1 DEF PlaceOf
    <3>2. CASE g # h
      BY <1>1, <2>4, <2>6, <3>2 DEF PlaceOf
    <3> QED  BY <3>1, <3>2
  <2>9. Abstract!Move({h}, "unread", "open")
    BY <2>3, <2>7, <2>8, Moves
  <2>10. Abstract!Read({h})
    BY <1>1, <2>9 DEF Abstract!Read
  <2> QED  BY <2>3, <2>10 DEF Implements, Abstract!Next
<1> QED  BY <1>2, <1>3

(* A rollout keeps a finished group, or drops it.                             *)
LEMMA CollectAccepts ==
    ASSUME IInv, NEW keep \in BOOLEAN, Collect(keep)
    PROVE  Implements
<1> USE DEF IInv
<1> DEFINE h == Head(outputQueue)
<1>1. /\ outputQueue # <<>> /\ UNCHANGED <<cursor, batches>>
      /\ \/ collected' = collected \cup {h} /\ dropped' = dropped
         \/ dropped' = dropped \cup {h} /\ collected' = collected
  BY DEF Collect, source
<1>2. outputQueue \in Seq(Group)
  BY DEF TypeOK
<1>3. h \in Group /\ Finished(h) # {}
  BY <1>1, <1>2, HeadIs DEF Finished
<1> HIDE DEF h
<1>4. h <= cursor /\ h \notin collected /\ h \notin delivered /\ h \notin dropped
  BY <1>3 DEF OnePlace, Alone, Somewhere
<1>5. ~(h > cursor)
  <2>1. h \in Nat /\ cursor \in Nat
    <3>1. cursor \in 0..MaxGroups /\ MaxGroups \in Nat
      BY Constants DEF TypeOK
    <3> QED  BY <1>3, <3>1, Constants, Bounded
  <2> QED  BY <1>4, <2>1
<1>6. PlaceOf(h) = "open"
  BY <1>4, <1>5 DEF PlaceOf
<1>7. delivered' = delivered
  BY <1>1 DEF delivered
<1>8. CASE collected' = collected \cup {h} /\ dropped' = dropped
  <2>1. ASSUME NEW g \in Group PROVE PlaceOf(g)' = IF g = h THEN "accepted" ELSE PlaceOf(g)
    <3>1. CASE g = h
      BY <1>1, <1>4, <1>5, <1>7, <1>8, <3>1 DEF PlaceOf
    <3>2. CASE g # h
      BY <1>1, <1>7, <1>8, <3>2 DEF PlaceOf
    <3> QED  BY <3>1, <3>2
  <2>2. Abstract!Move({h}, "open", "accepted")
    BY <1>3, <1>6, <2>1, Moves
  <2> QED  BY <1>1, <1>3, <2>2 DEF Implements, Abstract!Next, Abstract!Accept
<1>9. CASE dropped' = dropped \cup {h} /\ collected' = collected
  <2>1. ASSUME NEW g \in Group PROVE PlaceOf(g)' = IF g = h THEN "dropped" ELSE PlaceOf(g)
    <3>1. CASE g = h
      BY <1>1, <1>4, <1>5, <1>7, <1>9, <3>1 DEF PlaceOf
    <3>2. CASE g # h
      BY <1>1, <1>7, <1>9, <3>2 DEF PlaceOf
    <3> QED  BY <3>1, <3>2
  <2>2. Abstract!Move({h}, "open", "dropped")
    BY <1>3, <1>6, <2>1, Moves
  <2> QED  BY <1>1, <1>3, <2>2 DEF Implements, Abstract!Next, Abstract!Drop
<1> QED  BY <1>1, <1>8, <1>9

(* A complete rollout goes to training.                                       *)
LEMMA CollectedBatches ==
    ASSUME IInv, Collected
    PROVE  Implements
<1> USE DEF IInv
<1>1. /\ Cardinality(collected) = Target /\ batches' = Append(batches, collected) /\ collected' = {}
      /\ UNCHANGED <<cursor, dropped>>
  BY DEF Collected, ManagerOnly, source
<1>2. collected \in SUBSET Group /\ batches \in Seq(SUBSET Group)
  BY DEF TypeOK
<1>3. delivered' = delivered \cup collected
  BY <1>1, <1>2, DeliveredGrows
<1>4. collected # {}
  <2>1. Target # 0
    BY TargetAssumption
  <2> QED  BY <1>1, <2>1, FS_EmptySet
<1>5. ASSUME NEW g \in collected PROVE ~(g > cursor) /\ g \notin delivered /\ g \notin dropped
  <2>1. g <= cursor /\ g \notin delivered /\ g \notin dropped
    BY <1>2, <1>5 DEF OnePlace, Alone, Somewhere
  <2>2. g \in Nat /\ cursor \in Nat
    <3>1. cursor \in 0..MaxGroups /\ MaxGroups \in Nat
      BY Constants DEF TypeOK
    <3> QED  BY <1>2, <1>5, <3>1, Constants, Bounded
  <2> QED  BY <2>1, <2>2
<1>6. \A g \in collected : PlaceOf(g) = "accepted"
  BY <1>5 DEF PlaceOf
<1>7. ASSUME NEW g \in Group PROVE PlaceOf(g)' = IF g \in collected THEN "batched" ELSE PlaceOf(g)
  <2>1. CASE g \in collected
    BY <1>1, <1>3, <1>5, <2>1 DEF PlaceOf
  <2>2. CASE g \notin collected
    BY <1>1, <1>3, <2>2 DEF PlaceOf
  <2> QED  BY <2>1, <2>2
<1>8. Abstract!Move(collected, "accepted", "batched")
  BY <1>2, <1>4, <1>6, <1>7, Moves
<1>9. Abstract!Cardinality(collected) = Cardinality(collected)
  BY DEF Abstract!Cardinality, Cardinality
<1>10. Abstract!Collect(collected)
  BY <1>1, <1>8, <1>9 DEF Abstract!Collect
<1> QED  BY <1>2, <1>10 DEF Implements, Abstract!Next

(* Nothing is read at first.                                                  *)
LEMMA Begins == Init => Abstract!Init
<1> SUFFICES ASSUME Init PROVE Abstract!Init
  OBVIOUS
<1>1. cursor = 0 /\ batches = <<>> /\ collected = {} /\ dropped = {} /\ delivered = {}
  BY Undelivered DEF Init
<1>2. ASSUME NEW g \in Group PROVE PlaceOf(g) = "unread"
  <2>1. g \in Nat \ {0}
    BY Constants
  <2>2. g > cursor
    BY <1>1, <2>1
  <2> QED  BY <1>1, <2>2 DEF PlaceOf
<1> QED  BY <1>1, <1>2 DEF Abstract!Init

(* Every step of the two threads is a step of PromptDelivery, or a stutter.   *)
LEMMA StepImplements == ASSUME IInv, [Next]_vars PROVE Implements
<1>1. CASE UNCHANGED vars
  BY <1>1, QuietStep DEF vars, source, manager
<1>2. ASSUME NEW g \in Group, NEW o \in Outcome, TaskDone(g, o) PROVE Implements
  BY <1>2, QuietStep DEF TaskDone, source, manager
<1>3. CASE Admit
  BY <1>3, AdmitReads
<1>4. CASE LoopStep /\ ~Admit
  BY <1>4, QuietStep DEF LoopStep, Reap, ResumeLoop, TopUp, Publish, Timer, StopLoop, ExitThread, DoneCallback,
                         source, manager
<1>5. ASSUME NEW keep \in BOOLEAN, Collect(keep) PROVE Implements
  BY <1>5, CollectAccepts
<1>6. CASE Collected
  BY <1>6, CollectedBatches
<1>7. CASE ManagerStep /\ ~Collected
  BY <1>7, QuietStep
     DEF ManagerStep, BeginGenerate, CollectFails, Pause, PauseCall, PauseReturn, CopyCursor, CopyBuffer,
         CopyReady, BeginSave, EndSave, SkipSave, ResumeAdmission, Close, ManagerOnly, source
<1> QED  BY <1>1, <1>2, <1>3, <1>4, <1>5, <1>6, <1>7 DEF Next, LoopStep

(* The worker delivers each prompt to one rollout at most, whatever the two   *)
(* threads and the generations do: batches hold rollout_batch_size different  *)
(* groups, and what was trained or dropped never comes back.                  *)
THEOREM Delivery == Spec => DeliveredOnce
<1>1. IInv /\ [Next]_vars => [Abstract!Next]_<<PlacesOf, batches>>
  BY StepImplements DEF Implements
<1>2. IInv /\ [Next]_vars => [Abstract!Next]_<<[g \in Group |-> PlaceOf(g)], batches>>
  BY <1>1 DEF PlacesOf
<1> QED  BY <1>2, Begins, Invariance, PTL DEF Spec, DeliveredOnce, Abstract!Spec

=============================================================================
