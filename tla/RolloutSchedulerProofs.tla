------------------------ MODULE RolloutSchedulerProofs ------------------------
(***************************************************************************)
(* Proofs about RolloutScheduler: a scheduler that was drained for a save  *)
(* is quiet, and without errors every accepted group is on its way to      *)
(* training exactly once.                                                  *)
(***************************************************************************)
EXTENDS RolloutScheduler, FiniteSetTheorems, TLAPS

-----------------------------------------------------------------------------
(* The inductive invariant *)

To      == {<<>>} \cup (BOOLEAN \X Nat)
Slotted == [group : Group, phase : Phase]
Answer  == {"none", "waiting", "woken", "item", "drained", "raised", "invalid state", "dead"}

TypeOK ==
    /\ open \subseteq Group /\ rejected \subseteq Group /\ processed \subseteq Group /\ collecting \subseteq Group
    /\ leased \in [Workers -> SUBSET Group] /\ accepted \in [Workers -> SUBSET Group]
    /\ alive \in [Workers -> BOOLEAN] /\ running \in [Workers -> BOOLEAN]
    /\ slots \in [Workers -> SUBSET Slotted]
    /\ outputs \in [Workers -> Seq(Item)] /\ faults \in [Fault -> Nat]
    /\ control \in [Workers -> [to : To, reply : {"none", "ok", "raised", "dead"}]]
    /\ request \in [Workers -> [at : Answer, item : Seq(Item)]]
    /\ ready \in Seq(Item) /\ runningWorkers \subseteq Workers /\ usable \subseteq Workers
    /\ rolloutId \in Nat /\ round \in Nat
    /\ paused \in BOOLEAN /\ error \in BOOLEAN /\ previous \in [PauseCalls -> BOOLEAN]

(* A prompt is in one place.                                                  *)
OneOwner(g) ==
    /\ \/ g \in open \/ g \in rejected
       \/ \E w \in Workers : g \in leased[w] \/ g \in accepted[w]
    /\ g \in open => g \notin rejected
    /\ g \in open \cup rejected => \A w \in Workers : g \notin leased[w] /\ g \notin accepted[w]
    /\ \A v, w \in Workers :
          /\ ~(g \in leased[v] /\ g \in accepted[w])
          /\ g \in leased[v] /\ g \in leased[w] => v = w
          /\ g \in accepted[v] /\ g \in accepted[w] => v = w
Owned == \A g \in Group : OneOwner(g)

(* What an actor works on is its own, and a dead one holds nothing.           *)
Worked ==
    \A w \in Workers :
        /\ \A s \in slots[w] :
              /\ s.phase \in {"fetched", "generating"} => s.group \in leased[w]
              /\ s.phase = "kept" => s.group \in accepted[w]
              /\ s.phase = "dropped" => s.group \in rejected
              /\ \A t \in slots[w] : s.group = t.group => s = t
        /\ ~alive[w] => slots[w] = {} /\ outputs[w] = <<>>

(* What the items are that go from an actor to the batch.                     *)
Own(items, kept, dropped) ==
    \A i \in DOMAIN items : IF items[i].keep THEN items[i].group \in kept ELSE items[i].group \in dropped
Published == UNION {accepted[w] : w \in Workers}
Delivered ==
    /\ \A w \in Workers :
          /\ Len(outputs[w]) <= 1 /\ Own(outputs[w], accepted[w], rejected)
          /\ Len(request[w].item) <= 1 /\ Own(request[w].item, accepted[w], rejected)
          /\ request[w].at # "item" => request[w].item = <<>>
    /\ Own(ready, Published, rejected)
    /\ collecting \cup processed \subseteq Published

(* What is known of the dead, and of the manager's batch.                     *)
Noticed ==
    /\ \A w \in Workers :
          control[w].reply = "dead" \/ request[w].at = "dead" \/ w \notin usable => ~alive[w]
    /\ managerAt \notin {"collect", "failed", "closed"} => collecting \subseteq processed
    /\ managerAt = "closed" => error

(* Where the kept result of a group is.                                       *)
InSlot(g, w)   == [group |-> g, phase |-> "kept"] \in slots[w]
InOutput(g, w) == Kept(outputs[w], g) # {}
InReply(g, w)  == Kept(request[w].item, g) # {}
InReady(g)     == Kept(ready, g) # {}
InBatch(g)     == g \in collecting \cup processed

Once(g, w) ==
    /\ InSlot(g, w) => ~InOutput(g, w) /\ ~InReply(g, w) /\ ~InReady(g) /\ ~InBatch(g)
    /\ InOutput(g, w) => ~InReply(g, w) /\ ~InReady(g) /\ ~InBatch(g)
    /\ InReply(g, w) => ~InReady(g) /\ ~InBatch(g)
    /\ InReady(g) => ~InBatch(g)
    /\ \A i, j \in Kept(ready, g) : i = j
    /\ w \notin usable \/ alive[w] => InSlot(g, w) \/ InOutput(g, w) \/ InReply(g, w) \/ InReady(g) \/ InBatch(g)
Sound == ~error /\ faults["crash"] = 0
Conserved == Sound => \A w \in Workers : \A g \in accepted[w] : Once(g, w)

(* A save waits for a scheduler that stays paused.                            *)
Quiet ==
    /\ managerAt \in {"save: wait", "save: scheduler"} => paused
    /\ SaveQuiescent

IInv == TypeOK /\ Owned /\ Worked /\ Delivered /\ Noticed /\ Conserved /\ Quiet


-----------------------------------------------------------------------------
(* Lemmas about the constants and the sequences of items *)

(* The assumptions on the constants.                                          *)
LEMMA Constants ==
    /\ Slots \in Nat \ {0} /\ Batch \in Nat \ {0} /\ MaxGroups \in Nat /\ MaxRounds \in Nat
    /\ IsFiniteSet(Workers)
BY SizesAssumption, BoundsAssumption, WorkersAssumption

(* The prompts are finitely many.                                             *)
LEMMA FiniteGroups == IsFiniteSet(Group) /\ Group \subseteq Nat
<1>1. 1 \in Int /\ MaxGroups \in Int
  BY Constants
<1> QED  BY <1>1, FS_Interval DEF Group

(* An empty queue holds nothing.                                              *)
LEMMA KeptEmpty == \A g : Kept(<<>>, g) = {}
BY DEF Kept

(* An empty sequence.                                                         *)
LEMMA Empty ==
    /\ <<>> \in Seq(Item) /\ <<>> \in To /\ Len(<<>>) = 0 /\ DOMAIN <<>> = {}
    /\ \A kept, dropped : Own(<<>>, kept, dropped)
<1>1. <<>> \in Seq(Item)
  OBVIOUS
<1>2. <<>> \in To
  BY DEF To
<1>3. Len(<<>>) = 0 /\ DOMAIN <<>> = {}
  OBVIOUS
<1>4. \A kept, dropped : Own(<<>>, kept, dropped)
  BY <1>3 DEF Own
<1> QED  BY <1>1, <1>2, <1>3, <1>4

(* A queue with a single item.                                                *)
LEMMA KeptSingle ==
    ASSUME NEW e \in Item, NEW g
    PROVE  Kept(<<e>>, g) = IF e.keep /\ e.group = g THEN {1} ELSE {}
BY DEF Kept

(* A sequence of at most one item.                                            *)
LEMMA Single ==
    ASSUME NEW items \in Seq(Item), Len(items) <= 1, items # <<>>
    PROVE  /\ Len(items) = 1 /\ DOMAIN items = {1} /\ items[1] \in Item /\ Head(items) = items[1]
           /\ Tail(items) = <<>>
<1>1. Len(items) \in Nat /\ Len(items) > 0 /\ DOMAIN items = 1..Len(items)
  OBVIOUS
<1>2. Len(items) = 1
  BY <1>1
<1>3. DOMAIN items = {1}
  BY <1>1, <1>2
<1>4. items[1] \in Item
  BY <1>3
<1>5. Tail(items) \in Seq(Item) /\ Len(Tail(items)) = 0
  BY <1>2
<1>6. Tail(items) = <<>>
  BY <1>5
<1> QED  BY <1>2, <1>3, <1>4, <1>6

(* What is kept of one sequence after another.                                *)
LEMMA KeptConcat ==
    ASSUME NEW s \in Seq(Item), NEW t \in Seq(Item), NEW g
    PROVE  \A i : i \in Kept(s \o t, g) <=>
               i \in Kept(s, g) \/ (i \in Nat /\ i > Len(s) /\ i - Len(s) \in Kept(t, g))
<1>1. /\ Len(s) \in Nat /\ Len(t) \in Nat /\ DOMAIN s = 1..Len(s) /\ DOMAIN t = 1..Len(t)
      /\ DOMAIN (s \o t) = 1..(Len(s) + Len(t))
      /\ \A i \in 1..(Len(s) + Len(t)) : (s \o t)[i] = IF i <= Len(s) THEN s[i] ELSE t[i - Len(s)]
  OBVIOUS
<1> DEFINE st == s \o t
<1>2. /\ DOMAIN st = 1..(Len(s) + Len(t))
      /\ \A i \in 1..(Len(s) + Len(t)) : st[i] = IF i <= Len(s) THEN s[i] ELSE t[i - Len(s)]
  BY <1>1
<1> HIDE DEF st
<1>3. \A i : i \in Kept(st, g) <=> i \in Kept(s, g) \/ (i \in Nat /\ i > Len(s) /\ i - Len(s) \in Kept(t, g))
  BY <1>1, <1>2 DEF Kept
<1> QED  BY <1>3 DEF st

(* What is kept of a sequence without its head.                               *)
LEMMA KeptTail ==
    ASSUME NEW s \in Seq(Item), s # <<>>, NEW g
    PROVE  \A i : i \in Kept(Tail(s), g) <=> i \in Nat /\ i >= 1 /\ i + 1 \in Kept(s, g)
<1> DEFINE t == Tail(s)
<1>1. /\ Len(s) \in Nat /\ Len(s) > 0 /\ DOMAIN s = 1..Len(s) /\ DOMAIN t = 1..(Len(s) - 1)
      /\ \A i \in 1..(Len(s) - 1) : t[i] = s[i + 1]
  OBVIOUS
<1> HIDE DEF t
<1>2. \A i : i \in Kept(t, g) <=> i \in Nat /\ i >= 1 /\ i + 1 \in Kept(s, g)
  BY <1>1 DEF Kept
<1> QED  BY <1>2 DEF t

(* The results that a retired worker's reader published, each once.           *)
LEMMA Enumerated ==
    ASSUME NEW S \in SUBSET Group
    PROVE  /\ Cardinality(S) \in Nat
           /\ SetToSeq(S) \in [1..Cardinality(S) -> S]
           /\ \A i, j \in 1..Cardinality(S) : SetToSeq(S)[i] = SetToSeq(S)[j] => i = j
           /\ \A g \in S : \E i \in 1..Cardinality(S) : SetToSeq(S)[i] = g
<1>1. IsFiniteSet(S)
  BY FiniteGroups, FS_Subset
<1>2. Cardinality(S) \in Nat /\ ExistsBijection(1..Cardinality(S), S)
  BY <1>1, FS_CardinalityType
<1>3. PICK f \in Bijection(1..Cardinality(S), S) : TRUE
  BY <1>2 DEF ExistsBijection
<1>4. f \in [1..Cardinality(S) -> S] /\ IsInjective(f)
  BY <1>3 DEF Bijection, Injection
<1> DEFINE q == SetToSeq(S)
<1>5. q \in [1..Cardinality(S) -> S] /\ IsInjective(q)
  BY <1>4 DEF SetToSeq
<1> HIDE DEF q
<1>6. \A i, j \in 1..Cardinality(S) : q[i] = q[j] => i = j
  BY <1>5 DEF IsInjective
<1>7. \A g \in S : \E i \in 1..Cardinality(S) : q[i] = g
  <2>1. q \in Injection(1..Cardinality(S), S)
    BY <1>5 DEF Injection
  <2>2. Cardinality(1..Cardinality(S)) = Cardinality(S)
    <3>1. 1 \in Int /\ Cardinality(S) \in Int /\ (1 > Cardinality(S) => Cardinality(S) = 0)
      BY <1>2
    <3> QED  BY <1>2, <3>1, FS_Interval
  <2>3. q \in Surjection(1..Cardinality(S), S)
    BY <1>1, <2>1, <2>2, FS_Injection
  <2> QED  BY <2>3 DEF Surjection
<1> QED  BY <1>2, <1>5, <1>6, <1>7 DEF q

-----------------------------------------------------------------------------
(* What most steps leave alone *)

(* The copies of a result stay where they are.                                *)
LEMMA StillOnce ==
    ASSUME NEW g, NEW w, Once(g, w), InSlot(g, w)' <=> InSlot(g, w), InOutput(g, w)' <=> InOutput(g, w),
           InReply(g, w)' <=> InReply(g, w), Kept(ready, g)' = Kept(ready, g), InBatch(g)' <=> InBatch(g),
           w \notin usable' \/ alive'[w] => w \notin usable \/ alive[w]
    PROVE  Once(g, w)'
BY DEF Once, InReady

(* A step that touches no group: no queue, no slot, no item but by an error.  *)
LEMMA Calm ==
    ASSUME IInv, UNCHANGED <<queue, alive, slots, outputs, ready>>,
           \A w \in Workers :
               /\ request'[w].item = request[w].item \/ (request'[w].item = <<>> /\ ~Sound')
               /\ request'[w].at # "item" => request'[w].item = <<>>
               /\ w \in usable => w \in usable',
           collecting' \cup processed' = collecting \cup processed, Sound' => Sound
    PROVE  Owned' /\ Worked' /\ Delivered' /\ Conserved'
<1> USE DEF IInv
<1>1. Owned'
  BY DEF Owned, OneOwner, queue
<1>2. Worked'
  BY DEF Worked, queue
<1>3. \A w \in Workers : Len(request'[w].item) <= 1 /\ Own(request'[w].item, accepted'[w], rejected')
  <2>1. ASSUME NEW w \in Workers PROVE Len(request'[w].item) <= 1 /\ Own(request'[w].item, accepted'[w], rejected')
    <3>1. CASE request'[w].item = request[w].item
      BY <2>1, <3>1 DEF Delivered, Own, queue
    <3>2. CASE request'[w].item = <<>>
      BY <3>2 DEF Own
    <3> QED  BY <2>1, <3>1, <3>2
  <2> QED  BY <2>1
<1>4. \A w \in Workers : Len(outputs'[w]) <= 1 /\ Own(outputs'[w], accepted'[w], rejected')
  BY DEF Delivered, Own, queue
<1>5. Delivered'
  BY <1>3, <1>4 DEF Delivered, Published, queue
<1>6. Conserved'
  <2>1. ASSUME Sound', NEW w \in Workers, NEW g \in accepted[w] PROVE Once(g, w)'
    <3>1. Once(g, w)
      BY <2>1 DEF Conserved
    <3>2. request'[w].item = request[w].item
      BY <2>1
    <3>3. InReply(g, w)' <=> InReply(g, w)
      BY <3>2 DEF InReply, Kept
    <3>4. (InSlot(g, w)' <=> InSlot(g, w)) /\ (InOutput(g, w)' <=> InOutput(g, w)) /\ Kept(ready, g)' = Kept(ready, g)
      BY DEF InSlot, InOutput, Kept
    <3>5. InBatch(g)' <=> InBatch(g)
      BY DEF InBatch
    <3>6. w \notin usable' \/ alive'[w] => w \notin usable \/ alive[w]
      BY <2>1
    <3> QED  BY <3>1, <3>3, <3>4, <3>5, <3>6, StillOnce
  <2> QED  BY <2>1 DEF Conserved, queue
<1> QED  BY <1>1, <1>2, <1>5, <1>6

(* While a scheduler is quiescent, no call is out.                            *)
LEMMA NoCalls ==
    ASSUME Quiescent, NEW w \in Workers
    PROVE  /\ control[w] = NoControl /\ control[w].to = <<>> /\ control[w].reply = "none"
           /\ request[w] = NoRequest /\ request[w].at = "none" /\ request[w].item = <<>>
           /\ w \notin runningWorkers
BY DEF Quiescent, Controlled, Pending, NoControl, NoRequest

(* A step of an actor or the collector under a save.                          *)
LEMMA StillQuiet ==
    ASSUME Quiet, UNCHANGED <<managerAt, paused>>, Quiescent => Quiescent'
    PROVE  Quiet'
BY DEF Quiet, SaveQuiescent

(* A step of the manager that is not about to save.                           *)
LEMMA NotSaving ==
    ASSUME managerAt' \notin {"save: wait", "save: scheduler"}
    PROVE  Quiet'
BY DEF Quiet, SaveQuiescent

(* Nothing has happened yet.                                                  *)
LEMMA InitStep == ASSUME Init PROVE IInv
<1> USE DEF Init
<1>1. TypeOK
  <2>1. <<>> \in Seq(Item) /\ <<>> \in To
    BY Empty
  <2>2. /\ outputs \in [Workers -> Seq(Item)] /\ ready \in Seq(Item)
        /\ request \in [Workers -> [at : Answer, item : Seq(Item)]]
    BY <2>1 DEF NoRequest, Answer
  <2>3. control \in [Workers -> [to : To, reply : {"none", "ok", "raised", "dead"}]]
    BY <2>1 DEF NoControl
  <2>4. faults \in [Fault -> Nat] /\ previous \in [PauseCalls -> BOOLEAN]
    OBVIOUS
  <2>5. leased \in [Workers -> SUBSET Group] /\ accepted \in [Workers -> SUBSET Group] /\ slots \in [Workers -> SUBSET Slotted]
    OBVIOUS
  <2>6. alive \in [Workers -> BOOLEAN] /\ running \in [Workers -> BOOLEAN]
    OBVIOUS
  <2> QED  BY <2>2, <2>3, <2>4, <2>5, <2>6 DEF TypeOK
<1>2. Owned /\ Worked
  BY DEF Owned, OneOwner, Worked
<1>3. Delivered
  <2>1. \A w \in Workers : outputs[w] = <<>> /\ request[w].item = <<>>
    BY DEF NoRequest
  <2>2. collecting \cup processed \subseteq Published
    OBVIOUS
  <2>3. ready = <<>>
    OBVIOUS
  <2> HIDE DEF Init
  <2>4. \A w \in Workers : Len(outputs[w]) <= 1 /\ Len(request[w].item) <= 1
    <3>1. 0 <= 1
      OBVIOUS
    <3> QED  BY <2>1, <3>1, Empty
  <2> QED  BY <2>1, <2>2, <2>3, <2>4, Empty DEF Delivered
<1>4. Noticed
  BY DEF Noticed, NoControl, NoRequest
<1>5. Conserved
  BY DEF Conserved
<1>6. Quiet
  BY NotSaving DEF Quiet, SaveQuiescent
<1> QED  BY <1>1, <1>2, <1>3, <1>4, <1>5, <1>6 DEF IInv

-----------------------------------------------------------------------------
(* The actors *)

(* The producer of a paused actor ends.                                       *)
LEMMA ProducerEndsStep == ASSUME IInv, NEW w \in Workers, ProducerEnds(w) PROVE IInv'
<1> USE DEF IInv
<1>1. UNCHANGED <<queue, alive, running, slots, outputs, faults, calls, scheduler, manager>>
  BY DEF ProducerEnds
<1>2. TypeOK'
  BY <1>1 DEF TypeOK, queue, calls, scheduler, manager
<1>3. Owned' /\ Worked' /\ Delivered' /\ Conserved'
  <2>1. \A v \in Workers : request[v].at # "item" => request[v].item = <<>>
    BY DEF Delivered
  <2> QED  BY <1>1, <2>1, Calm DEF Sound, calls, scheduler, manager
<1>4. Noticed'
  BY <1>1 DEF Noticed, calls, scheduler, manager
<1>5. Quiet'
  BY <1>1, StillQuiet DEF Quiescent, Controlled, Pending, calls, scheduler, manager
<1> QED  BY <1>2, <1>3, <1>4, <1>5

(* A start or a pause runs.                                                   *)
LEMMA ControlRuns ==
    ASSUME IInv, NEW w \in Workers, alive[w], control[w].to # <<>>, NEW v \in {"ok", "raised"},
           control' = [control EXCEPT ![w].reply = v], running' \in [Workers -> BOOLEAN],
           UNCHANGED <<queue, alive, slots, outputs, faults, request, scheduler, manager>>
    PROVE  IInv'
<1> USE DEF IInv
<1>1. TypeOK'
  BY DEF TypeOK, queue, scheduler, manager
<1>2. Owned' /\ Worked' /\ Delivered' /\ Conserved'
  <2>1. \A u \in Workers : request[u].at # "item" => request[u].item = <<>>
    BY DEF Delivered
  <2> QED  BY <2>1, Calm DEF Sound, scheduler, manager
<1>3. Noticed'
  <2>1. \A u \in Workers : control'[u].reply = "dead" => control[u].reply = "dead"
    BY DEF TypeOK
  <2> QED  BY <2>1 DEF Noticed, scheduler, manager
<1>4. Quiet'
  <2>1. ~Quiescent
    BY NoCalls
  <2> QED  BY <2>1, StillQuiet DEF scheduler, manager
<1> QED  BY <1>1, <1>2, <1>3, <1>4

(* pause() runs.                                                              *)
LEMMA PauseRunsStep == ASSUME IInv, NEW w \in Workers, PauseRuns(w) PROVE IInv'
<1>1. running' \in [Workers -> BOOLEAN]
  BY DEF PauseRuns, IInv, TypeOK
<1> QED  BY <1>1, ControlRuns DEF PauseRuns

(* start() runs.                                                              *)
LEMMA StartRunsStep == ASSUME IInv, NEW w \in Workers, StartRuns(w) PROVE IInv'
<1>1. running' \in [Workers -> BOOLEAN]
  BY DEF StartRuns, IInv, TypeOK
<1>2. CASE producer[w] = "failed"
  <2>1. control' = [control EXCEPT ![w].reply = "raised"]
    BY <1>2 DEF StartRuns
  <2> QED  BY <1>1, <2>1, ControlRuns DEF StartRuns
<1>3. CASE producer[w] # "failed"
  <2>1. control' = [control EXCEPT ![w].reply = "ok"]
    BY <1>3 DEF StartRuns
  <2> QED  BY <1>1, <2>1, ControlRuns DEF StartRuns
<1> QED  BY <1>2, <1>3

-----------------------------------------------------------------------------
(* The groups an actor works on *)

(* A non-empty set of naturals has a least element.                           *)
LEMMA Least == ASSUME NEW S \in SUBSET Nat, S # {} PROVE \E x \in S : \A y \in S : x <= y
<1> DEFINE R == OpToRel(<, Nat)
<1>1. IsWellFoundedOn(R, Nat)
  BY NatLessThanWellFounded
<1>2. \A x, y \in Nat : y < x => <<y, x>> \in R
  BY DEF OpToRel
<1> HIDE DEF R
<1>3. PICK x \in S : \A y \in S : ~(<<y, x>> \in R)
  BY <1>1, WFMin
<1>4. ASSUME NEW y \in S PROVE x <= y
  <2>1. x \in Nat /\ y \in Nat /\ ~(<<y, x>> \in R)
    BY <1>3
  <2>2. ~(y < x)
    BY <1>2, <2>1
  <2> QED  BY <2>1, <2>2
<1> QED  BY <1>4

(* Min of a set of numbers is one of them.                                    *)
LEMMA Smallest == ASSUME NEW S \in SUBSET Nat, S # {} PROVE Min(S) \in S
BY Least DEF Min

(* A prompt that nobody touches stays where it is.                            *)
LEMMA OwnerStays ==
    ASSUME NEW g, OneOwner(g), g \in open' <=> g \in open, g \in rejected' <=> g \in rejected,
           \A w \in Workers : (g \in leased'[w] <=> g \in leased[w]) /\ (g \in accepted'[w] <=> g \in accepted[w])
    PROVE  OneOwner(g)'
BY DEF OneOwner

(* Nothing is taken back that was published or rejected.                      *)
LEMMA StillDelivered ==
    ASSUME Delivered, UNCHANGED <<outputs, request, ready, collecting, processed>>, rejected \subseteq rejected',
           \A w \in Workers : accepted[w] \subseteq accepted'[w]
    PROVE  Delivered'
<1>1. \A w \in Workers :
         /\ Len(outputs[w]) <= 1 /\ Own(outputs[w], accepted'[w], rejected')
         /\ Len(request[w].item) <= 1 /\ Own(request[w].item, accepted'[w], rejected')
  BY DEF Delivered, Own
<1>2. Published \subseteq Published'
  BY DEF Published
<1>3. Own(ready, Published', rejected')
  BY <1>2 DEF Delivered, Own
<1>4. \A w \in Workers : request[w].at # "item" => request[w].item = <<>>
  BY DEF Delivered
<1>5. collecting \cup processed \subseteq Published'
  BY <1>2 DEF Delivered
<1> QED  BY <1>1, <1>3, <1>4, <1>5 DEF Delivered

(* A step of a slot before its result is kept.                                *)
LEMMA StillConserved ==
    ASSUME Conserved, UNCHANGED <<accepted, alive, outputs, request, ready, collecting, processed, usable>>,
           Sound' => Sound, \A w \in Workers, g \in Group : InSlot(g, w)' <=> InSlot(g, w), TypeOK
    PROVE  Conserved'
<1>1. ASSUME Sound', NEW w \in Workers, NEW g \in accepted[w] PROVE Once(g, w)'
  <2>1. Once(g, w)
    BY <1>1 DEF Conserved
  <2>2. (InReply(g, w)' <=> InReply(g, w)) /\ (InOutput(g, w)' <=> InOutput(g, w)) /\ Kept(ready, g)' = Kept(ready, g)
    BY DEF InReply, InOutput, Kept
  <2>3. InBatch(g)' <=> InBatch(g)
    BY DEF InBatch
  <2>4. g \in Group
    BY <1>1 DEF TypeOK
  <2> QED  BY <1>1, <2>1, <2>2, <2>3, <2>4, StillOnce
<1> QED  BY <1>1 DEF Conserved

(* What a slot is.                                                            *)
LEMMA SlotType ==
    ASSUME TypeOK, NEW w \in Workers, NEW s \in slots[w]
    PROVE  s \in Slotted /\ s.group \in Group /\ s.phase \in Phase /\ s = [group |-> s.group, phase |-> s.phase]
<1>1. s \in Slotted
  BY DEF TypeOK
<1> QED  BY <1>1 DEF Slotted

(* One slot changes.                                                          *)
LEMMA SlotChanges ==
    ASSUME TypeOK, NEW w \in Workers, NEW T \in SUBSET Slotted, slots' = [slots EXCEPT ![w] = T]
    PROVE  /\ slots' \in [Workers -> SUBSET Slotted] /\ slots'[w] = T
           /\ \A v \in Workers : v # w => slots'[v] = slots[v]
BY DEF TypeOK

(* A prompt is leased and put in a slot.                                      *)
LEMMA FetchStep == ASSUME IInv, NEW w \in Workers, Fetch(w) PROVE IInv'
<1> USE DEF IInv
<1> DEFINE h == Min(open)
           s == [group |-> h, phase |-> "fetched"]
<1>1. /\ open' = open \ {h} /\ leased' = [leased EXCEPT ![w] = @ \cup {h}] /\ slots' = [slots EXCEPT ![w] = @ \cup {s}]
      /\ open # {} /\ alive[w]
      /\ UNCHANGED <<accepted, rejected, alive, running, producer, outputs, faults, calls, scheduler, manager>>
  BY DEF Fetch
<1>2. h \in open /\ h \in Group
  <2>1. open \in SUBSET Nat
    BY FiniteGroups DEF TypeOK
  <2> QED  BY <1>1, <2>1, Smallest DEF TypeOK
<1> HIDE DEF h
<1>3. s \in Slotted /\ s.group = h /\ s.phase = "fetched"
  BY <1>2 DEF Slotted, Phase
<1> HIDE DEF s
<1>4. /\ slots' \in [Workers -> SUBSET Slotted] /\ slots'[w] = slots[w] \cup {s}
      /\ \A v \in Workers : v # w => slots'[v] = slots[v]
  <2>1. slots[w] \cup {s} \in SUBSET Slotted
    BY <1>3 DEF TypeOK
  <2>2. slots' = [slots EXCEPT ![w] = slots[w] \cup {s}]
    BY <1>1
  <2> QED  BY <2>1, <2>2, SlotChanges
<1>5. /\ leased' \in [Workers -> SUBSET Group] /\ leased'[w] = leased[w] \cup {h}
      /\ \A v \in Workers : v # w => leased'[v] = leased[v]
  BY <1>1, <1>2 DEF TypeOK
<1>6. TypeOK'
  BY <1>1, <1>4, <1>5 DEF TypeOK, calls, scheduler, manager
<1>7. Owned'
  <2>1. ASSUME NEW g \in Group PROVE OneOwner(g)'
    <3>1. OneOwner(g)
      BY DEF Owned
    <3>2. CASE g = h
      BY <1>1, <1>2, <1>5, <3>1, <3>2 DEF OneOwner
    <3>3. CASE g # h
      <4>1. \A v \in Workers : g \in leased'[v] <=> g \in leased[v]
        BY <1>5, <3>3
      <4> QED  BY <1>1, <3>1, <3>3, <4>1, OwnerStays
    <3> QED  BY <3>2, <3>3
  <2> QED  BY <2>1 DEF Owned
<1>8. Worked'
  <2>1. \A u \in slots[w] : u.group # h
    <3>1. ASSUME NEW u \in slots[w], u.group = h PROVE FALSE
      <4>1. OneOwner(h)
        BY <1>2 DEF Owned
      <4>2. u.phase \in Phase
        BY SlotType
      <4>3. h \in leased[w] \/ h \in accepted[w] \/ h \in rejected
        BY <3>1, <4>2 DEF Worked, Phase
      <4> QED  BY <1>2, <4>1, <4>3 DEF OneOwner
    <3> QED  BY <3>1
  <2>2. ASSUME NEW v \in Workers, NEW u \in slots'[v]
        PROVE  /\ u.phase \in {"fetched", "generating"} => u.group \in leased'[v]
               /\ u.phase = "kept" => u.group \in accepted[v]
               /\ u.phase = "dropped" => u.group \in rejected
               /\ \A t \in slots'[v] : u.group = t.group => u = t
    BY <1>3, <1>4, <1>5, <2>1, <2>2 DEF Worked
  <2>3. \A v \in Workers : ~alive[v] => slots'[v] = {} /\ outputs[v] = <<>>
    BY <1>1, <1>4 DEF Worked
  <2> QED  BY <1>1, <2>2, <2>3 DEF Worked
<1>9. Delivered'
  BY <1>1, StillDelivered DEF calls, scheduler, manager
<1>10. Conserved'
  <2>1. \A v \in Workers, g \in Group : InSlot(g, v)' <=> InSlot(g, v)
    BY <1>3, <1>4 DEF InSlot
  <2> QED  BY <1>1, <2>1, StillConserved DEF calls, scheduler, manager, Sound
<1>11. Noticed' /\ Quiet'
  <2>1. Noticed'
    BY <1>1 DEF Noticed, calls, scheduler, manager
  <2>2. Quiet'
    BY <1>1, StillQuiet DEF Quiescent, Controlled, Pending, calls, scheduler, manager
  <2> QED  BY <2>1, <2>2
<1> QED  BY <1>6, <1>7, <1>8, <1>9, <1>10, <1>11

(* The slots T take the place of s.                                           *)
Fits(w, s, T) ==
    \A t \in T :
        /\ t.group = s.group /\ \A u \in T : t = u
        /\ t.phase \in {"fetched", "generating"} => t.group \in leased'[w]
        /\ t.phase = "kept" => t.group \in accepted'[w]
        /\ t.phase = "dropped" => t.group \in rejected'

(* Other groups than h stay where they are.                                   *)
Spares(h) ==
    \A g \in Group \ {h} :
        /\ g \in rejected => g \in rejected'
        /\ \A v \in Workers : (g \in leased[v] => g \in leased'[v]) /\ (g \in accepted[v] => g \in accepted'[v])

(* A slot whose group has not been published goes on or is given up: the      *)
(* prompt of s goes where this step puts it.                                  *)
LEMMA SlotMoves ==
    ASSUME TypeOK, Owned, Worked, NEW w \in Workers, NEW s \in slots[w], s.phase \in {"fetched", "generating"},
           NEW T \in SUBSET Slotted, slots' = [slots EXCEPT ![w] = (slots[w] \ {s}) \cup T],
           UNCHANGED alive, alive[w],
           Fits(w, s, T), UNCHANGED outputs, Spares(s.group)
    PROVE  /\ slots' \in [Workers -> SUBSET Slotted] /\ Worked'
           /\ \A v \in Workers, g \in Group :
                 InSlot(g, v)' <=> InSlot(g, v) \/ (v = w /\ [group |-> g, phase |-> "kept"] \in T)
<1>1. /\ slots' \in [Workers -> SUBSET Slotted] /\ slots'[w] = (slots[w] \ {s}) \cup T
      /\ \A v \in Workers : v # w => slots'[v] = slots[v]
  <2>1. (slots[w] \ {s}) \cup T \in SUBSET Slotted
    BY DEF TypeOK
  <2> QED  BY <2>1, SlotChanges
<1>2. s.group \in Group /\ OneOwner(s.group) /\ s.group \in leased[w]
  <2>1. s.group \in Group
    BY SlotType
  <2> QED  BY <2>1 DEF Owned, Worked
<1>3. ASSUME NEW v \in Workers, NEW u \in slots'[v], u \in slots[v], u # s \/ v # w
      PROVE  u.group # s.group /\ u.group \in Group
  <2>1. u.phase \in Phase /\ u.group \in Group
    BY <1>3, SlotType
  <2>2. CASE v = w
    BY <1>3, <2>1, <2>2 DEF Worked
  <2>3. CASE v # w
    <3>1. u.group \in leased[v] \/ u.group \in accepted[v] \/ u.group \in rejected
      BY <1>3, <2>1 DEF Worked, Phase
    <3> QED  BY <1>2, <2>1, <2>3, <3>1 DEF OneOwner
  <2> QED  BY <2>2, <2>3
<1>4. ASSUME NEW v \in Workers, NEW u \in slots'[v]
      PROVE  /\ u.phase \in {"fetched", "generating"} => u.group \in leased'[v]
             /\ u.phase = "kept" => u.group \in accepted'[v]
             /\ u.phase = "dropped" => u.group \in rejected'
             /\ \A t \in slots'[v] : u.group = t.group => u = t
  <2> USE DEF Fits, Spares
  <2>1. CASE u \in slots[v] /\ (u # s \/ v # w)
    <3>1. u.group # s.group /\ u.group \in Group
      BY <1>3, <1>4, <2>1
    <3>2. \A t \in slots'[v] : t \in slots[v] \/ (v = w /\ t \in T)
      BY <1>1
    <3>3. \A t \in slots'[v] : u.group = t.group => u = t
      BY <2>1, <3>1, <3>2 DEF Worked
    <3> QED  BY <2>1, <3>1, <3>3 DEF Worked
  <2>2. CASE v = w /\ u \in T
    <3>1. \A t \in slots'[v] : t \in T \/ (t \in slots[v] /\ t # s)
      BY <1>1, <2>2
    <3>2. \A t \in slots'[v] : u.group = t.group => u = t
      BY <1>3, <1>4, <2>2, <3>1
    <3> QED  BY <2>2, <3>2
  <2> QED  BY <1>1, <2>1, <2>2
<1>5. \A v \in Workers : ~alive'[v] => slots'[v] = {} /\ outputs'[v] = <<>>
  BY <1>1 DEF Worked
<1>6. Worked'
  BY <1>4, <1>5 DEF Worked
<1>7. \A v \in Workers, g \in Group :
         InSlot(g, v)' <=> InSlot(g, v) \/ (v = w /\ [group |-> g, phase |-> "kept"] \in T)
  <2>1. \A g : [group |-> g, phase |-> "kept"] # s
    OBVIOUS
  <2> QED  BY <1>1, <2>1 DEF InSlot
<1> QED  BY <1>1, <1>6, <1>7

(* What a live actor's slot tells of the actor.                               *)
LEMMA SlotAlive == ASSUME Worked, NEW w \in Workers, NEW s \in slots[w] PROVE alive[w]
BY DEF Worked

(* A group goes back to the queue.                                            *)
LEMMA RebufferStep ==
    ASSUME IInv, NEW w \in Workers, NEW s \in slots[w], s.phase \in {"fetched", "generating"}, Rebuffer(w, s),
           faults' \in [Fault -> Nat], faults'["crash"] = faults["crash"],
           UNCHANGED <<accepted, rejected, alive, running, producer, outputs, calls, scheduler, manager>>
    PROVE  IInv'
<1> USE DEF IInv
<1> DEFINE h == s.group
<1>1. /\ slots' = [slots EXCEPT ![w] = @ \ {s}] /\ leased' = [leased EXCEPT ![w] = @ \ {h}] /\ open' = open \cup {h}
  BY DEF Rebuffer
<1>2. h \in Group /\ OneOwner(h) /\ h \in leased[w] /\ alive[w]
  <2>1. h \in Group
    BY SlotType
  <2> QED  BY <2>1, SlotAlive DEF Owned, Worked
<1>3. /\ leased' \in [Workers -> SUBSET Group] /\ leased'[w] = leased[w] \ {h}
      /\ \A v \in Workers : v # w => leased'[v] = leased[v]
  BY <1>1 DEF TypeOK
<1>4. slots' = [slots EXCEPT ![w] = (slots[w] \ {s}) \cup {}]
  BY <1>1
<1> HIDE DEF h
<1>5. /\ slots' \in [Workers -> SUBSET Slotted] /\ Worked'
      /\ \A v \in Workers, g \in Group : InSlot(g, v)' <=> InSlot(g, v)
  <2>1. Spares(s.group)
    BY <1>3 DEF h, Spares
  <2> DEFINE T == {}
  <2>2. T \in SUBSET Slotted /\ slots' = [slots EXCEPT ![w] = (slots[w] \ {s}) \cup T] /\ \A t : t \notin T
    BY <1>4
  <2> HIDE DEF T
  <2>3. Fits(w, s, T)
    BY <2>2 DEF Fits
  <2>4. /\ slots' \in [Workers -> SUBSET Slotted] /\ Worked'
        /\ \A v \in Workers, g \in Group :
              InSlot(g, v)' <=> InSlot(g, v) \/ (v = w /\ [group |-> g, phase |-> "kept"] \in T)
    BY <1>2, <2>1, <2>2, <2>3, SlotMoves
  <2> QED  BY <2>2, <2>4
<1>6. TypeOK'
  BY <1>1, <1>2, <1>3, <1>5 DEF TypeOK, calls, scheduler, manager
<1>7. Owned'
  <2>1. ASSUME NEW g \in Group PROVE OneOwner(g)'
    <3>1. OneOwner(g)
      BY DEF Owned
    <3>2. CASE g = h
      BY <1>1, <1>2, <1>3, <3>1, <3>2 DEF OneOwner
    <3>3. CASE g # h
      <4>1. \A v \in Workers : g \in leased'[v] <=> g \in leased[v]
        BY <1>3, <3>3
      <4> QED  BY <1>1, <3>1, <3>3, <4>1, OwnerStays DEF h
    <3> QED  BY <3>2, <3>3
  <2> QED  BY <2>1 DEF Owned
<1>8. Delivered'
  BY StillDelivered DEF calls, scheduler, manager
<1>9. Conserved'
  BY <1>5, StillConserved DEF calls, scheduler, manager, Sound
<1>10. Noticed' /\ Quiet'
  <2>1. Noticed'
    BY DEF Noticed, calls, scheduler, manager
  <2>2. Quiet'
    BY StillQuiet DEF Quiescent, Controlled, Pending, calls, scheduler, manager
  <2> QED  BY <2>1, <2>2
<1> QED  BY <1>5, <1>6, <1>7, <1>8, <1>9, <1>10

(* An interrupted group returns to the queue.                                 *)
LEMMA AbortStep == ASSUME IInv, NEW w \in Workers, NEW s \in slots[w], Abort(w, s) PROVE IInv'
<1>1. faults' \in [Fault -> Nat] /\ faults'["crash"] = faults["crash"]
  <2>1. faults \in [Fault -> Nat] /\ faults' = [faults EXCEPT !["abort"] = faults["abort"] + 1]
    BY DEF Abort, IInv, TypeOK
  <2>2. "abort" \in Fault /\ "crash" \in Fault /\ "abort" # "crash"
    BY DEF Fault
  <2> QED  BY <2>1, <2>2
<1> QED  BY <1>1, RebufferStep DEF Abort

(* A group begins its generation, or returns ungenerated.                     *)
LEMMA BeginGenerationStep == ASSUME IInv, NEW w \in Workers, NEW s \in slots[w], BeginGeneration(w, s) PROVE IInv'
<1>1. /\ s.phase = "fetched"
      /\ UNCHANGED <<accepted, rejected, alive, running, producer, outputs, faults, calls, scheduler, manager>>
  BY DEF BeginGeneration
<1>2. CASE ~running[w]
  <2>1. faults' \in [Fault -> Nat] /\ faults'["crash"] = faults["crash"]
    BY <1>1 DEF IInv, TypeOK
  <2>2. Rebuffer(w, s)
    BY <1>2 DEF BeginGeneration
  <2> QED  BY <1>1, <2>1, <2>2, RebufferStep
<1>3. CASE running[w]
  <2> USE DEF IInv
  <2> DEFINE t == [s EXCEPT !.phase = "generating"]
             T == {t}
  <2>1. slots' = [slots EXCEPT ![w] = (slots[w] \ {s}) \cup T] /\ UNCHANGED <<open, leased>>
    BY <1>3 DEF BeginGeneration, MovePhase
  <2>2. s \in Slotted
    BY SlotType
  <2>3. t \in Slotted /\ t.group = s.group /\ t.phase = "generating"
    BY <2>2 DEF Slotted, Phase
  <2> HIDE DEF t
  <2>4. T \in SUBSET Slotted /\ \A u : u \in T <=> u = t
    BY <2>3
  <2> HIDE DEF T
  <2>5. s.group \in leased[w] /\ alive[w]
    BY <1>1, SlotAlive DEF Worked
  <2>6. /\ slots' \in [Workers -> SUBSET Slotted] /\ Worked'
        /\ \A v \in Workers, g \in Group :
              InSlot(g, v)' <=> InSlot(g, v) \/ (v = w /\ [group |-> g, phase |-> "kept"] \in T)
    <3>1. Fits(w, s, T)
      BY <2>1, <2>3, <2>4, <2>5 DEF Fits
    <3>2. Spares(s.group)
      BY <1>1, <2>1 DEF Spares
    <3>3. s.phase \in {"fetched", "generating"} /\ UNCHANGED <<alive, outputs>>
      BY <1>1
    <3> QED  BY <2>1, <2>4, <2>5, <3>1, <3>2, <3>3, SlotMoves
  <2>7. \A v \in Workers, g \in Group : InSlot(g, v)' <=> InSlot(g, v)
    <3>1. ASSUME NEW v \in Workers, NEW g \in Group PROVE InSlot(g, v)' <=> InSlot(g, v)
      <4>1. [group |-> g, phase |-> "kept"] # t
        BY <2>3
      <4>2. [group |-> g, phase |-> "kept"] \notin T
        BY <2>4, <4>1
      <4> QED  BY <2>6, <4>2
    <3> QED  BY <3>1
  <2>8. TypeOK'
    BY <1>1, <2>1, <2>6 DEF TypeOK, calls, scheduler, manager
  <2>9. Owned'
    BY <1>1, <2>1 DEF Owned, OneOwner
  <2>10. Delivered'
    BY <1>1, StillDelivered DEF calls, scheduler, manager
  <2>11. Conserved'
    BY <1>1, <2>7, StillConserved DEF calls, scheduler, manager, Sound
  <2>12. Noticed'
    BY <1>1 DEF Noticed, calls, scheduler, manager
  <2>13. Quiet'
    BY <1>1, StillQuiet DEF Quiescent, Controlled, Pending, calls, scheduler, manager
  <2> QED  BY <2>6, <2>8, <2>9, <2>10, <2>11, <2>12, <2>13
<1> QED  BY <1>2, <1>3

(* A complete group is published to the queue.                                *)
LEMMA CompleteStep == ASSUME IInv, NEW w \in Workers, NEW s \in slots[w], Complete(w, s) PROVE IInv'
<1> USE DEF IInv
<1> DEFINE h == s.group
           t == [s EXCEPT !.phase = "kept"]
           T == {t}
<1>1. /\ s.phase = "generating" /\ slots' = [slots EXCEPT ![w] = (slots[w] \ {s}) \cup T]
      /\ leased' = [leased EXCEPT ![w] = @ \ {h}] /\ accepted' = [accepted EXCEPT ![w] = @ \cup {h}]
      /\ UNCHANGED <<open, rejected, alive, running, producer, outputs, faults, calls, scheduler, manager>>
  BY DEF Complete, MovePhase
<1>2. s \in Slotted /\ h \in Group /\ OneOwner(h) /\ h \in leased[w] /\ alive[w]
  <2>1. s \in Slotted /\ h \in Group
    BY SlotType
  <2> QED  BY <1>1, <2>1, SlotAlive DEF Owned, Worked
<1>3. t \in Slotted /\ t.group = h /\ t.phase = "kept" /\ t = [group |-> h, phase |-> "kept"]
  BY <1>2 DEF Slotted, Phase
<1> HIDE DEF t
<1>4. T \in SUBSET Slotted /\ \A u : u \in T <=> u = t
  BY <1>3
<1> HIDE DEF T, h
<1>5. /\ leased' \in [Workers -> SUBSET Group] /\ leased'[w] = leased[w] \ {h}
      /\ \A v \in Workers : v # w => leased'[v] = leased[v]
  BY <1>1 DEF TypeOK
<1>6. /\ accepted' \in [Workers -> SUBSET Group] /\ accepted'[w] = accepted[w] \cup {h}
      /\ \A v \in Workers : v # w => accepted'[v] = accepted[v]
  BY <1>1, <1>2 DEF TypeOK
<1>7. /\ slots' \in [Workers -> SUBSET Slotted] /\ Worked'
      /\ \A v \in Workers, g \in Group :
            InSlot(g, v)' <=> InSlot(g, v) \/ (v = w /\ [group |-> g, phase |-> "kept"] \in T)
  <2>1. Fits(w, s, T)
    BY <1>3, <1>4, <1>6 DEF Fits, h
  <2>2. Spares(s.group)
    BY <1>1, <1>5, <1>6 DEF Spares, h
  <2> QED  BY <1>1, <1>2, <1>4, <2>1, <2>2, SlotMoves
<1>8. TypeOK'
  BY <1>1, <1>5, <1>6, <1>7 DEF TypeOK, calls, scheduler, manager
<1>9. Owned'
  <2>1. ASSUME NEW g \in Group PROVE OneOwner(g)'
    <3>1. OneOwner(g)
      BY DEF Owned
    <3>2. CASE g = h
      BY <1>1, <1>2, <1>5, <1>6, <3>1, <3>2 DEF OneOwner
    <3>3. CASE g # h
      <4>1. \A v \in Workers : (g \in leased'[v] <=> g \in leased[v]) /\ (g \in accepted'[v] <=> g \in accepted[v])
        BY <1>5, <1>6, <3>3
      <4> QED  BY <1>1, <3>1, <4>1, OwnerStays
    <3> QED  BY <3>2, <3>3
  <2> QED  BY <2>1 DEF Owned
<1>10. Delivered'
  <2>1. \A v \in Workers : accepted[v] \subseteq accepted'[v]
    BY <1>6
  <2> QED  BY <1>1, <2>1, StillDelivered DEF calls, scheduler, manager
<1>11. \A v \in Workers : h \notin accepted[v]
  BY <1>2 DEF OneOwner
<1>12. ~InReady(h) /\ ~InBatch(h) /\ \A v \in Workers : ~InSlot(h, v) /\ ~InOutput(h, v) /\ ~InReply(h, v)
  <2>1. h \notin Published
    BY <1>11 DEF Published
  <2>2. ~InReady(h)
    BY <2>1 DEF InReady, Kept, Delivered, Own
  <2>3. ~InBatch(h)
    BY <2>1 DEF InBatch, Delivered
  <2>4. ASSUME NEW v \in Workers PROVE ~InSlot(h, v) /\ ~InOutput(h, v) /\ ~InReply(h, v)
    <3>1. ~InSlot(h, v)
      BY <1>11 DEF InSlot, Worked
    <3>2. ~InOutput(h, v) /\ ~InReply(h, v)
      BY <1>11 DEF InOutput, InReply, Kept, Delivered, Own
    <3> QED  BY <3>1, <3>2
  <2> QED  BY <2>2, <2>3, <2>4
<1>13. \A g : /\ Kept(ready, g)' = Kept(ready, g) /\ (InReady(g)' <=> InReady(g)) /\ (InBatch(g)' <=> InBatch(g))
              /\ \A v \in Workers : (InOutput(g, v)' <=> InOutput(g, v)) /\ (InReply(g, v)' <=> InReply(g, v))
  BY <1>1 DEF InReady, InBatch, InOutput, InReply, Kept, calls, scheduler, manager
<1>14. Conserved'
  <2>1. ASSUME Sound', NEW v \in Workers, NEW g \in accepted'[v] PROVE Once(g, v)'
    <3>1. g \in Group
      BY <1>6, <2>1
    <3>2. CASE g = h
      <4>1. v = w
        BY <1>6, <1>11, <2>1, <3>2
      <4>2. InSlot(g, v)'
        BY <1>3, <1>4, <1>7, <3>1, <3>2, <4>1
      <4>3. Kept(ready, g)' = {}
        BY <1>12, <1>13, <3>2 DEF InReady
      <4>4. ~InReady(g)' /\ ~InBatch(g)' /\ ~InOutput(g, v)' /\ ~InReply(g, v)'
        BY <1>12, <1>13, <2>1, <3>2
      <4> QED  BY <4>2, <4>3, <4>4 DEF Once
    <3>3. CASE g # h
      <4>1. g \in accepted[v]
        BY <1>6, <2>1, <3>3
      <4>2. Once(g, v)
        BY <1>1, <2>1, <4>1 DEF Conserved, Sound, scheduler
      <4>3. [group |-> g, phase |-> "kept"] # t
        BY <1>3, <3>3
      <4>4. [group |-> g, phase |-> "kept"] \notin T
        BY <1>4, <4>3
      <4>5. InSlot(g, v)' <=> InSlot(g, v)
        BY <1>7, <3>1, <4>4
      <4>6. w \in Workers /\ UNCHANGED <<usable, alive>>
        BY <1>1 DEF scheduler
      <4> QED  BY <1>13, <4>2, <4>5, <4>6, StillOnce
    <3> QED  BY <3>2, <3>3
  <2> QED  BY <2>1 DEF Conserved
<1>15. Noticed' /\ Quiet'
  <2>1. Noticed'
    BY <1>1 DEF Noticed, calls, scheduler, manager
  <2>2. Quiet'
    BY <1>1, StillQuiet DEF Quiescent, Controlled, Pending, calls, scheduler, manager
  <2> QED  BY <2>1, <2>2
<1> QED  BY <1>7, <1>8, <1>9, <1>10, <1>14, <1>15

(* A complete group is rejected by the filter.                                *)
LEMMA DiscardStep == ASSUME IInv, NEW w \in Workers, NEW s \in slots[w], Discard(w, s) PROVE IInv'
<1> USE DEF IInv
<1> DEFINE h == s.group
           t == [s EXCEPT !.phase = "dropped"]
           T == {t}
<1>1. /\ s.phase = "generating" /\ slots' = [slots EXCEPT ![w] = (slots[w] \ {s}) \cup T]
      /\ leased' = [leased EXCEPT ![w] = @ \ {h}] /\ rejected' = rejected \cup {h}
      /\ UNCHANGED <<open, accepted, alive, running, producer, outputs, faults, calls, scheduler, manager>>
  BY DEF Discard, MovePhase
<1>2. s \in Slotted /\ h \in Group /\ OneOwner(h) /\ h \in leased[w] /\ alive[w]
  <2>1. s \in Slotted /\ h \in Group
    BY SlotType
  <2> QED  BY <1>1, <2>1, SlotAlive DEF Owned, Worked
<1>3. t \in Slotted /\ t.group = h /\ t.phase = "dropped"
  BY <1>2 DEF Slotted, Phase
<1> HIDE DEF t
<1>4. T \in SUBSET Slotted /\ \A u : u \in T <=> u = t
  BY <1>3
<1> HIDE DEF T, h
<1>5. /\ leased' \in [Workers -> SUBSET Group] /\ leased'[w] = leased[w] \ {h}
      /\ \A v \in Workers : v # w => leased'[v] = leased[v]
  BY <1>1 DEF TypeOK
<1>6. /\ slots' \in [Workers -> SUBSET Slotted] /\ Worked'
      /\ \A v \in Workers, g \in Group :
            InSlot(g, v)' <=> InSlot(g, v) \/ (v = w /\ [group |-> g, phase |-> "kept"] \in T)
  <2>1. Fits(w, s, T)
    BY <1>1, <1>3, <1>4 DEF Fits, h
  <2>2. Spares(s.group)
    BY <1>1, <1>5 DEF Spares, h
  <2> QED  BY <1>1, <1>2, <1>4, <2>1, <2>2, SlotMoves
<1>7. \A v \in Workers, g \in Group : InSlot(g, v)' <=> InSlot(g, v)
  <2>1. ASSUME NEW v \in Workers, NEW g \in Group PROVE InSlot(g, v)' <=> InSlot(g, v)
    <3>1. [group |-> g, phase |-> "kept"] # t
      BY <1>3
    <3>2. [group |-> g, phase |-> "kept"] \notin T
      BY <1>4, <3>1
    <3> QED  BY <1>6, <3>2
  <2> QED  BY <2>1
<1>8. TypeOK'
  BY <1>1, <1>2, <1>5, <1>6 DEF TypeOK, calls, scheduler, manager
<1>9. Owned'
  <2>1. ASSUME NEW g \in Group PROVE OneOwner(g)'
    <3>1. OneOwner(g)
      BY DEF Owned
    <3>2. CASE g = h
      BY <1>1, <1>2, <1>5, <3>1, <3>2 DEF OneOwner
    <3>3. CASE g # h
      <4>1. \A v \in Workers : g \in leased'[v] <=> g \in leased[v]
        BY <1>5, <3>3
      <4>2. g \in rejected' <=> g \in rejected
        BY <1>1, <3>3
      <4> QED  BY <1>1, <3>1, <4>1, <4>2, OwnerStays
    <3> QED  BY <3>2, <3>3
  <2> QED  BY <2>1 DEF Owned
<1>10. Delivered'
  <2>1. rejected \subseteq rejected'
    BY <1>1
  <2> QED  BY <1>1, <2>1, StillDelivered DEF calls, scheduler, manager
<1>11. Conserved'
  BY <1>1, <1>7, StillConserved DEF calls, scheduler, manager, Sound
<1>12. Noticed' /\ Quiet'
  <2>1. Noticed'
    BY <1>1 DEF Noticed, calls, scheduler, manager
  <2>2. Quiet'
    BY <1>1, StillQuiet DEF Quiescent, Controlled, Pending, calls, scheduler, manager
  <2> QED  BY <2>1, <2>2
<1> QED  BY <1>6, <1>8, <1>9, <1>10, <1>11, <1>12

(* What an actor's queue and a reply hold.                                    *)
LEMMA ItemTypes ==
    ASSUME TypeOK, NEW w \in Workers
    PROVE  outputs[w] \in Seq(Item) /\ request[w].item \in Seq(Item)
BY DEF TypeOK

(* A finished group enters the actor's empty queue.                            *)
LEMMA PutStep == ASSUME IInv, NEW w \in Workers, NEW s \in slots[w], Put(w, s) PROVE IInv'
<1> USE DEF IInv
<1> DEFINE e == [group |-> s.group, keep |-> s.phase = "kept"]
<1>1. /\ s.phase \in {"kept", "dropped"} /\ Len(outputs[w]) < 1
      /\ outputs' = [outputs EXCEPT ![w] = Append(outputs[w], e)] /\ slots' = [slots EXCEPT ![w] = slots[w] \ {s}]
      /\ UNCHANGED <<queue, alive, running, producer, faults, calls, scheduler, manager>>
  BY DEF Put, HasRoom
<1>2. s \in Slotted /\ s.group \in Group /\ s = [group |-> s.group, phase |-> s.phase] /\ alive[w]
  BY SlotType, SlotAlive
<1>3. e \in Item /\ e.group = s.group /\ (e.keep <=> s.phase = "kept")
  BY <1>2 DEF Item
<1> HIDE DEF e
<1>4. outputs[w] = <<>>
  <2>1. outputs[w] \in Seq(Item)
    BY ItemTypes
  <2>2. Len(outputs[w]) \in Nat /\ (Len(outputs[w]) = 0 => outputs[w] = <<>>)
    BY <2>1
  <2>3. Len(outputs[w]) = 0
    BY <1>1, <2>2
  <2> QED  BY <2>2, <2>3
<1>5. Append(<<>>, e) = <<e>> /\ <<e>> \in Seq(Item) /\ Len(<<e>>) = 1 /\ DOMAIN <<e>> = {1} /\ <<e>>[1] = e
  BY <1>3
<1>6. /\ outputs' \in [Workers -> Seq(Item)] /\ outputs'[w] = <<e>>
      /\ \A v \in Workers : v # w => outputs'[v] = outputs[v]
  BY <1>1, <1>4, <1>5 DEF TypeOK
<1>7. /\ slots' \in [Workers -> SUBSET Slotted] /\ slots'[w] = slots[w] \ {s}
      /\ \A v \in Workers : v # w => slots'[v] = slots[v]
  <2>1. slots[w] \ {s} \in SUBSET Slotted
    BY DEF TypeOK
  <2> QED  BY <1>1, <2>1, SlotChanges
<1>8. TypeOK'
  BY <1>1, <1>6, <1>7 DEF TypeOK, queue, calls, scheduler, manager
<1>9. Owned'
  BY <1>1 DEF Owned, OneOwner, queue
<1>10. Worked'
  <2>1. \A v \in Workers : slots'[v] \subseteq slots[v]
    BY <1>7
  <2>2. \A v \in Workers : ~alive[v] => slots'[v] = {} /\ outputs'[v] = <<>>
    <3>1. ASSUME NEW v \in Workers, ~alive[v] PROVE slots'[v] = {} /\ outputs'[v] = <<>>
      <4>1. v # w
        BY <1>2, <3>1
      <4> QED  BY <1>6, <1>7, <3>1, <4>1 DEF Worked
    <3> QED  BY <3>1
  <2> QED  BY <1>1, <2>1, <2>2 DEF Worked, queue
<1>11. Delivered'
  <2>1. s.phase = "kept" => s.group \in accepted[w]
    BY DEF Worked
  <2>2. s.phase = "dropped" => s.group \in rejected
    BY DEF Worked
  <2>3. Own(<<e>>, accepted[w], rejected)
    BY <1>1, <1>3, <1>5, <2>1, <2>2 DEF Own
  <2>4. ASSUME NEW v \in Workers PROVE Len(outputs'[v]) <= 1 /\ Own(outputs'[v], accepted[v], rejected)
    <3>1. CASE v = w
      <4>1. 1 <= 1
        OBVIOUS
      <4> QED  BY <1>5, <1>6, <2>3, <3>1, <4>1
    <3>2. CASE v # w
      BY <1>6, <3>2 DEF Delivered
    <3> QED  BY <3>1, <3>2
  <2> QED  BY <1>1, <2>4 DEF Delivered, Published, queue, calls, scheduler, manager
<1>12. \A g : /\ Kept(ready, g)' = Kept(ready, g) /\ (InReady(g)' <=> InReady(g)) /\ (InBatch(g)' <=> InBatch(g))
              /\ \A v \in Workers : InReply(g, v)' <=> InReply(g, v)
  BY <1>1 DEF InReady, InBatch, InReply, Kept, calls, scheduler, manager
<1>13. Conserved'
  <2>1. ASSUME Sound', NEW v \in Workers, NEW g \in accepted[v] PROVE Once(g, v)'
    <3>1. Once(g, v)
      BY <1>1, <2>1 DEF Conserved, Sound, scheduler
    <3>2. w \in Workers /\ UNCHANGED <<usable, alive>>
      BY <1>1 DEF scheduler
    <3>3. CASE v # w
      <4>1. (InSlot(g, v)' <=> InSlot(g, v)) /\ (InOutput(g, v)' <=> InOutput(g, v))
        BY <1>6, <1>7, <2>1, <3>3 DEF InSlot, InOutput
      <4> QED  BY <1>12, <2>1, <3>1, <3>2, <4>1, StillOnce
    <3>4. CASE v = w /\ s = [group |-> g, phase |-> "kept"]
      <4>1. e.keep /\ e.group = g
        BY <1>3, <3>4
      <4>2. InOutput(g, v)'
        BY <1>3, <1>6, <3>4, <4>1, KeptSingle DEF InOutput
      <4>3. ~InSlot(g, v)'
        BY <1>7, <3>4 DEF InSlot
      <4>4. InSlot(g, v)
        BY <3>4 DEF InSlot
      <4>5. ~InReply(g, v)' /\ ~InReady(g)' /\ ~InBatch(g)' /\ Kept(ready, g)' = Kept(ready, g)
        BY <1>12, <2>1, <3>1, <4>4 DEF Once
      <4> QED  BY <3>1, <4>2, <4>3, <4>5 DEF Once
    <3>5. CASE v = w /\ s # [group |-> g, phase |-> "kept"]
      <4>1. InSlot(g, v)' <=> InSlot(g, v)
        BY <1>7, <3>5 DEF InSlot
      <4>2. ~(e.keep /\ e.group = g)
        BY <1>2, <1>3, <3>5
      <4>3. ~InOutput(g, v)'
        BY <1>3, <1>6, <3>5, <4>2, KeptSingle DEF InOutput
      <4>4. ~InOutput(g, v)
        BY <1>4, <3>5, KeptEmpty DEF InOutput
      <4> QED  BY <1>12, <2>1, <3>1, <3>2, <4>1, <4>3, <4>4, StillOnce
    <3> QED  BY <3>3, <3>4, <3>5
  <2> QED  BY <1>1, <2>1 DEF Conserved, queue
<1>14. Noticed' /\ Quiet'
  <2>1. Noticed'
    BY <1>1 DEF Noticed, calls, scheduler, manager
  <2>2. Quiet'
    BY <1>1, StillQuiet DEF Quiescent, Controlled, Pending, calls, scheduler, manager
  <2> QED  BY <2>1, <2>2
<1> QED  BY <1>8, <1>9, <1>10, <1>11, <1>13, <1>14

(* A generation raises and the other slots are cancelled.                     *)
LEMMA CrashStep == ASSUME IInv, NEW w \in Workers, NEW s \in slots[w], Crash(w, s) PROVE IInv'
<1> USE DEF IInv
<1>1. /\ slots' = [slots EXCEPT ![w] = {}] /\ faults' = [faults EXCEPT !["crash"] = faults["crash"] + 1]
      /\ UNCHANGED <<queue, alive, running, outputs, calls, scheduler, manager>>
  BY DEF Crash
<1>2. faults' \in [Fault -> Nat] /\ faults'["crash"] # 0
  <2>1. faults \in [Fault -> Nat] /\ "crash" \in Fault
    BY DEF TypeOK, Fault
  <2>2. faults["crash"] \in Nat /\ faults["crash"] + 1 # 0
    BY <2>1
  <2> QED  BY <1>1, <2>1, <2>2
<1>3. /\ slots' \in [Workers -> SUBSET Slotted] /\ slots'[w] = {}
      /\ \A v \in Workers : v # w => slots'[v] = slots[v]
  BY <1>1, SlotChanges
<1>4. TypeOK'
  BY <1>1, <1>2, <1>3 DEF TypeOK, queue, calls, scheduler, manager
<1>5. Owned'
  BY <1>1 DEF Owned, OneOwner, queue
<1>6. Worked'
  <2>1. \A v \in Workers : slots'[v] \subseteq slots[v]
    BY <1>3
  <2>2. \A v \in Workers : ~alive[v] => slots'[v] = {} /\ outputs[v] = <<>>
    BY <1>3 DEF Worked
  <2> QED  BY <1>1, <2>1, <2>2 DEF Worked, queue
<1>7. Delivered'
  BY <1>1, StillDelivered DEF queue, calls, scheduler, manager
<1>8. Conserved'
  BY <1>2 DEF Conserved, Sound
<1>9. Noticed' /\ Quiet'
  <2>1. Noticed'
    BY <1>1 DEF Noticed, calls, scheduler, manager
  <2>2. Quiet'
    BY <1>1, StillQuiet DEF Quiescent, Controlled, Pending, calls, scheduler, manager
  <2> QED  BY <2>1, <2>2
<1> QED  BY <1>4, <1>5, <1>6, <1>7, <1>8, <1>9

(* A slot takes its next step.                                                *)
LEMMA SlotStep == ASSUME IInv, NEW w \in Workers, Slot(w) PROVE IInv'
BY BeginGenerationStep, AbortStep, CompleteStep, DiscardStep, PutStep, CrashStep DEF Slot

(* One request changes.                                                       *)
LEMMA RequestChanges ==
    ASSUME TypeOK, NEW w \in Workers,
           NEW r \in [at : Answer, item : Seq(Item)],
           request' = [request EXCEPT ![w] = r]
    PROVE  /\ request' \in [Workers -> [at : Answer, item : Seq(Item)]]
           /\ request'[w] = r /\ \A v \in Workers : v # w => request'[v] = request[v]
BY DEF TypeOK

(* next() takes the finished group.                                           *)
LEMMA NextTakesStep == ASSUME IInv, NEW w \in Workers, NextTakes(w) PROVE IInv'
<1> USE DEF IInv
<1> DEFINE e == outputs[w][1]
           r == [at |-> "item", item |-> <<e>>]
<1>1. /\ request[w].at \in {"waiting", "woken"} /\ outputs[w] # <<>>
      /\ request' = [request EXCEPT ![w] = [at |-> "item", item |-> <<Head(outputs[w])>>]]
      /\ outputs' = [outputs EXCEPT ![w] = Tail(outputs[w])]
      /\ UNCHANGED <<queue, alive, running, producer, slots, faults, control, scheduler, manager>>
  BY DEF NextTakes
<1>2. /\ Len(outputs[w]) = 1 /\ DOMAIN outputs[w] = {1} /\ e \in Item /\ Head(outputs[w]) = e /\ Tail(outputs[w]) = <<>>
  <2>1. outputs[w] \in Seq(Item) /\ Len(outputs[w]) <= 1
    BY DEF TypeOK, Delivered
  <2> QED  BY <1>1, <2>1, Single
<1>3. request[w].item = <<>>
  BY <1>1 DEF Delivered
<1>4. <<e>> \in Seq(Item) /\ Len(<<e>>) = 1 /\ DOMAIN <<e>> = {1} /\ <<e>>[1] = e
  BY <1>2
<1>5. request' = [request EXCEPT ![w] = r] /\ r.at = "item" /\ r.item = <<e>>
  BY <1>1, <1>2
<1>6. /\ r \in [at : Answer, item : Seq(Item)]
  BY <1>4 DEF Answer
<1> HIDE DEF r
<1>7. /\ request' \in [Workers -> [at : Answer, item : Seq(Item)]]
      /\ request'[w] = r /\ \A v \in Workers : v # w => request'[v] = request[v]
  BY <1>5, <1>6, RequestChanges
<1>8. /\ outputs' \in [Workers -> Seq(Item)] /\ outputs'[w] = <<>>
      /\ \A v \in Workers : v # w => outputs'[v] = outputs[v]
  BY <1>1, <1>2, Empty DEF TypeOK
<1>9. \A g : Kept(<<e>>, g) = Kept(outputs[w], g)
  BY <1>2, <1>4 DEF Kept
<1>10. Own(<<e>>, accepted[w], rejected)
  BY <1>2, <1>4 DEF Own, Delivered
<1> HIDE DEF e
<1>11. TypeOK'
  BY <1>1, <1>7, <1>8 DEF TypeOK, queue, scheduler, manager
<1>12. Owned'
  BY <1>1 DEF Owned, OneOwner, queue
<1>13. Worked'
  BY <1>1, <1>8 DEF Worked, queue
<1>14. Delivered'
  <2>1. \A v \in Workers : Len(outputs'[v]) <= 1 /\ Own(outputs'[v], accepted[v], rejected)
    BY <1>8, Empty DEF Delivered
  <2>2. ASSUME NEW v \in Workers
        PROVE  /\ Len(request'[v].item) <= 1 /\ Own(request'[v].item, accepted[v], rejected)
               /\ request'[v].at # "item" => request'[v].item = <<>>
    <3>1. CASE v = w
      <4>1. request'[v].item = <<e>> /\ request'[v].at = "item"
        BY <1>5, <1>7, <3>1
      <4>2. Len(<<e>>) <= 1
        BY <1>4
      <4> QED  BY <1>10, <3>1, <4>1, <4>2
    <3>2. CASE v # w
      BY <1>7, <3>2 DEF Delivered
    <3> QED  BY <3>1, <3>2
  <2> QED  BY <1>1, <2>1, <2>2 DEF Delivered, Published, queue, scheduler, manager
<1>15. Conserved'
  <2>1. \A g : /\ Kept(ready, g)' = Kept(ready, g) /\ (InReady(g)' <=> InReady(g)) /\ (InBatch(g)' <=> InBatch(g))
               /\ \A v \in Workers : InSlot(g, v)' <=> InSlot(g, v)
    BY <1>1 DEF InReady, InBatch, InSlot, Kept, scheduler, manager
  <2>2. ASSUME Sound', NEW v \in Workers, NEW g \in accepted[v] PROVE Once(g, v)'
    <3>1. Once(g, v)
      BY <1>1, <2>2 DEF Conserved, Sound, scheduler
    <3>2. w \in Workers /\ UNCHANGED <<usable, alive>>
      BY <1>1 DEF scheduler
    <3>3. CASE v # w
      <4>1. (InReply(g, v)' <=> InReply(g, v)) /\ (InOutput(g, v)' <=> InOutput(g, v))
        BY <1>7, <1>8, <2>2, <3>3 DEF InReply, InOutput
      <4> QED  BY <2>1, <2>2, <3>1, <3>2, <4>1, StillOnce
    <3>4. CASE v = w
      <4>1. ~InOutput(g, v)' /\ (InReply(g, v)' <=> InOutput(g, v)) /\ ~InReply(g, v)
        BY <1>3, <1>5, <1>7, <1>8, <1>9, <3>4, KeptEmpty DEF InOutput, InReply
      <4> QED  BY <2>1, <2>2, <3>1, <3>2, <4>1 DEF Once
    <3> QED  BY <3>3, <3>4
  <2> QED  BY <1>1, <2>2 DEF Conserved, queue
<1>16. Noticed'
  <2>1. \A v \in Workers : request'[v].at = "dead" => request[v].at = "dead"
    BY <1>5, <1>7
  <2> QED  BY <1>1, <2>1 DEF Noticed, scheduler, manager
<1>17. Quiet'
  <2>1. ~Quiescent
    BY <1>1, NoCalls
  <2> QED  BY <1>1, <2>1, StillQuiet DEF scheduler, manager
<1> QED  BY <1>11, <1>12, <1>13, <1>14, <1>15, <1>16, <1>17

(* A request moves on without an item.                                        *)
LEMMA Answers ==
    ASSUME IInv, NEW w \in Workers, NEW x \in {"woken", "drained", "raised", "invalid state"},
           request[w].at \in {"waiting", "woken"}, request' = [request EXCEPT ![w].at = x],
           UNCHANGED <<queue, actors, control, scheduler, manager>>
    PROVE  IInv'
<1> USE DEF IInv
<1>1. /\ request' \in [Workers -> [at : Answer, item : Seq(Item)]]
      /\ request'[w].at = x /\ request'[w].item = request[w].item
      /\ \A v \in Workers : v # w => request'[v] = request[v]
  BY DEF TypeOK, Answer
<1>2. TypeOK'
  BY <1>1 DEF TypeOK, Answer, queue, actors, scheduler, manager
<1>3. Owned' /\ Worked' /\ Delivered' /\ Conserved'
  <2>1. request[w].item = <<>>
    BY DEF Delivered
  <2>2. ASSUME NEW v \in Workers
        PROVE  request'[v].item = request[v].item /\ (request'[v].at # "item" => request'[v].item = <<>>)
    <3>1. CASE v = w
      BY <1>1, <2>1, <3>1
    <3>2. CASE v # w
      BY <1>1, <3>2 DEF Delivered
    <3> QED  BY <3>1, <3>2
  <2> QED  BY <2>2, Calm DEF Sound, actors, scheduler, manager
<1>4. Noticed'
  <2>1. \A v \in Workers : request'[v].at = "dead" => request[v].at = "dead"
    BY <1>1
  <2> QED  BY <2>1 DEF Noticed, actors, scheduler, manager
<1>5. Quiet'
  <2>1. ~Quiescent
    BY NoCalls
  <2> QED  BY <2>1, StillQuiet DEF scheduler, manager
<1> QED  BY <1>2, <1>3, <1>4, <1>5

(* next() is woken by the end of its producer.                                *)
LEMMA NextWokenStep == ASSUME IInv, NEW w \in Workers, NextWoken(w) PROVE IInv'
BY Answers DEF NextWoken

(* next() returns without an item.                                            *)
LEMMA NextReturnsStep == ASSUME IInv, NEW w \in Workers, NextReturns(w) PROVE IInv'
<1>1. NextReply(producer[w]) \in {"woken", "drained", "raised", "invalid state"}
  BY DEF NextReply
<1> QED  BY <1>1, Answers DEF NextReturns

(* An actor takes its next step.                                              *)
LEMMA ActorStep == ASSUME IInv, NEW w \in Workers, Actor(w) PROVE IInv'
BY FetchStep, SlotStep, ProducerEndsStep, PauseRunsStep, StartRunsStep, NextTakesStep, NextWokenStep,
   NextReturnsStep DEF Actor

(* An actor dies with what it holds.                                          *)
LEMMA DiesStep == ASSUME IInv, NEW w \in Workers, Dies(w) PROVE IInv'
<1> USE DEF IInv
<1> DEFINE c == IF control[w].to # <<>> /\ control[w].reply = "none" THEN "dead" ELSE control[w].reply
           x == IF request[w].at \in {"waiting", "woken"} THEN "dead" ELSE request[w].at
<1>1. /\ alive[w] /\ alive' = [alive EXCEPT ![w] = FALSE] /\ running' = [running EXCEPT ![w] = FALSE]
      /\ slots' = [slots EXCEPT ![w] = {}] /\ outputs' = [outputs EXCEPT ![w] = <<>>]
      /\ faults' = [faults EXCEPT !["death"] = faults["death"] + 1]
      /\ control' = [control EXCEPT ![w].reply = c] /\ request' = [request EXCEPT ![w].at = x]
      /\ UNCHANGED <<queue, scheduler, manager>>
  BY DEF Dies
<1>2. c \in {"none", "ok", "raised", "dead"} /\ x \in Answer
  <2>1. control[w].reply \in {"none", "ok", "raised", "dead"} /\ request[w].at \in Answer
    BY DEF TypeOK, Answer
  <2> QED  BY <2>1 DEF Answer
<1>3. /\ Quiescent => c = control[w].reply /\ x = request[w].at
      /\ x = "item" <=> request[w].at = "item"
  BY NoCalls
<1> HIDE DEF c, x
<1>4. /\ control' \in [Workers -> [to : To, reply : {"none", "ok", "raised", "dead"}]]
      /\ control'[w] = [control[w] EXCEPT !.reply = c]
      /\ \A v \in Workers : v # w => control'[v] = control[v]
  BY <1>1, <1>2 DEF TypeOK
<1>5. /\ request' \in [Workers -> [at : Answer, item : Seq(Item)]]
      /\ request'[w] = [request[w] EXCEPT !.at = x]
      /\ \A v \in Workers : v # w => request'[v] = request[v]
  BY <1>1, <1>2 DEF TypeOK, Answer
<1>6. /\ slots' \in [Workers -> SUBSET Slotted] /\ slots'[w] = {}
      /\ \A v \in Workers : v # w => slots'[v] = slots[v]
  BY <1>1, SlotChanges
<1>7. /\ outputs' \in [Workers -> Seq(Item)] /\ outputs'[w] = <<>>
      /\ \A v \in Workers : v # w => outputs'[v] = outputs[v]
  BY <1>1, Empty DEF TypeOK
<1>8. /\ alive' \in [Workers -> BOOLEAN] /\ ~alive'[w] /\ \A v \in Workers : v # w => alive'[v] = alive[v]
      /\ running' \in [Workers -> BOOLEAN]
  BY <1>1 DEF TypeOK
<1>9. faults' \in [Fault -> Nat] /\ faults'["crash"] = faults["crash"]
  <2>1. faults \in [Fault -> Nat] /\ "death" \in Fault /\ "crash" \in Fault
    BY DEF TypeOK, Fault
  <2> QED  BY <1>1, <2>1
<1>10. TypeOK'
  BY <1>1, <1>4, <1>5, <1>6, <1>7, <1>8, <1>9 DEF TypeOK, Answer, queue, scheduler, manager
<1>11. Owned'
  BY <1>1 DEF Owned, OneOwner, queue
<1>12. Worked'
  <2>1. \A v \in Workers : slots'[v] \subseteq slots[v]
    BY <1>6
  <2>2. ASSUME NEW v \in Workers, ~alive'[v] PROVE slots'[v] = {} /\ outputs'[v] = <<>>
    BY <1>6, <1>7, <1>8, <2>2 DEF Worked
  <2> QED  BY <1>1, <2>1, <2>2 DEF Worked, queue
<1>13. \A v \in Workers : request'[v].item = request[v].item /\ (request'[v].at # "item" => request[v].at # "item")
  <2>1. request[w] \in [at : Answer, item : Seq(Item)]
    BY DEF TypeOK, Answer
  <2>2. request'[w].item = request[w].item /\ request'[w].at = x
    BY <1>5, <2>1
  <2> QED  BY <1>3, <1>5, <2>2
<1>14. Delivered'
  <2>1. ASSUME NEW v \in Workers PROVE Len(outputs'[v]) <= 1 /\ Own(outputs'[v], accepted[v], rejected)
    <3>1. CASE v = w
      <4>1. 0 <= 1
        OBVIOUS
      <4> QED  BY <1>7, <3>1, <4>1, Empty
    <3>2. CASE v # w
      BY <1>7, <3>2 DEF Delivered
    <3> QED  BY <3>1, <3>2
  <2>2. ASSUME NEW v \in Workers
        PROVE  /\ Len(request'[v].item) <= 1 /\ Own(request'[v].item, accepted[v], rejected)
               /\ request'[v].at # "item" => request'[v].item = <<>>
    BY <1>13 DEF Delivered
  <2> QED  BY <1>1, <2>1, <2>2 DEF Delivered, Published, queue, scheduler, manager
<1>15. Conserved'
  <2>1. \A g : /\ Kept(ready, g)' = Kept(ready, g) /\ (InReady(g)' <=> InReady(g)) /\ (InBatch(g)' <=> InBatch(g))
               /\ \A v \in Workers : InReply(g, v)' <=> InReply(g, v)
    BY <1>1, <1>13 DEF InReady, InBatch, InReply, Kept, scheduler, manager
  <2>2. ASSUME Sound', NEW v \in Workers, NEW g \in accepted[v] PROVE Once(g, v)'
    <3>1. Once(g, v)
      BY <1>1, <1>9, <2>2 DEF Conserved, Sound, scheduler
    <3>2. CASE v # w
      <4>1. (InSlot(g, v)' <=> InSlot(g, v)) /\ (InOutput(g, v)' <=> InOutput(g, v))
        BY <1>6, <1>7, <2>2, <3>2 DEF InSlot, InOutput
      <4>2. w \in Workers /\ UNCHANGED usable /\ alive'[v] = alive[v]
        BY <1>1, <1>8, <2>2, <3>2 DEF scheduler
      <4> QED  BY <2>1, <2>2, <3>1, <4>1, <4>2, StillOnce
    <3>3. CASE v = w
      <4>1. ~InSlot(g, v)' /\ ~InOutput(g, v)'
        BY <1>6, <1>7, <3>3, KeptEmpty DEF InSlot, InOutput
      <4>2. v \in usable' /\ ~alive'[v]
        BY <1>1, <1>8, <3>3 DEF Noticed, scheduler
      <4> QED  BY <2>1, <2>2, <3>1, <4>1, <4>2 DEF Once
    <3> QED  BY <3>2, <3>3
  <2> QED  BY <1>1, <2>2 DEF Conserved, queue
<1>16. Noticed'
  <2>1. ASSUME NEW v \in Workers, control'[v].reply = "dead" \/ request'[v].at = "dead" \/ v \notin usable' PROVE ~alive'[v]
    BY <1>1, <1>4, <1>5, <1>8, <2>1 DEF Noticed, scheduler
  <2> QED  BY <1>1, <2>1 DEF Noticed, scheduler, manager
<1>17. Quiet'
  <2>1. ASSUME Quiescent PROVE Quiescent'
    <3>1. control[w] = NoControl /\ request[w] = NoRequest
      BY <2>1, NoCalls
    <3>2. control'[w] = control[w] /\ request'[w] = request[w]
      BY <1>3, <1>4, <1>5, <2>1, <3>1 DEF NoControl, NoRequest
    <3>3. \A v \in Workers : control'[v] = control[v] /\ request'[v] = request[v]
      BY <1>4, <1>5, <3>2
    <3> QED  BY <1>1, <2>1, <3>3 DEF Quiescent, Controlled, Pending, scheduler
  <2> QED  BY <1>1, <2>1, StillQuiet DEF scheduler, manager
<1> QED  BY <1>10, <1>11, <1>12, <1>14, <1>15, <1>16, <1>17

-----------------------------------------------------------------------------
(* The collector: controls, requests and answers *)

(* Items that come after others: none of g, or the only ones of g.            *)
LEMMA KeptAdded ==
    ASSUME NEW s \in Seq(Item), NEW t \in Seq(Item), NEW g
    PROVE  /\ Kept(t, g) = {} => Kept(s \o t, g) = Kept(s, g)
           /\ Kept(s, g) = {} /\ Kept(t, g) # {} => Kept(s \o t, g) # {}
           /\ Kept(s, g) = {} /\ (\A i, j \in Kept(t, g) : i = j) => \A i, j \in Kept(s \o t, g) : i = j
<1> DEFINE st == Kept(s \o t, g)
           a == Kept(s, g)
           b == Kept(t, g)
<1>1. \A i : i \in st <=> i \in a \/ (i \in Nat /\ i > Len(s) /\ i - Len(s) \in b)
  BY KeptConcat
<1>2. Len(s) \in Nat /\ b \subseteq Nat \ {0}
  <2>1. DOMAIN t = 1..Len(t) /\ Len(t) \in Nat
    OBVIOUS
  <2> QED  BY <2>1 DEF Kept
<1> HIDE DEF st, a, b
<1>3. b = {} => st = a
  BY <1>1
<1>4. a = {} /\ b # {} => st # {}
  <2>1. ASSUME NEW j \in b PROVE j + Len(s) \in st
    <3>1. j + Len(s) \in Nat /\ j + Len(s) > Len(s) /\ (j + Len(s)) - Len(s) = j
      BY <1>2
    <3> QED  BY <1>1, <3>1
  <2> QED  BY <2>1
<1>5. ASSUME a = {}, \A i, j \in b : i = j, NEW i \in st, NEW j \in st PROVE i = j
  <2>1. i \in Nat /\ j \in Nat /\ i - Len(s) \in b /\ j - Len(s) \in b
    BY <1>1, <1>5
  <2>2. i - Len(s) = j - Len(s)
    BY <1>5, <2>1
  <2> QED  BY <1>2, <2>1, <2>2
<1> QED  BY <1>3, <1>4, <1>5 DEF st, a, b

(* Both parts of a sequence are accounted for.                                *)
LEMMA OwnConcat ==
    ASSUME NEW s \in Seq(Item), NEW t \in Seq(Item), NEW kept, NEW dropped, Own(s, kept, dropped), Own(t, kept, dropped)
    PROVE  Own(s \o t, kept, dropped)
<1>1. /\ Len(s) \in Nat /\ Len(t) \in Nat /\ DOMAIN s = 1..Len(s) /\ DOMAIN t = 1..Len(t)
      /\ DOMAIN (s \o t) = 1..(Len(s) + Len(t))
      /\ \A i \in 1..(Len(s) + Len(t)) : (s \o t)[i] = IF i <= Len(s) THEN s[i] ELSE t[i - Len(s)]
  OBVIOUS
<1> DEFINE st == s \o t
<1>2. /\ DOMAIN st = 1..(Len(s) + Len(t))
      /\ \A i \in 1..(Len(s) + Len(t)) : st[i] = IF i <= Len(s) THEN s[i] ELSE t[i - Len(s)]
  BY <1>1
<1> HIDE DEF st
<1>3. ASSUME NEW i \in DOMAIN st
      PROVE  IF st[i].keep THEN st[i].group \in kept ELSE st[i].group \in dropped
  <2>1. CASE i <= Len(s)
    <3>1. i \in DOMAIN s /\ st[i] = s[i]
      BY <1>1, <1>2, <1>3, <2>1
    <3> QED  BY <3>1 DEF Own
  <2>2. CASE ~(i <= Len(s))
    <3>1. i - Len(s) \in DOMAIN t /\ st[i] = t[i - Len(s)]
      BY <1>1, <1>2, <1>3, <2>2
    <3> QED  BY <3>1 DEF Own
  <2> QED  BY <2>1, <2>2
<1>4. Own(st, kept, dropped)
  BY <1>3 DEF Own
<1> QED  BY <1>4 DEF st

(* Controls and requests are sent.                                            *)
LEMMA DispatchStep == ASSUME IInv, Dispatch PROVE IInv'
<1> USE DEF IInv
<1>1. UNCHANGED <<queue, actors, ready, collecting, runningWorkers, usable, demand, prefetch, rolloutId, paused, error, manager>>
  BY DEF Dispatch
<1> DEFINE told == Stale \ Settled
<1>2. control' = [w \in Workers |-> IF w \in told THEN [to |-> Desired, reply |-> IF alive[w] THEN "none" ELSE "dead"]
                                                  ELSE control[w]]
  BY DEF Dispatch
<1>3. PICK W \in SUBSET (runningWorkers \ Pending) :
        request' = [w \in Workers |-> IF w \in W THEN [at |-> IF alive[w] THEN "waiting" ELSE "dead", item |-> <<>>]
                                                 ELSE request[w]]
  BY DEF Dispatch, kSubset
<1>4. Quiescent => told = {} /\ W = {}
  BY DEF Quiescent, Settled, Stale
<1> HIDE DEF told
<1>5. Desired \in To
  BY DEF Desired, To, TypeOK
<1>6. \A w \in Workers :
         /\ control'[w] \in [to : To, reply : {"none", "ok", "raised", "dead"}]
         /\ control'[w].reply = "dead" => ~alive[w] \/ control[w].reply = "dead"
         /\ w \notin told => control'[w] = control[w]
  <2>1. ASSUME NEW w \in Workers, w \in told
        PROVE  /\ control'[w] \in [to : To, reply : {"none", "ok", "raised", "dead"}]
               /\ control'[w].reply = "dead" => ~alive[w]
    BY <1>2, <1>5, <2>1
  <2>2. ASSUME NEW w \in Workers, w \notin told
        PROVE control'[w] = control[w] /\ control[w] \in [to : To, reply : {"none", "ok", "raised", "dead"}]
    BY <1>2, <2>2 DEF TypeOK
  <2> QED  BY <2>1, <2>2
<1>7. \A w \in Workers :
         /\ request'[w] \in [at : Answer, item : Seq(Item)]
         /\ request'[w].at = "dead" => ~alive[w] \/ request[w].at = "dead"
         /\ request'[w].item = request[w].item /\ (request'[w].at # "item" => request'[w].item = <<>>)
         /\ w \notin W => request'[w] = request[w]
  <2>1. ASSUME NEW w \in Workers, w \in W
        PROVE  /\ request'[w] \in [at : Answer, item : Seq(Item)]
               /\ request'[w].at = "dead" => ~alive[w]
               /\ request'[w].item = request[w].item /\ request'[w].item = <<>>
    <3>1. request[w] = NoRequest
      BY <2>1 DEF Pending
    <3>2. request'[w] = [at |-> IF alive[w] THEN "waiting" ELSE "dead", item |-> <<>>]
      BY <1>3, <2>1
    <3> QED  BY <3>1, <3>2, Empty DEF NoRequest, Answer
  <2>2. ASSUME NEW w \in Workers, w \notin W
        PROVE  /\ request'[w] = request[w] /\ request[w] \in [at : Answer, item : Seq(Item)]
               /\ request[w].at # "item" => request[w].item = <<>>
    BY <1>3, <2>2 DEF TypeOK, Delivered
  <2> QED  BY <2>1, <2>2
<1>8. TypeOK'
  <2>1. control' \in [Workers -> [to : To, reply : {"none", "ok", "raised", "dead"}]]
    BY <1>2, <1>6
  <2>2. request' \in [Workers -> [at : Answer, item : Seq(Item)]]
    BY <1>3, <1>7
  <2> QED  BY <1>1, <2>1, <2>2 DEF TypeOK, queue, actors, manager
<1>9. Owned' /\ Worked' /\ Delivered' /\ Conserved'
  BY <1>1, <1>7, Calm DEF Sound, actors, manager
<1>10. Noticed'
  BY <1>1, <1>6, <1>7 DEF Noticed, actors, manager
<1>11. Quiet'
  <2>1. ASSUME Quiescent PROVE Quiescent'
    <3>1. \A v \in Workers : control'[v] = control[v] /\ request'[v] = request[v]
      BY <1>4, <1>6, <1>7, <2>1
    <3> QED  BY <1>1, <2>1, <3>1 DEF Quiescent, Controlled, Pending
  <2> QED  BY <1>1, <2>1, StillQuiet DEF manager
<1> QED  BY <1>8, <1>9, <1>10, <1>11

(* The wait times out.                                                        *)
LEMMA WaitEndsStep == ASSUME IInv, WaitEnds PROVE IInv'
<1> USE DEF IInv
<1>1. UNCHANGED <<queue, actors, calls, ready, collecting, configurations, runningWorkers,
                  usable, demand, prefetch, rolloutId, paused, error, manager>>
  BY DEF WaitEnds
<1>2. TypeOK'
  BY <1>1 DEF TypeOK, queue, actors, calls, manager
<1>3. Owned' /\ Worked' /\ Delivered' /\ Conserved'
  <2>1. \A v \in Workers : request[v].at # "item" => request[v].item = <<>>
    BY DEF Delivered
  <2> QED  BY <1>1, <2>1, Calm DEF Sound, actors, calls, manager
<1>4. Noticed'
  BY <1>1 DEF Noticed, actors, calls, manager
<1>5. Quiet'
  BY <1>1, StillQuiet DEF Quiescent, Controlled, Pending, calls, manager
<1> QED  BY <1>2, <1>3, <1>4, <1>5

(* The collector ends with an error.                                          *)
LEMMA EndsStep ==
    ASSUME IInv, Ends, error' = TRUE,
           UNCHANGED <<queue, actors, ready, collecting, usable, rolloutId, paused, manager>>
    PROVE  IInv'
<1> USE DEF IInv
<1>1. /\ control' = [w \in Workers |-> NoControl] /\ request' = [w \in Workers |-> NoRequest] /\ runningWorkers' = {}
  BY DEF Ends
<1>2. \A w \in Workers : /\ control'[w] = NoControl /\ control'[w].reply = "none"
                         /\ request'[w] = NoRequest /\ request'[w].item = <<>> /\ request'[w].at = "none"
  BY <1>1 DEF NoControl, NoRequest
<1>3. TypeOK'
  <2>1. control' \in [Workers -> [to : To, reply : {"none", "ok", "raised", "dead"}]]
    BY <1>1, Empty DEF NoControl
  <2>2. request' \in [Workers -> [at : Answer, item : Seq(Item)]]
    BY <1>1, Empty DEF NoRequest, Answer
  <2>3. error' \in BOOLEAN /\ runningWorkers' \subseteq Workers
    BY <1>1
  <2> QED  BY <2>1, <2>2, <2>3 DEF TypeOK, queue, actors, manager
<1>4. Owned' /\ Worked' /\ Delivered' /\ Conserved'
  <2>1. ~Sound'
    BY DEF Sound
  <2> QED  BY <1>2, <2>1, Calm DEF actors, manager
<1>5. Noticed'
  BY <1>2 DEF Noticed, actors, manager
<1>6. Quiet'
  <2>1. Quiescent => Quiescent'
    BY <1>1, <1>2 DEF Quiescent, Controlled, Pending
  <2> QED  BY <2>1, StillQuiet DEF manager
<1> QED  BY <1>3, <1>4, <1>5, <1>6

(* The collector leaves when the manager has closed it.                       *)
LEMMA CollectorStopsStep == ASSUME IInv, CollectorStops PROVE IInv'
<1>1. error' = TRUE
  BY DEF CollectorStops, IInv, Noticed, TypeOK
<1> QED  BY <1>1, EndsStep DEF CollectorStops

-----------------------------------------------------------------------------
(* The retirement of a worker *)

(* The items that its retirement delivers.                                    *)
Late(w) == [i \in 1..Cardinality(Recovered(w)) |-> [group |-> SetToSeq(Recovered(w))[i], keep |-> TRUE]]

(* They are the results that nobody has received, each once.                  *)
LEMMA LateItems ==
    ASSUME TypeOK, NEW w \in Workers
    PROVE  /\ Late(w) \in Seq(Item) /\ Own(Late(w), accepted[w], rejected)
           /\ \A g : g \notin Recovered(w) => Kept(Late(w), g) = {}
           /\ \A g \in Recovered(w) : Kept(Late(w), g) # {}
           /\ \A g : \A i, j \in Kept(Late(w), g) : i = j
<1> DEFINE R == Recovered(w)
           n == Cardinality(R)
           q == SetToSeq(R)
           t == [i \in 1..n |-> [group |-> q[i], keep |-> TRUE]]
<1>1. R \in SUBSET Group /\ R \subseteq accepted[w]
  BY DEF Recovered, TypeOK
<1> HIDE DEF R
<1>2. /\ n \in Nat /\ q \in [1..n -> R]
      /\ \A i, j \in 1..n : q[i] = q[j] => i = j
      /\ \A g \in R : \E i \in 1..n : q[i] = g
  BY <1>1, Enumerated
<1> HIDE DEF n, q
<1>3. \A i \in 1..n : [group |-> q[i], keep |-> TRUE] \in Item /\ q[i] \in R
  BY <1>1, <1>2 DEF Item
<1>4. DOMAIN t = 1..n /\ \A i \in 1..n : t[i].keep = TRUE /\ t[i].group = q[i]
  OBVIOUS
<1>5. t \in Seq(Item)
  <2>1. t \in [1..n -> Item]
    BY <1>3
  <2> HIDE DEF t
  <2> QED  BY <1>2, <2>1
<1> HIDE DEF t
<1>6. \A i \in DOMAIN t : t[i].keep /\ t[i].group \in R
  BY <1>3, <1>4
<1>7. Own(t, accepted[w], rejected)
  BY <1>1, <1>6 DEF Own
<1>8. \A g : g \notin R => Kept(t, g) = {}
  BY <1>6 DEF Kept
<1>9. \A g \in R : Kept(t, g) # {}
  BY <1>2, <1>4 DEF Kept
<1>10. \A g : \A i, j \in Kept(t, g) : i = j
  BY <1>2, <1>4 DEF Kept
<1>11. t = Late(w)
  BY DEF t, n, q, R, Late
<1> QED  BY <1>5, <1>7, <1>8, <1>9, <1>10, <1>11 DEF R

(* What has been received of a reader's results.                              *)
LEMMA NotRecovered ==
    ASSUME NEW w \in Workers, NEW g \in accepted[w], OneOwner(g), Own(ready, Published, rejected)
    PROVE  /\ g \in Recovered(w) => ~InReady(g) /\ ~InBatch(g)
           /\ g \notin Recovered(w) => InReady(g) \/ InBatch(g)
<1> DEFINE G == ToSet([i \in DOMAIN ready |-> ready[i].group])
<1>1. g \in G <=> \E i \in DOMAIN ready : ready[i].group = g
  BY DEF ToSet
<1>2. g \in Recovered(w) <=> g \notin G /\ ~InBatch(g)
  BY DEF Recovered, InBatch
<1> HIDE DEF G
<1>3. g \notin rejected
  BY DEF OneOwner
<1>4. InReady(g) <=> g \in G
  BY <1>1, <1>3 DEF InReady, Kept, Own
<1> QED  BY <1>2, <1>4

(* A dead worker is retired: its leases end and its results are delivered.    *)
LEMMA Retired ==
    ASSUME IInv, NEW w \in Workers, ~alive[w], Retire(w), UNCHANGED <<accepted, rejected, actors, collecting, processed>>,
           request'[w] = NoRequest, Sound' => Sound,
           \A v \in Workers : v # w => request'[v] = request[v] \/ (request'[v] = NoRequest /\ ~Sound')
    PROVE  /\ open' \subseteq Group /\ leased' \in [Workers -> SUBSET Group] /\ ready' \in Seq(Item) /\ usable' \subseteq Workers
           /\ Owned' /\ Worked' /\ Delivered' /\ Conserved'
<1> USE DEF IInv
<1>1. /\ usable' = usable \ {w} /\ leased' = [leased EXCEPT ![w] = {}] /\ open' = open \cup leased[w]
      /\ ready' = ready \o Late(w)
  BY DEF Retire, Late
<1>2. /\ Late(w) \in Seq(Item) /\ Own(Late(w), accepted[w], rejected)
      /\ \A g : g \notin Recovered(w) => Kept(Late(w), g) = {}
      /\ \A g \in Recovered(w) : Kept(Late(w), g) # {}
      /\ \A g : \A i, j \in Kept(Late(w), g) : i = j
  BY LateItems
<1>3. ready \in Seq(Item)
  BY DEF TypeOK
<1>4. /\ leased' \in [Workers -> SUBSET Group] /\ leased'[w] = {}
      /\ \A v \in Workers : v # w => leased'[v] = leased[v]
  BY <1>1 DEF TypeOK
<1>5. /\ open' \subseteq Group /\ ready' \in Seq(Item) /\ usable' \subseteq Workers
  <2>1. ready \o Late(w) \in Seq(Item)
    BY <1>2, <1>3
  <2> QED  BY <1>1, <2>1 DEF TypeOK
<1>6. Owned'
  <2>1. ASSUME NEW g \in Group PROVE OneOwner(g)'
    <3>1. OneOwner(g)
      BY DEF Owned
    <3>2. CASE g \in leased[w]
      BY <1>1, <1>4, <3>1, <3>2 DEF OneOwner
    <3>3. CASE g \notin leased[w]
      <4>1. \A v \in Workers : g \in leased'[v] <=> g \in leased[v]
        BY <1>4, <3>3
      <4> QED  BY <1>1, <3>1, <3>3, <4>1, OwnerStays
    <3> QED  BY <3>2, <3>3
  <2> QED  BY <2>1 DEF Owned
<1>7. slots[w] = {} /\ outputs[w] = <<>>
  BY DEF Worked
<1>8. Worked'
  <2>1. ASSUME NEW v \in Workers, NEW s \in slots[v] PROVE leased'[v] = leased[v]
    BY <1>4, <1>7, <2>1
  <2>2. UNCHANGED <<slots, alive, outputs, accepted, rejected>>
    BY DEF actors
  <2> QED  BY <2>1, <2>2 DEF Worked
<1>9. request'[w].item = <<>> /\ request'[w].at = "none"
  BY DEF NoRequest
<1>10. Delivered'
  <2>1. ASSUME NEW v \in Workers
        PROVE  /\ Len(request'[v].item) <= 1 /\ Own(request'[v].item, accepted[v], rejected)
               /\ request'[v].at # "item" => request'[v].item = <<>>
    <3>1. CASE request'[v] = NoRequest
      <4>1. request'[v].item = <<>> /\ 0 <= 1
        BY <3>1 DEF NoRequest
      <4> QED  BY <4>1, Empty
    <3>2. CASE request'[v] # NoRequest
      <4>1. request'[v] = request[v]
        BY <3>2
      <4> QED  BY <4>1 DEF Delivered
    <3> QED  BY <3>1, <3>2
  <2>2. Own(ready', Published, rejected)
    <3>1. Own(Late(w), Published, rejected)
      BY <1>2 DEF Own, Published
    <3>2. Own(ready, Published, rejected)
      BY DEF Delivered
    <3> QED  BY <1>1, <1>2, <1>3, <3>1, <3>2, OwnConcat
  <2>3. UNCHANGED <<outputs, accepted, rejected, collecting, processed>>
    BY DEF actors
  <2> QED  BY <2>1, <2>2, <2>3 DEF Delivered, Published
<1>11. \A g : /\ InBatch(g)' <=> InBatch(g)
              /\ \A v \in Workers : (InSlot(g, v)' <=> InSlot(g, v)) /\ (InOutput(g, v)' <=> InOutput(g, v))
  BY DEF InBatch, InSlot, InOutput, Kept, actors
<1>12. \A g : Kept(ready, g)' = Kept(ready', g)
  BY DEF Kept
<1>13. Conserved'
  <2>1. ASSUME Sound', NEW v \in Workers, NEW g \in accepted[v] PROVE Once(g, v)'
    <3>1. Once(g, v) /\ g \in Group /\ OneOwner(g)
      BY <2>1 DEF Conserved, Owned, TypeOK
    <3>2. CASE v # w
      <4>1. g \notin Recovered(w)
        BY <3>1, <3>2, <2>1 DEF OneOwner, Recovered
      <4>2. Kept(ready, g)' = Kept(ready, g)
        BY <1>1, <1>2, <1>3, <1>12, <4>1, KeptAdded
      <4>3. InReply(g, v)' <=> InReply(g, v)
        BY <2>1, <3>2 DEF InReply, Kept
      <4>4. v \notin usable' \/ alive'[v] => v \notin usable \/ alive[v]
        BY <1>1, <3>2 DEF actors
      <4> QED  BY <1>11, <2>1, <3>1, <4>2, <4>3, <4>4, StillOnce
    <3>3. CASE v = w
      <4>1. ~InSlot(g, v)' /\ ~InOutput(g, v)' /\ ~InReply(g, v)'
        BY <1>7, <1>9, <1>11, <3>3, KeptEmpty DEF InSlot, InOutput, InReply
      <4>2. /\ g \in Recovered(w) => ~InReady(g) /\ ~InBatch(g)
            /\ g \notin Recovered(w) => InReady(g) \/ InBatch(g)
        BY <2>1, <3>1, <3>3, NotRecovered DEF Delivered
      <4>3. CASE g \in Recovered(w)
        <5>1. Kept(ready, g) = {} /\ Kept(Late(w), g) # {}
          BY <1>2, <4>2, <4>3 DEF InReady
        <5>2. Kept(ready, g)' # {} /\ \A i, j \in Kept(ready, g)' : i = j
          BY <1>1, <1>2, <1>3, <1>12, <5>1, KeptAdded
        <5>3. InReady(g)' /\ ~InBatch(g)'
          BY <1>11, <4>2, <4>3, <5>2 DEF InReady
        <5> QED  BY <4>1, <5>2, <5>3 DEF Once
      <4>4. CASE g \notin Recovered(w)
        <5>1. Kept(ready, g)' = Kept(ready, g)
          BY <1>1, <1>2, <1>3, <1>12, <4>4, KeptAdded
        <5>2. InReady(g)' <=> InReady(g)
          BY <5>1 DEF InReady
        <5> QED  BY <1>11, <3>1, <4>1, <4>2, <4>4, <5>1, <5>2 DEF Once
      <4> QED  BY <4>3, <4>4
    <3> QED  BY <3>2, <3>3
  <2> QED  BY <2>1 DEF Conserved
<1> QED  BY <1>4, <1>5, <1>6, <1>8, <1>10, <1>13

-----------------------------------------------------------------------------
(* The collector: answers *)

(* The calls that are forgotten, and the others.                              *)
LEMMA Forgotten ==
    ASSUME TypeOK, NEW w \in Workers, Ends \/ ForgetWorker(w)
    PROVE  /\ control' \in [Workers -> [to : To, reply : {"none", "ok", "raised", "dead"}]]
           /\ request' \in [Workers -> [at : Answer, item : Seq(Item)]] /\ runningWorkers' \subseteq Workers
           /\ control'[w] = NoControl /\ request'[w] = NoRequest
           /\ \A v \in Workers : control'[v] = control[v] \/ control'[v] = NoControl
           /\ \A v \in Workers : request'[v] = request[v] \/ request'[v] = NoRequest
           /\ ForgetWorker(w) => \A v \in Workers : v # w => request'[v] = request[v]
<1>1. NoControl \in [to : To, reply : {"none", "ok", "raised", "dead"}]
  BY Empty DEF NoControl
<1>2. NoRequest \in [at : Answer, item : Seq(Item)]
  BY Empty DEF NoRequest, Answer
<1>3. CASE Ends /\ ~ForgetWorker(w)
  <2>1. control' = [v \in Workers |-> NoControl] /\ request' = [v \in Workers |-> NoRequest] /\ runningWorkers' = {}
    BY <1>3 DEF Ends
  <2> QED  BY <1>1, <1>2, <1>3, <2>1
<1>4. CASE ForgetWorker(w)
  <2>1. /\ runningWorkers' = runningWorkers \ {w}
        /\ control' = [control EXCEPT ![w] = NoControl] /\ request' = [request EXCEPT ![w] = NoRequest]
    BY <1>4 DEF ForgetWorker
  <2>2. /\ control' \in [Workers -> [to : To, reply : {"none", "ok", "raised", "dead"}]] /\ control'[w] = NoControl
        /\ \A v \in Workers : v # w => control'[v] = control[v]
    BY <1>1, <2>1 DEF TypeOK
  <2>3. /\ request' \in [Workers -> [at : Answer, item : Seq(Item)]] /\ request'[w] = NoRequest
        /\ \A v \in Workers : v # w => request'[v] = request[v]
    BY <1>2, <2>1 DEF TypeOK
  <2>4. runningWorkers' \subseteq Workers
    BY <2>1 DEF TypeOK
  <2> QED  BY <2>2, <2>3, <2>4
<1> QED  BY <1>3, <1>4

(* The collector retires a worker.                                            *)
LEMMA CollectorRetiresStep ==
    ASSUME IInv, NEW w \in Workers, ~alive[w], ~Quiescent, CollectorRetires(w), UNCHANGED HandlerFrame
    PROVE  IInv'
<1> USE DEF IInv
<1>1. UNCHANGED <<accepted, rejected, actors, collecting, rolloutId, paused, manager>>
  BY DEF HandlerFrame
<1>2. Retire(w) /\ ((Ends /\ error' = TRUE) \/ (ForgetWorker(w) /\ error' = error))
  BY DEF CollectorRetires
<1>3. /\ control' \in [Workers -> [to : To, reply : {"none", "ok", "raised", "dead"}]]
      /\ request' \in [Workers -> [at : Answer, item : Seq(Item)]] /\ runningWorkers' \subseteq Workers
      /\ request'[w] = NoRequest
      /\ \A v \in Workers : control'[v] = control[v] \/ control'[v] = NoControl
      /\ \A v \in Workers : request'[v] = request[v] \/ request'[v] = NoRequest
      /\ ForgetWorker(w) => \A v \in Workers : v # w => request'[v] = request[v]
  BY <1>2, Forgotten
<1>4. \A v \in Workers : v # w => request'[v] = request[v] \/ (request'[v] = NoRequest /\ ~Sound')
  <2>1. ~ForgetWorker(w) => ~Sound'
    BY <1>2 DEF Sound
  <2> QED  BY <1>3, <2>1
<1>5. Sound' => Sound
  BY <1>1, <1>2 DEF Sound, actors
<1>6. UNCHANGED processed
  BY <1>1 DEF manager
<1>7. /\ open' \subseteq Group /\ leased' \in [Workers -> SUBSET Group] /\ ready' \in Seq(Item) /\ usable' \subseteq Workers
      /\ Owned' /\ Worked' /\ Delivered' /\ Conserved'
  BY <1>1, <1>2, <1>3, <1>4, <1>5, <1>6, Retired
<1>8. TypeOK'
  BY <1>1, <1>2, <1>3, <1>7 DEF TypeOK, actors, manager
<1>9. Noticed'
  <2>1. usable' = usable \ {w} /\ UNCHANGED alive
    BY <1>1, <1>2 DEF Retire, actors
  <2>2. \A v \in Workers : (control'[v].reply = "dead" => control[v].reply = "dead") /\ (request'[v].at = "dead" => request[v].at = "dead")
    BY <1>3 DEF NoControl, NoRequest
  <2>3. error => error'
    BY <1>2
  <2> QED  BY <1>1, <2>1, <2>2, <2>3 DEF Noticed, manager
<1>10. Quiet'
  BY <1>1, StillQuiet DEF manager
<1> QED  BY <1>7, <1>8, <1>9, <1>10

(* A failed call ends the collector.                                          *)
LEMMA FailsStep == ASSUME IInv, Fails, UNCHANGED HandlerFrame, UNCHANGED usable PROVE IInv'
BY EndsStep DEF Fails, HandlerFrame, queue

(* A start or a pause is answered.                                            *)
LEMMA HandleControlStep == ASSUME IInv, NEW w \in Workers, HandleControl(w) PROVE IInv'
<1> USE DEF IInv
<1>1. control[w].to # <<>> /\ UNCHANGED HandlerFrame
  BY DEF HandleControl
<1>2. ~Quiescent
  BY <1>1, NoCalls
<1>3. CASE /\ control[w].reply = "ok"
           /\ runningWorkers' = IF control[w].to[1] THEN runningWorkers ELSE runningWorkers \cup {w}
           /\ control' = [control EXCEPT ![w] = NoControl]
           /\ UNCHANGED <<open, leased, ready, usable, prefetch, error, request>>
  <2>1. /\ control' \in [Workers -> [to : To, reply : {"none", "ok", "raised", "dead"}]] /\ control'[w] = NoControl
        /\ \A v \in Workers : v # w => control'[v] = control[v]
    <3>1. NoControl \in [to : To, reply : {"none", "ok", "raised", "dead"}]
      BY Empty DEF NoControl
    <3> QED  BY <1>3, <3>1 DEF TypeOK
  <2>2. TypeOK'
    BY <1>1, <1>3, <2>1 DEF TypeOK, HandlerFrame, actors, manager
  <2>3. Owned' /\ Worked' /\ Delivered' /\ Conserved'
    <3>1. \A v \in Workers : request[v].at # "item" => request[v].item = <<>>
      BY DEF Delivered
    <3> QED  BY <1>1, <1>3, <3>1, Calm DEF Sound, HandlerFrame, queue, actors, manager
  <2>4. Noticed'
    <3>1. \A v \in Workers : control'[v].reply = "dead" => control[v].reply = "dead"
      BY <2>1 DEF NoControl
    <3> QED  BY <1>1, <1>3, <3>1 DEF Noticed, HandlerFrame, actors, manager
  <2>5. Quiet'
    BY <1>1, <1>2, StillQuiet DEF HandlerFrame, manager
  <2> QED  BY <2>2, <2>3, <2>4, <2>5
<1>4. CASE control[w].reply = "raised" /\ Fails
  BY <1>1, <1>4, FailsStep DEF Fails
<1>5. CASE control[w].reply = "dead" /\ CollectorRetires(w)
  BY <1>1, <1>2, <1>5, CollectorRetiresStep DEF Noticed
<1> QED  BY <1>3, <1>4, <1>5 DEF HandleControl

(* An item arrives at the scheduler.                                          *)
LEMMA ItemArrives ==
    ASSUME IInv, NEW w \in Workers, request[w].at = "item", ready' = ready \o request[w].item,
           request' = [request EXCEPT ![w] = NoRequest], UNCHANGED HandlerFrame,
           UNCHANGED <<open, leased, runningWorkers, configurations, usable, prefetch, error, control>>
    PROVE  IInv'
<1> USE DEF IInv
<1> DEFINE t == request[w].item
<1>1. UNCHANGED <<accepted, rejected, actors, collecting, rolloutId, paused, manager>>
  BY DEF HandlerFrame
<1>2. ready \in Seq(Item) /\ t \in Seq(Item) /\ Len(t) <= 1 /\ Own(t, accepted[w], rejected)
  BY ItemTypes DEF TypeOK, Delivered
<1>3. ready' = ready \o t
  OBVIOUS
<1>4. \A g : InReply(g, w) <=> Kept(t, g) # {}
  BY DEF InReply
<1> HIDE DEF t
<1>5. \A g : \A i, j \in Kept(t, g) : i = j
  <2>1. DOMAIN t = 1..Len(t) /\ Len(t) \in Nat
    BY <1>2
  <2>2. \A i, j \in DOMAIN t : i = j
    BY <1>2, <2>1
  <2> QED  BY <2>2 DEF Kept
<1>6. \A g : Kept(t, g) # {} => g \in accepted[w]
  BY <1>2 DEF Kept, Own
<1>7. NoRequest \in [at : Answer, item : Seq(Item)] /\ NoRequest.item = <<>> /\ NoRequest.at = "none"
  BY Empty DEF NoRequest, Answer
<1>8. /\ request' \in [Workers -> [at : Answer, item : Seq(Item)]] /\ request'[w] = NoRequest
      /\ \A v \in Workers : v # w => request'[v] = request[v]
  BY <1>7, RequestChanges
<1>9. ready' \in Seq(Item)
  BY <1>2, <1>3
<1>10. TypeOK'
  BY <1>1, <1>8, <1>9 DEF TypeOK, actors, manager
<1>11. Owned' /\ Worked'
  BY <1>1 DEF Owned, OneOwner, Worked, actors
<1>12. Delivered'
  <2>1. ASSUME NEW v \in Workers
        PROVE  /\ Len(request'[v].item) <= 1 /\ Own(request'[v].item, accepted[v], rejected)
               /\ request'[v].at # "item" => request'[v].item = <<>>
    <3>1. CASE v = w
      <4>1. request'[v].item = <<>> /\ 0 <= 1
        BY <1>7, <1>8, <3>1
      <4> QED  BY <4>1, Empty
    <3>2. CASE v # w
      BY <1>8, <3>2 DEF Delivered
    <3> QED  BY <3>1, <3>2
  <2>2. Own(ready', Published, rejected)
    <3>1. Own(t, Published, rejected)
      BY <1>2 DEF Own, Published
    <3>2. Own(ready, Published, rejected)
      BY DEF Delivered
    <3> QED  BY <1>2, <1>3, <3>1, <3>2, OwnConcat
  <2>3. UNCHANGED <<outputs, accepted, rejected, collecting, processed>>
    BY <1>1 DEF actors, manager
  <2> QED  BY <2>1, <2>2, <2>3 DEF Delivered, Published
<1>13. \A g : /\ InBatch(g)' <=> InBatch(g)
              /\ \A v \in Workers : (InSlot(g, v)' <=> InSlot(g, v)) /\ (InOutput(g, v)' <=> InOutput(g, v))
  BY <1>1 DEF InBatch, InSlot, InOutput, Kept, actors, manager
<1>14. \A g : Kept(ready, g)' = Kept(ready', g)
  BY DEF Kept
<1>15. Conserved'
  <2>1. ASSUME Sound', NEW v \in Workers, NEW g \in accepted[v] PROVE Once(g, v)'
    <3>1. Once(g, v) /\ OneOwner(g)
      BY <1>1, <2>1 DEF Conserved, Owned, TypeOK, Sound, actors
    <3>2. UNCHANGED <<usable, alive>>
      BY <1>1 DEF actors
    <3>3. CASE v # w
      <4>1. Kept(t, g) = {}
        BY <1>6, <2>1, <3>1, <3>3 DEF OneOwner
      <4>2. Kept(ready, g)' = Kept(ready, g)
        BY <1>2, <1>3, <1>14, <4>1, KeptAdded
      <4>3. InReply(g, v)' <=> InReply(g, v)
        BY <1>8, <2>1, <3>3 DEF InReply
      <4> QED  BY <1>13, <2>1, <3>1, <3>2, <4>2, <4>3, StillOnce
    <3>4. CASE v = w
      <4>1. ~InReply(g, v)'
        BY <1>7, <1>8, <3>4, KeptEmpty DEF InReply
      <4>2. CASE Kept(t, g) = {}
        <5>1. Kept(ready, g)' = Kept(ready, g)
          BY <1>2, <1>3, <1>14, <4>2, KeptAdded
        <5>2. ~InReply(g, v)
          BY <1>4, <3>4, <4>2
        <5> QED  BY <1>13, <2>1, <3>1, <3>2, <4>1, <5>1, <5>2, StillOnce
      <4>3. CASE Kept(t, g) # {}
        <5>1. InReply(g, v)
          BY <1>4, <3>4, <4>3
        <5>2. ~InSlot(g, v) /\ ~InOutput(g, v) /\ ~InReady(g) /\ ~InBatch(g)
          BY <3>1, <5>1 DEF Once
        <5>3. Kept(ready, g) = {}
          BY <5>2 DEF InReady
        <5>4. Kept(ready, g)' # {} /\ \A i, j \in Kept(ready, g)' : i = j
          BY <1>2, <1>3, <1>5, <1>14, <4>3, <5>3, KeptAdded
        <5>5. InReady(g)'
          BY <5>4 DEF InReady
        <5> QED  BY <1>13, <2>1, <4>1, <5>2, <5>4, <5>5 DEF Once
      <4> QED  BY <4>2, <4>3
    <3> QED  BY <3>3, <3>4
  <2> QED  BY <1>1, <2>1 DEF Conserved
<1>16. Noticed'
  <2>1. \A v \in Workers : request'[v].at = "dead" => request[v].at = "dead"
    BY <1>7, <1>8
  <2> QED  BY <1>1, <2>1 DEF Noticed, actors, manager
<1>17. Quiet'
  <2>1. ~Quiescent
    BY NoCalls
  <2> QED  BY <1>1, <2>1, StillQuiet DEF manager
<1> QED  BY <1>10, <1>11, <1>12, <1>15, <1>16, <1>17

(* A request is answered.                                                     *)
LEMMA HandleResultStep == ASSUME IInv, NEW w \in Workers, HandleResult(w) PROVE IInv'
<1> USE DEF IInv
<1>1. UNCHANGED HandlerFrame
  BY DEF HandleResult
<1>2. CASE /\ request[w].at = "item" /\ ready' = ready \o request[w].item
           /\ request' = [request EXCEPT ![w] = NoRequest]
           /\ UNCHANGED <<open, leased, runningWorkers, configurations, usable, prefetch, error, control>>
  BY <1>1, <1>2, ItemArrives
<1>3. CASE /\ request[w].at = "drained" /\ runningWorkers' = runningWorkers \ {w}
           /\ request' = [request EXCEPT ![w] = NoRequest]
           /\ UNCHANGED <<open, leased, ready, configurations, usable, prefetch, error, control>>
  <2>1. NoRequest \in [at : Answer, item : Seq(Item)] /\ NoRequest.item = <<>> /\ NoRequest.at = "none"
    BY Empty DEF NoRequest, Answer
  <2>2. /\ request' \in [Workers -> [at : Answer, item : Seq(Item)]] /\ request'[w] = NoRequest
        /\ \A v \in Workers : v # w => request'[v] = request[v]
    BY <1>3, <2>1, RequestChanges
  <2>3. TypeOK'
    BY <1>1, <1>3, <2>2 DEF TypeOK, HandlerFrame, actors, manager
  <2>4. Owned' /\ Worked' /\ Delivered' /\ Conserved'
    <3>1. request[w].item = <<>>
      BY <1>3 DEF Delivered
    <3>2. \A v \in Workers : request'[v].item = request[v].item /\ (request'[v].at # "item" => request'[v].item = <<>>)
      BY <2>1, <2>2, <3>1 DEF Delivered
    <3> QED  BY <1>1, <1>3, <3>2, Calm DEF Sound, HandlerFrame, queue, actors, manager
  <2>5. Noticed'
    <3>1. \A v \in Workers : request'[v].at = "dead" => request[v].at = "dead"
      BY <2>1, <2>2
    <3> QED  BY <1>1, <1>3, <3>1 DEF Noticed, HandlerFrame, actors, manager
  <2>6. Quiet'
    <3>1. ~Quiescent
      BY <1>3, NoCalls
    <3> QED  BY <1>1, <3>1, StillQuiet DEF HandlerFrame, manager
  <2> QED  BY <2>3, <2>4, <2>5, <2>6
<1>4. CASE request[w].at \in {"raised", "invalid state"} /\ Fails
  BY <1>1, <1>4, FailsStep DEF Fails
<1>5. CASE request[w].at = "dead" /\ CollectorRetires(w)
  <2>1. ~Quiescent
    BY <1>5, NoCalls
  <2> QED  BY <1>1, <1>5, <2>1, CollectorRetiresStep DEF Noticed
<1> QED  BY <1>2, <1>3, <1>4, <1>5 DEF HandleResult

(* The collector takes its next step.                                         *)
LEMMA CollectorStep == ASSUME IInv, Collector PROVE IInv'
BY DispatchStep, WaitEndsStep, CollectorStopsStep, HandleControlStep, HandleResultStep DEF Collector

-----------------------------------------------------------------------------
(* The manager *)

(* A step of the manager that takes no item.                                  *)
LEMMA ManagerMoves ==
    ASSUME IInv, UNCHANGED <<queue, actors, calls, ready, usable, runningWorkers>>,
           collecting' \cup processed' = collecting \cup processed, rolloutId' \in Nat, round' \in Nat,
           paused' \in BOOLEAN, previous' \in [PauseCalls -> BOOLEAN], error' \in BOOLEAN, error => error',
           managerAt' \notin {"collect", "failed", "closed"} => collecting' \subseteq processed',
           managerAt' = "closed" => error', Quiet'
    PROVE  IInv'
<1> USE DEF IInv
<1>1. TypeOK'
  <2>1. collecting' \cup processed' \subseteq Group
    BY DEF TypeOK
  <2> QED  BY <2>1 DEF TypeOK, queue, actors, calls
<1>2. Owned' /\ Worked' /\ Delivered' /\ Conserved'
  <2>1. \A v \in Workers : request[v].at # "item" => request[v].item = <<>>
    BY DEF Delivered
  <2>2. Sound' => Sound
    BY DEF Sound, actors, TypeOK
  <2> QED  BY <2>1, <2>2, Calm DEF actors, calls
<1>3. Noticed'
  BY DEF Noticed, actors, calls
<1> QED  BY <1>1, <1>2, <1>3

(* The manager goes on.                                                       *)
LEMMA GoToStep ==
    ASSUME IInv, NEW next, GoTo(next), next = "closed" => error, next = "save: wait" => paused,
           next = "save: scheduler" => Quiescent,
           next \in {"collect", "failed", "closed"} \/ collecting \subseteq processed
    PROVE  IInv'
<1>1. managerAt' = next /\ UNCHANGED <<queue, actors, calls, scheduler, round, previous, answered, processed>>
  BY DEF GoTo
<1>2. Quiescent => Quiescent'
  BY <1>1 DEF Quiescent, Controlled, Pending, calls, scheduler
<1>3. Quiet'
  BY <1>1, <1>2 DEF Quiet, SaveQuiescent, Quiescent, scheduler
<1> QED  BY <1>1, <1>3, ManagerMoves DEF IInv, TypeOK, scheduler

(* generate() asks for a batch.                                               *)
LEMMA GenerateStep == ASSUME IInv, Generate PROVE IInv'
<1> USE DEF IInv
<1>1. /\ managerAt = "generate" /\ managerAt' \in {"failed", "collect"}
      /\ UNCHANGED <<queue, actors, calls, runningWorkers, usable, ready, error, round, previous, processed>>
  BY DEF Generate, ManagerFrame
<1>2. (collecting' = {} /\ rolloutId' = round /\ paused' = FALSE) \/ UNCHANGED <<collecting, rolloutId, paused>>
  BY DEF Generate
<1>3. collecting \subseteq processed
  BY <1>1 DEF Noticed
<1>4. collecting' \cup processed' = collecting \cup processed
  BY <1>1, <1>2, <1>3
<1>5. rolloutId' \in Nat /\ paused' \in BOOLEAN
  BY <1>2 DEF TypeOK
<1>6. Quiet'
  BY <1>1, NotSaving
<1> QED  BY <1>1, <1>4, <1>5, <1>6, ManagerMoves DEF TypeOK

(* What is kept when the head of a queue is taken.                            *)
LEMMA KeptHead ==
    ASSUME NEW s \in Seq(Item), s # <<>>, NEW g
    PROVE  /\ Head(s) \in Item /\ Head(s) = s[1] /\ 1 \in DOMAIN s /\ Tail(s) \in Seq(Item)
           /\ 1 \in Kept(s, g) <=> Head(s).keep /\ Head(s).group = g
           /\ 1 \notin Kept(s, g) => (Kept(Tail(s), g) = {} <=> Kept(s, g) = {})
           /\ (\A i, j \in Kept(s, g) : i = j) => \A i, j \in Kept(Tail(s), g) : i = j
           /\ (\A i, j \in Kept(s, g) : i = j) /\ 1 \in Kept(s, g) => Kept(Tail(s), g) = {}
<1>1. Len(s) \in Nat /\ Len(s) > 0 /\ DOMAIN s = 1..Len(s)
  OBVIOUS
<1>2. Head(s) = s[1] /\ 1 \in DOMAIN s /\ Head(s) \in Item /\ Tail(s) \in Seq(Item)
  BY <1>1
<1>3. 1 \in Kept(s, g) <=> Head(s).keep /\ Head(s).group = g
  BY <1>2 DEF Kept
<1> DEFINE a == Kept(s, g)
           b == Kept(Tail(s), g)
<1>4. \A i : i \in b <=> i \in Nat /\ i >= 1 /\ i + 1 \in a
  BY KeptTail
<1>5. \A i \in a : i \in Nat /\ i >= 1
  BY <1>1 DEF Kept
<1> HIDE DEF a, b
<1>6. 1 \notin a => (b = {} <=> a = {})
  <2>1. ASSUME 1 \notin a, NEW i \in a PROVE i - 1 \in b
    <3>1. i - 1 \in Nat /\ i - 1 >= 1 /\ (i - 1) + 1 = i
      BY <1>5, <2>1
    <3> QED  BY <1>4, <2>1, <3>1
  <2>2. b # {} => a # {}
    BY <1>4
  <2> QED  BY <2>1, <2>2
<1>7. ASSUME \A i, j \in a : i = j, NEW i \in b, NEW j \in b PROVE i = j
  <2>1. i \in Nat /\ j \in Nat /\ i + 1 = j + 1
    BY <1>4, <1>7
  <2> QED  BY <2>1
<1>8. ASSUME \A i, j \in a : i = j, 1 \in a, NEW i \in b PROVE FALSE
  <2>1. i \in Nat /\ i >= 1 /\ i + 1 = 1
    BY <1>4, <1>8
  <2> QED  BY <2>1
<1> QED  BY <1>2, <1>3, <1>6, <1>7, <1>8 DEF a, b

(* A completed group is taken.                                                *)
LEMMA CollectStep == ASSUME IInv, Collect PROVE IInv'
<1> USE DEF IInv
<1> DEFINE e == Head(ready)
<1>1. /\ managerAt = "collect" /\ ready # <<>> /\ ready' = Tail(ready)
      /\ collecting' = IF e.keep THEN collecting \cup {e.group} ELSE collecting
      /\ UNCHANGED <<queue, actors, calls, runningWorkers, usable, rolloutId, paused, error, manager>>
  BY DEF Collect, ManagerFrame
<1>2. ready \in Seq(Item)
  BY DEF TypeOK
<1>3. /\ e \in Item /\ e = ready[1] /\ 1 \in DOMAIN ready /\ ready' \in Seq(Item)
      /\ \A g : /\ 1 \in Kept(ready, g) <=> e.keep /\ e.group = g
                /\ 1 \notin Kept(ready, g) => (Kept(ready', g) = {} <=> Kept(ready, g) = {})
                /\ (\A i, j \in Kept(ready, g) : i = j) => \A i, j \in Kept(ready', g) : i = j
                /\ (\A i, j \in Kept(ready, g) : i = j) /\ 1 \in Kept(ready, g) => Kept(ready', g) = {}
  BY <1>1, <1>2, KeptHead
<1> HIDE DEF e
<1>4. e.keep => e.group \in Published /\ e.group \in Group
  BY <1>3 DEF Delivered, Own, Item
<1>5. TypeOK'
  BY <1>1, <1>3, <1>4 DEF TypeOK, queue, actors, calls, manager
<1>6. Owned' /\ Worked'
  BY <1>1 DEF Owned, OneOwner, Worked, queue, actors
<1>7. Delivered'
  <2>1. Own(ready', Published, rejected)
    <3>1. DOMAIN ready = 1..Len(ready) /\ DOMAIN Tail(ready) = 1..(Len(ready) - 1) /\ Len(ready) \in Nat
      BY <1>1, <1>2
    <3>2. \A i \in DOMAIN Tail(ready) : i + 1 \in DOMAIN ready /\ Tail(ready)[i] = ready[i + 1]
      BY <1>1, <1>2, <3>1
    <3> QED  BY <1>1, <3>2 DEF Delivered, Own
  <2>2. collecting' \cup processed \subseteq Published
    BY <1>1, <1>4 DEF Delivered
  <2>3. UNCHANGED <<outputs, request, accepted, rejected, processed>>
    BY <1>1 DEF queue, actors, calls, manager
  <2> QED  BY <2>1, <2>2, <2>3 DEF Delivered, Published
<1>8. \A g, v : (InSlot(g, v)' <=> InSlot(g, v)) /\ (InOutput(g, v)' <=> InOutput(g, v)) /\ (InReply(g, v)' <=> InReply(g, v))
  BY <1>1 DEF InSlot, InOutput, InReply, Kept, actors, calls
<1>9. \A g : Kept(ready, g)' = Kept(ready', g)
  BY DEF Kept
<1>10. \A g : InBatch(g)' <=> InBatch(g) \/ (e.keep /\ e.group = g)
  BY <1>1 DEF InBatch, manager
<1>11. Conserved'
  <2>1. ASSUME Sound', NEW v \in Workers, NEW g \in accepted[v] PROVE Once(g, v)'
    <3>1. Once(g, v)
      BY <1>1, <2>1 DEF Conserved, Sound, actors
    <3>2. \A i, j \in Kept(ready, g) : i = j
      BY <3>1 DEF Once
    <3>3. UNCHANGED <<usable, alive>>
      BY <1>1 DEF actors
    <3>4. \A i, j \in Kept(ready, g)' : i = j
      BY <1>3, <1>9, <3>2
    <3>5. CASE e.keep /\ e.group = g
      <4>1. 1 \in Kept(ready, g)
        BY <1>3, <3>5
      <4>2. Kept(ready, g)' = {}
        BY <1>3, <1>9, <3>2, <4>1
      <4>3. InReady(g) /\ ~InReady(g)'
        BY <4>1, <4>2 DEF InReady
      <4>4. ~InSlot(g, v) /\ ~InOutput(g, v) /\ ~InReply(g, v)
        BY <3>1, <4>3 DEF Once
      <4>5. InBatch(g)'
        BY <1>10, <3>5
      <4> QED  BY <1>8, <3>4, <4>3, <4>4, <4>5 DEF Once
    <3>6. CASE ~(e.keep /\ e.group = g)
      <4>1. Kept(ready, g)' = {} <=> Kept(ready, g) = {}
        BY <1>3, <1>9, <3>6
      <4>2. InReady(g)' <=> InReady(g)
        BY <4>1 DEF InReady
      <4>3. InBatch(g)' <=> InBatch(g)
        BY <1>10, <3>6
      <4> QED  BY <1>8, <3>1, <3>3, <3>4, <4>2, <4>3 DEF Once
    <3> QED  BY <3>5, <3>6
  <2> QED  BY <1>1, <2>1 DEF Conserved, queue
<1>12. Noticed'
  BY <1>1 DEF Noticed, actors, calls, manager
<1>13. Quiet'
  BY <1>1, NotSaving DEF manager
<1> QED  BY <1>5, <1>6, <1>7, <1>11, <1>12, <1>13

(* The wait for a group fails.                                                *)
LEMMA CollectFailsStep == ASSUME IInv, CollectFails PROVE IInv'
BY GoToStep DEF CollectFails

(* The batch is converted.                                                    *)
LEMMA ConvertStep == ASSUME IInv, Convert PROVE IInv'
<1> USE DEF IInv
<1>1. /\ processed' = processed \cup collecting /\ managerAt' = "admission: pause"
      /\ UNCHANGED <<queue, actors, calls, runningWorkers, usable, ready, collecting, rolloutId, paused, error, round, previous>>
  BY DEF Convert, ManagerFrame
<1>2. Quiet'
  BY <1>1, NotSaving
<1>3. collecting' \cup processed' = collecting \cup processed /\ collecting' \subseteq processed'
  BY <1>1
<1> QED  BY <1>1, <1>2, <1>3, ManagerMoves DEF TypeOK

(* Where a pause stands.                                                      *)
LEMMA Pauses ==
    /\ \A call \in PauseCalls :
          Pausing[call] \in {"admission: pause", "save: pause"} /\ Waiting[call] \in {"admission: wait", "save: wait"}
    /\ Waiting["admission"] = "admission: wait" /\ Waiting["save"] = "save: wait"
BY DEF PauseCalls, Pausing, Waiting

(* pause() begins.                                                            *)
LEMMA PauseCallStep == ASSUME IInv, NEW call \in PauseCalls, PauseCall(call) PROVE IInv'
<1> USE DEF IInv
<1>1. /\ managerAt \in {"admission: pause", "save: pause"} /\ managerAt' \in {"admission: wait", "save: wait"}
      /\ paused' = TRUE /\ previous' = [previous EXCEPT ![call] = paused]
      /\ UNCHANGED <<queue, actors, calls, runningWorkers, usable, ready, collecting, rolloutId, error, round, processed>>
  BY Pauses DEF PauseCall, ManagerFrame
<1>2. previous' \in [PauseCalls -> BOOLEAN]
  BY <1>1 DEF TypeOK
<1>3. Quiet'
  BY <1>1 DEF Quiet, SaveQuiescent
<1>4. collecting' \subseteq processed' /\ collecting' \cup processed' = collecting \cup processed
  BY <1>1 DEF Noticed
<1> QED  BY <1>1, <1>2, <1>3, <1>4, ManagerMoves DEF TypeOK

(* A pause of admission returns.                                              *)
LEMMA AdmissionReturnStep == ASSUME IInv, PauseReturn("admission", FALSE, "paused") PROVE IInv'
<1>1. managerAt = "admission: wait" /\ (GoTo("failed") \/ GoTo("paused"))
  BY Pauses DEF PauseReturn
<1>2. collecting \subseteq processed
  BY <1>1 DEF IInv, Noticed
<1>3. CASE GoTo("failed")
  BY <1>3, GoToStep
<1>4. CASE GoTo("paused")
  BY <1>2, <1>4, GoToStep
<1> QED  BY <1>1, <1>3, <1>4

(* A pause that drains returns.                                               *)
LEMMA SaveReturnStep == ASSUME IInv, PauseReturn("save", TRUE, "save: scheduler") PROVE IInv'
<1>1. managerAt = "save: wait" /\ (GoTo("failed") \/ (GoTo("save: scheduler") /\ ~Unsettled(TRUE)))
  BY Pauses DEF PauseReturn, IInv, TypeOK
<1>2. collecting \subseteq processed /\ paused
  BY <1>1 DEF IInv, Noticed, Quiet
<1>3. CASE GoTo("failed")
  BY <1>3, GoToStep
<1>4. CASE GoTo("save: scheduler") /\ ~Unsettled(TRUE)
  <2>1. Quiescent
    BY <1>2, <1>4 DEF Unsettled, Quiescent
  <2> QED  BY <1>2, <1>4, <2>1, GoToStep
<1> QED  BY <1>1, <1>3, <1>4

(* The save begins, or there is none.                                         *)
LEMMA SaveChoiceStep == ASSUME IInv, BeginSave \/ SkipSave PROVE IInv'
<1>1. managerAt = "paused" /\ (GoTo("save: pause") \/ GoTo("update weights"))
  BY DEF BeginSave, SkipSave
<1>2. collecting \subseteq processed
  BY <1>1 DEF IInv, Noticed
<1>3. CASE GoTo("save: pause")
  BY <1>2, <1>3, GoToStep
<1>4. CASE GoTo("update weights")
  BY <1>2, <1>4, GoToStep
<1> QED  BY <1>1, <1>3, <1>4

(* The scheduler's state is taken.                                            *)
LEMMA SchedulerStateStep == ASSUME IInv, SchedulerState PROVE IInv'
<1> USE DEF IInv
<1>1. /\ managerAt = "save: scheduler" /\ managerAt' \in {"save: readers", "failed"}
      /\ UNCHANGED <<queue, actors, calls, runningWorkers, usable, ready, collecting, rolloutId, paused, error, round,
                     previous, processed>>
  BY DEF SchedulerState, ManagerFrame
<1>2. Quiet'
  BY <1>1, NotSaving
<1>3. collecting' \subseteq processed' /\ collecting' \cup processed' = collecting \cup processed
  BY <1>1 DEF Noticed
<1> QED  BY <1>1, <1>2, <1>3, ManagerMoves DEF TypeOK

(* A worker's reader is asked for its state; a dead one is retired.           *)
LEMMA ReaderStateStep == ASSUME IInv, NEW w \in Workers, ReaderState(w) PROVE IInv'
<1> USE DEF IInv
<1>1. /\ managerAt = "save: readers"
      /\ UNCHANGED <<accepted, rejected, actors, collecting, rolloutId, paused, error, round, previous, processed>>
  BY DEF ReaderState
<1>2. collecting \subseteq processed
  BY <1>1 DEF Noticed
<1>3. CASE alive[w]
  <2>1. UNCHANGED <<open, leased, calls, ready, runningWorkers, usable, managerAt>>
    BY <1>3 DEF ReaderState
  <2>2. Quiet'
    BY <1>1, <2>1, NotSaving
  <2>3. collecting' \cup processed' = collecting \cup processed /\ collecting' \subseteq processed'
    BY <1>1, <1>2
  <2> QED  BY <1>1, <2>1, <2>2, <2>3, ManagerMoves DEF TypeOK, queue
<1>4. CASE ~alive[w]
  <2>1. Retire(w) /\ ForgetWorker(w) /\ managerAt' \in {"failed", "save: readers"}
    BY <1>1, <1>4 DEF ReaderState
  <2>2. /\ control' \in [Workers -> [to : To, reply : {"none", "ok", "raised", "dead"}]]
        /\ request' \in [Workers -> [at : Answer, item : Seq(Item)]] /\ runningWorkers' \subseteq Workers
        /\ request'[w] = NoRequest
        /\ \A v \in Workers : control'[v] = control[v] \/ control'[v] = NoControl
        /\ \A v \in Workers : request'[v] = request[v] \/ request'[v] = NoRequest
        /\ \A v \in Workers : v # w => request'[v] = request[v]
    BY <2>1, Forgotten
  <2>3. Sound' => Sound
    BY <1>1 DEF Sound, actors
  <2>4. /\ open' \subseteq Group /\ leased' \in [Workers -> SUBSET Group] /\ ready' \in Seq(Item) /\ usable' \subseteq Workers
        /\ Owned' /\ Worked' /\ Delivered' /\ Conserved'
    BY <1>1, <1>4, <2>1, <2>2, <2>3, Retired
  <2>5. TypeOK'
    BY <1>1, <2>2, <2>4 DEF TypeOK, actors
  <2>6. Noticed'
    <3>1. usable' = usable \ {w} /\ UNCHANGED alive
      BY <1>1, <2>1 DEF Retire, actors
    <3>2. \A v \in Workers : (control'[v].reply = "dead" => control[v].reply = "dead") /\ (request'[v].at = "dead" => request[v].at = "dead")
      BY <2>2 DEF NoControl, NoRequest
    <3>3. \A v \in Workers : control'[v].reply = "dead" \/ request'[v].at = "dead" \/ v \notin usable' => ~alive'[v]
      BY <1>4, <3>1, <3>2 DEF Noticed
    <3> QED  BY <1>1, <1>2, <2>1, <3>3 DEF Noticed
  <2>7. Quiet'
    BY <2>1, NotSaving
  <2> QED  BY <2>4, <2>5, <2>6, <2>7
<1> QED  BY <1>3, <1>4

(* The save ends.                                                             *)
LEMMA EndSaveStep == ASSUME IInv, EndSave PROVE IInv'
<1> USE DEF IInv
<1>1. /\ managerAt = "save: readers" /\ managerAt' = "update weights" /\ paused' = (paused /\ previous["save"])
      /\ UNCHANGED <<queue, actors, calls, runningWorkers, usable, ready, collecting, rolloutId, error, round, previous, processed>>
  BY DEF EndSave, ManagerFrame
<1>2. paused' \in BOOLEAN
  BY <1>1 DEF TypeOK
<1>3. Quiet'
  BY <1>1, NotSaving
<1>4. collecting' \subseteq processed' /\ collecting' \cup processed' = collecting \cup processed
  BY <1>1 DEF Noticed
<1> QED  BY <1>1, <1>2, <1>3, <1>4, ManagerMoves DEF TypeOK

(* The driver resumes.                                                        *)
LEMMA ResumeStep == ASSUME IInv, Resume PROVE IInv'
<1> USE DEF IInv
<1>1. /\ managerAt = "update weights" /\ managerAt' = "generate" /\ paused' = (paused /\ previous["admission"])
      /\ round' = round + 1
      /\ UNCHANGED <<queue, actors, calls, runningWorkers, usable, ready, collecting, rolloutId, error, previous, processed>>
  BY DEF Resume, ManagerFrame
<1>2. paused' \in BOOLEAN /\ round' \in Nat
  <2>1. paused' \in BOOLEAN
    BY <1>1 DEF TypeOK
  <2>2. round \in Nat /\ round' = round + 1
    BY <1>1 DEF TypeOK
  <2>3. round' \in Nat
    BY <2>2
  <2> QED  BY <2>1, <2>3
<1>3. Quiet'
  BY <1>1, NotSaving
<1>4. collecting' \subseteq processed' /\ collecting' \cup processed' = collecting \cup processed
  BY <1>1 DEF Noticed
<1> QED  BY <1>1, <1>2, <1>3, <1>4, ManagerMoves DEF TypeOK

(* The manager closes the scheduler.                                          *)
LEMMA CloseStep == ASSUME IInv, Close PROVE IInv'
<1>1. /\ managerAt' = "closed" /\ error' = TRUE
      /\ UNCHANGED <<queue, actors, calls, runningWorkers, usable, ready, collecting, rolloutId, paused, round, previous, processed>>
  BY DEF Close, ManagerFrame
<1>2. Quiet'
  BY <1>1, NotSaving
<1> QED  BY <1>1, <1>2, ManagerMoves DEF IInv, TypeOK

(* The manager takes its next step.                                           *)
LEMMA ManagerStep == ASSUME IInv, Manager PROVE IInv'
<1>1. CASE Pause
  BY <1>1, PauseCallStep, AdmissionReturnStep, SaveReturnStep DEF Pause
<1>2. CASE BeginSave \/ SkipSave
  BY <1>2, SaveChoiceStep
<1>3. CASE \E w \in Workers : ReaderState(w)
  BY <1>3, ReaderStateStep
<1> QED  BY <1>1, <1>2, <1>3, GenerateStep, CollectStep, CollectFailsStep, ConvertStep, SchedulerStateStep,
            EndSaveStep, ResumeStep, CloseStep DEF Manager

-----------------------------------------------------------------------------
(* The theorems *)

(* Every step keeps the invariant.                                            *)
LEMMA NextStep == ASSUME IInv, [Next]_vars PROVE IInv'
<1>1. CASE Next
  BY <1>1, ActorStep, DiesStep, CollectorStep, ManagerStep DEF Next
<1>2. CASE UNCHANGED vars
  <2>1. UNCHANGED <<queue, actors, calls, scheduler, manager>>
    BY <1>2 DEF vars
  <2>2. TypeOK'
    BY <2>1 DEF IInv, TypeOK, queue, actors, calls, scheduler, manager
  <2>3. Owned' /\ Worked' /\ Delivered' /\ Conserved'
    <3>1. \A v \in Workers : request[v].at # "item" => request[v].item = <<>>
      BY DEF IInv, Delivered
    <3> QED  BY <2>1, <3>1, Calm DEF Sound, actors, calls, scheduler, manager
  <2>4. Noticed'
    BY <2>1 DEF IInv, Noticed, actors, calls, scheduler, manager
  <2>5. Quiet'
    BY <2>1, StillQuiet DEF IInv, Quiescent, Controlled, Pending, calls, scheduler, manager
  <2> QED  BY <2>2, <2>3, <2>4, <2>5 DEF IInv
<1> QED  BY <1>1, <1>2

(* In every state the scheduler's calls, the actors and the queue agree.      *)
THEOREM Invariance == Spec => []IInv
BY InitStep, NextStep, PTL DEF Spec

(* state_dict runs on a scheduler that tells, asks and waits for nobody: once *)
(* the pause of a save has drained it, nothing starts until the save is done. *)
THEOREM QuiescentAlways == Spec => []SaveQuiescent
<1>1. IInv => SaveQuiescent
  BY DEF IInv, Quiet
<1> QED  BY <1>1, Invariance, PTL

(* At most one thing in a set.                                                *)
LEMMA AtMostOne ==
    ASSUME NEW S, \A x, y \in S : x = y
    PROVE  Cardinality(S) = IF S = {} THEN 0 ELSE 1
<1>1. CASE S = {}
  BY <1>1, FS_EmptySet
<1>2. CASE S # {}
  <2>1. PICK x \in S : TRUE
    BY <1>2
  <2>2. S = {x}
    BY <2>1
  <2>3. Cardinality({x}) = 1
    BY FS_Singleton
  <2> QED  BY <1>2, <2>2, <2>3
<1> QED  BY <1>1, <1>2

(* A prompt is in exactly one place.                                          *)
LEMMA PromptOnce == ASSUME NEW g \in Group, OneOwner(g) PROVE Cardinality(Prompt(g)) = 1
<1>1. ASSUME NEW x \in Prompt(g)
      PROVE  \/ x = <<"open", g>> /\ g \in open
             \/ x = <<"rejected", g>> /\ g \in rejected
             \/ \E w \in Workers : x = <<"leased", w>> /\ g \in leased[w]
             \/ \E w \in Workers : x = <<"accepted", w>> /\ g \in accepted[w]
  BY <1>1 DEF Prompt
<1>2. Prompt(g) # {}
  BY DEF Prompt, OneOwner
<1>3. ASSUME NEW x \in Prompt(g), NEW y \in Prompt(g) PROVE x = y
  <2>1. CASE g \in open
    <3>1. \A z \in Prompt(g) : z = <<"open", g>>
      BY <1>1, <2>1 DEF OneOwner
    <3> QED  BY <3>1
  <2>2. CASE g \in rejected
    <3>1. \A z \in Prompt(g) : z = <<"rejected", g>>
      BY <1>1, <2>2 DEF OneOwner
    <3> QED  BY <3>1
  <2>3. ASSUME NEW w \in Workers, g \in leased[w] PROVE x = y
    <3>1. \A z \in Prompt(g) : z = <<"leased", w>>
      BY <1>1, <2>3 DEF OneOwner
    <3> QED  BY <3>1
  <2>4. ASSUME NEW w \in Workers, g \in accepted[w] PROVE x = y
    <3>1. \A z \in Prompt(g) : z = <<"accepted", w>>
      BY <1>1, <2>4 DEF OneOwner
    <3> QED  BY <3>1
  <2> QED  BY <2>1, <2>2, <2>3, <2>4 DEF OneOwner
<1> QED  BY <1>2, <1>3, AtMostOne

(* What is kept of a queue of one item.                                       *)
LEMMA KeptFirst ==
    ASSUME NEW s \in Seq(Item), Len(s) <= 1, NEW g, NEW i \in Kept(s, g)
    PROVE  i = 1 /\ Kept(s, g) # {}
<1>1. DOMAIN s = 1..Len(s) /\ Len(s) \in Nat /\ i \in DOMAIN s
  BY DEF Kept
<1>2. i = 1
  BY <1>1
<1> QED  BY <1>2

(* The places of a result's copies.                                           *)
LEMMA Places ==
    ASSUME NEW g, NEW x
    PROVE  x \in Copies(g) <=> \/ \E w \in Workers : x \in CopiesOf(w, g)
                               \/ \E i \in Kept(ready, g) : x = <<"ready", i>>
                               \/ x = <<"batch", g>> /\ InBatch(g)
<1> DEFINE A == UNION {CopiesOf(w, g) : w \in Workers}
           B == {<<"ready", i>> : i \in Kept(ready, g)}
           C == {<<"batch", h>> : h \in (collecting \cup processed) \cap {g}}
<1>1. Copies(g) = A \cup B \cup C
  BY DEF Copies
<1>2. x \in A <=> \E w \in Workers : x \in CopiesOf(w, g)
  OBVIOUS
<1>3. x \in B <=> \E i \in Kept(ready, g) : x = <<"ready", i>>
  OBVIOUS
<1>4. x \in C <=> x = <<"batch", g>> /\ InBatch(g)
  BY DEF InBatch
<1> HIDE DEF A, B, C
<1> QED  BY <1>1, <1>2, <1>3, <1>4

(* A copy is at its writer.                                                   *)
LEMMA CopyAt ==
    ASSUME IInv, NEW g \in Group, NEW x \in Copies(g)
    PROVE  \E w \in Workers :
              /\ g \in accepted[w]
              /\ \/ x = <<"slot", w, [group |-> g, phase |-> "kept"]>> /\ InSlot(g, w)
                 \/ x = <<"output", w, 1>> /\ InOutput(g, w)
                 \/ x = <<"reply", w, 1>> /\ InReply(g, w)
                 \/ \E i \in Kept(ready, g) : x = <<"ready", i>>
                 \/ x = <<"batch", g>> /\ InBatch(g)
<1> USE DEF IInv
<1>1. CASE \E w \in Workers : x \in CopiesOf(w, g)
  <2>1. PICK w \in Workers : x \in CopiesOf(w, g)
    BY <1>1
  <2>2. ASSUME NEW s \in slots[w], s.group = g, s.phase = "kept", x = <<"slot", w, s>>
        PROVE  x = <<"slot", w, [group |-> g, phase |-> "kept"]>> /\ InSlot(g, w) /\ g \in accepted[w]
    <3>1. s = [group |-> s.group, phase |-> s.phase]
      BY SlotType
    <3>2. s = [group |-> g, phase |-> "kept"]
      BY <2>2, <3>1
    <3>3. g \in accepted[w]
      BY <2>2 DEF Worked
    <3> QED  BY <2>2, <3>2, <3>3 DEF InSlot
  <2>3. /\ outputs[w] \in Seq(Item) /\ Len(outputs[w]) <= 1 /\ Own(outputs[w], accepted[w], rejected)
        /\ request[w].item \in Seq(Item) /\ Len(request[w].item) <= 1 /\ Own(request[w].item, accepted[w], rejected)
    BY ItemTypes DEF Delivered
  <2>4. ASSUME NEW i \in Kept(outputs[w], g), x = <<"output", w, i>>
        PROVE  x = <<"output", w, 1>> /\ InOutput(g, w) /\ g \in accepted[w]
    <3>1. i = 1 /\ Kept(outputs[w], g) # {}
      BY <2>3, KeptFirst
    <3>2. g \in accepted[w]
      BY <2>3 DEF Kept, Own
    <3> QED  BY <2>4, <3>1, <3>2 DEF InOutput
  <2>5. ASSUME NEW i \in Kept(request[w].item, g), x = <<"reply", w, i>>
        PROVE  x = <<"reply", w, 1>> /\ InReply(g, w) /\ g \in accepted[w]
    <3>1. i = 1 /\ Kept(request[w].item, g) # {}
      BY <2>3, KeptFirst
    <3>2. g \in accepted[w]
      BY <2>3 DEF Kept, Own
    <3> QED  BY <2>5, <3>1, <3>2 DEF InReply
  <2>6. \/ \E s \in slots[w] : s.group = g /\ s.phase = "kept" /\ x = <<"slot", w, s>>
        \/ \E i \in Kept(outputs[w], g) : x = <<"output", w, i>>
        \/ \E i \in Kept(request[w].item, g) : x = <<"reply", w, i>>
    BY <2>1 DEF CopiesOf
  <2> QED  BY <2>2, <2>4, <2>5, <2>6
<1>2. CASE \E i \in Kept(ready, g) : x = <<"ready", i>>
  <2>1. g \in Published
    BY <1>2 DEF Delivered, Own, Kept
  <2>2. PICK w \in Workers : g \in accepted[w]
    BY <2>1 DEF Published
  <2> QED  BY <1>2, <2>2
<1>3. CASE x = <<"batch", g>> /\ InBatch(g)
  <2>1. g \in Published
    BY <1>3 DEF Delivered, InBatch
  <2>2. PICK w \in Workers : g \in accepted[w]
    BY <2>1 DEF Published
  <2> QED  BY <1>3, <2>2
<1>4. \/ \E w \in Workers : x \in CopiesOf(w, g)
      \/ \E i \in Kept(ready, g) : x = <<"ready", i>>
      \/ x = <<"batch", g>> /\ InBatch(g)
  BY Places
<1> QED  BY <1>1, <1>2, <1>3, <1>4

(* A copy is found where its place says.                                      *)
LEMMA CopyFound ==
    ASSUME NEW g, NEW w \in Workers,
           InSlot(g, w) \/ InOutput(g, w) \/ InReply(g, w) \/ InReady(g) \/ InBatch(g)
    PROVE  Copies(g) # {}
<1>1. CASE InSlot(g, w)
  <2>1. <<"slot", w, [group |-> g, phase |-> "kept"]>> \in CopiesOf(w, g)
    BY <1>1 DEF InSlot, CopiesOf
  <2> QED  BY <2>1, Places
<1>2. CASE InOutput(g, w)
  <2>1. PICK i \in Kept(outputs[w], g) : TRUE
    BY <1>2 DEF InOutput
  <2>2. <<"output", w, i>> \in CopiesOf(w, g)
    BY <2>1 DEF CopiesOf
  <2> QED  BY <2>2, Places
<1>3. CASE InReply(g, w)
  <2>1. PICK i \in Kept(request[w].item, g) : TRUE
    BY <1>3 DEF InReply
  <2>2. <<"reply", w, i>> \in CopiesOf(w, g)
    BY <2>1 DEF CopiesOf
  <2> QED  BY <2>2, Places
<1>4. CASE InReady(g)
  <2>1. PICK i \in Kept(ready, g) : TRUE
    BY <1>4 DEF InReady
  <2>2. <<"ready", i>> \in Copies(g)
    BY <2>1, Places
  <2> QED  BY <2>2
<1>5. CASE InBatch(g)
  <2>1. <<"batch", g>> \in Copies(g)
    BY <1>5, Places
  <2> QED  BY <2>1
<1> QED  BY <1>1, <1>2, <1>3, <1>4, <1>5

(* A prompt is claimable, held, rejected or accepted, exactly one of these;   *)
(* and without errors and crashes an accepted result is on its way to         *)
(* training exactly once, but for an actor that died and is not yet retired.  *)
THEOREM GroupsAlwaysConserved == Spec => []GroupsConserved
<1>1. ASSUME IInv, ~error, faults["crash"] = 0, NEW g \in Group
      PROVE  LET writers == {w \in Workers : g \in accepted[w]}
             IN  /\ Cardinality(Prompt(g)) = 1
                 /\ Cardinality(Copies(g)) <= Cardinality(writers)
                 /\ \A w \in writers : w \notin usable \/ alive[w] => Cardinality(Copies(g)) = 1
  <2> USE DEF IInv
  <2> DEFINE writers == {w \in Workers : g \in accepted[w]}
  <2>1. OneOwner(g)
    BY <1>1 DEF Owned
  <2>2. Cardinality(Prompt(g)) = 1
    BY <2>1, PromptOnce
  <2>3. CASE writers = {}
    <3>1. Copies(g) = {}
      BY <1>1, <2>3, CopyAt
    <3>2. Cardinality({}) = 0 /\ 0 <= 0
      BY FS_EmptySet
    <3> QED  BY <2>2, <2>3, <3>1, <3>2
  <2>4. ASSUME NEW w \in writers
        PROVE  /\ Cardinality(Copies(g)) <= Cardinality(writers)
               /\ w \notin usable \/ alive[w] => Cardinality(Copies(g)) = 1
    <3>1. \A v \in Workers : g \in accepted[v] => v = w
      BY <2>1 DEF OneOwner
    <3>2. Cardinality(writers) = 1
      BY <3>1, AtMostOne
    <3>3. w \in Workers /\ Once(g, w)
      BY <1>1 DEF Conserved, Sound
    <3> HIDE DEF writers
    <3>4. ASSUME NEW x \in Copies(g)
          PROVE  \/ x = <<"slot", w, [group |-> g, phase |-> "kept"]>> /\ InSlot(g, w)
                 \/ x = <<"output", w, 1>> /\ InOutput(g, w)
                 \/ x = <<"reply", w, 1>> /\ InReply(g, w)
                 \/ \E i \in Kept(ready, g) : x = <<"ready", i>>
                 \/ x = <<"batch", g>> /\ InBatch(g)
      BY <1>1, <3>1, CopyAt
    <3>5. \A x, y \in Copies(g) : x = y
      BY <3>3, <3>4 DEF Once, InReady
    <3>6. Cardinality(Copies(g)) = IF Copies(g) = {} THEN 0 ELSE 1
      BY <3>5, AtMostOne
    <3>7. w \notin usable \/ alive[w] => Copies(g) # {}
      BY <3>3, CopyFound DEF Once
    <3> QED  BY <3>2, <3>6, <3>7
  <2>5. writers # {} => Cardinality(Copies(g)) <= Cardinality(writers)
    BY <2>4
  <2> QED  BY <2>2, <2>3, <2>4, <2>5
<1>2. IInv => GroupsConserved
  BY <1>1 DEF GroupsConserved
<1> QED  BY <1>2, Invariance, PTL

=============================================================================
