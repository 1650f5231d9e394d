---------------------------- MODULE ServingProofs ----------------------------
(***************************************************************************)
(* Proofs about Serving: an attempt that runs keeps the session and its    *)
(* trainers, nobody checks engines while they are changed, a publication   *)
(* reaches every engine, and weights never go back.                        *)
(***************************************************************************)
EXTENDS Serving, FiniteSetTheorems, WellFoundedInduction, TLAPS

-----------------------------------------------------------------------------
(* The inductive invariant *)

Slots    == {"empty", "live", "dead"}
Engine   == [slot : Slots, routed : BOOLEAN, version : Nat, peer : Drivers \cup {None}]
Monitor  == [thread : {"top", "go", "check", "gone"}, paused : BOOLEAN, bad : SUBSET Engines]
Steps    == {"pause", "wait", "release", "reset", "commit", "start", "check", "retire"}
OwnerCalls == {"attach", "detach", "recover", "finish"}
Calls    == [op : OwnerCalls, d : Drivers, step : Steps, at : DOMAIN Groups, bad : SUBSET Engines,
             err : BOOLEAN]
Requests == (OwnerCalls \cup {"clear"}) \X Drivers
Phases   == {"new", "run", "close", "closing", "dead", "done"}
Places   == {"idle", "attach", "bind", "create", "recover", "engines", "connect", "clearing",
             "install", "ready", "resume", "rollout", "finish", "train", "failed"}

TypeOK ==
    /\ eng \in [Engines -> Engine]
    /\ fresh \in [DOMAIN Groups -> Nat]
    /\ mon \in [DOMAIN Groups -> Monitor]
    /\ owner \in Drivers \cup {None} /\ reused \in BOOLEAN /\ registered \subseteq Drivers
    /\ trainers \in [Drivers -> {"none", "up", "down"}]
    /\ call \in Calls \cup {None}
    /\ inbox \subseteq Requests /\ IsFiniteSet(inbox)
    /\ phase \in [Drivers -> Phases] /\ pc \in [Drivers -> Places]
    /\ handles \in [Drivers -> SUBSET Engines] /\ wv \in [Drivers -> Nat]
    /\ late \in Nat

(* A request says where the attempt that sent it is, and is sent once. *)
Requested ==
    \A d \in Drivers :
        /\ <<"attach", d>> \in inbox => pc[d] = "attach"
        /\ <<"recover", d>> \in inbox => pc[d] = "recover"
        /\ <<"clear", d>> \in inbox => pc[d] = "clearing"
        /\ <<"finish", d>> \in inbox => pc[d] = "finish"
        /\ <<"detach", d>> \in inbox => phase[d] \in {"closing", "dead"}
        /\ phase[d] = "new" => pc[d] = "idle"
        /\ pc[d] \notin {"idle", "attach", "failed"} => reused
        /\ pc[d] \in {"idle", "attach", "bind", "create"} => trainers[d] # "up"

(* The methods have these steps. *)
Fits(c) ==
    /\ c.step = "release" => c.op \in {"attach", "detach"}
    /\ c.step \in {"reset", "commit"} => c.op = "attach"
    /\ c.step = "start" => c.op = "recover"
    /\ c.step \in {"check", "retire"} => c.op = "finish"

(* So does the call that the serving actor is executing. *)
Calling ==
    call # None =>
        /\ call.op = "attach" => /\ pc[call.d] = "attach" /\ <<"attach", call.d>> \notin inbox
                                 /\ owner = None \/ phase[owner] = "dead"
        /\ call.op = "recover" => pc[call.d] = "recover" /\ <<"recover", call.d>> \notin inbox
        /\ call.op = "finish" => pc[call.d] = "finish" /\ <<"finish", call.d>> \notin inbox
        /\ call.op = "detach" => owner = call.d /\ phase[call.d] \in {"closing", "dead"}
        /\ Fits(call)
        /\ call.step \in {"reset", "commit"} => registered = {}

(* An engine that is to be retired still has its slot. *)
Probed ==
    /\ \A g \in DOMAIN Groups : mon[g].thread = "check" =>
          \A e \in mon[g].bad : e \in Groups[g] /\ eng[e].slot # "empty"
    /\ call # None /\ call.step = "retire" => \A e \in call.bad : eng[e].slot # "empty"

(* The session is that of the attempt that runs; trainers that are up are     *)
(* known to the owner, which can kill them.                                   *)
Owning ==
    /\ OwnerKept /\ PublisherOwns
    /\ \A d \in Drivers : trainers[d] = "up" => d \in registered

(* The monitors a pause has passed stay out of their checks. *)
Still(g) == mon[g].thread # "check"
Quiet == \A g \in DOMAIN Groups : mon[g].paused /\ Still(g)
InUpdate(d) == pc[d] \in {"engines", "connect", "clearing", "install"}
Pausing ==
    /\ call # None /\ call.step \in {"pause", "wait"} =>
        \A g \in DOMAIN Groups : g < call.at => mon[g].paused /\ (call.err \/ Still(g))
    /\ call # None /\ call.step = "wait" => mon[call.at].paused
    /\ call # None /\ call.step \notin {"pause", "wait"} /\ call.op # "detach" => Quiet
    /\ \A d \in Drivers : Attached(d) /\ InUpdate(d) => Quiet

(* Once an attempt is bound, the manager and the owner work for no other. *)
Managed ==
    \A x \in Drivers : Attached(x) /\ pc[x] # "bind" =>
        /\ ManagerFree(x)
        /\ call # None /\ call.op \in {"recover", "finish"} => call.d = x

(* An engine that is not in the trainers' group makes them connect. *)
Marked == \E g \in DOMAIN Groups : fresh[g] > 0
Joined ==
    /\ late = 0 => \A d \in Drivers, op \in TrainerCalls : <<op, d>> \in inbox => trainers[d] = "up"
    /\ ~reused \/ (call # None /\ call.step = "commit") => Marked \/ \A e \in Engines : eng[e].slot = "empty"
    /\ \A d \in Drivers : Attached(d) =>
        /\ late = 0 => Marked \/ \A e \in Engines : eng[e].slot = "empty" \/ eng[e].peer = d
        /\ Publishing(d) => \A e \in Engines : eng[e].slot # "empty" <=> e \in handles[d]
        /\ pc[d] = "clearing" \/ (late = 0 /\ pc[d] = "install") =>
              \A e \in handles[d] : eng[e].peer = d

(* What is routed has the weights that were published last. *)
Served ==
    /\ \A e \in Engines : eng[e].routed => eng[e].slot # "empty"
    /\ \A d \in Drivers : Attached(d) /\ pc[d] \in {"ready", "resume", "rollout"} =>
          \A e \in Engines : eng[e].routed => eng[e].version = wv[d]

(* No engine is ahead of the trainers that are going to publish. *)
Publisher(d) == (trainers[d] = "up" /\ pc[d] # "failed") \/ (Attached(d) /\ pc[d] = "create")
Growing ==
    /\ \E b \in Nat : \A e \in Engines : eng[e].version <= b
    /\ \A d \in Drivers : Publisher(d) =>
          \A e \in Engines : eng[e].slot # "empty" =>
              eng[e].version <= wv[d] \/ (pc[d] = "install" /\ eng[e].version <= wv[d] + 1)

IInv ==
    /\ TypeOK /\ Requested /\ Calling /\ Probed /\ Owning /\ Pausing /\ Managed /\ Joined /\ Served /\ Growing

-----------------------------------------------------------------------------
(* Lemmas about the operators of the model *)

USE DEF serving, attempts

(* The fields of the call that is executed. *)
LEMMA CallTypes ==
    ASSUME TypeOK, call # None
    PROVE  /\ call \in Calls
           /\ call.op \in OwnerCalls /\ call.d \in Drivers /\ call.step \in Steps
           /\ call.at \in DOMAIN Groups /\ call.bad \in SUBSET Engines /\ call.err \in BOOLEAN
BY DEF TypeOK, Calls

(* A request is added to the requests that wait. *)
LEMMA Sent ==
    ASSUME TypeOK, NEW op \in OwnerCalls \cup {"clear"}, NEW d \in Drivers, Send(op, d)
    PROVE  inbox' \subseteq Requests /\ IsFiniteSet(inbox')
<1>1. inbox' = inbox \cup {<<op, d>>} /\ <<op, d>> \in Requests
  BY DEF Send, Requests
<1> QED  BY <1>1, FS_AddElement DEF TypeOK

(* A monitor's fields change; what is in the slots does not. *)
LEMMA MonitorTyped ==
    ASSUME TypeOK, NEW g \in DOMAIN Groups, NEW m \in Monitor, mon' = [mon EXCEPT ![g] = m]
    PROVE  mon' \in [DOMAIN Groups -> Monitor]
BY DEF TypeOK

(* What a retirement leaves in the slot: nothing, what was there, or an      *)
(* engine that is routed no more and still holds it.                         *)
Vacated(s) == s.slot = "empty" /\ ~s.routed /\ s.version = 0
Shrinks(s, t) ==
    \/ t = s
    \/ Vacated(t)
    \/ /\ s.slot # "empty" /\ t.slot = "dead"
       /\ (t.routed => s.routed) /\ t.version = s.version /\ t.peer = s.peer

LEMMA Retired ==
    ASSUME TypeOK, NEW e \in Engines, eng[e].slot # "empty", NEW r \in RetireResults(e),
           eng' = [eng EXCEPT ![e] = r.eng]
    PROVE  /\ eng' \in [Engines -> Engine]
           /\ \A x \in Engines : Shrinks(eng[x], eng'[x]) /\ (x # e => eng'[x] = eng[x])
           /\ eng'[e].slot = "empty" \/ r.error # "none"
<1> DEFINE kept == [eng[e] EXCEPT !.slot = "dead", !.routed = FALSE]
<1>1. eng[e] \in Engine /\ Vacant \in Engine /\ kept \in Engine
  <2>1. eng[e] \in Engine
    BY DEF TypeOK
  <2>2. Vacant \in Engine
    BY DEF Engine, Vacant, Slots
  <2>3. kept \in Engine
    BY <2>1 DEF Engine, Slots
  <2> QED  BY <2>1, <2>2, <2>3
<1>2. /\ kept.slot = "dead" /\ ~kept.routed /\ kept.version = eng[e].version /\ kept.peer = eng[e].peer
      /\ Vacated(Vacant)
  BY <1>1 DEF Engine, Vacated, Vacant
<1> HIDE DEF kept
<1>3. \/ r.eng = Vacant
      \/ r.eng = eng[e] /\ r.error = "request"
      \/ r.eng = kept /\ r.error = "shutdown"
  BY DEF RetireResults, kept
<1>4. r.eng \in Engine /\ Shrinks(eng[e], r.eng) /\ (r.eng.slot = "empty" \/ r.error # "none")
  BY <1>1, <1>2, <1>3 DEF Shrinks, Vacated
<1>5. eng'[e] = r.eng /\ \A x \in Engines : x # e => eng'[x] = eng[x]
  BY DEF TypeOK
<1> QED  BY <1>1, <1>4, <1>5 DEF TypeOK, Shrinks

(* Engines that go, or stay without their route, do not lose what the rest   *)
(* guarantees.                                                               *)
LEMMA ShrinkGrowing ==
    ASSUME Growing, TypeOK, eng' \in [Engines -> Engine], \A x \in Engines : Shrinks(eng[x], eng'[x]),
           \A d \in Drivers : (Publisher(d)' => Publisher(d)) /\ wv'[d] = wv[d] /\
                              (pc[d] = "install" /\ Publisher(d)' => pc'[d] = "install")
    PROVE  Growing'
<1>1. PICK b \in Nat : \A e \in Engines : eng[e].version <= b
  BY DEF Growing
<1>2. \A e \in Engines : eng'[e].version <= b
  BY <1>1 DEF Shrinks, Vacated
<1>3. ASSUME NEW d \in Drivers, Publisher(d)', NEW e \in Engines, eng'[e].slot # "empty"
      PROVE  eng'[e].version <= wv'[d] \/ (pc'[d] = "install" /\ eng'[e].version <= wv'[d] + 1)
  <2>1. eng[e].slot # "empty" /\ eng'[e].version = eng[e].version
    BY <1>3 DEF Shrinks, Vacated
  <2> QED  BY <1>3, <2>1 DEF Growing
<1> QED  BY <1>1, <1>2, <1>3 DEF Growing

LEMMA ShrinkServed ==
    ASSUME Served, \A x \in Engines : Shrinks(eng[x], eng'[x]),
           \A d \in Drivers : (Attached(d)' /\ pc'[d] \in {"ready", "resume", "rollout"} =>
                                  Attached(d) /\ pc[d] \in {"ready", "resume", "rollout"}) /\
                              wv'[d] = wv[d]
    PROVE  Served'
BY DEF Served, Shrinks, Vacated

(* A request is served, or lost. *)
LEMMA Taken ==
    ASSUME TypeOK, inbox' \subseteq inbox
    PROVE  inbox' \subseteq Requests /\ IsFiniteSet(inbox')
BY FS_Subset DEF TypeOK

(* What becomes of killed trainers and their calls. *)
LEMMA Killed ==
    ASSUME TypeOK, NEW K \in SUBSET Drivers, KillTrainers(K)
    PROVE  /\ trainers' \in [Drivers -> {"none", "up", "down"}]
           /\ \A d \in Drivers : trainers'[d] = IF d \in K THEN "down" ELSE trainers[d]
           /\ inbox' \subseteq inbox /\ inbox' \subseteq Requests /\ IsFiniteSet(inbox')
           /\ late' \in Nat /\ (late' = 0 => late = 0)
           /\ late' = 0 => \A op \in TrainerCalls, d \in K : <<op, d>> \notin inbox'
<1> DEFINE sent == {c \in inbox : c[1] \in TrainerCalls /\ c[2] \in K}
<1>1. PICK kept \in SUBSET sent : late' = late + Cardinality(kept) /\ inbox' = inbox \ (sent \ kept)
  BY DEF KillTrainers
<1>2. IsFiniteSet(kept) /\ Cardinality(kept) \in Nat /\ (Cardinality(kept) = 0 => kept = {})
  <2>1. IsFiniteSet(kept)
    BY FS_Subset DEF TypeOK
  <2> QED  BY <2>1, FS_CardinalityType, FS_EmptySet
<1>3. late' \in Nat /\ (late' = 0 => late = 0 /\ kept = {})
  BY <1>1, <1>2 DEF TypeOK
<1>4. inbox' \subseteq inbox /\ inbox' \subseteq Requests /\ IsFiniteSet(inbox')
  BY <1>1, Taken
<1>5. late' = 0 => \A op \in TrainerCalls, d \in K : <<op, d>> \notin inbox'
  <2>1. ASSUME kept = {}, NEW op \in TrainerCalls, NEW d \in K, <<op, d>> \in inbox'
        PROVE  FALSE
    <3>1. inbox' = inbox \ sent
      BY <1>1, <2>1
    <3>2. <<op, d>> \in sent
      BY <2>1, <3>1
    <3> QED  BY <2>1, <3>1, <3>2
  <2> QED  BY <1>3, <2>1
<1>6. /\ trainers' \in [Drivers -> {"none", "up", "down"}]
      /\ \A d \in Drivers : trainers'[d] = IF d \in K THEN "down" ELSE trainers[d]
  BY DEF KillTrainers, TypeOK
<1> QED  BY <1>3, <1>4, <1>5, <1>6

(* A finite set of naturals with a bound has a maximum. *)
LEMMA MaxOf ==
    ASSUME NEW S \in SUBSET Nat, S # {}, NEW b \in Nat, \A x \in S : x <= b
    PROVE  Max(S) \in S /\ \A x \in S : x <= Max(S)
<1> DEFINE T == {b - x : x \in S}
<1>1. T \subseteq Nat /\ T # {}
  <2>1. \A x \in S : b - x \in Nat
    OBVIOUS
  <2> QED  BY <2>1
<1>2. \E z \in T : \A y \in T : ~ (<<y, z>> \in OpToRel(<, Nat))
  BY <1>1, NatLessThanWellFounded, WFMin, Zenon
<1>3. \A y, z \in Nat : y < z => <<y, z>> \in OpToRel(<, Nat)
  BY DEF OpToRel
<1>4. PICK z \in T : \A y \in T : ~ (<<y, z>> \in OpToRel(<, Nat))
  BY <1>2
<1>5. \A y \in T : z \in Nat /\ y \in Nat /\ ~ (y < z)
  BY <1>1, <1>3, <1>4
<1>6. PICK m \in S : z = b - m
  OBVIOUS
<1>7. \A x \in S : b - m <= b - x
  BY <1>5, <1>6
<1>8. \A x \in S : m >= x
  <2>1. \A x \in S : x \in Nat /\ m \in Nat
    OBVIOUS
  <2> QED  BY <1>7, <2>1
<1>9. \E y \in S : \A x \in S : y >= x
  BY <1>8
<1>10. Max(S) \in S /\ \A x \in S : Max(S) >= x
  BY <1>9 DEF Max
<1> QED  BY <1>10

(* attach_training starts a new attempt above every version served. *)
LEMMA Newest ==
    ASSUME TypeOK, Growing
    PROVE  LET S == {eng[e].version : e \in In("live")} \cup {0}
           IN  Max(S) \in Nat /\ \A e \in In("live") : eng[e].version <= Max(S)
<1> DEFINE S == {eng[e].version : e \in In("live")} \cup {0}
<1>1. \A e \in Engines : eng[e].version \in Nat
  BY DEF TypeOK, Engine
<1>2. S \in SUBSET Nat /\ S # {}
  BY <1>1 DEF In
<1>3. PICK b \in Nat : \A e \in Engines : eng[e].version <= b
  BY DEF Growing
<1>4. \A x \in S : x <= b
  BY <1>3 DEF In
<1>5. Max(S) \in S /\ \A x \in S : x <= Max(S)
  BY <1>2, <1>3, <1>4, MaxOf
<1> QED  BY <1>2, <1>5

(* While an attempt attaches no other runs; a call of trainers or of the     *)
(* manager is one of the attempt that runs, once that is bound.              *)
LEMMA Alone ==
    ASSUME IInv, call # None
    PROVE  /\ call.op \in {"attach", "detach"} => \A x \in Drivers : ~Attached(x)
           /\ \A x \in Drivers : Attached(x) /\ pc[x] # "bind" => call.d = x
<1>1. call \in Calls /\ call.op \in OwnerCalls /\ call.d \in Drivers
  BY CallTypes DEF IInv
<1>2. call.op \in {"attach", "detach"} => \A x \in Drivers : ~Attached(x)
  <2>1. call.op \in {"attach", "detach"} => owner = None \/ phase[owner] # "run"
    BY <1>1 DEF IInv, Calling
  <2>2. \A x \in Drivers : Attached(x) => owner = x /\ phase[x] = "run" /\ x # None
    BY ServingAssumption DEF IInv, Owning, OwnerKept, Attached
  <2> QED  BY <2>1, <2>2
<1>3. \A x \in Drivers : Attached(x) /\ pc[x] # "bind" => call.d = x
  BY <1>1, <1>2 DEF IInv, Managed, OwnerCalls
<1> QED  BY <1>2, <1>3

(* Only the owner's trainers are up. *)
LEMMA OneAttempt ==
    ASSUME IInv, NEW d \in Drivers, Attached(d) \/ trainers[d] = "up"
    PROVE  \A x \in Drivers : Attached(x) \/ trainers[x] = "up" => x = d
BY DEF IInv, Owning, OwnerKept, PublisherOwns

(* The server groups are a sequence of finite sets. *)
LEMMA GroupFacts ==
    /\ Len(Groups) \in Nat \ {0} /\ DOMAIN Groups = 1..Len(Groups)
    /\ \A g \in DOMAIN Groups : Groups[g] \subseteq Engines
    /\ \A e \in Engines : \E g \in DOMAIN Groups : e \in Groups[g]
    /\ \A S : \A g \in DOMAIN Groups : Cardinality(Groups[g] \cap S) \in Nat
    /\ \A S : \A g \in DOMAIN Groups : Groups[g] \cap S # {} => Cardinality(Groups[g] \cap S) > 0
<1>1. Len(Groups) \in Nat \ {0} /\ DOMAIN Groups = 1..Len(Groups)
  BY ServingAssumption
<1>2. \A g \in DOMAIN Groups : Groups[g] \subseteq Engines
  BY DEF Engines
<1>3. \A e \in Engines : \E g \in DOMAIN Groups : e \in Groups[g]
  BY DEF Engines
<1>4. ASSUME NEW g \in DOMAIN Groups, NEW S
      PROVE  /\ Cardinality(Groups[g] \cap S) \in Nat
             /\ Groups[g] \cap S # {} => Cardinality(Groups[g] \cap S) > 0
  <2>1. IsFiniteSet(Groups[g] \cap S)
    BY ServingAssumption, FS_Subset
  <2> QED  BY <2>1, FS_CardinalityType, FS_EmptySet
<1> QED  BY <1>1, <1>2, <1>3, <1>4

(* Where engines only go while nobody publishes, what is left has joined.    *)
LEMMA ShrinkJoined ==
    ASSUME Joined, \A x \in Engines : Shrinks(eng[x], eng'[x]),
           \A d \in Drivers : Attached(d)' => Attached(d) /\ ~Publishing(d)',
           inbox' \subseteq inbox, UNCHANGED <<fresh, reused, trainers, late>>,
           call' # None /\ call'.step = "commit" => call # None /\ call.step = "commit"
    PROVE  Joined'
<1>1. \A e \in Engines : eng[e].slot = "empty" => eng'[e].slot = "empty"
  BY DEF Shrinks, Vacated
<1>2. \A d : \A e \in Engines : eng[e].peer = d => eng'[e].slot = "empty" \/ eng'[e].peer = d
  BY DEF Shrinks, Vacated
<1>3. Marked' = Marked
  BY DEF Marked
<1>4. late' = 0 => \A d \in Drivers, op \in TrainerCalls : <<op, d>> \in inbox' => trainers'[d] = "up"
  BY DEF Joined
<1>5. ~reused' \/ (call' # None /\ call'.step = "commit") => Marked' \/ \A e \in Engines : eng'[e].slot = "empty"
  BY <1>1, <1>3 DEF Joined
<1>6. ASSUME NEW d \in Drivers, Attached(d)'
      PROVE  /\ late' = 0 => Marked' \/ \A e \in Engines : eng'[e].slot = "empty" \/ eng'[e].peer = d
             /\ ~Publishing(d)' /\ pc'[d] # "clearing" /\ pc'[d] # "install"
  <2>1. Attached(d) /\ ~Publishing(d)'
    BY <1>6
  <2>2. late = 0 => Marked \/ \A e \in Engines : eng[e].slot = "empty" \/ eng[e].peer = d
    BY <2>1 DEF Joined
  <2>3. pc'[d] # "clearing" /\ pc'[d] # "install"
    BY <2>1 DEF Publishing
  <2> QED  BY <1>1, <1>2, <1>3, <2>1, <2>2, <2>3
<1> QED  BY <1>4, <1>5, <1>6 DEF Joined

(* An RPC that raises ends the attempt it serves. *)
LEMMA Raised ==
    ASSUME IInv, call # None, call.op # "detach", Raise,
           Quiet => Quiet', UNCHANGED <<owner, reused, registered, trainers, handles, wv, late>>
    PROVE  /\ Requested' /\ Calling' /\ Owning' /\ Pausing' /\ Managed'
           /\ pc' \in [Drivers -> Places] /\ phase' \in [Drivers -> Phases]
           /\ call' = None /\ inbox' = inbox
           /\ \A x \in Drivers : Attached(x)' => Attached(x) /\ x # call.d /\ pc'[x] = pc[x]
           /\ \A x \in Drivers : Publisher(x)' => Publisher(x) /\ pc'[x] = pc[x]
<1> USE DEF IInv
<1>a. call.d \in Drivers /\ call' = None /\ inbox' = inbox
  BY CallTypes DEF Raise
<1>b. /\ pc' \in [Drivers -> Places] /\ phase' \in [Drivers -> Phases]
      /\ pc'[call.d] = "failed" /\ \A x \in Drivers : x # call.d => pc'[x] = pc[x] /\ phase'[x] = phase[x]
      /\ phase'[call.d] # "run" /\ (phase'[call.d] \in {phase[call.d], "close"})
      /\ (phase'[call.d] = "close" => phase[call.d] \in {"run", "close"})
  BY <1>a DEF Raise, Abandoned, TypeOK, Places, Phases
<1>c. \A x \in Drivers : Attached(x)' => Attached(x) /\ x # call.d /\ pc'[x] = pc[x]
  BY <1>a, <1>b DEF Attached
<1>d. \A x \in Drivers : Publisher(x)' => Publisher(x) /\ pc'[x] = pc[x]
  BY <1>a, <1>b, <1>c DEF Publisher
<1>e. call.op \in {"attach", "recover", "finish"}
  BY CallTypes DEF OwnerCalls
<1>1. Requested'
  <2>1. \A x \in Drivers : x # call.d => pc'[x] = pc[x] /\ phase'[x] = phase[x]
    BY <1>b
  <2>2. pc[call.d] \in {"attach", "recover", "finish"} /\ \A op \in {"attach", "recover", "clear", "finish"} :
            <<op, call.d>> \notin inbox
    BY <1>a, <1>e DEF Calling, Requested
  <2>3. phase[call.d] # "new" /\ phase'[call.d] # "new"
    BY <1>a, <1>b, <2>2 DEF Requested
  <2>4. <<"detach", call.d>> \in inbox => phase'[call.d] \in {"closing", "dead"}
    BY <1>a, <1>b DEF Requested
  <2> QED  BY <1>a, <1>b, <2>1, <2>2, <2>3, <2>4 DEF Requested
<1>2. Calling'
  BY <1>a DEF Calling
<1>3. Owning'
  BY <1>a, <1>b, <1>c DEF Owning, OwnerKept, PublisherOwns
<1>4. Pausing'
  BY <1>a, <1>c DEF Pausing, InUpdate
<1>5. Managed'
  BY <1>a, <1>b, <1>c DEF Managed, ManagerFree
<1> QED  BY <1>a, <1>b, <1>c, <1>d, <1>1, <1>2, <1>3, <1>4, <1>5

(* An RPC goes on with its next step. *)
LEMMA GoesOn ==
    ASSUME IInv, call # None, call' \in Calls, call'.op = call.op, call'.d = call.d, Fits(call'),
           call'.step \in {"reset", "commit"} => registered = {},
           UNCHANGED <<owner, reused, registered, trainers, inbox, attempts, late>>
    PROVE  Requested' /\ Calling' /\ Owning' /\ Managed'
<1> USE DEF IInv
<1>1. Requested' /\ Owning'
  BY DEF Requested, Owning, OwnerKept, PublisherOwns, Attached
<1>2. Calling'
  BY DEF Calling
<1>3. Managed'
  BY DEF Managed, ManagerFree, Attached
<1> QED  BY <1>1, <1>2, <1>3

(* A pause is done with one monitor, or gives up waiting for its lock: the    *)
(* next monitor, the end of the call in an error, or its next step.           *)
LEMMA AfterPauses ==
    ASSUME IInv, call # None, call.step \in {"pause", "wait"}, NEW failed \in BOOLEAN, AfterPause(failed),
           mon' \in [DOMAIN Groups -> Monitor],
           \A g \in DOMAIN Groups : /\ mon'[g].thread = mon[g].thread /\ mon'[g].bad = mon[g].bad
                                    /\ mon[g].paused => mon'[g].paused,
           mon'[call.at].paused, failed \/ Still(call.at),
           UNCHANGED <<eng, fresh, owner, reused, registered, trainers, handles, wv, faults, late>>
    PROVE  IInv'
<1> USE DEF IInv
<1>a. /\ call \in Calls /\ call.op \in OwnerCalls /\ call.d \in Drivers /\ call.err \in BOOLEAN
      /\ call.at \in 1..Len(Groups) /\ DOMAIN Groups = 1..Len(Groups) /\ Len(Groups) \in Nat
  BY CallTypes, GroupFacts
<1>b. /\ \A g \in DOMAIN Groups : Still(g)' <=> Still(g)
      /\ Quiet => Quiet'
  BY DEF Still, Quiet
<1>c. call' = None \/ call'.step # "retire" => Probed'
  BY DEF Probed
<1>d. UNCHANGED <<eng, fresh>>
  OBVIOUS
<1> DEFINE err == call.err \/ failed
           next == CASE call.op \in {"attach", "detach"} -> "release"
                     [] call.op = "recover" -> "start"
                     [] call.op = "finish" -> "check"
<1>e. \/ /\ call.at < Len(Groups)
         /\ call' = [call EXCEPT !.step = "pause", !.at = @ + 1, !.err = err] /\ UNCHANGED <<pc, phase, inbox>>
      \/ call.at = Len(Groups) /\ err /\ call.op # "detach" /\ Raise
      \/ /\ ~(call.at < Len(Groups)) /\ ~(call.at = Len(Groups) /\ err /\ call.op # "detach")
         /\ call' = [call EXCEPT !.step = next, !.at = 1, !.err = err] /\ UNCHANGED <<pc, phase, inbox>>
  <2>1. CASE call.at < Len(Groups)
    BY <2>1, <1>a DEF AfterPause
  <2>2. CASE call.at = Len(Groups) /\ err /\ call.op # "detach"
    BY <2>2, <1>a DEF AfterPause
  <2>3. CASE ~(call.at < Len(Groups)) /\ ~(call.at = Len(Groups) /\ err /\ call.op # "detach")
    BY <2>3 DEF AfterPause
  <2> QED  BY <2>1, <2>2, <2>3
<1>f. err \in BOOLEAN /\ (~err => ~failed /\ ~call.err) /\ (err => failed \/ call.err)
  BY <1>a
<1>g. /\ next \in {"release", "start", "check"} /\ next \in Steps /\ 1 \in DOMAIN Groups
      /\ next = "release" => call.op \in {"attach", "detach"}
      /\ next = "start" => call.op = "recover"
      /\ next = "check" => call.op = "finish"
  BY <1>a DEF OwnerCalls, Steps
<1> HIDE DEF err, next
<1>1. CASE /\ call.at < Len(Groups)
           /\ call' = [call EXCEPT !.step = "pause", !.at = @ + 1, !.err = err] /\ UNCHANGED <<pc, phase, inbox>>
  <2>1. call.at + 1 \in DOMAIN Groups /\ "pause" \in Steps
    BY <1>1, <1>a DEF Steps
  <2>2. /\ call' \in Calls /\ call'.op = call.op /\ call'.d = call.d /\ call'.step = "pause"
        /\ call'.at = call.at + 1 /\ call'.err = err
    BY <1>1, <1>a, <1>f, <2>1 DEF Calls
  <2>3. Requested' /\ Calling' /\ Owning' /\ Managed'
    BY <1>1, <2>2, GoesOn DEF Fits
  <2>4. Pausing'
    <3>1. ASSUME NEW g \in DOMAIN Groups, g < call'.at
          PROVE  mon'[g].paused /\ (call'.err \/ Still(g)')
      <4>1. g < call.at \/ g = call.at
        BY <1>a, <2>2, <3>1
      <4>2. CASE g < call.at
        <5>1. mon[g].paused /\ (call.err \/ Still(g))
          BY <4>2 DEF Pausing
        <5> QED  BY <1>b, <1>f, <2>2, <5>1
      <4>3. CASE g = call.at
        BY <1>b, <1>f, <2>2, <4>3
      <4> QED  BY <4>1, <4>2, <4>3
    <3>2. \A x \in Drivers : Attached(x)' /\ InUpdate(x)' => Quiet'
      BY <1>b, <1>1 DEF Pausing, Attached, InUpdate
    <3> QED  BY <2>2, <3>1, <3>2 DEF Pausing
  <2>5. Joined' /\ Served' /\ Growing'
    BY <1>1, <2>2 DEF Joined, Marked, Publishing, Attached, Served, Growing, Publisher
  <2>6. TypeOK'
    BY <1>1, <2>2 DEF TypeOK
  <2> QED  BY <1>c, <2>2, <2>3, <2>4, <2>5, <2>6
<1>2. CASE call.at = Len(Groups) /\ err /\ call.op # "detach" /\ Raise
  <2>1. /\ Requested' /\ Calling' /\ Owning' /\ Pausing' /\ Managed'
        /\ pc' \in [Drivers -> Places] /\ phase' \in [Drivers -> Phases]
        /\ call' = None /\ inbox' = inbox
        /\ \A x \in Drivers : Attached(x)' => Attached(x) /\ x # call.d /\ pc'[x] = pc[x]
        /\ \A x \in Drivers : Publisher(x)' => Publisher(x) /\ pc'[x] = pc[x]
    BY <1>2, <1>b, Raised
  <2>2. Joined' /\ Served' /\ Growing'
    BY <2>1 DEF Joined, Marked, Publishing, Served, Growing
  <2>3. TypeOK'
    BY <2>1 DEF TypeOK
  <2> QED  BY <1>c, <2>1, <2>2, <2>3
<1>3. CASE /\ ~(call.at < Len(Groups)) /\ ~(call.at = Len(Groups) /\ err /\ call.op # "detach")
           /\ call' = [call EXCEPT !.step = next, !.at = 1, !.err = err] /\ UNCHANGED <<pc, phase, inbox>>
  <2>1. call.at = Len(Groups) /\ (call.op # "detach" => ~err)
    BY <1>3, <1>a
  <2>2. /\ call' \in Calls /\ call'.op = call.op /\ call'.d = call.d /\ call'.step = next
    BY <1>3, <1>a, <1>f, <1>g DEF Calls
  <2>3. Requested' /\ Calling' /\ Owning' /\ Managed'
    BY <1>3, <1>g, <2>2, GoesOn DEF Fits
  <2>4. Pausing'
    <3>1. call.op # "detach" => Quiet'
      <4> SUFFICES ASSUME call.op # "detach", NEW g \in DOMAIN Groups PROVE mon'[g].paused /\ Still(g)'
        BY DEF Quiet
      <4>1. g < call.at \/ g = call.at
        BY <2>1, <1>a
      <4>2. CASE g < call.at
        <5>1. mon[g].paused /\ (call.err \/ Still(g))
          BY <4>2 DEF Pausing
        <5> QED  BY <1>b, <1>f, <2>1, <5>1
      <4>3. CASE g = call.at
        BY <1>b, <1>f, <2>1, <4>3
      <4> QED  BY <4>1, <4>2, <4>3
    <3>2. \A x \in Drivers : Attached(x)' /\ InUpdate(x)' => Quiet'
      BY <1>b, <1>3 DEF Pausing, Attached, InUpdate
    <3> QED  BY <1>g, <2>2, <3>1, <3>2 DEF Pausing
  <2>5. Joined' /\ Served' /\ Growing'
    BY <1>3, <1>g, <2>2 DEF Joined, Marked, Publishing, Attached, Served, Growing, Publisher
  <2>6. TypeOK'
    BY <1>3, <2>2 DEF TypeOK
  <2> QED  BY <1>c, <1>g, <2>2, <2>3, <2>4, <2>5, <2>6
<1> QED  BY <1>1, <1>2, <1>3, <1>e

(* An RPC returns, and the attempt it serves goes on.                         *)
LEMMA Returned ==
    ASSUME IInv, call # None, call.op \in {"recover", "finish"}, NEW next \in {"engines", "train"}, Return(next),
           Quiet', UNCHANGED <<owner, reused, registered, trainers, handles, wv, late>>
    PROVE  /\ Requested' /\ Calling' /\ Owning' /\ Pausing' /\ Managed'
           /\ pc' \in [Drivers -> Places] /\ phase' = phase /\ call' = None /\ inbox' = inbox
           /\ \A x \in Drivers : Attached(x)' => Attached(x) /\ (pc'[x] = pc[x] \/ pc'[x] = next)
           /\ \A x \in Drivers : Publisher(x)' => Publisher(x)
           /\ \A x \in Drivers : pc'[x] # pc[x] => x = call.d /\ pc'[x] = next /\ pc[x] \in {"recover", "finish"}
<1> USE DEF IInv
<1>a. call.d \in Drivers /\ call' = None /\ inbox' = inbox /\ phase' = phase
  BY CallTypes DEF Return
<1>b. /\ pc' \in [Drivers -> Places] /\ pc'[call.d] = next
      /\ \A x \in Drivers : x # call.d => pc'[x] = pc[x]
  BY <1>a DEF Return, TypeOK, Places
<1>c. pc[call.d] \in {"recover", "finish"} /\ \A op \in {"attach", "recover", "clear", "finish"} : <<op, call.d>> \notin inbox
  BY <1>a DEF Calling, Requested
<1>d. \A x \in Drivers : Attached(x)' => Attached(x) /\ (pc'[x] = pc[x] \/ pc'[x] = next)
  BY <1>a, <1>b, <1>c DEF Attached
<1>e. \A x \in Drivers : Publisher(x)' => Publisher(x)
  BY <1>a, <1>b, <1>c, <1>d DEF Publisher
<1>1. Requested'
  <2>1. \A x \in Drivers : x # call.d => pc'[x] = pc[x]
    BY <1>b
  <2>2. phase[call.d] # "new" /\ reused
    BY <1>a, <1>c DEF Requested
  <2> QED  BY <1>a, <1>b, <1>c, <2>1, <2>2 DEF Requested
<1>2. Calling'
  BY <1>a DEF Calling
<1>3. Owning'
  BY <1>a, <1>b, <1>c, <1>d DEF Owning, OwnerKept, PublisherOwns, Attached
<1>4. Pausing'
  BY <1>a DEF Pausing
<1>5. Managed'
  <2>1. ASSUME NEW x \in Drivers, Attached(x)', pc'[x] # "bind"
        PROVE  ManagerFree(x)'
    <3>1. Attached(x) /\ pc[x] # "bind"
      BY <1>b, <1>c, <1>d, <2>1
    <3> QED  BY <1>a, <1>b, <3>1 DEF Managed, ManagerFree
  <2> QED  BY <1>a, <2>1 DEF Managed
<1> QED  BY <1>a, <1>b, <1>c, <1>d, <1>e, <1>1, <1>2, <1>3, <1>4, <1>5

-----------------------------------------------------------------------------
(* One lemma for each action *)

(* A monitor that saw no pause sets out for its lock; nothing the invariant *)
(* relates changes.                                                         *)
LEMMA MonitorWakeStep ==
    ASSUME IInv, NEW g \in DOMAIN Groups, MonitorWake(g)
    PROVE  IInv'
<1> USE DEF IInv
<1>1. TypeOK'
  <2>1. mon' = [mon EXCEPT ![g] = [mon[g] EXCEPT !.thread = "go"]]
    BY DEF MonitorWake
  <2>2. [mon[g] EXCEPT !.thread = "go"] \in Monitor
    BY DEF TypeOK, Monitor
  <2> QED  BY <2>1, <2>2, MonitorTyped DEF TypeOK, MonitorWake
<1>2. Requested'
  BY DEF Requested, TypeOK, MonitorWake
<1>3. Calling'
  BY CallTypes DEF Calling, Fits, TypeOK, Requested, Attached, MonitorWake
<1>4. Probed'
  BY CallTypes DEF Probed, TypeOK, Pausing, Quiet, Still, Calling, Fits, MonitorWake
<1>5. Owning'
  BY CallTypes DEF Owning, OwnerKept, PublisherOwns, Attached, TypeOK, Requested, Calling, Fits,
     MonitorWake
<1>6. Pausing'
  BY CallTypes DEF Pausing, Quiet, Still, InUpdate, Attached, TypeOK, MonitorWake
<1>7. Managed'
  BY CallTypes DEF Managed, ManagerFree, TrainerCalls, Attached, TypeOK, Owning, OwnerKept,
     PublisherOwns, MonitorWake
<1>8. Joined'
  BY DEF Joined, Marked, Publishing, TrainerCalls, Attached, TypeOK, MonitorWake
<1>9. Served'
  BY DEF Served, Attached, TypeOK, MonitorWake
<1>10. Growing'
  BY DEF Growing, Publisher, Attached, TypeOK, MonitorWake
<1> QED  BY <1>1, <1>2, <1>3, <1>4, <1>5, <1>6, <1>7, <1>8, <1>9, <1>10

(* A monitor that finds a pause under its lock goes back; one that starts a *)
(* check was not paused, so that no attempt counts on it to be still.       *)
LEMMA MonitorCheckStep ==
    ASSUME IInv, NEW g \in DOMAIN Groups, MonitorCheck(g)
    PROVE  IInv'
<1> USE DEF IInv
<1>a. PICK m \in Monitor :
        /\ mon' = [mon EXCEPT ![g] = m] /\ m.paused = mon[g].paused
        /\ m.thread = "check" => ~m.paused /\ m.bad \in FailedProbes(g)
  <2>1. CASE mon[g].paused
    <3>1. mon' = [mon EXCEPT ![g] = [mon[g] EXCEPT !.thread = "top"]]
      BY <2>1 DEF MonitorCheck
    <3>2. /\ [mon[g] EXCEPT !.thread = "top"] \in Monitor
          /\ [mon[g] EXCEPT !.thread = "top"].thread = "top"
          /\ [mon[g] EXCEPT !.thread = "top"].paused = mon[g].paused
      BY DEF TypeOK, Monitor
    <3> QED  BY <3>1, <3>2
  <2>2. CASE ~mon[g].paused
    <3>1. PICK bad \in FailedProbes(g) : mon' = [mon EXCEPT ![g].thread = "check", ![g].bad = bad]
      BY <2>2 DEF MonitorCheck
    <3>2. mon' = [mon EXCEPT ![g] = [mon[g] EXCEPT !.thread = "check", !.bad = bad]]
      BY <3>1 DEF TypeOK
    <3>3. bad \subseteq Engines
      BY GroupFacts DEF FailedProbes
    <3>4. /\ [mon[g] EXCEPT !.thread = "check", !.bad = bad] \in Monitor
          /\ [mon[g] EXCEPT !.thread = "check", !.bad = bad].bad = bad
          /\ [mon[g] EXCEPT !.thread = "check", !.bad = bad].paused = mon[g].paused
      BY <3>3 DEF TypeOK, Monitor
    <3> QED  BY <2>2, <3>2, <3>4
  <2> QED  BY <2>1, <2>2
<1>b. mon'[g] = m /\ \A h \in DOMAIN Groups : h # g => mon'[h] = mon[h]
  BY <1>a DEF TypeOK
<1>c. UNCHANGED <<eng, fresh, serving, trainers, attempts, late>>
  BY DEF MonitorCheck
<1>d. \A h \in DOMAIN Groups : mon'[h].paused = mon[h].paused /\ (mon[h].paused => (Still(h) => Still(h)'))
  BY <1>a, <1>b DEF Still
<1>1. TypeOK'
  BY <1>a, <1>c, MonitorTyped DEF TypeOK
<1>2. Requested'
  BY <1>c DEF Requested
<1>3. Calling'
  BY <1>c DEF Calling
<1>4. Probed'
  BY <1>a, <1>b, <1>c DEF Probed, FailedProbes
<1>5. Owning'
  BY <1>c DEF Owning, OwnerKept, PublisherOwns, Attached
<1>6. Pausing'
  BY <1>c, <1>d, CallTypes DEF Pausing, Quiet, InUpdate, Attached
<1>7. Managed'
  BY <1>c DEF Managed, ManagerFree, Attached
<1>8. Joined'
  BY <1>c DEF Joined, Marked, Publishing, Attached
<1>9. Served'
  BY <1>c DEF Served, Attached
<1>10. Growing'
  BY <1>c DEF Growing, Publisher, Attached
<1> QED  BY <1>1, <1>2, <1>3, <1>4, <1>5, <1>6, <1>7, <1>8, <1>9, <1>10

(* A check under way retires an engine: no attempt is in an update, and     *)
(* another monitor's engines are not touched.                               *)
LEMMA MonitorRetireStep ==
    ASSUME IInv, NEW g \in DOMAIN Groups, MonitorRetire(g)
    PROVE  IInv'
<1> USE DEF IInv
<1>a0. PICK e \in mon[g].bad : \E r \in RetireResults(e) :
        /\ eng' = [eng EXCEPT ![e] = r.eng]
        /\ mon' = CASE r.error = "none" -> [mon EXCEPT ![g].bad = @ \ {e}]
                    [] r.error = "request" -> [mon EXCEPT ![g].thread = "top", ![g].bad = {}]
                    [] r.error = "shutdown" -> [mon EXCEPT ![g].thread = "gone", ![g].bad = {}]
  BY DEF MonitorRetire
<1>a. PICK r \in RetireResults(e) :
        /\ eng' = [eng EXCEPT ![e] = r.eng]
        /\ mon' = CASE r.error = "none" -> [mon EXCEPT ![g].bad = @ \ {e}]
                    [] r.error = "request" -> [mon EXCEPT ![g].thread = "top", ![g].bad = {}]
                    [] r.error = "shutdown" -> [mon EXCEPT ![g].thread = "gone", ![g].bad = {}]
  BY <1>a0
<1>b. /\ mon[g].thread = "check" /\ UNCHANGED <<fresh, serving, trainers, attempts, late>>
  BY DEF MonitorRetire
<1>c. e \in Engines /\ e \in Groups[g] /\ eng[e].slot # "empty"
  BY <1>b, GroupFacts DEF Probed
<1>d. /\ eng' \in [Engines -> Engine]
      /\ \A x \in Engines : Shrinks(eng[x], eng'[x]) /\ (x # e => eng'[x] = eng[x])
      /\ eng'[e].slot = "empty" \/ r.error # "none"
  BY <1>a, <1>c, Retired
<1>e. PICK m \in Monitor :
        /\ mon' = [mon EXCEPT ![g] = m] /\ m.paused = mon[g].paused /\ m.bad \subseteq mon[g].bad
        /\ m.thread = "check" => e \notin m.bad
  <2>1. r.error \in {"none", "request", "shutdown"}
    BY DEF RetireResults
  <2>2. CASE r.error = "none"
    <3> DEFINE m == [mon[g] EXCEPT !.bad = mon[g].bad \ {e}]
    <3>1. mon' = [mon EXCEPT ![g] = m]
      BY <1>a, <2>2 DEF TypeOK
    <3>2. m \in Monitor /\ m.paused = mon[g].paused /\ m.bad = mon[g].bad \ {e}
      BY DEF TypeOK, Monitor
    <3> QED  BY <3>1, <3>2
  <2>3. CASE r.error = "request"
    <3> DEFINE m == [mon[g] EXCEPT !.thread = "top", !.bad = {}]
    <3>1. mon' = [mon EXCEPT ![g] = m]
      BY <1>a, <2>3 DEF TypeOK
    <3>2. m \in Monitor /\ m.paused = mon[g].paused /\ m.bad = {} /\ m.thread = "top"
      BY DEF TypeOK, Monitor
    <3> QED  BY <3>1, <3>2
  <2>4. CASE r.error = "shutdown"
    <3> DEFINE m == [mon[g] EXCEPT !.thread = "gone", !.bad = {}]
    <3>1. mon' = [mon EXCEPT ![g] = m]
      BY <1>a, <2>4 DEF TypeOK
    <3>2. m \in Monitor /\ m.paused = mon[g].paused /\ m.bad = {} /\ m.thread = "gone"
      BY DEF TypeOK, Monitor
    <3> QED  BY <3>1, <3>2
  <2> QED  BY <2>1, <2>2, <2>3, <2>4
<1>f. mon'[g] = m /\ \A h \in DOMAIN Groups : h # g => mon'[h] = mon[h]
  BY <1>e DEF TypeOK
<1>g. ~Quiet
  BY <1>b DEF Quiet, Still
<1>h. \A x \in Drivers : Attached(x) => ~InUpdate(x) /\ ~Publishing(x)
  BY <1>g DEF Pausing, InUpdate, Publishing
<1>1. TypeOK'
  BY <1>b, <1>d, <1>e, MonitorTyped DEF TypeOK
<1>2. Requested'
  BY <1>b DEF Requested
<1>3. Calling'
  BY <1>b DEF Calling
<1>4. Probed'
  <2>1. ASSUME NEW h \in DOMAIN Groups, mon'[h].thread = "check", NEW y \in mon'[h].bad
        PROVE  y \in Groups[h] /\ eng'[y].slot # "empty"
    <3>1. CASE h = g
      <4>1. y # e /\ y \in mon[g].bad
        BY <1>e, <1>f, <2>1, <3>1
      <4>2. y \in Groups[g] /\ eng[y].slot # "empty" /\ y \in Engines
        BY <1>b, <4>1, GroupFacts DEF Probed
      <4> QED  BY <1>d, <3>1, <4>1, <4>2
    <3>2. CASE h # g
      <4>1. y \in Groups[h] /\ eng[y].slot # "empty" /\ y \in Engines
        BY <1>f, <2>1, <3>2, GroupFacts DEF Probed
      <4>2. y # e
        BY <1>c, <3>2, <4>1, ServingAssumption
      <4> QED  BY <1>d, <4>1, <4>2
    <3> QED  BY <3>1, <3>2
  <2>2. ~(call # None /\ call.step = "retire")
    BY <1>g, CallTypes DEF Pausing, Calling, Fits
  <2> QED  BY <1>b, <2>1, <2>2 DEF Probed
<1>5. Owning'
  BY <1>b DEF Owning, OwnerKept, PublisherOwns, Attached
<1>6. Pausing'
  BY <1>b, <1>e, <1>f, <1>g, <1>h, CallTypes DEF Pausing, Still, Attached, InUpdate
<1>7. Managed'
  BY <1>b DEF Managed, ManagerFree, Attached
<1>8. Joined'
  BY <1>b, <1>d, <1>h, ShrinkJoined DEF Attached, Publishing
<1>9. Served'
  BY <1>b, <1>d, ShrinkServed DEF Attached
<1>10. Growing'
  BY <1>b, <1>d, ShrinkGrowing DEF Publisher, Attached
<1> QED  BY <1>1, <1>2, <1>3, <1>4, <1>5, <1>6, <1>7, <1>8, <1>9, <1>10

(* A check that has retired all it had to ends. *)
LEMMA MonitorDoneStep ==
    ASSUME IInv, NEW g \in DOMAIN Groups, MonitorDone(g)
    PROVE  IInv'
<1> USE DEF IInv
<1>1. TypeOK'
  <2>1. mon' = [mon EXCEPT ![g] = [mon[g] EXCEPT !.thread = "top"]]
    BY DEF MonitorDone
  <2>2. [mon[g] EXCEPT !.thread = "top"] \in Monitor
    BY DEF TypeOK, Monitor
  <2> QED  BY <2>1, <2>2, MonitorTyped DEF TypeOK, MonitorDone
<1>2. Requested'
  BY DEF Requested, TypeOK, MonitorDone
<1>3. Calling'
  BY CallTypes DEF Calling, Fits, TypeOK, Requested, Attached, MonitorDone
<1>4. Probed'
  BY CallTypes DEF Probed, TypeOK, Pausing, Quiet, Still, Calling, Fits, MonitorDone
<1>5. Owning'
  BY CallTypes DEF Owning, OwnerKept, PublisherOwns, Attached, TypeOK, Requested, Calling, Fits,
     MonitorDone
<1>6. Pausing'
  BY CallTypes DEF Pausing, Quiet, Still, InUpdate, Attached, TypeOK, MonitorDone
<1>7. Managed'
  BY CallTypes DEF Managed, ManagerFree, TrainerCalls, Attached, TypeOK, Owning, OwnerKept,
     PublisherOwns, MonitorDone
<1>8. Joined'
  BY DEF Joined, Marked, Publishing, TrainerCalls, Attached, TypeOK, MonitorDone
<1>9. Served'
  BY DEF Served, Attached, TypeOK, MonitorDone
<1>10. Growing'
  BY DEF Growing, Publisher, Attached, TypeOK, MonitorDone
<1> QED  BY <1>1, <1>2, <1>3, <1>4, <1>5, <1>6, <1>7, <1>8, <1>9, <1>10

(* The serving actor takes up a request: it refuses it, or begins a pause   *)
(* that no monitor has answered yet, for the attempt that runs or for one   *)
(* that finds the session free.                                             *)
LEMMA AcceptStep ==
    ASSUME IInv, NEW op \in OwnerCalls, NEW d \in Drivers, Accept(op, d)
    PROVE  IInv'
<1> USE DEF IInv
<1>a. /\ call = None /\ <<op, d>> \in inbox /\ inbox' = inbox \ {<<op, d>>}
      /\ UNCHANGED <<eng, fresh, mon, owner, reused, registered, trainers, handles, wv, faults, late>>
  BY DEF Accept
<1>b. inbox' \subseteq Requests /\ IsFiniteSet(inbox')
  BY <1>a, Taken
<1> DEFINE begun == [op |-> op, d |-> d, step |-> "pause", at |-> 1, bad |-> {}, err |-> FALSE]
<1>c. \/ op = "attach" /\ pc' = [pc EXCEPT ![d] = "failed"] /\ phase' = Abandoned(d) /\ call' = None
      \/ op = "detach" /\ phase' = [phase EXCEPT ![d] = "dead"] /\ pc' = pc /\ call' = None
      \/ /\ call' = begun /\ pc' = pc /\ phase' = phase
         /\ op = "attach" => owner = None \/ phase[owner] = "dead"
         /\ op = "detach" => owner = d
  BY <1>a DEF Accept
<1>1. CASE op = "attach" /\ pc' = [pc EXCEPT ![d] = "failed"] /\ phase' = Abandoned(d) /\ call' = None
  <2>1. /\ pc[d] = "attach" /\ phase[d] # "new" /\ trainers[d] # "up"
        /\ \A x \in {"recover", "clear", "finish"} : <<x, d>> \notin inbox
    BY <1>a, <1>1 DEF Requested
  <2>2. /\ pc' \in [Drivers -> Places] /\ phase' \in [Drivers -> Phases] /\ pc'[d] = "failed"
        /\ phase'[d] # "run" /\ phase'[d] # "new" /\ (phase[d] \in {"closing", "dead"} => phase'[d] = phase[d])
        /\ \A x \in Drivers : x # d => pc'[x] = pc[x] /\ phase'[x] = phase[x]
    BY <1>1, <2>1 DEF Abandoned, TypeOK, Places, Phases
  <2>3. \A x \in Drivers : Attached(x)' => Attached(x) /\ x # d /\ pc'[x] = pc[x]
    BY <2>2 DEF Attached
  <2>4. TypeOK'
    BY <1>a, <1>b, <1>1, <2>2 DEF TypeOK
  <2>5. Requested'
    <3>1. inbox' \subseteq inbox /\ reused' = reused /\ trainers' = trainers /\ <<op, d>> \notin inbox'
      BY <1>a
    <3>2. \A x \in Drivers : x # d => pc'[x] = pc[x] /\ phase'[x] = phase[x]
      BY <2>2
    <3>3. <<"detach", d>> \in inbox' => phase'[d] \in {"closing", "dead"}
      BY <3>1, <2>2 DEF Requested
    <3>4. <<"attach", d>> \notin inbox'
      BY <3>1, <1>1
    <3>5. \A x \in {"recover", "clear", "finish"} : <<x, d>> \notin inbox'
      BY <3>1, <2>1
    <3> QED  BY <2>1, <2>2, <3>1, <3>2, <3>3, <3>4, <3>5 DEF Requested
  <2>6. Calling' /\ Probed' /\ Pausing'
    BY <1>a, <1>1, <2>3 DEF Calling, Probed, Pausing, Quiet, Still, InUpdate
  <2>7. Owning' /\ Managed'
    BY <1>a, <1>1, <2>2, <2>3 DEF Owning, OwnerKept, PublisherOwns, Managed, ManagerFree
  <2>8. Joined' /\ Served'
    BY <1>a, <1>1, <2>3 DEF Joined, Marked, Publishing, Served
  <2>9. Growing'
    BY <1>a, <2>1, <2>2, <2>3 DEF Growing, Publisher
  <2> QED  BY <2>4, <2>5, <2>6, <2>7, <2>8, <2>9
<1>2. CASE op = "detach" /\ phase' = [phase EXCEPT ![d] = "dead"] /\ pc' = pc /\ call' = None
  <2>1. phase[d] \in {"closing", "dead"}
    BY <1>a, <1>2 DEF Requested
  <2>2. /\ phase' \in [Drivers -> Phases] /\ phase'[d] = "dead"
        /\ \A x \in Drivers : x # d => phase'[x] = phase[x]
    BY <1>2 DEF TypeOK, Phases
  <2>3. \A x \in Drivers : Attached(x)' => Attached(x)
    BY <1>2, <2>1, <2>2 DEF Attached
  <2>4. TypeOK'
    BY <1>a, <1>b, <1>2, <2>2 DEF TypeOK
  <2>5. Requested'
    BY <1>a, <1>2, <2>1, <2>2 DEF Requested
  <2>6. Calling' /\ Probed' /\ Pausing'
    BY <1>a, <1>2, <2>3 DEF Calling, Probed, Pausing, Quiet, Still, InUpdate
  <2>7. Owning' /\ Managed'
    BY <1>a, <1>2, <2>3 DEF Owning, OwnerKept, PublisherOwns, Managed, ManagerFree
  <2>8. Joined' /\ Served' /\ Growing'
    BY <1>a, <1>2, <2>3 DEF Joined, Marked, Publishing, Served, Growing, Publisher
  <2> QED  BY <2>4, <2>5, <2>6, <2>7, <2>8
<1>3. CASE /\ call' = begun /\ pc' = pc /\ phase' = phase
           /\ op = "attach" => owner = None \/ phase[owner] = "dead"
           /\ op = "detach" => owner = d
  <2>1. /\ begun \in Calls /\ begun.op = op /\ begun.d = d /\ begun.step = "pause" /\ begun.at = 1
    BY GroupFacts DEF Calls, Steps
  <2> HIDE DEF begun
  <2>2. \A x \in Drivers : Attached(x)' = Attached(x)
    BY <1>3 DEF Attached
  <2>3. TypeOK'
    BY <1>a, <1>b, <1>3, <2>1 DEF TypeOK
  <2>4. Requested'
    BY <1>a, <1>3 DEF Requested
  <2>5. Calling'
    BY <1>a, <1>3, <2>1 DEF Calling, Requested, Fits
  <2>6. Probed' /\ Owning'
    BY <1>a, <1>3, <2>1, <2>2 DEF Probed, Owning, OwnerKept, PublisherOwns
  <2>7. Pausing'
    <3>1. \A g \in DOMAIN Groups : ~(g < 1)
      BY GroupFacts
    <3> QED  BY <1>a, <1>3, <2>1, <2>2, <3>1 DEF Pausing, Quiet, Still, InUpdate
  <2>8. Managed'
    <3>1. ASSUME NEW x \in Drivers, Attached(x), pc[x] # "bind", op \in {"recover", "finish"}
          PROVE  d = x
      BY <1>a, <3>1 DEF Managed, ManagerFree, Requested, TrainerCalls
    <3> QED  BY <1>a, <1>3, <2>1, <2>2, <3>1 DEF Managed, ManagerFree
  <2>9. Joined' /\ Served' /\ Growing'
    BY <1>a, <1>3, <2>1, <2>2 DEF Joined, Marked, Publishing, Served, Growing, Publisher
  <2> QED  BY <2>3, <2>4, <2>5, <2>6, <2>7, <2>8, <2>9
<1> QED  BY <1>1, <1>2, <1>3, <1>c

(* A monitor that is not in a check has paused at once; the pause waits for *)
(* one that is.                                                             *)
LEMMA PauseMonitorStep ==
    ASSUME IInv, PauseMonitor
    PROVE  IInv'
<1> USE DEF IInv
<1>a. call # None /\ call.step = "pause" /\ call \in Calls /\ call.at \in DOMAIN Groups
  BY CallTypes DEF PauseMonitor, At
<1>b. /\ mon' \in [DOMAIN Groups -> Monitor] /\ mon'[call.at].paused
      /\ \A g \in DOMAIN Groups : /\ mon'[g].thread = mon[g].thread /\ mon'[g].bad = mon[g].bad
                                  /\ mon[g].paused => mon'[g].paused
  <2> DEFINE m == [mon[call.at] EXCEPT !.paused = TRUE]
  <2>1. mon' = [mon EXCEPT ![call.at] = m]
    BY DEF PauseMonitor
  <2>2. m \in Monitor /\ m.thread = mon[call.at].thread /\ m.bad = mon[call.at].bad /\ m.paused
    BY <1>a DEF TypeOK, Monitor
  <2> HIDE DEF m
  <2> QED  BY <1>a, <2>1, <2>2 DEF TypeOK
<1>c. UNCHANGED <<eng, fresh, owner, reused, registered, trainers, handles, wv, faults, late>>
  BY DEF PauseMonitor
<1>1. CASE ThreadHolds(call.at)
  <2>1. call' = [call EXCEPT !.step = "wait"] /\ UNCHANGED <<pc, phase, inbox>>
    BY <1>1 DEF PauseMonitor
  <2>2. /\ call' \in Calls /\ call'.op = call.op /\ call'.d = call.d /\ call'.step = "wait"
        /\ call'.at = call.at /\ call'.err = call.err
    BY <1>a, <2>1 DEF Calls, Steps
  <2>3. Requested' /\ Calling' /\ Owning' /\ Managed'
    BY <1>a, <1>c, <2>1, <2>2, GoesOn DEF Fits
  <2>4. Probed' /\ Pausing'
    BY <1>a, <1>b, <1>c, <2>1, <2>2 DEF Probed, Pausing, Quiet, Still, Attached, InUpdate
  <2>5. Joined' /\ Served' /\ Growing'
    BY <1>c, <2>1, <2>2 DEF Joined, Marked, Publishing, Attached, Served, Growing, Publisher
  <2>6. TypeOK'
    BY <1>b, <1>c, <2>1, <2>2 DEF TypeOK
  <2> QED  BY <2>3, <2>4, <2>5, <2>6
<1>2. CASE ~ThreadHolds(call.at)
  <2>1. AfterPause(FALSE)
    BY <1>2 DEF PauseMonitor
  <2>2. Still(call.at)
    BY <1>2 DEF ThreadHolds, Still
  <2> QED  BY <1>a, <1>b, <1>c, <2>1, <2>2, AfterPauses
<1> QED  BY <1>1, <1>2

(* The check that a pause waited for is over. *)
LEMMA PauseLockedStep ==
    ASSUME IInv, PauseLocked
    PROVE  IInv'
<1> USE DEF IInv
<1>1. /\ call # None /\ call.step = "wait" /\ AfterPause(FALSE) /\ call.at \in DOMAIN Groups
      /\ UNCHANGED <<eng, fresh, mon, owner, reused, registered, trainers, handles, wv, faults, late>>
  BY CallTypes DEF PauseLocked, At
<1>2. mon[call.at].paused /\ Still(call.at)
  BY <1>1 DEF PauseLocked, ThreadHolds, Still, Pausing
<1>3. mon' \in [DOMAIN Groups -> Monitor]
  BY <1>1 DEF TypeOK
<1> QED  BY <1>1, <1>2, <1>3, AfterPauses

(* A pause gives up waiting, and the call remembers the error. *)
LEMMA PauseTimeoutStep ==
    ASSUME IInv, PauseTimeout
    PROVE  IInv'
<1> USE DEF IInv
<1>1. /\ call # None /\ call.step = "wait" /\ AfterPause(TRUE) /\ call.at \in DOMAIN Groups
      /\ UNCHANGED <<eng, fresh, mon, owner, reused, registered, trainers, handles, wv, faults, late>>
  BY CallTypes DEF PauseTimeout, At
<1>2. mon[call.at].paused /\ TRUE
  BY <1>1 DEF PauseTimeout, ThreadHolds, Still, Pausing
<1>3. mon' \in [DOMAIN Groups -> Monitor]
  BY <1>1 DEF TypeOK
<1> QED  BY <1>1, <1>2, <1>3, AfterPauses

(* Trainers left by earlier attempts are killed before the next attempt     *)
(* owns the session, or it does not attach.                                 *)
LEMMA AttachReleaseStep ==
    ASSUME IInv, AttachRelease
    PROVE  IInv'
<1> USE DEF IInv
<1>a. /\ call # None /\ call.step = "release" /\ call.op = "attach" /\ call.d \in Drivers /\ call \in Calls
      /\ UNCHANGED <<eng, fresh, mon, owner, reused, handles, wv>>
  BY CallTypes DEF AttachRelease, At
<1>b. PICK K \in SUBSET registered :
        /\ KillTrainers(K) /\ registered' = registered \ K
        /\ IF K = registered
           THEN /\ call' = [call EXCEPT !.step = IF reused THEN "reset" ELSE "commit"]
                /\ UNCHANGED <<pc, phase>>
           ELSE /\ call' = None
                /\ pc' = [pc EXCEPT ![call.d] = "failed"]
                /\ phase' = Abandoned(call.d)
  BY DEF AttachRelease
<1>c. /\ trainers' \in [Drivers -> {"none", "up", "down"}]
      /\ \A d \in Drivers : trainers'[d] = IF d \in K THEN "down" ELSE trainers[d]
      /\ inbox' \subseteq inbox /\ inbox' \subseteq Requests /\ IsFiniteSet(inbox')
      /\ late' \in Nat /\ (late' = 0 => late = 0)
      /\ late' = 0 => \A op \in TrainerCalls, d \in K : <<op, d>> \notin inbox'
  <2>1. K \in SUBSET Drivers
    BY DEF TypeOK
  <2> QED  BY <1>b, <2>1, Killed
<1>d. /\ pc[call.d] = "attach" /\ phase[call.d] # "new" /\ \A x \in Drivers : ~Attached(x)
      /\ <<"attach", call.d>> \notin inbox /\ (owner = None \/ phase[owner] = "dead")
      /\ \A op \in {"recover", "clear", "finish"} : <<op, call.d>> \notin inbox
  BY <1>a, Alone DEF Calling, Requested
<1>e. Quiet
  BY <1>a DEF Pausing
<1>f. \/ /\ registered' = {} /\ call' \in Calls /\ call'.op = "attach" /\ call'.d = call.d
         /\ call'.step \in {"reset", "commit"} /\ (call'.step = "commit" => ~reused)
         /\ pc' = pc /\ phase' = phase
      \/ /\ call' = None /\ pc' \in [Drivers -> Places] /\ phase' \in [Drivers -> Phases]
         /\ pc'[call.d] = "failed" /\ phase'[call.d] \notin {"run", "new"}
         /\ phase[call.d] \in {"closing", "dead"} => phase'[call.d] = phase[call.d]
         /\ \A x \in Drivers : x # call.d => pc'[x] = pc[x] /\ phase'[x] = phase[x]
  <2>1. CASE K = registered
    <3> DEFINE step == IF reused THEN "reset" ELSE "commit"
    <3>1. step \in Steps /\ step \in {"reset", "commit"} /\ (step = "commit" => ~reused)
      BY DEF Steps
    <3>2. call' = [call EXCEPT !.step = step] /\ pc' = pc /\ phase' = phase /\ registered' = {}
      BY <1>b, <2>1
    <3> HIDE DEF step
    <3>3. call' \in Calls /\ call'.op = call.op /\ call'.d = call.d /\ call'.step = step
      BY <1>a, <3>1, <3>2 DEF Calls
    <3> QED  BY <1>a, <3>1, <3>2, <3>3
  <2>2. CASE K # registered
    <3>1. call' = None /\ pc' = [pc EXCEPT ![call.d] = "failed"] /\ phase' = Abandoned(call.d)
      BY <1>b, <2>2
    <3> QED  BY <1>a, <1>d, <3>1 DEF Abandoned, TypeOK, Places, Phases
  <2> QED  BY <2>1, <2>2
<1>g. /\ \A x \in Drivers : ~Attached(x)'
      /\ pc' \in [Drivers -> Places] /\ phase' \in [Drivers -> Phases] /\ call' \in Calls \cup {None}
  BY <1>d, <1>f DEF Attached, TypeOK
<1>h. \A x \in Drivers : trainers'[x] = "up" => trainers[x] = "up" /\ x \in registered' /\ (pc'[x] = pc[x] \/ pc'[x] = "failed")
  BY <1>b, <1>c, <1>f DEF Owning
<1>1. TypeOK'
  BY <1>a, <1>b, <1>c, <1>g DEF TypeOK
<1>2. Requested'
  <2>1. CASE pc' = pc /\ phase' = phase
    BY <1>a, <1>c, <2>1 DEF Requested
  <2>2. CASE /\ pc'[call.d] = "failed" /\ phase'[call.d] \notin {"run", "new"}
             /\ phase[call.d] \in {"closing", "dead"} => phase'[call.d] = phase[call.d]
             /\ \A x \in Drivers : x # call.d => pc'[x] = pc[x] /\ phase'[x] = phase[x]
    <3>1. /\ <<"attach", call.d>> \notin inbox' /\ <<"recover", call.d>> \notin inbox'
          /\ <<"clear", call.d>> \notin inbox' /\ <<"finish", call.d>> \notin inbox'
      BY <1>c, <1>d
    <3>2. <<"detach", call.d>> \in inbox' => phase'[call.d] \in {"closing", "dead"}
      BY <1>a, <1>c, <2>2 DEF Requested
    <3>3. pc'[call.d] = "failed" /\ phase'[call.d] # "new"
      BY <2>2
    <3>4. ASSUME NEW x \in Drivers, x # call.d
          PROVE  pc'[x] = pc[x] /\ phase'[x] = phase[x] /\ (trainers'[x] = "up" => trainers[x] = "up")
      BY <2>2, <1>h, <3>4
    <3>5. inbox' \subseteq inbox /\ reused' = reused
      BY <1>a, <1>c
    <3>6. ASSUME NEW x \in Drivers
          PROVE  /\ <<"attach", x>> \in inbox' => pc'[x] = "attach"
                 /\ <<"recover", x>> \in inbox' => pc'[x] = "recover"
                 /\ <<"clear", x>> \in inbox' => pc'[x] = "clearing"
                 /\ <<"finish", x>> \in inbox' => pc'[x] = "finish"
                 /\ <<"detach", x>> \in inbox' => phase'[x] \in {"closing", "dead"}
      BY <3>1, <3>2, <3>4, <3>5 DEF Requested
    <3>7. ASSUME NEW x \in Drivers
          PROVE  /\ phase'[x] = "new" => pc'[x] = "idle"
                 /\ pc'[x] \notin {"idle", "attach", "failed"} => reused'
                 /\ pc'[x] \in {"idle", "attach", "bind", "create"} => trainers'[x] # "up"
      BY <3>3, <3>4, <3>5 DEF Requested
    <3> QED  BY <3>6, <3>7 DEF Requested
  <2> QED  BY <1>f, <2>1, <2>2
<1>3. Calling'
  BY <1>a, <1>c, <1>d, <1>f DEF Calling, Fits
<1>4. Probed'
  BY <1>a, <1>e, <1>f DEF Probed, Quiet, Still
<1>5. Owning'
  BY <1>a, <1>g, <1>h DEF Owning, OwnerKept, PublisherOwns
<1>6. Pausing'
  BY <1>a, <1>e, <1>f, <1>g DEF Pausing, Quiet, Still
<1>7. Managed'
  BY <1>g DEF Managed
<1>8. Joined'
  <2>1. late' = 0 => \A d \in Drivers, op \in TrainerCalls : <<op, d>> \in inbox' => trainers'[d] = "up"
    BY <1>c DEF Joined
  <2>2. ~reused' \/ (call' # None /\ call'.step = "commit") => Marked' \/ \A e \in Engines : eng'[e].slot = "empty"
    BY <1>a, <1>f DEF Joined, Marked
  <2> QED  BY <1>g, <2>1, <2>2 DEF Joined
<1>9. Served'
  BY <1>a, <1>g DEF Served
<1>10. Growing'
  <2>1. \A x \in Drivers : Publisher(x)' => Publisher(x) /\ pc'[x] = pc[x]
    BY <1>g, <1>h DEF Publisher
  <2> QED  BY <1>a, <2>1 DEF Growing
<1> QED  BY <1>1, <1>2, <1>3, <1>4, <1>5, <1>6, <1>7, <1>8, <1>9, <1>10

(* The trainers of an attempt that detaches are killed; the session is      *)
(* given up only when none is left.                                         *)
LEMMA DetachReleaseStep ==
    ASSUME IInv, DetachRelease
    PROVE  IInv'
<1> USE DEF IInv
<1>a. /\ call # None /\ call.step = "release" /\ call.op = "detach" /\ call.d \in Drivers
      /\ call' = None /\ phase' = [phase EXCEPT ![call.d] = "dead"]
      /\ UNCHANGED <<eng, fresh, mon, reused, pc, handles, wv>>
  BY CallTypes DEF DetachRelease, At
<1>b. PICK K \in SUBSET registered :
        /\ KillTrainers(K) /\ registered' = registered \ K
        /\ owner' = IF K = registered /\ ~call.err THEN None ELSE owner
  BY DEF DetachRelease
<1>c. /\ trainers' \in [Drivers -> {"none", "up", "down"}]
      /\ \A d \in Drivers : trainers'[d] = IF d \in K THEN "down" ELSE trainers[d]
      /\ inbox' \subseteq inbox /\ inbox' \subseteq Requests /\ IsFiniteSet(inbox')
      /\ late' \in Nat /\ (late' = 0 => late = 0)
      /\ late' = 0 => \A op \in TrainerCalls, d \in K : <<op, d>> \notin inbox'
  <2>1. K \in SUBSET Drivers
    BY DEF TypeOK
  <2> QED  BY <1>b, <2>1, Killed
<1>d. phase[call.d] \in {"closing", "dead"} /\ \A x \in Drivers : ~Attached(x)
  BY <1>a, Alone DEF Calling
<1>e. /\ phase' \in [Drivers -> Phases] /\ phase'[call.d] = "dead"
      /\ \A x \in Drivers : x # call.d => phase'[x] = phase[x]
  BY <1>a DEF TypeOK, Phases
<1>f. \A x \in Drivers : ~Attached(x)'
  BY <1>a, <1>d, <1>e DEF Attached
<1>g. \A x \in Drivers : trainers'[x] = "up" => trainers[x] = "up" /\ x \in registered' /\ owner' = owner
  BY <1>b, <1>c DEF Owning
<1>1. TypeOK'
  BY <1>a, <1>b, <1>c, <1>e DEF TypeOK
<1>2. Requested'
  BY <1>a, <1>c, <1>d, <1>e DEF Requested
<1>3. Calling'
  BY <1>a DEF Calling
<1>4. Probed'
  BY <1>a DEF Probed
<1>5. Owning'
  BY <1>f, <1>g DEF Owning, OwnerKept, PublisherOwns
<1>6. Pausing'
  BY <1>a, <1>f DEF Pausing
<1>7. Managed'
  BY <1>f DEF Managed
<1>8. Joined'
  <2>1. late' = 0 => \A d \in Drivers, op \in TrainerCalls : <<op, d>> \in inbox' => trainers'[d] = "up"
    BY <1>c DEF Joined
  <2>2. ~reused' \/ (call' # None /\ call'.step = "commit") => Marked' \/ \A e \in Engines : eng'[e].slot = "empty"
    BY <1>a DEF Joined, Marked
  <2> QED  BY <1>f, <2>1, <2>2 DEF Joined
<1>9. Served'
  BY <1>a, <1>f DEF Served
<1>10. Growing'
  <2>1. \A x \in Drivers : Publisher(x)' => Publisher(x)
    BY <1>a, <1>f, <1>g DEF Publisher
  <2> QED  BY <1>a, <2>1 DEF Growing
<1> QED  BY <1>1, <1>2, <1>3, <1>4, <1>5, <1>6, <1>7, <1>8, <1>9, <1>10

(* An engine that does not answer the reset is retired while no attempt is  *)
(* attached.                                                                *)
LEMMA ResetRetireStep ==
    ASSUME IInv, ResetRetire
    PROVE  IInv'
<1> USE DEF IInv
<1>a0. PICK e \in In("dead") \cup In("live") : \E r \in RetireResults(e) :
        /\ eng' = [eng EXCEPT ![e] = r.eng]
        /\ IF r.error = "none" THEN UNCHANGED <<call, pc, phase, inbox>> ELSE Raise
  BY DEF ResetRetire
<1>a. PICK r \in RetireResults(e) :
        /\ eng' = [eng EXCEPT ![e] = r.eng]
        /\ IF r.error = "none" THEN UNCHANGED <<call, pc, phase, inbox>> ELSE Raise
  BY <1>a0
<1>b. /\ call # None /\ call.step = "reset" /\ call.op = "attach" /\ call \in Calls
      /\ UNCHANGED <<fresh, mon, owner, reused, registered, trainers, handles, wv, late>>
  BY CallTypes DEF ResetRetire, At, Calling, Fits
<1>c. /\ eng' \in [Engines -> Engine] /\ \A x \in Engines : Shrinks(eng[x], eng'[x])
  <2>1. e \in Engines /\ eng[e].slot # "empty"
    BY DEF In
  <2> QED  BY <1>a, <2>1, Retired
<1>d. Quiet /\ Quiet' /\ \A x \in Drivers : ~Attached(x)
  BY <1>b, Alone DEF Pausing, Quiet, Still
<1>e. /\ Requested' /\ Calling' /\ Owning' /\ Pausing' /\ Managed'
      /\ pc' \in [Drivers -> Places] /\ phase' \in [Drivers -> Phases]
      /\ call' \in {call, None} /\ inbox' = inbox
      /\ \A x \in Drivers : Attached(x)' => Attached(x) /\ pc'[x] = pc[x]
      /\ \A x \in Drivers : Publisher(x)' => Publisher(x) /\ pc'[x] = pc[x]
  <2>1. CASE UNCHANGED <<call, pc, phase, inbox>>
    <3>1. Requested' /\ Calling'
      BY <1>b, <2>1 DEF Requested, Calling, Fits
    <3>2. Owning' /\ Managed'
      BY <1>b, <2>1 DEF Owning, OwnerKept, PublisherOwns, Managed, ManagerFree, Attached
    <3>3. Pausing'
      BY <1>b, <2>1 DEF Pausing, Quiet, Still, InUpdate, Attached
    <3> QED  BY <1>b, <2>1, <3>1, <3>2, <3>3 DEF Attached, Publisher, TypeOK
  <2>2. CASE Raise
    BY <1>b, <1>d, <2>2, Raised
  <2> QED  BY <1>a, <2>1, <2>2
<1>1. TypeOK'
  BY <1>b, <1>c, <1>e DEF TypeOK
<1>2. Requested'
  BY <1>e
<1>3. Calling'
  BY <1>e
<1>4. Probed'
  BY <1>b, <1>d, <1>e DEF Probed, Quiet, Still
<1>5. Owning'
  BY <1>e
<1>6. Pausing'
  BY <1>e
<1>7. Managed'
  BY <1>e
<1>8. Joined'
  BY <1>b, <1>c, <1>d, <1>e, ShrinkJoined
<1>9. Served'
  BY <1>d, <1>b, <1>c, <1>e, ShrinkServed
<1>10. Growing'
  BY <1>b, <1>c, <1>e, ShrinkGrowing
<1> QED  BY <1>1, <1>2, <1>3, <1>4, <1>5, <1>6, <1>7, <1>8, <1>9, <1>10

(* The engines that are left belong to no trainers any more, and the counts *)
(* of new engines say so.                                                   *)
LEMMA ResetPeersStep ==
    ASSUME IInv, ResetPeers
    PROVE  IInv'
<1> USE DEF IInv
<1>a. /\ call # None /\ call.step = "reset" /\ call.op = "attach" /\ call \in Calls /\ In("dead") = {}
      /\ call' = [call EXCEPT !.step = "commit"]
      /\ UNCHANGED <<mon, owner, reused, registered, trainers, inbox, attempts, faults, late>>
  BY CallTypes DEF ResetPeers, At, Calling, Fits
<1>b. /\ eng' \in [Engines -> Engine]
      /\ \A e \in Engines : /\ eng'[e].slot = eng[e].slot /\ eng'[e].routed = eng[e].routed
                            /\ eng'[e].version = eng[e].version
  <2>1. ASSUME NEW x \in Engine
        PROVE  /\ [x EXCEPT !.peer = None] \in Engine /\ [x EXCEPT !.peer = None].slot = x.slot
               /\ [x EXCEPT !.peer = None].routed = x.routed /\ [x EXCEPT !.peer = None].version = x.version
    BY DEF Engine
  <2>2. eng' = [e \in Engines |-> [eng[e] EXCEPT !.peer = None]]
    BY DEF ResetPeers
  <2> QED  BY <2>1, <2>2 DEF TypeOK
<1>c. /\ fresh' \in [DOMAIN Groups -> Nat]
      /\ \A g \in DOMAIN Groups : Groups[g] \cap In("live") # {} => fresh'[g] > 0
  <2>1. fresh' = [g \in DOMAIN Groups |-> Cardinality(Groups[g] \cap In("live"))]
    BY DEF ResetPeers
  <2> QED  BY <2>1, GroupFacts
<1>d. call' \in Calls /\ call'.op = "attach" /\ call'.d = call.d /\ call'.step = "commit"
  BY <1>a DEF Calls, Steps
<1>e. Quiet /\ Quiet' /\ (\A x \in Drivers : ~Attached(x)) /\ registered = {}
  BY <1>a, Alone DEF Pausing, Quiet, Still, Calling
<1>f. Requested' /\ Calling' /\ Owning' /\ Managed'
  BY <1>a, <1>d, <1>e, GoesOn DEF Fits
<1>g. \A x \in Drivers : ~Attached(x)'
  BY <1>a, <1>e DEF Attached
<1>1. TypeOK'
  BY <1>a, <1>b, <1>c, <1>d DEF TypeOK
<1>2. Requested'
  BY <1>f
<1>3. Calling'
  BY <1>f
<1>4. Probed'
  BY <1>a, <1>d, <1>e DEF Probed, Quiet, Still
<1>5. Owning'
  BY <1>f
<1>6. Pausing'
  BY <1>d, <1>e, <1>g DEF Pausing
<1>7. Managed'
  BY <1>f
<1>8. Joined'
  <2>1. Marked' \/ \A e \in Engines : eng'[e].slot = "empty"
    <3>1. ASSUME NEW e \in Engines, eng'[e].slot # "empty" PROVE Marked'
      <4>1. e \in In("live")
        BY <1>a, <1>b, <3>1 DEF In, TypeOK, Engine, Slots
      <4>2. PICK g \in DOMAIN Groups : e \in Groups[g]
        BY GroupFacts
      <4>3. fresh'[g] > 0
        BY <1>c, <4>1, <4>2
      <4> QED  BY <4>3 DEF Marked
    <3> QED  BY <3>1
  <2> QED  BY <1>a, <1>g, <2>1 DEF Joined
<1>9. Served'
  BY <1>b, <1>g DEF Served
<1>10. Growing'
  BY <1>a, <1>b, <1>e, <1>g DEF Growing, Publisher, Attached
<1> QED  BY <1>1, <1>2, <1>3, <1>4, <1>5, <1>6, <1>7, <1>8, <1>9, <1>10

(* The attempt that attached is the only one attached, finds no trainers    *)
(* up, and finds the engines marked as new.                                 *)
LEMMA AttachCommitStep ==
    ASSUME IInv, AttachCommit
    PROVE  IInv'
<1> USE DEF IInv
<1>a. /\ call # None /\ call.step = "commit" /\ call.op = "attach" /\ call.d \in Drivers
      /\ owner' = call.d /\ reused' = TRUE
      /\ call' = None /\ pc' = [pc EXCEPT ![call.d] = "bind"] /\ UNCHANGED <<phase, inbox>>
      /\ UNCHANGED <<eng, fresh, registered, trainers, handles, wv, faults, late>>
  BY CallTypes DEF AttachCommit, At, Return, Calling, Fits
<1>b. /\ pc[call.d] = "attach" /\ registered = {} /\ <<"attach", call.d>> \notin inbox
      /\ phase[call.d] # "new" /\ trainers[call.d] # "up"
      /\ \A op \in {"recover", "clear", "finish"} : <<op, call.d>> \notin inbox
  BY <1>a DEF Calling, Requested
<1>c. /\ pc' \in [Drivers -> Places] /\ pc'[call.d] = "bind"
      /\ \A x \in Drivers : x # call.d => pc'[x] = pc[x]
  BY <1>a DEF TypeOK, Places
<1>d. /\ mon' \in [DOMAIN Groups -> Monitor] /\ \A g \in DOMAIN Groups : mon'[g].thread = "top"
  <2>1. NewMonitor \in Monitor /\ NewMonitor.thread = "top"
    BY DEF NewMonitor, Monitor
  <2>2. mon' = [g \in DOMAIN Groups |-> NewMonitor]
    BY DEF AttachCommit
  <2> QED  BY <2>1, <2>2
<1>e. \A x \in Drivers : /\ ~Attached(x) /\ (Attached(x)' => x = call.d /\ pc'[x] = "bind")
                         /\ trainers[x] # "up"
  BY <1>a, <1>b, <1>c, Alone DEF Attached, Owning
<1>1. TypeOK'
  BY <1>a, <1>c, <1>d DEF TypeOK
<1>2. Requested'
  <2>1. \A x \in Drivers : x # call.d => pc'[x] = pc[x]
    BY <1>c
  <2>2. inbox' = inbox /\ phase' = phase /\ trainers' = trainers /\ reused'
    BY <1>a
  <2> QED  BY <1>b, <1>c, <2>1, <2>2 DEF Requested
<1>3. Calling'
  BY <1>a DEF Calling
<1>4. Probed'
  BY <1>a, <1>d DEF Probed
<1>5. Owning'
  BY <1>a, <1>e DEF Owning, OwnerKept, PublisherOwns
<1>6. Pausing'
  BY <1>a, <1>e DEF Pausing, InUpdate
<1>7. Managed'
  BY <1>e DEF Managed
<1>8. Joined'
  <2>1. Marked' \/ \A e \in Engines : eng'[e].slot = "empty"
    BY <1>a DEF Joined, Marked
  <2> QED  BY <1>a, <1>e, <2>1 DEF Joined, Publishing
<1>9. Served'
  BY <1>a, <1>e DEF Served
<1>10. Growing'
  <2>1. \A x \in Drivers : ~Publisher(x)'
    BY <1>a, <1>e DEF Publisher
  <2> QED  BY <1>a, <2>1 DEF Growing
<1> QED  BY <1>1, <1>2, <1>3, <1>4, <1>5, <1>6, <1>7, <1>8, <1>9, <1>10

(* Engines that are started, or fail in it, count as new; the attempt that  *)
(* asked learns of them before it publishes.                                *)
LEMMA RecoverStartStep ==
    ASSUME IInv, RecoverStart
    PROVE  IInv'
<1> USE DEF IInv
<1>a. /\ call # None /\ call.step = "start" /\ call.op = "recover" /\ call.d \in Drivers /\ pc[call.d] = "recover"
      /\ UNCHANGED <<mon, owner, reused, registered, trainers, handles, wv, late>>
  BY CallTypes DEF RecoverStart, At, Calling, Fits
<1>b. \/ Return("engines") /\ UNCHANGED <<eng, fresh>>
      \/ /\ Return("engines") \/ Raise
         /\ In("empty") # {}
         /\ \E broken \in SUBSET In("empty") :
              eng' = [e \in Engines |-> IF e \in broken THEN [Vacant EXCEPT !.slot = "dead"]
                                        ELSE IF e \in In("empty") THEN Started ELSE eng[e]]
         /\ fresh' = [g \in DOMAIN Groups |-> Cardinality(Groups[g] \cap In("empty"))]
  BY DEF RecoverStart
<1>c. Quiet /\ Quiet' /\ \A x \in Drivers : Attached(x) /\ pc[x] # "bind" => x = call.d
  BY <1>a, Alone DEF Pausing, Quiet, Still
<1>d. /\ Requested' /\ Calling' /\ Owning' /\ Pausing' /\ Managed'
      /\ pc' \in [Drivers -> Places] /\ phase' \in [Drivers -> Phases] /\ call' = None /\ inbox' = inbox
      /\ \A x \in Drivers : Attached(x)' => Attached(x) /\ (pc'[x] = pc[x] \/ pc'[x] = "engines")
      /\ \A x \in Drivers : Attached(x)' /\ x = call.d => pc'[x] = "engines"
      /\ \A x \in Drivers : Publisher(x)' => Publisher(x) /\ (pc[x] = "install" => pc'[x] = "install")
  <2>1. CASE Return("engines")
    <3>1. /\ Requested' /\ Calling' /\ Owning' /\ Pausing' /\ Managed'
          /\ pc' \in [Drivers -> Places] /\ phase' = phase /\ call' = None /\ inbox' = inbox
          /\ \A x \in Drivers : Attached(x)' => Attached(x) /\ (pc'[x] = pc[x] \/ pc'[x] = "engines")
          /\ \A x \in Drivers : Publisher(x)' => Publisher(x)
          /\ \A x \in Drivers : pc'[x] # pc[x] => x = call.d /\ pc'[x] = "engines" /\ pc[x] \in {"recover", "finish"}
      BY <1>a, <1>c, <2>1, Returned
    <3>2. pc'[call.d] = "engines"
      BY <1>a, <2>1 DEF Return, TypeOK
    <3> QED  BY <3>1, <3>2 DEF TypeOK
  <2>2. CASE Raise
    BY <1>a, <1>c, <2>2, Raised
  <2> QED  BY <1>b, <2>1, <2>2
<1>e. /\ eng' \in [Engines -> Engine] /\ fresh' \in [DOMAIN Groups -> Nat]
      /\ \A e \in Engines : eng'[e] = eng[e] \/ (eng[e].slot = "empty" /\ eng'[e].slot # "empty" /\ eng'[e].version = 0)
      /\ Marked' \/ (eng' = eng /\ fresh' = fresh)
  <2>1. CASE UNCHANGED <<eng, fresh>>
    BY <2>1 DEF TypeOK
  <2>2. ASSUME In("empty") # {}, fresh' = [g \in DOMAIN Groups |-> Cardinality(Groups[g] \cap In("empty"))],
               NEW broken \in SUBSET In("empty"),
               eng' = [e \in Engines |-> IF e \in broken THEN [Vacant EXCEPT !.slot = "dead"]
                                         ELSE IF e \in In("empty") THEN Started ELSE eng[e]]
        PROVE  /\ eng' \in [Engines -> Engine] /\ fresh' \in [DOMAIN Groups -> Nat]
               /\ \A e \in Engines :
                    eng'[e] = eng[e] \/ (eng[e].slot = "empty" /\ eng'[e].slot # "empty" /\ eng'[e].version = 0)
               /\ Marked'
    <3> DEFINE failed == [Vacant EXCEPT !.slot = "dead"]
    <3>1. /\ failed \in Engine /\ failed.slot # "empty" /\ failed.version = 0
          /\ Started \in Engine /\ Started.slot # "empty" /\ Started.version = 0
      BY DEF Vacant, Started, Engine, Slots
    <3>2. \A e \in Engines : eng'[e] = IF e \in broken THEN failed ELSE IF e \in In("empty") THEN Started ELSE eng[e]
      BY <2>2
    <3> HIDE DEF failed
    <3>3. \A e \in In("empty") : e \in Engines /\ eng[e].slot = "empty"
      BY DEF In
    <3>4. \A e \in Engines : /\ eng'[e] \in Engine
                             /\ eng'[e] = eng[e] \/ (eng[e].slot = "empty" /\ eng'[e].slot # "empty" /\ eng'[e].version = 0)
      BY <2>2, <3>1, <3>2, <3>3 DEF TypeOK
    <3>5. eng' \in [Engines -> Engine]
      BY <2>2, <3>4
    <3>6. fresh' \in [DOMAIN Groups -> Nat] /\ \A g \in DOMAIN Groups : Groups[g] \cap In("empty") # {} => fresh'[g] > 0
      BY <2>2, GroupFacts
    <3>7. Marked'
      <4>1. PICK e \in Engines : e \in In("empty")
        BY <2>2, <3>3
      <4>2. PICK g \in DOMAIN Groups : e \in Groups[g]
        BY GroupFacts
      <4> QED  BY <3>6, <4>1, <4>2 DEF Marked
    <3> QED  BY <3>4, <3>5, <3>6, <3>7
  <2> QED  BY <1>b, <2>1, <2>2
<1>1. TypeOK'
  BY <1>a, <1>d, <1>e DEF TypeOK
<1>2. Requested'
  BY <1>d
<1>3. Calling'
  BY <1>d
<1>4. Probed'
  BY <1>c, <1>d DEF Probed, Quiet, Still
<1>5. Owning'
  BY <1>d
<1>6. Pausing'
  BY <1>d
<1>7. Managed'
  BY <1>d
<1>8. Joined'
  <2>1. \A x \in Drivers : Attached(x)' => Attached(x) /\ ~Publishing(x)' /\ pc'[x] \notin {"clearing", "install"}
    BY <1>c, <1>d DEF Publishing
  <2>2. late' = 0 => \A x \in Drivers, op \in TrainerCalls : <<op, x>> \in inbox' => trainers'[x] = "up"
    BY <1>a, <1>d DEF Joined
  <2>3. CASE Marked'
    BY <1>d, <2>1, <2>2, <2>3 DEF Joined
  <2>4. CASE eng' = eng /\ fresh' = fresh
    BY <1>a, <1>d, <2>1, <2>2, <2>4 DEF Joined, Marked
  <2> QED  BY <1>e, <2>3, <2>4
<1>9. Served'
  <2>1. \A x \in Drivers : Attached(x)' => pc'[x] \in {"engines", "bind"}
    BY <1>c, <1>d
  <2>2. \A e \in Engines : eng'[e].routed => eng'[e].slot # "empty"
    BY <1>e DEF Served
  <2> QED  BY <2>1, <2>2 DEF Served
<1>10. Growing'
  <2>1. PICK b \in Nat : \A e \in Engines : eng[e].version <= b
    BY DEF Growing
  <2>2. \A e \in Engines : eng'[e].version <= b
    BY <1>e, <2>1
  <2>3. ASSUME NEW x \in Drivers, Publisher(x)', NEW e \in Engines, eng'[e].slot # "empty"
        PROVE  eng'[e].version <= wv'[x] \/ (pc'[x] = "install" /\ eng'[e].version <= wv'[x] + 1)
    <3>1. CASE eng'[e] = eng[e]
      BY <1>a, <1>d, <2>3, <3>1 DEF Growing
    <3>2. CASE eng'[e].version = 0
      BY <1>a, <3>2 DEF TypeOK
    <3> QED  BY <1>e, <3>1, <3>2
  <2> QED  BY <2>2, <2>3 DEF Growing
<1> QED  BY <1>1, <1>2, <1>3, <1>4, <1>5, <1>6, <1>7, <1>8, <1>9, <1>10

(* The check of the finished rollout probes the engines of a group; those   *)
(* that failed hold their slots.                                            *)
LEMMA CheckProbeStep ==
    ASSUME IInv, CheckProbe
    PROVE  IInv'
<1> USE DEF IInv
<1>a. /\ call # None /\ call.step = "check" /\ call.op = "finish" /\ call \in Calls /\ call.at \in DOMAIN Groups
      /\ UNCHANGED <<eng, fresh, mon, owner, reused, registered, trainers, inbox, attempts, late>>
  BY CallTypes DEF CheckProbe, At, Calling, Fits
<1>b. PICK bad \in FailedProbes(call.at) : call' = [call EXCEPT !.step = "retire", !.bad = bad]
  BY DEF CheckProbe
<1>c. bad \subseteq Engines /\ \A e \in bad : eng[e].slot # "empty"
  BY <1>a, GroupFacts DEF FailedProbes
<1>d. call' \in Calls /\ call'.op = "finish" /\ call'.d = call.d /\ call'.step = "retire" /\ call'.bad = bad
  BY <1>a, <1>b, <1>c DEF Calls, Steps
<1>e. Requested' /\ Calling' /\ Owning' /\ Managed'
  BY <1>a, <1>d, GoesOn DEF Fits
<1>1. TypeOK'
  BY <1>a, <1>d DEF TypeOK
<1>2. Requested'
  BY <1>e
<1>3. Calling'
  BY <1>e
<1>4. Probed'
  BY <1>a, <1>c, <1>d DEF Probed
<1>5. Owning'
  BY <1>e
<1>6. Pausing'
  BY <1>a, <1>d DEF Pausing, Quiet, Still, InUpdate, Attached
<1>7. Managed'
  BY <1>e
<1>8. Joined'
  BY <1>a, <1>d DEF Joined, Marked, Publishing, Attached
<1>9. Served'
  BY <1>a DEF Served, Attached
<1>10. Growing'
  BY <1>a DEF Growing, Publisher, Attached
<1> QED  BY <1>1, <1>2, <1>3, <1>4, <1>5, <1>6, <1>7, <1>8, <1>9, <1>10

(* An engine that failed its probe is retired while the attempt waits for   *)
(* the end of its rollout.                                                  *)
LEMMA CheckRetireStep ==
    ASSUME IInv, CheckRetire
    PROVE  IInv'
<1> USE DEF IInv
<1>a0. PICK e \in call.bad : \E r \in RetireResults(e) :
        /\ eng' = [eng EXCEPT ![e] = r.eng]
        /\ IF r.error = "none"
           THEN call' = [call EXCEPT !.bad = @ \ {e}] /\ UNCHANGED <<pc, phase, inbox>>
           ELSE Raise
  BY DEF CheckRetire
<1>a. PICK r \in RetireResults(e) :
        /\ eng' = [eng EXCEPT ![e] = r.eng]
        /\ IF r.error = "none"
           THEN call' = [call EXCEPT !.bad = @ \ {e}] /\ UNCHANGED <<pc, phase, inbox>>
           ELSE Raise
  BY <1>a0
<1>b. /\ call # None /\ call.step = "retire" /\ call.op = "finish" /\ call \in Calls /\ call.d \in Drivers
      /\ call.bad \subseteq Engines /\ pc[call.d] = "finish"
      /\ UNCHANGED <<fresh, mon, owner, reused, registered, trainers, handles, wv, late>>
  BY CallTypes DEF CheckRetire, At, Calling, Fits
<1>c. /\ eng' \in [Engines -> Engine]
      /\ \A x \in Engines : Shrinks(eng[x], eng'[x]) /\ (x # e => eng'[x] = eng[x])
  <2>1. e \in Engines /\ eng[e].slot # "empty"
    BY <1>b DEF Probed
  <2> QED  BY <1>a, <2>1, Retired
<1>d. Quiet /\ Quiet' /\ \A x \in Drivers : Attached(x) => pc[x] \in {"bind", "finish"}
  BY <1>b, Alone DEF Pausing, Quiet, Still
<1>e. \/ /\ call' \in Calls /\ call'.op = "finish" /\ call'.d = call.d /\ call'.step = "retire"
         /\ call'.bad = call.bad \ {e} /\ pc' = pc /\ phase' = phase /\ inbox' = inbox
      \/ Raise
  <2>1. CASE call' = [call EXCEPT !.bad = @ \ {e}] /\ UNCHANGED <<pc, phase, inbox>>
    BY <1>b, <2>1 DEF Calls
  <2> QED  BY <1>a, <2>1
<1>f. /\ Requested' /\ Calling' /\ Owning' /\ Pausing' /\ Managed'
      /\ pc' \in [Drivers -> Places] /\ phase' \in [Drivers -> Phases] /\ call' \in Calls \cup {None}
      /\ call' = None \/ (call'.step = "retire" /\ call'.bad = call.bad \ {e})
      /\ inbox' = inbox
      /\ \A x \in Drivers : Attached(x)' => Attached(x) /\ pc'[x] = pc[x]
      /\ \A x \in Drivers : Publisher(x)' => Publisher(x) /\ pc'[x] = pc[x]
  <2>1. CASE /\ call' \in Calls /\ call'.op = "finish" /\ call'.d = call.d /\ call'.step = "retire"
             /\ call'.bad = call.bad \ {e} /\ pc' = pc /\ phase' = phase /\ inbox' = inbox
    <3>1. Requested' /\ Calling' /\ Owning' /\ Managed'
      BY <1>b, <2>1, GoesOn DEF Fits
    <3>2. Pausing'
      BY <1>b, <1>d, <2>1 DEF Pausing, Quiet, Still, InUpdate, Attached
    <3> QED  BY <1>b, <2>1, <3>1, <3>2 DEF Attached, Publisher, TypeOK
  <2>2. CASE Raise
    BY <1>b, <1>d, <2>2, Raised
  <2> QED  BY <1>e, <2>1, <2>2
<1>1. TypeOK'
  BY <1>b, <1>c, <1>f DEF TypeOK
<1>2. Requested'
  BY <1>f
<1>3. Calling'
  BY <1>f
<1>4. Probed'
  <2>1. \A y \in call.bad \ {e} : eng'[y].slot # "empty"
    BY <1>b, <1>c DEF Probed
  <2> QED  BY <1>d, <1>f, <2>1 DEF Probed, Quiet, Still
<1>5. Owning'
  BY <1>f
<1>6. Pausing'
  BY <1>f
<1>7. Managed'
  BY <1>f
<1>8. Joined'
  <2>1. \A x \in Drivers : Attached(x)' => Attached(x) /\ ~Publishing(x)'
    BY <1>d, <1>f DEF Publishing
  <2> QED  BY <1>b, <1>c, <1>f, <2>1, ShrinkJoined
<1>9. Served'
  BY <1>b, <1>c, <1>f, ShrinkServed
<1>10. Growing'
  BY <1>b, <1>c, <1>f, ShrinkGrowing
<1> QED  BY <1>1, <1>2, <1>3, <1>4, <1>5, <1>6, <1>7, <1>8, <1>9, <1>10

(* The next group is checked, or the attempt goes on to train. *)
LEMMA CheckNextStep ==
    ASSUME IInv, CheckNext
    PROVE  IInv'
<1> USE DEF IInv
<1>a. /\ call # None /\ call.step = "retire" /\ call.op = "finish" /\ call \in Calls /\ call.d \in Drivers
      /\ call.at \in DOMAIN Groups /\ pc[call.d] = "finish"
      /\ UNCHANGED <<eng, fresh, mon, owner, reused, registered, trainers, handles, wv, faults, late>>
  BY CallTypes DEF CheckNext, At, Calling, Fits
<1>b. Quiet /\ Quiet'
  BY <1>a DEF Pausing, Quiet, Still
<1>c. \/ /\ call' \in Calls /\ call'.op = "finish" /\ call'.d = call.d /\ call'.step = "check"
         /\ pc' = pc /\ phase' = phase /\ inbox' = inbox
      \/ Return("train")
  <2>1. CASE call.at < Len(Groups)
    <3>1. call.at + 1 \in DOMAIN Groups /\ "check" \in Steps
      BY <1>a, <2>1, GroupFacts DEF Steps
    <3>2. call' = [call EXCEPT !.step = "check", !.at = @ + 1] /\ UNCHANGED <<pc, phase, inbox>>
      BY <2>1 DEF CheckNext
    <3> QED  BY <1>a, <3>1, <3>2 DEF Calls
  <2>2. CASE ~(call.at < Len(Groups))
    BY <2>2 DEF CheckNext
  <2> QED  BY <2>1, <2>2
<1>d. /\ Requested' /\ Calling' /\ Owning' /\ Pausing' /\ Managed'
      /\ pc' \in [Drivers -> Places] /\ phase' = phase /\ call' \in Calls \cup {None}
      /\ call' = None \/ call'.step = "check"
      /\ inbox' = inbox
      /\ \A x \in Drivers : Attached(x)' => Attached(x) /\ (pc'[x] = pc[x] \/ pc'[x] = "train")
      /\ \A x \in Drivers : Publisher(x)' => Publisher(x) /\ (pc[x] = "install" => pc'[x] = "install")
  <2>1. CASE /\ call' \in Calls /\ call'.op = "finish" /\ call'.d = call.d /\ call'.step = "check"
             /\ pc' = pc /\ phase' = phase /\ inbox' = inbox
    <3>1. Requested' /\ Calling' /\ Owning' /\ Managed'
      BY <1>a, <2>1, GoesOn DEF Fits
    <3>2. Pausing'
      BY <1>a, <1>b, <2>1 DEF Pausing, Quiet, Still, InUpdate, Attached
    <3> QED  BY <1>a, <2>1, <3>1, <3>2 DEF Attached, Publisher, TypeOK
  <2>2. CASE Return("train")
    <3>1. /\ Requested' /\ Calling' /\ Owning' /\ Pausing' /\ Managed'
          /\ pc' \in [Drivers -> Places] /\ phase' = phase /\ call' = None /\ inbox' = inbox
          /\ \A x \in Drivers : Attached(x)' => Attached(x) /\ (pc'[x] = pc[x] \/ pc'[x] = "train")
          /\ \A x \in Drivers : Publisher(x)' => Publisher(x)
          /\ \A x \in Drivers : pc'[x] # pc[x] => x = call.d /\ pc'[x] = "train" /\ pc[x] \in {"recover", "finish"}
      BY <1>a, <1>b, <2>2, Returned
    <3> QED  BY <3>1
  <2> QED  BY <1>c, <2>1, <2>2
<1>1. TypeOK'
  BY <1>a, <1>d DEF TypeOK
<1>2. Requested'
  BY <1>d
<1>3. Calling'
  BY <1>d
<1>4. Probed'
  BY <1>b, <1>d DEF Probed, Quiet, Still
<1>5. Owning'
  BY <1>d
<1>6. Pausing'
  BY <1>d
<1>7. Managed'
  BY <1>d
<1>8. Joined'
  BY <1>a, <1>d DEF Joined, Marked, Publishing
<1>9. Served'
  BY <1>a, <1>d DEF Served
<1>10. Growing'
  BY <1>a, <1>d DEF Growing
<1> QED  BY <1>1, <1>2, <1>3, <1>4, <1>5, <1>6, <1>7, <1>8, <1>9, <1>10

(* The counts of new engines are cleared when the trainers that asked for   *)
(* it have connected to every engine.                                       *)
LEMMA ClearFreshStep ==
    ASSUME IInv, NEW d \in Drivers, ClearFresh(d)
    PROVE  IInv'
<1> USE DEF IInv
<1>1. TypeOK'
  <2>1. inbox' \subseteq Requests /\ IsFiniteSet(inbox')
    BY Taken DEF ClearFresh
  <2>2. fresh' = [g \in DOMAIN Groups |-> 0]
    BY DEF ClearFresh
  <2> QED  BY <2>1, <2>2 DEF TypeOK, Places, ClearFresh
<1>2. Requested'
  BY DEF Requested, TypeOK, ClearFresh
<1>3. Calling'
  BY CallTypes DEF Calling, Fits, TypeOK, Requested, Attached, ClearFresh
<1>4. Probed'
  BY CallTypes DEF Probed, TypeOK, Pausing, Quiet, Still, Calling, Fits, ClearFresh
<1>5. Owning'
  BY CallTypes DEF Owning, OwnerKept, PublisherOwns, Attached, TypeOK, Requested, Calling, Fits,
     ClearFresh
<1>6. Pausing'
  BY CallTypes DEF Pausing, Quiet, Still, InUpdate, Attached, TypeOK, ClearFresh
<1>7. Managed'
  BY CallTypes DEF Managed, ManagerFree, TrainerCalls, Attached, TypeOK, Owning, OwnerKept,
     PublisherOwns, ClearFresh
<1>8. Joined'
  <2>1. pc[d] = "clearing" /\ reused /\ UNCHANGED <<eng, late, handles, trainers, reused, call, phase>>
    BY DEF ClearFresh, Requested
  <2>2. \A x \in Drivers : pc'[x] = IF x = d THEN "install" ELSE pc[x]
    BY <2>1 DEF ClearFresh, TypeOK
  <2>3. late = 0 => trainers[d] = "up"
    BY DEF ClearFresh, Joined, TrainerCalls
  <2>4. late = 0 => \A x \in Drivers : Attached(x) => x = d
    BY <2>3, OneAttempt
  <2>5. \A x \in Drivers : Attached(x)' => Attached(x)
    BY <2>1, <2>2 DEF Attached
  <2>6. Attached(d) => \A e \in Engines : (eng[e].slot # "empty" <=> e \in handles[d]) /\
                                          (e \in handles[d] => eng[e].peer = d)
    BY <2>1 DEF Joined, Publishing
  <2>7. call = None /\ inbox' \subseteq inbox
    BY DEF ClearFresh
  <2>8. \A x \in Drivers : Publishing(x)' => Publishing(x)
    BY <2>1, <2>2 DEF Publishing
  <2>9. handles[d] \subseteq Engines
    BY DEF TypeOK
  <2> QED  BY <2>1, <2>2, <2>3, <2>4, <2>5, <2>6, <2>7, <2>8, <2>9 DEF Joined
<1>9. Served'
  BY DEF Served, Attached, TypeOK, ClearFresh
<1>10. Growing'
  BY DEF Growing, Publisher, Attached, TypeOK, ClearFresh
<1> QED  BY <1>1, <1>2, <1>3, <1>4, <1>5, <1>6, <1>7, <1>8, <1>9, <1>10

(* An attempt is submitted; it is not attached yet. *)
LEMMA SubmitStep ==
    ASSUME IInv, NEW d \in Drivers, Submit(d)
    PROVE  IInv'
<1> USE DEF IInv
<1>1. TypeOK'
  <2>1. inbox' \subseteq Requests /\ IsFiniteSet(inbox')
    BY Sent DEF Submit, OwnerCalls
  <2> QED  BY <2>1 DEF TypeOK, Places, Phases, Submit
<1>2. Requested'
  BY DEF Requested, TypeOK, Submit, Send
<1>3. Calling'
  BY CallTypes DEF Calling, Fits, TypeOK, Requested, Attached, Submit, Send
<1>4. Probed'
  BY CallTypes DEF Probed, TypeOK, Pausing, Quiet, Still, Calling, Fits, Submit, Send
<1>5. Owning'
  BY CallTypes DEF Owning, OwnerKept, PublisherOwns, Attached, TypeOK, Requested, Calling, Fits,
     Submit, Send
<1>6. Pausing'
  BY CallTypes DEF Pausing, Quiet, Still, InUpdate, Attached, TypeOK, Submit, Send
<1>7. Managed'
  BY CallTypes DEF Managed, ManagerFree, TrainerCalls, Attached, TypeOK, Owning, OwnerKept,
     PublisherOwns, Submit, Send
<1>8. Joined'
  BY DEF Joined, Marked, Publishing, TrainerCalls, Attached, TypeOK, Submit, Send
<1>9. Served'
  BY DEF Served, Attached, TypeOK, Submit, Send
<1>10. Growing'
  BY DEF Growing, Publisher, Attached, TypeOK, Requested, Submit, Send
<1> QED  BY <1>1, <1>2, <1>3, <1>4, <1>5, <1>6, <1>7, <1>8, <1>9, <1>10

(* An attempt is bound to the newest version that is served: no engine is   *)
(* ahead of it.                                                             *)
LEMMA BindStep ==
    ASSUME IInv, NEW d \in Drivers, Bind(d)
    PROVE  IInv'
<1> USE DEF IInv
<1>a. \/ pc' = [pc EXCEPT ![d] = "failed"] /\ phase' = Abandoned(d) /\ wv' = wv
      \/ /\ pc' = [pc EXCEPT ![d] = "create"] /\ phase' = phase /\ In("dead") = {}
         /\ wv'[d] \in Nat /\ wv' = [wv EXCEPT ![d] = wv'[d]]
         /\ \A e \in In("live") : eng[e].version <= wv'[d]
  <2>1. CASE In("dead") # {}
    BY <2>1 DEF Bind
  <2>2. CASE In("dead") = {}
    <3> DEFINE newest == Max({eng[e].version : e \in In("live")} \cup {0})
    <3>1. newest \in Nat /\ \A e \in In("live") : eng[e].version <= newest
      BY Newest
    <3>2. /\ pc' = [pc EXCEPT ![d] = "create"] /\ phase' = phase
          /\ wv' = [wv EXCEPT ![d] = newest]
      BY <2>2 DEF Bind
    <3> HIDE DEF newest
    <3> QED  BY <2>2, <3>1, <3>2 DEF TypeOK
  <2> QED  BY <2>1, <2>2
<1>b. /\ phase[d] = "run" /\ pc[d] = "bind" /\ call = None /\ ManagerFree(d)
      /\ UNCHANGED <<eng, fresh, mon, serving, trainers, handles, faults, late>>
  BY DEF Bind
<1>c. Attached(d)
  BY <1>b DEF Attached
<1>1. TypeOK'
  BY <1>a, <1>b DEF TypeOK, Places, Phases, Abandoned
<1>2. Requested'
  BY <1>a, <1>b DEF Requested, TypeOK, Abandoned
<1>3. Calling'
  BY <1>b DEF Calling
<1>4. Probed'
  BY <1>b DEF Probed
<1>5. Owning'
  BY <1>a, <1>b, OneAttempt, <1>c DEF Owning, OwnerKept, PublisherOwns, Attached, TypeOK,
     Abandoned
<1>6. Pausing'
  BY <1>a, <1>b DEF Pausing, Quiet, Still, InUpdate, Attached, TypeOK, Abandoned
<1>7. Managed'
  BY <1>a, <1>b, <1>c, OneAttempt DEF Managed, ManagerFree, TrainerCalls, Attached, TypeOK,
     Abandoned
<1>8. Joined'
  BY <1>a, <1>b DEF Joined, Marked, Publishing, TrainerCalls, Attached, TypeOK, Abandoned
<1>9. Served'
  BY <1>a, <1>b DEF Served, Attached, TypeOK, Abandoned
<1>10. Growing'
  <2>1. ASSUME NEW x \in Drivers, Publisher(x)', NEW e \in Engines, eng[e].slot # "empty"
        PROVE  eng[e].version <= wv'[x] \/ (pc'[x] = "install" /\ eng[e].version <= wv'[x] + 1)
    <3>1. CASE x = d
      <4>1. trainers[d] # "up"
        BY <1>b DEF Requested
      <4>2. pc'[d] = "create"
        BY <1>a, <1>b, <2>1, <3>1, <4>1 DEF Publisher, TypeOK
      <4>3. e \in In("live") /\ \A y \in In("live") : eng[y].version <= wv'[d]
        BY <1>a, <2>1, <4>2 DEF In, TypeOK, Engine, Slots
      <4> QED  BY <3>1, <4>3
    <3>2. CASE x # d
      <4>1. pc'[x] = pc[x] /\ wv'[x] = wv[x] /\ phase'[x] = phase[x]
        BY <1>a, <3>2 DEF TypeOK, Abandoned
      <4>2. Publisher(x)
        BY <1>b, <2>1, <4>1 DEF Publisher, Attached
      <4> QED  BY <2>1, <4>1, <4>2 DEF Growing
    <3> QED  BY <3>1, <3>2
  <2> QED  BY <1>b, <2>1 DEF Growing
<1> QED  BY <1>1, <1>2, <1>3, <1>4, <1>5, <1>6, <1>7, <1>8, <1>9, <1>10

(* The trainers are registered with the owner as they come up, and ask for  *)
(* the engines.                                                             *)
LEMMA CreateStep ==
    ASSUME IInv, NEW d \in Drivers, Create(d)
    PROVE  IInv'
<1> USE DEF IInv
<1>1. TypeOK'
  <2>1. inbox' \subseteq Requests /\ IsFiniteSet(inbox')
    BY Sent DEF Create, OwnerCalls
  <2> QED  BY <2>1 DEF TypeOK, Places, Phases, Create
<1>2. Requested'
  BY DEF Requested, TypeOK, Create, Send
<1>3. Calling'
  BY CallTypes DEF Calling, Fits, TypeOK, Requested, Attached, Create, Send
<1>4. Probed'
  BY CallTypes DEF Probed, TypeOK, Pausing, Quiet, Still, Calling, Fits, Create, Send
<1>5. Owning'
  BY CallTypes DEF Owning, OwnerKept, PublisherOwns, Attached, TypeOK, Requested, Calling, Fits,
     Create, Send
<1>6. Pausing'
  BY CallTypes DEF Pausing, Quiet, Still, InUpdate, Attached, TypeOK, Create, Send
<1>7. Managed'
  BY CallTypes DEF Managed, ManagerFree, TrainerCalls, Attached, TypeOK, Owning, OwnerKept,
     PublisherOwns, Create, Send
<1>8. Joined'
  BY DEF Joined, Marked, Publishing, TrainerCalls, Attached, TypeOK, Create, Send
<1>9. Served'
  BY DEF Served, Attached, TypeOK, Create, Send
<1>10. Growing'
  BY DEF Growing, Publisher, Attached, TypeOK, Create, Send
<1> QED  BY <1>1, <1>2, <1>3, <1>4, <1>5, <1>6, <1>7, <1>8, <1>9, <1>10

(* The trainers learn which engines hold a slot, and connect unless every   *)
(* one of them has joined already.                                          *)
LEMMA GetEnginesStep ==
    ASSUME IInv, NEW d \in Drivers, GetEngines(d)
    PROVE  IInv'
<1> USE DEF IInv
<1>1. TypeOK'
  BY DEF TypeOK, Places, Phases, GetEngines, In
<1>2. Requested'
  BY DEF Requested, TypeOK, GetEngines, In
<1>3. Calling'
  BY CallTypes DEF Calling, Fits, TypeOK, Requested, Attached, GetEngines, In
<1>4. Probed'
  BY CallTypes DEF Probed, TypeOK, Pausing, Quiet, Still, Calling, Fits, GetEngines, In
<1>5. Owning'
  BY CallTypes DEF Owning, OwnerKept, PublisherOwns, Attached, TypeOK, Requested, Calling, Fits,
     GetEngines, In
<1>6. Pausing'
  BY CallTypes DEF Pausing, Quiet, Still, InUpdate, Attached, TypeOK, GetEngines, In
<1>7. Managed'
  BY CallTypes DEF Managed, ManagerFree, TrainerCalls, Attached, TypeOK, Owning, OwnerKept,
     PublisherOwns, GetEngines, In
<1>8. Joined'
  BY DEF Joined, Marked, Publishing, TrainerCalls, Attached, TypeOK, GetEngines, In
<1>9. Served'
  BY DEF Served, Attached, TypeOK, GetEngines, In
<1>10. Growing'
  BY DEF Growing, Publisher, Attached, TypeOK, GetEngines, In
<1> QED  BY <1>1, <1>2, <1>3, <1>4, <1>5, <1>6, <1>7, <1>8, <1>9, <1>10

(* All engines that hold a slot join the group of these trainers. *)
LEMMA ConnectStep ==
    ASSUME IInv, NEW d \in Drivers, Connect(d)
    PROVE  IInv'
<1> USE DEF IInv
<1>a. \A e \in Engines :
        /\ eng'[e] \in Engine
        /\ eng'[e].slot = eng[e].slot /\ eng'[e].routed = eng[e].routed /\ eng'[e].version = eng[e].version
        /\ eng'[e].peer = IF e \in handles[d] THEN d ELSE eng[e].peer
  <2>1. ASSUME NEW e \in Engines
        PROVE  /\ [eng[e] EXCEPT !.peer = d] \in Engine
               /\ [eng[e] EXCEPT !.peer = d].slot = eng[e].slot
               /\ [eng[e] EXCEPT !.peer = d].routed = eng[e].routed
               /\ [eng[e] EXCEPT !.peer = d].version = eng[e].version
               /\ [eng[e] EXCEPT !.peer = d].peer = d
    BY DEF TypeOK, Engine
  <2>2. \A e \in Engines : eng'[e] = IF e \in handles[d] THEN [eng[e] EXCEPT !.peer = d] ELSE eng[e]
    BY DEF Connect
  <2> QED  BY <2>1, <2>2 DEF TypeOK
<1>b. /\ trainers[d] = "up" /\ pc[d] = "connect" /\ pc' = [pc EXCEPT ![d] = "clearing"]
      /\ inbox' = inbox \cup {<<"clear", d>>} /\ handles[d] \subseteq Engines
      /\ UNCHANGED <<fresh, mon, owner, reused, registered, trainers, call, phase, handles, wv, faults, late>>
  BY DEF Connect, Send, TypeOK
<1>c. eng' \in [Engines -> Engine]
  BY <1>a DEF Connect
<1>d. inbox' \subseteq Requests /\ IsFiniteSet(inbox')
  BY Sent DEF Connect
<1>1. TypeOK'
  BY <1>b, <1>c, <1>d DEF TypeOK, Places
<1>2. Requested'
  BY <1>b DEF Requested, TypeOK
<1>3. Calling'
  BY <1>b, CallTypes DEF Calling, TypeOK
<1>4. Probed'
  BY <1>a, <1>b, CallTypes DEF Probed, TypeOK, Monitor
<1>5. Owning'
  BY <1>b DEF Owning, OwnerKept, PublisherOwns, Attached, TypeOK
<1>6. Pausing'
  BY <1>b DEF Pausing, Quiet, Still, InUpdate, Attached, TypeOK
<1>7. Managed'
  BY <1>b, OneAttempt DEF Managed, ManagerFree, TrainerCalls, Attached, TypeOK
<1>8. Joined'
  <2>1. \A x \in Drivers : Attached(x)' => x = d /\ Attached(d)
    BY <1>b, OneAttempt DEF Attached, TypeOK
  <2>2. Attached(d) => \A e \in Engines : eng'[e].slot # "empty" <=> e \in handles[d]
    BY <1>a, <1>b DEF Joined, Publishing
  <2>3. \A e \in handles[d] : eng'[e].peer = d
    BY <1>a, <1>b
  <2>4. late = 0 => \A x \in Drivers, op \in TrainerCalls : <<op, x>> \in inbox' => trainers[x] = "up"
    BY <1>b DEF Joined, TrainerCalls
  <2>5. ~reused \/ (call # None /\ call.step = "commit") => Marked \/ \A e \in Engines : eng'[e].slot = "empty"
    BY <1>a DEF Joined
  <2> QED  BY <1>b, <2>1, <2>2, <2>3, <2>4, <2>5 DEF Joined, Marked
<1>9. Served'
  BY <1>a, <1>b DEF Served, Attached, TypeOK
<1>10. Growing'
  BY <1>a, <1>b DEF Growing, Publisher, Attached, TypeOK
<1> QED  BY <1>1, <1>2, <1>3, <1>4, <1>5, <1>6, <1>7, <1>8, <1>9, <1>10

(* An engine receives the version after the one that was published last. *)
LEMMA InstallStep ==
    ASSUME IInv, NEW d \in Drivers, NEW e \in Engines, Install(d, e)
    PROVE  IInv'
<1> USE DEF IInv
<1>a. /\ eng'[e].version = wv[d] + 1 /\ eng'[e].slot = eng[e].slot /\ eng[e].slot = "live"
      /\ eng'[e].routed = eng[e].routed /\ eng'[e].peer = eng[e].peer
      /\ \A x \in Engines : x # e => eng'[x] = eng[x]
      /\ eng' \in [Engines -> Engine]
  <2>1. wv[d] + 1 \in Nat
    BY DEF TypeOK
  <2> DEFINE installed == [eng[e] EXCEPT !.version = wv[d] + 1]
  <2>2. /\ installed \in Engine /\ installed.version = wv[d] + 1 /\ installed.slot = eng[e].slot
        /\ installed.routed = eng[e].routed /\ installed.peer = eng[e].peer
    BY <2>1 DEF TypeOK, Engine
  <2>3. eng' = [eng EXCEPT ![e] = installed]
    BY DEF Install
  <2>4. eng[e].slot = "live"
    BY DEF Install, AllLive, In
  <2> HIDE DEF installed
  <2> QED  BY <2>2, <2>3, <2>4 DEF TypeOK
<1>b. /\ trainers[d] = "up" /\ pc[d] = "install" /\ e \in handles[d] /\ wv[d] \in Nat
      /\ UNCHANGED <<fresh, mon, serving, trainers, attempts, faults, late>>
  BY DEF Install, TypeOK
<1>c. \A x \in Drivers : Attached(x) \/ trainers[x] = "up" => x = d
  BY <1>b, OneAttempt
<1>1. TypeOK'
  BY <1>a, <1>b DEF TypeOK
<1>2. Requested'
  BY <1>b DEF Requested
<1>3. Calling'
  BY <1>b DEF Calling
<1>4. Probed'
  BY <1>a, <1>b, CallTypes DEF Probed, TypeOK, Monitor
<1>5. Owning'
  BY <1>b DEF Owning, OwnerKept, PublisherOwns, Attached
<1>6. Pausing'
  BY <1>b DEF Pausing, Quiet, Still, InUpdate, Attached
<1>7. Managed'
  BY <1>b DEF Managed, ManagerFree, Attached
<1>8. Joined'
  <2>1. \A x \in Engines : eng'[x].slot = eng[x].slot /\ eng'[x].peer = eng[x].peer
    BY <1>a
  <2> QED  BY <1>b, <2>1 DEF Joined, Marked, Publishing, Attached, TypeOK
<1>9. Served'
  <2>1. \A x \in Drivers : Attached(x)' => x = d /\ pc'[x] = "install"
    BY <1>b, <1>c DEF Attached
  <2>2. \A x \in Engines : eng'[x].slot = eng[x].slot /\ eng'[x].routed = eng[x].routed
    BY <1>a
  <2> QED  BY <2>1, <2>2 DEF Served
<1>10. Growing'
  <2>1. PICK b \in Nat : \A x \in Engines : eng[x].version <= b
    BY DEF Growing
  <2>2. \E c \in Nat : c >= b /\ c >= wv[d] + 1
    <3>1. CASE b >= wv[d] + 1
      BY <3>1
    <3>2. CASE ~(b >= wv[d] + 1)
      BY <1>b, <3>2
    <3> QED  BY <3>1, <3>2
  <2>3. PICK c \in Nat : c >= b /\ c >= wv[d] + 1
    BY <2>2
  <2>4. \A x \in Engines : eng[x].version \in Nat
    BY DEF TypeOK, Engine
  <2>5. \A x \in Engines : eng'[x].version <= c
    BY <1>a, <1>b, <2>1, <2>3, <2>4
  <2>6. ASSUME NEW x \in Drivers, Publisher(x)', NEW y \in Engines, eng'[y].slot # "empty"
        PROVE  eng'[y].version <= wv'[x] \/ (pc'[x] = "install" /\ eng'[y].version <= wv'[x] + 1)
    <3>1. x = d /\ Publisher(d)
      BY <1>b, <1>c, <2>6 DEF Publisher, Attached
    <3>2. eng[y].slot # "empty" => eng[y].version <= wv[d] \/ eng[y].version <= wv[d] + 1
      BY <3>1 DEF Growing
    <3> QED  BY <1>a, <1>b, <2>6, <3>1, <3>2
  <2> QED  BY <2>5, <2>6 DEF Growing
<1> QED  BY <1>1, <1>2, <1>3, <1>4, <1>5, <1>6, <1>7, <1>8, <1>9, <1>10

(* The version advances when every engine has it. *)
LEMMA InstalledStep ==
    ASSUME IInv, NEW d \in Drivers, Installed(d)
    PROVE  IInv'
<1> USE DEF IInv
<1>a. /\ trainers[d] = "up" /\ pc[d] = "install" /\ wv[d] \in Nat
      /\ \A e \in handles[d] : eng[e].version = wv[d] + 1
      /\ wv' = [wv EXCEPT ![d] = wv[d] + 1] /\ pc' = [pc EXCEPT ![d] = "ready"]
      /\ UNCHANGED <<eng, fresh, mon, serving, trainers, phase, handles, faults, late>>
  BY DEF Installed, TypeOK
<1>b. wv'[d] = wv[d] + 1 /\ \A x \in Drivers : x # d => wv'[x] = wv[x] /\ pc'[x] = pc[x]
  BY <1>a DEF TypeOK
<1>c. \A x \in Drivers : Attached(x) \/ trainers[x] = "up" => x = d
  BY <1>a, OneAttempt
<1>1. TypeOK'
  BY DEF TypeOK, Places, Phases, Installed, AllLive, In
<1>2. Requested'
  BY DEF Requested, TypeOK, Installed, AllLive, In
<1>3. Calling'
  BY CallTypes DEF Calling, Fits, TypeOK, Requested, Attached, Installed, AllLive, In
<1>4. Probed'
  BY CallTypes DEF Probed, TypeOK, Pausing, Quiet, Still, Calling, Fits, Installed, AllLive, In
<1>5. Owning'
  BY CallTypes DEF Owning, OwnerKept, PublisherOwns, Attached, TypeOK, Requested, Calling, Fits,
     Installed, AllLive, In
<1>6. Pausing'
  BY CallTypes DEF Pausing, Quiet, Still, InUpdate, Attached, TypeOK, Installed, AllLive, In
<1>7. Managed'
  BY CallTypes DEF Managed, ManagerFree, TrainerCalls, Attached, TypeOK, Owning, OwnerKept,
     PublisherOwns, Installed, AllLive, In
<1>8. Joined'
  BY DEF Joined, Marked, Publishing, TrainerCalls, Attached, TypeOK, Installed, AllLive, In
<1>9. Served'
  <2>1. Attached(d)' => Attached(d) /\ Publishing(d)
    BY <1>a DEF Attached, Publishing
  <2>2. \A x \in Drivers : Attached(x)' => x = d
    BY <1>a, <1>c DEF Attached, TypeOK
  <2>3. Attached(d) => \A e \in Engines : eng[e].slot # "empty" => eng[e].version = wv'[d]
    BY <1>a, <1>b DEF Joined, Publishing
  <2> QED  BY <1>a, <2>1, <2>2, <2>3 DEF Served
<1>10. Growing'
  <2>1. \A e \in Engines : eng[e].version \in Nat
    BY DEF TypeOK, Engine
  <2>2. ASSUME NEW x \in Drivers, Publisher(x)', NEW e \in Engines, eng[e].slot # "empty"
        PROVE  eng[e].version <= wv'[x]
    <3>1. x = d
      BY <1>a, <1>b, <1>c, <2>2 DEF Publisher, Attached
    <3>2. Publisher(d)
      BY <1>a DEF Publisher
    <3>3. eng[e].version <= wv[d] \/ eng[e].version <= wv[d] + 1
      BY <2>2, <3>2 DEF Growing
    <3> QED  BY <1>a, <1>b, <2>1, <3>1, <3>3
  <2> QED  BY <1>a, <2>2 DEF Growing
<1> QED  BY <1>1, <1>2, <1>3, <1>4, <1>5, <1>6, <1>7, <1>8, <1>9, <1>10

(* A publication that fails ends the attempt. *)
LEMMA PublishFailsStep ==
    ASSUME IInv, NEW d \in Drivers, PublishFails(d)
    PROVE  IInv'
<1> USE DEF IInv
<1>1. TypeOK'
  BY DEF TypeOK, Places, Phases, PublishFails, Abandoned
<1>2. Requested'
  BY DEF Requested, TypeOK, PublishFails, Abandoned
<1>3. Calling'
  BY CallTypes DEF Calling, Fits, TypeOK, Requested, Attached, PublishFails, Abandoned
<1>4. Probed'
  BY CallTypes DEF Probed, TypeOK, Pausing, Quiet, Still, Calling, Fits, PublishFails, Abandoned
<1>5. Owning'
  BY CallTypes DEF Owning, OwnerKept, PublisherOwns, Attached, TypeOK, Requested, Calling, Fits,
     PublishFails, Abandoned
<1>6. Pausing'
  BY CallTypes DEF Pausing, Quiet, Still, InUpdate, Attached, TypeOK, PublishFails, Abandoned
<1>7. Managed'
  BY CallTypes DEF Managed, ManagerFree, TrainerCalls, Attached, TypeOK, Owning, OwnerKept,
     PublisherOwns, PublishFails, Abandoned
<1>8. Joined'
  BY DEF Joined, Marked, Publishing, TrainerCalls, Attached, TypeOK, PublishFails, Abandoned
<1>9. Served'
  BY DEF Served, Attached, TypeOK, PublishFails, Abandoned
<1>10. Growing'
  BY DEF Growing, Publisher, Attached, TypeOK, PublishFails, Abandoned
<1> QED  BY <1>1, <1>2, <1>3, <1>4, <1>5, <1>6, <1>7, <1>8, <1>9, <1>10

(* The driver asks for a rollout. *)
LEMMA GenerateStep ==
    ASSUME IInv, NEW d \in Drivers, Generate(d)
    PROVE  IInv'
<1> USE DEF IInv
<1>1. TypeOK'
  BY DEF TypeOK, Places, Phases, Generate
<1>2. Requested'
  BY DEF Requested, TypeOK, Generate
<1>3. Calling'
  BY CallTypes DEF Calling, Fits, TypeOK, Requested, Attached, Generate
<1>4. Probed'
  BY CallTypes DEF Probed, TypeOK, Pausing, Quiet, Still, Calling, Fits, Generate
<1>5. Owning'
  BY CallTypes DEF Owning, OwnerKept, PublisherOwns, Attached, TypeOK, Requested, Calling, Fits,
     Generate
<1>6. Pausing'
  BY CallTypes DEF Pausing, Quiet, Still, InUpdate, Attached, TypeOK, Generate
<1>7. Managed'
  BY CallTypes DEF Managed, ManagerFree, TrainerCalls, Attached, TypeOK, Owning, OwnerKept,
     PublisherOwns, Generate
<1>8. Joined'
  BY DEF Joined, Marked, Publishing, TrainerCalls, Attached, TypeOK, Generate
<1>9. Served'
  BY DEF Served, Attached, TypeOK, Generate
<1>10. Growing'
  BY DEF Growing, Publisher, Attached, TypeOK, Generate
<1> QED  BY <1>1, <1>2, <1>3, <1>4, <1>5, <1>6, <1>7, <1>8, <1>9, <1>10

(* The monitors are resumed for a rollout; no attempt is in an update then. *)
LEMMA ResumeStep ==
    ASSUME IInv, NEW d \in Drivers, Resume(d)
    PROVE  IInv'
<1> USE DEF IInv
<1>a. \A g \in DOMAIN Groups : mon'[g].thread = mon[g].thread /\ mon'[g].bad = mon[g].bad /\ mon'[g] \in Monitor
  <2>1. \A g \in DOMAIN Groups : mon'[g] = [mon[g] EXCEPT !.paused = FALSE]
    BY DEF Resume
  <2>2. ASSUME NEW m \in Monitor
        PROVE  /\ [m EXCEPT !.paused = FALSE] \in Monitor
               /\ [m EXCEPT !.paused = FALSE].thread = m.thread /\ [m EXCEPT !.paused = FALSE].bad = m.bad
    BY DEF Monitor
  <2> QED  BY <2>1, <2>2 DEF TypeOK
<1>b. /\ pc[d] = "resume" /\ call = None /\ pc' = [pc EXCEPT ![d] = "rollout"]
      /\ UNCHANGED <<eng, fresh, serving, trainers, phase, handles, wv, faults, late>>
  BY DEF Resume
<1>c. mon' \in [DOMAIN Groups -> Monitor]
  BY <1>a DEF Resume
<1>1. TypeOK'
  BY <1>b, <1>c DEF TypeOK, Places
<1>2. Requested'
  BY DEF Requested, TypeOK, Resume
<1>3. Calling'
  BY CallTypes DEF Calling, Fits, TypeOK, Requested, Attached, Resume
<1>4. Probed'
  BY <1>a, <1>b DEF Probed
<1>5. Owning'
  BY CallTypes DEF Owning, OwnerKept, PublisherOwns, Attached, TypeOK, Requested, Calling, Fits,
     Resume
<1>6. Pausing'
  <2>1. ASSUME NEW x \in Drivers, Attached(x)', InUpdate(x)' PROVE FALSE
    <3>1. x # d /\ Attached(x) /\ pc[x] # "bind"
      BY <1>b, <2>1 DEF Attached, InUpdate, TypeOK
    <3> QED  BY <1>b, <3>1 DEF Managed, ManagerFree
  <2> QED  BY <1>b, <2>1 DEF Pausing
<1>7. Managed'
  BY CallTypes DEF Managed, ManagerFree, TrainerCalls, Attached, TypeOK, Owning, OwnerKept,
     PublisherOwns, Resume
<1>8. Joined'
  BY DEF Joined, Marked, Publishing, TrainerCalls, Attached, TypeOK, Resume
<1>9. Served'
  BY DEF Served, Attached, TypeOK, Resume
<1>10. Growing'
  BY DEF Growing, Publisher, Attached, TypeOK, Resume
<1> QED  BY <1>1, <1>2, <1>3, <1>4, <1>5, <1>6, <1>7, <1>8, <1>9, <1>10

(* The rollout ends and its engines are to be checked. *)
LEMMA RolloutStep ==
    ASSUME IInv, NEW d \in Drivers, Rollout(d)
    PROVE  IInv'
<1> USE DEF IInv
<1>1. TypeOK'
  <2>1. inbox' \subseteq Requests /\ IsFiniteSet(inbox')
    BY Sent DEF Rollout, OwnerCalls
  <2> QED  BY <2>1 DEF TypeOK, Places, Phases, Rollout
<1>2. Requested'
  BY DEF Requested, TypeOK, Rollout, Send
<1>3. Calling'
  BY CallTypes DEF Calling, Fits, TypeOK, Requested, Attached, Rollout, Send
<1>4. Probed'
  BY CallTypes DEF Probed, TypeOK, Pausing, Quiet, Still, Calling, Fits, Rollout, Send
<1>5. Owning'
  BY CallTypes DEF Owning, OwnerKept, PublisherOwns, Attached, TypeOK, Requested, Calling, Fits,
     Rollout, Send
<1>6. Pausing'
  BY CallTypes DEF Pausing, Quiet, Still, InUpdate, Attached, TypeOK, Rollout, Send
<1>7. Managed'
  BY CallTypes DEF Managed, ManagerFree, TrainerCalls, Attached, TypeOK, Owning, OwnerKept,
     PublisherOwns, Rollout, Send
<1>8. Joined'
  BY DEF Joined, Marked, Publishing, TrainerCalls, Attached, TypeOK, Rollout, Send
<1>9. Served'
  BY DEF Served, Attached, TypeOK, Rollout, Send
<1>10. Growing'
  BY DEF Growing, Publisher, Attached, TypeOK, Rollout, Send
<1> QED  BY <1>1, <1>2, <1>3, <1>4, <1>5, <1>6, <1>7, <1>8, <1>9, <1>10

(* A rollout that raises ends the attempt. *)
LEMMA RolloutRaisesStep ==
    ASSUME IInv, NEW d \in Drivers, RolloutRaises(d)
    PROVE  IInv'
<1> USE DEF IInv
<1>1. TypeOK'
  BY DEF TypeOK, Places, Phases, RolloutRaises, Abandoned, Fault
<1>2. Requested'
  BY DEF Requested, TypeOK, RolloutRaises, Abandoned
<1>3. Calling'
  BY CallTypes DEF Calling, Fits, TypeOK, Requested, Attached, RolloutRaises, Abandoned
<1>4. Probed'
  BY CallTypes DEF Probed, TypeOK, Pausing, Quiet, Still, Calling, Fits, RolloutRaises, Abandoned
<1>5. Owning'
  BY CallTypes DEF Owning, OwnerKept, PublisherOwns, Attached, TypeOK, Requested, Calling, Fits,
     RolloutRaises, Abandoned
<1>6. Pausing'
  BY CallTypes DEF Pausing, Quiet, Still, InUpdate, Attached, TypeOK, RolloutRaises, Abandoned
<1>7. Managed'
  BY CallTypes DEF Managed, ManagerFree, TrainerCalls, Attached, TypeOK, Owning, OwnerKept,
     PublisherOwns, RolloutRaises, Abandoned
<1>8. Joined'
  BY DEF Joined, Marked, Publishing, TrainerCalls, Attached, TypeOK, RolloutRaises, Abandoned
<1>9. Served'
  BY DEF Served, Attached, TypeOK, RolloutRaises, Abandoned
<1>10. Growing'
  BY DEF Growing, Publisher, Attached, TypeOK, RolloutRaises, Abandoned
<1> QED  BY <1>1, <1>2, <1>3, <1>4, <1>5, <1>6, <1>7, <1>8, <1>9, <1>10

(* The trainers have trained and ask for the engines again. *)
LEMMA TrainStep ==
    ASSUME IInv, NEW d \in Drivers, Train(d)
    PROVE  IInv'
<1> USE DEF IInv
<1>1. TypeOK'
  <2>1. inbox' \subseteq Requests /\ IsFiniteSet(inbox')
    BY Sent DEF Train, OwnerCalls
  <2> QED  BY <2>1 DEF TypeOK, Places, Phases, Train
<1>2. Requested'
  BY DEF Requested, TypeOK, Train, Send
<1>3. Calling'
  BY CallTypes DEF Calling, Fits, TypeOK, Requested, Attached, Train, Send
<1>4. Probed'
  BY CallTypes DEF Probed, TypeOK, Pausing, Quiet, Still, Calling, Fits, Train, Send
<1>5. Owning'
  BY CallTypes DEF Owning, OwnerKept, PublisherOwns, Attached, TypeOK, Requested, Calling, Fits,
     Train, Send
<1>6. Pausing'
  BY CallTypes DEF Pausing, Quiet, Still, InUpdate, Attached, TypeOK, Train, Send
<1>7. Managed'
  BY CallTypes DEF Managed, ManagerFree, TrainerCalls, Attached, TypeOK, Owning, OwnerKept,
     PublisherOwns, Train, Send
<1>8. Joined'
  BY DEF Joined, Marked, Publishing, TrainerCalls, Attached, TypeOK, Owning, OwnerKept, Train,
     Send
<1>9. Served'
  BY DEF Served, Attached, TypeOK, Train, Send
<1>10. Growing'
  BY DEF Growing, Publisher, Attached, TypeOK, Train, Send
<1> QED  BY <1>1, <1>2, <1>3, <1>4, <1>5, <1>6, <1>7, <1>8, <1>9, <1>10

(* The session is torn down: no engine, no trainers and no monitor is left. *)
LEMMA DisposeStep ==
    ASSUME IInv, NEW d \in Drivers, Dispose(d)
    PROVE  IInv'
<1> USE DEF IInv
<1>a. \A x \in Drivers : /\ pc'[x] = "idle" /\ phase'[x] # "run" /\ ~Attached(x)'
                         /\ trainers'[x] = (IF x \in registered THEN "down" ELSE trainers[x])
                         /\ trainers'[x] # "up"
  BY DEF Dispose, Attached, Owning, TypeOK
<1>b. /\ eng' \in [Engines -> Engine] /\ \A e \in Engines : Vacated(eng'[e])
  <2>1. Vacant \in Engine /\ Vacated(Vacant)
    BY DEF Vacant, Vacated, Engine, Slots
  <2>2. eng' = [e \in Engines |-> Vacant]
    BY DEF Dispose
  <2> QED  BY <2>1, <2>2
<1>c. /\ mon' \in [DOMAIN Groups -> Monitor] /\ \A g \in DOMAIN Groups : mon'[g].thread = "gone"
  <2> DEFINE gone == [NewMonitor EXCEPT !.thread = "gone"]
  <2>1. gone \in Monitor /\ gone.thread = "gone"
    BY DEF NewMonitor, Monitor
  <2>2. mon' = [g \in DOMAIN Groups |-> gone]
    BY DEF Dispose
  <2> HIDE DEF gone
  <2> QED  BY <2>1, <2>2
<1>d. call = None /\ call' = None /\ inbox' = {} /\ registered' = {} /\ UNCHANGED <<fresh, owner, reused, handles, wv, late>>
  BY DEF Dispose
<1>e. /\ trainers' \in [Drivers -> {"none", "up", "down"}] /\ pc' \in [Drivers -> Places]
      /\ phase' \in [Drivers -> Phases]
  BY DEF Dispose, TypeOK, Places, Phases
<1>1. TypeOK'
  BY <1>b, <1>c, <1>d, <1>e, FS_EmptySet DEF TypeOK
<1>2. Requested'
  BY <1>a, <1>d DEF Requested
<1>3. Calling'
  BY <1>d DEF Calling
<1>4. Probed'
  BY <1>c, <1>d DEF Probed
<1>5. Owning'
  BY <1>a DEF Owning, OwnerKept, PublisherOwns
<1>6. Pausing'
  BY <1>a, <1>d DEF Pausing
<1>7. Managed'
  BY <1>a DEF Managed
<1>8. Joined'
  BY <1>a, <1>b, <1>d DEF Joined, Vacated
<1>9. Served'
  BY <1>a, <1>b DEF Served, Vacated
<1>10. Growing'
  <2>1. \A e \in Engines : eng'[e].version <= 0
    BY <1>b DEF Vacated
  <2>2. \A x \in Drivers : ~Publisher(x)'
    BY <1>a DEF Publisher
  <2> QED  BY <2>1, <2>2 DEF Growing
<1> QED  BY <1>1, <1>2, <1>3, <1>4, <1>5, <1>6, <1>7, <1>8, <1>9, <1>10

(* A driver that gives up asks the owner to detach. *)
LEMMA CloseStep ==
    ASSUME IInv, NEW d \in Drivers, Close(d)
    PROVE  IInv'
<1> USE DEF IInv
<1>1. TypeOK'
  <2>1. inbox' \subseteq Requests /\ IsFiniteSet(inbox')
    BY Sent DEF Close, OwnerCalls
  <2> QED  BY <2>1 DEF TypeOK, Places, Phases, Close
<1>2. Requested'
  BY DEF Requested, TypeOK, Close, Send
<1>3. Calling'
  BY CallTypes DEF Calling, Fits, TypeOK, Requested, Attached, Close, Send
<1>4. Probed'
  BY CallTypes DEF Probed, TypeOK, Pausing, Quiet, Still, Calling, Fits, Close, Send
<1>5. Owning'
  BY CallTypes DEF Owning, OwnerKept, PublisherOwns, Attached, TypeOK, Requested, Calling, Fits,
     Close, Send
<1>6. Pausing'
  BY CallTypes DEF Pausing, Quiet, Still, InUpdate, Attached, TypeOK, Close, Send
<1>7. Managed'
  BY CallTypes DEF Managed, ManagerFree, TrainerCalls, Attached, TypeOK, Owning, OwnerKept,
     PublisherOwns, Close, Send
<1>8. Joined'
  BY DEF Joined, Marked, Publishing, TrainerCalls, Attached, TypeOK, Close, Send
<1>9. Served'
  BY DEF Served, Attached, TypeOK, Close, Send
<1>10. Growing'
  BY DEF Growing, Publisher, Attached, TypeOK, Close, Send
<1> QED  BY <1>1, <1>2, <1>3, <1>4, <1>5, <1>6, <1>7, <1>8, <1>9, <1>10

(* A driver stops waiting for its cleanup. *)
LEMMA CloseTimeoutStep ==
    ASSUME IInv, NEW d \in Drivers, CloseTimeout(d)
    PROVE  IInv'
<1> USE DEF IInv
<1>1. TypeOK'
  BY DEF TypeOK, Places, Phases, CloseTimeout
<1>2. Requested'
  BY DEF Requested, TypeOK, CloseTimeout
<1>3. Calling'
  BY CallTypes DEF Calling, Fits, TypeOK, Requested, Attached, CloseTimeout
<1>4. Probed'
  BY CallTypes DEF Probed, TypeOK, Pausing, Quiet, Still, Calling, Fits, CloseTimeout
<1>5. Owning'
  BY CallTypes DEF Owning, OwnerKept, PublisherOwns, Attached, TypeOK, Requested, Calling, Fits,
     CloseTimeout
<1>6. Pausing'
  BY CallTypes DEF Pausing, Quiet, Still, InUpdate, Attached, TypeOK, CloseTimeout
<1>7. Managed'
  BY CallTypes DEF Managed, ManagerFree, TrainerCalls, Attached, TypeOK, Owning, OwnerKept,
     PublisherOwns, CloseTimeout
<1>8. Joined'
  BY DEF Joined, Marked, Publishing, TrainerCalls, Attached, TypeOK, CloseTimeout
<1>9. Served'
  BY DEF Served, Attached, TypeOK, CloseTimeout
<1>10. Growing'
  BY DEF Growing, Publisher, Attached, TypeOK, CloseTimeout
<1> QED  BY <1>1, <1>2, <1>3, <1>4, <1>5, <1>6, <1>7, <1>8, <1>9, <1>10

(* The trainers of an attempt that is over are killed. *)
LEMMA ReapStep ==
    ASSUME IInv, NEW d \in Drivers, Reap(d)
    PROVE  IInv'
<1> USE DEF IInv
<1>a. /\ trainers' \in [Drivers -> {"none", "up", "down"}]
      /\ \A x \in Drivers : trainers'[x] = IF x = d THEN "down" ELSE trainers[x]
      /\ inbox' \subseteq inbox /\ inbox' \subseteq Requests /\ IsFiniteSet(inbox')
      /\ late' \in Nat /\ (late' = 0 => late = 0)
      /\ late' = 0 => \A op \in TrainerCalls : <<op, d>> \notin inbox'
  BY Killed DEF Reap
<1>b. /\ phase[d] = "dead"
      /\ UNCHANGED <<eng, fresh, mon, owner, reused, registered, call, phase, pc, handles, wv, faults>>
  BY DEF Reap
<1>c. \A x \in Drivers : (Attached(x)' <=> Attached(x)) /\ (Attached(x) => x # d)
  BY <1>b DEF Attached
<1>1. TypeOK'
  BY <1>a, <1>b DEF TypeOK
<1>2. Requested'
  BY <1>a, <1>b DEF Requested
<1>3. Calling'
  BY <1>a, <1>b, CallTypes DEF Calling, OwnerCalls
<1>4. Probed'
  BY <1>b DEF Probed
<1>5. Owning'
  BY <1>a, <1>b, <1>c DEF Owning, OwnerKept, PublisherOwns
<1>6. Pausing'
  BY <1>b, <1>c DEF Pausing, Quiet, Still, InUpdate
<1>7. Managed'
  BY <1>a, <1>b, <1>c DEF Managed, ManagerFree
<1>8. Joined'
  BY <1>a, <1>b, <1>c DEF Joined, Marked, Publishing
<1>9. Served'
  BY <1>b, <1>c DEF Served
<1>10. Growing'
  BY <1>a, <1>b, <1>c DEF Growing, Publisher
<1> QED  BY <1>1, <1>2, <1>3, <1>4, <1>5, <1>6, <1>7, <1>8, <1>9, <1>10

(* An engine that dies keeps its slot and its version. *)
LEMMA EngineCrashStep ==
    ASSUME IInv, NEW e \in Engines, EngineCrash(e)
    PROVE  IInv'
<1> USE DEF IInv
<1>1. TypeOK'
  <2>1. eng' = [eng EXCEPT ![e] = [eng[e] EXCEPT !.slot = "dead"]]
    BY DEF EngineCrash
  <2>2. [eng[e] EXCEPT !.slot = "dead"] \in Engine
    BY DEF TypeOK, Engine, Slots
  <2> QED  BY <2>1, <2>2 DEF TypeOK, EngineCrash
<1>2. Requested'
  BY DEF Requested, TypeOK, EngineCrash
<1>3. Calling'
  BY CallTypes DEF Calling, Fits, TypeOK, Requested, Attached, EngineCrash
<1>4. Probed'
  BY CallTypes DEF Probed, TypeOK, Pausing, Quiet, Still, Calling, Fits, EngineCrash
<1>5. Owning'
  BY CallTypes DEF Owning, OwnerKept, PublisherOwns, Attached, TypeOK, Requested, Calling, Fits,
     EngineCrash
<1>6. Pausing'
  BY CallTypes DEF Pausing, Quiet, Still, InUpdate, Attached, TypeOK, EngineCrash
<1>7. Managed'
  BY CallTypes DEF Managed, ManagerFree, TrainerCalls, Attached, TypeOK, Owning, OwnerKept,
     PublisherOwns, EngineCrash
<1>8. Joined'
  BY DEF Joined, Marked, Publishing, TrainerCalls, Attached, TypeOK, EngineCrash
<1>9. Served'
  BY DEF Served, Attached, TypeOK, EngineCrash
<1>10. Growing'
  BY DEF Growing, Publisher, Attached, TypeOK, EngineCrash
<1> QED  BY <1>1, <1>2, <1>3, <1>4, <1>5, <1>6, <1>7, <1>8, <1>9, <1>10

(* A driver meets an error: its attempt runs no more. *)
LEMMA DriverFailsStep ==
    ASSUME IInv, NEW d \in Drivers, DriverFails(d)
    PROVE  IInv'
<1> USE DEF IInv
<1>1. TypeOK'
  BY DEF TypeOK, Places, Phases, DriverFails
<1>2. Requested'
  BY DEF Requested, TypeOK, DriverFails
<1>3. Calling'
  BY CallTypes DEF Calling, Fits, TypeOK, Requested, Attached, DriverFails
<1>4. Probed'
  BY CallTypes DEF Probed, TypeOK, Pausing, Quiet, Still, Calling, Fits, DriverFails
<1>5. Owning'
  BY CallTypes DEF Owning, OwnerKept, PublisherOwns, Attached, TypeOK, Requested, Calling, Fits,
     DriverFails
<1>6. Pausing'
  BY CallTypes DEF Pausing, Quiet, Still, InUpdate, Attached, TypeOK, DriverFails
<1>7. Managed'
  BY CallTypes DEF Managed, ManagerFree, TrainerCalls, Attached, TypeOK, Owning, OwnerKept,
     PublisherOwns, DriverFails
<1>8. Joined'
  BY DEF Joined, Marked, Publishing, TrainerCalls, Attached, TypeOK, DriverFails
<1>9. Served'
  BY DEF Served, Attached, TypeOK, DriverFails
<1>10. Growing'
  BY DEF Growing, Publisher, Attached, TypeOK, DriverFails
<1> QED  BY <1>1, <1>2, <1>3, <1>4, <1>5, <1>6, <1>7, <1>8, <1>9, <1>10

(* A driver is killed: its attempt runs no more. *)
LEMMA DriverKilledStep ==
    ASSUME IInv, NEW d \in Drivers, DriverKilled(d)
    PROVE  IInv'
<1> USE DEF IInv
<1>1. TypeOK'
  BY DEF TypeOK, Places, Phases, DriverKilled
<1>2. Requested'
  BY DEF Requested, TypeOK, DriverKilled
<1>3. Calling'
  BY CallTypes DEF Calling, Fits, TypeOK, Requested, Attached, DriverKilled
<1>4. Probed'
  BY CallTypes DEF Probed, TypeOK, Pausing, Quiet, Still, Calling, Fits, DriverKilled
<1>5. Owning'
  BY CallTypes DEF Owning, OwnerKept, PublisherOwns, Attached, TypeOK, Requested, Calling, Fits,
     DriverKilled
<1>6. Pausing'
  BY CallTypes DEF Pausing, Quiet, Still, InUpdate, Attached, TypeOK, DriverKilled
<1>7. Managed'
  BY CallTypes DEF Managed, ManagerFree, TrainerCalls, Attached, TypeOK, Owning, OwnerKept,
     PublisherOwns, DriverKilled
<1>8. Joined'
  BY DEF Joined, Marked, Publishing, TrainerCalls, Attached, TypeOK, DriverKilled
<1>9. Served'
  BY DEF Served, Attached, TypeOK, DriverKilled
<1>10. Growing'
  BY DEF Growing, Publisher, Attached, TypeOK, DriverKilled
<1> QED  BY <1>1, <1>2, <1>3, <1>4, <1>5, <1>6, <1>7, <1>8, <1>9, <1>10

-----------------------------------------------------------------------------
(* The invariant and the properties *)

(* At the start every engine serves, nothing is attached and nobody checks.   *)
LEMMA InitIInv == Init => IInv
<1> SUFFICES ASSUME Init PROVE IInv
  OBVIOUS
<1>a. /\ \A e \in Engines : eng[e] \in Engine /\ eng[e].slot = "live" /\ eng[e].version = 0
      /\ \A g \in DOMAIN Groups : mon[g] \in Monitor /\ mon[g].thread = "top"
  <2>1. Started \in Engine /\ Started.slot = "live" /\ Started.version = 0
    BY DEF Started, Engine, Slots
  <2>2. NewMonitor \in Monitor /\ NewMonitor.thread = "top"
    BY DEF NewMonitor, Monitor
  <2>3. eng = [e \in Engines |-> Started] /\ mon = [g \in DOMAIN Groups |-> NewMonitor]
    BY DEF Init
  <2> QED  BY <2>1, <2>2, <2>3
<1>b. \A d \in Drivers : phase[d] = "new" /\ pc[d] = "idle" /\ trainers[d] = "none" /\ wv[d] = 0
  BY DEF Init
<1>c. /\ call = None /\ inbox = {} /\ registered = {} /\ owner = None /\ ~reused /\ late = 0
      /\ eng = [e \in Engines |-> Started] /\ mon = [g \in DOMAIN Groups |-> NewMonitor]
  BY DEF Init
<1>d. fresh \in [DOMAIN Groups -> Nat] /\ \A g \in DOMAIN Groups : Groups[g] # {} => fresh[g] > 0
  <2>1. fresh = [g \in DOMAIN Groups |-> Cardinality(Groups[g])]
    BY DEF Init
  <2>2. \A g \in DOMAIN Groups : Groups[g] \cap Engines = Groups[g]
    BY GroupFacts
  <2> QED  BY <2>1, <2>2, GroupFacts
<1>e. \A d \in Drivers : ~Attached(d)
  BY <1>b DEF Attached
<1>1. TypeOK
  <2>1. eng \in [Engines -> Engine] /\ mon \in [DOMAIN Groups -> Monitor]
    BY <1>a, <1>c
  <2>2. /\ trainers \in [Drivers -> {"none", "up", "down"}] /\ phase \in [Drivers -> Phases]
        /\ pc \in [Drivers -> Places] /\ handles \in [Drivers -> SUBSET Engines] /\ wv \in [Drivers -> Nat]
    BY DEF Init, Phases, Places
  <2>3. reused \in BOOLEAN /\ IsFiniteSet(inbox)
    BY <1>c, FS_EmptySet DEF Init
  <2> QED  BY <1>c, <1>d, <2>1, <2>2, <2>3 DEF TypeOK
<1>2. Requested /\ Calling /\ Probed
  BY <1>a, <1>b, <1>c DEF Requested, Calling, Probed
<1>3. Owning /\ Pausing /\ Managed
  BY <1>b, <1>c, <1>e DEF Owning, OwnerKept, PublisherOwns, Pausing, Managed
<1>4. Joined
  <2>1. Marked \/ \A e \in Engines : eng[e].slot = "empty"
    <3>1. ASSUME NEW e \in Engines PROVE Marked
      <4>1. PICK g \in DOMAIN Groups : e \in Groups[g]
        BY GroupFacts
      <4> QED  BY <1>d, <4>1 DEF Marked
    <3> QED  BY <3>1
  <2> QED  BY <1>c, <1>e, <2>1 DEF Joined
<1>5. Served /\ Growing
  <2>1. \A d \in Drivers : ~Publisher(d)
    BY <1>b, <1>e DEF Publisher
  <2> QED  BY <1>a, <1>e, <2>1 DEF Served, Growing
<1> QED  BY <1>1, <1>2, <1>3, <1>4, <1>5 DEF IInv

(* Every step of a monitor, of the serving actor, of an attempt and of the    *)
(* environment preserves the invariant.                                       *)
LEMMA NextIInv == IInv /\ [Next]_vars => IInv'
<1> SUFFICES ASSUME IInv, [Next]_vars PROVE IInv'
  OBVIOUS
<1>1. ASSUME NEW g \in DOMAIN Groups, MonitorStep(g) PROVE IInv'
  BY <1>1, MonitorWakeStep, MonitorCheckStep, MonitorRetireStep, MonitorDoneStep DEF MonitorStep
<1>2. CASE OwnerStep
  <2>1. ASSUME NEW op \in OwnerCalls, NEW d \in Drivers, Accept(op, d) PROVE IInv'
    BY <2>1, AcceptStep
  <2>2. CASE PauseMonitor \/ PauseLocked \/ PauseTimeout
    BY <2>2, PauseMonitorStep, PauseLockedStep, PauseTimeoutStep
  <2>3. CASE AttachRelease \/ DetachRelease
    BY <2>3, AttachReleaseStep, DetachReleaseStep
  <2>4. CASE ResetRetire \/ ResetPeers \/ AttachCommit
    BY <2>4, ResetRetireStep, ResetPeersStep, AttachCommitStep
  <2>5. CASE RecoverStart
    BY <2>5, RecoverStartStep
  <2>6. CASE CheckProbe \/ CheckRetire \/ CheckNext
    BY <2>6, CheckProbeStep, CheckRetireStep, CheckNextStep
  <2>7. ASSUME NEW d \in Drivers, ClearFresh(d) PROVE IInv'
    BY <2>7, ClearFreshStep
  <2> QED  BY <1>2, <2>1, <2>2, <2>3, <2>4, <2>5, <2>6, <2>7 DEF OwnerStep, OwnerCalls
<1>3. ASSUME NEW d \in Drivers, Submit(d) PROVE IInv'
  BY <1>3, SubmitStep
<1>4. ASSUME NEW d \in Drivers, AttemptStep(d) PROVE IInv'
  <2>1. CASE Bind(d) \/ Create(d) \/ GetEngines(d) \/ Connect(d)
    BY <2>1, BindStep, CreateStep, GetEnginesStep, ConnectStep
  <2>2. ASSUME NEW e \in Engines, Install(d, e) PROVE IInv'
    BY <2>2, InstallStep
  <2>3. CASE Installed(d) \/ PublishFails(d) \/ Generate(d) \/ Resume(d)
    BY <2>3, InstalledStep, PublishFailsStep, GenerateStep, ResumeStep
  <2>4. CASE Rollout(d) \/ Train(d) \/ Dispose(d)
    BY <2>4, RolloutStep, TrainStep, DisposeStep
  <2>5. CASE Close(d) \/ CloseTimeout(d) \/ Reap(d)
    BY <2>5, CloseStep, CloseTimeoutStep, ReapStep
  <2> QED  BY <1>4, <2>1, <2>2, <2>3, <2>4, <2>5 DEF AttemptStep
<1>5. CASE FaultStep
  BY <1>5, EngineCrashStep, DriverFailsStep, DriverKilledStep, RolloutRaisesStep DEF FaultStep
<1>6. CASE UNCHANGED vars
  <2> USE <1>6 DEF vars
  <2>1. TypeOK' /\ Requested' /\ Calling' /\ Probed'
    BY DEF IInv, TypeOK, Requested, Calling, Fits, Probed
  <2>2. Owning' /\ Pausing' /\ Managed'
    BY DEF IInv, Owning, OwnerKept, PublisherOwns, Pausing, Quiet, Still, InUpdate, Managed,
       ManagerFree, Attached
  <2>3. Joined' /\ Served' /\ Growing'
    BY DEF IInv, Joined, Marked, Publishing, Served, Growing, Publisher, Attached
  <2> QED  BY <2>1, <2>2, <2>3 DEF IInv
<1> QED  BY <1>1, <1>2, <1>3, <1>4, <1>5, <1>6 DEF Next, Finished

(* What every reachable state satisfies.                                      *)
THEOREM Invariance == Spec => []IInv
<1>1. Init => IInv
  BY InitIInv
<1>2. IInv /\ [Next]_vars => IInv'
  BY NextIInv
<1> QED  BY <1>1, <1>2, PTL DEF Spec

(* Type correctness: slots, monitors, requests and attempts have the forms    *)
(* the code gives them.                                                       *)
THEOREM TypeCorrect == Spec => []TypeOK
<1>1. IInv => TypeOK
  BY DEF IInv
<1> QED  BY <1>1, Invariance, PTL

(* "A late cleanup from an old driver must not detach its successor": while   *)
(* an attempt runs, the session and its trainers are its own, whatever calls  *)
(* of earlier attempts are still served.                                      *)
THEOREM SuccessorKeepsSession == Spec => []OwnerKept
<1>1. IInv => OwnerKept
  BY DEF IInv, Owning
<1> QED  BY <1>1, Invariance, PTL

(* No trainers publish into the session of another attempt.                   *)
THEOREM OnlyTheOwnerPublishes == Spec => []PublisherOwns
<1>1. IInv => PublisherOwns
  BY DEF IInv, Owning
<1> QED  BY <1>1, Invariance, PTL

(* Nobody checks engines while the owner changes them or the trainers install *)
(* weights in them.                                                           *)
THEOREM NoCheckDuringUpdate == Spec => []QuietWhilePaused
<1>1. IInv => QuietWhilePaused
  <2> SUFFICES ASSUME IInv,
                      \/ call # None /\ call.step \in {"reset", "commit", "start", "check", "retire"}
                      \/ \E d \in Drivers : Attached(d) /\ Publishing(d)
               PROVE  Quiet
    BY DEF QuietWhilePaused, Quiet, Still, ThreadHolds
  <2>1. CASE call # None /\ call.step \in {"reset", "commit", "start", "check", "retire"}
    BY <2>1 DEF IInv, Pausing, Calling, Fits
  <2>2. CASE \E d \in Drivers : Attached(d) /\ Publishing(d)
    BY <2>2 DEF IInv, Pausing, InUpdate, Publishing
  <2> QED  BY <2>1, <2>2
<1> QED  BY <1>1, Invariance, PTL

(* What is published reaches engines that hold their slots and have joined    *)
(* the group of these trainers.                                               *)
THEOREM PublicationReaches == Spec => []PublishReaches
<1>1. IInv => PublishReaches
  <2> SUFFICES ASSUME IInv, late = 0, NEW d \in Drivers, Attached(d), Publishing(d), NEW e \in handles[d]
               PROVE  eng[e].slot # "empty" /\ (pc[d] = "install" => eng[e].peer = d)
    BY DEF PublishReaches
  <2>1. e \in Engines
    BY DEF IInv, TypeOK
  <2> QED  BY <2>1 DEF IInv, Joined
<1> QED  BY <1>1, Invariance, PTL

(* Rollouts are served by the weights that were published last.               *)
THEOREM RolloutsServePublished == Spec => []RolloutServesPublished
<1>1. IInv => RolloutServesPublished
  BY DEF IInv, Served, RolloutServesPublished
<1> QED  BY <1>1, Invariance, PTL

(* The version of an engine that keeps its slot.                              *)
NoOlder ==
    \A e \in Engines : eng[e].slot # "empty" /\ eng'[e].slot # "empty" => eng'[e].version >= eng[e].version

(* A retirement empties the slot or leaves the weights as they are.           *)
LEMMA RetiredNoOlder ==
    ASSUME TypeOK, NEW e \in Engines, eng[e].slot # "empty", NEW r \in RetireResults(e),
           eng' = [eng EXCEPT ![e] = r.eng]
    PROVE  NoOlder
<1>1. \A x \in Engines : Shrinks(eng[x], eng'[x])
  BY Retired
<1>2. \A x \in Engines : eng[x].version \in Nat
  BY DEF TypeOK, Engine
<1> QED  BY <1>1, <1>2 DEF Shrinks, Vacated, NoOlder

(* Only steps of these actions change engines.                                *)
LEMMA EnginesChanged ==
    ASSUME [Next]_vars, eng' # eng
    PROVE  \/ \E g \in DOMAIN Groups : MonitorRetire(g)
           \/ ResetRetire \/ ResetPeers \/ RecoverStart \/ CheckRetire
           \/ \E d \in Drivers : Connect(d) \/ Dispose(d) \/ \E e \in Engines : Install(d, e)
           \/ \E e \in Engines : EngineCrash(e)
<1>1. ASSUME NEW g \in DOMAIN Groups, MonitorStep(g) PROVE MonitorRetire(g)
  BY <1>1 DEF MonitorStep, MonitorWake, MonitorCheck, MonitorDone
<1>2. ASSUME OwnerStep PROVE ResetRetire \/ ResetPeers \/ RecoverStart \/ CheckRetire
  <2>1. ASSUME NEW op, NEW d, Accept(op, d) \/ ClearFresh(d) PROVE FALSE
    BY <2>1 DEF Accept, ClearFresh
  <2>2. CASE PauseMonitor \/ PauseLocked \/ PauseTimeout
    BY <2>2 DEF PauseMonitor, PauseLocked, PauseTimeout
  <2>3. CASE AttachRelease \/ DetachRelease \/ AttachCommit
    BY <2>3 DEF AttachRelease, DetachRelease, AttachCommit
  <2>4. CASE CheckProbe \/ CheckNext
    BY <2>4 DEF CheckProbe, CheckNext
  <2> QED  BY <1>2, <2>1, <2>2, <2>3, <2>4 DEF OwnerStep
<1>3. ASSUME NEW d \in Drivers, Submit(d) \/ AttemptStep(d)
      PROVE  Connect(d) \/ Dispose(d) \/ \E e \in Engines : Install(d, e)
  <2>1. CASE Submit(d) \/ Bind(d) \/ Create(d) \/ GetEngines(d) \/ Installed(d) \/ PublishFails(d)
    BY <2>1 DEF Submit, Bind, Create, GetEngines, Installed, PublishFails
  <2>2. CASE Generate(d) \/ Resume(d) \/ Rollout(d) \/ Train(d) \/ Close(d) \/ CloseTimeout(d) \/ Reap(d)
    BY <2>2 DEF Generate, Resume, Rollout, Train, Close, CloseTimeout, Reap
  <2> QED  BY <1>3, <2>1, <2>2 DEF AttemptStep
<1>4. ASSUME FaultStep PROVE \E e \in Engines : EngineCrash(e)
  BY <1>4 DEF FaultStep, DriverFails, DriverKilled, RolloutRaises
<1>5. ~UNCHANGED vars
  BY DEF vars
<1> QED  BY <1>1, <1>2, <1>3, <1>4, <1>5 DEF Next, Finished

(* A step leaves no engine that keeps its slot with older weights: what       *)
(* trainers install is the version after the one they published last, and     *)
(* they were bound to the newest that was served.                             *)
LEMMA StepNoOlder ==
    ASSUME IInv, [Next]_vars
    PROVE  NoOlder
<1> USE DEF IInv
<1>a. \A e \in Engines : eng[e].version \in Nat
  BY DEF TypeOK, Engine
<1>b. \A e \in Engines : eng[e] \in Engine
  BY DEF TypeOK
<1>1. CASE eng' = eng
  BY <1>1, <1>a DEF NoOlder
<1>2. ASSUME NEW g \in DOMAIN Groups, MonitorRetire(g) PROVE NoOlder
  <2>1. PICK e \in mon[g].bad : \E r \in RetireResults(e) : eng' = [eng EXCEPT ![e] = r.eng]
    BY <1>2 DEF MonitorRetire
  <2>2. e \in Engines /\ eng[e].slot # "empty"
    BY <1>2, GroupFacts DEF MonitorRetire, Probed
  <2> QED  BY <2>1, <2>2, RetiredNoOlder
<1>3. CASE ResetRetire
  <2>1. PICK e \in In("dead") \cup In("live") : \E r \in RetireResults(e) : eng' = [eng EXCEPT ![e] = r.eng]
    BY <1>3 DEF ResetRetire
  <2>2. e \in Engines /\ eng[e].slot # "empty"
    BY DEF In
  <2> QED  BY <2>1, <2>2, RetiredNoOlder
<1>4. CASE CheckRetire
  <2>1. PICK e \in call.bad : \E r \in RetireResults(e) : eng' = [eng EXCEPT ![e] = r.eng]
    BY <1>4 DEF CheckRetire
  <2>2. e \in Engines /\ eng[e].slot # "empty"
    BY <1>4, CallTypes DEF CheckRetire, At, Probed
  <2> QED  BY <2>1, <2>2, RetiredNoOlder
<1>5. CASE ResetPeers
  <2>1. ASSUME NEW x \in Engine PROVE [x EXCEPT !.peer = None].version = x.version
    BY DEF Engine
  <2>2. \A e \in Engines : eng'[e] = [eng[e] EXCEPT !.peer = None]
    BY <1>5 DEF ResetPeers
  <2>3. \A e \in Engines : eng'[e].version = eng[e].version
    BY <1>b, <2>1, <2>2
  <2> QED  BY <1>a, <2>3 DEF NoOlder
<1>6. CASE RecoverStart
  <2>1. \A e \in Engines : eng[e].slot # "empty" => eng'[e] = eng[e]
    BY <1>6 DEF RecoverStart, In
  <2> QED  BY <1>a, <2>1 DEF NoOlder
<1>7. ASSUME NEW d \in Drivers, Connect(d) PROVE NoOlder
  <2>1. ASSUME NEW x \in Engine PROVE [x EXCEPT !.peer = d].version = x.version
    BY DEF Engine
  <2>2. \A e \in Engines : eng'[e] = [eng[e] EXCEPT !.peer = d] \/ eng'[e] = eng[e]
    BY <1>7 DEF Connect
  <2>3. \A e \in Engines : eng'[e].version = eng[e].version
    BY <1>b, <2>1, <2>2
  <2> QED  BY <1>a, <2>3 DEF NoOlder
<1>8. ASSUME NEW d \in Drivers, Dispose(d) PROVE NoOlder
  BY <1>8 DEF Dispose, Vacant, NoOlder
<1>9. ASSUME NEW d \in Drivers, NEW e \in Engines, Install(d, e) PROVE NoOlder
  <2>1. /\ trainers[d] = "up" /\ pc[d] = "install" /\ wv[d] \in Nat /\ eng[e].slot = "live"
        /\ eng' = [eng EXCEPT ![e].version = wv[d] + 1]
    BY <1>9 DEF Install, AllLive, In, TypeOK
  <2>2. eng[e].version <= wv[d] \/ eng[e].version <= wv[d] + 1
    BY <2>1 DEF Growing, Publisher
  <2>3. eng' = [eng EXCEPT ![e] = [eng[e] EXCEPT !.version = wv[d] + 1]]
    BY <2>1
  <2>4. [eng[e] EXCEPT !.version = wv[d] + 1].version = wv[d] + 1
    BY DEF TypeOK, Engine
  <2>5. eng'[e].version = wv[d] + 1 /\ \A x \in Engines : x # e => eng'[x] = eng[x]
    BY <2>3, <2>4 DEF TypeOK
  <2>6. \A x \in Engines : eng'[x].version >= eng[x].version
    BY <1>a, <2>1, <2>2, <2>5
  <2> QED  BY <2>6 DEF NoOlder
<1>10. ASSUME NEW e \in Engines, EngineCrash(e) PROVE NoOlder
  <2>1. ASSUME NEW x \in Engine PROVE [x EXCEPT !.slot = "dead"].version = x.version
    BY DEF Engine
  <2>2. \A x \in Engines : eng'[x] = [eng[x] EXCEPT !.slot = "dead"] \/ eng'[x] = eng[x]
    BY <1>10 DEF EngineCrash, TypeOK
  <2>3. \A x \in Engines : eng'[x].version = eng[x].version
    BY <1>b, <2>1, <2>2
  <2> QED  BY <1>a, <2>3 DEF NoOlder
<1> QED  BY <1>1, <1>2, <1>3, <1>4, <1>5, <1>6, <1>7, <1>8, <1>9, <1>10, EnginesChanged

(* "Publishing restored checkpoint weights does not move the version          *)
(* backwards": across attempts, the version of an engine that keeps its slot  *)
(* only grows.                                                                *)
THEOREM VersionsOnlyGrow == Spec => EngineVersionGrows
<1>1. IInv /\ [Next]_vars =>
        [\A e \in Engines : eng[e].slot # "empty" /\ eng'[e].slot # "empty"
            => eng'[e].version >= eng[e].version]_vars
  BY StepNoOlder DEF NoOlder
<1> QED  BY <1>1, Invariance, PTL DEF Spec, EngineVersionGrows
=============================================================================
