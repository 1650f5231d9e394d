------------------------ MODULE DiskWeightSyncProofs ------------------------
(***************************************************************************)
(* Proofs about DiskWeightSync in delta mode: engines that generate hold   *)
(* the tensors of the version they report, an update that returns leaves   *)
(* all of them with the trainer's, and no difference is applied to a wrong *)
(* base unless an engine died during the same update.                      *)
(***************************************************************************)
EXTENDS DiskWeightSync, WellFoundedInduction, TLAPS

-----------------------------------------------------------------------------
(* The inductive invariant *)

Places  == {"start", "publish", "pull", "pause", "flush", "reload", "continue", "rollout", "down"}
Ops     == {"pull", "pause", "flush", "reload", "relabel", "continue"}
Copy    == [applied : Versions \cup {None}, data : Contents]

TypeOK ==
    /\ weights \in Contents /\ ckpt \in Contents /\ snapshot \in Contents \cup {None}
    /\ step \in 0..MaxSteps /\ faults \in 0..MaxFaults /\ version \in Nat /\ full \in BOOLEAN
    /\ pc \in Places /\ waiting \subseteq Engines
    /\ dirs \in [Versions -> {Torn, None} \cup Fulls \cup Diffs]
    /\ local \in [Hosts -> Copy]
    /\ lock \in [Hosts -> Locks \cup {None}]
    /\ job \in [Engines -> Jobs \cup {None}]
    /\ gpu = [e \in Engines |-> gpu[e]] /\ \A e \in Engines : gpu[e] \in [HostsOf[e] -> Contents]
    /\ label \in [Engines -> Nat]
    /\ alive \in [Engines -> BOOLEAN] /\ paused \in [Engines -> BOOLEAN]

(* Places of the trainer, and whether some engine has still something to do. *)
InCalls == pc \in {"pull", "pause", "flush", "reload", "continue"}
Busy    == \E e \in Engines : job[e] # None
Follows == ~full /\ pc \in {"start", "publish"}     \* the next version is a difference

(* Every version in use was begun in an update, and an update beyond the      *)
(* number of training steps takes a fault.                                   *)
UsedUpTo(n) == version <= n /\ \A v \in Versions : dirs[v] # None => v <= n
Counted ==
    /\ UsedUpTo(step + faults + 1)
    /\ pc \in {"start", "down"} \/ NewEngines # {} => UsedUpTo(step + faults)

(* No directory is newer than that of the update in progress or the last one. *)
Newest ==
    /\ pc \notin {"start", "down"} \/ Follows \/ Busy =>
          version \in Versions /\ dirs[version] # None /\ \A v \in Versions : dirs[v] # None => v <= version
    /\ pc = "publish" => dirs[version] = Torn

(* What has been published, and is being delivered. *)
Delivering == InCalls \/ Busy
Directory ==
    /\ Delivering =>
          \/ full /\ dirs[version] \in Fulls
          \/ /\ ~full /\ dirs[version] \in Diffs /\ dirs[version].base = version - 1
             /\ dirs[version].changed = {t \in Tensors : dirs[version].from[t] # dirs[version].data[t]}
    /\ pc = "rollout" \/ (~full /\ pc = "start") => dirs[version] \in Fulls \cup Diffs
    /\ InCalls \/ pc = "rollout" => weights = dirs[version].data
    /\ InCalls \/ pc = "rollout" \/ (~full /\ pc = "start") => snapshot = dirs[version].data
    /\ pc = "rollout" => ~full

(* A call belongs to the update; the trainer waits for it unless it gave up.  *)
Called ==
    \A e \in Engines :
        /\ job[e] # None =>
              /\ alive[e] /\ job[e].target = version /\ job[e].hosts \subseteq HostsOf[e]
              /\ pc = "down" \/ (e \in waiting /\ (job[e].op = pc \/ (pc = "reload" /\ job[e].op = "relabel")))
              /\ job[e].error => job[e].op = "pull" /\ NewEngines # {}
Locked ==
    \A h \in Hosts : lock[h] # None =>
        LET e == lock[h].by
        IN  job[e] # None /\ job[e].op = "pull" /\ h \in job[e].hosts /\ local[h].applied # version

(* A host that the update has not reached yet, or is reaching. *)
Behind(h) ==
    LET d == dirs[version]
        x == local[h].data
    IN  IF full
        THEN lock[h] # None => \A t \in Tensors \ lock[h].left : x[t] = d.data[t]
        ELSE /\ local[h].applied = version - 1
             /\ \A t \in Tensors : x[t] \in {d.from[t], d.data[t]}
             /\ NewEngines = {} /\ lock[h] = None => x = d.from
             /\ NewEngines = {} /\ lock[h] # None =>
                   \A t \in Tensors : x[t] = IF t \in lock[h].left THEN d.from[t] ELSE d.data[t]
Reached(h) == local[h].applied = version /\ local[h].data = dirs[version].data
Hosted ==
    /\ \A h \in Hosts : local[h].applied # None => dirs[local[h].applied] \in Fulls \cup Diffs
    /\ Delivering => \A h \in Hosts : Reached(h) \/ (local[h].applied # version /\ Behind(h))
    /\ pc = "rollout" \/ (~full /\ pc = "start") => \A h \in Hosts : Reached(h)
    /\ ~full /\ pc = "publish" =>
          \A h \in Hosts : local[h].applied = version - 1 /\ local[h].data = snapshot

(* How far the update has come. *)
Pulled ==
    /\ pc \in {"pause", "flush", "reload", "continue"} \/ (\E e \in Engines : job[e] # None /\ job[e].op # "pull") =>
          \A h \in Hosts : local[h].applied = version
    /\ \A e \in Engines :
          /\ pc = "pull" /\ e \notin waiting => \A h \in HostsOf[e] : local[h].applied = version
          /\ job[e] # None /\ job[e].op = "pull" /\ ~job[e].error =>
                \A h \in HostsOf[e] \ job[e].hosts : local[h].applied = version
Loaded(e) == gpu[e] = [h \in HostsOf[e] |-> dirs[version].data]
Loading ==
    \A e \in Engines :
        /\ job[e] # None =>
              /\ job[e].op \in {"flush", "reload", "relabel"} => paused[e]
              /\ job[e].op \in {"relabel", "continue"} => Loaded(e)
              /\ job[e].op = "continue" => label[e] = version
        /\ alive[e] =>
              /\ pc \in {"flush", "reload"} \/ (pc = "pause" /\ e \notin waiting) => paused[e]
              /\ pc \in {"continue", "rollout"} \/ (pc = "reload" /\ e \notin waiting) =>
                    Loaded(e) /\ label[e] = version
              /\ pc = "rollout" \/ (pc = "continue" /\ e \notin waiting) => ~paused[e]

(* Only what was published in full or as a difference is served. *)
Labelled ==
    /\ \A e \in Engines : label[e] > 0 => label[e] \in Versions /\ dirs[label[e]] \in Fulls \cup Diffs
    /\ LabelHonest

IInv ==
    /\ TypeOK /\ Counted /\ Newest /\ Directory /\ Called /\ Locked /\ Hosted /\ Pulled
    /\ Loading /\ Labelled

-----------------------------------------------------------------------------
(* Lemmas about the operators of the model *)

USE DEF trainer, engines

LEMMA CallsRange == Range(Calls) = {"pull", "pause", "flush", "reload", "continue"}
<1>1. DOMAIN Calls = 1..5
  BY DEF Calls
<1>2. \A i \in 1..5 : i = 1 \/ i = 2 \/ i = 3 \/ i = 4 \/ i = 5
  OBVIOUS
<1>3. Calls[1] = "pull" /\ Calls[2] = "pause" /\ Calls[3] = "flush" /\ Calls[4] = "reload" /\ Calls[5] = "continue"
  BY DEF Calls
<1> QED  BY <1>1, <1>2, <1>3 DEF Range

(* A host of an engine. *)
LEMMA HostOf == \A e \in Engines : HostsOf[e] \subseteq Hosts
BY DEF Hosts

LEMMA VersionsNat == \A v \in Versions : v \in Nat /\ v > 0
BY DEF Versions

(* The fields of a call. *)
LEMMA CallTypes ==
    ASSUME TypeOK
    PROVE  \A e \in Engines : job[e] # None =>
              /\ job[e] \in Jobs /\ job[e].op \in Ops /\ job[e].target \in Versions
              /\ job[e].hosts \in SUBSET Hosts /\ job[e].error \in BOOLEAN
BY DEF TypeOK, Jobs, Ops

(* The fields of a local checkpoint. *)
LEMMA CopyTypes ==
    ASSUME TypeOK
    PROVE  \A h \in Hosts : /\ local[h] \in Copy /\ local[h].data \in Contents
                            /\ local[h].applied = None \/ local[h].applied \in Versions
BY DEF TypeOK, Copy

(* The fields of what is published. *)
LEMMA DirectoryTypes ==
    /\ \A d \in Fulls : d.kind = "full" /\ d.data \in Contents /\ d # None /\ d # Torn
    /\ \A d \in Diffs : /\ d.kind = "delta" /\ d.base \in Int /\ d.from \in Contents
                        /\ d.data \in Contents /\ d.changed \subseteq Tensors /\ d # None /\ d # Torn
    /\ Torn # None /\ Torn.kind = "torn"
<1>1. Torn # None /\ Torn.kind = "torn"
  BY NoneAssumption DEF Torn
<1>2. ASSUME NEW d \in Fulls PROVE d.kind = "full" /\ d.data \in Contents /\ d # None
  BY NoneAssumption DEF Fulls
<1>3. ASSUME NEW d \in Diffs
      PROVE  /\ d.kind = "delta" /\ d.base \in Int /\ d.from \in Contents
             /\ d.data \in Contents /\ d.changed \subseteq Tensors /\ d # None
  BY NoneAssumption DEF Diffs
<1>4. \A d \in Fulls \cup Diffs : d.kind # Torn.kind
  BY <1>1, <1>2, <1>3
<1> QED  BY <1>1, <1>2, <1>3, <1>4

(* What a call, and the lock of a host, say of the update that goes on. *)
LEMMA PullFacts ==
    ASSUME IInv
    PROVE  /\ Delivering => version \in Versions /\ \A v \in Versions : dirs[v] # None => v <= version
           /\ Delivering => IsDelta(version) = ~full
           /\ \A h \in Hosts : Delivering /\ local[h].applied # None =>
                 local[h].applied \in Nat /\ local[h].applied > 0 /\ local[h].applied <= version
<1> USE DEF IInv
<1>1. Delivering => version \in Versions /\ \A v \in Versions : dirs[v] # None => v <= version
  BY DEF Newest, Delivering, InCalls
<1>2. Delivering => IsDelta(version) = ~full
  BY DirectoryTypes DEF Directory, IsDelta
<1>3. ASSUME NEW h \in Hosts, Delivering, local[h].applied # None
      PROVE  local[h].applied \in Nat /\ local[h].applied > 0 /\ local[h].applied <= version
  BY <1>1, <1>3, CopyTypes, VersionsNat, DirectoryTypes DEF Hosted
<1> QED  BY <1>1, <1>2, <1>3

(* What a pull does next: nothing if the host has the version; otherwise it   *)
(* copies the version, if that is full, or applies it to its predecessor.     *)
LEMMA NextPull ==
    ASSUME IInv, Delivering, NEW h \in Hosts
    PROVE  /\ local[h].applied = version => PullStep(h, version).op = "done"
           /\ local[h].applied # version =>
                 PullStep(h, version) = [op |-> IF full THEN "reset" ELSE "apply", v |-> version]
<1> USE DEF IInv
<1> DEFINE applied == local[h].applied
           floor == IF applied = None THEN 0 ELSE applied
           seed == IF version <= floor THEN floor ELSE Seed(version, floor)
<1>1. version \in Nat /\ version > 0 /\ version # None /\ 0 # None
  BY PullFacts, VersionsNat, NoneAssumption
<1>2. floor \in Nat /\ floor <= version
  BY <1>1, PullFacts
<1>3. PullStep(h, version) =
        CASE applied = None \/ seed > floor -> [op |-> "reset", v |-> seed]
          [] applied # None /\ seed = floor /\ floor < version -> [op |-> "apply", v |-> floor + 1]
          [] OTHER -> [op |-> "done", v |-> version]
  BY DEF PullStep
<1> HIDE DEF seed
<1>4. CASE applied = version
  <2>1. floor = version /\ seed = version /\ applied # None
    BY <1>1, <1>4 DEF seed
  <2>2. ~(applied = None \/ seed > floor) /\ ~(applied # None /\ seed = floor /\ floor < version)
    BY <1>1, <2>1
  <2>3. PullStep(h, version) = [op |-> "done", v |-> version]
    BY <1>3, <2>2
  <2> QED  BY <1>4, <2>3
<1>5. CASE applied # version
  <2>0. floor < version
    BY <1>1, <1>2, <1>5
  <2>1. seed = Seed(version, floor)
    BY <2>0, <1>1, <1>2 DEF seed
  <2> DEFINE Chain(v) == \A w \in (v + 1)..version : IsDelta(w)
             Fits(v) == v <= version /\ Chain(v) /\ (v = floor \/ ~IsDelta(v))
  <2>2. seed = CHOOSE v \in floor..version : Fits(v)
    BY <2>1 DEF Seed
  <2>3. CASE full
    <3>1. ~IsDelta(version)
      BY <2>3, PullFacts
    <3>2. version \in floor..version /\ Fits(version)
      BY <3>1, <1>1, <1>2
    <3>3. \A v \in floor..version : Fits(v) => v = version
      <4> SUFFICES ASSUME NEW v \in floor..version, Fits(v), v # version PROVE FALSE
        OBVIOUS
      <4>1. version \in (v + 1)..version
        BY <1>1, <1>2
      <4> QED  BY <3>1, <4>1
    <3>4. seed = version
      <4> HIDE DEF Fits
      <4> QED  BY <2>2, <3>2, <3>3
    <3>5. PullStep(h, version) = [op |-> "reset", v |-> version]
      BY <1>1, <1>2, <1>3, <3>4, <2>0
    <3> QED  BY <1>5, <2>3, <3>5
  <2>4. CASE ~full
    <3>1. IsDelta(version) /\ applied = version - 1 /\ applied # None
      <4>1. IsDelta(version)
        BY <2>4, PullFacts
      <4>2. applied = version - 1
        BY <1>5, <2>4, <1>1 DEF Hosted, Reached, Behind
      <4>3. applied # None
        BY <4>2, <1>1, NoneAssumption
      <4> QED  BY <4>1, <4>2, <4>3
    <3>2. floor = version - 1
      BY <3>1
    <3>3. floor \in floor..version /\ Fits(floor)
      <4>1. \A w \in (floor + 1)..version : w = version
        BY <1>1, <3>2
      <4> QED  BY <3>1, <3>2, <4>1, <1>1
    <3>4. \A v \in floor..version : Fits(v) => v = floor
      <4>1. \A v \in floor..version : v = floor \/ v = version
        BY <3>2, <1>1
      <4> QED  BY <3>1, <4>1
    <3>5. seed = floor
      <4> HIDE DEF Fits
      <4> QED  BY <2>2, <3>3, <3>4
    <3>6. PullStep(h, version) = [op |-> "apply", v |-> floor + 1]
      <4>1. ~(applied = None \/ seed > floor)
        BY <1>2, <3>1, <3>5
      <4>2. applied # None /\ seed = floor /\ floor < version
        BY <2>0, <3>1, <3>5
      <4> QED  BY <1>3, <4>1, <4>2
    <3>7. floor + 1 = version
      BY <3>2, <1>1
    <3> QED  BY <1>5, <2>4, <3>6, <3>7
  <2> QED  BY <2>3, <2>4
<1> QED  BY <1>4, <1>5

(* What a host has once the tensors in S are copied. *)
LEMMA WrittenFull ==
    ASSUME IInv, Delivering, NEW h \in Hosts, local[h].applied # version, full, NEW S \in SUBSET Tensors
    PROVE  LET data == Written(h, PullStep(h, version), S)
           IN  /\ data \in Contents
               /\ \A t \in Tensors : data[t] = IF t \in S THEN dirs[version].data[t] ELSE local[h].data[t]
<1> DEFINE s == PullStep(h, version)
<1>1. s.op = "reset" /\ s.v = version /\ version # 0
  BY NextPull, PullFacts, VersionsNat
<1>2. dirs[version].data \in Contents /\ local[h].data \in Contents
  BY DirectoryTypes, CopyTypes DEF IInv, Directory
<1> HIDE DEF s
<1>3. Written(h, s, S) = [t \in Tensors |-> IF t \notin S THEN local[h].data[t] ELSE dirs[version].data[t]]
  BY <1>1 DEF Written
<1> QED  BY <1>2, <1>3 DEF Contents, s

(* What a host has once the difference is applied to the tensors in S. *)
LEMMA WrittenDiff ==
    ASSUME IInv, Delivering, NEW h \in Hosts, local[h].applied # version, ~full, NEW S \in SUBSET Tensors
    PROVE  LET data == Written(h, PullStep(h, version), S)
               d == dirs[version]
           IN  /\ data \in Contents
               /\ \A t \in Tensors : /\ t \notin S => data[t] = local[h].data[t]
                                     /\ data[t] \in {d.from[t], d.data[t]}
                                     /\ local[h].data[t] = d.from[t] /\ t \in S => data[t] = d.data[t]
<1> DEFINE s == PullStep(h, version)
           d == dirs[version]
           x == local[h].data
           data == Written(h, s, S)
<1>1. s.op = "apply" /\ s.v = version
  BY NextPull
<1>2. /\ d.data \in Contents /\ d.from \in Contents /\ x \in Contents
      /\ d.changed = {t \in Tensors : d.from[t] # d.data[t]}
      /\ \A t \in Tensors : x[t] \in {d.from[t], d.data[t]}
  BY DirectoryTypes, CopyTypes DEF IInv, Directory, Hosted, Reached, Behind
<1> HIDE DEF s, x
<1>3. data = [t \in Tensors |-> IF t \notin S THEN x[t] ELSE ApplyTensor(d, t, x[t])]
  BY <1>1 DEF Written, x
<1> HIDE DEF data, d
<1>4. ASSUME NEW t \in Tensors
      PROVE  /\ t \notin S => data[t] = x[t]
             /\ data[t] \in {d.from[t], d.data[t]} /\ data[t] \in Int
             /\ x[t] = d.from[t] /\ t \in S => data[t] = d.data[t]
  <2>0. d.from[t] \in Int /\ d.data[t] \in Int /\ x[t] \in {d.from[t], d.data[t]}
    BY <1>2 DEF Contents
  <2>1. CASE t \notin S
    BY <1>3, <2>0, <2>1
  <2>2. CASE t \in S /\ t \notin d.changed
    <3>1. data[t] = x[t] /\ d.from[t] = d.data[t]
      BY <1>2, <1>3, <2>2 DEF ApplyTensor
    <3> QED  BY <2>0, <2>2, <3>1
  <2>3. CASE t \in S /\ t \in d.changed
    <3>1. d.from[t] # d.data[t] /\ data[t] = ApplyTensor(d, t, x[t])
      BY <1>2, <1>3, <2>3
    <3>2. CASE x[t] = d.from[t]
      BY <2>0, <2>3, <3>1, <3>2 DEF ApplyTensor
    <3>3. CASE x[t] # d.from[t]
      <4>1. x[t] = d.data[t]
        BY <2>0, <3>3
      <4>2. data[t] = IF Xor THEN d.from[t] ELSE x[t]
        BY <2>3, <3>1, <3>3, <4>1 DEF ApplyTensor
      <4>3. data[t] = d.from[t] \/ data[t] = d.data[t]
        BY <4>1, <4>2
      <4>4. data[t] \in Int
        BY <2>0, <4>3
      <4> QED  BY <2>3, <3>3, <4>3, <4>4
    <3> QED  BY <3>2, <3>3
  <2> QED  BY <2>1, <2>2, <2>3
<1>5. data \in Contents
  <2>1. \A t \in Tensors : data[t] \in Int
    BY <1>4
  <2> QED  BY <1>3, <2>1 DEF Contents
<1> QED  BY <1>4, <1>5 DEF data, s, d, x

(* A call is executed while an update is delivered. *)
LEMMA CallFacts ==
    ASSUME IInv, NEW e \in Engines, job[e] # None
    PROVE  /\ Delivering /\ Busy /\ e \in Engines /\ job[e].target = version /\ alive[e]
           /\ job[e].hosts \subseteq HostsOf[e] /\ HostsOf[e] \subseteq Hosts
           /\ pc \notin {"start", "publish", "rollout"}
           /\ version \in Versions /\ dirs[version] \in Fulls \cup Diffs /\ dirs[version].data \in Contents
           /\ pc = "down" \/ (InCalls /\ e \in waiting /\ (job[e].op = pc \/ (pc = "reload" /\ job[e].op = "relabel")))
<1>1. Delivering /\ Busy
  BY DEF Delivering, Busy
<1>2. /\ job[e].op \in Ops /\ job[e].target = version /\ alive[e] /\ job[e].hosts \subseteq HostsOf[e]
      /\ pc = "down" \/ (e \in waiting /\ (job[e].op = pc \/ (pc = "reload" /\ job[e].op = "relabel")))
  BY CallTypes DEF IInv, Called
<1>3. pc = "down" \/ InCalls
  BY <1>2 DEF Ops, InCalls, IInv, TypeOK, Places
<1>4. pc \notin {"start", "publish", "rollout"}
  BY <1>3 DEF InCalls
<1>5. dirs[version] \in Fulls \cup Diffs
  BY <1>1 DEF IInv, Directory
<1>6. dirs[version].data \in Contents
  BY <1>5, DirectoryTypes
<1>7. version \in Versions
  BY <1>1, PullFacts DEF IInv
<1> QED  BY <1>1, <1>2, <1>3, <1>4, <1>5, <1>6, <1>7, HostOf DEF InCalls

LEMMA JobsNotNone == \A c \in Jobs : c # None
BY NoneAssumption

(* A set of naturals with a bound has a maximum. *)
LEMMA MaxOf ==
    ASSUME NEW S \in SUBSET Nat, S # {}, NEW b \in Nat, \A x \in S : x <= b
    PROVE  Max(S) \in S /\ \A x \in S : x <= Max(S)
<1> DEFINE T == {b - x : x \in S}
<1>1. T \subseteq Nat /\ T # {}
  <2>1. \A x \in S : b - x \in Nat
    OBVIOUS
  <2> QED  BY <2>1
<1>2. \E z \in T : \A y \in T : ~ (<<y, z>> \in OpToRel(<, Nat))
  BY <1>1, NatLessThanWellFounded, WFMin, Zenon
<1>3. \A y, z \in Nat : y < z => <<y, z>> \in OpToRel(<, Nat)
  BY DEF OpToRel
<1>4. PICK z \in T : \A y \in T : ~ (<<y, z>> \in OpToRel(<, Nat))
  BY <1>2
<1>5. \A y \in T : z \in Nat /\ y \in Nat /\ ~ (y < z)
  BY <1>1, <1>3, <1>4
<1>6. PICK m \in S : z = b - m
  OBVIOUS
<1>7. \A x \in S : b - m <= b - x
  BY <1>5, <1>6
<1>8. \A x \in S : m >= x
  <2>1. \A x \in S : x \in Nat /\ m \in Nat
    OBVIOUS
  <2> QED  BY <1>7, <2>1
<1>9. \E y \in S : \A x \in S : y >= x
  BY <1>8
<1>10. Max(S) \in S /\ \A x \in S : Max(S) >= x
  BY <1>9 DEF Max
<1> QED  BY <1>10

(* A bound of the versions in use that grows. *)
LEMMA UsedGrows ==
    ASSUME IInv, NEW n \in Nat, NEW m \in Nat, n <= m, UsedUpTo(n)
    PROVE  UsedUpTo(m)
BY VersionsNat DEF UsedUpTo, IInv, TypeOK

LEMMA Counters ==
    ASSUME IInv
    PROVE  step \in Nat /\ faults \in Nat /\ MaxSteps \in Nat /\ MaxFaults \in Nat
BY DiskAssumption DEF IInv, TypeOK

-----------------------------------------------------------------------------
(* One lemma for each action *)

(* A pull begins to write a host that is behind. *)
LEMMA PullBeginStep ==
    ASSUME Delta, IInv, NEW e \in Engines, NEW h \in HostsOf[e], PullBegin(e, h)
    PROVE  IInv'
<1> USE DEF IInv
<1>a. /\ job[e] # None /\ job[e].op = "pull" /\ h \in job[e].hosts /\ h \in Hosts /\ lock[h] = None
      /\ job[e].target = version /\ Delivering /\ version \in Versions
  BY HostOf, CallFacts DEF PullBegin
<1>b. local[h].applied # version
  BY <1>a, NextPull DEF PullBegin
<1>c. PICK S \in SUBSET Tensors :
        /\ local' = [local EXCEPT ![h].data = Written(h, PullStep(h, version), S)]
        /\ lock' = [lock EXCEPT ![h] = [by |-> e, left |-> Tensors \ S]]
  BY <1>a DEF PullBegin
<1> DEFINE data == Written(h, PullStep(h, version), S)
           left == Tensors \ S
<1>d. data \in Contents /\ [by |-> e, left |-> left] \in Locks /\ [by |-> e, left |-> left] # None
  BY <1>a, <1>b, WrittenFull, WrittenDiff, NoneAssumption DEF Locks
<1>e. full => \A t \in Tensors : data[t] = IF t \in S THEN dirs[version].data[t] ELSE local[h].data[t]
  BY <1>a, <1>b, WrittenFull
<1>f. ~full => \A t \in Tensors :
        /\ t \notin S => data[t] = local[h].data[t]
        /\ data[t] \in {dirs[version].from[t], dirs[version].data[t]}
        /\ local[h].data[t] = dirs[version].from[t] /\ t \in S => data[t] = dirs[version].data[t]
  BY <1>a, <1>b, WrittenDiff
<1> HIDE DEF data, left
<1>g. /\ local' \in [Hosts -> Copy]
      /\ local'[h].applied = local[h].applied /\ local'[h].data = data
      /\ \A x \in Hosts : x # h => local'[x] = local[x]
  <2>1. ASSUME NEW c \in Copy
        PROVE  [c EXCEPT !.data = data] \in Copy /\ [c EXCEPT !.data = data].applied = c.applied
               /\ [c EXCEPT !.data = data].data = data
    BY <1>d DEF Copy
  <2>2. local' = [local EXCEPT ![h] = [local[h] EXCEPT !.data = data]]
    BY <1>c DEF data
  <2> QED  BY <1>a, <2>1, <2>2, CopyTypes DEF TypeOK
<1>h. /\ lock' \in [Hosts -> Locks \cup {None}]
      /\ lock'[h] # None /\ lock'[h].by = e /\ lock'[h].left = left
      /\ \A x \in Hosts : x # h => lock'[x] = lock[x]
  <2>1. lock' = [lock EXCEPT ![h] = [by |-> e, left |-> left]]
    BY <1>c DEF left
  <2>2. [by |-> e, left |-> left].by = e /\ [by |-> e, left |-> left].left = left
    OBVIOUS
  <2> QED  BY <1>a, <1>d, <2>1, <2>2 DEF TypeOK
<1>i. \A x \in Hosts : local'[x].applied = local[x].applied
  BY <1>g
<1> USE DEF left
<1>1. TypeOK'
  BY <1>g, <1>h DEF TypeOK, PullBegin
<1>2. Counted'
  BY DEF Counted, UsedUpTo, NewEngines, PullBegin
<1>3. Newest'
  BY DEF Newest, Follows, Busy, PullBegin
<1>4. Directory'
  BY DEF Directory, Delivering, InCalls, Busy, PullBegin
<1>5. Called'
  BY DEF Called, NewEngines, PullBegin
<1>6. Locked'
  BY <1>a, <1>b, <1>g, <1>h DEF Locked, PullBegin
<1>7. Hosted'
  <2>1. ASSUME NEW x \in Hosts, Delivering, ~Reached(x) PROVE local'[x].applied # version /\ Behind(x)'
    <3>1. CASE x # h
      BY <1>g, <1>h, <2>1, <3>1 DEF Hosted, Behind, Reached, NewEngines, PullBegin
    <3>2. CASE x = h /\ full
      BY <1>a, <1>b, <1>d, <1>e, <1>g, <1>h, <3>2 DEF Behind, NewEngines, PullBegin
    <3>3. CASE x = h /\ ~full
      <4>1. /\ local[h].applied = version - 1
            /\ NewEngines = {} => local[h].data = dirs[version].from
        BY <1>a, <1>b, <3>3 DEF Hosted, Reached, Behind
      <4> QED  BY <1>b, <1>f, <1>g, <1>h, <3>3, <4>1 DEF Behind, NewEngines, PullBegin
    <3> QED  BY <3>1, <3>2, <3>3
  <2>2. ASSUME NEW x \in Hosts, Delivering, Reached(x) PROVE Reached(x)'
    BY <1>b, <1>g, <2>2 DEF Reached, PullBegin
  <2>3. ~(pc = "rollout" \/ (~full /\ pc = "start")) /\ ~(~full /\ pc = "publish")
    BY <1>a, CallFacts
  <2>4. \A x \in Hosts : local'[x].applied # None => dirs[local'[x].applied] \in Fulls \cup Diffs
    BY <1>i DEF Hosted
  <2>5. Delivering
    BY <1>a
  <2>6. \A x \in Hosts : Reached(x)' \/ (local'[x].applied # version /\ Behind(x)')
    BY <2>1, <2>2, <2>5
  <2> QED  BY <2>3, <2>4, <2>6 DEF Hosted, PullBegin
<1>8. Pulled'
  BY <1>i, HostOf DEF Pulled, PullBegin
<1>9. Loading'
  BY DEF Loading, Loaded, PullBegin
<1>10. Labelled'
  BY DEF Labelled, LabelHonest, PullBegin
<1> QED  BY <1>1, <1>2, <1>3, <1>4, <1>5, <1>6, <1>7, <1>8, <1>9, <1>10

(* The rest is written: the host has the version, or an engine died and the   *)
(* pull fails.                                                                *)
LEMMA PullEndStep ==
    ASSUME Delta, IInv, NEW e \in Engines, NEW h \in HostsOf[e], PullEnd(e, h)
    PROVE  IInv'
<1> USE DEF IInv
<1>a. lock[h] # None /\ lock[h].by = e /\ h \in Hosts
  BY HostOf DEF PullEnd
<1>b. /\ job[e] # None /\ job[e].op = "pull" /\ h \in job[e].hosts /\ local[h].applied # version
      /\ job[e].target = version /\ Delivering /\ version \in Versions /\ job[e] \in Jobs
  BY <1>a, CallFacts, CallTypes DEF Locked
<1>d. lock[h].left \in SUBSET Tensors
  BY <1>a DEF TypeOK, Locks
<1>e. Written(h, PullStep(h, version), lock[h].left) \in Contents
  <2>1. CASE full
    BY <1>a, <1>b, <1>d, <2>1, WrittenFull
  <2>2. CASE ~full
    BY <1>a, <1>b, <1>d, <2>2, WrittenDiff
  <2> QED  BY <2>1, <2>2
<1>f. PullStep(h, version).v = version /\ PullStep(h, version).op = IF full THEN "reset" ELSE "apply"
  <2>1. PullStep(h, version) = [op |-> IF full THEN "reset" ELSE "apply", v |-> version]
    BY <1>a, <1>b, NextPull
  <2> QED  BY <2>1
<1> DEFINE s == PullStep(h, version)
           left == lock[h].left
           data == Written(h, s, left)
           sound == s.op = "apply" =>
                        /\ dirs[s.v].base = local[h].applied
                        /\ \A t \in dirs[s.v].changed : data[t] = dirs[s.v].data[t]
<1>c. /\ local' = [local EXCEPT ![h] = [applied |-> IF sound THEN s.v ELSE @.applied, data |-> data]]
      /\ job' = IF sound THEN job ELSE [job EXCEPT ![e].error = TRUE, ![e].hosts = @ \ {h}]
      /\ lock' = [lock EXCEPT ![h] = None]
  BY <1>b DEF PullEnd
<1>g. full => sound /\ data = dirs[version].data
  <2> SUFFICES ASSUME full PROVE sound /\ data = dirs[version].data
    OBVIOUS
  <2>1. \A t \in Tensors : data[t] = IF t \in left THEN dirs[version].data[t] ELSE local[h].data[t]
    BY <1>a, <1>b, <1>d, WrittenFull
  <2>2. \A t \in Tensors \ left : local[h].data[t] = dirs[version].data[t]
    BY <1>a, <1>b DEF Hosted, Reached, Behind
  <2>3. dirs[version].data \in Contents
    BY <1>b, CallFacts
  <2> HIDE DEF data, s, left
  <2>4. \A t \in Tensors : data[t] = dirs[version].data[t]
    BY <2>1, <2>2
  <2>5. data = dirs[version].data
    <3>1. data \in Contents
      BY <1>e DEF data, s, left
    <3> QED  BY <2>3, <2>4, <3>1 DEF Contents
  <2> QED  BY <1>f, <2>5 DEF s
<1>h. ~full =>
        /\ \A t \in Tensors : data[t] \in {dirs[version].from[t], dirs[version].data[t]}
        /\ sound => data = dirs[version].data
        /\ NewEngines = {} => sound
  <2> SUFFICES ASSUME ~full
               PROVE  /\ \A t \in Tensors : data[t] \in {dirs[version].from[t], dirs[version].data[t]}
                      /\ sound => data = dirs[version].data
                      /\ NewEngines = {} => sound
    OBVIOUS
  <2>1. \A t \in Tensors :
          /\ t \notin left => data[t] = local[h].data[t]
          /\ data[t] \in {dirs[version].from[t], dirs[version].data[t]}
          /\ local[h].data[t] = dirs[version].from[t] /\ t \in left => data[t] = dirs[version].data[t]
    BY <1>a, <1>b, <1>d, WrittenDiff
  <2>2. /\ local[h].applied = version - 1 /\ dirs[version].base = version - 1
        /\ dirs[version].changed = {t \in Tensors : dirs[version].from[t] # dirs[version].data[t]}
        /\ dirs[version].data \in Contents
    BY <1>b, CallFacts DEF Hosted, Reached, Behind, Directory
  <2>3. NewEngines = {} =>
          \A t \in Tensors : local[h].data[t] = IF t \in left THEN dirs[version].from[t] ELSE dirs[version].data[t]
    BY <1>a, <1>b DEF Hosted, Reached, Behind
  <2>4. s.op = "apply" /\ s.v = version
    BY <1>f
  <2> HIDE DEF data, s
  <2>5. sound = \A t \in dirs[version].changed : data[t] = dirs[version].data[t]
    BY <2>2, <2>4
  <2>6. ASSUME sound PROVE data = dirs[version].data
    <3>1. \A t \in Tensors : data[t] = dirs[version].data[t]
      BY <2>1, <2>2, <2>5, <2>6
    <3>2. data \in Contents
      BY <1>e DEF data, s, left
    <3> QED  BY <2>2, <3>1, <3>2 DEF Contents
  <2>7. ASSUME NewEngines = {} PROVE sound
    <3>1. \A t \in Tensors : data[t] = dirs[version].data[t]
      BY <2>1, <2>3, <2>7
    <3> QED  BY <2>2, <2>5, <3>1
  <2> QED  BY <2>1, <2>6, <2>7
<1>q. data \in Contents /\ s.v = version
  BY <1>e, <1>f
<1> HIDE DEF sound, data, s, left
<1>i. /\ local' \in [Hosts -> Copy] /\ local'[h].data = data
      /\ local'[h].applied = (IF sound THEN version ELSE local[h].applied)
      /\ \A x \in Hosts : x # h => local'[x] = local[x]
  <2> DEFINE c == [applied |-> IF sound THEN version ELSE local[h].applied, data |-> data]
  <2>1. c \in Copy
    BY <1>a, <1>b, <1>q, CopyTypes DEF Copy
  <2>2. local' = [local EXCEPT ![h] = c]
    BY <1>a, <1>c, <1>q DEF TypeOK
  <2> HIDE DEF c
  <2>3. c.data = data /\ c.applied = IF sound THEN version ELSE local[h].applied
    BY DEF c
  <2> QED  BY <1>a, <2>1, <2>2, <2>3 DEF TypeOK
<1>j. /\ job' \in [Engines -> Jobs \cup {None}]
      /\ \A x \in Engines : x # e => job'[x] = job[x]
      /\ job'[e] # None /\ job'[e].op = "pull" /\ job'[e].target = version
      /\ sound => job' = job
      /\ ~sound => job'[e].hosts = job[e].hosts \ {h} /\ job'[e].error
  <2>1. CASE sound
    BY <1>b, <1>c, <2>1 DEF TypeOK
  <2>2. CASE ~sound
    <3> DEFINE c == [[job[e] EXCEPT !.error = TRUE] EXCEPT !.hosts = job[e].hosts \ {h}]
    <3>1. /\ c \in Jobs /\ c.op = "pull" /\ c.target = version /\ c.hosts = job[e].hosts \ {h} /\ c.error
      BY <1>b DEF Jobs
    <3>2. job' = [job EXCEPT ![e] = c]
      BY <1>c, <2>2 DEF TypeOK
    <3>3. c # None
      BY <3>1, NoneAssumption, JobsNotNone
    <3> HIDE DEF c
    <3> QED  BY <2>2, <3>1, <3>2, <3>3 DEF TypeOK
  <2> QED  BY <2>1, <2>2
<1>k. lock' \in [Hosts -> Locks \cup {None}] /\ lock'[h] = None /\ \A x \in Hosts : x # h => lock'[x] = lock[x]
  BY <1>a, <1>c DEF TypeOK
<1>l. Busy /\ Busy' /\ Delivering'
  BY <1>b, <1>j DEF Busy, Delivering
<1>m. ~sound => ~full /\ NewEngines # {}
  BY <1>g, <1>h
<1>n. \A x \in Hosts : local[x].applied = version => local'[x] = local[x]
  BY <1>b, <1>i
<1>o. pc \notin {"start", "publish", "rollout"}
  BY <1>b, CallFacts
<1>p. \A x \in Engines : (job'[x] = None <=> job[x] = None) /\ (job[x] # None => job'[x].op = job[x].op)
  BY <1>b, <1>j
<1>1. TypeOK'
  BY <1>i, <1>j, <1>k DEF TypeOK, PullEnd
<1>2. Counted'
  BY DEF Counted, UsedUpTo, NewEngines, PullEnd
<1>3. Newest'
  BY <1>l DEF Newest, Follows, Busy, PullEnd
<1>4. Directory'
  BY <1>l, <1>b DEF Directory, Delivering, InCalls, Busy, PullEnd
<1>5. Called'
  <2>1. NewEngines' = NewEngines
    BY DEF NewEngines, PullEnd
  <2>2. ASSUME NEW x \in Engines, x # e, job'[x] # None
        PROVE  /\ alive[x] /\ job'[x].target = version /\ job'[x].hosts \subseteq HostsOf[x]
               /\ pc = "down" \/ (x \in waiting /\ (job'[x].op = pc \/ (pc = "reload" /\ job'[x].op = "relabel")))
               /\ job'[x].error => job'[x].op = "pull" /\ NewEngines # {}
    BY <1>j, <2>2 DEF Called
  <2>3. /\ alive[e] /\ job'[e].target = version /\ job'[e].hosts \subseteq HostsOf[e]
        /\ pc = "down" \/ (e \in waiting /\ (job'[e].op = pc \/ (pc = "reload" /\ job'[e].op = "relabel")))
        /\ job'[e].error => job'[e].op = "pull" /\ NewEngines # {}
    BY <1>b, <1>j, <1>m DEF Called
  <2> QED  BY <2>1, <2>2, <2>3 DEF Called, PullEnd
<1>6. Locked'
  <2> SUFFICES ASSUME NEW x \in Hosts, lock'[x] # None
               PROVE  LET y == lock'[x].by
                      IN  job'[y] # None /\ job'[y].op = "pull" /\ x \in job'[y].hosts /\ local'[x].applied # version
    BY DEF Locked, PullEnd
  <2>1. x # h /\ lock'[x] = lock[x] /\ local'[x] = local[x]
    BY <1>i, <1>k
  <2>2. lock[x].by \in Engines
    BY <2>1 DEF TypeOK, Locks
  <2>3. LET y == lock[x].by IN job[y] # None /\ job[y].op = "pull" /\ x \in job[y].hosts /\ local[x].applied # version
    BY <2>1 DEF Locked
  <2> QED  BY <1>j, <2>1, <2>2, <2>3
<1>7. Hosted'
  <2>1. ASSUME NEW x \in Hosts PROVE Reached(x)' \/ (local'[x].applied # version /\ Behind(x)')
    <3>1. CASE x # h
      BY <1>b, <1>i, <1>k, <3>1 DEF Hosted, Behind, Reached, NewEngines, PullEnd
    <3>2. CASE x = h /\ sound
      BY <1>g, <1>h, <1>i, <3>2 DEF Reached, PullEnd
    <3>3. CASE x = h /\ ~sound
      <4>1. local[h].applied = version - 1
        BY <1>b, <1>m, <3>3 DEF Hosted, Reached, Behind
      <4> QED  BY <1>b, <1>h, <1>i, <1>m, <3>3, <4>1 DEF Behind, NewEngines, PullEnd
    <3> QED  BY <3>1, <3>2, <3>3
  <2>2. dirs[version] \in Fulls \cup Diffs
    BY <1>b, CallFacts
  <2>3. \A x \in Hosts : local'[x].applied # None => dirs[local'[x].applied] \in Fulls \cup Diffs
    BY <1>i, <2>2 DEF Hosted
  <2> QED  BY <1>o, <2>1, <2>3 DEF Hosted, PullEnd
<1>8. Pulled'
  <2>0. \A x \in Hosts : local[x].applied = version => local'[x].applied = version
    BY <1>n
  <2>1. ASSUME NEW x \in Engines, job'[x] # None, job'[x].op = "pull", ~job'[x].error, NEW y \in HostsOf[x] \ job'[x].hosts
        PROVE  local'[y].applied = version
    <3>1. y \in Hosts
      BY HostOf
    <3>2. job[x] # None /\ job[x].op = "pull" /\ ~job[x].error /\ y \notin job[x].hosts
      BY <1>j, <2>1
    <3> QED  BY <2>0, <2>1, <3>1, <3>2 DEF Pulled
  <2>2. ASSUME NEW x \in Engines, pc = "pull", x \notin waiting, NEW y \in HostsOf[x] PROVE local'[y].applied = version
    BY <2>0, <2>2, HostOf DEF Pulled
  <2>3. ASSUME pc \in {"pause", "flush", "reload", "continue"} \/ (\E x \in Engines : job'[x] # None /\ job'[x].op # "pull"),
               NEW y \in Hosts
        PROVE  local'[y].applied = version
    BY <1>p, <2>0, <2>3 DEF Pulled
  <2> QED  BY <2>1, <2>2, <2>3 DEF Pulled, PullEnd
<1>9. Loading'
  BY <1>b, <1>j DEF Loading, Loaded, PullEnd
<1>10. Labelled'
  BY DEF Labelled, LabelHonest, PullEnd
<1> QED  BY <1>1, <1>2, <1>3, <1>4, <1>5, <1>6, <1>7, <1>8, <1>9, <1>10

(* A host has the version. *)
LEMMA PullDoneStep ==
    ASSUME Delta, IInv, NEW e \in Engines, NEW h \in HostsOf[e], PullDone(e, h)
    PROVE  IInv'
<1> USE DEF IInv
<1>a. /\ job[e] # None /\ job[e].op = "pull" /\ h \in job[e].hosts /\ h \in Hosts /\ lock[h] = None
      /\ job[e].target = version /\ Delivering /\ job[e] \in Jobs
  BY HostOf, CallFacts, CallTypes DEF PullDone
<1>b. local[h].applied = version
  <2>1. PullStep(h, version).op = "done"
    BY <1>a DEF PullDone
  <2> QED  BY <1>a, <2>1, NextPull
<1>c. /\ job' \in [Engines -> Jobs \cup {None}] /\ \A x \in Engines : x # e => job'[x] = job[x]
      /\ job'[e] # None /\ job'[e].op = "pull" /\ job'[e].target = version /\ job'[e].error = job[e].error
      /\ job'[e].hosts = job[e].hosts \ {h}
  <2> DEFINE c == [job[e] EXCEPT !.hosts = job[e].hosts \ {h}]
  <2>1. /\ c \in Jobs /\ c.op = "pull" /\ c.target = version /\ c.hosts = job[e].hosts \ {h} /\ c.error = job[e].error
    BY <1>a DEF Jobs
  <2>2. job' = [job EXCEPT ![e] = c]
    BY DEF PullDone
  <2>3. c # None
    BY <2>1, NoneAssumption, JobsNotNone
  <2> HIDE DEF c
  <2> QED  BY <2>1, <2>2, <2>3 DEF TypeOK
<1>d. Busy' = Busy /\ Delivering' = Delivering
  BY <1>a, <1>c DEF Busy, Delivering, InCalls, PullDone
<1>1. TypeOK'
  BY <1>c DEF TypeOK, PullDone
<1>2. Counted'
  BY DEF Counted, UsedUpTo, NewEngines, PullDone
<1>3. Newest'
  BY <1>d DEF Newest, Follows, Busy, PullDone
<1>4. Directory'
  BY <1>d DEF Directory, InCalls, PullDone
<1>5. Called'
  BY <1>a, <1>c DEF Called, NewEngines, PullDone
<1>6. Locked'
  <2> SUFFICES ASSUME NEW x \in Hosts, lock[x] # None
               PROVE  LET y == lock[x].by
                      IN  job'[y] # None /\ job'[y].op = "pull" /\ x \in job'[y].hosts /\ local[x].applied # version
    BY DEF Locked, PullDone
  <2>1. lock[x].by \in Engines
    BY DEF TypeOK, Locks
  <2> QED  BY <1>b, <1>c, <2>1 DEF Locked
<1>7. Hosted'
  BY <1>d DEF Hosted, Reached, Behind, NewEngines, PullDone
<1>8. Pulled'
  BY <1>a, <1>b, <1>c DEF Pulled, PullDone
<1>9. Loading'
  BY <1>a, <1>c DEF Loading, Loaded, PullDone
<1>10. Labelled'
  BY DEF Labelled, LabelHonest, PullDone
<1> QED  BY <1>1, <1>2, <1>3, <1>4, <1>5, <1>6, <1>7, <1>8, <1>9, <1>10

(* An engine loads what its hosts hold. *)
LEMMA ReloadStep ==
    ASSUME Delta, IInv, NEW e \in Engines, Reload(e)
    PROVE  IInv'
<1> USE DEF IInv
<1>a. /\ job[e] # None /\ job[e].op = "reload" /\ job[e] \in Jobs /\ job[e].target = version
      /\ gpu' = [gpu EXCEPT ![e] = Reloaded(e)] /\ job' = [job EXCEPT ![e].op = "relabel"]
  BY CallTypes, CallFacts DEF Reload
<1>b. \A h \in HostsOf[e] : local[h].data = dirs[version].data /\ local[h].data \in Contents
  BY <1>a, CallFacts, CopyTypes DEF Pulled, Hosted, Reached
<1>c. /\ Reloaded(e) \in [HostsOf[e] -> Contents]
      /\ Reloaded(e) = [h \in HostsOf[e] |-> dirs[version].data]
  BY <1>b DEF Reloaded
<1>d. /\ gpu' = [x \in Engines |-> gpu'[x]] /\ gpu'[e] = Reloaded(e)
      /\ \A x \in Engines : x # e => gpu'[x] = gpu[x]
  BY <1>a DEF TypeOK
<1>e. /\ job' \in [Engines -> Jobs \cup {None}] /\ \A x \in Engines : x # e => job'[x] = job[x]
      /\ job'[e] # None /\ job'[e].op = "relabel" /\ job'[e].target = version
      /\ job'[e].hosts = job[e].hosts /\ job'[e].error = job[e].error
  <2> DEFINE c == [job[e] EXCEPT !.op = "relabel"]
  <2>1. /\ c \in Jobs /\ c.op = "relabel" /\ c.target = version /\ c.hosts = job[e].hosts /\ c.error = job[e].error
    BY <1>a DEF Jobs
  <2>2. job' = [job EXCEPT ![e] = c]
    BY <1>a
  <2>3. c # None
    BY <2>1, JobsNotNone
  <2> HIDE DEF c
  <2> QED  BY <2>1, <2>2, <2>3 DEF TypeOK
<1>f. Busy' = Busy /\ Delivering' = Delivering
  BY <1>a, <1>e DEF Busy, Delivering, InCalls, Reload
<1>g. paused[e]
  BY <1>a DEF Loading
<1>1. TypeOK'
  BY <1>c, <1>d, <1>e DEF TypeOK, Reload
<1>2. Counted'
  BY DEF Counted, UsedUpTo, NewEngines, Reload
<1>3. Newest'
  BY <1>f DEF Newest, Follows, Busy, Reload
<1>4. Directory'
  BY <1>f DEF Directory, InCalls, Reload
<1>5. Called'
  BY <1>a, <1>e DEF Called, NewEngines, Reload
<1>6. Locked'
  <2> SUFFICES ASSUME NEW x \in Hosts, lock[x] # None
               PROVE  LET y == lock[x].by
                      IN  job'[y] # None /\ job'[y].op = "pull" /\ x \in job'[y].hosts /\ local[x].applied # version
    BY DEF Locked, Reload
  <2>1. lock[x].by \in Engines
    BY DEF TypeOK, Locks
  <2> QED  BY <1>a, <1>e, <2>1 DEF Locked
<1>7. Hosted'
  BY <1>f DEF Hosted, Reached, Behind, NewEngines, Reload
<1>8. Pulled'
  BY <1>a, <1>e DEF Pulled, Reload
<1>9. Loading'
  <2>1. ASSUME NEW x \in Engines, x # e PROVE gpu'[x] = gpu[x] /\ job'[x] = job[x]
    BY <1>d, <1>e, <2>1
  <2>2. Loaded(e)'
    BY <1>c, <1>d DEF Loaded, Reload
  <2>3. pc = "down" \/ (pc = "reload" /\ e \in waiting)
    BY <1>a, CallFacts
  <2> QED  BY <1>a, <1>e, <1>g, <2>1, <2>2, <2>3 DEF Loading, Loaded, Reload
<1>10. Labelled'
  BY <1>d, <1>g DEF Labelled, LabelHonest, Reload
<1> QED  BY <1>1, <1>2, <1>3, <1>4, <1>5, <1>6, <1>7, <1>8, <1>9, <1>10

(* An engine has done what it was asked to. *)
LEMMA AnswerStep ==
    ASSUME Delta, IInv, NEW e \in Engines, Answer(e)
    PROVE  IInv'
<1> USE DEF IInv
<1>a. /\ job[e] # None /\ job[e] \in Jobs /\ job[e].target = version /\ job[e].op # "reload"
      /\ job[e].op = "pull" => job[e].hosts = {}
      /\ label' = IF job[e].op = "relabel" THEN [label EXCEPT ![e] = job[e].target] ELSE label
      /\ paused' = CASE job[e].op = "pause" -> [paused EXCEPT ![e] = TRUE]
                     [] job[e].op = "continue" -> [paused EXCEPT ![e] = FALSE]
                     [] OTHER -> paused
      /\ job' = [job EXCEPT ![e] = None]
      /\ waiting' = waiting \ {e}
      /\ pc' = IF job[e].error THEN "down" ELSE pc
  BY CallTypes, CallFacts DEF Answer
<1>b. /\ label' \in [Engines -> Nat] /\ \A x \in Engines : x # e => label'[x] = label[x]
      /\ label'[e] = IF job[e].op = "relabel" THEN version ELSE label[e]
  BY <1>a, CallFacts, VersionsNat DEF TypeOK
<1>c. /\ paused' \in [Engines -> BOOLEAN] /\ \A x \in Engines : x # e => paused'[x] = paused[x]
      /\ job[e].op = "pause" => paused'[e]
      /\ job[e].op = "continue" => ~paused'[e]
      /\ job[e].op \notin {"pause", "continue"} => paused'[e] = paused[e]
  <2>1. CASE job[e].op = "pause"
    BY <1>a, <2>1 DEF TypeOK
  <2>2. CASE job[e].op = "continue"
    BY <1>a, <2>2 DEF TypeOK
  <2>3. CASE job[e].op \notin {"pause", "continue"}
    BY <1>a, <2>3 DEF TypeOK
  <2> QED  BY <2>1, <2>2, <2>3
<1>d. job' \in [Engines -> Jobs \cup {None}] /\ job'[e] = None /\ \A x \in Engines : x # e => job'[x] = job[x]
  BY <1>a DEF TypeOK
<1>e. /\ job[e].error => NewEngines # {} /\ job[e].op = "pull"
      /\ pc' = pc \/ (pc' = "down" /\ NewEngines # {})
  BY <1>a DEF Called
<1>f. (Busy' => Busy) /\ (Delivering' => Delivering) /\ (InCalls' => InCalls)
  BY <1>d, <1>e, CallFacts DEF Busy, Delivering, InCalls
<1>g. pc \notin {"start", "publish", "rollout"} /\ pc' \notin {"start", "publish", "rollout"}
  BY <1>a, <1>e, CallFacts
<1>h. /\ job[e].op \in {"relabel", "continue"} => Loaded(e)
      /\ job[e].op = "continue" => label[e] = version
      /\ job[e].op \in {"flush", "relabel"} => paused[e]
  BY <1>a DEF Loading
<1>i. /\ pc = "down" \/ (job[e].op = pc \/ (pc = "reload" /\ job[e].op = "relabel"))
      /\ job[e].op \in Ops
  BY <1>a, CallFacts, CallTypes
<1>1. TypeOK'
  BY <1>a, <1>b, <1>c, <1>d DEF TypeOK, Places, Answer
<1>2. Counted'
  BY <1>e, <1>g DEF Counted, UsedUpTo, NewEngines, Answer
<1>3. Newest'
  <2>1. ~Follows' /\ pc' # "publish"
    BY <1>g DEF Follows
  <2>2. pc \notin {"start", "down"} \/ Busy
    BY <1>a, CallFacts
  <2> QED  BY <2>1, <2>2 DEF Newest, Answer
<1>4. Directory'
  BY <1>f, <1>g DEF Directory, Answer
<1>5. Called'
  <2>1. ASSUME NEW x \in Engines, job'[x] # None PROVE job'[x] = job[x] /\ x # e
    BY <1>d, <2>1
  <2> QED  BY <1>a, <2>1 DEF Called, NewEngines, Answer
<1>6. Locked'
  <2> SUFFICES ASSUME NEW x \in Hosts, lock[x] # None
               PROVE  LET y == lock[x].by
                      IN  job'[y] # None /\ job'[y].op = "pull" /\ x \in job'[y].hosts /\ local[x].applied # version
    BY DEF Locked, Answer
  <2>1. lock[x].by \in Engines
    BY DEF TypeOK, Locks
  <2> QED  BY <1>a, <1>d, <2>1 DEF Locked
<1>7. Hosted'
  BY <1>f, <1>g DEF Hosted, Reached, Behind, NewEngines, Answer
<1>8. Pulled'
  <2>1. ASSUME NEW x \in Engines, job'[x] # None PROVE job'[x] = job[x] /\ x # e
    BY <1>d, <2>1
  <2>2. ASSUME pc' \in {"pause", "flush", "reload", "continue"} \/ (\E x \in Engines : job'[x] # None /\ job'[x].op # "pull")
        PROVE  \A h \in Hosts : local[h].applied = version
    BY <1>e, <2>1, <2>2 DEF Pulled
  <2>3. ASSUME NEW x \in Engines, pc' = "pull", x \notin waiting', NEW h \in HostsOf[x] PROVE local[h].applied = version
    <3>1. CASE x # e
      BY <1>a, <1>e, <2>3, <3>1 DEF Pulled
    <3>2. CASE x = e
      <4>1. pc = "pull" /\ job[e].op = "pull" /\ ~job[e].error /\ job[e].hosts = {}
        BY <1>a, <1>e, <1>i, <2>3
      <4> QED  BY <1>a, <2>3, <3>2, <4>1 DEF Pulled
    <3> QED  BY <3>1, <3>2
  <2>4. ASSUME NEW x \in Engines, job'[x] # None, job'[x].op = "pull", ~job'[x].error, NEW h \in HostsOf[x] \ job'[x].hosts
        PROVE  local[h].applied = version
    BY <2>1, <2>4 DEF Pulled
  <2> QED  BY <2>2, <2>3, <2>4 DEF Pulled, Answer
<1>9. Loading'
  <2>1. ASSUME NEW x \in Engines, x # e
        PROVE  label'[x] = label[x] /\ paused'[x] = paused[x] /\ job'[x] = job[x] /\ (x \notin waiting' => x \notin waiting)
    BY <1>a, <1>b, <1>c, <1>d, <2>1
  <2>2. pc' = pc \/ pc' = "down"
    BY <1>e
  <2>3. \A x \in Engines : Loaded(x)' = Loaded(x)
    BY DEF Loaded, Answer
  <2>4. ASSUME NEW x \in Engines, x # e, job'[x] # None
        PROVE  /\ job'[x].op \in {"flush", "reload", "relabel"} => paused'[x]
               /\ job'[x].op \in {"relabel", "continue"} => Loaded(x)'
               /\ job'[x].op = "continue" => label'[x] = version
    BY <2>1, <2>3, <2>4 DEF Loading
  <2>5. ASSUME NEW x \in Engines, x # e, alive[x]
        PROVE  /\ pc' \in {"flush", "reload"} \/ (pc' = "pause" /\ x \notin waiting') => paused'[x]
               /\ pc' \in {"continue", "rollout"} \/ (pc' = "reload" /\ x \notin waiting') =>
                     Loaded(x)' /\ label'[x] = version
               /\ pc' = "rollout" \/ (pc' = "continue" /\ x \notin waiting') => ~paused'[x]
    BY <2>1, <2>2, <2>3, <2>5 DEF Loading
  <2>6. ASSUME alive[e]
        PROVE  /\ pc' \in {"flush", "reload"} \/ (pc' = "pause" /\ e \notin waiting') => paused'[e]
               /\ pc' \in {"continue", "rollout"} \/ (pc' = "reload" /\ e \notin waiting') =>
                     Loaded(e)' /\ label'[e] = version
               /\ pc' = "rollout" \/ (pc' = "continue" /\ e \notin waiting') => ~paused'[e]
    <3>1. CASE pc' = "down"
      BY <3>1
    <3>2. CASE pc' = pc /\ pc # "down"
      <4>1. pc = "reload" => job[e].op = "relabel"
        BY <1>a, <1>i, <3>2
      <4>2. pc # "reload" => job[e].op = pc
        BY <1>i, <3>2
      <4> QED  BY <1>b, <1>c, <1>g, <1>h, <2>3, <3>2, <4>1, <4>2
    <3> QED  BY <2>2, <3>1, <3>2
  <2> QED  BY <1>d, <2>4, <2>5, <2>6 DEF Loading, Answer
<1>10. Labelled'
  <2>1. version \in Versions /\ dirs[version] \in Fulls \cup Diffs
    BY <1>a, CallFacts
  <2>2. \A x \in Engines : label'[x] > 0 => label'[x] \in Versions /\ dirs[label'[x]] \in Fulls \cup Diffs
    BY <1>b, <2>1 DEF Labelled
  <2>3. ASSUME NEW x \in Engines, label'[x] > 0, ~paused'[x], NEW h \in HostsOf[x]
        PROVE  gpu[x][h] = dirs[label'[x]].data
    <3>1. CASE x # e
      BY <1>b, <1>c, <2>3, <3>1 DEF Labelled, LabelHonest
    <3>2. CASE x = e /\ job[e].op = "continue"
      BY <1>b, <1>h, <2>3, <3>2 DEF Loaded
    <3>3. CASE x = e /\ job[e].op # "continue"
      <4>1. job[e].op \notin {"pause", "flush", "relabel"} /\ ~paused[e]
        BY <1>c, <1>h, <2>3, <3>3
      <4> QED  BY <1>b, <2>3, <3>3, <4>1 DEF Labelled, LabelHonest
    <3> QED  BY <3>1, <3>2, <3>3
  <2> QED  BY <2>2, <2>3 DEF Labelled, LabelHonest, Answer
<1> QED  BY <1>1, <1>2, <1>3, <1>4, <1>5, <1>6, <1>7, <1>8, <1>9, <1>10

(* A request fails, perhaps after some hosts have reloaded. *)
LEMMA RequestFailsStep ==
    ASSUME Delta, IInv, NEW e \in Engines, RequestFails(e)
    PROVE  IInv'
<1> USE DEF IInv
<1>a. /\ job[e] # None /\ job[e] \in Jobs /\ faults' = faults + 1 /\ faults < MaxFaults
      /\ \A h \in Hosts : lock[h] # None => lock[h].by # e
      /\ job' = [job EXCEPT ![e] = None] /\ pc' = "down"
  BY CallTypes DEF RequestFails
<1>b. PICK S \in SUBSET IF job[e].op = "reload" THEN HostsOf[e] ELSE {} :
        gpu' = [gpu EXCEPT ![e] = [h \in HostsOf[e] |-> IF h \in S THEN Reloaded(e)[h] ELSE gpu[e][h]]]
  BY DEF RequestFails, TypeOK
<1>c. /\ gpu' = [x \in Engines |-> gpu'[x]] /\ \A x \in Engines : x # e => gpu'[x] = gpu[x]
      /\ gpu'[e] \in [HostsOf[e] -> Contents]
      /\ job[e].op # "reload" => gpu'[e] = gpu[e]
  <2> DEFINE g == [h \in HostsOf[e] |-> IF h \in S THEN Reloaded(e)[h] ELSE gpu[e][h]]
  <2>1. gpu[e] \in [HostsOf[e] -> Contents] /\ \A h \in HostsOf[e] : Reloaded(e)[h] \in Contents
    BY HostOf, CopyTypes DEF TypeOK, Reloaded
  <2>2. g \in [HostsOf[e] -> Contents]
    BY <2>1
  <2>3. job[e].op # "reload" => g = gpu[e]
    <3>1. job[e].op # "reload" => \A h \in HostsOf[e] : g[h] = gpu[e][h]
      BY <1>b
    <3> HIDE DEF g
    <3> QED  BY <2>1, <2>2, <3>1
  <2>4. gpu' = [gpu EXCEPT ![e] = g]
    BY <1>b
  <2> HIDE DEF g
  <2> QED  BY <2>2, <2>3, <2>4 DEF TypeOK
<1>d. job' \in [Engines -> Jobs \cup {None}] /\ job'[e] = None /\ \A x \in Engines : x # e => job'[x] = job[x]
  BY <1>a DEF TypeOK
<1>e. (Busy' => Busy) /\ (Delivering' => Delivering) /\ ~InCalls'
  BY <1>a, <1>d DEF Busy, Delivering, InCalls
<1>f. job[e].op = "reload" => paused[e]
  BY <1>a DEF Loading
<1>1. TypeOK'
  BY <1>a, <1>c, <1>d, Counters DEF TypeOK, Places, RequestFails
<1>2. Counted'
  <2>1. faults + 1 \in Nat /\ step + faults + 1 \in Nat /\ step + faults' = step + faults + 1
    BY <1>a, Counters
  <2>2. step + faults' + 1 \in Nat /\ step + faults + 1 <= step + faults' + 1
    BY <2>1, Counters
  <2>3. UsedUpTo(step + faults + 1)
    BY DEF Counted
  <2>4. UsedUpTo(step + faults' + 1)
    BY <2>1, <2>2, <2>3, UsedGrows
  <2> QED  BY <2>1, <2>3, <2>4 DEF Counted, UsedUpTo, RequestFails
<1>3. Newest'
  <2>1. ~Follows' /\ pc' = "down"
    BY <1>a DEF Follows
  <2> QED  BY <1>e, <2>1 DEF Newest, RequestFails
<1>4. Directory'
  BY <1>a, <1>e DEF Directory, RequestFails
<1>5. Called'
  <2>1. ASSUME NEW x \in Engines, job'[x] # None PROVE job'[x] = job[x] /\ x # e
    BY <1>d, <2>1
  <2> QED  BY <1>a, <2>1 DEF Called, NewEngines, RequestFails
<1>6. Locked'
  <2> SUFFICES ASSUME NEW x \in Hosts, lock[x] # None
               PROVE  LET y == lock[x].by
                      IN  job'[y] # None /\ job'[y].op = "pull" /\ x \in job'[y].hosts /\ local[x].applied # version
    BY DEF Locked, RequestFails
  <2>1. lock[x].by \in Engines
    BY DEF TypeOK, Locks
  <2> QED  BY <1>a, <1>d, <2>1 DEF Locked
<1>7. Hosted'
  BY <1>a, <1>e DEF Hosted, Reached, Behind, NewEngines, RequestFails
<1>8. Pulled'
  <2>1. ASSUME NEW x \in Engines, job'[x] # None PROVE job'[x] = job[x] /\ x # e
    BY <1>d, <2>1
  <2> QED  BY <1>a, <2>1 DEF Pulled, RequestFails
<1>9. Loading'
  <2>1. ASSUME NEW x \in Engines, job'[x] # None PROVE job'[x] = job[x] /\ x # e /\ Loaded(x)' = Loaded(x)
    BY <1>c, <1>d, <2>1 DEF Loaded, RequestFails
  <2> QED  BY <1>a, <2>1 DEF Loading, RequestFails
<1>10. Labelled'
  BY <1>c, <1>f DEF Labelled, LabelHonest, RequestFails
<1> QED  BY <1>1, <1>2, <1>3, <1>4, <1>5, <1>6, <1>7, <1>8, <1>9, <1>10

(* An engine dies with its call and its locks. *)
LEMMA EngineCrashStep ==
    ASSUME Delta, IInv, NEW e \in Engines, EngineCrash(e)
    PROVE  IInv'
<1> USE DEF IInv
<1>a. faults' = faults + 1 /\ faults < MaxFaults /\ alive' = [alive EXCEPT ![e] = FALSE]
  BY DEF EngineCrash
<1>b. /\ alive' \in [Engines -> BOOLEAN] /\ ~alive'[e] /\ \A x \in Engines : alive'[x] => alive[x]
      /\ NewEngines' # {}
  BY <1>a DEF TypeOK, NewEngines
<1>c. job' \in [Engines -> Jobs \cup {None}] /\ job'[e] = None /\ \A x \in Engines : x # e => job'[x] = job[x]
  BY DEF TypeOK, EngineCrash
<1>d. /\ lock' \in [Hosts -> Locks \cup {None}]
      /\ \A h \in Hosts : lock'[h] # None => lock'[h] = lock[h] /\ lock[h].by # e
  BY DEF TypeOK, EngineCrash
<1>e. (Busy' => Busy) /\ (Delivering' => Delivering) /\ InCalls' = InCalls
  BY <1>c DEF Busy, Delivering, InCalls, EngineCrash
<1>f. \A x \in Engines : alive'[x] => x # e /\ alive[x]
  BY <1>b
<1>1. TypeOK'
  BY <1>a, <1>b, <1>c, <1>d, Counters DEF TypeOK, Places, EngineCrash
<1>2. Counted'
  <2>1. faults + 1 \in Nat /\ step + faults + 1 \in Nat /\ step + faults' = step + faults + 1
    BY <1>a, Counters
  <2>2. step + faults' + 1 \in Nat /\ step + faults + 1 <= step + faults' + 1
    BY <2>1, Counters
  <2>3. UsedUpTo(step + faults + 1)
    BY DEF Counted
  <2>4. UsedUpTo(step + faults' + 1)
    BY <2>1, <2>2, <2>3, UsedGrows
  <2> QED  BY <2>1, <2>3, <2>4 DEF Counted, UsedUpTo, EngineCrash
<1>3. Newest'
  BY <1>e DEF Newest, Follows, EngineCrash
<1>4. Directory'
  BY <1>e DEF Directory, EngineCrash
<1>5. Called'
  <2>1. ASSUME NEW x \in Engines, job'[x] # None PROVE job'[x] = job[x] /\ alive'[x]
    BY <1>a, <1>c, <2>1 DEF Called, TypeOK
  <2> QED  BY <1>b, <2>1 DEF Called, EngineCrash
<1>6. Locked'
  <2> SUFFICES ASSUME NEW x \in Hosts, lock'[x] # None
               PROVE  LET y == lock'[x].by
                      IN  job'[y] # None /\ job'[y].op = "pull" /\ x \in job'[y].hosts /\ local[x].applied # version
    BY DEF Locked, EngineCrash
  <2>1. lock'[x] = lock[x] /\ lock[x].by \in Engines /\ lock[x].by # e
    BY <1>d DEF TypeOK, Locks
  <2> QED  BY <1>c, <2>1 DEF Locked
<1>7. Hosted'
  <2>1. ASSUME NEW x \in Hosts, Behind(x) PROVE Behind(x)'
    BY <1>b, <1>d, <2>1 DEF Behind, EngineCrash
  <2>2. \A x \in Hosts : Reached(x)' = Reached(x)
    BY DEF Reached, EngineCrash
  <2> QED  BY <1>e, <2>1, <2>2 DEF Hosted, EngineCrash
<1>8. Pulled'
  <2>1. ASSUME NEW x \in Engines, job'[x] # None PROVE job'[x] = job[x] /\ x # e
    BY <1>c, <2>1
  <2> QED  BY <2>1 DEF Pulled, EngineCrash
<1>9. Loading'
  <2>1. ASSUME NEW x \in Engines, job'[x] # None PROVE job'[x] = job[x] /\ x # e
    BY <1>c, <2>1
  <2>2. \A x \in Engines : Loaded(x)' = Loaded(x)
    BY DEF Loaded, EngineCrash
  <2> QED  BY <1>f, <2>1, <2>2 DEF Loading, EngineCrash
<1>10. Labelled'
  BY DEF Labelled, LabelHonest, EngineCrash
<1> QED  BY <1>1, <1>2, <1>3, <1>4, <1>5, <1>6, <1>7, <1>8, <1>9, <1>10

(* The trainer dies; the engines finish what it asked of them. *)
LEMMA TrainerCrashStep ==
    ASSUME Delta, IInv, TrainerCrash
    PROVE  IInv'
<1> USE DEF IInv
<1>a. faults' = faults + 1 /\ faults < MaxFaults /\ pc' = "down"
  BY DEF TrainerCrash
<1>b. Busy' = Busy /\ (Delivering' => Delivering) /\ ~InCalls' /\ ~Follows'
  BY <1>a DEF Busy, Delivering, InCalls, Follows, TrainerCrash
<1>1. TypeOK'
  BY <1>a, Counters DEF TypeOK, Places, TrainerCrash
<1>2. Counted'
  <2>1. faults + 1 \in Nat /\ step + faults + 1 \in Nat /\ step + faults' = step + faults + 1
    BY <1>a, Counters
  <2>2. step + faults' + 1 \in Nat /\ step + faults + 1 <= step + faults' + 1
    BY <2>1, Counters
  <2>3. UsedUpTo(step + faults + 1)
    BY DEF Counted
  <2>4. UsedUpTo(step + faults' + 1)
    BY <2>1, <2>2, <2>3, UsedGrows
  <2> QED  BY <2>1, <2>3, <2>4 DEF Counted, UsedUpTo, TrainerCrash
<1>3. Newest'
  BY <1>a, <1>b DEF Newest, TrainerCrash
<1>4. Directory'
  BY <1>a, <1>b DEF Directory, TrainerCrash
<1>5. Called'
  BY <1>a DEF Called, NewEngines, TrainerCrash
<1>6. Locked'
  BY DEF Locked, TrainerCrash
<1>7. Hosted'
  BY <1>a, <1>b DEF Hosted, Reached, Behind, NewEngines, TrainerCrash
<1>8. Pulled'
  BY <1>a DEF Pulled, TrainerCrash
<1>9. Loading'
  BY <1>a DEF Loading, Loaded, TrainerCrash
<1>10. Labelled'
  BY DEF Labelled, LabelHonest, TrainerCrash
<1> QED  BY <1>1, <1>2, <1>3, <1>4, <1>5, <1>6, <1>7, <1>8, <1>9, <1>10

(* A call of a dead engine: the trainer gives up. *)
LEMMA CallFailsStep ==
    ASSUME Delta, IInv, CallFails
    PROVE  IInv'
<1> USE DEF IInv
<1>a. pc' = "down" /\ NewEngines # {}
  BY DEF CallFails, NewEngines, TypeOK
<1>b. Busy' = Busy /\ (Delivering' => Delivering) /\ ~InCalls' /\ ~Follows'
  BY <1>a DEF Busy, Delivering, InCalls, Follows, CallFails
<1>1. TypeOK'
  BY <1>a DEF TypeOK, Places, CallFails
<1>2. Counted'
  BY <1>a DEF Counted, UsedUpTo, NewEngines, CallFails
<1>3. Newest'
  BY <1>a, <1>b DEF Newest, CallFails
<1>4. Directory'
  BY <1>a, <1>b DEF Directory, CallFails
<1>5. Called'
  BY <1>a DEF Called, NewEngines, CallFails
<1>6. Locked'
  BY DEF Locked, CallFails
<1>7. Hosted'
  BY <1>a, <1>b DEF Hosted, Reached, Behind, NewEngines, CallFails
<1>8. Pulled'
  BY <1>a DEF Pulled, CallFails
<1>9. Loading'
  BY <1>a DEF Loading, Loaded, CallFails
<1>10. Labelled'
  BY DEF Labelled, LabelHonest, CallFails
<1> QED  BY <1>1, <1>2, <1>3, <1>4, <1>5, <1>6, <1>7, <1>8, <1>9, <1>10

(* A training step. *)
LEMMA TrainStep ==
    ASSUME Delta, IInv, NEW changed \in SUBSET Tensors, NEW save \in BOOLEAN, Train(changed, save)
    PROVE  IInv'
<1> USE DEF IInv
<1>a. /\ pc = "rollout" /\ pc' = "start" /\ step < MaxSteps /\ step' = step + 1 /\ ~full
      /\ weights' = [t \in Tensors |-> IF t \in changed THEN step' ELSE weights[t]]
      /\ ckpt' = IF save THEN weights' ELSE ckpt
  BY DEF Train, Directory
<1>b. weights' \in Contents /\ ckpt' \in Contents
  BY <1>a, Counters DEF TypeOK, Contents
<1>c. ~Busy /\ ~Busy' /\ ~Delivering'
  BY <1>a, CallFacts DEF Busy, Delivering, InCalls, Train
<1>d. version \in Versions /\ dirs[version] # None /\ \A v \in Versions : dirs[v] # None => v <= version
  BY <1>a DEF Newest
<1>1. TypeOK'
  BY <1>a, <1>b, Counters DEF TypeOK, Places, Train
<1>2. Counted'
  <2>1. step' + faults = step + faults + 1 /\ step + faults + 1 \in Nat /\ step' + faults + 1 \in Nat
    BY <1>a, Counters
  <2>2. UsedUpTo(step + faults + 1) /\ step + faults + 1 <= step' + faults + 1
    BY <2>1, Counters DEF Counted
  <2>3. UsedUpTo(step' + faults + 1)
    BY <2>1, <2>2, UsedGrows
  <2> QED  BY <2>1, <2>2, <2>3 DEF Counted, UsedUpTo, Train
<1>3. Newest'
  BY <1>a, <1>d DEF Newest, Train
<1>4. Directory'
  BY <1>a, <1>c DEF Directory, InCalls, Train
<1>5. Called'
  BY <1>a, CallFacts DEF Called, NewEngines, Train
<1>6. Locked'
  BY DEF Locked, Train
<1>7. Hosted'
  BY <1>a, <1>c DEF Hosted, Reached, Train
<1>8. Pulled'
  BY <1>a DEF Pulled, Train
<1>9. Loading'
  BY <1>a DEF Loading, Loaded, Train
<1>10. Labelled'
  BY DEF Labelled, LabelHonest, Train
<1> QED  BY <1>1, <1>2, <1>3, <1>4, <1>5, <1>6, <1>7, <1>8, <1>9, <1>10

(* A new trainer attaches. *)
LEMMA NewTrainerStep ==
    ASSUME Delta, IInv, NewTrainer
    PROVE  IInv'
<1> USE DEF IInv
<1>a. /\ pc = "down" /\ (\A e \in Engines : job[e] = None) /\ weights' = ckpt
      /\ version' = Max({label[e] : e \in {x \in Engines : alive[x]}} \cup {0})
      /\ snapshot' = None /\ full' = TRUE /\ pc' = "start" /\ waiting' = {}
  BY DEF NewTrainer
<1>b. ~Busy /\ ~Busy' /\ ~Delivering' /\ ~Follows' /\ ~InCalls'
  BY <1>a DEF Busy, Delivering, InCalls, Follows, NewTrainer
<1>c. version' \in Nat /\ (version' = 0 \/ (version' \in Versions /\ dirs[version'] # None))
  <2> DEFINE L == {label[e] : e \in {x \in Engines : alive[x]}} \cup {0}
  <2>1. \A e \in Engines : label[e] \in Nat /\ (label[e] = 0 \/ (label[e] \in Versions /\ dirs[label[e]] # None))
    BY DirectoryTypes DEF Labelled, TypeOK
  <2>2. L \in SUBSET Nat /\ L # {} /\ \A x \in L : x = 0 \/ (x \in Versions /\ dirs[x] # None)
    BY <2>1
  <2>3. \A x \in L : x <= MaxSteps + MaxFaults + 1
    BY <2>2, DiskAssumption DEF Versions
  <2>4. MaxSteps + MaxFaults + 1 \in Nat
    BY DiskAssumption
  <2> HIDE DEF L
  <2>5. Max(L) \in L
    BY <2>2, <2>3, <2>4, MaxOf
  <2> QED  BY <1>a, <2>2, <2>5 DEF L
<1>1. TypeOK'
  BY <1>a, <1>c DEF TypeOK, Places, NewTrainer
<1>2. Counted'
  <2>1. UsedUpTo(step + faults) /\ UsedUpTo(step + faults + 1) /\ step + faults \in Nat /\ step + faults + 1 \in Nat
    BY <1>a, Counters DEF Counted
  <2>2. version' <= step + faults /\ version' <= step + faults + 1
    <3>1. CASE version' = 0
      BY <2>1, <3>1
    <3>2. CASE version' \in Versions /\ dirs[version'] # None
      BY <2>1, <3>2 DEF UsedUpTo
    <3> QED  BY <1>c, <3>1, <3>2
  <2> QED  BY <2>1, <2>2 DEF Counted, UsedUpTo, NewTrainer
<1>3. Newest'
  BY <1>a, <1>b DEF Newest, NewTrainer
<1>4. Directory'
  BY <1>a, <1>b DEF Directory, NewTrainer
<1>5. Called'
  BY <1>a DEF Called, NewEngines, NewTrainer
<1>6. Locked'
  <2>1. ASSUME NEW h \in Hosts, lock[h] # None PROVE FALSE
    <3>1. lock[h].by \in Engines
      BY <2>1 DEF TypeOK, Locks
    <3> QED  BY <1>a, <2>1, <3>1 DEF Locked
  <2> QED  BY <2>1 DEF Locked, NewTrainer
<1>7. Hosted'
  BY <1>a, <1>b DEF Hosted, NewTrainer
<1>8. Pulled'
  BY <1>a DEF Pulled, NewTrainer
<1>9. Loading'
  BY <1>a DEF Loading, NewTrainer
<1>10. Labelled'
  BY DEF Labelled, LabelHonest, NewTrainer
<1> QED  BY <1>1, <1>2, <1>3, <1>4, <1>5, <1>6, <1>7, <1>8, <1>9, <1>10

(* An update begins: it takes a version above every directory, and replaces   *)
(* engines that died.                                                         *)
LEMMA BeginUpdateStep ==
    ASSUME Delta, IInv, BeginUpdate
    PROVE  IInv'
<1> USE DEF IInv
<1>a. /\ pc = "start" /\ pc' = "publish" /\ full' = (full \/ NewEngines # {})
      /\ version' = NextVersion(full')
      /\ dirs' = IF dirs[version'] # None THEN dirs ELSE [dirs EXCEPT ![version'] = Torn]
      /\ gpu' = [e \in Engines |-> IF e \in NewEngines THEN [h \in HostsOf[e] |-> Base] ELSE gpu[e]]
      /\ label' = [e \in Engines |-> IF e \in NewEngines THEN 0 ELSE label[e]]
      /\ paused' = [e \in Engines |-> e \notin NewEngines /\ paused[e]]
      /\ alive' = [e \in Engines |-> TRUE]
  BY DEF BeginUpdate
<1>b. \A e \in Engines : job[e] = None
  BY <1>a, CallFacts
<1>c. ~Busy /\ ~Busy' /\ ~Delivering' /\ ~InCalls'
  BY <1>a, <1>b DEF Busy, Delivering, InCalls, BeginUpdate
<1>d. full' \in BOOLEAN /\ version \in Nat
  BY <1>a DEF TypeOK
\* The version is above all that were begun, and not beyond the bound.
<1>e. /\ version' \in Nat /\ version' <= step + faults + 1
      /\ \A v \in Versions : dirs[v] # None => v < version'
      /\ ~full' => version' = version + 1
  <2>1. UsedUpTo(step + faults) /\ step + faults \in Nat
    BY <1>a, Counters DEF Counted
  <2>2. CASE full'
    <3> DEFINE U == {version} \cup {v \in Versions : dirs[v] # None}
    <3>1. U \in SUBSET Nat /\ U # {} /\ \A x \in U : x <= step + faults
      BY <1>d, <2>1, VersionsNat DEF UsedUpTo
    <3>2. version' = 1 + Max(U)
      BY <1>a, <2>2 DEF NextVersion
    <3> HIDE DEF U
    <3>3. Max(U) \in U /\ \A x \in U : x <= Max(U)
      BY <2>1, <3>1, MaxOf
    <3>4. Max(U) \in Nat /\ Max(U) <= step + faults
      BY <3>1, <3>3
    <3>5. \A v \in Versions : dirs[v] # None => v <= Max(U)
      BY <3>3 DEF U
    <3> QED  BY <2>1, <2>2, <3>2, <3>4, <3>5, VersionsNat
  <2>3. CASE ~full'
    <3>1. version' = 1 + version /\ ~full
      BY <1>a, <2>3 DEF NextVersion, TypeOK
    <3>2. \A v \in Versions : dirs[v] # None => v <= version
      BY <1>a, <3>1 DEF Newest, Follows
    <3>3. version <= step + faults
      BY <2>1 DEF UsedUpTo
    <3> QED  BY <1>d, <2>1, <2>3, <3>1, <3>2, <3>3, VersionsNat
  <2> QED  BY <1>d, <2>2, <2>3
<1>f. version' \in Versions /\ version' > 0
  <2>1. version' # 0
    <3>1. CASE full'
      <4>1. \/ version' = 1 + Max({version} \cup {v \in Versions : dirs[v] # None})
        BY <1>a, <3>1 DEF NextVersion
      <4>2. \A x \in {version} \cup {v \in Versions : dirs[v] # None} : x \in Nat /\ x <= step + faults
        BY <1>a, <1>d, VersionsNat DEF Counted, UsedUpTo
      <4>3. Max({version} \cup {v \in Versions : dirs[v] # None}) \in Nat
        <5> DEFINE U == {version} \cup {v \in Versions : dirs[v] # None}
        <5>1. U \in SUBSET Nat /\ U # {} /\ \A x \in U : x <= step + faults
          BY <4>2
        <5>2. step + faults \in Nat
          BY Counters
        <5> HIDE DEF U
        <5>3. Max(U) \in U
          BY <5>1, <5>2, MaxOf
        <5>4. Max(U) \in Nat
          BY <5>1, <5>3
        <5> QED  BY <5>4 DEF U
      <4> QED  BY <4>1, <4>3
    <3>2. CASE ~full'
      BY <1>d, <1>e, <3>2
    <3> QED  BY <3>1, <3>2
  <2>2. step + faults + 1 <= MaxSteps + MaxFaults + 1
    BY Counters DEF TypeOK
  <2> QED  BY <1>e, <2>1, <2>2, Counters DEF Versions
<1>g. dirs[version'] = None
  BY <1>e, <1>f
<1>h. /\ dirs' \in [Versions -> {Torn, None} \cup Fulls \cup Diffs]
      /\ dirs'[version'] = Torn /\ \A v \in Versions : v # version' => dirs'[v] = dirs[v]
  BY <1>a, <1>f, <1>g DEF TypeOK
<1>i. \A v \in Versions : dirs[v] # None => dirs'[v] = dirs[v]
  BY <1>g, <1>h
<1>j. NewEngines' = {}
  BY <1>a DEF NewEngines
<1>1. TypeOK'
  <2>1. [e \in Engines |-> IF e \in NewEngines THEN [h \in HostsOf[e] |-> Base] ELSE gpu[e]]
          = [e \in Engines |-> gpu'[e]]
    BY <1>a
  <2>2. Base \in Contents
    BY DEF Base, Contents
  <2>3. \A e \in Engines : gpu'[e] \in [HostsOf[e] -> Contents]
    BY <1>a, <2>2 DEF TypeOK
  <2>4. label' \in [Engines -> Nat] /\ alive' \in [Engines -> BOOLEAN] /\ paused' \in [Engines -> BOOLEAN]
    BY <1>a DEF TypeOK
  <2>5. gpu' = [e \in Engines |-> gpu'[e]]
    BY <1>a, <2>1
  <2> QED  BY <1>a, <1>d, <1>e, <1>h, <2>3, <2>4, <2>5 DEF TypeOK, Places, BeginUpdate
<1>2. Counted'
  <2>1. \A v \in Versions : dirs'[v] # None => v <= version'
    BY <1>e, <1>f, <1>h, VersionsNat
  <2>2. \A v \in Versions : dirs'[v] # None => v <= step + faults + 1
    BY <1>e, <2>1, VersionsNat, Counters
  <2> QED  BY <1>a, <1>e, <1>j, <2>2 DEF Counted, UsedUpTo, BeginUpdate
<1>3. Newest'
  <2>1. \A v \in Versions : dirs'[v] # None => v <= version'
    BY <1>e, <1>f, <1>h, VersionsNat
  <2> QED  BY <1>a, <1>f, <1>h, <2>1, DirectoryTypes DEF Newest
<1>4. Directory'
  BY <1>a, <1>c DEF Directory
<1>5. Called'
  BY <1>b DEF Called, BeginUpdate
<1>6. Locked'
  <2>1. ASSUME NEW h \in Hosts, lock[h] # None PROVE FALSE
    <3>1. lock[h].by \in Engines
      BY <2>1 DEF TypeOK, Locks
    <3> QED  BY <1>b, <2>1, <3>1 DEF Locked
  <2> QED  BY <2>1 DEF Locked, BeginUpdate
<1>7. Hosted'
  <2>1. \A h \in Hosts : local[h].applied # None => dirs'[local[h].applied] \in Fulls \cup Diffs
    BY <1>i, CopyTypes, DirectoryTypes DEF Hosted
  <2>2. ASSUME ~full', NEW h \in Hosts PROVE local[h].applied = version' - 1 /\ local[h].data = snapshot
    <3>1. ~full
      BY <1>a, <2>2 DEF TypeOK
    <3>2. Reached(h) /\ snapshot = dirs[version].data
      BY <1>a, <3>1 DEF Hosted, Directory
    <3> QED  BY <1>d, <1>e, <2>2, <3>2 DEF Reached
  <2> QED  BY <1>a, <1>c, <2>1, <2>2 DEF Hosted, BeginUpdate
<1>8. Pulled'
  BY <1>a, <1>b DEF Pulled, BeginUpdate
<1>9. Loading'
  BY <1>a, <1>b DEF Loading, BeginUpdate
<1>10. Labelled'
  <2>1. ASSUME NEW e \in Engines, label'[e] > 0 PROVE label'[e] = label[e] /\ gpu'[e] = gpu[e] /\ e \notin NewEngines
    BY <1>a, <2>1
  <2>2. ASSUME NEW e \in Engines, label'[e] > 0
        PROVE  label'[e] \in Versions /\ dirs'[label'[e]] = dirs[label[e]] /\ dirs[label[e]] \in Fulls \cup Diffs
    BY <1>i, <2>1, <2>2, DirectoryTypes DEF Labelled
  <2>3. ASSUME NEW e \in Engines, label'[e] > 0, ~paused'[e], NEW h \in HostsOf[e]
        PROVE  gpu'[e][h] = dirs'[label'[e]].data
    BY <1>a, <2>1, <2>2, <2>3 DEF Labelled, LabelHonest
  <2> QED  BY <2>2, <2>3 DEF Labelled, LabelHonest
<1> QED  BY <1>1, <1>2, <1>3, <1>4, <1>5, <1>6, <1>7, <1>8, <1>9, <1>10

(* A full checkpoint, or the difference to the last publication, is           *)
(* published, and every engine told to pull.                                  *)
LEMMA PublishStep ==
    ASSUME Delta, IInv, Publish
    PROVE  IInv'
<1> USE DEF IInv
<1> DEFINE d == IF full THEN [kind |-> "full", data |-> weights]
                ELSE [kind |-> "delta", base |-> version - 1, from |-> snapshot, data |-> weights,
                      changed |-> {t \in Tensors : weights[t] # snapshot[t]}]
<1>a. /\ pc = "publish" /\ pc' = "pull" /\ waiting' = Engines /\ snapshot' = weights
      /\ dirs' = [dirs EXCEPT ![version] = d]
      /\ job' = [e \in Engines |->
                    IF alive[e] THEN [op |-> "pull", target |-> version, hosts |-> HostsOf[e], error |-> FALSE]
                    ELSE None]
  BY DEF Publish, Call
<1>b. \A e \in Engines : job[e] = None
  BY <1>a, CallFacts
<1>c. \A h \in Hosts : lock[h] = None
  <2>1. \A h \in Hosts : lock[h] # None => lock[h].by \in Engines
    BY DEF TypeOK, Locks
  <2> QED  BY <1>b, <2>1 DEF Locked
<1>d. version \in Versions /\ dirs[version] = Torn /\ \A v \in Versions : dirs[v] # None => v <= version
  BY <1>a DEF Newest
<1>e. ~full => \A h \in Hosts : local[h].applied = version - 1 /\ local[h].data = snapshot
  BY <1>a DEF Hosted
<1>f. ~full => snapshot \in Contents
  <2>1. Hosts # {}
    BY DiskAssumption DEF Hosts
  <2> QED  BY <1>e, <2>1, CopyTypes
<1>g. /\ d.data = weights
      /\ full => d \in Fulls
      /\ ~full => /\ d \in Diffs /\ d.base = version - 1 /\ d.from = snapshot
                  /\ d.changed = {t \in Tensors : d.from[t] # d.data[t]}
  <2>1. CASE full
    BY <2>1 DEF TypeOK, Fulls
  <2>2. CASE ~full
    <3>1. version - 1 \in Int /\ weights \in Contents /\ snapshot \in Contents
      BY <1>f, <2>2 DEF TypeOK
    <3>2. d.data = weights /\ d.base = version - 1 /\ d.from = snapshot
          /\ d.changed = {t \in Tensors : weights[t] # snapshot[t]}
      BY <2>2
    <3>3. d.changed = {t \in Tensors : d.from[t] # d.data[t]}
      BY <3>2
    <3>4. d \in Diffs
      BY <2>2, <3>1 DEF Diffs
    <3> QED  BY <2>2, <3>2, <3>3, <3>4
  <2> QED  BY <2>1, <2>2
<1>h. d \in Fulls \cup Diffs /\ d # None
  BY <1>g, DirectoryTypes
<1> HIDE DEF d
<1>i. /\ dirs' \in [Versions -> {Torn, None} \cup Fulls \cup Diffs]
      /\ dirs'[version] = d /\ \A v \in Versions : v # version => dirs'[v] = dirs[v]
  BY <1>a, <1>d, <1>h DEF TypeOK
<1>j. \A v \in Versions : dirs'[v] # None <=> dirs[v] # None
  BY <1>d, <1>h, <1>i, DirectoryTypes
<1>k. /\ job' \in [Engines -> Jobs \cup {None}]
      /\ \A e \in Engines : job'[e] # None =>
            /\ alive[e] /\ job'[e].op = "pull" /\ job'[e].target = version
            /\ job'[e].hosts = HostsOf[e] /\ ~job'[e].error
  <2>1. \A e \in Engines : [op |-> "pull", target |-> version, hosts |-> HostsOf[e], error |-> FALSE] \in Jobs
    BY <1>d, HostOf DEF Jobs
  <2> QED  BY <1>a, <2>1
<1>l. InCalls' /\ Delivering'
  BY <1>a DEF InCalls, Delivering
<1>1. TypeOK'
  BY <1>a, <1>i, <1>k DEF TypeOK, Places, Publish
<1>2. Counted'
  BY <1>a, <1>j DEF Counted, UsedUpTo, NewEngines, Publish
<1>3. Newest'
  BY <1>a, <1>d, <1>h, <1>i, <1>j DEF Newest, Publish
<1>4. Directory'
  <2>1. \/ full /\ dirs'[version] \in Fulls
        \/ /\ ~full /\ dirs'[version] \in Diffs /\ dirs'[version].base = version - 1
           /\ dirs'[version].changed = {t \in Tensors : dirs'[version].from[t] # dirs'[version].data[t]}
    BY <1>g, <1>i DEF TypeOK
  <2>2. dirs'[version].data = weights
    BY <1>g, <1>i
  <2> QED  BY <1>a, <2>1, <2>2 DEF Directory, InCalls, Publish
<1>5. Called'
  BY <1>a, <1>k DEF Called, Publish
<1>6. Locked'
  BY <1>c DEF Locked, Publish
<1>7. Hosted'
  <2>1. \A h \in Hosts : local[h].applied # version
    <3>1. version # None
      BY <1>d, VersionsNat, NoneAssumption
    <3> QED  BY <1>d, <3>1, DirectoryTypes DEF Hosted
  <2>2. ASSUME NEW h \in Hosts PROVE Behind(h)'
    <3>1. CASE full
      BY <1>c, <3>1 DEF Behind, Publish
    <3>2. CASE ~full
      <4>1. dirs'[version].from = local[h].data /\ local[h].applied = version - 1 /\ lock[h] = None
        BY <1>c, <1>e, <1>g, <1>i, <3>2
      <4> QED  BY <3>2, <4>1 DEF Behind, Publish
    <3> QED  BY <3>1, <3>2
  <2>3. \A h \in Hosts : local[h].applied # None => dirs'[local[h].applied] \in Fulls \cup Diffs
    BY <1>d, <1>i, CopyTypes, DirectoryTypes DEF Hosted
  <2> QED  BY <1>a, <2>1, <2>2, <2>3 DEF Hosted, Publish
<1>8. Pulled'
  BY <1>a, <1>k DEF Pulled, Publish
<1>9. Loading'
  BY <1>a, <1>k DEF Loading, Publish
<1>10. Labelled'
  <2>1. \A e \in Engines : label[e] > 0 => label[e] \in Versions /\ dirs'[label[e]] = dirs[label[e]]
    BY <1>d, <1>i, DirectoryTypes DEF Labelled
  <2> QED  BY <2>1 DEF Labelled, LabelHonest, Publish
<1> QED  BY <1>1, <1>2, <1>3, <1>4, <1>5, <1>6, <1>7, <1>8, <1>9, <1>10

(* All have answered: the next call, or the end of the update. *)
LEMMA NextCallStep ==
    ASSUME Delta, IInv, NextCall
    PROVE  IInv'
<1> USE DEF IInv
<1>a. /\ pc \in {"pull", "pause", "flush", "reload", "continue"} /\ waiting = {} /\ InCalls
      /\ full' = (full /\ pc # "continue") /\ UNCHANGED dirs
  BY CallsRange DEF NextCall, InCalls
<1>b. \A e \in Engines : job[e] = None
  BY <1>a, CallFacts
<1>c. ~Busy /\ Delivering
  BY <1>a, <1>b DEF Busy, Delivering
<1>d. \A h \in Hosts : lock[h] = None
  <2>1. \A h \in Hosts : lock[h] # None => lock[h].by \in Engines
    BY DEF TypeOK, Locks
  <2> QED  BY <1>b, <2>1 DEF Locked
\* All hosts have the version, and the engines are as far as the last call took them.
<1>e. \A h \in Hosts : local[h].applied = version
  <2>1. CASE pc = "pull"
    BY <1>a, <2>1 DEF Pulled, Hosts
  <2>2. CASE pc # "pull"
    BY <1>a, <2>2 DEF Pulled
  <2> QED  BY <2>1, <2>2
<1>f. \A h \in Hosts : Reached(h)
  BY <1>c, <1>e DEF Hosted
<1>g. version \in Versions /\ dirs[version] \in Fulls \cup Diffs
  BY <1>a, <1>c, PullFacts DEF Directory
<1>h. \/ /\ pc = "continue" /\ pc' = "rollout" /\ ~full' /\ UNCHANGED <<waiting, job>>
      \/ /\ full' = full /\ pc # "continue" /\ waiting' = Engines
         /\ \/ pc = "pull" /\ pc' = "pause"
            \/ pc = "pause" /\ pc' \in {"flush", "reload"}
            \/ pc = "flush" /\ pc' = "reload"
            \/ pc = "reload" /\ pc' = "continue"
         /\ job' = [e \in Engines |->
                       IF alive[e] THEN [op |-> pc', target |-> version, hosts |-> HostsOf[e], error |-> FALSE]
                       ELSE None]
  <2>1. CASE pc = "pull"
    BY <2>1 DEF NextCall, Call, TypeOK
  <2>2. CASE pc = "pause"
    BY <2>2 DEF NextCall, Call, TypeOK
  <2>3. CASE pc = "flush"
    BY <2>3 DEF NextCall, Call, TypeOK
  <2>4. CASE pc = "reload"
    BY <2>4 DEF NextCall, Call, TypeOK
  <2>5. CASE pc = "continue"
    BY <2>5 DEF NextCall
  <2> QED  BY <1>a, <2>1, <2>2, <2>3, <2>4, <2>5
<1>i. /\ job' \in [Engines -> Jobs \cup {None}]
      /\ \A e \in Engines : job'[e] # None =>
            /\ alive[e] /\ job'[e].op = pc' /\ job'[e].target = version /\ e \in waiting'
            /\ job'[e].hosts = HostsOf[e] /\ ~job'[e].error
            /\ pc' \in {"pause", "flush", "reload", "continue"}
  <2>1. CASE pc = "continue"
    BY <1>b, <1>h, <2>1 DEF TypeOK
  <2>2. CASE pc # "continue"
    <3>1. pc' \in {"pause", "flush", "reload", "continue"}
      BY <1>h, <2>2
    <3>2. \A e \in Engines : [op |-> pc', target |-> version, hosts |-> HostsOf[e], error |-> FALSE] \in Jobs
      BY <1>g, <3>1, HostOf DEF Jobs
    <3> QED  BY <1>h, <2>2, <3>1, <3>2
  <2> QED  BY <2>1, <2>2
<1>j. /\ pc' \in {"pause", "flush", "reload", "continue", "rollout"} /\ waiting' \subseteq Engines
      /\ InCalls' \/ pc' = "rollout"
      /\ full' \in BOOLEAN /\ (pc' # "rollout" => full' = full) /\ (pc' = "rollout" => ~full')
  BY <1>a, <1>h DEF TypeOK, InCalls
<1>k. Delivering' <=> pc' # "rollout"
  <2>1. CASE pc = "continue"
    BY <1>b, <1>h, <2>1 DEF Delivering, Busy, InCalls
  <2>2. CASE pc # "continue"
    BY <1>h, <2>2 DEF Delivering, InCalls
  <2> QED  BY <2>1, <2>2
<1>l. UNCHANGED <<weights, step, version, snapshot, local, lock, gpu, label, alive, paused, faults, ckpt, start>>
  BY DEF NextCall
<1>1. TypeOK'
  BY <1>a, <1>i, <1>j, <1>l DEF TypeOK, Places
<1>2. Counted'
  BY <1>a, <1>j, <1>l DEF Counted, UsedUpTo, NewEngines
<1>3. Newest'
  BY <1>a, <1>j, <1>l DEF Newest
<1>4. Directory'
  BY <1>a, <1>c, <1>g, <1>j, <1>k, <1>l DEF Directory
<1>5. Called'
  BY <1>i, <1>l DEF Called
<1>6. Locked'
  BY <1>d, <1>l DEF Locked
<1>7. Hosted'
  <2>1. \A h \in Hosts : Reached(h)'
    BY <1>a, <1>f, <1>l DEF Reached
  <2>2. \A h \in Hosts : local'[h].applied # None => dirs'[local'[h].applied] \in Fulls \cup Diffs
    BY <1>a, <1>l DEF Hosted
  <2> QED  BY <1>j, <2>1, <2>2 DEF Hosted
<1>8. Pulled'
  BY <1>e, <1>i, <1>j, <1>l, HostOf DEF Pulled
<1>9. Loading'
  <2>1. \A e \in Engines : Loaded(e)' = Loaded(e)
    BY <1>a, <1>l DEF Loaded
  <2>2. ASSUME NEW e \in Engines, alive[e]
        PROVE  /\ pc' \in {"flush", "reload"} => paused[e]
               /\ pc' \in {"continue", "rollout"} => Loaded(e) /\ label[e] = version
               /\ pc' = "rollout" => ~paused[e]
               /\ pc' = "continue" => waiting' = Engines
               /\ pc' = "reload" => waiting' = Engines
               /\ pc' = "pause" => waiting' = Engines
    BY <1>a, <1>h, <2>2 DEF Loading
  <2> QED  BY <1>i, <1>l, <2>1, <2>2 DEF Loading
<1>10. Labelled'
  BY <1>a, <1>l DEF Labelled, LabelHonest
<1> QED  BY <1>1, <1>2, <1>3, <1>4, <1>5, <1>6, <1>7, <1>8, <1>9, <1>10

-----------------------------------------------------------------------------
(* The invariant and the properties *)

(* Nothing has been published, and the hosts have no version. *)
LEMMA InitIInv == ASSUME Init PROVE IInv
<1> USE DEF Init
<1>1. Base \in Contents
  BY DEF Base, Contents
<1>2. ~InCalls /\ ~Busy /\ ~Delivering /\ ~Follows
  BY DEF InCalls, Busy, Delivering, Follows
<1>3. TypeOK
  <2>1. gpu = [e \in Engines |-> gpu[e]] /\ \A e \in Engines : gpu[e] \in [HostsOf[e] -> Contents]
    BY <1>1
  <2>2. local \in [Hosts -> Copy]
    BY <1>1 DEF Copy
  <2> QED  BY <1>1, <2>1, <2>2, DiskAssumption DEF TypeOK, Places
<1>4. Counted
  BY DiskAssumption DEF Counted, UsedUpTo, NewEngines
<1> QED  BY <1>2, <1>3, <1>4 DEF IInv, Newest, Directory, Called, Locked, Hosted, Pulled, Loading,
            Labelled, LabelHonest

LEMMA StutterStep == ASSUME IInv, UNCHANGED vars PROVE IInv'
<1> USE DEF IInv, vars
<1>1. TypeOK' /\ Counted' /\ Newest' /\ Directory' /\ Called'
  BY DEF TypeOK, Counted, UsedUpTo, NewEngines, Newest, Follows, Busy, Directory, Delivering,
     InCalls, Called
<1>2. Locked' /\ Hosted' /\ Pulled' /\ Loading' /\ Labelled'
  BY DEF Locked, Hosted, Delivering, InCalls, Busy, Reached, Behind, NewEngines, Pulled, Loading,
     Loaded,
         Labelled, LabelHonest
<1> QED  BY <1>1, <1>2

LEMMA StepIInv == ASSUME Delta, IInv, [Next]_vars PROVE IInv'
<1>1. ASSUME NEW changed \in SUBSET Tensors, NEW save \in BOOLEAN, Train(changed, save) PROVE IInv'
  BY <1>1, TrainStep
<1>2. ASSUME NEW e \in Engines, Reload(e) \/ Answer(e) \/ RequestFails(e) PROVE IInv'
  BY <1>2, ReloadStep, AnswerStep, RequestFailsStep
<1>3. ASSUME NEW e \in Engines, NEW h \in HostsOf[e], PullBegin(e, h) \/ PullEnd(e, h) \/ PullDone(e, h) PROVE IInv'
  BY <1>3, PullBeginStep, PullEndStep, PullDoneStep
<1>4. ASSUME NEW e \in Engines, EngineCrash(e) PROVE IInv'
  BY <1>4, EngineCrashStep
<1>5. CASE Finished \/ UNCHANGED vars
  BY <1>5, StutterStep DEF Finished
<1> QED  BY <1>1, <1>2, <1>3, <1>4, <1>5, BeginUpdateStep, PublishStep, NextCallStep, CallFailsStep,
            NewTrainerStep, TrainerCrashStep DEF Next

(* For any number of engines, hosts, tensors, training steps and crashes, the *)
(* invariant holds in delta mode, with either encoding of the differences.    *)
THEOREM Invariance == ASSUME Delta PROVE Spec => []IInv
<1>1. Init => IInv
  BY InitIInv
<1>2. IInv /\ [Next]_vars => IInv'
  BY StepIInv
<1> QED  BY <1>1, <1>2, PTL DEF Spec

(* When an update has returned, every engine serves the trainer's tensors     *)
(* under the trainer's version, whatever earlier trainers left on the hosts.  *)
THEOREM EnginesServeTrainer == ASSUME Delta PROVE Spec => []ServesTrainer
<1>1. IInv => ServesTrainer
  BY DEF IInv, ServesTrainer, Loading, Loaded, Directory
<1> QED  BY <1>1, Invariance, PTL

(* An engine that generates holds what was published under its version.       *)
THEOREM VersionNamesWeights == ASSUME Delta PROVE Spec => []LabelHonest
<1>1. IInv => LabelHonest
  BY DEF IInv, Labelled
<1> QED  BY <1>1, Invariance, PTL

(* A pull fails only in an update during which an engine died.                *)
THEOREM OnlyDeathFailsAPull == ASSUME Delta PROVE Spec => []PullsAccepted
<1>1. IInv => PullsAccepted
  BY DEF IInv, PullsAccepted, Called
<1> QED  BY <1>1, Invariance, PTL

(* What has been published under a version stays as it is: a trainer that     *)
(* went back to older weights publishes above every version, also above those *)
(* that no engine has received (update_weight_from_disk_delta.py:89).         *)
PublishedStep == \A v \in Versions : dirs[v] \in Fulls \cup Diffs => dirs'[v] = dirs[v]
LEMMA StepKeepsPublished == ASSUME Delta, IInv, [Next]_vars PROVE PublishedStep
<1>1. CASE UNCHANGED dirs
  BY <1>1 DEF PublishedStep
<1>2. CASE BeginUpdate
  <2>1. dirs' = dirs \/ (dirs[version'] = None /\ dirs' = [dirs EXCEPT ![version'] = Torn])
    BY <1>2 DEF BeginUpdate
  <2> QED  BY <2>1, DirectoryTypes DEF PublishedStep, IInv, TypeOK
<1>3. CASE Publish
  <2>1. dirs[version] = Torn
    BY <1>3 DEF Publish, IInv, Newest
  <2>2. \A v \in Versions : v # version => dirs'[v] = dirs[v]
    BY <1>3 DEF Publish, IInv, TypeOK
  <2> QED  BY <2>1, <2>2, DirectoryTypes DEF PublishedStep
<1>4. CASE NextCall
  BY <1>1, <1>4 DEF NextCall
<1>5. ASSUME NEW e \in Engines, Reload(e) \/ Answer(e) \/ RequestFails(e) \/ EngineCrash(e) PROVE UNCHANGED dirs
  BY <1>5 DEF Reload, Answer, RequestFails, EngineCrash
<1>6. ASSUME NEW e \in Engines, NEW h \in HostsOf[e], PullBegin(e, h) \/ PullEnd(e, h) \/ PullDone(e, h)
      PROVE  UNCHANGED dirs
  BY <1>6 DEF PullBegin, PullEnd, PullDone
<1>7. CASE CallFails \/ NewTrainer \/ TrainerCrash \/ Finished \/ UNCHANGED vars
  BY <1>1, <1>7 DEF CallFails, NewTrainer, TrainerCrash, Finished, vars
<1>8. ASSUME NEW changed \in SUBSET Tensors, NEW save \in BOOLEAN, Train(changed, save) PROVE UNCHANGED dirs
  BY <1>8 DEF Train
<1> QED  BY <1>1, <1>2, <1>3, <1>4, <1>5, <1>6, <1>7, <1>8 DEF Next

THEOREM PublishedKept == ASSUME Delta PROVE Spec => [][PublishedStep]_vars
<1>1. IInv /\ [Next]_vars => [PublishedStep]_vars
  BY StepKeepsPublished
<1> QED  BY <1>1, Invariance, PTL DEF Spec
=============================================================================
