-------------------------- MODULE VllmRolloutProofs --------------------------
(***************************************************************************)
(* Proofs about VllmRollout: what a rollout returns can be trained on, an  *)
(* abort reaches every request, no prefix is thrown away, and a rollout    *)
(* that waits has enough groups under way.                                 *)
(***************************************************************************)
EXTENDS VllmRollout, FiniteSetTheorems, TLAPS

-----------------------------------------------------------------------------
(* The inductive invariant *)

Samples == [status : {"pending", "aborted", "finished"}, made : Seq(Nat), mask : Seq({0, 1}),
            scored : BOOLEAN]
Stages  == {"none", "queued", "sent", "cut", "cancelled", "scoring", "done", "failed"}
Tasks   == {"none", "created", "waiting", "scoring", "done", "failed"}
Calls   == {"idle", "sampling", "waiting", "taking", "abort", "pause", "gather", "drain", "undo",
            "return", "train", "failed", "publish"}

TypeOK ==
    /\ conf \in Conf
    /\ buffer \subseteq Groups /\ pendings \subseteq Groups /\ done \subseteq Groups
    /\ data \subseteq Groups /\ kept \subseteq Groups /\ leftover \subseteq Groups
    /\ sample \in [Groups -> [Index -> Samples]]
    /\ stage \in [Groups -> [Index -> Stages]]
    /\ task \in [Groups -> Tasks]
    /\ remaining \in Int /\ active \in Int /\ cancellable \subseteq Groups \X Index
    /\ aborted \in BOOLEAN /\ paused \in BOOLEAN
    /\ call \in Calls /\ version \in Nat /\ rollout \in Nat /\ restarts \in Nat
    /\ rejects \in Nat /\ faults \in Nat

(* The batch is complete and no step changes it any more.                     *)
Chosen == call \in {"pause", "gather", "drain", "return", "train"}

(* A group is in one place; the places that outlive no call are empty between *)
(* calls, a rollout that returns leaves nothing under way, and one that       *)
(* raises only what is noted down as left behind.                             *)
OnePlace ==
    /\ buffer \cap (pendings \cup done \cup data \cup kept) = {}
    /\ pendings \cap (done \cup data \cup kept) = {}
    /\ done \cap (data \cup kept) = {} /\ data \cap kept = {}
    /\ done # {} => call = "taking"
    /\ data # {} => call \notin {"idle", "failed", "publish"}
    /\ kept # {} => call \in {"drain", "undo", "return"}
    /\ pendings # {} => call \notin {"return", "train"}
    /\ call = "publish" => pendings \subseteq leftover

(* How far the task of a group is, by the place of the group.                 *)
Tasked ==
    \A g \in Groups :
        /\ g \in pendings => task[g] # "none"
        /\ g \in done => task[g] \in {"done", "failed"}
        /\ g \in buffer \cup data \cup kept => task[g] = "done"
        /\ g \notin Held => task[g] \in {"none", "done", "failed"}

(* How far its samples are, by the task of the group.  A group whose task     *)
(* does not run has no sample that does: all have gone through a rollout, or  *)
(* none has.                                                                  *)
Back(g)  == \A i \in Index : stage[g][i] = "done" /\ Whole(sample[g][i])
New(g)   == \A i \in Index : stage[g][i] \in {"none", "done", "failed"} /\ sample[g][i] = Fresh
Staged ==
    \A g \in Groups :
        /\ task[g] \in {"created", "done"} => Back(g) \/ New(g)
        /\ g \in buffer \cup kept => Back(g)
        /\ task[g] = "waiting" => \A i \in Index :
              /\ stage[g][i] # "none"
              /\ stage[g][i] = "done" => Whole(sample[g][i])
              /\ stage[g][i] = "scoring" => Finished(sample[g][i]) /\ ~conf.groupRm
        /\ task[g] = "scoring" => conf.groupRm /\ \A i \in Index : stage[g][i] = "done"

(* Without an abort a task ends with every sample finished and scored, but    *)
(* for samples that a publication stopped: their group was left behind.       *)
Ours(g)     == g \in (pendings \cup done \cup data) \ leftover
Through(g, s) == Finished(s) \/ (g \in leftover /\ s.status = "aborted")
Complete(g) == \A i \in Index :
    stage[g][i] = "done" /\ Through(g, sample[g][i]) /\ (Finished(sample[g][i]) => sample[g][i].scored)
Completed ==
    /\ ~aborted =>
          \A g \in Groups :
              /\ g \in pendings \cup done \cup data /\ task[g] = "done" => Complete(g)
              /\ task[g] \in {"waiting", "scoring"} => \A i \in Index :
                    stage[g][i] \in {"done", "scoring"} => Through(g, sample[g][i])
    /\ Chosen => \A g \in data : Complete(g)

(* Masks.  Between rollouts every token is older than the weights; once the   *)
(* task of a group runs, the mask tells the old tokens from the new.          *)
OffPolicy(c) == c.partial /\ c.masking
Counts(s, t) == s.mask = <<>> \/ s.mask[t] = 1
MaskFits(s, c, v) ==
    /\ Len(s.made) <= MaxTokens
    /\ s.mask = <<>> \/ Len(s.mask) = Len(s.made)
    /\ \A t \in 1..Len(s.made) : s.made[t] <= v /\ (~OffPolicy(c) => Counts(s, t))
Old(s, v) == \A t \in 1..Len(s.made) : s.made[t] < v
OnPolicy(s, c, v) == \A t \in 1..Len(s.made) : Counts(s, t) <=> ~OffPolicy(c) \/ s.made[t] = v
Masked ==
    \A g \in Groups, i \in Index :
        LET s == sample[g][i] IN
        /\ MaskFits(s, conf, version)
        /\ (g \in buffer /\ call \notin {"train", "publish"})
              \/ (g \in pendings \ leftover /\ task[g] = "created") => Old(s, version)
        /\ Ours(g) /\ task[g] \in {"waiting", "scoring"} => OnPolicy(s, conf, version)
        /\ Ours(g) /\ task[g] = "done" /\ (~aborted \/ (Chosen /\ g \in data)) => OnPolicy(s, conf, version)

(* What the flag of an abort covers.                                          *)
Flagged ==
    /\ call \in {"pause", "gather", "drain", "undo", "return"} => aborted
    /\ paused => aborted /\ call # "return"
    /\ ~aborted \/ call \in {"drain", "return"} => \A g \in Groups, i \in Index : stage[g][i] # "cancelled"
    /\ \A g \in Groups, i \in Index : <<g, i>> \in cancellable => stage[g][i] \in {"sent", "cut"}
    /\ \A g \in Groups, i \in Index : stage[g][i] = "cut" => ~Ours(g)
    /\ ~conf.streaming => cancellable = {} /\ \A g \in Groups, i \in Index : stage[g][i] # "cancelled"
    /\ conf.streaming => active = 0 /\ ~paused /\ call # "pause"

(* Without a fault the requests are those that GenerateState knows of.        *)
Sent == {x \in Groups \X Index : stage[x[1]][x[2]] = "sent"}
Requested ==
    faults = 0 =>
        /\ restarts = 0 /\ call \notin {"undo", "failed"}
        /\ aborted => call \in {"pause", "gather", "drain", "return"}
        /\ \A g \in Groups :
              /\ task[g] # "failed"
              /\ \A i \in Index :
                    /\ stage[g][i] \notin {"cut", "failed"}
                    /\ stage[g][i] \in {"queued", "sent", "cancelled", "scoring"} => task[g] = "waiting"
                    /\ stage[g][i] = "sent" /\ conf.streaming => <<g, i>> \in cancellable
        /\ ~conf.streaming => active = Cardinality(Sent)
        /\ call \in {"gather", "drain"} /\ ~paused => Sent = {}

(* The count of available groups, as long as no rollout has failed.           *)
Counted ==
    /\ Cardinality(data) <= Batch
    /\ call \in {"abort", "undo"} \/ Chosen => Cardinality(data) = Batch
    /\ call = "waiting" => Cardinality(data) < Batch
    /\ restarts = 0 =>
          /\ call \in {"idle", "train", "publish"} => remaining = 0 /\ pendings = {}
          /\ call \in {"sampling", "waiting", "taking"} /\ Cardinality(data) < Batch =>
                remaining = Cardinality(pendings) + Cardinality(done) + Cardinality(data)
          /\ call = "waiting" => remaining >= Batch

IInv ==
    /\ TypeOK /\ OnePlace /\ Tasked /\ Staged /\ Completed /\ Masked /\ Flagged /\ Requested
    /\ Counted

-----------------------------------------------------------------------------
(* Lemmas about the operators of the model *)

(* The constants.                                                             *)
LEMMA Constants ==
    /\ Batch \in Nat \ {0} /\ Over \in Nat \ {0} /\ MaxTokens \in Nat \ {0} /\ Index # {}
    /\ IsFiniteSet(Groups) /\ IsFiniteSet(Index)
BY RolloutAssumption

(* Subsets of the groups are finite and have a size.                          *)
LEMMA Sizes == \A S \in SUBSET Groups : IsFiniteSet(S) /\ Cardinality(S) \in Nat
BY Constants, FS_Subset, FS_CardinalityType

(* There are finitely many requests.                                          *)
LEMMA SentFinite == IsFiniteSet(Sent)
<1>1. IsFiniteSet(Groups \X Index)
  BY Constants, FS_Product
<1> QED  BY <1>1, FS_Subset DEF Sent

(* The sizes of disjoint sets of groups add up.                               *)
LEMMA DisjointSizes ==
    ASSUME NEW S \in SUBSET Groups, NEW T \in SUBSET Groups, S \cap T = {}
    PROVE  Cardinality(S \cup T) = Cardinality(S) + Cardinality(T)
<1>1. IsFiniteSet(S) /\ IsFiniteSet(T) /\ Cardinality(S) \in Nat /\ Cardinality(T) \in Nat
  BY Sizes
<1>2. Cardinality(S \cup T) = Cardinality(S) + Cardinality(T) - Cardinality(S \cap T)
  BY <1>1, FS_Union
<1>3. Cardinality(S \cap T) = 0
  BY FS_EmptySet
<1> QED  BY <1>1, <1>2, <1>3

(* The smaller of two numbers.                                                *)
LEMMA MinOfTwo ==
    ASSUME NEW a \in Nat, NEW b \in Nat
    PROVE  Min({a, b}) = IF a <= b THEN a ELSE b
<1> DEFINE Least(x) == \A y \in {a, b} : x <= y
           m == IF a <= b THEN a ELSE b
<1>1. Min({a, b}) = CHOOSE x \in {a, b} : Least(x)
  BY DEF Min
<1>2. m \in {a, b} /\ Least(m) /\ \A x \in {a, b} : Least(x) => x = m
  OBVIOUS
<1> HIDE DEF Least, m
<1>3. Min({a, b}) = m
  BY <1>1, <1>2
<1> QED  BY <1>3 DEF m

(* Fields of the samples and places of the tasks.                             *)
LEMMA SampleTypes ==
    ASSUME NEW s \in Samples
    PROVE  /\ s.status \in {"pending", "aborted", "finished"} /\ s.scored \in BOOLEAN
           /\ s.made \in Seq(Nat) /\ s.mask \in Seq({0, 1})
           /\ Len(s.made) \in Nat /\ Len(s.mask) \in Nat
           /\ \A t \in 1..Len(s.made) : s.made[t] \in Nat
           /\ \A t \in 1..Len(s.mask) : s.mask[t] \in {0, 1}
BY DEF Samples

(* The task of a group, and its samples.                                      *)
LEMMA TaskTypes ==
    ASSUME TypeOK, NEW g \in Groups
    PROVE  /\ task[g] \in Tasks
           /\ \A i \in Index : sample[g][i] \in Samples /\ stage[g][i] \in Stages
BY DEF TypeOK

(* A fresh sample.                                                            *)
LEMMA FreshSample ==
    ASSUME version \in Nat
    PROVE  /\ Fresh \in Samples /\ Fresh.made = <<>> /\ ~Finished(Fresh) /\ MaskFits(Fresh, conf, version)
           /\ Old(Fresh, version) /\ OnPolicy(Fresh, conf, version) /\ Whole(Fresh) /\ Fresh.status = "pending"
<1>1. Fresh.made = <<>> /\ Fresh.mask = <<>> /\ Fresh.status = "pending" /\ Fresh.scored = FALSE
  BY DEF Fresh
<1>2. <<>> \in Seq(Nat) /\ <<>> \in Seq({0, 1}) /\ Len(<<>>) = 0
  OBVIOUS
<1>3. Fresh \in Samples
  BY <1>2 DEF Fresh, Samples
<1>4. \A t \in 1..Len(Fresh.made) : FALSE
  BY <1>1, <1>2
<1> HIDE DEF Fresh
<1> QED  BY <1>1, <1>2, <1>3, <1>4, Constants DEF Finished, MaskFits, Old, OnPolicy, Whole

(* n times x.                                                                 *)
LEMMA Repeated ==
    ASSUME NEW S, NEW x \in S, NEW n \in Nat
    PROVE  Repeat(x, n) \in Seq(S) /\ Len(Repeat(x, n)) = n /\ \A t \in 1..n : Repeat(x, n)[t] = x
<1> DEFINE r == [k \in 1..n |-> x]
<1>1. r \in [1..n -> S]
  OBVIOUS
<1>2. r \in Seq(S)
  BY <1>1 DEF Seq
<1>3. Len(r) = n
  BY <1>2
<1> QED  BY <1>2, <1>3 DEF Repeat

(* A mask is a sequence of numbers.                                           *)
LEMMA BitsAreNumbers == \A a \in Seq({0, 1}) : a \in Seq(Nat)
<1> SUFFICES ASSUME NEW a \in Seq({0, 1}) PROVE a \in Seq(Nat)
  OBVIOUS
<1>1. a \in [1..Len(a) -> {0, 1}] /\ Len(a) \in Nat
  OBVIOUS
<1>2. a \in [1..Len(a) -> Nat]
  BY <1>1
<1> QED  BY <1>1, <1>2 DEF Seq

(* The end of a sequence that was appended to.                                *)
LEMMA Appended ==
    ASSUME NEW a \in Seq(Nat), NEW x \in Nat, NEW n \in Nat
    PROVE  /\ a \o Repeat(x, n) \in Seq(Nat) /\ Len(a \o Repeat(x, n)) = Len(a) + n
           /\ \A t \in 1..Len(a) : (a \o Repeat(x, n))[t] = a[t]
           /\ \A t \in 1..(Len(a) + n) : t \notin 1..Len(a) => (a \o Repeat(x, n))[t] = x
<1> DEFINE r == Repeat(x, n)
<1>1. r \in Seq(Nat) /\ Len(r) = n /\ \A t \in 1..n : r[t] = x
  <2> DEFINE S == Nat
  <2>1. x \in S
    OBVIOUS
  <2> HIDE DEF S
  <2>2. Repeat(x, n) \in Seq(S) /\ Len(Repeat(x, n)) = n /\ \A t \in 1..n : Repeat(x, n)[t] = x
    BY <2>1, Repeated
  <2> QED  BY <2>2 DEF S
<1> HIDE DEF r
<1>2. a \o r \in Seq(Nat) /\ Len(a \o r) = Len(a) + n
  BY <1>1, SMTT(20)
<1>3. \A t \in 1..(Len(a) + n) : (a \o r)[t] = IF t <= Len(a) THEN a[t] ELSE r[t - Len(a)]
  BY <1>1
<1>4. ASSUME NEW t \in 1..(Len(a) + n), t \notin 1..Len(a) PROVE (a \o r)[t] = x
  <2>1. t - Len(a) \in 1..n /\ ~(t <= Len(a))
    BY <1>4
  <2> QED  BY <1>1, <1>3, <2>1
<1>5. \A t \in 1..Len(a) : t \in 1..(Len(a) + n) /\ t <= Len(a)
  OBVIOUS
<1> QED  BY <1>2, <1>3, <1>4, <1>5 DEF r

(* The same, for what was appended alone.                                     *)
LEMMA AppendedEnd ==
    ASSUME NEW a \in Seq(Nat), NEW x \in Nat, NEW n \in Nat
    PROVE  \A t \in 1..(Len(a) + n) : t \notin 1..Len(a) => (a \o Repeat(x, n))[t] = x
BY Appended

(* What a prefix is, item by item.                                            *)
LEMMA LongerSequence ==
    ASSUME NEW a \in Seq(Nat), NEW b \in Seq(Nat), Len(a) <= Len(b), \A t \in 1..Len(a) : b[t] = a[t]
    PROVE  IsPrefix(a, b)
<1>1. SubSeq(a, 1, Len(a)) = [t \in 1..Len(a) |-> a[t]]
  OBVIOUS
<1>2. SubSeq(b, 1, Len(a)) = [t \in 1..Len(a) |-> b[t]]
  OBVIOUS
<1> QED  BY <1>1, <1>2 DEF IsPrefix

(* A sequence is its own prefix.                                              *)
LEMMA SameSequence == \A a \in Seq(Nat) : IsPrefix(a, a)
BY LongerSequence

(* The mask the batch builder uses has the length of the response.            *)
LEMMA MaskUsed ==
    ASSUME NEW s \in Samples, MaskFits(s, conf, version)
    PROVE  /\ LossMask(s) \in Seq({0, 1}) /\ Len(LossMask(s)) = Len(s.made)
           /\ \A t \in 1..Len(s.made) : LossMask(s)[t] = IF Counts(s, t) THEN 1 ELSE 0
<1>1. CASE s.mask = <<>>
  <2>1. LossMask(s) = Repeat(1, Len(s.made)) /\ Len(s.made) \in Nat
    BY <1>1, SampleTypes DEF LossMask
  <2>2. \A t \in 1..Len(s.made) : Counts(s, t)
    BY <1>1 DEF Counts
  <2>3. 1 \in {0, 1}
    OBVIOUS
  <2>4. /\ Repeat(1, Len(s.made)) \in Seq({0, 1}) /\ Len(Repeat(1, Len(s.made))) = Len(s.made)
        /\ \A t \in 1..Len(s.made) : Repeat(1, Len(s.made))[t] = 1
    BY <2>1, <2>3, Repeated
  <2> QED  BY <2>1, <2>2, <2>4
<1>2. CASE s.mask # <<>>
  <2>1. LossMask(s) = s.mask /\ Len(s.mask) = Len(s.made)
    BY <1>2 DEF LossMask, MaskFits
  <2>2. \A t \in 1..Len(s.mask) : s.mask[t] \in {0, 1}
    BY SampleTypes
  <2>3. \A t \in 1..Len(s.made) : Counts(s, t) <=> s.mask[t] = 1
    BY <1>2 DEF Counts
  <2> QED  BY <2>1, <2>2, <2>3, SampleTypes
<1> QED  BY <1>1, <1>2

(* What a sample s may become when a request answers.                         *)
Extends(s, r) ==
    /\ r \in Samples /\ MaskFits(r, conf, version) /\ r.scored = s.scored
    /\ OnPolicy(s, conf, version) => OnPolicy(r, conf, version)
    /\ IsPrefix(s.made, r.made)

(* The common part of AppendResponse and AppendChunk: n tokens of the current *)
(* weights follow, and the mask, if there is one, counts them.                *)
LEMMA TokensFollow ==
    ASSUME version \in Nat, NEW s \in Samples, MaskFits(s, conf, version), NEW n \in Nat, n <= Left(s),
           NEW r \in Samples, r.scored = s.scored, r.made = s.made \o Repeat(version, n),
           r.mask = <<>> \/ r.mask = LossMask(s) \o Repeat(1, n),
           r.mask = <<>> => s.mask = <<>> \/ (n = 0 /\ r.mask = s.mask)
    PROVE  Extends(s, r)
<1>1. /\ Len(r.made) = Len(s.made) + n /\ Len(r.made) <= MaxTokens
      /\ \A t \in 1..Len(s.made) : r.made[t] = s.made[t]
      /\ \A t \in 1..Len(r.made) : t \notin 1..Len(s.made) => r.made[t] = version
  <2>1. s.made \in Seq(Nat) /\ Len(s.made) \in Nat
    BY SampleTypes
  <2>2. /\ Len(r.made) = Len(s.made) + n
        /\ \A t \in 1..Len(s.made) : r.made[t] = s.made[t]
        /\ \A t \in 1..(Len(s.made) + n) : t \notin 1..Len(s.made) => r.made[t] = version
    <3> DEFINE a == s.made
               v == version
    <3>1. a \in Seq(Nat) /\ v \in Nat /\ r.made = a \o Repeat(v, n)
      BY <2>1
    <3> HIDE DEF a, v
    <3>2. Len(a \o Repeat(v, n)) = Len(a) + n
      BY <3>1, Appended
    <3>3. \A t \in 1..Len(a) : (a \o Repeat(v, n))[t] = a[t]
      BY <3>1, Appended
    <3>4. \A t \in 1..(Len(a) + n) : t \notin 1..Len(a) => (a \o Repeat(v, n))[t] = v
      BY <3>1, Appended
    <3> QED  BY <3>1, <3>2, <3>3, <3>4 DEF a, v
  <2>3. Len(s.made) + n <= MaxTokens
    BY <2>1, Constants DEF Left
  <2> QED  BY <2>2, <2>3
<1>2. \A t \in 1..Len(s.made) : s.made[t] \in Nat /\ s.made[t] <= version /\ (~OffPolicy(conf) => Counts(s, t))
  BY SampleTypes DEF MaskFits
<1>3. /\ r.mask = <<>> \/ Len(r.mask) = Len(r.made)
      /\ \A t \in 1..Len(s.made) : Counts(r, t) <=> Counts(s, t)
      /\ \A t \in 1..Len(r.made) : t \notin 1..Len(s.made) => Counts(r, t)
  <2>1. CASE r.mask = <<>>
    <3>1. \A t : Counts(r, t)
      BY <2>1 DEF Counts
    <3>2. \A t : Counts(s, t)
      BY <2>1 DEF Counts
    <3> QED  BY <2>1, <3>1, <3>2
  <2>2. CASE r.mask # <<>>
    <3>1. r.mask = LossMask(s) \o Repeat(1, n)
      BY <2>2
    <3>2. LossMask(s) \in Seq(Nat) /\ Len(LossMask(s)) = Len(s.made)
      BY MaskUsed, BitsAreNumbers
    <3>3. /\ Len(r.mask) = Len(s.made) + n
          /\ \A t \in 1..Len(s.made) : r.mask[t] = LossMask(s)[t]
          /\ \A t \in 1..(Len(s.made) + n) : t \notin 1..Len(s.made) => r.mask[t] = 1
      <4> DEFINE m == LossMask(s)
                 one == 1
      <4>1. m \in Seq(Nat) /\ one \in Nat /\ Len(m) = Len(s.made) /\ r.mask = m \o Repeat(one, n)
        BY <3>1, <3>2
      <4> HIDE DEF m, one
      <4>2. Len(m \o Repeat(one, n)) = Len(m) + n
        BY <4>1, Appended
      <4>3. \A t \in 1..Len(m) : (m \o Repeat(one, n))[t] = m[t]
        BY <4>1, Appended
      <4>4. \A t \in 1..(Len(m) + n) : t \notin 1..Len(m) => (m \o Repeat(one, n))[t] = one
        BY <4>1, AppendedEnd
      <4> QED  BY <4>1, <4>2, <4>3, <4>4 DEF m, one
    <3>4. \A t \in 1..Len(s.made) : r.mask[t] = IF Counts(s, t) THEN 1 ELSE 0
      BY <3>3, MaskUsed
    <3>5. \A t : Counts(r, t) <=> r.mask[t] = 1
      BY <2>2 DEF Counts
    <3>6. r.mask = <<>> \/ Len(r.mask) = Len(r.made)
      BY <1>1, <3>3
    <3>7. ASSUME NEW t \in 1..Len(s.made) PROVE Counts(r, t) <=> Counts(s, t)
      <4>1. r.mask[t] = IF Counts(s, t) THEN 1 ELSE 0
        BY <3>4
      <4>2. Counts(r, t) <=> r.mask[t] = 1
        BY <3>5
      <4> QED  BY <4>1, <4>2
    <3>8. \A t \in 1..Len(r.made) : t \notin 1..Len(s.made) => Counts(r, t)
      BY <1>1, <3>3, <3>5
    <3> QED  BY <3>6, <3>7, <3>8
  <2> QED  BY <2>1, <2>2
<1>4. \A t \in 1..Len(r.made) : r.made[t] <= version /\ (~OffPolicy(conf) => Counts(r, t))
  BY <1>1, <1>2, <1>3
<1>5. MaskFits(r, conf, version)
  BY <1>1, <1>3, <1>4 DEF MaskFits
<1>6. ASSUME OnPolicy(s, conf, version), NEW t \in 1..Len(r.made)
      PROVE Counts(r, t) <=> ~OffPolicy(conf) \/ r.made[t] = version
  <2>1. CASE t \in 1..Len(s.made)
    BY <1>1, <1>3, <1>6, <2>1 DEF OnPolicy
  <2>2. CASE t \notin 1..Len(s.made)
    BY <1>1, <1>3, <2>2
  <2> QED  BY <2>1, <2>2
<1>7. OnPolicy(s, conf, version) => OnPolicy(r, conf, version)
  BY <1>6 DEF OnPolicy
<1>8. IsPrefix(s.made, r.made)
  <2> DEFINE a == s.made
             b == r.made
  <2>1. a \in Seq(Nat) /\ b \in Seq(Nat)
    BY SampleTypes
  <2>2. Len(a) <= Len(b)
    BY <1>1, <2>1
  <2>3. \A t \in 1..Len(a) : b[t] = a[t]
    BY <1>1
  <2> HIDE DEF a, b
  <2>4. IsPrefix(a, b)
    BY <2>1, <2>2, <2>3, LongerSequence
  <2> QED  BY <2>4 DEF a, b
<1> QED  BY <1>1, <1>5, <1>7, <1>8 DEF Extends

(* append_response_tokens with a whole response.                              *)
LEMMA ResponseExtends ==
    ASSUME version \in Nat, NEW s \in Samples, MaskFits(s, conf, version), NEW n \in Nat, n <= Left(s),
           NEW status \in {"pending", "aborted", "finished"}
    PROVE  LET r == AppendResponse(s, n, status) IN Extends(s, r) /\ r.status = status
<1> DEFINE made == s.made \o Repeat(version, n)
           mask == IF n = 0 THEN s.mask ELSE LossMask(s) \o Repeat(1, n)
           r == AppendResponse(s, n, status)
<1>1. r = [s EXCEPT !.made = made, !.status = status, !.mask = mask]
  BY DEF AppendResponse
<1>2. made \in Seq(Nat)
  BY SampleTypes, Appended
<1>3. 1 \in {0, 1} /\ LossMask(s) \in Seq({0, 1})
  BY MaskUsed
<1>4. mask \in Seq({0, 1})
  <2>1. Repeat(1, n) \in Seq({0, 1})
    BY <1>3, Repeated
  <2> QED  BY <1>3, <2>1, SampleTypes
<1> HIDE DEF made, mask, r
<1>5. r \in Samples /\ r.scored = s.scored /\ r.made = made /\ r.mask = mask /\ r.status = status
  BY <1>1, <1>2, <1>4 DEF Samples
<1>6. n = 0 => mask = <<>> \/ mask = LossMask(s) \o Repeat(1, n)
  <2>1. ASSUME n = 0, s.mask # <<>> PROVE s.mask = LossMask(s) \o Repeat(1, n)
    <3>1. LossMask(s) = s.mask
      BY <2>1 DEF LossMask
    <3>2. Repeat(1, n) \in Seq({0, 1}) /\ Len(Repeat(1, n)) = 0
      BY <1>3, <2>1, Repeated
    <3> QED  BY <3>1, <3>2, SampleTypes
  <2> QED  BY <2>1 DEF mask
<1>7. n # 0 => mask # <<>>
  <2>1. Len(LossMask(s) \o Repeat(1, n)) = Len(LossMask(s)) + n
    BY <1>3, BitsAreNumbers, Appended
  <2>2. Len(LossMask(s)) \in Nat /\ Len(<<>>) = 0
    BY <1>3
  <2> QED  BY <2>1, <2>2 DEF mask
<1>8. mask = <<>> \/ mask = LossMask(s) \o Repeat(1, n)
  BY <1>6 DEF mask
<1>9. mask = <<>> => s.mask = <<>> \/ (n = 0 /\ mask = s.mask)
  BY <1>7 DEF mask
<1>10. Extends(s, r)
  BY <1>5, <1>8, <1>9, TokensFollow DEF made
<1> QED  BY <1>5, <1>10 DEF r

(* append_response_tokens with a chunk of a stream.                           *)
LEMMA ChunkExtends ==
    ASSUME version \in Nat, NEW s \in Samples, MaskFits(s, conf, version), NEW n \in Nat, n <= Left(s),
           NEW status \in {"pending", "aborted", "finished"}
    PROVE  LET r == AppendChunk(s, n, status) IN Extends(s, r) /\ r.status = status
<1> DEFINE made == s.made \o Repeat(version, n)
           mask == IF s.mask = <<>> THEN s.mask ELSE s.mask \o Repeat(1, n)
           r == AppendChunk(s, n, status)
<1>1. r = [s EXCEPT !.made = made, !.status = status, !.mask = mask]
  BY DEF AppendChunk
<1>2. made \in Seq(Nat)
  BY SampleTypes, Appended
<1>3. 1 \in {0, 1}
  OBVIOUS
<1>4. mask \in Seq({0, 1})
  <2>1. Repeat(1, n) \in Seq({0, 1})
    BY <1>3, Repeated
  <2> QED  BY <1>3, <2>1, SampleTypes
<1> HIDE DEF made, mask, r
<1>5. r \in Samples /\ r.scored = s.scored /\ r.made = made /\ r.mask = mask /\ r.status = status
  BY <1>1, <1>2, <1>4 DEF Samples
<1>6. mask = <<>> \/ mask = LossMask(s) \o Repeat(1, n)
  BY DEF mask, LossMask
<1>7. s.mask # <<>> => mask # <<>>
  <2>1. ASSUME s.mask # <<>> PROVE Len(s.mask \o Repeat(1, n)) > 0
    <3>1. Len(s.mask) > 0
      BY <2>1, SampleTypes
    <3> QED  BY <1>3, <3>1, SampleTypes, BitsAreNumbers, Appended
  <2> QED  BY <2>1 DEF mask
<1>8. Extends(s, r)
  BY <1>5, <1>6, <1>7, TokensFollow DEF made
<1> QED  BY <1>5, <1>8 DEF r

(* A sample whose status or reward alone changes.                             *)
LEMMA StatusExtends ==
    ASSUME NEW s \in Samples, MaskFits(s, conf, version), NEW status \in {"pending", "aborted", "finished"}
    PROVE  LET r == [s EXCEPT !.status = status] IN Extends(s, r) /\ r.status = status
<1> DEFINE r == [s EXCEPT !.status = status]
<1>1. /\ r \in Samples /\ r.made = s.made /\ r.mask = s.mask /\ r.scored = s.scored
      /\ r.status = status
  BY DEF Samples
<1> HIDE DEF r
<1>2. \A t : Counts(r, t) <=> Counts(s, t)
  BY <1>1 DEF Counts
<1>3. MaskFits(r, conf, version) /\ (OnPolicy(s, conf, version) => OnPolicy(r, conf, version))
  BY <1>1, <1>2 DEF MaskFits, OnPolicy
<1>4. IsPrefix(s.made, r.made)
  BY <1>1, SampleTypes, SameSequence
<1> QED  BY <1>1, <1>3, <1>4 DEF Extends, r

(* A sample that gets its reward.                                             *)
LEMMA ScoredSample ==
    ASSUME NEW s \in Samples, MaskFits(s, conf, version)
    PROVE  LET r == [s EXCEPT !.scored = TRUE]
           IN  /\ r \in Samples /\ r.scored /\ r.status = s.status /\ r.made = s.made /\ r.mask = s.mask
               /\ MaskFits(r, conf, version) /\ (OnPolicy(s, conf, version) => OnPolicy(r, conf, version))
<1> DEFINE r == [s EXCEPT !.scored = TRUE]
<1>1. /\ r \in Samples /\ r.made = s.made /\ r.mask = s.mask /\ r.scored
      /\ r.status = s.status
  BY DEF Samples
<1> HIDE DEF r
<1>2. \A t : Counts(r, t) <=> Counts(s, t)
  BY <1>1 DEF Counts
<1>3. MaskFits(r, conf, version) /\ (OnPolicy(s, conf, version) => OnPolicy(r, conf, version))
  BY <1>1, <1>2 DEF MaskFits, OnPolicy
<1> QED  BY <1>1, <1>3 DEF r

(* MaskOld leaves everything but the mask, and makes old tokens count for     *)
(* nothing if the configuration says so.                                      *)
LEMMA OldMasked ==
    ASSUME NEW s \in Samples, MaskFits(s, conf, version)
    PROVE  LET r == MaskOld(s)
           IN  /\ r \in Samples /\ r.status = s.status /\ r.scored = s.scored /\ r.made = s.made
               /\ MaskFits(r, conf, version) /\ (version \in Nat /\ Old(s, version) => OnPolicy(r, conf, version))
<1> DEFINE r == MaskOld(s)
<1>0. Len(s.made) \in Nat /\ 0 \in {0, 1}
  BY SampleTypes
<1>1. CASE OffPolicy(conf) /\ s.made # <<>>
  <2> DEFINE mask == Repeat(0, Len(s.made))
  <2>1. mask \in Seq({0, 1}) /\ Len(mask) = Len(s.made) /\ \A t \in 1..Len(s.made) : mask[t] = 0
    BY <1>0, Repeated
  <2>2. r = [s EXCEPT !.mask = mask]
    BY <1>1 DEF MaskOld, OffPolicy
  <2> HIDE DEF mask, r
  <2>3. r \in Samples /\ r.made = s.made /\ r.mask = mask /\ r.scored = s.scored /\ r.status = s.status
    BY <2>1, <2>2 DEF Samples
  <2>4. \A t \in 1..Len(s.made) : ~Counts(r, t)
    <3>1. Len(s.made) > 0
      BY <1>1, SampleTypes
    <3>2. mask # <<>>
      BY <2>1, <3>1
    <3> QED  BY <2>1, <2>3, <3>2 DEF Counts
  <2>5. MaskFits(r, conf, version)
    BY <1>1, <2>1, <2>3 DEF MaskFits
  <2>6. ASSUME version \in Nat, Old(s, version) PROVE OnPolicy(r, conf, version)
    <3>1. \A t \in 1..Len(s.made) : s.made[t] # version
      BY <2>6, SampleTypes DEF Old
    <3> QED  BY <1>1, <2>3, <2>4, <3>1 DEF OnPolicy
  <2> QED  BY <2>3, <2>5, <2>6 DEF r
<1>2. CASE ~(OffPolicy(conf) /\ s.made # <<>>)
  <2>1. r = s
    BY <1>2 DEF MaskOld, OffPolicy
  <2>2. ASSUME version \in Nat, Old(s, version) PROVE OnPolicy(s, conf, version)
    <3>1. CASE OffPolicy(conf)
      <4>1. Len(s.made) = 0
        BY <1>2, <3>1
      <4>2. \A t \in 1..Len(s.made) : FALSE
        BY <4>1
      <4> QED  BY <4>2 DEF OnPolicy
    <3>2. CASE ~OffPolicy(conf)
      BY <3>2 DEF OnPolicy, MaskFits
    <3> QED  BY <3>1, <3>2
  <2> QED  BY <2>1, <2>2
<1> QED  BY <1>1, <1>2

(* Newer weights make every token an old one.                                 *)
LEMMA NewerWeights ==
    ASSUME NEW v \in Nat, NEW s \in Samples, MaskFits(s, conf, v)
    PROVE  /\ MaskFits(s, conf, v + 1) /\ Old(s, v + 1)
           /\ Old(s, v) => Old(s, v + 1)
<1>1. \A t \in 1..Len(s.made) : s.made[t] \in Nat /\ s.made[t] <= v
  BY SampleTypes DEF MaskFits
<1>2. \A t \in 1..Len(s.made) : s.made[t] <= v + 1 /\ s.made[t] < v + 1
  BY <1>1
<1> QED  BY <1>2 DEF MaskFits, Old

-----------------------------------------------------------------------------
(* The steps *)

(* Stages of a sample whose task runs.                                        *)
Working == {"queued", "sent", "cut", "cancelled", "scoring"}

(* Stages of a request under way.                                             *)
Open == {"sent", "cut"}

(* A task whose samples are at work is under way, and no group that is in the *)
(* buffer, in the batch or put aside has one.                                 *)
LEMMA AtWork ==
    ASSUME IInv, NEW g \in Groups, NEW i \in Index, stage[g][i] \in Working
    PROVE  /\ task[g] \notin {"created", "done", "scoring"}
           /\ g \notin buffer \cup kept \cup data
           /\ faults = 0 => task[g] = "waiting" /\ g \in pendings
<1> USE DEF IInv
<1>1. ~Back(g) /\ ~New(g)
  BY DEF Back, New, Working
<1>2. task[g] \notin {"created", "done", "scoring"}
  BY <1>1 DEF Staged, Working
<1>3. g \notin buffer \cup kept \cup data
  BY <1>2 DEF Tasked
<1>4. faults = 0 => task[g] = "waiting"
  BY DEF Requested, Working
<1>5. task[g] = "waiting" => g \in pendings
  BY <1>2 DEF Tasked, Held
<1> QED  BY <1>2, <1>3, <1>4, <1>5

(* No sample loses a token.                                                   *)
Grows == \A g \in Groups, i \in Index : IsPrefix(sample[g][i].made, sample'[g][i].made)

(* The sample becomes s and its task goes on to a stage.                      *)
LEMMA SampleMoves ==
    ASSUME IInv, NEW g \in Groups, NEW i \in Index, NEW s \in Samples,
           NEW to \in {"sent", "scoring", "done", "failed"},
           stage[g][i] \in Working, Set(g, i, s, to),
           UNCHANGED <<conf, buffer, task, pendings, remaining, aborted, paused, version, rolling, rejects>>,
           faults' \in Nat, active' \in Int, cancellable' \subseteq Groups \X Index,
           MaskFits(s, conf, version), IsPrefix(sample[g][i].made, s.made),
           OnPolicy(sample[g][i], conf, version) => OnPolicy(s, conf, version),
           to = "done" => Whole(s),
           to = "scoring" => Finished(s) /\ ~conf.groupRm,
           ~aborted /\ task[g] = "waiting" /\ to \in {"done", "scoring"} => Through(g, s),
           ~conf.streaming => cancellable' = {},
           faults' = 0 => faults = 0 /\ to # "failed",
           faults' = 0 /\ to = "sent" /\ conf.streaming => <<g, i>> \in cancellable',
           cancellable \ {<<g, i>>} \subseteq cancellable', cancellable' \subseteq cancellable \cup {<<g, i>>},
           <<g, i>> \in cancellable' => to = "sent",
           to = "sent" /\ stage[g][i] \notin Open => ~aborted,
           conf.streaming => active' = active,
           ~conf.streaming => active' = active + (IF to = "sent" THEN 1 ELSE 0)
                                               - (IF stage[g][i] \in Open THEN 1 ELSE 0)
    PROVE  IInv' /\ Grows
<1> USE DEF IInv
<1>a. /\ sample' \in [Groups -> [Index -> Samples]] /\ sample'[g][i] = s
      /\ \A h \in Groups, k \in Index : h # g \/ k # i => sample'[h][k] = sample[h][k]
  <2>1. sample' = [sample EXCEPT ![g] = [sample[g] EXCEPT ![i] = s]]
    BY DEF Set
  <2>2. [sample[g] EXCEPT ![i] = s] \in [Index -> Samples]
    BY DEF TypeOK
  <2> QED  BY <2>1, <2>2 DEF TypeOK
<1>b. /\ stage' \in [Groups -> [Index -> Stages]] /\ stage'[g][i] = to
      /\ \A h \in Groups, k \in Index : h # g \/ k # i => stage'[h][k] = stage[h][k]
  <2>1. stage' = [stage EXCEPT ![g] = [stage[g] EXCEPT ![i] = to]]
    BY DEF Set
  <2>2. [stage[g] EXCEPT ![i] = to] \in [Index -> Stages]
    BY DEF TypeOK, Stages
  <2> QED  BY <2>1, <2>2 DEF TypeOK
<1>c. /\ task[g] \notin {"created", "done", "scoring"} /\ g \notin buffer \cup kept \cup data
      /\ faults = 0 => task[g] = "waiting" /\ g \in pendings
  BY AtWork
<1>d. UNCHANGED <<call, done, data, kept, rollout, leftover, restarts>>
  BY DEF rolling
<1>1. TypeOK'
  BY <1>a, <1>b, <1>d DEF TypeOK
<1>2. OnePlace'
  BY <1>d DEF OnePlace
<1>3. Tasked'
  BY <1>d DEF Tasked, Held
<1>4. Staged'
  <2>1. ASSUME NEW h \in Groups, h # g, Back(h) PROVE Back(h)'
    BY <1>a, <1>b, <2>1 DEF Back, Whole
  <2>2. ASSUME NEW h \in Groups, h # g, New(h) PROVE New(h)'
    BY <1>a, <1>b, <2>2 DEF New
  <2>3. ASSUME NEW h \in Groups, task[h] = "waiting", NEW k \in Index
        PROVE  /\ stage'[h][k] # "none"
               /\ stage'[h][k] = "done" => Whole(sample[h][k])'
               /\ stage'[h][k] = "scoring" => Finished(sample'[h][k]) /\ ~conf'.groupRm
    <3>1. CASE h = g /\ k = i
      BY <1>a, <1>b, <3>1 DEF Whole
    <3>2. CASE h # g \/ k # i
      <4>1. sample'[h][k] = sample[h][k] /\ stage'[h][k] = stage[h][k]
        BY <1>a, <1>b, <3>2
      <4>2. /\ stage[h][k] # "none"
            /\ stage[h][k] = "done" => Whole(sample[h][k])
            /\ stage[h][k] = "scoring" => Finished(sample[h][k]) /\ ~conf.groupRm
        BY <2>3 DEF Staged
      <4> QED  BY <4>1, <4>2 DEF Whole, Finished
    <3> QED  BY <3>1, <3>2
  <2> QED  BY <1>b, <1>c, <1>d, <2>1, <2>2, <2>3 DEF Staged
<1>5. Completed'
  <2>1. ASSUME NEW h \in Groups, h # g, Complete(h) PROVE Complete(h)'
    BY <1>a, <1>b, <1>d, <2>1 DEF Complete, Through
  <2>2. ASSUME ~aborted, NEW h \in Groups, task[h] \in {"waiting", "scoring"}, NEW k \in Index,
               stage'[h][k] \in {"done", "scoring"}
        PROVE  Through(h, sample[h][k])'
    <3>1. CASE h = g /\ k = i
      BY <1>a, <1>b, <1>c, <1>d, <2>2, <3>1 DEF Through
    <3>2. CASE h # g \/ k # i
      BY <1>a, <1>b, <1>d, <2>2, <3>2 DEF Completed, Through
    <3> QED  BY <3>1, <3>2
  <2>3. ASSUME ~aborted, NEW h \in pendings \cup done \cup data, h \in Groups, task[h] = "done"
        PROVE Complete(h)'
    BY <1>c, <2>1, <2>3 DEF Completed
  <2>4. ASSUME Chosen, NEW h \in data, h \in Groups PROVE Complete(h)'
    BY <1>c, <2>1, <2>4 DEF Completed
  <2>5. data \subseteq Groups
    BY DEF TypeOK
  <2> QED  BY <1>d, <2>2, <2>3, <2>4, <2>5 DEF Completed, Chosen
<1>6. Masked'
  <2> SUFFICES ASSUME NEW h \in Groups, NEW k \in Index
               PROVE  LET x == sample'[h][k] IN
                      /\ MaskFits(x, conf, version)
                      /\ (h \in buffer /\ call \notin {"train", "publish"})
                            \/ (h \in pendings \ leftover /\ task[h] = "created")
                            => Old(x, version)
                      /\ Ours(h) /\ task[h] \in {"waiting", "scoring"} => OnPolicy(x, conf, version)
                      /\ Ours(h) /\ task[h] = "done" /\ (~aborted \/ (Chosen /\ h \in data))
                            => OnPolicy(x, conf, version)
    BY <1>d DEF Masked, Ours, Chosen
  <2>1. CASE h = g /\ k = i
    BY <1>a, <1>c, <2>1 DEF Masked
  <2>2. CASE h # g \/ k # i
    BY <1>a, <2>2 DEF Masked
  <2> QED  BY <2>1, <2>2
<1>7. Flagged'
  <2>1. ASSUME NEW h \in Groups, NEW k \in Index, <<h, k>> \in cancellable'
        PROVE stage'[h][k] \in Open
    <3>1. CASE h = g /\ k = i
      BY <1>b, <2>1, <3>1 DEF Open
    <3>2. CASE h # g \/ k # i
      <4>1. <<h, k>> \in cancellable
        BY <2>1, <3>2
      <4> QED  BY <1>b, <3>2, <4>1 DEF Flagged, Ours, Open
    <3> QED  BY <3>1, <3>2
  <2>2. \A h \in Groups, k \in Index : stage'[h][k] = "cut" => stage[h][k] = "cut"
    BY <1>b
  <2> QED  BY <1>b, <1>d, <2>1, <2>2 DEF Flagged, Ours, Open
<1>8. Requested'
  <2> SUFFICES ASSUME faults' = 0 PROVE Requested'
    BY DEF Requested
  <2>1. faults = 0 /\ to # "failed" /\ task[g] = "waiting"
    BY <1>c
  <2>2. ASSUME NEW h \in Groups, NEW k \in Index
        PROVE  /\ stage'[h][k] \notin {"cut", "failed"}
               /\ stage'[h][k] \in {"queued", "sent", "cancelled", "scoring"} => task[h] = "waiting"
               /\ stage'[h][k] = "sent" /\ conf.streaming => <<h, k>> \in cancellable'
    <3>1. CASE h = g /\ k = i
      BY <1>b, <2>1, <3>1 DEF Open
    <3>2. CASE h # g \/ k # i
      <4>1. <<h, k>> \in cancellable => <<h, k>> \in cancellable'
        BY <3>2
      <4> QED  BY <1>b, <2>1, <3>2, <4>1 DEF Requested
    <3> QED  BY <3>1, <3>2
  <2>3. Sent' = IF to = "sent" THEN Sent \cup {<<g, i>>} ELSE Sent \ {<<g, i>>}
    <3>1. \A x \in Groups \X Index : x # <<g, i>> => (stage'[x[1]][x[2]] = stage[x[1]][x[2]])
      BY <1>b
    <3>2. Sent' = {x \in Groups \X Index : stage'[x[1]][x[2]] = "sent"}
      BY DEF Sent
    <3>3. <<g, i>> \in Groups \X Index /\ <<g, i>>[1] = g /\ <<g, i>>[2] = i
      OBVIOUS
    <3> QED  BY <1>b, <3>1, <3>2, <3>3 DEF Sent
  <2>4. <<g, i>> \in Sent <=> stage[g][i] \in Open
    <3>1. stage[g][i] # "cut"
      BY <2>1 DEF Requested
    <3> QED  BY <3>1 DEF Sent, Open
  <2>5. IsFiniteSet(Sent)
    BY SentFinite
  <2>6. ~conf.streaming => active' = Cardinality(Sent')
    <3>1. Cardinality(Sent) \in Nat
      BY <2>5, FS_CardinalityType
    <3>2. CASE to = "sent"
      <4>1. Sent' = Sent \cup {<<g, i>>}
        BY <2>3, <3>2
      <4>2. Cardinality(Sent \cup {<<g, i>>}) = IF <<g, i>> \in Sent THEN Cardinality(Sent) ELSE Cardinality(Sent) + 1
        BY <2>5, FS_AddElement
      <4> QED  BY <2>1, <2>4, <3>1, <3>2, <4>1, <4>2 DEF Requested
    <3>3. CASE to # "sent"
      <4>1. Sent' = Sent \ {<<g, i>>}
        BY <2>3, <3>3
      <4>2. Cardinality(Sent \ {<<g, i>>}) = IF <<g, i>> \in Sent THEN Cardinality(Sent) - 1 ELSE Cardinality(Sent)
        BY <2>5, FS_RemoveElement
      <4> QED  BY <2>1, <2>4, <3>1, <3>3, <4>1, <4>2 DEF Requested
    <3> QED  BY <3>2, <3>3
  <2>7. call \in {"gather", "drain"} /\ ~paused => Sent' = {}
    <3> SUFFICES ASSUME call \in {"gather", "drain"}, ~paused PROVE Sent' = {}
      OBVIOUS
    <3>1. Sent = {} /\ aborted
      BY <2>1 DEF Requested, Flagged
    <3> QED  BY <2>3, <2>4, <3>1
  <2> QED  BY <1>d, <2>1, <2>2, <2>6, <2>7 DEF Requested
<1>9. Counted'
  BY <1>d DEF Counted, Chosen
<1>10. Grows
  <2> SUFFICES ASSUME NEW h \in Groups, NEW k \in Index
               PROVE IsPrefix(sample[h][k].made, sample'[h][k].made)
    BY DEF Grows
  <2>1. sample[h][k].made \in Seq(Nat)
    BY SampleTypes DEF TypeOK
  <2> QED  BY <1>a, <2>1, SameSequence
<1> QED  BY <1>1, <1>2, <1>3, <1>4, <1>5, <1>6, <1>7, <1>8, <1>9, <1>10

(* What follows a sample that has ended.                                      *)
LEMMA EndOfGeneration ==
    ASSUME NEW r, r.status \in {"aborted", "finished"}
    PROVE  LET to == AfterGenerate(r)
           IN  /\ to \in {"done", "scoring"}
               /\ to = "done" => Whole(r)
               /\ to = "scoring" => Finished(r) /\ ~conf.groupRm
BY DEF AfterGenerate, Whole, Finished

(* The request of a sample ends with the sample aborted or finished.          *)
LEMMA RequestEnds ==
    ASSUME IInv, NEW g \in Groups, NEW i \in Index, stage[g][i] \in Open \cup {"cancelled"},
           stage[g][i] = "cancelled" => conf.streaming,
           NEW r, Extends(sample[g][i], r), r.status \in {"aborted", "finished"}, ~aborted => Finished(r) \/ stage[g][i] = "cut",
           Set(g, i, r, AfterGenerate(r)), Unregister(g, i),
           UNCHANGED <<task, paused>>, UNCHANGED <<conf, buffer, version, rolling, rejects, faults>>
    PROVE  IInv' /\ Grows
<1> USE DEF IInv
<1> DEFINE to == AfterGenerate(r)
<1>1. /\ to \in {"done", "scoring"} /\ (to = "done" => Whole(r))
      /\ to = "scoring" => Finished(r) /\ ~conf.groupRm
  BY EndOfGeneration
<1>2. /\ r \in Samples /\ MaskFits(r, conf, version) /\ IsPrefix(sample[g][i].made, r.made)
      /\ OnPolicy(sample[g][i], conf, version) => OnPolicy(r, conf, version)
  BY DEF Extends
<1>3. /\ active' = (IF conf.streaming THEN active ELSE active - 1)
      /\ cancellable' = cancellable \ {<<g, i>>} /\ UNCHANGED <<pendings, remaining, aborted>>
  BY DEF Unregister
<1>4. /\ active' \in Int /\ cancellable' \subseteq Groups \X Index /\ faults' \in Nat
      /\ ~conf.streaming => cancellable' = {}
  BY <1>3 DEF TypeOK, Flagged
<1>5. stage[g][i] \in Working
  BY DEF Working, Open
<1>6. /\ conf.streaming => active' = active
      /\ ~conf.streaming => active' = active + 0 - (IF stage[g][i] \in Open THEN 1 ELSE 0)
  BY <1>3 DEF TypeOK, Open
<1>7. ~aborted /\ task[g] = "waiting" => Through(g, r)
  <2>1. ASSUME stage[g][i] = "cut", task[g] = "waiting" PROVE g \in leftover
    BY <2>1 DEF Flagged, Ours, Tasked, Held
  <2> QED  BY <2>1 DEF Through, Finished
<1> HIDE DEF to, IInv
<1>8. Set(g, i, r, to)
  BY DEF to
<1> QED  BY <1>1, <1>2, <1>3, <1>4, <1>5, <1>6, <1>7, <1>8, SampleMoves

(* The sample of a step, and its tokens.                                      *)
LEMMA SampleFits ==
    ASSUME IInv, NEW g \in Groups, NEW i \in Index
    PROVE  /\ sample[g][i] \in Samples /\ MaskFits(sample[g][i], conf, version)
           /\ Left(sample[g][i]) \in Nat /\ version \in Nat
           /\ IsPrefix(sample[g][i].made, sample[g][i].made)
<1> USE DEF IInv
<1>1. sample[g][i] \in Samples /\ MaskFits(sample[g][i], conf, version) /\ version \in Nat
  BY TaskTypes DEF Masked, TypeOK
<1>2. Len(sample[g][i].made) \in Nat
  BY <1>1, SampleTypes
<1>3. IsPrefix(sample[g][i].made, sample[g][i].made)
  <2>1. sample[g][i].made \in Seq(Nat)
    BY <1>1, SampleTypes
  <2> QED  BY <2>1, SameSequence
<1>4. Left(sample[g][i]) \in Nat
  <2> DEFINE n == Len(sample[g][i].made)
  <2>1. n <= MaxTokens
    BY <1>1 DEF MaskFits
  <2>2. n \in Nat /\ MaxTokens \in Nat
    BY <1>2, Constants
  <2> HIDE DEF n, IInv
  <2>3. MaxTokens - n \in Nat
    BY <2>1, <2>2
  <2> QED  BY <2>3 DEF Left, n
<1> QED  BY <1>1, <1>3, <1>4

(* A queued sample sends its request, or ends at once.                        *)
LEMMA AdmitStep ==
    ASSUME IInv, NEW g \in Groups, NEW i \in Index, Admit(g, i),
           UNCHANGED <<conf, buffer, version, rolling, rejects, faults>>
    PROVE  IInv' /\ Grows
<1> DEFINE s == sample[g][i]
<1>1. s \in Samples /\ MaskFits(s, conf, version) /\ IsPrefix(s.made, s.made)
  BY SampleFits
<1>2. stage[g][i] = "queued" /\ stage[g][i] \in Working /\ UNCHANGED <<task, paused>>
  BY DEF Admit, Working
<1>3. CASE aborted \/ Left(s) = 0
  <2> DEFINE r == Turned(s)
             to == AfterGenerate(r)
  <2>1. Set(g, i, r, to) /\ UNCHANGED state
    BY <1>3 DEF Admit
  <2>2. /\ Extends(s, r) /\ r.status \in {"aborted", "finished"} /\ (~aborted => Finished(r))
    <3> DEFINE status == IF aborted THEN "aborted" ELSE "finished"
    <3>1. r = [s EXCEPT !.status = status] /\ status \in {"pending", "aborted", "finished"}
      BY DEF Turned
    <3> HIDE DEF status
    <3>2. Extends(s, [s EXCEPT !.status = status]) /\ [s EXCEPT !.status = status].status = status
      BY <1>1, <3>1, StatusExtends
    <3> QED  BY <3>1, <3>2 DEF status, Finished
  <2> HIDE DEF r
  <2>3. /\ to \in {"done", "scoring"} /\ (to = "done" => Whole(r))
        /\ to = "scoring" => Finished(r) /\ ~conf.groupRm
    BY <2>2, EndOfGeneration
  <2> HIDE DEF to
  <2>4. /\ r \in Samples /\ MaskFits(r, conf, version) /\ IsPrefix(s.made, r.made)
        /\ OnPolicy(s, conf, version) => OnPolicy(r, conf, version)
    BY <2>2 DEF Extends
  <2>5. /\ active' \in Int /\ cancellable' \subseteq Groups \X Index /\ faults' \in Nat
        /\ ~conf.streaming => cancellable' = {}
        /\ UNCHANGED <<pendings, remaining, aborted, cancellable, active>>
    BY <2>1 DEF IInv, TypeOK, Flagged, state
  <2>6. active' = active + 0 - 0 /\ <<g, i>> \notin cancellable'
    BY <1>2, <2>5 DEF IInv, Flagged, TypeOK
  <2> QED  BY <1>2, <2>1, <2>2, <2>3, <2>4, <2>5, <2>6, SampleMoves DEF Through, Open
<1>4. CASE ~(aborted \/ Left(s) = 0)
  <2>1. /\ Set(g, i, s, "sent")
        /\ active' = (IF conf.streaming THEN active ELSE active + 1)
        /\ cancellable' = IF conf.streaming THEN cancellable \cup {<<g, i>>} ELSE cancellable
        /\ UNCHANGED <<pendings, remaining, aborted>>
    BY <1>4 DEF Admit
  <2>2. /\ active' \in Int /\ cancellable' \subseteq Groups \X Index /\ faults' \in Nat
        /\ ~conf.streaming => cancellable' = {}
    BY <2>1 DEF IInv, TypeOK, Flagged
  <2>3. ~conf.streaming => active' = active + 1 - 0
    BY <2>1, <2>2 DEF IInv, TypeOK
  <2>4. /\ cancellable \ {<<g, i>>} \subseteq cancellable'
        /\ conf.streaming => <<g, i>> \in cancellable'
    BY <2>1
  <2> QED  BY <1>1, <1>2, <1>4, <2>1, <2>2, <2>3, <2>4, SampleMoves DEF Open
<1> QED  BY <1>3, <1>4

(* A server answers with a whole response.                                    *)
LEMMA ReplyStep ==
    ASSUME IInv, NEW g \in Groups, NEW i \in Index, Reply(g, i),
           UNCHANGED <<conf, buffer, version, rolling, rejects, faults>>
    PROVE  IInv' /\ Grows
<1> DEFINE s == sample[g][i]
<1>1. s \in Samples /\ MaskFits(s, conf, version) /\ Left(s) \in Nat /\ version \in Nat
  BY SampleFits
<1>2. PICK o \in Outcomes(s, paused \/ stage[g][i] = "cut") :
        LET r == AppendResponse(s, o[1], o[2]) IN Set(g, i, r, AfterGenerate(r))
  BY DEF Reply
<1>3. /\ o[1] \in Nat /\ o[1] <= Left(s) /\ o[2] \in {"aborted", "finished"}
      /\ o[2] = "aborted" => paused \/ stage[g][i] = "cut"
  BY <1>1 DEF Outcomes
<1> DEFINE n == o[1]
           status == o[2]
           r == AppendResponse(s, n, status)
<1>4. n \in Nat /\ n <= Left(s) /\ status \in {"pending", "aborted", "finished"}
  BY <1>3
<1> HIDE DEF n, status
<1>5. Extends(s, r) /\ r.status = status
  BY <1>1, <1>4, ResponseExtends
<1>6. Set(g, i, r, AfterGenerate(r)) /\ status \in {"aborted", "finished"} /\ (~aborted => status = "finished" \/ stage[g][i] = "cut")
  BY <1>2, <1>3 DEF n, status, IInv, Flagged
<1> HIDE DEF r
<1>7. stage[g][i] \in Open \cup {"cancelled"} /\ (stage[g][i] = "cancelled" => conf.streaming)
  BY DEF Reply, Open
<1>8. Unregister(g, i) /\ UNCHANGED <<task, paused>>
  BY DEF Reply
<1>9. ~aborted => Finished(r) \/ stage[g][i] = "cut"
  BY <1>5, <1>6 DEF Finished
<1> QED  BY <1>5, <1>6, <1>7, <1>8, <1>9, RequestEnds

(* A paused server refuses the request, and a stream or a sample that no      *)
(* abort explains fails.                                                      *)
LEMMA RefusedStep ==
    ASSUME IInv, NEW g \in Groups, NEW i \in Index, Refused(g, i),
           UNCHANGED <<conf, buffer, version, rolling, rejects, faults>>
    PROVE  IInv' /\ Grows
<1> DEFINE s == sample[g][i]
           r == [s EXCEPT !.status = "aborted"]
<1>1. s \in Samples /\ MaskFits(s, conf, version) /\ IsPrefix(s.made, s.made)
  BY SampleFits
<1>2. Extends(s, r) /\ r.status = "aborted"
  BY <1>1, StatusExtends
<1>3. stage[g][i] \in Open /\ Unregister(g, i) /\ UNCHANGED <<task, paused>>
  BY DEF Refused, Open
<1>4. CASE aborted /\ ~conf.streaming
  <2>1. Set(g, i, r, "done")
    BY <1>4 DEF Refused
  <2> HIDE DEF r
  <2>2. AfterGenerate(r) = "done"
    BY <1>2 DEF AfterGenerate
  <2>3. stage[g][i] # "cancelled"
    BY <1>3 DEF Open
  <2> QED  BY <1>2, <1>3, <1>4, <2>1, <2>2, <2>3, RequestEnds
<1>5. CASE ~(aborted /\ ~conf.streaming)
  <2>1. Set(g, i, s, "failed")
    BY <1>5 DEF Refused
  <2>2. faults # 0
    <3>1. stage[g][i] = "cut"
      BY <1>5 DEF Refused, IInv, Flagged
    <3> QED  BY <3>1 DEF IInv, Requested
  <2>3. stage[g][i] \in Working /\ faults' \in Nat
    BY <1>3 DEF Open, Working, IInv, TypeOK
  <2>4. /\ active' \in Int /\ cancellable' = cancellable \ {<<g, i>>} /\ cancellable' \subseteq Groups \X Index
        /\ UNCHANGED <<pendings, remaining, aborted>> /\ (~conf.streaming => cancellable' = {})
        /\ conf.streaming => active' = active
        /\ ~conf.streaming => active' = active + 0 - (IF stage[g][i] \in Open THEN 1 ELSE 0)
    BY <1>3 DEF Unregister, IInv, TypeOK, Flagged
  <2> QED  BY <1>1, <1>3, <2>1, <2>2, <2>3, <2>4, SampleMoves
<1> QED  BY <1>4, <1>5

(* A cancelled stream ends.                                                   *)
LEMMA CancelledStep ==
    ASSUME IInv, NEW g \in Groups, NEW i \in Index, Cancelled(g, i),
           UNCHANGED <<conf, buffer, version, rolling, rejects, faults>>
    PROVE  IInv' /\ Grows
<1> DEFINE s == sample[g][i]
           r == [s EXCEPT !.status = "aborted"]
<1>1. s \in Samples /\ MaskFits(s, conf, version) /\ IsPrefix(s.made, s.made)
  BY SampleFits
<1>2. Extends(s, r) /\ r.status = "aborted"
  BY <1>1, StatusExtends
<1>3. Set(g, i, r, "done")
  BY DEF Cancelled
<1> HIDE DEF r
<1>4. AfterGenerate(r) = "done"
  BY <1>2 DEF AfterGenerate
<1>5. /\ stage[g][i] \in Open \cup {"cancelled"} /\ (stage[g][i] = "cancelled" => conf.streaming)
      /\ aborted /\ Unregister(g, i) /\ UNCHANGED <<task, paused>>
  BY DEF Cancelled, IInv, Flagged
<1> QED  BY <1>2, <1>3, <1>4, <1>5, RequestEnds

(* A chunk of a stream arrives.                                               *)
LEMMA ChunkStep ==
    ASSUME IInv, NEW g \in Groups, NEW i \in Index, Chunk(g, i),
           UNCHANGED <<conf, buffer, version, rolling, rejects, faults>>
    PROVE  IInv' /\ Grows
<1> DEFINE s == sample[g][i]
<1>1. s \in Samples /\ MaskFits(s, conf, version) /\ Left(s) \in Nat /\ version \in Nat
  BY SampleFits
<1>2. /\ stage[g][i] \in Open /\ conf.streaming /\ UNCHANGED <<task, paused>> /\ stage[g][i] \in Working
      /\ stage[g][i] # "cancelled"
  BY DEF Chunk, Working, Open
<1>3. s.status \in {"pending", "aborted", "finished"}
  BY <1>1, SampleTypes
<1>a. CASE \E n \in 0..Min({1, Left(s)}) : \E status \in {"aborted", "finished"} :
             LET r == AppendChunk(s, n, status)
             IN  /\ Set(g, i, r, AfterGenerate(r)) /\ Unregister(g, i)
                 /\ status = "aborted" => stage[g][i] = "cut"
  <2>1. PICK n \in 0..Min({1, Left(s)}), status \in {"aborted", "finished"} :
             LET r == AppendChunk(s, n, status)
             IN  /\ Set(g, i, r, AfterGenerate(r)) /\ Unregister(g, i)
                 /\ status = "aborted" => stage[g][i] = "cut"
    BY <1>a
  <2>2. Min({1, Left(s)}) \in Nat /\ Min({1, Left(s)}) <= Left(s)
    BY <1>1, MinOfTwo
  <2> DEFINE r == AppendChunk(s, n, status)
  <2>3. n \in Nat /\ n <= Left(s) /\ status \in {"pending", "aborted", "finished"}
    BY <1>1, <2>2
  <2>4. Extends(s, r) /\ r.status = status
    BY <1>1, <2>3, ChunkExtends
  <2>5. Set(g, i, r, AfterGenerate(r)) /\ Unregister(g, i) /\ (status = "aborted" => stage[g][i] = "cut")
    BY <2>1
  <2> HIDE DEF r
  <2>6. r.status \in {"aborted", "finished"} /\ (Finished(r) \/ stage[g][i] = "cut")
    BY <2>4, <2>5 DEF Finished
  <2> QED  BY <1>2, <2>4, <2>5, <2>6, RequestEnds
<1>b. CASE Left(s) > 0 /\ aborted /\ Set(g, i, AppendChunk(s, 1, "aborted"), "done") /\ Unregister(g, i)
  <2> DEFINE r == AppendChunk(s, 1, "aborted")
  <2>1. Extends(s, r) /\ r.status = "aborted"
    BY <1>1, <1>b, ChunkExtends
  <2>2. Set(g, i, r, "done")
    BY <1>b
  <2> HIDE DEF r
  <2>3. AfterGenerate(r) = "done"
    BY <2>1 DEF AfterGenerate
  <2> QED  BY <1>2, <1>b, <2>1, <2>2, <2>3, RequestEnds
<1>c. CASE /\ Left(s) > 0 /\ Set(g, i, AppendChunk(s, 1, s.status), "sent") /\ UNCHANGED state
           /\ stage[g][i] = "sent"
  <2> DEFINE r == AppendChunk(s, 1, s.status)
  <2>1. Extends(s, r)
    BY <1>1, <1>3, <1>c, ChunkExtends
  <2>2. Set(g, i, r, "sent")
    BY <1>c
  <2> HIDE DEF r
  <2>3. /\ r \in Samples /\ MaskFits(r, conf, version) /\ IsPrefix(s.made, r.made)
        /\ OnPolicy(s, conf, version) => OnPolicy(r, conf, version)
    BY <2>1 DEF Extends
  <2>4. /\ active' \in Int /\ cancellable' \subseteq Groups \X Index /\ faults' \in Nat
        /\ UNCHANGED <<pendings, remaining, aborted, cancellable, active>>
    BY <1>c DEF IInv, TypeOK, state
  <2>5. faults' = 0 => <<g, i>> \in cancellable'
    BY <1>2, <1>c, <2>4 DEF IInv, Requested
  <2> QED  BY <1>2, <1>c, <2>2, <2>3, <2>4, <2>5, SampleMoves DEF Open
<1> QED
  <2>1. CASE \E n \in 0..Min({1, Left(s)}) :
              /\ \E status \in {"finished"} \cup (IF stage[g][i] = "cut" THEN {"aborted"} ELSE {}) :
                     LET r == AppendChunk(s, n, status) IN Set(g, i, r, AfterGenerate(r))
              /\ Unregister(g, i)
    BY <1>a, <2>1
  <2>2. CASE /\ Left(s) > 0 /\ stage[g][i] # "cut"
             /\ IF aborted
                THEN Set(g, i, AppendChunk(s, 1, "aborted"), "done") /\ Unregister(g, i)
                ELSE Set(g, i, AppendChunk(s, 1, s.status), "sent") /\ UNCHANGED state
    BY <1>2, <1>b, <1>c, <2>2 DEF Open
  <2> QED  BY <2>1, <2>2 DEF Chunk

(* A finished sample gets its reward.                                         *)
LEMMA ScoreStep ==
    ASSUME IInv, NEW g \in Groups, NEW i \in Index, Score(g, i),
           UNCHANGED <<conf, buffer, version, rolling, rejects, faults>>
    PROVE  IInv' /\ Grows
<1> DEFINE s == sample[g][i]
           r == [s EXCEPT !.scored = TRUE]
<1>1. s \in Samples /\ MaskFits(s, conf, version) /\ IsPrefix(s.made, s.made)
  BY SampleFits
<1>2. /\ r \in Samples /\ r.scored /\ r.status = s.status /\ MaskFits(r, conf, version)
      /\ IsPrefix(s.made, r.made) /\ (OnPolicy(s, conf, version) => OnPolicy(r, conf, version))
  BY <1>1, ScoredSample
<1>3. Set(g, i, r, "done")
  BY DEF Score
<1> HIDE DEF r
<1>4. /\ stage[g][i] = "scoring" /\ stage[g][i] \in Working
      /\ UNCHANGED <<task, pendings, remaining, aborted, cancellable, active, paused>>
  BY DEF Score, state, Working
<1>5. /\ active' \in Int /\ cancellable' \subseteq Groups \X Index /\ faults' \in Nat
      /\ ~conf.streaming => cancellable' = {}
      /\ active' = active + 0 - 0 /\ <<g, i>> \notin cancellable'
  BY <1>4 DEF IInv, TypeOK, Flagged
<1>6. Whole(r)
  BY <1>2 DEF Whole
<1>7. ~aborted /\ task[g] = "waiting" => Through(g, r)
  <2>1. ~aborted /\ task[g] = "waiting" => Through(g, s)
    BY <1>4 DEF IInv, Completed
  <2> QED  BY <1>2, <1>4, <2>1 DEF Through, Finished
<1> QED  BY <1>1, <1>2, <1>3, <1>4, <1>5, <1>6, <1>7, SampleMoves DEF Open

(* A request or a reward fails.                                               *)
LEMMA SampleFailsStep ==
    ASSUME IInv, NEW g \in Groups, NEW i \in Index, SampleFails(g, i),
           UNCHANGED <<conf, buffer, version, rolling, rejects>>
    PROVE  IInv' /\ Grows
<1> DEFINE s == sample[g][i]
<1>1. s \in Samples /\ MaskFits(s, conf, version) /\ IsPrefix(s.made, s.made)
  BY SampleFits
<1>2. /\ stage[g][i] \in {"sent", "cut", "scoring"} /\ stage[g][i] \in Working /\ Set(g, i, s, "failed")
      /\ UNCHANGED <<task, paused>> /\ faults' = faults + 1
  BY DEF SampleFails, Working
<1>3. faults' \in Nat /\ faults' # 0
  BY <1>2 DEF IInv, TypeOK
<1>4. /\ UNCHANGED <<pendings, remaining, aborted>> /\ active' \in Int
      /\ cancellable' \subseteq cancellable /\ cancellable \ {<<g, i>>} \subseteq cancellable'
      /\ conf.streaming => active' = active
      /\ ~conf.streaming => active' = active + 0 - (IF stage[g][i] \in Open THEN 1 ELSE 0)
  BY <1>2 DEF SampleFails, Unregister, state, IInv, TypeOK, Open
<1>5. cancellable' \subseteq Groups \X Index /\ (~conf.streaming => cancellable' = {})
  BY <1>4 DEF IInv, TypeOK, Flagged
<1>6. <<g, i>> \notin cancellable'
  <2>1. CASE stage[g][i] # "scoring"
    BY <2>1 DEF SampleFails, Unregister
  <2>2. CASE stage[g][i] = "scoring"
    BY <1>4, <2>2 DEF IInv, Flagged
  <2> QED  BY <2>1, <2>2
<1> QED  BY <1>1, <1>2, <1>3, <1>4, <1>5, <1>6, SampleMoves DEF Open

(* A group whose task begins runs unless an abort is under way; then it stays *)
(* as it is.                                                                  *)
LEMMA StartGroupStep ==
    ASSUME IInv, NEW g \in Groups, StartGroup(g), UNCHANGED <<conf, buffer, version, rolling, rejects, faults>>
    PROVE  IInv'
<1> USE DEF IInv
<1>a. /\ task[g] = "created" /\ g \in pendings /\ g \notin buffer \cup done \cup data \cup kept
      /\ UNCHANGED <<paused, call, done, data, kept, rollout, leftover, restarts>>
      /\ UNCHANGED <<pendings, remaining, aborted, cancellable, active>>
  BY DEF Tasked, Held, state, StartGroup, rolling
<1>b. /\ task' \in [Groups -> Tasks] /\ task'[g] = (IF aborted THEN "done" ELSE "waiting")
      /\ \A h \in Groups : h # g => task'[h] = task[h]
  BY DEF TypeOK, Tasks, StartGroup
<1>c. Back(g) \/ New(g)
  BY <1>a DEF Staged
<1>d. \A i \in Index :
        /\ stage[g][i] \in {"none", "done", "failed"} /\ Whole(sample[g][i])
        /\ sample[g][i] \in Samples /\ MaskFits(sample[g][i], conf, version)
        /\ g \notin leftover => Old(sample[g][i], version)
  <2>1. Whole(Fresh)
    BY FreshSample DEF TypeOK
  <2>2. \A i \in Index : sample[g][i] \in Samples /\ MaskFits(sample[g][i], conf, version)
    BY SampleFits
  <2> QED  BY <1>a, <1>c, <2>1, <2>2 DEF Back, New, Masked
<1>e. /\ sample' \in [Groups -> [Index -> Samples]] /\ stage' \in [Groups -> [Index -> Stages]]
      /\ \A h \in Groups : h # g => sample'[h] = sample[h] /\ stage'[h] = stage[h]
      /\ aborted => sample'[g] = sample[g] /\ stage'[g] = stage[g]
      /\ ~aborted => \A i \in Index :
            /\ stage'[g][i] \in {"queued", "done"}
            /\ stage'[g][i] = "done" => Finished(sample'[g][i])
            /\ Whole(sample'[g][i]) /\ MaskFits(sample'[g][i], conf, version)
            /\ g \notin leftover => OnPolicy(sample'[g][i], conf, version)
  <2>1. CASE aborted
    BY <2>1 DEF TypeOK, StartGroup
  <2>2. CASE ~aborted
    <3> DEFINE F == [i \in Index |-> MaskOld(sample[g][i])]
               S == [i \in Index |-> IF ~Finished(sample[g][i]) THEN "queued"
                                     ELSE IF Whole(sample[g][i]) THEN "done" ELSE "failed"]
    <3>1. sample' = [sample EXCEPT ![g] = F] /\ stage' = [stage EXCEPT ![g] = S]
      BY <2>2 DEF StartGroup
    <3>2. ASSUME NEW i \in Index
          PROVE  /\ F[i] \in Samples /\ Whole(F[i]) /\ MaskFits(F[i], conf, version)
                 /\ g \notin leftover => OnPolicy(F[i], conf, version)
                 /\ S[i] \in {"queued", "done"} /\ (S[i] = "done" => Finished(F[i]))
      <4> DEFINE s == sample[g][i]
                 r == MaskOld(s)
      <4>1. s \in Samples /\ MaskFits(s, conf, version) /\ Whole(s)
        BY <1>d
      <4>2. /\ r \in Samples /\ r.status = s.status /\ r.scored = s.scored /\ MaskFits(r, conf, version)
            /\ version \in Nat /\ Old(s, version) => OnPolicy(r, conf, version)
        BY <4>1, OldMasked
      <4>3. F[i] = r
        OBVIOUS
      <4> HIDE DEF r
      <4>4. Whole(r) /\ (Finished(r) <=> Finished(s))
        BY <4>1, <4>2 DEF Whole, Finished
      <4>5. g \notin leftover => OnPolicy(r, conf, version)
        BY <1>d, <4>2 DEF TypeOK
      <4>6. S[i] = IF ~Finished(s) THEN "queued" ELSE "done"
        BY <4>1
      <4> HIDE DEF F, S
      <4> QED  BY <4>2, <4>3, <4>4, <4>5, <4>6
    <3>3. F \in [Index -> Samples] /\ S \in [Index -> Stages]
      <4>1. DOMAIN F = Index /\ DOMAIN S = Index /\ F = [i \in Index |-> F[i]] /\ S = [i \in Index |-> S[i]]
        OBVIOUS
      <4> HIDE DEF F, S
      <4> QED  BY <3>2, <4>1 DEF Stages
    <3> HIDE DEF F, S
    <3>4. sample'[g] = F /\ stage'[g] = S
      BY <3>1 DEF TypeOK
    <3>5. /\ sample' \in [Groups -> [Index -> Samples]] /\ stage' \in [Groups -> [Index -> Stages]]
          /\ \A h \in Groups : h # g => sample'[h] = sample[h] /\ stage'[h] = stage[h]
      BY <3>1, <3>3 DEF TypeOK
    <3> QED  BY <2>2, <3>2, <3>4, <3>5
  <2> QED  BY <2>1, <2>2
<1>1. TypeOK'
  BY <1>a, <1>b, <1>e DEF TypeOK, Calls, Tasks
<1>2. OnePlace'
  BY <1>a DEF OnePlace
<1>3. Tasked'
  BY <1>a, <1>b DEF Tasked, Held
<1>4. Staged'
  <2>1. ASSUME NEW h \in Groups, h # g \/ aborted, Back(h) PROVE Back(h)'
    BY <1>a, <1>e, <2>1 DEF Back, Whole
  <2>2. ASSUME NEW h \in Groups, h # g \/ aborted, New(h) PROVE New(h)'
    BY <1>a, <1>e, <2>2 DEF New
  <2>3. ASSUME NEW h \in Groups, task'[h] = "waiting", NEW k \in Index
        PROVE  /\ stage'[h][k] # "none"
               /\ stage'[h][k] = "done" => Whole(sample[h][k])'
               /\ stage'[h][k] = "scoring" => Finished(sample'[h][k]) /\ ~conf'.groupRm
    <3>1. CASE h = g
      BY <1>b, <1>e, <2>3, <3>1 DEF Whole
    <3>2. CASE h # g
      BY <1>b, <1>e, <2>3, <3>2 DEF Staged, Whole
    <3> QED  BY <3>1, <3>2
  <2>4. ASSUME NEW h \in Groups, task'[h] = "scoring"
        PROVE  conf'.groupRm /\ \A k \in Index : stage'[h][k] = "done"
    BY <1>b, <1>e, <2>4 DEF Staged
  <2>5. ASSUME NEW h \in Groups, task'[h] \in {"created", "done"} PROVE Back(h)' \/ New(h)'
    BY <1>b, <1>c, <2>1, <2>2, <2>5 DEF Staged
  <2>6. ASSUME NEW h \in Groups, h \in buffer' \cup kept' PROVE Back(h)'
    BY <1>a, <2>1, <2>6 DEF Staged
  <2> QED  BY <2>3, <2>4, <2>5, <2>6 DEF Staged
<1>5. Completed'
  <2>1. ASSUME NEW h \in Groups, h # g PROVE Complete(h)' <=> Complete(h)
    BY <1>a, <1>e, <2>1 DEF Complete, Through
  <2>2. ASSUME ~aborted, NEW h \in Groups, task'[h] \in {"waiting", "scoring"}, NEW k \in Index,
               stage'[h][k] \in {"done", "scoring"}
        PROVE  Through(h, sample[h][k])'
    <3>1. CASE h = g
      BY <1>e, <2>2, <3>1 DEF Through
    <3>2. CASE h # g
      BY <1>a, <1>b, <1>e, <2>2, <3>2 DEF Completed, Through
    <3> QED  BY <3>1, <3>2
  <2>3. ASSUME ~aborted, NEW h \in Groups, h \in pendings \cup done \cup data, task'[h] = "done"
        PROVE  Complete(h)'
    BY <1>b, <2>1, <2>3 DEF Completed
  <2>4. ASSUME Chosen, NEW h \in Groups, h \in data PROVE Complete(h)'
    BY <1>a, <2>1, <2>4 DEF Completed
  <2> QED  BY <1>a, <2>2, <2>3, <2>4 DEF Completed, Chosen, TypeOK
<1>6. Masked'
  <2>1. ASSUME NEW h \in Groups, h # g \/ aborted, NEW k \in Index
        PROVE sample'[h][k] = sample[h][k]
    BY <1>e, <2>1
  <2> QED  BY <1>a, <1>b, <1>e, <2>1 DEF Masked, Ours, Chosen
<1>7. Flagged'
  <2>1. \A h \in Groups, k \in Index :
          stage'[h][k] = stage[h][k] \/ (stage[h][k] \notin {"sent", "cut"} /\ stage'[h][k] \in {"queued", "done"})
    BY <1>d, <1>e
  <2> QED  BY <1>a, <2>1 DEF Flagged, Ours
<1>8. Requested'
  <2>1. \A h \in Groups, k \in Index : h # g \/ aborted => stage'[h][k] = stage[h][k]
    BY <1>e
  <2>2. \A k \in Index : stage[g][k] # "sent" /\ stage'[g][k] # "sent"
    BY <1>d, <1>e
  <2>3. Sent' = Sent
    BY <2>1, <2>2 DEF Sent
  <2>4. ASSUME faults = 0, NEW h \in Groups
        PROVE  /\ task'[h] # "failed"
               /\ \A k \in Index :
                     /\ stage'[h][k] \notin {"cut", "failed"}
                     /\ stage'[h][k] \in {"queued", "sent", "cancelled", "scoring"} => task'[h] = "waiting"
                     /\ stage'[h][k] = "sent" /\ conf.streaming => <<h, k>> \in cancellable
    <3>1. CASE h = g
      BY <1>b, <1>d, <1>e, <2>4, <3>1 DEF Requested
    <3>2. CASE h # g
      BY <1>b, <1>e, <2>4, <3>2 DEF Requested
    <3> QED  BY <3>1, <3>2
  <2> QED  BY <1>a, <2>3, <2>4 DEF Requested
<1>9. Counted'
  BY <1>a DEF Counted, Chosen
<1> QED  BY <1>1, <1>2, <1>3, <1>4, <1>5, <1>6, <1>7, <1>8, <1>9

(* A group whose sample failed fails.                                         *)
LEMMA GroupFailsStep ==
    ASSUME IInv, NEW g \in Groups, GroupFails(g), UNCHANGED <<conf, buffer, version, rolling, rejects, faults>>
    PROVE  IInv'
<1> USE DEF IInv
<1>a. /\ task' \in [Groups -> Tasks] /\ \A h \in Groups : h # g => task'[h] = task[h]
      /\ UNCHANGED <<sample, stage, paused, call, done, data, kept, rollout, leftover, restarts>>
      /\ UNCHANGED <<pendings, remaining, aborted, cancellable, active>>
  BY DEF TypeOK, Tasks, state, GroupFails, rolling

<1>b. task[g] = "waiting" /\ task'[g] = "failed" /\ faults # 0 /\ g \in pendings
  BY DEF TypeOK, GroupFails, Requested, Tasked, Held
<1>1. TypeOK'
  BY <1>a DEF TypeOK, Calls, Tasks
<1>2. OnePlace'
  BY <1>a DEF OnePlace
<1>3. Tasked'
  BY <1>a, <1>b DEF Tasked, Held
<1>4. Staged'
  BY <1>a, <1>b DEF Staged, Back, New, Whole
<1>5. Completed'
  BY <1>a, <1>b DEF Completed, Complete, Through, Chosen
<1>6. Masked'
  BY <1>a, <1>b DEF Masked, Ours, Chosen
<1>7. Flagged'
  BY <1>a DEF Flagged, Ours
<1>8. Requested'
  BY <1>a, <1>b DEF Requested, Sent
<1>9. Counted'
  BY <1>a DEF Counted, Chosen
<1> QED  BY <1>1, <1>2, <1>3, <1>4, <1>5, <1>6, <1>7, <1>8, <1>9

(* A group of which every sample has ended is scored as a whole, or has       *)
(* ended.                                                                     *)
LEMMA GatheredStep ==
    ASSUME IInv, NEW g \in Groups, Gathered(g), UNCHANGED <<conf, buffer, version, rolling, rejects, faults>>
    PROVE  IInv'
<1> USE DEF IInv
<1>a. /\ task' \in [Groups -> Tasks] /\ \A h \in Groups : h # g => task'[h] = task[h]
      /\ UNCHANGED <<sample, stage, paused, call, done, data, kept, rollout, leftover, restarts>>
      /\ UNCHANGED <<pendings, remaining, aborted, cancellable, active>>
  BY DEF TypeOK, Tasks, state, Gathered, rolling

<1>b. /\ task[g] = "waiting" /\ g \in pendings /\ task'[g] \in {"scoring", "done"}
      /\ \A i \in Index : stage[g][i] = "done"
      /\ task'[g] = "scoring" => conf.groupRm /\ ~aborted
      /\ task'[g] = "done" => ~conf.groupRm \/ aborted
  BY DEF TypeOK, Gathered, Tasked, Held
<1>c. /\ Back(g) /\ (~aborted => \A i \in Index : Through(g, sample[g][i]))
      /\ ~aborted /\ task'[g] = "done" => Complete(g)
  BY <1>b DEF Staged, Back, Completed, Complete, Through, Whole
<1>1. TypeOK'
  BY <1>a DEF TypeOK, Calls, Tasks
<1>2. OnePlace'
  BY <1>a DEF OnePlace
<1>3. Tasked'
  BY <1>a, <1>b DEF Tasked, Held
<1>4. Staged'
  <2>1. ASSUME NEW h \in Groups PROVE (Back(h)' <=> Back(h)) /\ (New(h)' <=> New(h))
    BY <1>a DEF Back, New, Whole
  <2> QED  BY <1>a, <1>b, <1>c, <2>1 DEF Staged, Whole
<1>5. Completed'
  <2>1. ASSUME NEW h \in Groups PROVE Complete(h)' <=> Complete(h)
    BY <1>a DEF Complete, Through
  <2>2. ASSUME ~aborted, NEW h \in Groups, h \in pendings \cup done \cup data, task'[h] = "done" PROVE Complete(h)'
    BY <1>a, <1>b, <1>c, <2>1, <2>2 DEF Completed
  <2>3. ASSUME ~aborted, NEW h \in Groups, task'[h] \in {"waiting", "scoring"}, NEW i \in Index,
               stage[h][i] \in {"done", "scoring"}
        PROVE  Through(h, sample[h][i])
    BY <1>a, <1>b, <1>c, <2>3 DEF Completed
  <2>4. Chosen => \A h \in data : h \in Groups /\ Complete(h)
    BY DEF Completed, TypeOK
  <2> QED  BY <1>a, <2>1, <2>2, <2>3, <2>4 DEF Completed, Chosen, Through
<1>6. Masked'
  BY <1>a, <1>b DEF Masked, Ours, Chosen
<1>7. Flagged'
  BY <1>a DEF Flagged, Ours
<1>8. Requested'
  BY <1>a, <1>b DEF Requested, Sent
<1>9. Counted'
  BY <1>a DEF Counted, Chosen
<1> QED  BY <1>1, <1>2, <1>3, <1>4, <1>5, <1>6, <1>7, <1>8, <1>9

(* The reward of a group is set on each of its samples.                       *)
LEMMA GroupScoredStep ==
    ASSUME IInv, NEW g \in Groups, GroupScored(g), UNCHANGED <<conf, buffer, version, rolling, rejects, faults>>
    PROVE  IInv'
<1> USE DEF IInv
<1>a. /\ task' \in [Groups -> Tasks] /\ \A h \in Groups : h # g => task'[h] = task[h]
      /\ UNCHANGED <<stage, paused, call, done, data, kept, rollout, leftover, restarts>>
      /\ UNCHANGED <<pendings, remaining, aborted, cancellable, active>>
  BY DEF TypeOK, Tasks, state, GroupScored, rolling
<1>b. /\ task[g] = "scoring" /\ task'[g] = "done" /\ g \in pendings
      /\ conf.groupRm /\ \A i \in Index : stage[g][i] = "done"
  BY DEF TypeOK, GroupScored, Tasked, Held, Staged
<1>c. /\ sample' \in [Groups -> [Index -> Samples]]
      /\ \A h \in Groups : h # g => sample'[h] = sample[h]
      /\ \A i \in Index :
            LET r == sample'[g][i]
                s == sample[g][i]
            IN  /\ r.scored /\ r.status = s.status /\ MaskFits(r, conf, version)
                /\ OnPolicy(s, conf, version) => OnPolicy(r, conf, version)
  <2> DEFINE F == [i \in Index |-> [sample[g][i] EXCEPT !.scored = TRUE]]
  <2>1. sample' = [sample EXCEPT ![g] = F]
    BY DEF GroupScored
  <2>2. ASSUME NEW i \in Index
        PROVE  /\ F[i] \in Samples /\ F[i].scored /\ F[i].status = sample[g][i].status
               /\ MaskFits(F[i], conf, version)
               /\ OnPolicy(sample[g][i], conf, version) => OnPolicy(F[i], conf, version)
    <3> DEFINE s == sample[g][i]
               r == [s EXCEPT !.scored = TRUE]
    <3>1. s \in Samples /\ MaskFits(s, conf, version) /\ F[i] = r
      BY SampleFits
    <3>2. /\ r \in Samples /\ r.scored /\ r.status = s.status /\ MaskFits(r, conf, version)
          /\ OnPolicy(s, conf, version) => OnPolicy(r, conf, version)
      BY <3>1, ScoredSample
    <3> HIDE DEF F, r
    <3> QED  BY <3>1, <3>2
  <2>3. F \in [Index -> Samples]
    <3>1. F = [i \in Index |-> F[i]]
      OBVIOUS
    <3> HIDE DEF F
    <3> QED  BY <2>2, <3>1
  <2> HIDE DEF F
  <2> QED  BY <2>1, <2>2, <2>3 DEF TypeOK
<1>1. TypeOK'
  BY <1>a, <1>c DEF TypeOK, Calls, Tasks
<1>2. OnePlace'
  BY <1>a DEF OnePlace
<1>3. Tasked'
  BY <1>a, <1>b DEF Tasked, Held
<1>4. Staged'
  <2>1. ASSUME NEW h \in Groups, h # g PROVE (Back(h)' <=> Back(h)) /\ (New(h)' <=> New(h))
    BY <1>a, <1>c, <2>1 DEF Back, New, Whole
  <2>2. Back(g)'
    BY <1>a, <1>b, <1>c DEF Back, Whole
  <2> QED  BY <1>a, <1>b, <1>c, <2>1, <2>2 DEF Staged, Whole
<1>5. Completed'
  <2>1. ASSUME NEW h \in Groups, h # g PROVE Complete(h)' <=> Complete(h)
    BY <1>a, <1>c, <2>1 DEF Complete, Through
  <2>2. ~aborted => Complete(g)'
    BY <1>a, <1>b, <1>c DEF Complete, Through, Completed, Finished
  <2>3. g \notin data
    BY <1>b DEF OnePlace
  <2>4. ASSUME ~aborted, NEW h \in Groups, h \in pendings \cup done \cup data, task'[h] = "done" PROVE Complete(h)'
    BY <1>a, <2>1, <2>2, <2>4 DEF Completed
  <2>5. ASSUME ~aborted, NEW h \in Groups, task'[h] \in {"waiting", "scoring"}, NEW i \in Index,
               stage[h][i] \in {"done", "scoring"}
        PROVE  h # g /\ Through(h, sample[h][i])
    BY <1>a, <1>b, <2>5 DEF Completed
  <2>6. Chosen => \A h \in data : h \in Groups /\ h # g /\ Complete(h)
    BY <2>3 DEF Completed, TypeOK
  <2> QED  BY <1>a, <1>c, <2>1, <2>4, <2>5, <2>6 DEF Completed, Chosen, Through
<1>6. Masked'
  <2> SUFFICES ASSUME NEW h \in Groups, NEW k \in Index
               PROVE  LET x == sample'[h][k] IN
                      /\ MaskFits(x, conf, version)
                      /\ (h \in buffer /\ call \notin {"train", "publish"})
                            \/ (h \in pendings \ leftover /\ task'[h] = "created")
                            => Old(x, version)
                      /\ Ours(h) /\ task'[h] \in {"waiting", "scoring"} => OnPolicy(x, conf, version)
                      /\ Ours(h) /\ task'[h] = "done" /\ (~aborted \/ (Chosen /\ h \in data))
                            => OnPolicy(x, conf, version)
    BY <1>a DEF Masked, Ours, Chosen
  <2>1. CASE h = g
    <3>1. g \notin buffer
      BY <1>b DEF OnePlace
    <3> QED  BY <1>a, <1>b, <1>c, <2>1, <3>1 DEF Masked, Ours
  <2>2. CASE h # g
    BY <1>a, <1>c, <2>2 DEF Masked
  <2> QED  BY <2>1, <2>2
<1>7. Flagged'
  BY <1>a DEF Flagged, Ours
<1>8. Requested'
  BY <1>a, <1>b DEF Requested, Sent
<1>9. Counted'
  BY <1>a DEF Counted, Chosen
<1> QED  BY <1>1, <1>2, <1>3, <1>4, <1>5, <1>6, <1>7, <1>8, <1>9

(* The reward of a group fails.                                               *)
LEMMA GroupRmFailsStep ==
    ASSUME IInv, NEW g \in Groups, GroupRmFails(g), UNCHANGED <<conf, buffer, version, rolling, rejects>>
    PROVE  IInv'
<1> USE DEF IInv
<1>a. /\ task' \in [Groups -> Tasks] /\ \A h \in Groups : h # g => task'[h] = task[h]
      /\ UNCHANGED <<sample, stage, paused, call, done, data, kept, rollout, leftover, restarts>>
      /\ UNCHANGED <<pendings, remaining, aborted, cancellable, active>>
  BY DEF TypeOK, Tasks, state, GroupRmFails, rolling

<1>b. task[g] = "scoring" /\ task'[g] = "failed" /\ faults' = faults + 1 /\ faults' # 0 /\ g \in pendings
  BY DEF TypeOK, GroupRmFails, Tasked, Held
<1>1. TypeOK'
  BY <1>a, <1>b DEF TypeOK, Calls, Tasks
<1>2. OnePlace'
  BY <1>a DEF OnePlace
<1>3. Tasked'
  BY <1>a, <1>b DEF Tasked, Held
<1>4. Staged'
  BY <1>a, <1>b DEF Staged, Back, New, Whole
<1>5. Completed'
  BY <1>a, <1>b DEF Completed, Complete, Through, Chosen
<1>6. Masked'
  BY <1>a, <1>b DEF Masked, Ours, Chosen
<1>7. Flagged'
  BY <1>a DEF Flagged, Ours
<1>8. Requested'
  BY <1>b DEF Requested, Sent
<1>9. Counted'
  BY <1>a DEF Counted, Chosen
<1> QED  BY <1>1, <1>2, <1>3, <1>4, <1>5, <1>6, <1>7, <1>8, <1>9

(* Groups are dropped; the others stay as they are.                           *)
LEMMA Dropped ==
    ASSUME IInv, NEW gs, Drop(gs), UNCHANGED <<conf, leftover>>
    PROVE  /\ sample' \in [Groups -> [Index -> Samples]] /\ stage' \in [Groups -> [Index -> Stages]]
           /\ task' \in [Groups -> Tasks]
           /\ \A g \in Groups : g \notin gs =>
                 /\ sample'[g] = sample[g] /\ task'[g] = task[g] /\ stage'[g] = stage[g]
                 /\ (Back(g)' <=> Back(g)) /\ (New(g)' <=> New(g)) /\ (Complete(g)' <=> Complete(g))
           /\ \A g \in Groups : g \in gs => task'[g] = "none" /\ \A i \in Index : sample'[g][i] = Fresh
           /\ \A g \in Groups, i \in Index :
                 \/ stage'[g][i] = stage[g][i]
                 \/ g \in gs /\ stage[g][i] \in {"done", "failed"} /\ stage'[g][i] = "none"
           /\ Sent' = Sent
<1> USE DEF IInv
<1>1. sample' = [g \in Groups |-> IF g \in gs THEN [i \in Index |-> Fresh] ELSE sample[g]]
  BY DEF Drop
<1>2. task' = [g \in Groups |-> IF g \in gs THEN "none" ELSE task[g]]
  BY DEF Drop
<1>3. stage' = [g \in Groups |-> [i \in Index |->
           IF g \in gs /\ stage[g][i] \in {"done", "failed"} THEN "none" ELSE stage[g][i]]]
  BY DEF Drop
<1>4. Fresh \in Samples
  BY FreshSample DEF TypeOK
<1>5. sample' \in [Groups -> [Index -> Samples]] /\ task' \in [Groups -> Tasks]
  BY <1>1, <1>2, <1>4 DEF TypeOK, Tasks
<1>6. stage' \in [Groups -> [Index -> Stages]]
  BY <1>3 DEF TypeOK, Stages
<1>7. ASSUME NEW g \in Groups, g \notin gs
      PROVE  /\ sample'[g] = sample[g] /\ task'[g] = task[g] /\ stage'[g] = stage[g]
             /\ (Back(g)' <=> Back(g)) /\ (New(g)' <=> New(g)) /\ (Complete(g)' <=> Complete(g))
  <2>1. sample'[g] = sample[g] /\ task'[g] = task[g]
    BY <1>1, <1>2, <1>7
  <2>2. stage'[g] = [i \in Index |-> stage[g][i]]
    BY <1>3, <1>7
  <2>3. stage'[g] = stage[g]
    BY <2>2 DEF TypeOK
  <2> QED  BY <2>1, <2>3 DEF Back, New, Complete, Through, Whole
<1>8. \A g \in Groups : g \in gs => task'[g] = "none" /\ \A i \in Index : sample'[g][i] = Fresh
  BY <1>1, <1>2
<1>9. \A g \in Groups, i \in Index :
                 \/ stage'[g][i] = stage[g][i]
                 \/ g \in gs /\ stage[g][i] \in {"done", "failed"} /\ stage'[g][i] = "none"
  BY <1>3
<1>10. Sent' = Sent
  <2>1. \A x \in Groups \X Index : stage'[x[1]][x[2]] = "sent" <=> stage[x[1]][x[2]] = "sent"
    BY <1>9
  <2> QED  BY <2>1 DEF Sent
<1> QED  BY <1>5, <1>6, <1>7, <1>8, <1>9, <1>10

(* Dropping groups that no rollout keeps preserves what the samples and tasks *)
(* promise.                                                                   *)
LEMMA DropKeeps ==
    ASSUME IInv, NEW gs, Drop(gs), UNCHANGED <<conf, version>>,
           buffer' \cup data' \cup kept' \subseteq Held, gs \cap (buffer' \cup data' \cup kept') = {},
           buffer' \cup kept' \subseteq {g \in Groups : Back(g)}, buffer' \cup data' \cup kept' \subseteq Groups,
           aborted' = aborted, paused' => paused,
           (pendings' \cup done' \cup data') \subseteq (pendings \cup done \cup data),
           call' \notin {"pause", "gather", "train", "return", "publish"},
           call' = "drain" => call = "drain" /\ data' = data,
           call \notin {"train", "publish"}, buffer' = buffer, leftover' = leftover, pendings' \subseteq pendings
    PROVE  Staged' /\ Completed' /\ Masked'
<1> USE DEF IInv
<1> DEFINE out == buffer' \cup data' \cup kept'
<1>d. /\ \A g \in Groups : g \notin gs =>
                 /\ sample'[g] = sample[g] /\ task'[g] = task[g] /\ stage'[g] = stage[g]
                 /\ (Back(g)' <=> Back(g)) /\ (New(g)' <=> New(g)) /\ (Complete(g)' <=> Complete(g))
      /\ \A g \in Groups : g \in gs => task'[g] = "none" /\ \A i \in Index : sample'[g][i] = Fresh
  BY Dropped
<1>1. Staged'
  <2>1. ASSUME NEW g \in Groups, g \notin gs
        PROVE  /\ task'[g] \in {"created", "done"} => Back(g)' \/ New(g)'
               /\ task'[g] = "waiting" => \A i \in Index :
                  /\ stage'[g][i] # "none"
                  /\ stage'[g][i] = "done" => Whole(sample[g][i])'
                  /\ stage'[g][i] = "scoring" => Finished(sample'[g][i]) /\ ~conf'.groupRm
               /\ task'[g] = "scoring" => conf'.groupRm /\ \A i \in Index : stage'[g][i] = "done"
    BY <1>d, <2>1 DEF Staged, Whole
  <2>2. ASSUME NEW g \in Groups, g \in gs PROVE task'[g] = "none"
    BY <1>d, <2>2
  <2>3. ASSUME NEW g \in Groups, g \in buffer' \cup kept' PROVE Back(g)'
    BY <1>d, <2>3
  <2> QED  BY <2>1, <2>2, <2>3 DEF Staged
<1>2. Completed'
  <2>1. ASSUME ~aborted, NEW g \in Groups, task'[g] \in {"waiting", "scoring"}, NEW i \in Index,
               stage'[g][i] \in {"done", "scoring"}
        PROVE  Through(g, sample[g][i])'
    <3>1. g \notin gs
      BY <1>d, <2>1
    <3> QED  BY <1>d, <2>1, <3>1 DEF Completed, Through
  <2>2. ASSUME ~aborted, NEW g \in Groups, g \in pendings' \cup done' \cup data', task'[g] = "done"
        PROVE  Complete(g)'
    <3>1. g \notin gs
      BY <1>d, <2>2
    <3> QED  BY <1>d, <2>2, <3>1 DEF Completed
  <2>3. ASSUME Chosen', NEW g \in Groups, g \in data' PROVE Complete(g)'
    <3>1. Chosen /\ data' = data
      BY <2>3 DEF Chosen
    <3>2. g \notin gs
      BY <2>3
    <3> QED  BY <1>d, <2>3, <3>1, <3>2 DEF Completed
  <2> QED  BY <2>1, <2>2, <2>3 DEF Completed, TypeOK
<1>3. Masked'
  <2> SUFFICES ASSUME NEW h \in Groups, NEW k \in Index
               PROVE  LET x == sample'[h][k] IN
                      /\ MaskFits(x, conf, version)
                      /\ (h \in buffer' /\ call' \notin {"train", "publish"}) \/ (h \in pendings' \ leftover' /\ task'[h] = "created")
                            => Old(x, version)
                      /\ Ours(h)' /\ task'[h] \in {"waiting", "scoring"} => OnPolicy(x, conf, version)
                      /\ Ours(h)' /\ task'[h] = "done" /\ (~aborted' \/ (Chosen' /\ h \in data'))
                            => OnPolicy(x, conf, version)
    BY DEF Masked, Ours
  <2>1. CASE h \in gs
    BY <1>d, <2>1, FreshSample DEF TypeOK
  <2>2. CASE h \notin gs
    <3>1. Chosen' /\ h \in data' => Chosen /\ h \in data
      BY DEF Chosen
    <3>2. Ours(h)' => Ours(h)
      BY DEF Ours
    <3> QED  BY <1>d, <2>2, <3>1, <3>2 DEF Masked
  <2> QED  BY <2>1, <2>2
<1> QED  BY <1>1, <1>2, <1>3

(* The rollout raises.                                                        *)
LEMMA RaiseStep ==
    ASSUME IInv, Raise, call \notin {"train", "publish"},
           UNCHANGED <<conf, buffer, state, version, rollout, leftover, restarts, rejects>>,
           paused' \in BOOLEAN, paused' => paused, faults' \in Nat \ {0}
    PROVE  IInv'
<1> USE DEF IInv
<1> DEFINE gs == done \cup data \cup kept
<1>a. /\ call' = "failed" /\ done' = {} /\ data' = {} /\ kept' = {} /\ Drop(gs)
      /\ UNCHANGED <<pendings, remaining, aborted, cancellable, active>>
  BY DEF Raise, state
<1> HIDE DEF gs
<1>b. /\ sample' \in [Groups -> [Index -> Samples]] /\ stage' \in [Groups -> [Index -> Stages]]
      /\ task' \in [Groups -> Tasks]
      /\ \A g \in Groups : g \notin gs => task'[g] = task[g]
      /\ \A g \in Groups : g \in gs => task'[g] = "none"
      /\ \A g \in Groups, i \in Index :
            \/ stage'[g][i] = stage[g][i]
            \/ g \in gs /\ stage[g][i] \in {"done", "failed"} /\ stage'[g][i] = "none"
      /\ Sent' = Sent
  BY <1>a, Dropped
<1>c. \A g \in Groups, i \in Index :
        /\ stage'[g][i] = "sent" <=> stage[g][i] = "sent"
        /\ stage'[g][i] = "cancelled" => stage[g][i] = "cancelled"
        /\ stage'[g][i] = "failed" => stage[g][i] = "failed"
        /\ stage'[g][i] = "cut" <=> stage[g][i] = "cut"
        /\ stage'[g][i] \in Working => stage[g][i] \in Working
  BY <1>b DEF Working
<1>1. TypeOK'
  BY <1>a, <1>b DEF TypeOK, Calls
<1>2. OnePlace'
  BY <1>a DEF OnePlace
<1>3. Tasked'
  BY <1>a, <1>b DEF Tasked, Held, OnePlace, gs
<1>4. Staged' /\ Completed' /\ Masked'
  <2>1. gs \cap buffer = {}
    BY DEF gs, OnePlace
  <2>2. buffer \subseteq {g \in Groups : Back(g)}
    BY DEF Staged, TypeOK
  <2> QED  BY <1>a, <2>1, <2>2, DropKeeps DEF Held, TypeOK
<1>5. Flagged'
  <2>1. \A g \in Groups : Ours(g)' => Ours(g)
    BY <1>a DEF Ours
  <2> QED  BY <1>a, <1>c, <2>1 DEF Flagged
<1>6. Requested'
  BY DEF Requested
<1>7. Counted'
  BY <1>a, FS_EmptySet, Constants DEF Counted, Chosen
<1> QED  BY <1>1, <1>2, <1>3, <1>4, <1>5, <1>6, <1>7

(* A rollout begins.                                                          *)
LEMMA BeginStep ==
    ASSUME IInv, Begin, UNCHANGED <<conf, rejects, faults>>
    PROVE  IInv'
<1> USE DEF IInv
<1>a. /\ UNCHANGED <<sample, stage, task, pendings, remaining, aborted, cancellable, active>>
      /\ Sent' = Sent /\ call = "idle" /\ call' = "sampling" /\ done' = {} /\ data' = {} /\ kept' = {}
      /\ done = {} /\ data = {} /\ kept = {}
  BY DEF tasks, state, Sent, OnePlace, Begin
<1>1. TypeOK'
  BY <1>a DEF TypeOK, Calls, Tasks, Begin
<1>2. OnePlace'
  BY <1>a DEF OnePlace, Begin
<1>3. Tasked'
  BY <1>a DEF Tasked, Held, Begin
<1>4. Staged'
  BY <1>a DEF Staged, Back, New, Whole, Begin
<1>5. Completed'
  BY <1>a DEF Completed, Complete, Through, Chosen, Begin
<1>6. Masked'
  BY <1>a DEF Masked, Ours, Chosen, Begin
<1>7. Flagged'
  BY <1>a DEF Flagged, Ours, Begin
<1>8. Requested'
  BY <1>a DEF Requested, Sent, Begin
<1>9. Counted'
  BY <1>a, FS_EmptySet, Constants DEF Counted, Chosen, Begin
<1> QED  BY <1>1, <1>2, <1>3, <1>4, <1>5, <1>6, <1>7, <1>8, <1>9

(* Tasks that have ended are taken over.                                      *)
LEMMA WaitStep ==
    ASSUME IInv, Wait, UNCHANGED <<conf, rejects, faults>>
    PROVE  IInv'
<1> USE DEF IInv
<1>a. /\ UNCHANGED <<sample, stage, task>> /\ Sent' = Sent /\ Ended \subseteq pendings /\ Ended \subseteq Groups
      /\ \A g \in Ended : task[g] \in {"done", "failed"} /\ g \in pendings
      /\ done = {}
  BY DEF tasks, Sent, Ended, OnePlace, TypeOK, Wait
<1>b. pendings' \cup done' = pendings \cup done
  BY <1>a DEF Wait
<1>c. Cardinality(pendings') + Cardinality(done') = Cardinality(pendings) + Cardinality(done)
  <2>1. /\ pendings' = pendings \ Ended /\ done' = Ended
        /\ pendings = (pendings \ Ended) \cup Ended /\ (pendings \ Ended) \cap Ended = {}
    BY <1>a DEF Wait
  <2>2. pendings \ Ended \in SUBSET Groups /\ Ended \in SUBSET Groups
    BY <1>a DEF TypeOK
  <2>3. Cardinality((pendings \ Ended) \cup Ended) = Cardinality(pendings \ Ended) + Cardinality(Ended)
    BY <2>1, <2>2, DisjointSizes
  <2>4. Cardinality(done) = 0
    BY <1>a, FS_EmptySet
  <2>5. Cardinality(pendings \ Ended) \in Nat /\ Cardinality(Ended) \in Nat
    BY <2>2, Sizes
  <2>6. Cardinality(pendings) = Cardinality(pendings') + Cardinality(done')
    BY <2>1, <2>3
  <2> QED  BY <2>1, <2>4, <2>5, <2>6
<1>1. TypeOK'
  BY <1>a DEF TypeOK, Calls, Tasks, Wait
<1>2. OnePlace'
  BY <1>a DEF OnePlace, Wait
<1>3. Tasked'
  BY <1>a, <1>b DEF Tasked, Held, Wait
<1>4. Staged'
  BY <1>a DEF Staged, Back, New, Whole, Wait
<1>5. Completed'
  BY <1>a, <1>b DEF Completed, Complete, Through, Chosen, Wait
<1>6. Masked'
  BY <1>a, <1>b DEF Masked, Ours, Chosen, Wait
<1>7. Flagged'
  BY <1>a DEF Flagged, Ours, Wait
<1>8. Requested'
  BY <1>a DEF Requested, Sent, Wait
<1>9. Counted'
  BY <1>c DEF Counted, Chosen, Wait
<1> QED  BY <1>1, <1>2, <1>3, <1>4, <1>5, <1>6, <1>7, <1>8, <1>9

(* Every task that had ended is dealt with.                                   *)
LEMMA TakenStep ==
    ASSUME IInv, Taken, UNCHANGED <<conf, rejects, faults>>
    PROVE  IInv'
<1> USE DEF IInv
<1>a. UNCHANGED <<sample, stage, task, pendings, remaining, aborted, cancellable, active>> /\ Sent' = Sent
  BY DEF tasks, state, Sent, Taken
<1>b. Cardinality(data) \in Nat /\ Cardinality(done) = 0 /\ Cardinality(data) <= Batch
  BY Sizes, FS_EmptySet DEF TypeOK, Taken, Counted
<1>1. TypeOK'
  BY <1>a DEF TypeOK, Calls, Tasks, Taken
<1>2. OnePlace'
  BY <1>a DEF OnePlace, Taken
<1>3. Tasked'
  BY <1>a DEF Tasked, Held, Taken
<1>4. Staged'
  BY <1>a DEF Staged, Back, New, Whole, Taken
<1>5. Completed'
  BY <1>a DEF Completed, Complete, Through, Chosen, Taken
<1>6. Masked'
  BY <1>a DEF Masked, Ours, Chosen, Taken
<1>7. Flagged'
  BY <1>a DEF Flagged, Ours, Taken
<1>8. Requested'
  BY <1>a DEF Requested, Sent, Taken
<1>9. Counted'
  BY <1>a, <1>b, Constants DEF Counted, Chosen, Taken
<1> QED  BY <1>1, <1>2, <1>3, <1>4, <1>5, <1>6, <1>7, <1>8, <1>9

(* The servers are paused.                                                    *)
LEMMA PauseServersStep ==
    ASSUME IInv, PauseServers, UNCHANGED <<conf, rejects, faults>>
    PROVE  IInv'
<1> USE DEF IInv
<1>a. UNCHANGED <<sample, stage, task, pendings, remaining, aborted, cancellable, active>> /\ Sent' = Sent
  BY DEF tasks, state, Sent, PauseServers
<1>1. TypeOK'
  BY <1>a DEF TypeOK, Calls, Tasks, PauseServers
<1>2. OnePlace'
  BY <1>a DEF OnePlace, PauseServers
<1>3. Tasked'
  BY <1>a DEF Tasked, Held, PauseServers
<1>4. Staged'
  BY <1>a DEF Staged, Back, New, Whole, PauseServers
<1>5. Completed'
  BY <1>a DEF Completed, Complete, Through, Chosen, PauseServers
<1>6. Masked'
  BY <1>a DEF Masked, Ours, Chosen, PauseServers
<1>7. Flagged'
  BY <1>a DEF Flagged, Ours, PauseServers
<1>8. Requested'
  BY <1>a DEF Requested, Sent, PauseServers
<1>9. Counted'
  BY <1>a DEF Counted, Chosen, PauseServers
<1> QED  BY <1>1, <1>2, <1>3, <1>4, <1>5, <1>6, <1>7, <1>8, <1>9

(* A server does not acknowledge the pause.                                   *)
LEMMA PauseFailsStep ==
    ASSUME IInv, PauseFails, UNCHANGED <<conf, rejects>>
    PROVE  IInv'
<1> USE DEF IInv
<1>a. UNCHANGED <<sample, stage, task, pendings, remaining, aborted, cancellable, active>> /\ Sent' = Sent
  BY DEF tasks, state, Sent, PauseFails
<1>b. faults' = faults + 1 /\ faults' \in Nat /\ faults' # 0 /\ paused' \in BOOLEAN
  BY DEF PauseFails, TypeOK
<1>1. TypeOK'
  BY <1>a, <1>b DEF TypeOK, Calls, Tasks, PauseFails
<1>2. OnePlace'
  BY <1>a DEF OnePlace, PauseFails
<1>3. Tasked'
  BY <1>a DEF Tasked, Held, PauseFails
<1>4. Staged'
  BY <1>a DEF Staged, Back, New, Whole, PauseFails
<1>5. Completed'
  BY <1>a DEF Completed, Complete, Through, Chosen, PauseFails
<1>6. Masked'
  BY <1>a DEF Masked, Ours, Chosen, PauseFails
<1>7. Flagged'
  BY <1>a, <1>b DEF Flagged, Ours, PauseFails
<1>8. Requested'
  BY <1>a, <1>b DEF Requested, Sent, PauseFails
<1>9. Counted'
  BY <1>a DEF Counted, Chosen, PauseFails
<1> QED  BY <1>1, <1>2, <1>3, <1>4, <1>5, <1>6, <1>7, <1>8, <1>9

(* The cancelled streams have ended.                                          *)
LEMMA GatherCancelledStep ==
    ASSUME IInv, GatherCancelled, UNCHANGED <<conf, rejects, faults>>
    PROVE  IInv'
<1> USE DEF IInv
<1>a. UNCHANGED <<sample, stage, task, pendings, remaining, aborted, cancellable, active>> /\ Sent' = Sent
  BY DEF tasks, state, Sent, GatherCancelled
<1>1. TypeOK'
  BY <1>a DEF TypeOK, Calls, Tasks, GatherCancelled
<1>2. OnePlace'
  BY <1>a DEF OnePlace, GatherCancelled
<1>3. Tasked'
  BY <1>a DEF Tasked, Held, GatherCancelled
<1>4. Staged'
  BY <1>a DEF Staged, Back, New, Whole, GatherCancelled
<1>5. Completed'
  BY <1>a DEF Completed, Complete, Through, Chosen, GatherCancelled
<1>6. Masked'
  BY <1>a DEF Masked, Ours, Chosen, GatherCancelled
<1>7. Flagged'
  BY <1>a DEF Flagged, Ours, GatherCancelled
<1>8. Requested'
  BY <1>a DEF Requested, Sent, GatherCancelled
<1>9. Counted'
  BY <1>a DEF Counted, Chosen, GatherCancelled
<1> QED  BY <1>1, <1>2, <1>3, <1>4, <1>5, <1>6, <1>7, <1>8, <1>9

(* The servers are resumed.                                                   *)
LEMMA ResumeServersStep ==
    ASSUME IInv, ResumeServers, UNCHANGED <<conf, rejects, faults>>
    PROVE  IInv'
<1> USE DEF IInv
<1>a. UNCHANGED <<sample, stage, task, pendings, remaining, aborted, cancellable, active>> /\ Sent' = Sent
  BY DEF tasks, state, Sent, ResumeServers
<1>1. TypeOK'
  BY <1>a DEF TypeOK, Calls, Tasks, ResumeServers
<1>2. OnePlace'
  BY <1>a DEF OnePlace, ResumeServers
<1>3. Tasked'
  BY <1>a DEF Tasked, Held, ResumeServers
<1>4. Staged'
  BY <1>a DEF Staged, Back, New, Whole, ResumeServers
<1>5. Completed'
  BY <1>a DEF Completed, Complete, Through, Chosen, ResumeServers
<1>6. Masked'
  BY <1>a DEF Masked, Ours, Chosen, ResumeServers
<1>7. Flagged'
  BY <1>a DEF Flagged, Ours, ResumeServers
<1>8. Requested'
  BY <1>a DEF Requested, Sent, ResumeServers
<1>9. Counted'
  BY <1>a DEF Counted, Chosen, ResumeServers
<1> QED  BY <1>1, <1>2, <1>3, <1>4, <1>5, <1>6, <1>7, <1>8, <1>9

(* The rollout returns and its prefixes go back to the data source.           *)
LEMMA ReturnStep ==
    ASSUME IInv, Return, UNCHANGED <<conf, rejects, faults>>
    PROVE  IInv'
<1> USE DEF IInv
<1>a. /\ UNCHANGED <<sample, stage, task>> /\ Sent' = Sent /\ pendings = {} /\ aborted /\ ~paused /\ done = {}
  BY DEF tasks, Sent, OnePlace, Flagged, Return
<1>b. /\ \A g \in Groups : task[g] \notin {"waiting", "scoring"}
      /\ faults = 0 => Sent = {} /\ \A g \in Groups, i \in Index : stage[g][i] # "sent"
  <2>1. \A g \in Groups : task[g] \notin {"waiting", "scoring"}
    BY <1>a DEF Tasked, Held
  <2>2. faults = 0 => \A g \in Groups, i \in Index : stage[g][i] # "sent"
    BY <2>1 DEF Requested
  <2> QED  BY <2>1, <2>2 DEF Sent
<1>c. buffer' = buffer \cup kept /\ \A g \in buffer' : g \in buffer \/ g \in kept
  BY DEF Return
<1>1. TypeOK'
  <2>1. buffer' \subseteq Groups /\ leftover' \subseteq Groups /\ active' \in Int /\ remaining' \in Int
    BY DEF TypeOK, Return
  <2>2. cancellable' \subseteq Groups \X Index /\ pendings' \subseteq Groups /\ kept' \subseteq Groups
    BY DEF Return
  <2> QED  BY <1>a, <2>1, <2>2 DEF TypeOK, Calls, Return
<1>2. OnePlace'
  BY <1>a DEF OnePlace, Return
<1>3. Tasked'
  BY <1>a DEF Tasked, Held, Return
<1>4. Staged'
  BY <1>a DEF Staged, Back, New, Whole, Return
<1>5. Completed'
  <2>1. ASSUME NEW g \in data PROVE Complete(g)' <=> Complete(g)
    <3>1. g \in leftover' <=> g \in leftover
      BY DEF Return
    <3> QED  BY <1>a, <3>1 DEF Complete, Through, Finished
  <2>2. data \subseteq Groups /\ \A g \in data : Complete(g)
    BY DEF Completed, Chosen, TypeOK, Return
  <2>3. pendings' \cup done' \cup data' = data
    BY <1>a DEF Return
  <2> QED  BY <1>a, <1>b, <2>1, <2>2, <2>3 DEF Completed, Return
<1>6. Masked'
  BY <1>a DEF Masked, Ours, Chosen, Return
<1>7. Flagged'
  BY <1>a DEF Flagged, Ours, Return
<1>8. Requested'
  <2>1. faults = 0 => active' = Cardinality(Sent')
    BY <1>a, <1>b, FS_EmptySet DEF Return
  <2> QED  BY <1>a, <1>b, <2>1 DEF Requested, Return
<1>9. Counted'
  BY <1>a DEF Counted, Chosen, Return
<1> QED  BY <1>1, <1>2, <1>3, <1>4, <1>5, <1>6, <1>7, <1>8, <1>9

(* A failed attempt is submitted again, and what it left behind noted down.   *)
LEMMA RestartStep ==
    ASSUME IInv, Restart, UNCHANGED <<conf, rejects, faults>>
    PROVE  IInv'
<1> USE DEF IInv
<1>a. /\ UNCHANGED <<sample, stage, task, pendings, remaining, aborted, cancellable, active>> /\ Sent' = Sent
      /\ done = {} /\ data = {} /\ UNCHANGED <<done, data, version>> /\ call = "failed" /\ leftover' = pendings
  BY DEF tasks, state, Sent, OnePlace, Restart
<1>b. restarts' # 0 /\ faults # 0
  BY <1>a DEF TypeOK, Requested, Restart
<1>c. \A g \in Groups : ~Ours(g)'
  BY <1>a DEF Ours
<1>1. TypeOK'
  BY <1>a DEF TypeOK, Calls, Tasks, Restart
<1>2. OnePlace'
  BY <1>a DEF OnePlace, Restart
<1>3. Tasked'
  BY <1>a DEF Tasked, Held, Restart
<1>4. Staged'
  BY <1>a DEF Staged, Back, New, Whole, Restart
<1>5. Completed'
  <2>1. ASSUME NEW g \in Groups, task[g] \in {"waiting", "scoring"} PROVE g \in pendings
    BY <1>a, <2>1 DEF Tasked, Held
  <2> QED  BY <1>a, <2>1 DEF Completed, Complete, Through, Chosen, Restart
<1>6. Masked'
  BY <1>a, <1>c DEF Masked, Chosen, Restart
<1>7. Flagged'
  BY <1>a, <1>c DEF Flagged, Restart
<1>8. Requested'
  BY <1>b DEF Requested
<1>9. Counted'
  BY <1>a, <1>b DEF Counted, Chosen, Restart
<1> QED  BY <1>1, <1>2, <1>3, <1>4, <1>5, <1>6, <1>7, <1>8, <1>9

(* New weights are published.  Only requests that a failed rollout left       *)
(* behind, or whose group was dropped, are under way then.                    *)
LEMMA PublishStep ==
    ASSUME IInv, Publish, UNCHANGED <<conf, rejects, faults>>
    PROVE  IInv'
<1> USE DEF IInv
<1>a. /\ UNCHANGED <<sample, task, pendings, remaining, aborted, cancellable, active, buffer, done, data, kept>>
      /\ UNCHANGED <<leftover, restarts>> /\ call = "publish" /\ call' = "idle" /\ paused' = FALSE
      /\ done = {} /\ data = {} /\ kept = {} /\ version \in Nat /\ version' = version + 1 /\ rollout' = rollout + 1
  BY DEF state, OnePlace, TypeOK, Publish
<1>b. PICK flush_cache \in BOOLEAN :
           stage' = [g \in Groups |-> [i \in Index |->
               IF flush_cache /\ stage[g][i] = "sent" THEN "cut" ELSE stage[g][i]]]
  BY DEF Publish
<1>c. /\ stage' \in [Groups -> [Index -> Stages]]
      /\ \A g \in Groups, i \in Index :
            stage'[g][i] = stage[g][i] \/ (stage[g][i] = "sent" /\ stage'[g][i] = "cut")
  BY <1>b DEF TypeOK, Stages
<1>d. \A g \in Groups : ~Ours(g) /\ ~Ours(g)'
  BY <1>a DEF Ours, OnePlace
<1>e. faults = 0 => stage' = stage /\ Sent' = Sent /\ Sent = {}
  <2> SUFFICES ASSUME faults = 0 PROVE stage' = stage /\ Sent' = Sent /\ Sent = {}
    OBVIOUS
  <2>1. pendings = {}
    BY <1>a DEF Requested, Counted
  <2>2. ASSUME NEW g \in Groups, NEW i \in Index PROVE stage[g][i] # "sent"
    <3>1. task[g] # "waiting"
      BY <1>a, <2>1 DEF Tasked, Held
    <3> QED  BY <3>1 DEF Requested
  <2>3. stage' = [g \in Groups |-> [i \in Index |-> stage[g][i]]]
    BY <1>b, <2>2
  <2>4. stage' = stage
    BY <2>3 DEF TypeOK
  <2> QED  BY <2>2, <2>4 DEF Sent
<1>1. TypeOK'
  <2>1. version' \in Nat /\ rollout' \in Nat
    BY <1>a DEF TypeOK
  <2> QED  BY <1>a, <1>c, <2>1 DEF TypeOK, Calls
<1>2. OnePlace'
  BY <1>a DEF OnePlace
<1>3. Tasked'
  BY <1>a DEF Tasked, Held
<1>4. Staged'
  <2>1. ASSUME NEW g \in Groups PROVE (Back(g) => Back(g)') /\ (New(g) => New(g)')
    BY <1>a, <1>c DEF Back, New, Whole
  <2>2. \A g \in Groups, i \in Index : stage'[g][i] \in {"none", "done", "scoring"} => stage'[g][i] = stage[g][i]
    BY <1>c
  <2>3. \A g \in Groups, i \in Index : stage[g][i] \in {"none", "done", "scoring"} => stage'[g][i] = stage[g][i]
    BY <1>c
  <2> QED  BY <1>a, <2>1, <2>2, <2>3 DEF Staged, Whole
<1>5. Completed'
  <2>1. \A g \in Groups, i \in Index : stage[g][i] = "done" => stage'[g][i] = "done"
    BY <1>c
  <2>2. \A g \in Groups, i \in Index : stage'[g][i] \in {"done", "scoring"} => stage'[g][i] = stage[g][i]
    BY <1>c
  <2> QED  BY <1>a, <2>1, <2>2 DEF Completed, Complete, Through, Chosen
<1>6. Masked'
  <2>1. ASSUME NEW g \in Groups, NEW i \in Index
        PROVE  MaskFits(sample[g][i], conf, version') /\ Old(sample[g][i], version')
    BY <1>a, SampleFits, NewerWeights
  <2> QED  BY <1>a, <1>d, <2>1 DEF Masked, Chosen
<1>7. Flagged'
  BY <1>a, <1>c, <1>d DEF Flagged
<1>8. Requested'
  BY <1>a, <1>e DEF Requested
<1>9. Counted'
  BY <1>a DEF Counted, Chosen
<1> QED  BY <1>1, <1>2, <1>3, <1>4, <1>5, <1>6, <1>7, <1>8, <1>9

(* More groups are sampled, if those that are left cannot fill the batch.     *)
LEMMA SamplingStep ==
    ASSUME IInv, Sample, UNCHANGED <<conf, rejects, faults>>
    PROVE  IInv'
<1> USE DEF IInv
<1>z. CASE remaining >= Batch
  <2>a. /\ UNCHANGED <<sample, stage, task, pendings, remaining, aborted, cancellable, active>> /\ Sent' = Sent
        /\ call' = "waiting" /\ UNCHANGED <<buffer, paused, version, done, data, kept, rollout, restarts>>
        /\ call = "sampling" /\ Cardinality(data) < Batch /\ done = {}
        /\ leftover' = leftover \cap (pendings \cup data)
    BY <1>z, Constants DEF Sent, Sample, TypeOK, OnePlace
  <2>0. ASSUME NEW g \in Groups PROVE g \in pendings \cup done \cup data => (g \in leftover' <=> g \in leftover)
    BY <2>a
  <2>1. TypeOK' /\ OnePlace' /\ Tasked' /\ Flagged' /\ Requested'
    BY <2>a, <2>0 DEF TypeOK, Calls, OnePlace, Tasked, Held, Flagged, Ours, Requested
  <2>2. Staged' /\ Completed'
    <3>1. ASSUME NEW g \in Groups, task[g] \in {"waiting", "scoring"} PROVE g \in pendings
      BY <2>a, <3>1 DEF Tasked, Held
    <3> QED  BY <2>a, <2>0, <3>1 DEF Staged, Back, New, Whole, Completed, Complete, Through, Chosen
  <2>3. Masked' /\ Counted'
    BY <1>z, <2>a, <2>0 DEF Masked, Ours, Chosen, Counted
  <2> QED  BY <2>1, <2>2, <2>3
<1> SUFFICES ASSUME remaining < Batch PROVE IInv'
  BY <1>z, Constants DEF TypeOK
<1>a. /\ call = "sampling" /\ call' = "sampling" /\ Cardinality(data) < Batch /\ remaining' = remaining + Over
      /\ UNCHANGED <<stage, aborted, cancellable, active, paused, version, done, data, kept, rollout, restarts>>
      /\ leftover' = leftover \cap (pendings \cup data)
      /\ Sent' = Sent /\ done = {} /\ kept = {}
  BY DEF Sample, Sent, OnePlace
<1>b. PICK old \in kSubset(Min({Over, Cardinality(buffer)}), buffer) :
        \E new \in kSubset(Over - Cardinality(old), Unused) :
            /\ buffer' = buffer \ old
            /\ pendings' = pendings \cup old \cup new
            /\ task' = [g \in Groups |-> IF g \in old \cup new THEN "created" ELSE task[g]]
            /\ sample' = [g \in Groups |-> IF g \in new THEN [i \in Index |-> Fresh] ELSE sample[g]]
  BY DEF Sample, Take
<1>c. PICK new \in kSubset(Over - Cardinality(old), Unused) :
            /\ buffer' = buffer \ old
            /\ pendings' = pendings \cup old \cup new
            /\ task' = [g \in Groups |-> IF g \in old \cup new THEN "created" ELSE task[g]]
            /\ sample' = [g \in Groups |-> IF g \in new THEN [i \in Index |-> Fresh] ELSE sample[g]]
  BY <1>b
<1>d. /\ old \subseteq buffer /\ old \subseteq Groups /\ new \subseteq Groups /\ new \cap Held = {}
      /\ \A g \in new, i \in Index : stage[g][i] \in {"none", "done", "failed"}
      /\ Cardinality(new) = Over - Cardinality(old)
  BY DEF kSubset, Unused, TypeOK
<1>e. /\ sample' \in [Groups -> [Index -> Samples]] /\ task' \in [Groups -> Tasks]
      /\ \A g \in Groups : g \notin new => sample'[g] = sample[g]
      /\ \A g \in Groups : g \notin old \cup new => task'[g] = task[g]
      /\ \A g \in old \cup new : task'[g] = "created"
      /\ \A g \in new, i \in Index : sample'[g][i] = Fresh
  <2>1. Fresh \in Samples
    BY FreshSample DEF TypeOK
  <2> QED  BY <1>c, <1>d, <2>1 DEF TypeOK, Tasks
<1>f. /\ \A g \in Groups : g \notin new => (Back(g)' <=> Back(g)) /\ (New(g)' <=> New(g))
      /\ \A g \in pendings \cup done \cup data : g \in Groups /\ g \notin new /\ (Complete(g) => Complete(g)')
      /\ \A g \in old : Back(g)'
      /\ \A g \in new : New(g)'
  <2>1. \A g \in Groups : g \notin new => (Back(g)' <=> Back(g)) /\ (New(g)' <=> New(g))
    BY <1>a, <1>e DEF Back, New, Whole
  <2>4. ASSUME NEW g \in pendings \cup done \cup data
        PROVE  g \in Groups /\ g \notin new /\ (Complete(g) => Complete(g)')
    BY <1>a, <1>d, <1>e, <2>4 DEF Complete, Through, Held, TypeOK
  <2>2. \A g \in old : Back(g) /\ g \notin new
    BY <1>d DEF Staged, Held
  <2>3. \A g \in new : New(g)'
    BY <1>a, <1>d, <1>e DEF New
  <2> QED  BY <1>d, <2>1, <2>2, <2>3, <2>4
<1>g. Cardinality(pendings') = Cardinality(pendings) + Over
  <2>1. old \cap new = {} /\ pendings \cap (old \cup new) = {} /\ old \cup new \in SUBSET Groups
    BY <1>d DEF Held, OnePlace
  <2>2. pendings' = pendings \cup (old \cup new)
    BY <1>c
  <2>3. Cardinality(pendings \cup (old \cup new)) = Cardinality(pendings) + Cardinality(old \cup new)
    BY <2>1, DisjointSizes DEF TypeOK
  <2>4. Cardinality(old \cup new) = Cardinality(old) + Cardinality(new)
    BY <1>d, <2>1, DisjointSizes
  <2>5. Cardinality(old) \in Nat /\ Cardinality(pendings) \in Nat
    BY <1>d, Sizes DEF TypeOK
  <2> QED  BY <1>d, <2>2, <2>3, <2>4, <2>5, Constants
<1>1. TypeOK'
  BY <1>a, <1>c, <1>d, <1>e, Constants DEF TypeOK, Calls, Tasks
<1>2. OnePlace'
  BY <1>a, <1>c, <1>d DEF OnePlace, Held
<1>3. Tasked'
  <2>1. ASSUME NEW g \in Groups, g \in old \cup new
        PROVE  task'[g] = "created" /\ g \in pendings' /\ g \notin buffer' \cup done' \cup data' \cup kept'
    BY <1>a, <1>c, <1>d, <1>e, <2>1 DEF Held, OnePlace
  <2>2. ASSUME NEW g \in Groups, g \notin old \cup new
        PROVE  /\ task'[g] = task[g] /\ (g \in pendings' <=> g \in pendings) /\ (g \in buffer' <=> g \in buffer)
    BY <1>c, <1>e, <2>2
  <2> QED  BY <1>a, <2>1, <2>2 DEF Tasked, Held
<1>4. Staged'
  <2>1. ASSUME NEW g \in Groups, g \in old \cup new
        PROVE  /\ task'[g] = "created" /\ (Back(g)' \/ New(g)') /\ g \notin buffer' \cup kept'
    BY <1>a, <1>c, <1>d, <1>e, <1>f, <2>1 DEF Held
  <2>2. ASSUME NEW g \in Groups, g \notin old \cup new
        PROVE  /\ task'[g] = task[g] /\ sample'[g] = sample[g] /\ (g \in buffer' \cup kept' <=> g \in buffer \cup kept)
               /\ (Back(g)' <=> Back(g)) /\ (New(g)' <=> New(g))
    BY <1>a, <1>c, <1>e, <1>f, <2>2
  <2> QED  BY <1>a, <2>1, <2>2 DEF Staged, Whole
<1>5. Completed'
  <2>1. ASSUME NEW g \in Groups, g \in old \cup new
        PROVE  task'[g] = "created" /\ g \notin data'
    BY <1>a, <1>d, <1>e, <2>1 DEF Held, OnePlace
  <2>2. ASSUME NEW g \in Groups, g \notin old \cup new
        PROVE  /\ task'[g] = task[g] /\ sample'[g] = sample[g]
               /\ (g \in pendings' \cup done' \cup data' <=> g \in pendings \cup done \cup data)
    BY <1>a, <1>c, <1>e, <2>2
  <2>3. ASSUME ~aborted, NEW g \in Groups, g \in pendings' \cup done' \cup data', task'[g] = "done"
        PROVE  Complete(g)'
    BY <1>f, <2>1, <2>2, <2>3 DEF Completed
  <2>4. ASSUME ~aborted, NEW g \in Groups, task'[g] \in {"waiting", "scoring"}, NEW i \in Index,
               stage'[g][i] \in {"done", "scoring"}
        PROVE  Through(g, sample[g][i])'
    <3>1. g \notin old \cup new /\ task'[g] = task[g] /\ sample'[g] = sample[g]
      BY <2>1, <2>2, <2>4
    <3>2. g \in pendings
      BY <1>a, <2>4, <3>1 DEF Tasked, Held
    <3> QED  BY <1>a, <2>4, <3>1, <3>2 DEF Completed, Through
  <2> QED  BY <1>a, <2>3, <2>4 DEF Completed, Chosen
<1>6. Masked'
  <2> SUFFICES ASSUME NEW h \in Groups, NEW k \in Index
               PROVE  LET x == sample'[h][k] IN
                      /\ MaskFits(x, conf, version)
                      /\ (h \in buffer' /\ call' \notin {"train", "publish"}) \/ (h \in pendings' \ leftover' /\ task'[h] = "created")
                            => Old(x, version)
                      /\ Ours(h)' /\ task'[h] \in {"waiting", "scoring"} => OnPolicy(x, conf, version)
                      /\ Ours(h)' /\ task'[h] = "done" /\ (~aborted' \/ (Chosen' /\ h \in data'))
                            => OnPolicy(x, conf, version)
    BY <1>a DEF Masked, Ours
  <2>1. CASE h \in new
    BY <1>e, <2>1, FreshSample DEF TypeOK
  <2>2. CASE h \in old
    <3>1. h \in buffer /\ task'[h] = "created" /\ sample'[h] = sample[h]
      BY <1>d, <1>e, <2>2 DEF Held
    <3> QED  BY <1>a, <3>1 DEF Masked
  <2>3. CASE h \notin old \cup new
    <3>1. /\ task'[h] = task[h] /\ sample'[h] = sample[h] /\ (h \in buffer' => h \in buffer)
          /\ (h \in pendings' <=> h \in pendings) /\ (Ours(h)' <=> Ours(h))
          /\ (h \in pendings' \ leftover' <=> h \in pendings \ leftover)
      BY <1>a, <1>c, <1>e, <2>3 DEF Ours
    <3> QED  BY <1>a, <3>1 DEF Masked, Chosen
  <2> QED  BY <2>1, <2>2, <2>3
<1>7. Flagged'
  <2>1. ASSUME NEW g \in Groups, NEW i \in Index, stage[g][i] = "cut" PROVE ~Ours(g)'
    <3>1. g \notin old \cup new
      BY <1>d, <2>1 DEF Staged, Back
    <3> QED  BY <1>a, <1>c, <2>1, <3>1 DEF Flagged, Ours
  <2> QED  BY <1>a, <2>1 DEF Flagged
<1>8. Requested'
  <2>1. ASSUME NEW g \in old \cup new, NEW i \in Index PROVE stage[g][i] \notin Working
    BY <1>d, <2>1 DEF Staged, Back, Working
  <2>2. ASSUME faults = 0, NEW g \in Groups, NEW i \in Index
        PROVE  /\ task'[g] # "failed" /\ stage'[g][i] \notin {"cut", "failed"}
               /\ stage'[g][i] \in Working => task'[g] = "waiting"
               /\ stage'[g][i] = "sent" /\ conf.streaming => <<g, i>> \in cancellable
    BY <1>a, <1>e, <2>1, <2>2 DEF Requested, Working
  <2>3. Index # {}
    BY Constants
  <2> QED  BY <1>a, <2>2, <2>3 DEF Requested, Working
<1>9. Counted'
  <2>1. Cardinality(pendings) \in Nat /\ Cardinality(done) \in Nat /\ Cardinality(data) \in Nat
    BY Sizes DEF TypeOK
  <2>2. restarts = 0 => remaining' = Cardinality(pendings') + Cardinality(done') + Cardinality(data')
    <3>1. restarts = 0 => remaining = Cardinality(pendings) + Cardinality(done) + Cardinality(data)
      BY <1>a DEF Counted
    <3> QED  BY <1>a, <1>g, <2>1, <3>1, Constants
  <2> QED  BY <1>a, <2>2 DEF Counted, Chosen
<1> QED  BY <1>1, <1>2, <1>3, <1>4, <1>5, <1>6, <1>7, <1>8, <1>9

(* Groups whose tasks have ended are put aside, if they have a prefix, or     *)
(* dropped.                                                                   *)
LEMMA DrainStep ==
    ASSUME IInv, Drain, UNCHANGED <<conf, rejects, faults>>
    PROVE  IInv'
<1> USE DEF IInv
<1>a. /\ pendings' = pendings \ Ended /\ Ended \subseteq pendings /\ Ended \subseteq Groups /\ call = "drain" /\ aborted
      /\ \A g \in Ended : task[g] \in {"done", "failed"}
      /\ UNCHANGED <<buffer, remaining, aborted, cancellable, active, paused, version, done, data, rollout, leftover, restarts>>
      /\ done = {}
  BY DEF Drain, Ended, TypeOK, Flagged, OnePlace
<1>z. CASE conf.partial /\ \E g \in Ended : task[g] = "failed"
  <2>a. UNCHANGED <<sample, stage, task, kept>> /\ Sent' = Sent /\ call' = "undo" /\ faults # 0
    BY <1>a, <1>z DEF Drain, tasks, Sent, Requested
  <2>1. TypeOK' /\ OnePlace' /\ Requested' /\ Counted'
    BY <1>a, <2>a DEF TypeOK, Calls, OnePlace, Requested, Counted, Chosen
  <2>4. Flagged'
    <3>1. \A g \in Groups : Ours(g)' => Ours(g)
      BY <1>a DEF Ours
    <3> QED  BY <1>a, <2>a, <3>1 DEF Flagged
  <2>2. Tasked' /\ Staged' /\ Completed'
    BY <1>a, <2>a DEF Tasked, Held, Staged, Back, New, Whole, Completed, Complete, Through, Chosen
  <2>3. Masked'
    BY <1>a, <2>a DEF Masked, Ours, Chosen
  <2> QED  BY <2>1, <2>2, <2>3, <2>4
<1> SUFFICES ASSUME ~(conf.partial /\ \E g \in Ended : task[g] = "failed") PROVE IInv'
  BY <1>z
<1> DEFINE back == {g \in Ended : conf.partial /\ Keeps(g)}
           gs == Ended \ back
<1>b. kept' = kept \cup back /\ Drop(gs) /\ call' = call
  BY DEF Drain
<1>c. /\ back \subseteq Ended /\ gs \subseteq Ended /\ gs \cap back = {}
      /\ \A g \in back : task[g] = "done" /\ Back(g)
  <2>1. ASSUME NEW g \in back PROVE task[g] = "done" /\ Back(g)
    <3>1. g \in Groups /\ task[g] = "done"
      BY <1>a
    <3>2. PICK i \in Index : sample[g][i].status = "aborted"
      BY DEF Keeps
    <3>3. ~New(g)
      BY <3>2, FreshSample DEF New, TypeOK
    <3> QED  BY <3>1, <3>3 DEF Staged
  <2> QED  BY <2>1
<1> HIDE DEF back, gs
<1>d. /\ sample' \in [Groups -> [Index -> Samples]] /\ stage' \in [Groups -> [Index -> Stages]]
      /\ task' \in [Groups -> Tasks]
      /\ \A g \in Groups : g \notin gs => task'[g] = task[g]
      /\ \A g \in Groups : g \in gs => task'[g] = "none"
      /\ \A g \in Groups, i \in Index :
            \/ stage'[g][i] = stage[g][i]
            \/ g \in gs /\ stage[g][i] \in {"done", "failed"} /\ stage'[g][i] = "none"
      /\ Sent' = Sent
  BY <1>a, <1>b, Dropped
<1>e. \A g \in Groups, i \in Index :
        /\ stage'[g][i] = "sent" <=> stage[g][i] = "sent"
        /\ stage'[g][i] = "cancelled" => stage[g][i] = "cancelled"
        /\ stage'[g][i] = "failed" => stage[g][i] = "failed"
        /\ stage'[g][i] = "cut" <=> stage[g][i] = "cut"
        /\ stage'[g][i] \in Working => stage[g][i] \in Working
  BY <1>d DEF Working
<1>f. Staged' /\ Completed' /\ Masked'
  <2>1. buffer \cup data \cup kept \cup back \subseteq Held
    BY <1>a, <1>c DEF Held
  <2>2. gs \cap (buffer \cup data \cup kept \cup back) = {}
    BY <1>a, <1>c DEF OnePlace
  <2>3. buffer \cup kept \cup back \subseteq {g \in Groups : Back(g)} /\ data \subseteq Groups
    BY <1>a, <1>c DEF Staged, TypeOK
  <2> QED  BY <1>a, <1>b, <2>1, <2>2, <2>3, DropKeeps
<1>1. TypeOK'
  BY <1>a, <1>b, <1>c, <1>d DEF TypeOK, Calls, Tasks
<1>2. OnePlace'
  BY <1>a, <1>b, <1>c DEF OnePlace
<1>3. Tasked'
  BY <1>a, <1>b, <1>c, <1>d DEF Tasked, Held, OnePlace
<1>4. Staged'
  BY <1>f
<1>5. Completed'
  BY <1>f
<1>6. Masked'
  BY <1>f
<1>7. Flagged'
  <2>1. \A g \in Groups : Ours(g)' => Ours(g)
    BY <1>a DEF Ours
  <2> QED  BY <1>a, <1>b, <1>e, <2>1 DEF Flagged
<1>8. Requested'
  <2>1. ASSUME faults = 0, NEW g \in Groups, NEW i \in Index
        PROVE  /\ stage[g][i] \notin {"cut", "failed"} /\ (stage[g][i] \in Working => task[g] = "waiting" /\ g \notin gs)
               /\ stage[g][i] = "sent" /\ conf.streaming => <<g, i>> \in cancellable
    BY <1>a, <1>c, <2>1 DEF Requested, Working
  <2>2. ASSUME faults = 0, NEW g \in Groups PROVE task'[g] # "failed"
    BY <1>d, <2>2 DEF Requested
  <2>3. ASSUME faults = 0, NEW g \in Groups, NEW i \in Index
        PROVE  /\ stage'[g][i] \notin {"cut", "failed"} /\ (stage'[g][i] \in Working => task'[g] = "waiting")
               /\ stage'[g][i] = "sent" /\ conf.streaming => <<g, i>> \in cancellable
    BY <1>d, <1>e, <2>1, <2>3
  <2> QED  BY <1>a, <1>b, <1>d, <2>2, <2>3 DEF Requested, Working
<1>9. Counted'
  BY <1>a, <1>b DEF Counted, Chosen
<1> QED  BY <1>1, <1>2, <1>3, <1>4, <1>5, <1>6, <1>7, <1>8, <1>9

(* The batch is trained on.                                                   *)
LEMMA TrainStep ==
    ASSUME IInv, Train, UNCHANGED <<conf, rejects, faults>>
    PROVE  IInv'
<1> USE DEF IInv
<1>a. /\ call = "train" /\ call' = "publish" /\ data' = {} /\ Drop(data) /\ version \in Nat
      /\ UNCHANGED <<buffer, paused, version, done, kept, leftover, restarts>>
      /\ UNCHANGED <<pendings, remaining, aborted, cancellable, active>>
      /\ done = {} /\ kept = {} /\ pendings = {}
  BY DEF Train, state, OnePlace, TypeOK
<1>b. /\ sample' \in [Groups -> [Index -> Samples]] /\ stage' \in [Groups -> [Index -> Stages]]
      /\ task' \in [Groups -> Tasks]
      /\ \A g \in Groups : g \notin data =>
            /\ task'[g] = task[g] /\ sample'[g] = sample[g] /\ stage'[g] = stage[g]
            /\ (Back(g)' <=> Back(g)) /\ (New(g)' <=> New(g))
      /\ \A g \in Groups : g \in data => task'[g] = "none" /\ \A i \in Index : sample'[g][i] = Fresh
      /\ \A g \in Groups, i \in Index :
            \/ stage'[g][i] = stage[g][i]
            \/ g \in data /\ stage[g][i] \in {"done", "failed"} /\ stage'[g][i] = "none"
      /\ Sent' = Sent
  BY <1>a, Dropped
<1>c. \A g \in Groups, i \in Index :
        /\ stage'[g][i] = "sent" <=> stage[g][i] = "sent"
        /\ stage'[g][i] = "cancelled" => stage[g][i] = "cancelled"
        /\ stage'[g][i] = "failed" => stage[g][i] = "failed"
        /\ stage'[g][i] = "cut" <=> stage[g][i] = "cut"
        /\ stage'[g][i] \in Working => stage[g][i] \in Working
  BY <1>b DEF Working
<1>d. \A g \in Groups : task[g] \in {"none", "done", "failed"}
  BY <1>a DEF Tasked, Held
<1>e. \A g \in Groups : task'[g] \in {"none", "done", "failed"}
  BY <1>b, <1>d
<1>1. TypeOK'
  BY <1>a, <1>b DEF TypeOK, Calls, Tasks, Train
<1>2. OnePlace'
  BY <1>a DEF OnePlace
<1>3. Tasked'
  BY <1>a, <1>b DEF Tasked, Held, OnePlace
<1>4. Staged'
  <2>1. \A g \in buffer \cup kept : g \notin data /\ g \in Groups
    BY DEF OnePlace, TypeOK
  <2> QED  BY <1>a, <1>b, <1>e, <2>1 DEF Staged
<1>5. Completed'
  BY <1>a, <1>e DEF Completed, Complete, Through, Chosen
<1>6. Masked'
  <2>1. ASSUME NEW g \in Groups, NEW i \in Index
        PROVE  MaskFits(sample'[g][i], conf, version)
    BY <1>b, SampleFits, FreshSample DEF TypeOK
  <2> QED  BY <1>a, <2>1 DEF Masked, Ours
<1>7. Flagged'
  <2>1. \A g \in Groups : Ours(g)' => Ours(g)
    BY <1>a DEF Ours
  <2> QED  BY <1>a, <1>c, <2>1 DEF Flagged
<1>8. Requested'
  <2>1. ASSUME faults = 0, NEW g \in Groups
        PROVE  /\ task[g] # "failed"
               /\ \A i \in Index : stage[g][i] \notin Working /\ stage[g][i] \notin {"cut", "failed"}
    BY <1>d, <2>1 DEF Requested, Working
  <2>2. ASSUME faults = 0, NEW g \in Groups
        PROVE  /\ task'[g] # "failed"
               /\ \A i \in Index : stage'[g][i] \notin Working /\ stage'[g][i] \notin {"cut", "failed"}
    BY <1>b, <1>c, <2>1, <2>2
  <2>3. faults = 0 /\ ~conf.streaming => active' = Cardinality(Sent')
    BY <1>a, <1>b DEF Requested
  <2> QED  BY <1>a, <2>2, <2>3 DEF Requested, Working
<1>9. Counted'
  BY <1>a, FS_EmptySet, Constants DEF Counted, Chosen, Train
<1> QED  BY <1>1, <1>2, <1>3, <1>4, <1>5, <1>6, <1>7, <1>8, <1>9

(* The first groups that pass the filter make up the batch.                   *)
LEMMA TakeGroupStep ==
    ASSUME IInv, NEW g \in Groups, TakeGroup(g), UNCHANGED <<conf, faults>>
    PROVE  IInv'
<1> USE DEF IInv
<1>a. /\ call = "taking" /\ g \in done /\ task[g] = "done" /\ done' = done \ {g}
      /\ UNCHANGED <<buffer, pendings, aborted, cancellable, active, paused, version,
                     call, kept, rollout, leftover, restarts>>
      /\ rejects' \in Nat /\ kept = {}
  BY DEF TakeGroup, TypeOK, OnePlace
<1>b. \/ remaining' = remaining - 1 /\ Drop({g}) /\ data' = data
      \/ Cardinality(data) < Batch /\ data' = data \cup {g} /\ remaining' = remaining /\ UNCHANGED <<sample, stage, task>>
      \/ ~(Cardinality(data) < Batch) /\ Drop({g}) /\ remaining' = remaining /\ data' = data
  BY DEF TakeGroup, CountDrop, tasks
<1>c. Cardinality(done') = Cardinality(done) - 1 /\ Cardinality(done') \in Nat /\ Cardinality(done) \in Nat
  <2>1. IsFiniteSet(done) /\ done' \in SUBSET Groups /\ Cardinality(done) \in Nat
    BY <1>a, Sizes DEF TypeOK
  <2>2. Cardinality(done \ {g}) = Cardinality(done) - 1
    BY <1>a, <2>1, FS_RemoveElement
  <2> QED  BY <1>a, <2>1, <2>2, Sizes
<1>d. Cardinality(data) \in Nat /\ Cardinality(pendings) \in Nat
  BY Sizes DEF TypeOK
<1>y. CASE Drop({g}) /\ data' = data
  <2>a. /\ sample' \in [Groups -> [Index -> Samples]] /\ stage' \in [Groups -> [Index -> Stages]]
        /\ task' \in [Groups -> Tasks]
        /\ \A h \in Groups : h \notin {g} => task'[h] = task[h]
        /\ task'[g] = "none"
        /\ \A h \in Groups, i \in Index :
              \/ stage'[h][i] = stage[h][i]
              \/ h \in {g} /\ stage[h][i] \in {"done", "failed"} /\ stage'[h][i] = "none"
        /\ Sent' = Sent
    BY <1>a, <1>y, Dropped
  <2>b. \A h \in Groups, i \in Index :
          /\ stage'[h][i] = "sent" <=> stage[h][i] = "sent"
          /\ stage'[h][i] = "cancelled" => stage[h][i] = "cancelled"
          /\ stage'[h][i] = "failed" => stage[h][i] = "failed"
          /\ stage'[h][i] = "cut" <=> stage[h][i] = "cut"
          /\ stage'[h][i] \in Working => stage[h][i] \in Working
    BY <2>a DEF Working
  <2>c. remaining' \in Int
    BY <1>b DEF TypeOK
  <2>1. TypeOK'
    BY <1>a, <1>y, <2>a, <2>c DEF TypeOK, Calls
  <2>2. OnePlace'
    BY <1>a, <1>y DEF OnePlace
  <2>3. Tasked'
    BY <1>a, <1>y, <2>a DEF Tasked, Held, OnePlace
  <2>4. Staged' /\ Completed' /\ Masked'
    <3>1. buffer \cup data \cup kept \subseteq Held /\ {g} \cap (buffer \cup data \cup kept) = {}
      BY <1>a DEF Held, OnePlace
    <3>2. buffer \cup kept \subseteq {h \in Groups : Back(h)} /\ data \subseteq Groups
      BY DEF Staged, TypeOK
    <3> QED  BY <1>a, <1>y, <3>1, <3>2, DropKeeps DEF TypeOK
  <2>5. Flagged'
    <3>1. \A h \in Groups : Ours(h)' => Ours(h)
      BY <1>a, <1>y DEF Ours
    <3> QED  BY <1>a, <2>b, <3>1 DEF Flagged
  <2>6. Requested'
    <3>1. ASSUME faults = 0, NEW h \in Groups, NEW i \in Index
          PROVE  /\ stage[h][i] \notin {"cut", "failed"} /\ (stage[h][i] \in Working => task[h] = "waiting" /\ h \notin {g})
                 /\ stage[h][i] = "sent" /\ conf.streaming => <<h, i>> \in cancellable
      BY <1>a, <3>1 DEF Requested, Working
    <3>2. ASSUME faults = 0, NEW h \in Groups PROVE task'[h] # "failed"
      BY <2>a, <3>2 DEF Requested
    <3>3. ASSUME faults = 0, NEW h \in Groups, NEW i \in Index
          PROVE  /\ stage'[h][i] \notin {"cut", "failed"} /\ (stage'[h][i] \in Working => task'[h] = "waiting")
                 /\ stage'[h][i] = "sent" /\ conf.streaming => <<h, i>> \in cancellable
      BY <2>a, <2>b, <3>1, <3>3
    <3> QED  BY <1>a, <2>a, <3>2, <3>3 DEF Requested, Working
  <2>7. Counted'
    <3>1. ~(Cardinality(data) < Batch) \/ remaining' = remaining - 1
      BY <1>a, <1>b, <1>y DEF TypeOK, OnePlace
    <3> QED  BY <1>a, <1>c, <1>d, <1>y, <3>1, Constants DEF Counted, Chosen
  <2> QED  BY <2>1, <2>2, <2>3, <2>4, <2>5, <2>6, <2>7
<1> SUFFICES ASSUME Cardinality(data) < Batch, data' = data \cup {g}, remaining' = remaining, UNCHANGED <<sample, stage, task>>
             PROVE  IInv'
  BY <1>b, <1>y
<1>e. Cardinality(data') = Cardinality(data) + 1 /\ Sent' = Sent
  <2>1. IsFiniteSet(data) /\ g \notin data
    BY <1>a, Sizes DEF TypeOK, OnePlace
  <2>2. Cardinality(data \cup {g}) = Cardinality(data) + 1
    BY <2>1, FS_AddElement
  <2> QED  BY <2>2 DEF Sent
<1>1. TypeOK'
  BY <1>a DEF TypeOK, Calls, Tasks
<1>2. OnePlace'
  BY <1>a DEF OnePlace
<1>3. Tasked'
  BY <1>a DEF Tasked, Held
<1>4. Staged'
  BY <1>a DEF Staged, Back, New, Whole
<1>5. Completed'
  BY <1>a DEF Completed, Complete, Through, Chosen
<1>6. Masked'
  BY <1>a DEF Masked, Ours, Chosen
<1>7. Flagged'
  BY <1>a DEF Flagged, Ours
<1>8. Requested'
  BY <1>a, <1>e DEF Requested, Sent
<1>9. Counted'
  <2>1. Cardinality(data') <= Batch /\ call' = "taking"
    BY <1>a, <1>d, <1>e, Constants
  <2>2. restarts = 0 => remaining' = Cardinality(pendings') + Cardinality(done') + Cardinality(data')
    <3>1. restarts = 0 => remaining = Cardinality(pendings) + Cardinality(done) + Cardinality(data)
      BY <1>a DEF Counted
    <3> QED  BY <1>a, <1>c, <1>d, <1>e, <3>1
  <2> QED  BY <1>a, <2>1, <2>2 DEF Counted, Chosen
<1> QED  BY <1>1, <1>2, <1>3, <1>4, <1>5, <1>6, <1>7, <1>8, <1>9

(* The abort sets its flag and cancels the streams; a second abort raises.    *)
LEMMA BeginAbortStep ==
    ASSUME IInv, BeginAbort, UNCHANGED <<conf, rejects, faults>>
    PROVE  IInv'
<1> USE DEF IInv
<1>z. CASE ~AbortAllowed
  <2>1. call = "abort" /\ faults \in Nat \ {0}
    BY <1>z DEF BeginAbort, AbortAllowed, Requested, TypeOK
  <2> QED  BY <1>z, <2>1, RaiseStep DEF BeginAbort, TypeOK
<1> SUFFICES ASSUME ~aborted PROVE IInv'
  BY <1>z DEF AbortAllowed
<1>a. /\ call = "abort" /\ aborted' = TRUE /\ cancellable' = {}
      /\ UNCHANGED <<sample, task, pendings, remaining, active, done, data, kept>>
      /\ UNCHANGED <<buffer, paused, version, rollout, leftover, restarts>>
      /\ call' = IF active # 0 THEN "pause" ELSE "gather"
      /\ stage' = [g \in Groups |-> [i \in Index |->
                   IF <<g, i>> \in cancellable THEN "cancelled" ELSE stage[g][i]]]
  BY DEF BeginAbort, AbortAllowed
<1>b. /\ stage' \in [Groups -> [Index -> Stages]]
      /\ \A g \in Groups, i \in Index :
            \/ stage[g][i] \in Open /\ <<g, i>> \in cancellable /\ stage'[g][i] = "cancelled"
            \/ <<g, i>> \notin cancellable /\ stage'[g][i] = stage[g][i]
  <2>1. stage' \in [Groups -> [Index -> Stages]]
    BY <1>a DEF TypeOK, Stages
  <2>2. \A g \in Groups, i \in Index : stage'[g][i] = IF <<g, i>> \in cancellable THEN "cancelled" ELSE stage[g][i]
    BY <1>a
  <2> QED  BY <2>1, <2>2 DEF Flagged, Open
<1>c. \A g \in Groups :
        /\ (Back(g)' <=> Back(g)) /\ (New(g)' <=> New(g)) /\ (Complete(g)' <=> Complete(g))
        /\ \A i \in Index : sample'[g][i] = sample[g][i] /\ task'[g] = task[g]
  <2>1. \A g \in Groups, i \in Index :
          stage'[g][i] = stage[g][i] \/ (stage[g][i] \in {"sent", "cut"} /\ stage'[g][i] = "cancelled")
    BY <1>b DEF Open
  <2>2. \A g \in Groups, i \in Index :
          /\ stage'[g][i] = "done" <=> stage[g][i] = "done"
          /\ stage'[g][i] \in {"none", "done", "failed"} <=> stage[g][i] \in {"none", "done", "failed"}
    BY <2>1
  <2>3. \A g \in Groups : (Back(g)' <=> Back(g)) /\ (New(g)' <=> New(g))
    BY <1>a, <2>2 DEF Back, New, Whole, Finished
  <2>4. \A g \in Groups : Complete(g)' <=> Complete(g)
    BY <1>a, <2>2 DEF Complete, Through, Finished
  <2> QED  BY <1>a, <2>3, <2>4
<1>d. /\ \A g \in data : g \in Groups /\ task[g] = "done" /\ Complete(g)
      /\ \A g \in data \ leftover, i \in Index : OnPolicy(sample[g][i], conf, version)
  <2>1. \A g \in data : g \in Groups /\ task[g] = "done"
    BY DEF TypeOK, Tasked
  <2>2. \A g \in data : Complete(g)
    BY <2>1 DEF Completed
  <2>3. \A g \in data \ leftover, i \in Index : OnPolicy(sample[g][i], conf, version)
    BY <2>1 DEF Masked, Ours
  <2> QED  BY <2>1, <2>2, <2>3
<1>e. faults = 0 =>
        /\ conf.streaming => Sent' = {}
        /\ ~conf.streaming => Sent' = Sent /\ active' = Cardinality(Sent') /\ (active = 0 => Sent' = {})
  <2>1. ASSUME faults = 0, conf.streaming PROVE Sent' = {}
    <3>1. ASSUME NEW g \in Groups, NEW i \in Index PROVE stage'[g][i] # "sent"
      <4>1. stage[g][i] = "sent" => <<g, i>> \in cancellable
        BY <2>1 DEF Requested
      <4> QED  BY <1>b, <4>1
    <3> QED  BY <3>1 DEF Sent
  <2>2. ASSUME faults = 0, ~conf.streaming
        PROVE  Sent' = Sent /\ active' = Cardinality(Sent') /\ (active = 0 => Sent' = {})
    <3>1. Sent' = Sent
      <4>1. \A g \in Groups, i \in Index : stage'[g][i] = stage[g][i]
        BY <1>b, <2>2 DEF Flagged, Ours
      <4>2. \A x \in Groups \X Index : stage'[x[1]][x[2]] = stage[x[1]][x[2]]
        BY <4>1
      <4> QED  BY <4>2 DEF Sent
    <3>2. active = Cardinality(Sent)
      BY <2>2 DEF Requested
    <3>3. active = 0 => Sent = {}
      BY <3>2, SentFinite, FS_EmptySet
    <3> QED  BY <1>a, <3>1, <3>2, <3>3
  <2> QED  BY <2>1, <2>2
<1>f. ~conf.streaming => \A g \in Groups, i \in Index : stage'[g][i] # "cancelled"
  BY <1>b DEF Flagged, Ours
<1>1. TypeOK'
  BY <1>a, <1>b DEF TypeOK, Calls, Tasks
<1>2. OnePlace'
  BY <1>a DEF OnePlace
<1>3. Tasked'
  BY <1>a DEF Tasked, Held
<1>4. Staged'
  <2>1. ASSUME NEW g \in Groups, task[g] = "waiting", NEW i \in Index
        PROVE  /\ stage'[g][i] # "none"
               /\ stage'[g][i] = "done" => Whole(sample[g][i])
               /\ stage'[g][i] = "scoring" => Finished(sample[g][i]) /\ ~conf.groupRm
    BY <1>b, <2>1 DEF Staged, Open
  <2>2. ASSUME NEW g \in Groups, task[g] = "scoring" PROVE \A i \in Index : stage'[g][i] = "done"
    BY <1>b, <2>2 DEF Staged, Open
  <2>3. \A g \in Groups : task[g] = "scoring" => conf.groupRm
    BY DEF Staged
  <2> QED  BY <1>a, <1>c, <2>1, <2>2, <2>3 DEF Staged, Whole
<1>5. Completed'
  BY <1>a, <1>c, <1>d DEF Completed, Complete, Through, Chosen
<1>6. Masked'
  BY <1>a, <1>d DEF Masked, Ours, Chosen
<1>7. Flagged'
  BY <1>a, <1>b, <1>f DEF Flagged, Ours
<1>8. Requested'
  <2>1. ASSUME faults = 0, NEW g \in Groups, NEW i \in Index
        PROVE  /\ stage'[g][i] \notin {"cut", "failed"}
               /\ stage'[g][i] \in Working => task[g] = "waiting"
               /\ ~(stage'[g][i] = "sent" /\ conf.streaming)
    <3>1. /\ stage[g][i] \notin {"cut", "failed"} /\ (stage[g][i] \in Working => task[g] = "waiting")
          /\ stage[g][i] = "sent" /\ conf.streaming => <<g, i>> \in cancellable
      BY <2>1 DEF Requested, Working
    <3> QED  BY <1>b, <3>1 DEF Working, Open
  <2>2. faults = 0 => \A g \in Groups : task[g] # "failed"
    BY DEF Requested
  <2> QED  BY <1>a, <1>e, <2>1, <2>2 DEF Requested, Working
<1>9. Counted'
  BY <1>a DEF Counted, Chosen
<1> QED  BY <1>1, <1>2, <1>3, <1>4, <1>5, <1>6, <1>7, <1>8, <1>9

(* The steps of a rollout that raises.                                        *)
LEMMA RaisingSteps ==
    ASSUME IInv, UNCHANGED <<conf, rejects>>,
           \/ (WaitForNothing \/ \E g \in Groups : TakeRaises(g)) /\ faults' = faults
           \/ ResumeFails \/ Undo
    PROVE  IInv' /\ call' = "failed"
<1>1. CASE (WaitForNothing \/ \E g \in Groups : TakeRaises(g)) /\ faults' = faults
  <2>1. /\ Raise /\ call \in {"waiting", "taking"} /\ faults # 0
        /\ UNCHANGED <<buffer, state, version, rollout, leftover, restarts>> /\ paused' = paused
    <3>1. CASE WaitForNothing
      <4>1. call = "waiting" /\ pendings = {} /\ done = {}
        BY <3>1 DEF WaitForNothing, IInv, OnePlace
      <4>2. Cardinality(pendings) = 0 /\ Cardinality(done) = 0 /\ Cardinality(data) \in Nat
        BY <4>1, FS_EmptySet, Sizes DEF IInv, TypeOK
      <4>3. restarts # 0
        BY <4>1, <4>2, Constants DEF IInv, Counted
      <4>4. faults # 0
        BY <4>3 DEF IInv, Requested
      <4> QED  BY <3>1, <4>1, <4>4 DEF WaitForNothing
    <3>2. ASSUME NEW g \in Groups, TakeRaises(g)
          PROVE  /\ Raise /\ call \in {"waiting", "taking"} /\ faults # 0
                 /\ UNCHANGED <<buffer, state, version, rollout, leftover, restarts>> /\ paused' = paused
      BY <3>2 DEF TakeRaises, IInv, Requested
    <3> QED  BY <1>1, <3>1, <3>2
  <2>2. paused \in BOOLEAN /\ faults \in Nat
    BY DEF IInv, TypeOK
  <2> QED  BY <1>1, <2>1, <2>2, RaiseStep DEF Raise
<1>2. CASE ResumeFails
  <2>1. /\ Raise /\ call = "drain" /\ UNCHANGED <<buffer, state, version, rollout, leftover, restarts>>
        /\ paused' = paused /\ paused \in BOOLEAN /\ faults' = faults + 1 /\ faults' \in Nat /\ faults' # 0
    BY <1>2 DEF ResumeFails, IInv, TypeOK
  <2> QED  BY <2>1, RaiseStep DEF Raise
<1>3. CASE Undo
  <2>1. /\ Raise /\ call = "undo" /\ UNCHANGED <<buffer, state, version, rollout, leftover, restarts>>
    BY <1>3 DEF Undo
  <2>2. paused' \in BOOLEAN /\ (paused' => paused)
    <3>1. paused \in BOOLEAN
      BY DEF IInv, TypeOK
    <3>2. paused' = FALSE \/ (paused /\ paused' = paused)
      BY <1>3 DEF Undo
    <3> QED  BY <3>1, <3>2
  <2>3. faults' \in Nat \ {0}
    <3>1. faults' \in {faults, faults + 1} /\ faults \in Nat \ {0}
      BY <1>3 DEF Undo, IInv, TypeOK, Requested
    <3> QED  BY <3>1
  <2> QED  BY <2>1, <2>2, <2>3, RaiseStep DEF Raise
<1> QED  BY <1>1, <1>2, <1>3

(* The invariant holds at first.                                              *)
LEMMA InitIInv == Init => IInv
<1> SUFFICES ASSUME Init PROVE IInv
  OBVIOUS
<1> USE DEF Init
<1>a. 0 \in Nat /\ Fresh \in Samples /\ MaskFits(Fresh, conf, version) /\ Old(Fresh, version)
  BY FreshSample
<1>b. /\ \A g \in Groups, i \in Index : sample[g][i] = Fresh /\ stage[g][i] = "none"
      /\ \A g \in Groups : task[g] = "none"
  OBVIOUS
<1>1. TypeOK
  <2>1. conf \in Conf
    BY RolloutAssumption
  <2>2. stage \in [Groups -> [Index -> Stages]] /\ task \in [Groups -> Tasks]
    BY DEF Stages, Tasks
  <2>3. sample \in [Groups -> [Index -> Samples]]
    BY <1>a
  <2>4. remaining \in Int /\ active \in Int /\ cancellable \subseteq Groups \X Index /\ call \in Calls
    BY DEF Calls
  <2> QED  BY <1>a, <2>1, <2>2, <2>3, <2>4 DEF TypeOK
<1>2. OnePlace /\ Tasked
  BY <1>b DEF OnePlace, Tasked, Held
<1>3. Staged /\ Completed
  BY <1>b DEF Staged, Completed, Chosen
<1>4. Masked
  BY <1>a, <1>b DEF Masked, Ours
<1>5. Flagged
  BY <1>b DEF Flagged, Ours
<1>6. Sent = {}
  BY <1>b DEF Sent
<1>7. Requested
  BY <1>b, <1>6, FS_EmptySet DEF Requested
<1>8. Counted
  BY FS_EmptySet, Constants DEF Counted, Chosen
<1> QED  BY <1>1, <1>2, <1>3, <1>4, <1>5, <1>7, <1>8 DEF IInv

(* A step that changes no variable.                                           *)
LEMMA StutterIInv == IInv /\ UNCHANGED vars => IInv'
<1> SUFFICES ASSUME IInv, UNCHANGED vars PROVE IInv'
  OBVIOUS
<1> USE DEF IInv
<1>a. /\ UNCHANGED <<conf, buffer, sample, stage, task, pendings, remaining, aborted, cancellable, active>>
      /\ UNCHANGED <<paused, version, call, done, data, kept, rollout, leftover, restarts, rejects, faults>>
  BY DEF vars, tasks, state, rolling
<1>b. Sent' = Sent
  BY <1>a DEF Sent
<1>1. TypeOK' /\ OnePlace' /\ Tasked'
  BY <1>a DEF TypeOK, OnePlace, Tasked, Held
<1>2. Staged' /\ Completed'
  BY <1>a DEF Staged, Back, New, Whole, Completed, Complete, Through, Chosen
<1>3. Masked'
  BY <1>a DEF Masked, Ours, Chosen
<1>4. Flagged' /\ Requested' /\ Counted'
  BY <1>a, <1>b DEF Flagged, Ours, Requested, Counted, Chosen
<1> QED  BY <1>1, <1>2, <1>3, <1>4

(* Every step of a sample or a group.                                         *)
LEMMA TaskSteps ==
    ASSUME IInv, NEW g \in Groups, GroupStep(g) \/ \E i \in Index : SampleStep(g, i),
           UNCHANGED <<conf, buffer, version, rolling, rejects, faults>>
    PROVE  IInv'
<1>1. ASSUME NEW i \in Index, SampleStep(g, i) PROVE IInv'
  BY <1>1, AdmitStep, ReplyStep, RefusedStep, ChunkStep, CancelledStep, ScoreStep DEF SampleStep
<1>2. CASE GroupStep(g)
  BY <1>2, StartGroupStep, GroupFailsStep, GatheredStep, GroupScoredStep DEF GroupStep
<1> QED  BY <1>1, <1>2

(* Every step of the rollout call.                                            *)
LEMMA CallSteps == IInv /\ CallStep /\ UNCHANGED <<conf, rejects, faults>> => IInv'
<1> SUFFICES ASSUME IInv, CallStep, UNCHANGED <<conf, rejects, faults>> PROVE IInv'
  OBVIOUS
<1>1. CASE Begin \/ Sample \/ Wait \/ Taken
  BY <1>1, BeginStep, SamplingStep, WaitStep, TakenStep
<1>2. CASE WaitForNothing \/ \E g \in Groups : TakeRaises(g)
  BY <1>2, RaisingSteps
<1>3. CASE BeginAbort \/ PauseServers \/ GatherCancelled \/ Drain \/ ResumeServers
  BY <1>3, BeginAbortStep, PauseServersStep, GatherCancelledStep, DrainStep, ResumeServersStep
<1>4. CASE Return \/ Train \/ Restart \/ Publish
  BY <1>4, ReturnStep, TrainStep, RestartStep, PublishStep
<1> QED  BY <1>1, <1>2, <1>3, <1>4 DEF CallStep

(* Every step preserves the invariant.                                        *)
LEMMA StepIInv == IInv /\ [Next]_vars => IInv'
<1> SUFFICES ASSUME IInv, [Next]_vars PROVE IInv'
  OBVIOUS
<1>1. CASE /\ \E g \in Groups : GroupStep(g) \/ \E i \in Index : SampleStep(g, i)
           /\ UNCHANGED <<conf, buffer, version, rolling, rejects, faults>>
  BY <1>1, TaskSteps
<1>2. CASE /\ \E g \in Groups : GroupRmFails(g) \/ \E i \in Index : SampleFails(g, i)
           /\ UNCHANGED <<conf, buffer, version, rolling, rejects>>
  BY <1>2, GroupRmFailsStep, SampleFailsStep
<1>3. CASE CallStep /\ UNCHANGED <<conf, rejects, faults>>
  BY <1>3, CallSteps
<1>4. CASE \E g \in Groups : TakeGroup(g) /\ UNCHANGED <<conf, faults>>
  BY <1>4, TakeGroupStep
<1>5. CASE (PauseFails \/ ResumeFails \/ Undo) /\ UNCHANGED <<conf, rejects>>
  BY <1>5, PauseFailsStep, RaisingSteps
<1>6. CASE UNCHANGED vars
  BY <1>6, StutterIInv
<1> QED  BY <1>1, <1>2, <1>3, <1>4, <1>5, <1>6 DEF Next

(* The invariant of the synchronous rollout: where each group is, how far its *)
(* tasks are, what its masks tell, and what the flag and the counters of      *)
(* GenerateState promise.                                                     *)
THEOREM Invariance == Spec => []IInv
BY InitIInv, StepIInv, PTL DEF Spec

-----------------------------------------------------------------------------
(* The properties *)

(* What a rollout returns can be trained on (the result of generate_rollout): *)
(* a full batch that nobody else writes to, complete, rewarded, and masked as *)
(* --mask-offpolicy-in-partial-rollout promises.                              *)
THEOREM BatchTrainable == Spec => []BatchSound
<1>1. IInv => BatchSound
  <2> SUFFICES ASSUME IInv, call = "train" PROVE BatchSound
    BY DEF BatchSound
  <2> USE DEF IInv
  <2>1. Cardinality(data) = Batch
    BY DEF Counted, Chosen
  <2>2. data \cap (buffer \cup pendings) = {}
    BY DEF OnePlace
  <2>3. \A g \in data : g \in Groups /\ task[g] = "done" /\ Complete(g)
    BY DEF Completed, Chosen, TypeOK, Tasked
  <2>4. \A g \in data \cup buffer, i \in Index : stage[g][i] \in {"none", "done"}
    <3>1. \A g \in buffer : Back(g)
      BY DEF Staged, TypeOK
    <3> QED  BY <2>3, <3>1 DEF Complete, Through, Back
  <2>5. ASSUME NEW g \in data, NEW i \in Index, g \notin leftover
        PROVE  LossMask(sample[g][i]) = [t \in DOMAIN sample[g][i].made |->
                   IF conf.partial /\ conf.masking /\ sample[g][i].made[t] # version THEN 0 ELSE 1]
    <3> DEFINE s == sample[g][i]
               m == LossMask(s)
    <3>1. g \in Groups /\ s \in Samples /\ MaskFits(s, conf, version)
      BY <2>3, SampleFits
    <3>2. OnPolicy(s, conf, version)
      BY <2>3, <2>5, <3>1 DEF Masked, Ours, Chosen
    <3>3. /\ m \in Seq({0, 1}) /\ Len(m) = Len(s.made)
          /\ \A t \in 1..Len(s.made) : m[t] = IF Counts(s, t) THEN 1 ELSE 0
      BY <3>1, MaskUsed
    <3>4. s.made \in Seq(Nat) /\ DOMAIN s.made = 1..Len(s.made)
      BY <3>1, SampleTypes
    <3>5. ASSUME NEW t \in 1..Len(s.made)
          PROVE  m[t] = IF conf.partial /\ conf.masking /\ s.made[t] # version THEN 0 ELSE 1
      BY <3>2, <3>3 DEF OnPolicy, OffPolicy
    <3> HIDE DEF m
    <3>6. m = [t \in 1..Len(m) |-> m[t]]
      BY <3>3
    <3>7. m = [t \in 1..Len(s.made) |-> IF conf.partial /\ conf.masking /\ s.made[t] # version THEN 0 ELSE 1]
      BY <3>3, <3>5, <3>6
    <3> QED  BY <3>4, <3>7 DEF m
  <2> QED  BY <2>1, <2>2, <2>3, <2>4, <2>5 DEF BatchSound, Complete, Through
<1> QED  BY <1>1, Invariance, PTL

(* abort() stops every request in flight, and the servers are paused for      *)
(* nothing else.                                                              *)
THEOREM AbortReachesAll == Spec => []AbortScope
<1>1. IInv => AbortScope
  <2> SUFFICES ASSUME IInv PROVE AbortScope
    OBVIOUS
  <2>1. paused => aborted
    BY DEF IInv, Flagged
  <2>2. ASSUME call \in {"gather", "drain"}, faults = 0, ~paused, NEW g \in Groups, NEW i \in Index
        PROVE  stage[g][i] # "sent"
    <3>1. Sent = {}
      BY <2>2 DEF IInv, Requested
    <3>2. <<g, i>> \in Groups \X Index /\ <<g, i>>[1] = g /\ <<g, i>>[2] = i
      OBVIOUS
    <3> QED  BY <3>1, <3>2 DEF Sent
  <2> QED  BY <2>1, <2>2 DEF AbortScope
<1> QED  BY <1>1, Invariance, PTL

(* remaining_batch_size counts what is under way: a rollout that waits can    *)
(* still fill its batch.                                                      *)
THEOREM NeverShort == Spec => []EnoughAvailable
<1>1. IInv => EnoughAvailable
  <2> SUFFICES ASSUME IInv, call = "waiting", restarts = 0
               PROVE  Cardinality(data) + Cardinality(pendings) >= Batch
    BY DEF EnoughAvailable
  <2>1. done = {} /\ Cardinality(data) < Batch /\ remaining >= Batch
    BY DEF IInv, OnePlace, Counted
  <2>2. remaining = Cardinality(pendings) + Cardinality(done) + Cardinality(data)
    BY <2>1 DEF IInv, Counted
  <2>3. Cardinality(done) = 0 /\ Cardinality(pendings) \in Nat /\ Cardinality(data) \in Nat
    BY <2>1, FS_EmptySet, Sizes DEF IInv, TypeOK
  <2> QED  BY <2>1, <2>2, <2>3, Constants
<1> QED  BY <1>1, Invariance, PTL

(* The samples of a group in somebody's hands keep what they have generated.  *)
Kept(g) == \A i \in Index : sample[g][i].status = "aborted" => IsPrefix(sample[g][i].made, sample'[g][i].made)

(* A sample that does not change keeps its tokens.                            *)
LEMMA SameSample ==
    ASSUME IInv, NEW g \in Groups
    PROVE  /\ sample'[g] = sample[g] => Kept(g)
           /\ Complete(g) /\ g \notin leftover => Kept(g)
<1>1. \A i \in Index : IsPrefix(sample[g][i].made, sample[g][i].made)
  BY SampleFits
<1> QED  BY <1>1 DEF Kept, Complete, Through, Finished

(* The tasks only add tokens.                                                 *)
LEMMA TasksGrow ==
    ASSUME IInv, NEW g \in Groups, conf' = conf,
           \/ /\ GroupStep(g) \/ \E i \in Index : SampleStep(g, i)
              /\ UNCHANGED <<conf, buffer, version, rolling, rejects, faults>>
           \/ /\ GroupRmFails(g) \/ \E i \in Index : SampleFails(g, i)
              /\ UNCHANGED <<conf, buffer, version, rolling, rejects>>
    PROVE  Grows
<1>a. \A h \in Groups, i \in Index :
        /\ sample[h][i] \in Samples /\ MaskFits(sample[h][i], conf, version)
        /\ IsPrefix(sample[h][i].made, sample[h][i].made)
  BY SampleFits
<1>1. ASSUME NEW i \in Index, SampleStep(g, i), UNCHANGED <<conf, buffer, version, rolling, rejects, faults>>
      PROVE  Grows
  BY <1>1, AdmitStep, ReplyStep, RefusedStep, ChunkStep, CancelledStep, ScoreStep DEF SampleStep
<1>2. ASSUME NEW i \in Index, SampleFails(g, i), UNCHANGED <<conf, buffer, version, rolling, rejects>>
      PROVE  Grows
  BY <1>2, SampleFailsStep
<1>3. CASE sample' = sample
  BY <1>a, <1>3 DEF Grows
<1>4. CASE sample' = [sample EXCEPT ![g] = [i \in Index |-> MaskOld(@[i])]]
  <2>1. \A h \in Groups, i \in Index :
          sample'[h][i] = IF h = g THEN MaskOld(sample[h][i]) ELSE sample[h][i]
    BY <1>4 DEF IInv, TypeOK
  <2>2. \A h \in Groups, i \in Index : MaskOld(sample[h][i]).made = sample[h][i].made
    BY <1>a, OldMasked
  <2> QED  BY <1>a, <2>1, <2>2 DEF Grows
<1>5. CASE sample' = [sample EXCEPT ![g] = [i \in Index |-> [@[i] EXCEPT !.scored = TRUE]]]
  <2>1. \A h \in Groups, i \in Index :
          sample'[h][i] = IF h = g THEN [sample[h][i] EXCEPT !.scored = TRUE] ELSE sample[h][i]
    BY <1>5 DEF IInv, TypeOK
  <2>2. ASSUME NEW h \in Groups, NEW i \in Index PROVE sample'[h][i].made = sample[h][i].made
    <3>1. [sample[h][i] EXCEPT !.scored = TRUE].made = sample[h][i].made
      BY <1>a, ScoredSample
    <3> QED  BY <2>1, <3>1
  <2> QED  BY <1>a, <2>2 DEF Grows
<1>6. ASSUME GroupStep(g) \/ GroupRmFails(g) PROVE Grows
  BY <1>3, <1>4, <1>5, <1>6 DEF GroupStep, StartGroup, GroupFails, Gathered, GroupScored,
     GroupRmFails
<1> QED  BY <1>1, <1>2, <1>6

(* A drained abort drops no group with a prefix.                              *)
LEMMA DrainKeeps ==
    ASSUME IInv, Drain, conf' = conf, conf.partial, NEW g \in Groups
    PROVE  Kept(g)
<1>a. UNCHANGED <<conf, leftover>>
  BY DEF Drain
<1>1. CASE \E h \in Ended : task[h] = "failed"
  BY <1>1, SameSample DEF Drain, tasks
<1>2. CASE ~\E h \in Ended : task[h] = "failed"
  <2> DEFINE back == {h \in Ended : conf.partial /\ Keeps(h)}
             gs == Ended \ back
  <2>1. Drop(gs)
    BY <1>2 DEF Drain
  <2>2. CASE g \notin gs
    <3>1. sample'[g] = sample[g]
      BY <1>a, <2>1, <2>2, Dropped
    <3> QED  BY <3>1, SameSample
  <2>3. CASE g \in gs
    <3>1. ~Keeps(g)
      BY <2>3
    <3>2. ASSUME NEW i \in Index, sample[g][i].status = "aborted"
          PROVE  IsPrefix(sample[g][i].made, sample'[g][i].made)
      <4>1. sample[g][i].made = <<>>
        BY <3>1, <3>2 DEF Keeps
      <4>2. sample'[g][i] = Fresh
        BY <1>a, <2>1, <2>3, Dropped
      <4>3. IsPrefix(<<>>, <<>>)
        <5>1. <<>> \in Seq(Nat)
          OBVIOUS
        <5> QED  BY <5>1, SameSequence
      <4> QED  BY <4>1, <4>2, <4>3 DEF Fresh
    <3> QED  BY <3>2 DEF Kept
  <2> QED  BY <2>2, <2>3
<1> QED  BY <1>1, <1>2

(* "Partial rollout preserves generated work": no step of the tasks, of the   *)
(* abort or of the hand-over to the data source shortens an interrupted       *)
(* sample.                                                                    *)
THEOREM PrefixesKept == Spec => PrefixesSurvive
<1>1. ASSUME IInv, [Next]_vars, NEW g \in Held, conf.partial, call' # "failed", ~(aborted /\ call = "taking"),
             g \notin leftover \cap (done \cup data)
      PROVE  Kept(g)
  <2> USE <1>1
  <2>a. g \in Groups
    BY DEF Held, IInv, TypeOK
  <2>1. CASE \E h \in Groups :
           \/ /\ GroupStep(h) \/ \E i \in Index : SampleStep(h, i)
              /\ UNCHANGED <<conf, buffer, version, rolling, rejects, faults>>
           \/ /\ GroupRmFails(h) \/ \E i \in Index : SampleFails(h, i)
              /\ UNCHANGED <<conf, buffer, version, rolling, rejects>>
    <3>1. Grows
      BY <2>1, TasksGrow
    <3> QED  BY <2>a, <3>1 DEF Grows, Kept
  <2>2. CASE UNCHANGED sample
    BY <2>a, <2>2, SameSample
  <2>3. CASE Sample
    <3>1. sample'[g] = sample[g]
      <4>1. CASE remaining < Batch
        <5>1. PICK old \in SUBSET buffer, new \in SUBSET Unused :
                sample' = [h \in Groups |-> IF h \in new THEN [i \in Index |-> Fresh] ELSE sample[h]]
          BY <2>3, <4>1 DEF Sample, Take, kSubset
        <5>2. g \notin new
          BY DEF Unused
        <5> QED  BY <2>a, <5>1, <5>2
      <4>2. CASE ~(remaining < Batch)
        BY <2>3, <4>2 DEF Sample
      <4> QED  BY <4>1, <4>2
    <3> QED  BY <2>a, <3>1, SameSample
  <2>4. CASE Drain /\ conf' = conf
    BY <2>a, <2>4, DrainKeeps
  <2>5. CASE Train /\ conf' = conf
    <3>1. Drop(data) /\ (\A h \in data : Complete(h)) /\ leftover' = leftover
      BY <2>5 DEF Train, IInv, Completed, Chosen, TypeOK
    <3>2. g \notin data => sample'[g] = sample[g]
      BY <2>a, <2>5, <3>1, Dropped
    <3> QED  BY <2>a, <3>1, <3>2, SameSample
  <2>6. CASE \E h \in Groups : TakeGroup(h) /\ conf' = conf
    <3>1. PICK h \in Groups : TakeGroup(h) /\ conf' = conf
      BY <2>6
    <3>2. Complete(h) /\ h \in done /\ leftover' = leftover /\ (sample' = sample \/ Drop({h}))
      BY <3>1 DEF TakeGroup, tasks, IInv, Completed
    <3>3. g # h => sample'[g] = sample[g]
      BY <2>a, <3>1, <3>2, Dropped
    <3> QED  BY <2>a, <3>2, <3>3, SameSample
  <2>7. CASE CallStep /\ UNCHANGED <<conf, rejects, faults>>
    <3>1. CASE Begin \/ Wait \/ Taken \/ PauseServers \/ GatherCancelled \/ ResumeServers \/ Return \/ Restart
                  \/ Publish
      BY <2>2, <3>1 DEF Begin, Wait, Taken, PauseServers, GatherCancelled, ResumeServers, Return,
         Restart, Publish, tasks
    <3>2. CASE WaitForNothing \/ \E h \in Groups : TakeRaises(h)
      BY <3>2 DEF WaitForNothing, TakeRaises, Raise
    <3>3. CASE BeginAbort
      BY <2>2, <3>3 DEF BeginAbort, Raise
    <3> QED  BY <2>3, <2>4, <2>5, <2>7, <3>1, <3>2, <3>3 DEF CallStep
  <2>8. CASE PauseFails \/ ResumeFails \/ Undo
    BY <2>2, <2>8 DEF PauseFails, ResumeFails, Undo, Raise, tasks
  <2>9. CASE UNCHANGED vars
    BY <2>2, <2>9 DEF vars, tasks
  <2> QED  BY <2>1, <2>6, <2>7, <2>8, <2>9 DEF Next
<1>2. IInv /\ [Next]_vars =>
        [\A g \in Held, i \in Index :
           LET s == sample[g][i] IN
           conf.partial /\ s.status = "aborted" /\ call' # "failed" /\ ~(aborted /\ call = "taking")
           /\ g \notin leftover \cap (done \cup data) =>
               IsPrefix(s.made, sample'[g][i].made)]_vars
  BY <1>1 DEF Kept
<1> QED  BY <1>2, Invariance, PTL DEF Spec, PrefixesSurvive
=============================================================================
