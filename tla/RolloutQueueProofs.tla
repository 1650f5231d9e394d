-------------------------- MODULE RolloutQueueProofs --------------------------
(***************************************************************************)
(* Proofs about RolloutQueue: the cursor passes nothing that is needed, no *)
(* completed group is lost, nothing is retained for ever, and the queue    *)
(* implements PromptDelivery.                                              *)
(***************************************************************************)
EXTENDS RolloutQueue, FiniteSetTheorems, WellFoundedInduction, TLAPS

-----------------------------------------------------------------------------
(* The inductive invariant *)

Task  == [group : Group, sources : SUBSET Nat, stage : Nat,
          state : {"pending", "leased", "completed", "failed"}, worker : Reader \cup {NoReader}, attempt : Nat]
Entry == [kind : {"group", "collection", "batch"}, task : Nat, worker : Reader \cup {NoReader},
          rollout : Nat, inputs : SUBSET Nat]
Place == [at : {"none", "idle", "asking", "holding", "published", "failed", "dead"},
          task : Nat, attempt : Nat, position : Nat]
At    == Restoring \cup {"generate", "collect", "remember raw", "begin", "convert", "advance",
                         "remember converted", "train", "trained", "detached", "dead"}

TypeOK ==
    /\ produced \in 0..MaxGroups /\ tasks \in Seq(Task) /\ log \in Seq(Entry)
    /\ planned \in [Rollout -> SUBSET Nat]
    /\ cursor \in 0..Len(log) /\ processed \subseteq 1..Len(log)
    /\ active \subseteq Reader /\ retired \subseteq Reader /\ toFence \subseteq Reader
    /\ reader \in [Reader -> Place]
    /\ generation \in 1..MaxManagers /\ source \in 1..generation
    /\ managerAt \in At /\ rollout \in Rollout /\ boundary \in 0..MaxRollouts
    /\ ready \subseteq Nat /\ collecting \subseteq Nat /\ recovered \subseteq Nat
    /\ window \in [Rollout -> {"absent", "raw", "converted"}]
    /\ faults \in [Fault -> Nat]

(* The positions of results, and the newest version of a group.               *)
Results   == {p \in DOMAIN log : log[p].kind = "group"}
Newest(t) == \A u \in DOMAIN tasks : tasks[u].group = tasks[t].group => u <= t
Final(p)   == p \in Results /\ Newest(log[p].task)

(* A group is read once; each version but the newest is completed, has one    *)
(* result, and is replaced by every later one.                                *)
Versions ==
    /\ \A t \in DOMAIN tasks :
          /\ tasks[t].group <= produced
          /\ ~Newest(t) => tasks[t].state = "completed"
          /\ tasks[t].sources = {p \in Results : GroupAt(p) = tasks[t].group /\ log[p].task < t}
          /\ tasks[t].state = "completed" => \E p \in Results : log[p].task = t
    /\ \A p \in Results :
          /\ log[p].task \in DOMAIN tasks /\ tasks[log[p].task].state = "completed"
          /\ log[p].worker \in active
    /\ \A p, q \in Results : log[p].task = log[q].task => p = q

(* A rollout collects once, from the newest versions, and a plan is the       *)
(* collection with all it replaces.                                           *)
Collections ==
    /\ \A p \in DOMAIN log : log[p].kind # "group" => log[p].rollout \in Rollout
    /\ \A n \in Rollout : \A p, q \in Positions("collection", n) : p = q
    /\ \A n \in Rollout : \A p \in InputsOf(n) : Final(p)
    /\ \A n \in Rollout :
          /\ planned[n] # {} => planned[n] = Plan(n)
          /\ Converted(n) => planned[n] # {}

(* What the manager holds.                                                    *)
Free(p) == Final(p) /\ ~Collected(GroupAt(p))
Own(p)  == log[p].worker[1] = generation
Hands ==
    /\ \A p \in ready : Free(p) /\ Own(p)
    /\ \A p \in collecting : p \in Results /\ (MaxFailures = 0 => Collected(GroupAt(p)))
    /\ \A n \in Rollout : planned[n] = {} => \A p \in InputsOf(n) : Serving /\ Own(p) => p \in collecting
    /\ ~Serving => ready = {} /\ collecting = {}

(* The managers: one that serves has written the journal last, and the        *)
(* readers that are not fenced are those of the journal's generation.         *)
Managers ==
    /\ Serving => source = generation
    /\ managerAt \in Restoring => source < generation
    /\ \A r \in active \cup retired : r[1] <= source
    /\ \A r \in active : r \in retired \/ r[1] = source
    /\ \A r \in Reader : r[1] > source => reader[r].at = "none"

(* What a new manager has fenced and recovered so far.                        *)
Restoration ==
    /\ \A r \in toFence : r \in active /\ r[1] = source
    /\ \A p \in recovered : Free(p) /\ log[p].worker[1] = source
    /\ managerAt = "fence" => \A r \in active : r \in toFence \cup retired
    /\ managerAt = "deliver" => active \subseteq retired
    /\ managerAt # "fence" => toFence = {}
    /\ managerAt \notin {"fence", "deliver"} => recovered = {}

(* The readers: what is to be answered is new to the manager.                 *)
AtWork ==
    /\ \A r \in Reader : reader[r].at \in {"asking", "holding", "published"} => r \in active
    /\ \A r \in Reader : reader[r].at = "holding" => reader[r].task \in DOMAIN tasks
    /\ \A r \in retired : Serving /\ r[1] = generation => reader[r].at = "dead"
Answers ==
    \A r \in Reader : Serving /\ r[1] = generation /\ reader[r].at = "published" =>
        LET p == reader[r].position IN Free(p) /\ log[p].worker = r /\ p \notin ready

(* The replay window: it has no gaps, and a collection is in it or is the     *)
(* next one to enter.                                                         *)
Below(n) == \A m \in Rollout : boundary < m /\ m < n => window[m] # "absent"
Window ==
    \A n \in Rollout :
        /\ window[n] # "absent" => boundary < n /\ Below(n) /\ Positions("collection", n) # {}
        /\ window[n] = "converted" => Converted(n)
        /\ Positions("collection", n) # {} =>
              \/ n <= boundary \/ window[n] # "absent"
              \/ managerAt \in {"remember raw", "detached", "dead", "reconcile"} /\ Below(n)

(* How far the batch under way has got.                                       *)
Stages ==
    /\ boundary <= rollout
    /\ managerAt \in {"generate", "collect", "remember raw", "begin", "convert", "advance", "remember converted",
                      "train"} => boundary < rollout
    /\ Serving /\ managerAt # "detached" => Below(rollout)
    /\ managerAt \in {"collect", "remember raw"} => window[rollout] = "absent"
    /\ managerAt \in {"begin", "convert", "advance", "remember converted", "train"} => window[rollout] # "absent"
    /\ managerAt = "trained" /\ boundary < rollout => window[rollout] # "absent"
    /\ managerAt = "remember raw" => Positions("collection", rollout) # {}
    /\ managerAt \in {"convert", "advance"} => planned[rollout] # {}
    /\ managerAt \in {"advance", "remember converted", "train"} => Converted(rollout)

(* A rollout that was trained on holds nothing back.                          *)
Settled(n) ==
    /\ Converted(n) /\ Positions("collection", n) # {}
    /\ \A p \in planned[n] \cup Positions("batch", n) : Processed(p)
Trained ==
    /\ \A n \in Rollout : n <= boundary \/ n < rollout => Settled(n)
    /\ managerAt = "trained" => Settled(rollout)

(* What is acknowledged has been used, with all it replaced.                  *)
Acknowledged ==
    /\ \A p \in DOMAIN log : Processed(p) => \A q \in SourcesOf(p) : Processed(q)
    /\ \A p \in Results : Dropped(GroupAt(p)) => Processed(p)

(* Where the result of a group is that no batch holds.                        *)
Kept(p) ==
    LET w == log[p].worker IN
    /\ Serving => \/ p \in ready
                  \/ w[1] = generation /\ reader[w].at = "published" /\ reader[w].position = p
                  \/ w[1] = generation /\ reader[w].at = "dead" /\ w \notin retired
    /\ managerAt \in {"dead", "reconcile"} => w[1] = source
    /\ managerAt = "fence" => w \in toFence \/ p \in recovered
    /\ managerAt = "deliver" => p \in recovered
AllKept == MaxFailures = 0 => \A p \in Results : Free(p) => Kept(p)

IInv ==
    /\ TypeOK /\ Versions /\ Collections /\ Hands /\ Managers /\ Restoration /\ AtWork /\ Answers
    /\ Window /\ Stages /\ Trained /\ Acknowledged /\ RetentionSound /\ AllKept

-----------------------------------------------------------------------------
(* Numbers and sequences *)

(* A non-empty set of naturals has a least element.                           *)
LEMMA Least == ASSUME NEW S \in SUBSET Nat, S # {} PROVE \E x \in S : \A y \in S : x <= y
<1> DEFINE R == OpToRel(<, Nat)
<1>1. IsWellFoundedOn(R, Nat)
  BY NatLessThanWellFounded
<1>2. \A x, y \in Nat : y < x => <<y, x>> \in R
  BY DEF OpToRel
<1> HIDE DEF R
<1>3. PICK x \in S : \A y \in S : ~(<<y, x>> \in R)
  BY <1>1, WFMin
<1>4. ASSUME NEW y \in S PROVE x <= y
  <2>1. x \in Nat /\ y \in Nat /\ ~(<<y, x>> \in R)
    BY <1>3
  <2>2. ~(y < x)
    BY <1>2, <2>1
  <2> QED  BY <2>1, <2>2
<1> QED  BY <1>4

(* A non-empty bounded set of naturals has a greatest element.                *)
LEMMA Greatest ==
    ASSUME NEW S \in SUBSET Nat, S # {}, NEW b \in Nat, \A x \in S : x <= b
    PROVE  \E x \in S : \A y \in S : y <= x
<1> DEFINE T == {b - x : x \in S}
<1>1. T \in SUBSET Nat /\ T # {}
  <2>1. \A x \in S : b - x \in Nat
    OBVIOUS
  <2> QED  BY <2>1
<1>2. PICK t \in T : \A y \in T : t <= y
  <2> HIDE DEF T
  <2> QED  BY <1>1, Least
<1>3. PICK x \in S : t = b - x
  OBVIOUS
<1>4. ASSUME NEW y \in S PROVE y <= x
  BY <1>2, <1>3
<1> QED  BY <1>4

(* The greatest element of a set is its Max.                                  *)
LEMMA IsMax ==
    ASSUME NEW S \in SUBSET Nat, NEW m \in S, \A y \in S : y <= m
    PROVE  Max(S) = m
<1> DEFINE Greater(x) == \A y \in S : x >= y
<1>1. Greater(m)
  OBVIOUS
<1>2. \A x \in S : Greater(x) => x = m
  OBVIOUS
<1>3. Max(S) = CHOOSE x \in S : Greater(x)
  BY DEF Max
<1> HIDE DEF Greater
<1> QED  BY <1>1, <1>2, <1>3

(* The Max of a bounded set is its greatest element.                          *)
LEMMA MaxIs ==
    ASSUME NEW S \in SUBSET Nat, S # {}, NEW b \in Nat, \A x \in S : x <= b
    PROVE  Max(S) \in S /\ \A y \in S : y <= Max(S)
<1>1. PICK m \in S : \A y \in S : y <= m
  BY Greatest
<1>2. Max(S) = m
  BY <1>1, IsMax
<1> QED  BY <1>1, <1>2

(* The smaller of two numbers.                                                *)
LEMMA MinOfTwo ==
    ASSUME NEW a \in Nat, NEW b \in Nat
    PROVE  Min({a, b}) = IF a <= b THEN a ELSE b
<1> DEFINE Lesser(x) == \A y \in {a, b} : x <= y
           m == IF a <= b THEN a ELSE b
<1>1. Min({a, b}) = CHOOSE x \in {a, b} : Lesser(x)
  BY DEF Min
<1>2. m \in {a, b} /\ Lesser(m) /\ \A x \in {a, b} : Lesser(x) => x = m
  OBVIOUS
<1> HIDE DEF Lesser, m
<1>3. Min({a, b}) = m
  BY <1>1, <1>2
<1> QED  BY <1>3 DEF m

(* The constants are numbers.                                                 *)
LEMMA Constants ==
    /\ Batch \in Nat \ {0} /\ RefillSize \in Nat \ {0} /\ MaxGroups \in Nat
    /\ MaxRollouts \in Nat \ {0} /\ MaxManagers \in Nat \ {0} /\ MaxFailures \in Nat
    /\ Rollout \subseteq Nat \ {0} /\ Group \subseteq Nat \ {0}
BY SizesAssumption, BoundsAssumption DEF Rollout, Group

-----------------------------------------------------------------------------
(* What the versions of a group and the collections say *)

(* Types of what the log and the tasks hold.                                  *)
LEMMA Types ==
    ASSUME TypeOK
    PROVE  /\ Len(log) \in Nat /\ Len(tasks) \in Nat
           /\ DOMAIN log = 1..Len(log) /\ DOMAIN tasks = 1..Len(tasks)
           /\ \A p \in DOMAIN log : log[p] \in Entry
           /\ \A t \in DOMAIN tasks : tasks[t] \in Task
           /\ cursor \in Nat /\ boundary \in Nat /\ rollout \in Nat /\ produced \in Nat
BY Constants DEF TypeOK

(* The result of a version.                                                   *)
LEMMA ResultIs ==
    ASSUME TypeOK, Versions, NEW p \in Results
    PROVE  /\ p \in DOMAIN log /\ p \in Nat /\ log[p].kind = "group" /\ log[p].task \in DOMAIN tasks
           /\ tasks[log[p].task].state = "completed" /\ log[p].worker \in active
           /\ GroupAt(p) \in Group /\ GroupAt(p) <= produced
<1>1. p \in DOMAIN log /\ log[p].kind = "group"
  BY DEF Results
<1>2. log[p].task \in DOMAIN tasks /\ tasks[log[p].task].state = "completed" /\ log[p].worker \in active
  BY DEF Versions
<1>3. tasks[log[p].task].group \in Group /\ tasks[log[p].task].group <= produced
  BY <1>2, Types DEF Versions, Task
<1> QED  BY <1>1, <1>2, <1>3, Types DEF GroupAt

(* A group has one newest version, and it has one result.                     *)
LEMMA OneFinal ==
    ASSUME TypeOK, Versions, NEW p, NEW q, Final(p), Final(q), GroupAt(p) = GroupAt(q)
    PROVE  p = q
<1>1. p \in Results /\ q \in Results
  BY DEF Final
<1>2. log[p].task \in DOMAIN tasks /\ log[q].task \in DOMAIN tasks
  BY <1>1, ResultIs
<1>3. log[p].task = log[q].task
  <2>1. log[p].task \in Nat /\ log[q].task \in Nat
    BY <1>2, Types
  <2>2. log[p].task <= log[q].task /\ log[q].task <= log[p].task
    BY <1>2 DEF Final, Newest, GroupAt
  <2> QED  BY <2>1, <2>2
<1> QED  BY <1>1, <1>3 DEF Versions

(* What a version replaced.                                                   *)
LEMMA SourcesIs ==
    ASSUME TypeOK, Versions, NEW p \in Results
    PROVE  SourcesOf(p) = {q \in Results : GroupAt(q) = GroupAt(p) /\ log[q].task < log[p].task}
<1>1. log[p].kind = "group" /\ log[p].task \in DOMAIN tasks
  BY ResultIs
<1>2. SourcesOf(p) = tasks[log[p].task].sources
  BY <1>1 DEF SourcesOf
<1> QED  BY <1>1, <1>2 DEF Versions, GroupAt

(* What has been replaced has been replaced with all it replaced.             *)
LEMMA SourcesClosed ==
    ASSUME TypeOK, Versions, NEW t \in DOMAIN tasks, NEW p \in tasks[t].sources
    PROVE  p \in Results /\ GroupAt(p) = tasks[t].group /\ SourcesOf(p) \subseteq tasks[t].sources
<1>1. tasks[t].sources = {q \in Results : GroupAt(q) = tasks[t].group /\ log[q].task < t}
  BY DEF Versions
<1>2. p \in Results /\ GroupAt(p) = tasks[t].group /\ log[p].task < t
  BY <1>1
<1>3. SourcesOf(p) = {q \in Results : GroupAt(q) = GroupAt(p) /\ log[q].task < log[p].task}
  BY <1>2, SourcesIs
<1>4. \A q \in Results : log[q].task \in Nat /\ t \in Nat
  BY ResultIs, Types
<1> QED  BY <1>1, <1>2, <1>3, <1>4

(* A result is final until some task replaces it.                             *)
LEMMA FinalIs ==
    ASSUME TypeOK, Versions, NEW p \in Results
    PROVE  Final(p) <=> \A t \in DOMAIN tasks : p \notin tasks[t].sources
<1>1. log[p].task \in DOMAIN tasks
  BY ResultIs
<1>2. \A t \in DOMAIN tasks : p \in tasks[t].sources <=> GroupAt(p) = tasks[t].group /\ log[p].task < t
  BY DEF Versions
<1>3. Final(p) <=> \A t \in DOMAIN tasks : tasks[t].group = GroupAt(p) => t <= log[p].task
  BY DEF Final, Newest, GroupAt
<1>4. \A t \in DOMAIN tasks : t \in Nat /\ log[p].task \in Nat
  BY <1>1, Types
<1> QED  BY <1>2, <1>3, <1>4

(* The groups of a collection are results.                                    *)
LEMMA InputsAre ==
    ASSUME Collections, NEW n \in Rollout, NEW p \in InputsOf(n)
    PROVE  Final(p) /\ p \in Results
BY DEF Collections, Final

(* A final result is in a batch when its group is.                            *)
LEMMA CollectedIs ==
    ASSUME TypeOK, Versions, Collections, NEW p, Final(p)
    PROVE  Collected(GroupAt(p)) <=> \E n \in Rollout : p \in InputsOf(n)
<1>1. ASSUME NEW n \in Rollout, GroupAt(p) \in GroupsOf(n) PROVE p \in InputsOf(n)
  <2>1. PICK q \in InputsOf(n) : GroupAt(p) = GroupAt(q)
    BY <1>1 DEF GroupsOf
  <2>2. Final(q)
    BY InputsAre
  <2> QED  BY <2>1, <2>2, OneFinal
<1>2. ASSUME NEW n \in Rollout, p \in InputsOf(n) PROVE GroupAt(p) \in GroupsOf(n)
  BY <1>2 DEF GroupsOf
<1> QED  BY <1>1, <1>2 DEF Collected

(* What a result replaced is not in a collection.                             *)
LEMMA ReplacedIs ==
    ASSUME TypeOK, Versions, NEW p \in Results, NEW q \in SourcesOf(p)
    PROVE  q \in Results /\ GroupAt(q) = GroupAt(p) /\ ~Final(q) /\ SourcesOf(q) \subseteq SourcesOf(p)
<1>1. log[p].kind = "group" /\ log[p].task \in DOMAIN tasks
  BY ResultIs
<1>2. SourcesOf(p) = tasks[log[p].task].sources
  BY <1>1 DEF SourcesOf
<1>3. q \in Results /\ GroupAt(q) = tasks[log[p].task].group /\ SourcesOf(q) \subseteq SourcesOf(p)
  BY <1>1, <1>2, SourcesClosed
<1> QED  BY <1>1, <1>2, <1>3, FinalIs DEF GroupAt

(* A collection replaces nothing, and a conversion its plan.                  *)
LEMMA OtherSources ==
    ASSUME NEW p \in DOMAIN log
    PROVE  /\ log[p].kind = "collection" => SourcesOf(p) = {}
           /\ log[p].kind = "batch" => SourcesOf(p) = planned[log[p].rollout]
BY DEF SourcesOf

(* A plan holds positions of the log, with all they replaced.                 *)
LEMMA PlanClosed ==
    ASSUME TypeOK, Versions, Collections, NEW n \in Rollout, NEW p \in Plan(n)
    PROVE  /\ p \in DOMAIN log /\ SourcesOf(p) \subseteq Plan(n)
           /\ p \in Positions("collection", n) \/ (p \in Results /\ GroupAt(p) \in GroupsOf(n))
<1>1. CASE p \in Positions("collection", n)
  <2>1. p \in DOMAIN log /\ log[p].kind = "collection"
    BY <1>1 DEF Positions
  <2> QED  BY <1>1, <2>1, OtherSources
<1>2. CASE p \in InputsOf(n)
  <2>1. p \in Results
    BY <1>2, InputsAre
  <2> QED  BY <1>2, <2>1, ResultIs DEF Plan, GroupsOf
<1>3. ASSUME NEW q \in InputsOf(n), p \in SourcesOf(q) PROVE p \in DOMAIN log /\ SourcesOf(p) \subseteq Plan(n) /\ p \in Results /\ GroupAt(p) \in GroupsOf(n)
  <2>1. q \in Results
    BY InputsAre
  <2>2. p \in Results /\ GroupAt(p) = GroupAt(q) /\ SourcesOf(p) \subseteq SourcesOf(q)
    BY <1>3, <2>1, ReplacedIs
  <2> QED  BY <2>2, ResultIs DEF Plan, GroupsOf
<1> QED  BY <1>1, <1>2, <1>3 DEF Plan

(* A plan that was made.                                                      *)
LEMMA PlannedIs ==
    ASSUME TypeOK, Versions, Collections, NEW n \in Rollout
    PROVE  /\ planned[n] \subseteq DOMAIN log
           /\ \A p \in planned[n] : SourcesOf(p) \subseteq planned[n]
           /\ \A p \in planned[n] : p \in Plan(n)
<1>1. planned[n] # {} => planned[n] = Plan(n)
  BY DEF Collections
<1> QED  BY <1>1, PlanClosed

(* Whatever is acknowledged, what it replaced is part of the log.             *)
LEMMA AllSources ==
    ASSUME TypeOK, Versions, Collections, NEW p \in DOMAIN log
    PROVE  SourcesOf(p) \subseteq DOMAIN log /\ \A q \in SourcesOf(p) : SourcesOf(q) \subseteq SourcesOf(p)
<1>1. CASE log[p].kind = "group"
  <2>1. p \in Results
    BY <1>1 DEF Results
  <2> QED  BY <2>1, ReplacedIs, ResultIs
<1>2. CASE log[p].kind = "collection"
  BY <1>2, OtherSources
<1>3. CASE log[p].kind = "batch"
  <2>1. log[p].rollout \in Rollout
    BY <1>3 DEF Collections
  <2> QED  BY <1>3, <2>1, OtherSources, PlannedIs
<1>4. log[p].kind \in {"group", "collection", "batch"}
  BY Types DEF Entry
<1> QED  BY <1>1, <1>2, <1>3, <1>4

-----------------------------------------------------------------------------
(* Acknowledging *)

(* The cursor stops before the first position that is not acknowledged.       *)
LEMMA PrefixEnds ==
    ASSUME TypeOK, NEW done \in SUBSET ((cursor + 1)..Len(log))
    PROVE  LET c == EndOfPrefix(done) IN c \in cursor..Len(log) /\ (cursor + 1)..c \subseteq done /\ c + 1 \notin done
<1>1. cursor \in Nat /\ Len(log) \in Nat /\ cursor <= Len(log)
  BY Types DEF TypeOK
<1> DEFINE S == {c \in cursor..Len(log) : c + 1 \notin done}
           Good(c) == (cursor + 1)..c \subseteq done /\ c + 1 \notin done
<1>2. S \in SUBSET Nat /\ Len(log) \in S
  BY <1>1
<1>3. PICK c \in S : \A d \in S : c <= d
  <2> HIDE DEF S
  <2> QED  BY <1>2, Least
<1>4. c \in cursor..Len(log) /\ c + 1 \notin done
  BY <1>3
<1>5. ASSUME NEW x \in (cursor + 1)..c PROVE x \in done
  <2>1. x - 1 \in cursor..Len(log) /\ ~(c <= x - 1) /\ (x - 1) + 1 = x
    BY <1>1, <1>4, <1>5
  <2> QED  BY <1>3, <2>1
<1>6. Good(c)
  BY <1>4, <1>5
<1>7. EndOfPrefix(done) = CHOOSE d \in cursor..Len(log) : Good(d)
  BY DEF EndOfPrefix
<1> HIDE DEF Good
<1>8. EndOfPrefix(done) \in cursor..Len(log) /\ Good(EndOfPrefix(done))
  BY <1>4, <1>6, <1>7
<1> QED  BY <1>8 DEF Good

(* _advance acknowledges P and what P replaced, and nothing else.             *)
LEMMA Advancing ==
    ASSUME TypeOK, Versions, Collections, Acknowledged, NEW P \in SUBSET DOMAIN log, Advance(P), log' = log
    PROVE  /\ cursor' \in 0..Len(log) /\ processed' \subseteq 1..Len(log)
           /\ \A p \in DOMAIN log : Processed(p)' <=> Processed(p) \/ p \in P \/ \E q \in P : p \in SourcesOf(q)
<1> DEFINE new == {p \in P \ processed : p > cursor}
           sources == UNION {SourcesOf(p) : p \in new}
           done == {p \in processed \cup P \cup sources : p > cursor}
           c == EndOfPrefix(done)
<1>1. cursor' = c /\ processed' = {p \in done : p > c}
  BY DEF Advance
<1>2. /\ cursor \in 0..Len(log) /\ Len(log) \in Nat /\ DOMAIN log = 1..Len(log) /\ processed \subseteq 1..Len(log)
  BY Types DEF TypeOK
<1>3. \A p \in P : SourcesOf(p) \subseteq DOMAIN log
  BY AllSources
<1>4. sources \subseteq DOMAIN log
  BY <1>3
<1>5. \A p \in P : p \in new \/ Processed(p)
  BY <1>2 DEF Processed
<1>6. ASSUME NEW p \in DOMAIN log, NEW q \in P, p \in SourcesOf(q) PROVE p \in sources \/ Processed(p)
  <2>1. CASE q \in new
    BY <1>6, <2>1
  <2>2. CASE Processed(q)
    BY <1>6, <2>2 DEF Acknowledged
  <2> QED  BY <1>5, <2>1, <2>2
<1>7. ASSUME NEW p \in sources PROVE \E q \in P : p \in SourcesOf(q)
  OBVIOUS
<1> HIDE DEF sources, new
<1>8. done \in SUBSET ((cursor + 1)..Len(log))
  <2>1. processed \cup P \cup sources \subseteq 1..Len(log)
    BY <1>2, <1>4
  <2>2. \A p \in done : p \in 1..Len(log) /\ p > cursor
    BY <2>1
  <2> HIDE DEF done
  <2> QED  BY <1>2, <2>2
<1>9. c \in cursor..Len(log) /\ (cursor + 1)..c \subseteq done
  <2> HIDE DEF done
  <2> QED  BY <1>8, PrefixEnds
<1>10. ASSUME NEW p \in DOMAIN log PROVE p <= c \/ p \in {x \in done : x > c} <=> p <= cursor \/ p \in done
  <2>1. p \in Nat /\ cursor \in Nat /\ c \in Nat /\ cursor <= c
    BY <1>2, <1>9
  <2>2. p <= c => p <= cursor \/ p \in (cursor + 1)..c
    BY <2>1
  <2> HIDE DEF done, c
  <2> QED  BY <1>9, <2>1, <2>2
<1>11. ASSUME NEW p \in DOMAIN log PROVE Processed(p)' <=> p <= cursor \/ p \in done
  BY <1>1, <1>10 DEF Processed
<1>12. ASSUME NEW p \in DOMAIN log
       PROVE p <= cursor \/ p \in done <=> Processed(p) \/ p \in P \/ p \in sources
  BY <1>2 DEF Processed
<1>13. cursor' \in 0..Len(log) /\ processed' \subseteq 1..Len(log)
  <2>1. c \in 0..Len(log)
    BY <1>2, <1>9
  <2>2. done \subseteq 1..Len(log)
    BY <1>2, <1>8
  <2> HIDE DEF done, c
  <2> QED  BY <1>1, <2>1, <2>2
<1> HIDE DEF done, c
<1>14. ASSUME NEW p \in DOMAIN log
       PROVE  Processed(p)' <=> Processed(p) \/ p \in P \/ \E q \in P : p \in SourcesOf(q)
  BY <1>6, <1>7, <1>11, <1>12
<1> QED  BY <1>13, <1>14

-----------------------------------------------------------------------------
(* Steps of the log and of the tasks *)

(* What every step keeps.                                                     *)
Grown ==
    /\ \A p \in DOMAIN log : p \in DOMAIN log' /\ log'[p] = log[p] /\ SourcesOf(p)' = SourcesOf(p)
    /\ \A p \in Results : p \in Results' /\ GroupAt(p)' = GroupAt(p)
    /\ \A g \in Group : Dropped(g) => Dropped(g)'

SamePositions(kind) == \A n \in Rollout : Positions(kind, n)' = Positions(kind, n)

(* What is free is not in a batch.                                            *)
LEMMA FreeIs == \A p : Free(p) <=> Final(p) /\ \A n \in Rollout : GroupAt(p) \notin GroupsOf(n)
BY DEF Free, Collected

(* A step that collects nothing leaves the collections alone.                 *)
LEMMA CollectionsKeep ==
    ASSUME TypeOK, Versions, Collections, Grown, SamePositions("collection")
    PROVE  /\ \A n \in Rollout : InputsOf(n)' = InputsOf(n)
           /\ \A n \in Rollout : Plan(n)' = Plan(n)
           /\ \A n \in Rollout : GroupsOf(n)' = GroupsOf(n)
           /\ \A g : Collected(g)' <=> Collected(g)
<1>1. ASSUME NEW n \in Rollout PROVE InputsOf(n)' = InputsOf(n)
  <2>1. \A c \in Positions("collection", n) : log'[c] = log[c]
    BY DEF Positions, Grown
  <2> QED  BY <2>1 DEF InputsOf, SamePositions
<1>2. ASSUME NEW n \in Rollout PROVE \A p \in InputsOf(n) : SourcesOf(p)' = SourcesOf(p) /\ GroupAt(p)' = GroupAt(p)
  BY InputsAre, ResultIs DEF Grown
<1>3. ASSUME NEW n \in Rollout PROVE Plan(n)' = Plan(n)
  BY <1>1, <1>2 DEF Plan, SamePositions
<1>4. ASSUME NEW n \in Rollout PROVE GroupsOf(n)' = GroupsOf(n)
  BY <1>1, <1>2 DEF GroupsOf
<1>5. \A g : Collected(g)' <=> Collected(g)
  BY <1>4 DEF Collected
<1> QED  BY <1>1, <1>3, <1>4, <1>5

(* ... so that a result is free as long as it is final.                       *)
LEMMA FreeKeeps ==
    ASSUME TypeOK, Versions, Collections, Grown, SamePositions("collection"), NEW p \in Results
    PROVE  Free(p)' <=> Final(p)' /\ ~Collected(GroupAt(p))
<1>1. \A n \in Rollout : GroupsOf(n)' = GroupsOf(n)
  BY CollectionsKeep
<1>2. GroupAt(p)' = GroupAt(p)
  BY DEF Grown
<1> QED  BY <1>1, <1>2 DEF Free, Collected

(* A step of the leases: the state of the newest version of a group.          *)
Leases ==
    /\ UNCHANGED <<produced, planned, log>>
    /\ tasks' \in Seq(Task) /\ DOMAIN tasks' = DOMAIN tasks
    /\ \A t \in DOMAIN tasks :
          /\ tasks'[t].group = tasks[t].group /\ tasks'[t].sources = tasks[t].sources
          /\ tasks'[t].state = "completed" <=> tasks[t].state = "completed"
          /\ tasks[t].state = "failed" => tasks'[t].state = "failed"

(* A step that only changes leases keeps results, versions and collections.  *)
LEMMA LeasesKeep ==
    ASSUME TypeOK, Versions, Collections, Leases, active \subseteq active'
    PROVE  /\ Versions' /\ Collections' /\ Grown /\ Results' = Results
           /\ SamePositions("collection") /\ SamePositions("batch")
           /\ \A p \in Results : Free(p)' <=> Free(p)
<1>1. \A t \in DOMAIN tasks : Newest(t)' <=> Newest(t)
  BY DEF Leases, Newest
<1>2. Results' = Results
  BY DEF Results, Leases
<1>3. \A p \in Results : p \in DOMAIN log /\ log[p].task \in DOMAIN tasks /\ log[p].worker \in active /\ log[p].kind = "group"
  BY ResultIs
<1>4. \A p \in Results : GroupAt(p)' = GroupAt(p)
  BY <1>3 DEF GroupAt, Leases
<1>5. Versions'
  <2>1. ASSUME NEW t \in DOMAIN tasks
        PROVE  /\ tasks'[t].group <= produced'
               /\ ~Newest(t)' => tasks'[t].state = "completed"
               /\ tasks'[t].state = "completed" => \E p \in Results : log'[p].task = t
    BY <1>1 DEF Versions, Leases
  <2>2. ASSUME NEW t \in DOMAIN tasks
        PROVE  tasks'[t].sources = {p \in Results : GroupAt(p)' = tasks'[t].group /\ log'[p].task < t}
    <3>1. tasks[t].sources = {p \in Results : GroupAt(p) = tasks[t].group /\ log[p].task < t}
      BY DEF Versions
    <3>2. {p \in Results : GroupAt(p)' = tasks'[t].group /\ log'[p].task < t}
             = {p \in Results : GroupAt(p) = tasks[t].group /\ log[p].task < t}
      BY <1>4 DEF Leases
    <3> QED  BY <3>1, <3>2 DEF Leases
  <2>3. \A p \in Results : /\ log'[p].task \in DOMAIN tasks' /\ tasks'[log'[p].task].state = "completed"
                           /\ log'[p].worker \in active'
    BY <1>3 DEF Versions, Leases
  <2>4. \A p, q \in Results : log'[p].task = log'[q].task => p = q
    BY DEF Versions, Leases
  <2>5. DOMAIN tasks' = DOMAIN tasks
    BY DEF Leases
  <2> QED  BY <1>2, <2>1, <2>2, <2>3, <2>4, <2>5 DEF Versions
<1>6. SamePositions("collection") /\ SamePositions("batch")
  BY DEF SamePositions, Positions, Leases
<1>7. \A p \in DOMAIN log : SourcesOf(p)' = SourcesOf(p)
  <2> SUFFICES ASSUME NEW p \in DOMAIN log PROVE SourcesOf(p)' = SourcesOf(p)
    OBVIOUS
  <2>1. CASE log[p].kind = "group"
    <3>1. log[p].task \in DOMAIN tasks
      BY <1>3, <2>1 DEF Results
    <3> QED  BY <2>1, <3>1 DEF SourcesOf, Leases
  <2>2. CASE log[p].kind = "collection"
    BY <2>2 DEF SourcesOf, Leases
  <2>3. CASE log[p].kind = "batch"
    BY <2>3 DEF SourcesOf, Leases
  <2>4. log[p].kind \in {"group", "collection", "batch"}
    BY Types DEF Entry
  <2> QED  BY <2>1, <2>2, <2>3, <2>4
<1>8. \A g \in Group : Dropped(g) => Dropped(g)'
  BY DEF Dropped, InState, TasksOf, Leases
<1>9. Grown
  BY <1>2, <1>4, <1>7, <1>8 DEF Grown, Leases
<1>10. \A p \in Results : Final(p)' <=> Final(p)
  BY <1>1, <1>2, <1>3 DEF Final, Leases
<1>11. \A p \in Results : Free(p)' <=> Free(p)
  BY <1>6, <1>9, <1>10, FreeKeeps DEF Free
<1>12. Collections'
  <2>1. /\ \A n \in Rollout : InputsOf(n)' = InputsOf(n)
        /\ \A n \in Rollout : Plan(n)' = Plan(n)
    BY <1>6, <1>9, CollectionsKeep
  <2>2. \A n \in Rollout : Converted(n)' <=> Converted(n)
    BY <1>6 DEF Converted, SamePositions
  <2>3. \A n \in Rollout : \A p \in InputsOf(n) : Final(p)'
    BY <1>10, InputsAre
  <2> QED  BY <1>6, <2>1, <2>2, <2>3 DEF Collections, Leases, SamePositions
<1> QED  BY <1>2, <1>5, <1>6, <1>9, <1>11, <1>12

(* A log that is only appended to.                                            *)
LEMMA Appends ==
    ASSUME TypeOK, NEW e \in Entry, log' = Append(log, e)
    PROVE  /\ log' \in Seq(Entry) /\ Len(log') = Len(log) + 1 /\ DOMAIN log' = DOMAIN log \cup {Len(log) + 1}
           /\ Len(log) + 1 \notin DOMAIN log /\ log'[Len(log) + 1] = e
           /\ \A p \in DOMAIN log : log'[p] = log[p]
<1>1. log \in Seq(Entry) /\ Len(log) \in Nat
  BY DEF TypeOK
<1> QED  BY <1>1

(* The positions of a log that was appended to.                               *)
LEMMA AppendedPositions ==
    ASSUME TypeOK, NEW e \in Entry, log' = Append(log, e)
    PROVE  \A kind, n : Positions(kind, n)' =
             IF e.kind = kind /\ e.rollout = n THEN Positions(kind, n) \cup {Len(log) + 1} ELSE Positions(kind, n)
<1>1. /\ DOMAIN log' = DOMAIN log \cup {Len(log) + 1} /\ Len(log) + 1 \notin DOMAIN log
      /\ log'[Len(log) + 1] = e /\ \A p \in DOMAIN log : log'[p] = log[p]
  BY Appends
<1> QED  BY <1>1 DEF Positions

(* An entry that is not a result of a group changes no version.               *)
LEMMA OtherEntry ==
    ASSUME TypeOK, Versions, Collections, NEW e \in Entry, log' = Append(log, e), e.kind # "group",
           UNCHANGED <<produced, tasks, planned>>, active \subseteq active'
    PROVE  /\ Versions' /\ Grown /\ Results' = Results
           /\ \A p \in Results : Final(p)' <=> Final(p)
           /\ \A g : Dropped(g)' <=> Dropped(g)
<1>1. /\ DOMAIN log' = DOMAIN log \cup {Len(log) + 1} /\ Len(log) + 1 \notin DOMAIN log
      /\ log'[Len(log) + 1] = e /\ \A p \in DOMAIN log : log'[p] = log[p]
  BY Appends
<1>2. Results' = Results
  BY <1>1 DEF Results
<1>3. \A p \in Results : p \in DOMAIN log /\ log'[p] = log[p]
  BY <1>1, ResultIs
<1>4. \A p \in Results : GroupAt(p)' = GroupAt(p)
  BY <1>3 DEF GroupAt
<1>5. \A t \in DOMAIN tasks : Newest(t)' <=> Newest(t)
  BY DEF Newest
<1>6. Versions'
  <2>1. ASSUME NEW t \in DOMAIN tasks
        PROVE  /\ tasks[t].group <= produced
               /\ ~Newest(t)' => tasks[t].state = "completed"
               /\ tasks[t].state = "completed" => \E p \in Results : log'[p].task = t
    BY <1>3, <1>5 DEF Versions
  <2>2. ASSUME NEW t \in DOMAIN tasks
        PROVE  tasks[t].sources = {p \in Results : GroupAt(p)' = tasks[t].group /\ log'[p].task < t}
    <3>1. tasks[t].sources = {p \in Results : GroupAt(p) = tasks[t].group /\ log[p].task < t}
      BY DEF Versions
    <3>2. {p \in Results : GroupAt(p)' = tasks[t].group /\ log'[p].task < t}
             = {p \in Results : GroupAt(p) = tasks[t].group /\ log[p].task < t}
      BY <1>3, <1>4
    <3> QED  BY <3>1, <3>2
  <2>3. \A p \in Results : /\ log'[p].task \in DOMAIN tasks /\ tasks[log'[p].task].state = "completed"
                           /\ log'[p].worker \in active'
    BY <1>3 DEF Versions
  <2>4. \A p, q \in Results : log'[p].task = log'[q].task => p = q
    BY <1>3 DEF Versions
  <2> QED  BY <1>2, <2>1, <2>2, <2>3, <2>4 DEF Versions
<1>7. \A p \in DOMAIN log : SourcesOf(p)' = SourcesOf(p)
  BY <1>1 DEF SourcesOf
<1>8. \A g : Dropped(g)' <=> Dropped(g)
  BY DEF Dropped, InState, TasksOf
<1>9. Grown
  BY <1>1, <1>2, <1>4, <1>7, <1>8 DEF Grown
<1>10. \A p \in Results : Final(p)' <=> Final(p)
  <2>1. \A p \in Results : log[p].task \in DOMAIN tasks /\ log'[p] = log[p]
    BY <1>3, ResultIs
  <2> QED  BY <1>2, <1>5, <2>1 DEF Final
<1> QED  BY <1>2, <1>6, <1>8, <1>9, <1>10

(* A conversion is accepted, for a rollout that has a plan.                   *)
LEMMA BatchAppended ==
    ASSUME TypeOK, Versions, Collections, UNCHANGED <<produced, tasks, planned, active>>, planned[rollout] # {},
           log' = Append(log, [kind |-> "batch", task |-> 0, worker |-> NoReader, rollout |-> rollout, inputs |-> {}])
    PROVE  /\ Versions' /\ Collections' /\ Grown /\ Results' = Results
           /\ log' \in Seq(Entry) /\ Len(log') = Len(log) + 1 /\ DOMAIN log' = DOMAIN log \cup {Len(log) + 1}
           /\ log'[Len(log) + 1].kind = "batch" /\ log'[Len(log) + 1].rollout = rollout
           /\ SamePositions("collection")
           /\ \A n : Positions("batch", n)' = IF n = rollout THEN Positions("batch", n) \cup {Len(log) + 1}
                                              ELSE Positions("batch", n)
           /\ \A p \in Results : Free(p)' <=> Free(p)
           /\ \A g : Dropped(g)' <=> Dropped(g)
<1> DEFINE e == [kind |-> "batch", task |-> 0, worker |-> NoReader, rollout |-> rollout, inputs |-> {}]
<1>1. e \in Entry /\ e.kind = "batch" /\ e.rollout = rollout /\ log' = Append(log, e) /\ rollout \in Rollout
  BY Types DEF Entry, TypeOK
<1> HIDE DEF e
<1>2. /\ Versions' /\ Grown /\ Results' = Results /\ \A p \in Results : Final(p)' <=> Final(p)
      /\ \A g : Dropped(g)' <=> Dropped(g)
  BY <1>1, OtherEntry
<1>3. /\ log' \in Seq(Entry) /\ Len(log') = Len(log) + 1 /\ DOMAIN log' = DOMAIN log \cup {Len(log) + 1}
      /\ log'[Len(log) + 1] = e /\ \A p \in DOMAIN log : log'[p] = log[p]
  BY <1>1, Appends
<1>4. \A n : /\ Positions("collection", n)' = Positions("collection", n)
             /\ Positions("batch", n)' = IF n = rollout THEN Positions("batch", n) \cup {Len(log) + 1}
                                         ELSE Positions("batch", n)
  BY <1>1, AppendedPositions
<1>5. SamePositions("collection")
  BY <1>4 DEF SamePositions
<1>6. \A p \in Results : Free(p)' <=> Free(p)
  BY <1>2, <1>5, FreeKeeps DEF Free
<1>7. Collections'
  <2>1. /\ \A n \in Rollout : InputsOf(n)' = InputsOf(n)
        /\ \A n \in Rollout : Plan(n)' = Plan(n)
    BY <1>2, <1>5, CollectionsKeep
  <2>2. \A n \in Rollout : Converted(n)' => Converted(n) \/ n = rollout
    BY <1>4 DEF Converted
  <2>3. \A n \in Rollout : \A p \in InputsOf(n) : Final(p)'
    BY <1>2, InputsAre
  <2>4. \A p \in DOMAIN log' : log'[p].kind # "group" => log'[p].rollout \in Rollout
    BY <1>1, <1>3 DEF Collections
  <2>5. \A n \in Rollout : \A p, q \in Positions("collection", n) : p = q
    BY DEF Collections
  <2>6. \A n \in Rollout : planned'[n] # {} => planned'[n] = Plan(n)
    BY DEF Collections
  <2>7. \A n \in Rollout : Converted(n)' => planned'[n] # {}
    BY <2>2 DEF Collections
  <2> QED  BY <1>4, <2>1, <2>3, <2>4, <2>5, <2>6, <2>7 DEF Collections
<1> QED  BY <1>1, <1>2, <1>3, <1>4, <1>5, <1>6, <1>7

(* A rollout collects S, for the first time.                                  *)
LEMMA CollectionAppended ==
    ASSUME TypeOK, Versions, Collections, UNCHANGED <<produced, tasks, planned, active>>,
           Positions("collection", rollout) = {}, NEW S \in SUBSET Nat, \A p \in S : Free(p),
           log' = Append(log, [kind |-> "collection", task |-> 0, worker |-> NoReader, rollout |-> rollout, inputs |-> S])
    PROVE  /\ Versions' /\ Collections' /\ Grown /\ Results' = Results
           /\ log' \in Seq(Entry) /\ Len(log') = Len(log) + 1 /\ DOMAIN log' = DOMAIN log \cup {Len(log) + 1}
           /\ log'[Len(log) + 1].kind = "collection"
           /\ SamePositions("batch") /\ planned[rollout] = {}
           /\ \A n : Positions("collection", n)' = IF n = rollout THEN {Len(log) + 1} ELSE Positions("collection", n)
           /\ \A n \in Rollout : InputsOf(n)' = IF n = rollout THEN S ELSE InputsOf(n)
           /\ \A n \in Rollout : GroupsOf(n)' = IF n = rollout THEN {GroupAt(p) : p \in S} ELSE GroupsOf(n)
           /\ \A p \in Results : Free(p)' <=> Free(p) /\ p \notin S
           /\ \A g : Dropped(g)' <=> Dropped(g)
<1> DEFINE e == [kind |-> "collection", task |-> 0, worker |-> NoReader, rollout |-> rollout, inputs |-> S]
<1>1. e \in Entry /\ e.kind = "collection" /\ e.rollout = rollout /\ e.inputs = S /\ log' = Append(log, e) /\ rollout \in Rollout
  BY Types DEF Entry, TypeOK
<1> HIDE DEF e
<1>2. /\ Versions' /\ Grown /\ Results' = Results /\ \A p \in Results : Final(p)' <=> Final(p)
      /\ \A g : Dropped(g)' <=> Dropped(g)
  BY <1>1, OtherEntry
<1>3. /\ log' \in Seq(Entry) /\ Len(log') = Len(log) + 1 /\ DOMAIN log' = DOMAIN log \cup {Len(log) + 1}
      /\ log'[Len(log) + 1] = e /\ \A p \in DOMAIN log : log'[p] = log[p]
  BY <1>1, Appends
<1>4. \A n : /\ Positions("batch", n)' = Positions("batch", n)
             /\ Positions("collection", n)' = IF n = rollout THEN {Len(log) + 1} ELSE Positions("collection", n)
  BY <1>1, AppendedPositions
<1>5. \A n \in Rollout : InputsOf(n)' = IF n = rollout THEN S ELSE InputsOf(n)
  <2>1. ASSUME NEW n \in Rollout, n = rollout PROVE InputsOf(n)' = S
    BY <1>1, <1>3, <1>4, <2>1 DEF InputsOf
  <2>2. ASSUME NEW n \in Rollout, n # rollout PROVE InputsOf(n)' = InputsOf(n)
    <3>1. \A c \in Positions("collection", n) : log'[c] = log[c]
      BY <1>3 DEF Positions
    <3>2. Positions("collection", n)' = Positions("collection", n)
      BY <1>4, <2>2
    <3> QED  BY <3>1, <3>2 DEF InputsOf
  <2> QED  BY <2>1, <2>2
<1>6. S \subseteq Results /\ \A n \in Rollout : InputsOf(n) \subseteq Results
  BY InputsAre DEF Free, Final
<1>7. \A p \in Results : GroupAt(p)' = GroupAt(p) /\ SourcesOf(p)' = SourcesOf(p)
  BY <1>2, ResultIs DEF Grown
<1>8. \A n \in Rollout : GroupsOf(n)' = IF n = rollout THEN {GroupAt(p) : p \in S} ELSE GroupsOf(n)
  BY <1>5, <1>6, <1>7 DEF GroupsOf
<1>9. planned[rollout] = {}
  <2>1. InputsOf(rollout) = {}
    BY DEF InputsOf
  <2>2. Plan(rollout) = {}
    BY <2>1 DEF Plan
  <2> QED  BY <1>1, <2>2 DEF Collections
<1>10. ASSUME NEW p \in Results PROVE Free(p)' <=> Free(p) /\ p \notin S
  <2>1. \A n \in Rollout : GroupAt(p)' \in GroupsOf(n)' <=> IF n = rollout THEN GroupAt(p) \in {GroupAt(q) : q \in S}
                                                          ELSE GroupAt(p) \in GroupsOf(n)
    BY <1>7, <1>8
  <2>2. GroupsOf(rollout) = {}
    BY DEF InputsOf, GroupsOf
  <2>3. Final(p) => (GroupAt(p) \in {GroupAt(q) : q \in S} <=> p \in S)
    BY OneFinal DEF Free
  <2>4. Final(p)' <=> Final(p)
    BY <1>2
  <2>5. Free(p)' <=> Final(p)' /\ \A n \in Rollout : GroupAt(p)' \notin GroupsOf(n)'
    BY DEF Free, Collected
  <2> QED  BY <1>1, <2>1, <2>2, <2>3, <2>4, <2>5, FreeIs
<1>11. Collections'
  <2>1. ASSUME NEW n \in Rollout, n # rollout PROVE Plan(n)' = Plan(n)
    <3>1. InputsOf(n)' = InputsOf(n) /\ \A p \in InputsOf(n) : SourcesOf(p)' = SourcesOf(p)
      BY <1>5, <1>6, <1>7, <2>1
    <3> QED  BY <1>4, <2>1, <3>1 DEF Plan
  <2>2. \A n \in Rollout : Converted(n)' <=> Converted(n)
    BY <1>4 DEF Converted
  <2>3. \A n \in Rollout : \A p \in InputsOf(n)' : Final(p)'
    BY <1>2, <1>5, <1>6, InputsAre DEF Free
  <2>4. \A p \in DOMAIN log' : log'[p].kind # "group" => log'[p].rollout \in Rollout
    BY <1>1, <1>3 DEF Collections
  <2>5. \A n \in Rollout : \A p, q \in Positions("collection", n)' : p = q
    BY <1>4 DEF Collections
  <2>6. \A n \in Rollout : planned'[n] # {} => planned'[n] = Plan(n)'
    BY <1>9, <2>1 DEF Collections
  <2>7. \A n \in Rollout : Converted(n)' => planned'[n] # {}
    BY <2>2 DEF Collections
  <2> QED  BY <2>3, <2>4, <2>5, <2>6, <2>7 DEF Collections
<1>12. SamePositions("batch")
  BY <1>4 DEF SamePositions
<1>13. log'[Len(log) + 1].kind = "collection"
  BY <1>1, <1>3
<1> QED  BY <1>2, <1>3, <1>4, <1>5, <1>8, <1>9, <1>10, <1>11, <1>12, <1>13

(* The result of a valid lease is accepted: it is the newest of its group,    *)
(* and no batch holds the group.                                              *)
LEMMA ResultAppended ==
    ASSUME TypeOK, Versions, Collections, UNCHANGED <<produced, planned, active>>,
           NEW t \in DOMAIN tasks, tasks[t].state = "leased", NEW r \in active,
           log' = Append(log, [kind |-> "group", task |-> t, worker |-> r, rollout |-> 0, inputs |-> {}]),
           tasks' = [tasks EXCEPT ![t].state = "completed"]
    PROVE  /\ Versions' /\ Collections' /\ Grown /\ Results' = Results \cup {Len(log) + 1}
           /\ log' \in Seq(Entry) /\ Len(log') = Len(log) + 1 /\ DOMAIN log' = DOMAIN log \cup {Len(log) + 1}
           /\ tasks' \in Seq(Task) /\ DOMAIN tasks' = DOMAIN tasks
           /\ log'[Len(log) + 1].kind = "group" /\ log'[Len(log) + 1].worker = r
           /\ SamePositions("collection") /\ SamePositions("batch")
           /\ \A p \in Results : Free(p)' <=> Free(p)
           /\ \A p : p = Len(log) + 1 => Free(p)' /\ GroupAt(p)' = tasks[t].group
           /\ \A g : Dropped(g)' <=> Dropped(g)
           /\ ~Dropped(tasks[t].group)
<1> DEFINE e == [kind |-> "group", task |-> t, worker |-> r, rollout |-> 0, inputs |-> {}]
           last == Len(log) + 1
<1>1. e \in Entry /\ e.kind = "group" /\ e.task = t /\ e.worker = r /\ log' = Append(log, e) /\ last \in Nat
  <2>1. t \in Nat /\ last \in Nat
    BY Types
  <2>2. r \in Reader
    BY DEF TypeOK
  <2>3. e \in Entry
    BY <2>1, <2>2 DEF Entry
  <2> QED  BY <2>1, <2>3
<1> HIDE DEF e
<1>2. /\ log' \in Seq(Entry) /\ Len(log') = last /\ DOMAIN log' = DOMAIN log \cup {last}
      /\ last \notin DOMAIN log /\ log'[last] = e /\ \A p \in DOMAIN log : log'[p] = log[p]
  BY <1>1, Appends
<1> HIDE DEF last
<1>3. /\ tasks' \in Seq(Task) /\ DOMAIN tasks' = DOMAIN tasks
      /\ \A u \in DOMAIN tasks : tasks'[u].group = tasks[u].group /\ tasks'[u].sources = tasks[u].sources
      /\ \A u \in DOMAIN tasks : u # t => tasks'[u] = tasks[u]
      /\ tasks'[t].state = "completed"
  <2>1. tasks \in Seq(Task) /\ tasks[t] \in Task
    BY Types DEF TypeOK
  <2>2. [tasks[t] EXCEPT !.state = "completed"] \in Task
    BY <2>1 DEF Task
  <2>3. tasks' = [tasks EXCEPT ![t] = [tasks[t] EXCEPT !.state = "completed"]]
    OBVIOUS
  <2>4. tasks' \in Seq(Task)
    BY <2>1, <2>2, <2>3
  <2>5. LET k == [tasks[t] EXCEPT !.state = "completed"]
        IN  k.group = tasks[t].group /\ k.sources = tasks[t].sources /\ k.state = "completed"
    BY <2>1 DEF Task
  <2> QED  BY <2>1, <2>3, <2>4, <2>5
<1>4. Results' = Results \cup {last} /\ last \notin Results
  BY <1>1, <1>2 DEF Results
<1>5. \A p \in Results : p \in DOMAIN log /\ log'[p] = log[p] /\ log[p].task \in DOMAIN tasks /\ log[p].task # t
  BY <1>2, ResultIs
<1>6. \A p \in Results : GroupAt(p)' = GroupAt(p)
  BY <1>3, <1>5 DEF GroupAt
<1>7. \A p : p = last => GroupAt(p)' = tasks[t].group
  BY <1>1, <1>2, <1>3 DEF GroupAt
<1>8. /\ \A u \in DOMAIN tasks : Newest(u)' <=> Newest(u)
      /\ Newest(t)
  BY <1>3 DEF Newest, Versions
<1>9. \A u \in DOMAIN tasks : tasks[u].group = tasks[t].group => u <= t
  BY <1>8 DEF Newest
<1>10. Versions'
  <2>1. ASSUME NEW u \in DOMAIN tasks
        PROVE  tasks'[u].group <= produced' /\ (~Newest(u)' => tasks'[u].state = "completed")
    BY <1>3, <1>8 DEF Versions
  <2>2. ASSUME NEW u \in DOMAIN tasks, tasks'[u].state = "completed" PROVE \E p \in Results' : log'[p].task = u
    <3>1. CASE u = t
      BY <1>1, <1>2, <1>4, <3>1
    <3>2. CASE u # t
      <4>1. tasks[u].state = "completed"
        BY <1>3, <2>2, <3>2
      <4>2. PICK p \in Results : log[p].task = u
        BY <4>1 DEF Versions
      <4> QED  BY <1>4, <1>5, <4>2
    <3> QED  BY <3>1, <3>2
  <2>3. ASSUME NEW u \in DOMAIN tasks
        PROVE  tasks'[u].sources = {p \in Results' : GroupAt(p)' = tasks'[u].group /\ log'[p].task < u}
    <3>1. tasks[u].sources = {p \in Results : GroupAt(p) = tasks[u].group /\ log[p].task < u}
      BY DEF Versions
    <3>2. \A p \in Results : (GroupAt(p)' = tasks'[u].group /\ log'[p].task < u) <=> (GroupAt(p) = tasks[u].group /\ log[p].task < u)
      BY <1>3, <1>5, <1>6
    <3>3. \A p : p = last => ~(GroupAt(p)' = tasks'[u].group /\ log'[p].task < u)
      <4>1. tasks[u].group = tasks[t].group => u <= t
        BY <1>9
      <4>2. u \in Nat /\ t \in Nat
        BY Types
      <4> QED  BY <1>1, <1>2, <1>3, <1>7, <4>1, <4>2
    <3> QED  BY <1>3, <1>4, <3>1, <3>2, <3>3
  <2>4. ASSUME NEW p \in Results'
        PROVE  log'[p].task \in DOMAIN tasks' /\ tasks'[log'[p].task].state = "completed" /\ log'[p].worker \in active'
    <3>1. CASE p \in Results
      BY <1>3, <1>5, <3>1, ResultIs
    <3>2. CASE p = last
      BY <1>1, <1>2, <1>3, <3>2
    <3> QED  BY <1>4, <3>1, <3>2
  <2>5. \A p, q \in Results' : log'[p].task = log'[q].task => p = q
    <3>1. \A p, q \in Results : log[p].task = log[q].task => p = q
      BY DEF Versions
    <3> QED  BY <1>1, <1>2, <1>4, <1>5, <3>1
  <2>6. DOMAIN tasks' = DOMAIN tasks
    BY <1>3
  <2> QED  BY <2>1, <2>2, <2>3, <2>4, <2>5, <2>6 DEF Versions
<1>11. \A p \in DOMAIN log : SourcesOf(p)' = SourcesOf(p)
  <2> SUFFICES ASSUME NEW p \in DOMAIN log PROVE SourcesOf(p)' = SourcesOf(p)
    OBVIOUS
  <2>1. CASE log[p].kind = "group"
    <3>1. log[p].task \in DOMAIN tasks
      BY <1>5, <2>1 DEF Results
    <3> QED  BY <1>2, <1>3, <2>1, <3>1 DEF SourcesOf
  <2>2. CASE log[p].kind = "collection"
    BY <1>2, <2>2 DEF SourcesOf
  <2>3. CASE log[p].kind = "batch"
    BY <1>2, <2>3 DEF SourcesOf
  <2>4. log[p].kind \in {"group", "collection", "batch"}
    BY Types DEF Entry
  <2> QED  BY <2>1, <2>2, <2>3, <2>4
<1>12. \A g : Dropped(g) <=> Dropped(g)'
  BY <1>3 DEF Dropped, InState, TasksOf
<1>13. Grown
  BY <1>2, <1>4, <1>6, <1>11, <1>12 DEF Grown
<1>14. SamePositions("collection") /\ SamePositions("batch")
  BY <1>1, AppendedPositions DEF SamePositions
<1>15. \A p \in Results : Final(p)' <=> Final(p)
  BY <1>4, <1>5, <1>8 DEF Final
<1>16. \A p \in Results : Free(p)' <=> Free(p)
  BY <1>13, <1>14, <1>15, FreeKeeps DEF Free
<1>17. Collections'
  <2>1. /\ \A n \in Rollout : InputsOf(n)' = InputsOf(n)
        /\ \A n \in Rollout : Plan(n)' = Plan(n)
    BY <1>13, <1>14, CollectionsKeep
  <2>2. \A n \in Rollout : Converted(n)' <=> Converted(n)
    BY <1>14 DEF Converted, SamePositions
  <2>3. \A n \in Rollout : \A p \in InputsOf(n)' : Final(p)'
    BY <1>15, <2>1, InputsAre
  <2>4. \A p \in DOMAIN log' : log'[p].kind # "group" => log'[p].rollout \in Rollout
    BY <1>1, <1>2 DEF Collections
  <2>5. \A n \in Rollout : \A p, q \in Positions("collection", n)' : p = q
    BY <1>14 DEF Collections, SamePositions
  <2>6. \A n \in Rollout : planned'[n] # {} => planned'[n] = Plan(n)'
    BY <2>1 DEF Collections
  <2>7. \A n \in Rollout : Converted(n)' => planned'[n] # {}
    BY <2>2 DEF Collections
  <2> QED  BY <2>3, <2>4, <2>5, <2>6, <2>7 DEF Collections
<1>18. ASSUME NEW p, p = last PROVE Free(p)'
  <2>1. Final(p)'
    BY <1>1, <1>2, <1>4, <1>8, <1>18 DEF Final
  <2>2. ASSUME NEW n \in Rollout, tasks[t].group \in GroupsOf(n) PROVE FALSE
    <3>1. PICK q \in InputsOf(n) : tasks[t].group = GroupAt(q)
      BY <2>2 DEF GroupsOf
    <3>2. Final(q) /\ q \in Results
      BY InputsAre
    <3>3. Newest(log[q].task) /\ log[q].task \in DOMAIN tasks /\ tasks[log[q].task].group = tasks[t].group
      BY <3>1, <3>2, ResultIs DEF Final, GroupAt
    <3>4. log[q].task <= t /\ t <= log[q].task /\ t \in Nat /\ log[q].task \in Nat
      BY <1>9, <3>3, Types DEF Newest
    <3>5. log[q].task # t
      BY <1>5, <3>2
    <3> QED  BY <3>4, <3>5
  <2>3. \A n \in Rollout : GroupsOf(n)' = GroupsOf(n)
    BY <1>13, <1>14, CollectionsKeep
  <2>4. Free(p)'
    BY <1>7, <1>18, <2>1, <2>2, <2>3 DEF Free, Collected
  <2> QED  BY <2>4
<1>19. ASSUME Dropped(tasks[t].group) PROVE FALSE
  <2>1. PICK u \in DOMAIN tasks : tasks[u].group = tasks[t].group /\ tasks[u].state = "failed"
    BY <1>19 DEF Dropped, InState, TasksOf
  <2>2. Newest(u)
    BY <2>1 DEF Versions
  <2>3. u <= t /\ t <= u /\ t \in Nat /\ u \in Nat
    BY <1>9, <2>1, <2>2, Types DEF Newest
  <2> QED  BY <2>1, <2>3
<1> QED  BY <1>1, <1>2, <1>3, <1>4, <1>7, <1>10, <1>12, <1>13, <1>14, <1>16, <1>17, <1>18, <1>19 DEF last

(* Without a new failure the same groups are dropped.                         *)
LEMMA DroppedKeeps ==
    ASSUME DOMAIN tasks' = DOMAIN tasks,
           \A t \in DOMAIN tasks : /\ tasks'[t].group = tasks[t].group
                                   /\ tasks'[t].state = "failed" <=> tasks[t].state = "failed"
    PROVE  \A g : Dropped(g)' <=> Dropped(g)
BY DEF Dropped, InState, TasksOf

(* The tasks that a refill adds.                                              *)
LEMMA Added ==
    ASSUME TypeOK, Versions, NEW k \in Nat, produced + k <= MaxGroups, produced' = produced + k,
           tasks' = tasks \o [i \in 1..k |-> NewTask(produced + i, {}, 0)]
    PROVE  /\ tasks' \in Seq(Task) /\ Len(tasks') = Len(tasks) + k
           /\ DOMAIN tasks = 1..Len(tasks) /\ DOMAIN tasks' = 1..(Len(tasks) + k) /\ DOMAIN tasks \subseteq DOMAIN tasks'
           /\ \A t \in DOMAIN tasks : tasks'[t] = tasks[t] /\ tasks[t].group <= produced /\ tasks[t].group \in Nat
           /\ \A t \in DOMAIN tasks' : t \notin DOMAIN tasks =>
                  /\ tasks'[t].group = produced + (t - Len(tasks)) /\ tasks'[t].sources = {} /\ tasks'[t].state = "pending"
                  /\ t \in Nat /\ t - Len(tasks) \in 1..k /\ tasks'[t].group \in Nat /\ ~(tasks'[t].group <= produced)
                  /\ tasks'[t].group <= produced'
<1> DEFINE new == [i \in 1..k |-> NewTask(produced + i, {}, 0)]
<1>1. produced \in Nat /\ tasks \in Seq(Task) /\ Len(tasks) \in Nat
  BY Types DEF TypeOK
<1>2. new \in Seq(Task) /\ Len(new) = k
  <2>1. \A i \in 1..k : produced + i \in Group
    BY <1>1, Constants DEF Group
  <2>2. \A i \in 1..k : NewTask(produced + i, {}, 0) \in Task
    BY <2>1 DEF NewTask, Task
  <2>3. new \in [1..k -> Task]
    BY <2>2
  <2> HIDE DEF new
  <2> QED  BY <2>3
<1>3. \A i \in 1..k : new[i].group = produced + i /\ new[i].sources = {} /\ new[i].state = "pending"
  BY DEF NewTask
<1> HIDE DEF new
<1>4. /\ tasks' \in Seq(Task) /\ Len(tasks') = Len(tasks) + k
      /\ \A t \in 1..Len(tasks) : tasks'[t] = tasks[t]
      /\ \A t \in 1..(Len(tasks) + k) : t \notin 1..Len(tasks) => tasks'[t] = new[t - Len(tasks)]
  BY <1>1, <1>2 DEF new
<1>5. DOMAIN tasks = 1..Len(tasks) /\ DOMAIN tasks' = 1..(Len(tasks) + k)
  BY <1>1, <1>4
<1>6. ASSUME NEW t \in DOMAIN tasks', t \notin DOMAIN tasks
      PROVE  /\ tasks'[t].group = produced + (t - Len(tasks)) /\ tasks'[t].sources = {} /\ tasks'[t].state = "pending"
             /\ t \in Nat /\ t - Len(tasks) \in 1..k /\ tasks'[t].group \in Nat /\ ~(tasks'[t].group <= produced)
             /\ tasks'[t].group <= produced'
  <2>1. t - Len(tasks) \in 1..k /\ t \in Nat
    BY <1>1, <1>5, <1>6
  <2>2. tasks'[t] = new[t - Len(tasks)]
    BY <1>4, <1>5, <1>6
  <2>3. tasks'[t].group = produced + (t - Len(tasks)) /\ tasks'[t].sources = {} /\ tasks'[t].state = "pending"
    BY <1>3, <2>1, <2>2
  <2> QED  BY <1>1, <2>1, <2>3
<1>7. DOMAIN tasks \subseteq DOMAIN tasks' /\ \A t \in DOMAIN tasks : tasks'[t] = tasks[t] /\ tasks[t].group <= produced /\ tasks[t].group \in Nat
  <2>1. DOMAIN tasks \subseteq DOMAIN tasks'
    BY <1>1, <1>5
  <2>2. \A t \in DOMAIN tasks : tasks'[t] = tasks[t]
    BY <1>4, <1>5
  <2>3. \A t \in DOMAIN tasks : tasks[t].group <= produced
    BY DEF Versions
  <2>4. \A t \in DOMAIN tasks : tasks[t].group \in Group
    BY Types DEF Task
  <2> QED  BY <2>1, <2>2, <2>3, <2>4 DEF Group
<1> QED  BY <1>4, <1>5, <1>6, <1>7

(* A refill adds the first version of groups that had none.                   *)
LEMMA Refilled ==
    ASSUME TypeOK, Versions, Collections, UNCHANGED <<planned, log, active>>, NEW k \in Nat, produced + k <= MaxGroups,
           produced' = produced + k,
           tasks' = tasks \o [i \in 1..k |-> NewTask(produced + i, {}, 0)]
    PROVE  /\ Versions' /\ Collections' /\ Grown /\ Results' = Results
           /\ tasks' \in Seq(Task) /\ DOMAIN tasks \subseteq DOMAIN tasks'
           /\ SamePositions("collection") /\ SamePositions("batch")
           /\ \A p \in Results : Free(p)' <=> Free(p)
           /\ \A g : Dropped(g)' <=> Dropped(g)
<1>1. produced \in Nat /\ tasks \in Seq(Task) /\ Len(tasks) \in Nat
  BY Types DEF TypeOK
<1>4. /\ tasks' \in Seq(Task) /\ Len(tasks') = Len(tasks) + k
  BY Added
<1>5. DOMAIN tasks = 1..Len(tasks) /\ DOMAIN tasks' = 1..(Len(tasks) + k)
  BY Added
<1>6. ASSUME NEW t \in DOMAIN tasks', t \notin DOMAIN tasks
      PROVE  /\ tasks'[t].group = produced + (t - Len(tasks)) /\ tasks'[t].sources = {} /\ tasks'[t].state = "pending"
             /\ t \in Nat /\ t - Len(tasks) \in 1..k /\ tasks'[t].group \in Nat /\ ~(tasks'[t].group <= produced)
             /\ tasks'[t].group <= produced'
  BY <1>6, Added
<1>7. DOMAIN tasks \subseteq DOMAIN tasks' /\ \A t \in DOMAIN tasks : tasks'[t] = tasks[t] /\ tasks[t].group <= produced /\ tasks[t].group \in Nat
  BY Added
<1>8. ASSUME NEW t \in DOMAIN tasks', NEW u \in DOMAIN tasks', tasks'[u].group = tasks'[t].group
      PROVE  t = u \/ (t \in DOMAIN tasks /\ u \in DOMAIN tasks)
  <2>1. CASE t \in DOMAIN tasks /\ u \notin DOMAIN tasks
    <3>1. ~(tasks'[u].group <= produced) /\ tasks'[t].group <= produced
      BY <1>6, <1>7, <2>1
    <3> QED  BY <1>8, <3>1
  <2>2. CASE t \notin DOMAIN tasks /\ u \in DOMAIN tasks
    <3>1. ~(tasks'[t].group <= produced) /\ tasks'[u].group <= produced
      BY <1>6, <1>7, <2>2
    <3> QED  BY <1>8, <3>1
  <2>3. CASE t \notin DOMAIN tasks /\ u \notin DOMAIN tasks
    <3>1. /\ tasks'[t].group = produced + (t - Len(tasks)) /\ t \in Nat
          /\ tasks'[u].group = produced + (u - Len(tasks)) /\ u \in Nat
      BY <1>6, <2>3
    <3> QED  BY <1>1, <1>8, <3>1
  <2> QED  BY <2>1, <2>2, <2>3
<1>9. \A t \in DOMAIN tasks : Newest(t)' <=> Newest(t)
  BY <1>7, <1>8 DEF Newest
<1>10. \A t \in DOMAIN tasks' : t \notin DOMAIN tasks => Newest(t)'
  <2> SUFFICES ASSUME NEW t \in DOMAIN tasks', t \notin DOMAIN tasks,
                      NEW u \in DOMAIN tasks', tasks'[u].group = tasks'[t].group
               PROVE  u <= t
    BY DEF Newest
  <2>1. u = t
    BY <1>8
  <2>2. t \in Nat
    BY <1>6
  <2> QED  BY <2>1, <2>2
<1>11. Results' = Results
  BY DEF Results
<1>12. \A p \in Results : log[p].task \in DOMAIN tasks /\ p \in DOMAIN log /\ GroupAt(p) <= produced /\ GroupAt(p) \in Nat
  BY ResultIs DEF Group
<1>13. \A p \in Results : GroupAt(p)' = GroupAt(p)
  BY <1>7, <1>12 DEF GroupAt
<1>14. Versions'
  <2>1. ASSUME NEW t \in DOMAIN tasks'
        PROVE  /\ tasks'[t].group <= produced'
               /\ ~Newest(t)' => tasks'[t].state = "completed"
               /\ tasks'[t].state = "completed" => \E p \in Results : log'[p].task = t
    <3>1. CASE t \in DOMAIN tasks
      <4>1. tasks'[t] = tasks[t] /\ tasks[t].group <= produced /\ tasks[t].group \in Nat
        BY <1>7, <3>1
      <4>2. tasks[t].group <= produced'
        BY <1>1, <4>1
      <4>3. (~Newest(t) => tasks[t].state = "completed") /\ (tasks[t].state = "completed" => \E p \in Results : log[p].task = t)
        BY <3>1 DEF Versions
      <4> QED  BY <1>9, <3>1, <4>1, <4>2, <4>3
    <3>2. CASE t \notin DOMAIN tasks
      BY <1>6, <1>10, <3>2
    <3> QED  BY <3>1, <3>2
  <2>2. ASSUME NEW t \in DOMAIN tasks'
        PROVE  tasks'[t].sources = {p \in Results : GroupAt(p)' = tasks'[t].group /\ log'[p].task < t}
    <3>1. CASE t \in DOMAIN tasks
      <4>1. tasks[t].sources = {p \in Results : GroupAt(p) = tasks[t].group /\ log[p].task < t}
        BY <3>1 DEF Versions
      <4>2. {p \in Results : GroupAt(p)' = tasks'[t].group /\ log'[p].task < t}
               = {p \in Results : GroupAt(p) = tasks[t].group /\ log[p].task < t}
        BY <1>7, <1>13, <3>1
      <4> QED  BY <1>7, <3>1, <4>1, <4>2
    <3>2. CASE t \notin DOMAIN tasks
      <4>1. \A p \in Results : GroupAt(p)' # tasks'[t].group
        <5>1. ~(tasks'[t].group <= produced)
          BY <1>6, <3>2
        <5> QED  BY <1>12, <1>13, <5>1
      <4> QED  BY <1>6, <3>2, <4>1
    <3> QED  BY <3>1, <3>2
  <2>3. \A p \in Results : /\ log'[p].task \in DOMAIN tasks' /\ tasks'[log'[p].task].state = "completed"
                           /\ log'[p].worker \in active'
    BY <1>7, ResultIs
  <2>4. \A p, q \in Results : log'[p].task = log'[q].task => p = q
    BY DEF Versions
  <2> QED  BY <1>11, <2>1, <2>2, <2>3, <2>4 DEF Versions
<1>15. \A p \in DOMAIN log : SourcesOf(p)' = SourcesOf(p)
  <2> SUFFICES ASSUME NEW p \in DOMAIN log PROVE SourcesOf(p)' = SourcesOf(p)
    OBVIOUS
  <2>1. CASE log[p].kind = "group"
    <3>1. log[p].task \in DOMAIN tasks
      BY <1>12, <2>1 DEF Results
    <3> QED  BY <1>7, <2>1, <3>1 DEF SourcesOf
  <2>2. CASE log[p].kind = "collection"
    BY <2>2 DEF SourcesOf
  <2>3. CASE log[p].kind = "batch"
    BY <2>3 DEF SourcesOf
  <2>4. log[p].kind \in {"group", "collection", "batch"}
    BY Types DEF Entry
  <2> QED  BY <2>1, <2>2, <2>3, <2>4
<1>16. \A g : Dropped(g)' <=> Dropped(g)
  BY <1>6, <1>7 DEF Dropped, InState, TasksOf
<1>17. Grown
  BY <1>11, <1>13, <1>15, <1>16 DEF Grown
<1>18. SamePositions("collection") /\ SamePositions("batch")
  BY DEF SamePositions, Positions
<1>19. \A p \in Results : Final(p)' <=> Final(p)
  BY <1>9, <1>11, <1>12 DEF Final
<1>20. \A p \in Results : Free(p)' <=> Free(p)
  BY <1>17, <1>18, <1>19, FreeKeeps DEF Free
<1>21. Collections'
  <2>1. /\ \A n \in Rollout : InputsOf(n)' = InputsOf(n)
        /\ \A n \in Rollout : Plan(n)' = Plan(n)
    BY <1>17, <1>18, CollectionsKeep
  <2>2. \A n \in Rollout : Converted(n)' <=> Converted(n)
    BY <1>18 DEF Converted, SamePositions
  <2>3. \A n \in Rollout : \A p \in InputsOf(n) : Final(p)'
    BY <1>19, InputsAre
  <2> QED  BY <1>18, <2>1, <2>2, <2>3 DEF Collections, SamePositions
<1> QED  BY <1>4, <1>7, <1>11, <1>14, <1>16, <1>17, <1>18, <1>20, <1>21

(* A delivery is a new version of a free group, which is under way again.     *)
LEMMA Delivered ==
    ASSUME TypeOK, Versions, Collections, UNCHANGED <<produced, planned, log, active>>, NEW p \in Nat, Free(p),
           tasks' = Append(tasks, NewTask(tasks[log[p].task].group, SourcesOf(p) \cup {p}, 2))
    PROVE  /\ Versions' /\ Collections' /\ Grown /\ Results' = Results
           /\ tasks' \in Seq(Task) /\ DOMAIN tasks \subseteq DOMAIN tasks'
           /\ SamePositions("collection") /\ SamePositions("batch")
           /\ \A q \in Results : Free(q)' <=> Free(q) /\ q # p
           /\ \A g : Dropped(g)' <=> Dropped(g)
<1> DEFINE g == GroupAt(p)
           last == Len(tasks) + 1
           k == NewTask(g, SourcesOf(p) \cup {p}, 2)
<1>1. p \in Results /\ Final(p) /\ ~Collected(g)
  BY DEF Free, Final
<1>2. p \in DOMAIN log /\ log[p].task \in DOMAIN tasks /\ tasks[log[p].task].state = "completed" /\ g \in Group /\ g <= produced
  BY <1>1, ResultIs
<1>3. k.group = g /\ k.sources = SourcesOf(p) \cup {p} /\ k.state = "pending" /\ k \in Task
  <2>1. SourcesOf(p) \cup {p} \subseteq Nat
    BY <1>1, AllSources, <1>2, Types
  <2> QED  BY <1>2, <2>1 DEF NewTask, Task
<1>4. tasks' = Append(tasks, k)
  BY DEF GroupAt
<1> HIDE DEF k
<1>5. tasks \in Seq(Task) /\ Len(tasks) \in Nat
  BY Types DEF TypeOK
<1>6. /\ tasks' \in Seq(Task) /\ DOMAIN tasks' = DOMAIN tasks \cup {last} /\ last \notin DOMAIN tasks
      /\ \A t \in DOMAIN tasks : tasks'[t] = tasks[t] /\ t < last /\ t \in Nat
      /\ tasks'[last] = k /\ last \in Nat
  BY <1>3, <1>4, <1>5
<1> HIDE DEF last
<1>7. Results' = Results
  BY DEF Results
<1>8. \A q \in Results : log[q].task \in DOMAIN tasks /\ q \in DOMAIN log
  BY ResultIs
<1>9. \A q \in Results : GroupAt(q)' = GroupAt(q)
  BY <1>6, <1>8 DEF GroupAt
<1>10. \A t \in DOMAIN tasks : Newest(t)' <=> Newest(t) /\ tasks[t].group # g
  <2>1. ASSUME NEW t \in DOMAIN tasks, tasks[t].group = g PROVE ~Newest(t)'
    <3>1. ~(last <= t)
      BY <1>6
    <3> QED  BY <1>3, <1>6, <2>1, <3>1 DEF Newest
  <2>2. ASSUME NEW t \in DOMAIN tasks, tasks[t].group # g PROVE Newest(t)' <=> Newest(t)
    BY <1>3, <1>6, <2>2 DEF Newest
  <2> QED  BY <2>1, <2>2
<1>11. \A t : t = last => Newest(t)'
  BY <1>6 DEF Newest
<1>12. \A t \in DOMAIN tasks : tasks[t].group = g => t <= log[p].task /\ tasks[t].state = "completed"
  <2>1. Newest(log[p].task) /\ tasks[log[p].task].group = g
    BY <1>1 DEF Final, GroupAt
  <2>2. ASSUME NEW t \in DOMAIN tasks, tasks[t].group = g PROVE t <= log[p].task
    BY <2>1, <2>2 DEF Newest
  <2>3. ASSUME NEW t \in DOMAIN tasks, tasks[t].group = g PROVE tasks[t].state = "completed"
    <3>1. CASE t = log[p].task
      BY <1>2, <3>1
    <3>2. CASE t # log[p].task
      <4>1. ~(log[p].task <= t)
        BY <1>2, <1>6, <2>2, <2>3, <3>2
      <4>2. ~Newest(t)
        BY <1>2, <2>1, <2>3, <4>1 DEF Newest
      <4> QED  BY <4>2 DEF Versions
    <3> QED  BY <3>1, <3>2
  <2> QED  BY <2>2, <2>3
<1>13. SourcesOf(p) \cup {p} = {q \in Results : GroupAt(q) = g}
  <2>1. SourcesOf(p) = {q \in Results : GroupAt(q) = g /\ log[q].task < log[p].task}
    BY <1>1, SourcesIs
  <2>2. ASSUME NEW q \in Results, GroupAt(q) = g PROVE q = p \/ log[q].task < log[p].task
    <3>1. log[q].task <= log[p].task
      BY <1>8, <1>12, <2>2 DEF GroupAt
    <3>2. log[q].task = log[p].task => q = p
      BY <1>1 DEF Versions
    <3>3. log[q].task \in Nat /\ log[p].task \in Nat
      BY <1>2, <1>6, <1>8
    <3> QED  BY <3>1, <3>2, <3>3
  <2> QED  BY <1>1, <2>1, <2>2
<1>14. Versions'
  <2>1. ASSUME NEW t \in DOMAIN tasks'
        PROVE  /\ tasks'[t].group <= produced'
               /\ ~Newest(t)' => tasks'[t].state = "completed"
               /\ tasks'[t].state = "completed" => \E q \in Results : log'[q].task = t
    <3>1. CASE t \in DOMAIN tasks
      BY <1>6, <1>10, <1>12, <3>1 DEF Versions
    <3>2. CASE t = last
      BY <1>2, <1>3, <1>6, <1>11, <3>2
    <3> QED  BY <1>6, <3>1, <3>2
  <2>2. ASSUME NEW t \in DOMAIN tasks'
        PROVE  tasks'[t].sources = {q \in Results : GroupAt(q)' = tasks'[t].group /\ log'[q].task < t}
    <3>1. CASE t \in DOMAIN tasks
      <4>1. tasks[t].sources = {q \in Results : GroupAt(q) = tasks[t].group /\ log[q].task < t}
        BY <3>1 DEF Versions
      <4>2. {q \in Results : GroupAt(q)' = tasks'[t].group /\ log'[q].task < t}
               = {q \in Results : GroupAt(q) = tasks[t].group /\ log[q].task < t}
        BY <1>6, <1>9, <3>1
      <4> QED  BY <1>6, <3>1, <4>1, <4>2
    <3>2. CASE t = last
      <4>1. \A q \in Results : log'[q].task < t
        BY <1>6, <1>8, <3>2
      <4> QED  BY <1>3, <1>6, <1>9, <1>13, <3>2, <4>1
    <3> QED  BY <1>6, <3>1, <3>2
  <2>3. \A q \in Results : /\ log'[q].task \in DOMAIN tasks' /\ tasks'[log'[q].task].state = "completed"
                           /\ log'[q].worker \in active'
    BY <1>6, ResultIs
  <2>4. \A q, x \in Results : log'[q].task = log'[x].task => q = x
    BY DEF Versions
  <2> QED  BY <1>7, <2>1, <2>2, <2>3, <2>4 DEF Versions
<1>15. \A q \in DOMAIN log : SourcesOf(q)' = SourcesOf(q)
  <2> SUFFICES ASSUME NEW q \in DOMAIN log PROVE SourcesOf(q)' = SourcesOf(q)
    OBVIOUS
  <2>1. CASE log[q].kind = "group"
    <3>1. log[q].task \in DOMAIN tasks
      BY <1>8, <2>1 DEF Results
    <3> QED  BY <1>6, <2>1, <3>1 DEF SourcesOf
  <2>2. CASE log[q].kind = "collection"
    BY <2>2 DEF SourcesOf
  <2>3. CASE log[q].kind = "batch"
    BY <2>3 DEF SourcesOf
  <2>4. log[q].kind \in {"group", "collection", "batch"}
    BY Types DEF Entry
  <2> QED  BY <2>1, <2>2, <2>3, <2>4
<1>16. \A h : Dropped(h)' <=> Dropped(h)
  BY <1>3, <1>6 DEF Dropped, InState, TasksOf
<1>17. Grown
  BY <1>7, <1>9, <1>15, <1>16 DEF Grown
<1>18. SamePositions("collection") /\ SamePositions("batch")
  BY DEF SamePositions, Positions
<1>19. \A q \in Results : Final(q)' <=> Final(q) /\ GroupAt(q) # g
  BY <1>7, <1>8, <1>10 DEF Final, GroupAt
<1>20. ASSUME NEW q \in Results PROVE Free(q)' <=> Free(q) /\ q # p
  <2>1. Final(q) => (GroupAt(q) = g <=> q = p)
    BY <1>1, OneFinal
  <2> QED  BY <1>17, <1>18, <1>19, <2>1, FreeKeeps DEF Free
<1>21. Collections'
  <2>1. /\ \A n \in Rollout : InputsOf(n)' = InputsOf(n)
        /\ \A n \in Rollout : Plan(n)' = Plan(n)
    BY <1>17, <1>18, CollectionsKeep
  <2>2. \A n \in Rollout : Converted(n)' <=> Converted(n)
    BY <1>18 DEF Converted, SamePositions
  <2>3. \A n \in Rollout : \A q \in InputsOf(n) : Final(q)'
    <3>1. \A n \in Rollout : \A q \in InputsOf(n) : GroupAt(q) # g /\ Final(q) /\ q \in Results
      BY <1>1, InputsAre DEF Collected, GroupsOf
    <3> QED  BY <1>19, <3>1
  <2> QED  BY <1>18, <2>1, <2>2, <2>3 DEF Collections, SamePositions
<1> QED  BY <1>6, <1>7, <1>14, <1>16, <1>17, <1>18, <1>20, <1>21

(* A step that leaves the log and the tasks alone.                            *)
LEMMA Unmoved ==
    ASSUME TypeOK, Versions, Collections, UNCHANGED <<produced, tasks, planned, log>>, active \subseteq active'
    PROVE  /\ Versions' /\ Collections' /\ Grown /\ Results' = Results
           /\ SamePositions("collection") /\ SamePositions("batch")
           /\ \A p \in Results : Free(p)' <=> Free(p)
           /\ \A g : Dropped(g)' <=> Dropped(g)
<1>1. Leases
  BY DEF Leases, TypeOK
<1>2. \A g : Dropped(g)' <=> Dropped(g)
  BY DEF Dropped, InState, TasksOf
<1> QED  BY <1>1, <1>2, LeasesKeep

(* A rollout that has collected gets its plan.                                *)
LEMMA PlanMade ==
    ASSUME TypeOK, Versions, Collections, UNCHANGED <<produced, tasks, log, active>>,
           planned' = [planned EXCEPT ![rollout] = IF @ = {} THEN Plan(rollout) ELSE @]
    PROVE  /\ Versions' /\ Collections' /\ Grown /\ Results' = Results
           /\ SamePositions("collection") /\ SamePositions("batch")
           /\ \A p \in Results : Free(p)' <=> Free(p)
           /\ \A g : Dropped(g)' <=> Dropped(g)
           /\ planned' \in [Rollout -> SUBSET Nat]
           /\ \A n \in Rollout : n # rollout \/ planned[n] # {} => planned'[n] = planned[n]
           /\ planned'[rollout] = Plan(rollout)
<1>1. rollout \in Rollout /\ planned \in [Rollout -> SUBSET Nat]
  BY DEF TypeOK
<1>2. Plan(rollout) \subseteq Nat
  BY <1>1, PlanClosed, Types
<1>3. planned[rollout] # {} => planned[rollout] = Plan(rollout)
  BY <1>1 DEF Collections
<1>4. /\ planned' \in [Rollout -> SUBSET Nat]
      /\ \A n \in Rollout : n # rollout \/ planned[n] # {} => planned'[n] = planned[n]
      /\ planned'[rollout] = Plan(rollout)
  BY <1>1, <1>2, <1>3
<1>5. Results' = Results
  BY DEF Results
<1>6. \A p \in Results : GroupAt(p)' = GroupAt(p)
  BY DEF GroupAt
<1>7. Versions'
  BY DEF Versions, Newest, Results, GroupAt
<1>8. SamePositions("collection") /\ SamePositions("batch")
  BY DEF SamePositions, Positions
<1>9. ASSUME NEW p \in DOMAIN log PROVE SourcesOf(p)' = SourcesOf(p)
  <2>1. CASE log[p].kind = "group"
    BY <2>1 DEF SourcesOf
  <2>2. CASE log[p].kind = "collection"
    BY <2>2 DEF SourcesOf
  <2>3. CASE log[p].kind = "batch"
    <3>1. log[p].rollout \in Rollout
      BY <2>3 DEF Collections
    <3>2. Converted(log[p].rollout)
      BY <2>3 DEF Converted, Positions
    <3>3. planned'[log[p].rollout] = planned[log[p].rollout]
      BY <1>4, <3>1, <3>2 DEF Collections
    <3> QED  BY <2>3, <3>3 DEF SourcesOf
  <2>4. log[p].kind \in {"group", "collection", "batch"}
    BY Types DEF Entry
  <2> QED  BY <2>1, <2>2, <2>3, <2>4
<1>10. \A g : Dropped(g)' <=> Dropped(g)
  BY DEF Dropped, InState, TasksOf
<1>11. Grown
  BY <1>5, <1>6, <1>9, <1>10 DEF Grown
<1>12. \A p \in Results : Final(p)' <=> Final(p)
  BY <1>5 DEF Final, Newest
<1>13. \A p \in Results : Free(p)' <=> Free(p)
  BY <1>8, <1>11, <1>12, FreeKeeps DEF Free
<1>14. Collections'
  <2>1. /\ \A n \in Rollout : InputsOf(n)' = InputsOf(n)
        /\ \A n \in Rollout : Plan(n)' = Plan(n)
    BY <1>8, <1>11, CollectionsKeep
  <2>2. \A n \in Rollout : Converted(n)' <=> Converted(n)
    BY <1>8 DEF Converted, SamePositions
  <2>3. \A n \in Rollout : \A p \in InputsOf(n) : Final(p)'
    BY <1>12, InputsAre
  <2>4. \A n \in Rollout : /\ planned'[n] # {} => planned'[n] = Plan(n)
                           /\ Converted(n) => planned'[n] # {}
    BY <1>4 DEF Collections
  <2> QED  BY <1>8, <2>1, <2>2, <2>3, <2>4 DEF Collections, SamePositions
<1> QED  BY <1>4, <1>5, <1>7, <1>8, <1>10, <1>11, <1>13, <1>14

(* The collections and conversions stay as they are.                          *)
Steady ==
    /\ Grown
    /\ \A n \in Rollout : /\ Positions("collection", n)' = Positions("collection", n)
                          /\ Positions("batch", n)' = Positions("batch", n)
                          /\ InputsOf(n)' = InputsOf(n) /\ GroupsOf(n)' = GroupsOf(n)
                          /\ Converted(n)' <=> Converted(n)
    /\ \A p \in Results : Free(p)' => Free(p)
    /\ \A g : Collected(g)' <=> Collected(g)

(* A step that adds no position of a collection or a batch is steady.        *)
LEMMA SteadyStep ==
    ASSUME TypeOK, Versions, Collections, Grown, SamePositions("collection"), SamePositions("batch"),
           \A p \in Results : Free(p)' => Free(p)
    PROVE  Steady
<1>1. \A n \in Rollout : InputsOf(n)' = InputsOf(n) /\ GroupsOf(n)' = GroupsOf(n)
  BY CollectionsKeep
<1>2. \A g : Collected(g)' <=> Collected(g)
  BY CollectionsKeep
<1>3. \A n \in Rollout : Converted(n)' <=> Converted(n)
  BY DEF Converted, SamePositions
<1> QED  BY <1>1, <1>2, <1>3 DEF Steady, SamePositions

(* A rollout that was settled stays settled.                                  *)
LEMMA SettledKeeps ==
    ASSUME TypeOK, Versions, Collections, NEW n \in Rollout, Settled(n), Grown,
           Positions("batch", n)' = Positions("batch", n), Positions("collection", n) \subseteq Positions("collection", n)',
           planned'[n] = planned[n],
           \A p \in DOMAIN log : Processed(p) => Processed(p)'
    PROVE  Settled(n)'
<1>1. \A p \in planned[n] \cup Positions("batch", n) : p \in DOMAIN log /\ Processed(p)
  BY PlannedIs DEF Settled, Positions
<1> QED  BY <1>1 DEF Settled, Converted

(* The window and the stage of the batch, when the manager does not move.     *)
LEMMA WindowKeeps ==
    ASSUME Window, Stages, Trained, Steady, UNCHANGED <<planned, managerAt, rollout, window, boundary>>,
           \A p \in DOMAIN log : Processed(p) => Processed(p)', TypeOK, Versions, Collections
    PROVE  Window' /\ Stages' /\ Trained'
<1>1. \A n : Below(n)' <=> Below(n)
  BY DEF Below
<1>2. Window'
  BY <1>1 DEF Window, Steady
<1>3. rollout \in Rollout /\ (Serving' <=> Serving)
  BY DEF TypeOK, Serving
<1>4. Stages'
  BY <1>1, <1>3 DEF Stages, Steady
<1>5. ASSUME NEW n \in Rollout, Settled(n) PROVE Settled(n)'
  BY <1>5, SettledKeeps DEF Settled, Steady
<1>6. Trained'
  BY <1>3, <1>5 DEF Trained
<1> QED  BY <1>2, <1>4, <1>6

(* A result that is acknowledged has been rejected or converted.              *)
Spent(p) ==
    \/ log[p].kind = "group" /\ Dropped(GroupAt(p))
    \/ log[p].kind = "group" /\ \E n \in Rollout : GroupAt(p) \in GroupsOf(n) /\ Converted(n)
    \/ log[p].kind # "group" /\ Converted(log[p].rollout)

(* What RetentionSound says of one position.                                 *)
LEMMA SpentIs == RetentionSound <=> \A p \in DOMAIN log : Processed(p) => Spent(p)
BY DEF RetentionSound, Spent

(* What was spent stays so.                                                   *)
LEMMA SpentKeeps ==
    ASSUME TypeOK, Versions, Collections, Grown, NEW p \in DOMAIN log, Spent(p),
           \A n \in Rollout : GroupsOf(n) \subseteq GroupsOf(n)' /\ (Converted(n) => Converted(n)')
    PROVE  Spent(p)'
<1>1. log'[p] = log[p] /\ (log[p].kind # "group" => log[p].rollout \in Rollout)
  BY DEF Grown, Collections
<1>2. CASE log[p].kind = "group"
  <2>1. p \in Results
    BY <1>2 DEF Results
  <2>2. GroupAt(p)' = GroupAt(p) /\ GroupAt(p) \in Group
    BY <2>1, ResultIs DEF Grown
  <2>3. Dropped(GroupAt(p)) => Dropped(GroupAt(p))'
    BY <2>2 DEF Grown
  <2> QED  BY <1>1, <1>2, <2>2, <2>3 DEF Spent
<1>3. CASE log[p].kind # "group"
  BY <1>1, <1>3 DEF Spent
<1> QED  BY <1>2, <1>3

(* A step that acknowledges nothing.                                          *)
LEMMA AcknowledgedKeeps ==
    ASSUME TypeOK, Versions, Collections, Acknowledged, RetentionSound, Grown,
           \A n \in Rollout : GroupsOf(n) \subseteq GroupsOf(n)' /\ (Converted(n) => Converted(n)'),
           UNCHANGED <<cursor, processed>>, log' \in Seq(Entry),
           \A p \in Results' : Dropped(GroupAt(p))' => p \in Results /\ Dropped(GroupAt(p))
    PROVE  /\ Acknowledged' /\ RetentionSound'
           /\ \A p : Processed(p)' <=> Processed(p)
<1>1. \A p : Processed(p)' <=> Processed(p)
  BY DEF Processed
<1>2. ASSUME NEW p \in DOMAIN log', Processed(p) PROVE p \in DOMAIN log
  <2>1. cursor \in 0..Len(log) /\ processed \subseteq 1..Len(log) /\ DOMAIN log = 1..Len(log) /\ Len(log) \in Nat
    BY Types DEF TypeOK
  <2>2. CASE p \in processed
    BY <2>1, <2>2
  <2>3. CASE p <= cursor
    <3>1. p \in Nat \ {0}
      BY <1>2
    <3> QED  BY <2>1, <2>3, <3>1
  <2> QED  BY <1>2, <2>2, <2>3 DEF Processed
<1>3. ASSUME NEW p \in DOMAIN log', Processed(p), NEW q \in SourcesOf(p)' PROVE Processed(q)
  BY <1>2, <1>3 DEF Grown, Acknowledged
<1>4. \A p \in Results' : Dropped(GroupAt(p))' => Processed(p)
  BY DEF Acknowledged
<1>5. Acknowledged'
  BY <1>1, <1>3, <1>4 DEF Acknowledged
<1>6. \A p \in DOMAIN log' : Processed(p) => Spent(p)'
  BY <1>2, SpentIs, SpentKeeps
<1>7. RetentionSound'
  BY <1>1, <1>6 DEF RetentionSound, Spent
<1> QED  BY <1>1, <1>5, <1>7

(* A step that acknowledges P, which is spent with all it replaced.           *)
LEMMA AcknowledgedGrows ==
    ASSUME TypeOK, Versions, Collections, Acknowledged, RetentionSound, Grown, log' = log, Results' = Results,
           \A n \in Rollout : GroupsOf(n) \subseteq GroupsOf(n)' /\ (Converted(n) => Converted(n)'),
           NEW P \in SUBSET DOMAIN log, Advance(P),
           \A p \in P : Spent(p)' /\ \A q \in SourcesOf(p) : Spent(q)',
           \A p \in Results : Dropped(GroupAt(p))' => Dropped(GroupAt(p)) \/ p \in P
    PROVE  /\ Acknowledged' /\ RetentionSound'
           /\ cursor' \in 0..Len(log) /\ processed' \subseteq 1..Len(log)
           /\ \A p \in DOMAIN log : Processed(p) => Processed(p)'
           /\ \A p \in P : Processed(p)' /\ \A q \in SourcesOf(p) : Processed(q)'
<1>1. /\ cursor' \in 0..Len(log) /\ processed' \subseteq 1..Len(log)
      /\ \A p \in DOMAIN log : Processed(p)' <=> Processed(p) \/ p \in P \/ \E q \in P : p \in SourcesOf(q)
  BY Advancing
<1>2. \A p \in DOMAIN log : SourcesOf(p)' = SourcesOf(p) /\ SourcesOf(p) \subseteq DOMAIN log
  BY AllSources DEF Grown
<1>3. ASSUME NEW p \in DOMAIN log, Processed(p)', NEW q \in SourcesOf(p) PROVE Processed(q)'
  <2>1. q \in DOMAIN log
    BY <1>2
  <2>2. CASE Processed(p)
    BY <1>1, <2>1, <2>2 DEF Acknowledged
  <2>3. CASE p \in P
    BY <1>1, <2>1, <2>3
  <2>4. ASSUME NEW x \in P, p \in SourcesOf(x) PROVE Processed(q)'
    <3>1. q \in SourcesOf(x)
      BY <2>4, AllSources
    <3> QED  BY <1>1, <2>1, <3>1
  <2> QED  BY <1>1, <1>3, <2>2, <2>3, <2>4
<1>4. \A p \in Results : p \in DOMAIN log /\ (Dropped(GroupAt(p))' => Processed(p)')
  BY <1>1, ResultIs DEF Acknowledged
<1>5. Acknowledged'
  BY <1>2, <1>3, <1>4 DEF Acknowledged
<1>6. ASSUME NEW p \in DOMAIN log, Processed(p)' PROVE Spent(p)'
  <2>1. CASE Processed(p)
    BY <2>1, SpentIs, SpentKeeps
  <2> QED  BY <1>1, <1>6, <2>1
<1>7. RetentionSound'
  BY <1>6 DEF RetentionSound, Spent
<1>8. \A p \in P : p \in DOMAIN log /\ \A q \in SourcesOf(p) : q \in DOMAIN log
  BY <1>2
<1> QED  BY <1>1, <1>5, <1>7, <1>8

-----------------------------------------------------------------------------
(* Steps of one reader *)

(* What a step of a reader leaves to the manager.                             *)
LEMMA ManagerIdle ==
    ASSUME IInv, UNCHANGED <<generation, managerAt, rollout, ready, collecting, toFence, recovered, source, window, boundary>>,
           UNCHANGED <<planned, retired>>, Steady, \A p \in Results : Free(p)' <=> Free(p),
           active' = active \/ (active \subseteq active' /\ managerAt \notin Restoring),
           \A p \in DOMAIN log : Processed(p) => Processed(p)'
    PROVE  Hands' /\ Restoration' /\ Window' /\ Stages' /\ Trained'
<1> USE DEF IInv
<1>1. Serving' <=> Serving
  BY DEF Serving
<1>2. \A p \in Results : p \in Results' /\ log'[p] = log[p] /\ GroupAt(p)' = GroupAt(p) /\ p \in DOMAIN log
  BY ResultIs DEF Steady, Grown
<1>3. \A p \in ready \cup recovered : p \in Results
  BY DEF Hands, Restoration, Free, Final
<1>4. \A n \in Rollout : \A p \in InputsOf(n) : p \in Results
  BY InputsAre
<1>5. Hands'
  <2>1. \A p \in ready : Free(p)' /\ Own(p)'
    BY <1>2, <1>3 DEF Hands, Own
  <2>2. \A p \in collecting : p \in Results' /\ (MaxFailures = 0 => Collected(GroupAt(p))')
    BY <1>2 DEF Hands, Steady
  <2>3. \A n \in Rollout : planned[n] = {} => \A p \in InputsOf(n) : Serving /\ Own(p)' => p \in collecting
    BY <1>2, <1>4 DEF Hands, Own
  <2> QED  BY <1>1, <2>1, <2>2, <2>3 DEF Hands, Steady
<1>6. Restoration'
  BY <1>2, <1>3 DEF Restoration, Restoring
<1>7. Window' /\ Stages' /\ Trained'
  BY WindowKeeps
<1> QED  BY <1>5, <1>6, <1>7

(* A reader r moves.                                                          *)
LEMMA OneReader ==
    ASSUME IInv, NEW r \in Reader, NEW k \in Place, reader' = [reader EXCEPT ![r] = k], reader[r].at # "none",
           UNCHANGED <<generation, managerAt, toFence, recovered, source, retired>>, DOMAIN tasks \subseteq DOMAIN tasks', Grown,
           ready' = ready \/ ready' = ready \cup {reader[r].position},
           \A p \in Results : Free(p)' <=> Free(p),
           active' = active \/ (active' = active \cup {r} /\ r[1] = source),
           k.at \in {"asking", "holding", "published"} => r \in active',
           k.at = "holding" => k.task \in DOMAIN tasks',
           r \in retired /\ Serving /\ r[1] = generation => k.at = "dead",
           k.at = "published" /\ Serving /\ r[1] = generation =>
               /\ k.position \notin ready' /\ log'[k.position].worker = r
               /\ \A p : p = k.position => Free(p)',
           ready' # ready => reader[r].at = "published" /\ r[1] = generation /\ Serving
    PROVE  /\ reader' \in [Reader -> Place] /\ Managers' /\ AtWork' /\ Answers'
           /\ reader[r].at \notin {"published", "dead"} => \A p \in Results : Kept(p) => Kept(p)'
<1> USE DEF IInv
<1>1. Serving' <=> Serving
  BY DEF Serving
<1>2. reader' \in [Reader -> Place] /\ reader'[r] = k /\ \A q \in Reader : q # r => reader'[q] = reader[q]
  BY DEF TypeOK
<1>3. \A p \in Results : log'[p] = log[p] /\ log[p].worker \in active /\ active \subseteq Reader
  BY ResultIs DEF Grown, TypeOK
<1>4. r[1] \in Nat /\ source \in Nat /\ r[1] <= source /\ source <= generation /\ generation \in Nat
  BY DEF Managers, TypeOK, Reader
<1>5. Managers'
  BY <1>1, <1>2, <1>4 DEF Managers
<1>6. AtWork'
  <2>1. \A q \in Reader : reader'[q].at \in {"asking", "holding", "published"} => q \in active'
    BY <1>2 DEF AtWork
  <2>2. \A q \in Reader : reader'[q].at = "holding" => reader'[q].task \in DOMAIN tasks'
    BY <1>2 DEF AtWork
  <2>3. \A q \in retired : Serving /\ q[1] = generation => reader'[q].at = "dead"
    BY <1>2 DEF AtWork, TypeOK
  <2> QED  BY <1>1, <2>1, <2>2, <2>3 DEF AtWork
<1>7. ASSUME NEW q \in Reader, Serving, q[1] = generation, reader'[q].at = "published"
      PROVE  /\ log'[reader'[q].position].worker = q /\ reader'[q].position \notin ready'
             /\ \A p : p = reader'[q].position => Free(p)'
  <2>1. CASE q = r
    BY <1>2, <1>7, <2>1
  <2>2. CASE q # r
    <3>1. reader'[q] = reader[q]
      BY <1>2, <2>2
    <3> DEFINE p == reader[q].position
    <3>2. Free(p) /\ log[p].worker = q /\ p \notin ready
      BY <1>7, <3>1 DEF Answers
    <3>3. p \in Results
      BY <3>2 DEF Free, Final
    <3>4. ASSUME ready' # ready PROVE p # reader[r].position
      BY <2>2, <3>2, <3>4 DEF Answers
    <3>5. log'[p].worker = q /\ p \notin ready'
      BY <1>3, <3>2, <3>3, <3>4
    <3>6. \A x : x = p => Free(x)'
      BY <3>2, <3>3
    <3> QED  BY <3>1, <3>5, <3>6
  <2> QED  BY <2>1, <2>2
<1>8. Answers'
  BY <1>1, <1>7 DEF Answers
<1>9. ASSUME reader[r].at \notin {"published", "dead"}, NEW p \in Results, Kept(p) PROVE Kept(p)'
  <2> DEFINE w == log[p].worker
  <2>1. w \in Reader /\ log'[p].worker = w
    BY <1>3
  <2>2. w = r \/ reader'[w] = reader[w]
    BY <1>2, <2>1
  <2> QED  BY <1>1, <1>9, <2>1, <2>2 DEF Kept
<1> QED  BY <1>2, <1>5, <1>6, <1>8, <1>9

(* The common part of the steps that leave the log and the tasks alone.       *)
LEMMA Still ==
    ASSUME IInv, UNCHANGED <<produced, tasks, planned, log>>, active \subseteq active'
    PROVE  /\ Versions' /\ Collections' /\ Steady /\ Grown /\ Results' = Results
           /\ \A p \in Results : Free(p)' <=> Free(p)
           /\ \A g : Dropped(g)' <=> Dropped(g)
           /\ UNCHANGED <<cursor, processed>> =>
                 Acknowledged' /\ RetentionSound' /\ \A p : Processed(p)' <=> Processed(p)
<1> USE DEF IInv
<1>1. /\ Versions' /\ Collections' /\ Grown /\ Results' = Results
      /\ SamePositions("collection") /\ SamePositions("batch")
      /\ \A p \in Results : Free(p)' <=> Free(p)
      /\ \A g : Dropped(g)' <=> Dropped(g)
  BY Unmoved
<1>2. Steady
  BY <1>1, SteadyStep
<1>3. ASSUME UNCHANGED <<cursor, processed>>
      PROVE  Acknowledged' /\ RetentionSound' /\ \A p : Processed(p)' <=> Processed(p)
  <2>1. log' \in Seq(Entry)
    BY DEF TypeOK
  <2>2. \A p \in Results' : Dropped(GroupAt(p))' => p \in Results /\ Dropped(GroupAt(p))
    BY <1>1 DEF Grown
  <2>3. \A n \in Rollout : GroupsOf(n) \subseteq GroupsOf(n)' /\ (Converted(n) => Converted(n)')
    BY <1>2 DEF Steady
  <2> QED  BY <1>1, <1>3, <2>1, <2>2, <2>3, AcknowledgedKeeps
<1> QED  BY <1>1, <1>2, <1>3

(* The common part of the steps that change the state of tasks.               *)
LEMMA Leased ==
    ASSUME IInv, Leases, active' = active
    PROVE  /\ Versions' /\ Collections' /\ Steady /\ Grown /\ Results' = Results
           /\ \A p \in Results : Free(p)' <=> Free(p)
           /\ (UNCHANGED <<cursor, processed>> /\ \A t \in DOMAIN tasks : tasks'[t].state = "failed" => tasks[t].state = "failed") =>
                 Acknowledged' /\ RetentionSound' /\ \A p : Processed(p)' <=> Processed(p)
<1> USE DEF IInv
<1>1. /\ Versions' /\ Collections' /\ Grown /\ Results' = Results
      /\ SamePositions("collection") /\ SamePositions("batch")
      /\ \A p \in Results : Free(p)' <=> Free(p)
  BY LeasesKeep
<1>2. Steady
  BY <1>1, SteadyStep
<1>3. ASSUME UNCHANGED <<cursor, processed>>, \A t \in DOMAIN tasks : tasks'[t].state = "failed" => tasks[t].state = "failed"
      PROVE  Acknowledged' /\ RetentionSound' /\ \A p : Processed(p)' <=> Processed(p)
  <2>1. log' \in Seq(Entry)
    BY DEF TypeOK, Leases
  <2>2. \A g : Dropped(g)' <=> Dropped(g)
    BY <1>3, DroppedKeeps DEF Leases
  <2>3. \A p \in Results' : Dropped(GroupAt(p))' => p \in Results /\ Dropped(GroupAt(p))
    BY <1>1, <2>2 DEF Grown
  <2>4. \A n \in Rollout : GroupsOf(n) \subseteq GroupsOf(n)' /\ (Converted(n) => Converted(n)')
    BY <1>2 DEF Steady
  <2> QED  BY <1>1, <1>3, <2>1, <2>3, <2>4, AcknowledgedKeeps
<1> QED  BY <1>1, <1>2, <1>3

(* A reader's place.                                                          *)
LEMMA PlaceIs ==
    ASSUME NEW r \in Reader, NEW at \in {"idle", "asking", "failed", "dead"}, TypeOK, Becomes(r, at)
    PROVE  /\ [Idle EXCEPT !.at = at] \in Place /\ reader' = [reader EXCEPT ![r] = [Idle EXCEPT !.at = at]]
           /\ [Idle EXCEPT !.at = at].at = at
BY DEF Becomes, Idle, Place

(* A reader asks for a task.                                                  *)
LEMMA AskStep == ASSUME IInv, NEW r \in Reader, Ask(r) PROVE IInv'
<1> USE DEF IInv
<1> DEFINE at == IF r \in retired THEN "failed" ELSE "asking"
           k == [Idle EXCEPT !.at = at]
<1>1. /\ reader[r].at = "idle" /\ (r[1] = generation \/ r \in active) /\ (r[1] = generation => managerAt \notin Restoring)
      /\ active' = active \cup {r} /\ Becomes(r, at)
      /\ UNCHANGED <<produced, tasks, planned, log, cursor, processed, retired, generation, managerAt, rollout, ready, collecting,
                     toFence, recovered, source, window, boundary, faults>>
  BY DEF Ask, memory, journal
<1>2. /\ Versions' /\ Collections' /\ Steady /\ Grown /\ Results' = Results /\ Acknowledged' /\ RetentionSound'
      /\ \A p : Processed(p)' <=> Processed(p)
      /\ \A p \in Results : Free(p)' <=> Free(p)
  BY <1>1, Still
<1>3. k \in Place /\ reader' = [reader EXCEPT ![r] = k] /\ k.at = at
  BY <1>1, PlaceIs
<1>10. k.at \notin {"holding", "published"} /\ r \in active' /\ DOMAIN tasks' = DOMAIN tasks
  BY <1>1, <1>3
<1> HIDE DEF k, at
<1>4. active' = active \/ (active' = active \cup {r} /\ r[1] = source /\ managerAt \notin Restoring)
  <2>1. CASE r \in active
    BY <1>1, <2>1
  <2>2. CASE r \notin active
    <3>1. r[1] = generation /\ r[1] <= source /\ source <= generation /\ source \in Nat /\ generation \in Nat
      <4>1. r[1] \in Nat /\ source \in Nat /\ generation \in Nat /\ source <= generation
        BY DEF TypeOK, Reader
      <4>2. ~(r[1] > source)
        BY <1>1 DEF Managers
      <4> QED  BY <1>1, <2>2, <4>1, <4>2
    <3> QED  BY <1>1, <3>1
  <2> QED  BY <2>1, <2>2
<1>5. Hands' /\ Restoration' /\ Window' /\ Stages' /\ Trained'
  BY <1>1, <1>2, <1>4, ManagerIdle
<1>6. r \in retired /\ Serving /\ r[1] = generation => FALSE
  BY <1>1 DEF AtWork
<1>7. /\ reader' \in [Reader -> Place] /\ Managers' /\ AtWork' /\ Answers'
      /\ \A p \in Results : Kept(p) => Kept(p)'
  BY <1>1, <1>2, <1>3, <1>4, <1>6, <1>10, OneReader
<1>8. TypeOK'
  BY <1>1, <1>7 DEF TypeOK
<1>9. AllKept'
  BY <1>2, <1>7 DEF AllKept
<1> QED  BY <1>2, <1>5, <1>7, <1>8, <1>9

(* The steps of the leases: acquire, renewals that fail, a group returned.    *)
LEMMA TaskIs ==
    ASSUME TypeOK, NEW t \in DOMAIN tasks, NEW k \in Task, tasks' = [tasks EXCEPT ![t] = k],
           k.group = tasks[t].group, k.sources = tasks[t].sources,
           tasks[t].state \in {"pending", "leased"}, k.state # "completed", UNCHANGED <<produced, planned, log>>
    PROVE  /\ Leases
           /\ \A u \in DOMAIN tasks : tasks'[u].state = "failed" => tasks[u].state = "failed" \/ (u = t /\ k.state = "failed")
           /\ tasks' \in Seq(Task) /\ tasks'[t] = k
<1>1. tasks \in Seq(Task) /\ tasks' \in Seq(Task) /\ DOMAIN tasks' = DOMAIN tasks
  BY DEF TypeOK
<1>2. tasks'[t] = k /\ \A u \in DOMAIN tasks : u # t => tasks'[u] = tasks[u]
  BY <1>1
<1> QED  BY <1>1, <1>2 DEF Leases

(* take leases a pending task.                                               *)
LEMMA AcquireStep == ASSUME IInv, NEW r \in Reader, Acquire(r) PROVE IInv'
<1> USE DEF IInv
<1>1. /\ reader[r].at = "asking"
      /\ UNCHANGED <<produced, planned, log, cursor, processed, active, retired, generation, managerAt, rollout, ready, collecting,
                     toFence, recovered, source, window, boundary, faults>>
  BY DEF Acquire, memory, journal
<1>2. PICK t \in Pending :
        /\ tasks' = [tasks EXCEPT ![t].state = "leased", ![t].worker = r, ![t].attempt = @ + 1]
        /\ reader' = [reader EXCEPT ![r] = [at |-> "holding", task |-> t, attempt |-> tasks[t].attempt + 1, position |-> 0]]
  BY DEF Acquire
<1>3. t \in DOMAIN tasks /\ tasks[t].state = "pending" /\ tasks[t] \in Task
  BY Types DEF Pending
<1> DEFINE k == [tasks[t] EXCEPT !.state = "leased", !.worker = r, !.attempt = @ + 1]
           h == [at |-> "holding", task |-> t, attempt |-> tasks[t].attempt + 1, position |-> 0]
<1>4. tasks' = [tasks EXCEPT ![t] = k]
  BY <1>2
<1>5. k \in Task /\ k.group = tasks[t].group /\ k.sources = tasks[t].sources /\ k.state = "leased"
  <2>1. tasks[t].attempt + 1 \in Nat /\ r \in Reader \cup {NoReader}
    BY <1>3 DEF Task
  <2>2. k = [tasks[t] EXCEPT !.state = "leased", !.worker = r, !.attempt = tasks[t].attempt + 1]
    OBVIOUS
  <2>3. k.group = tasks[t].group /\ k.sources = tasks[t].sources /\ k.state = "leased"
    BY <1>3, <2>2 DEF Task
  <2>4. k \in Task
    BY <1>3, <2>1, <2>2 DEF Task
  <2> QED  BY <2>3, <2>4
<1>6. h \in Place /\ h.at = "holding" /\ h.task = t
  BY <1>3, Types DEF Place, Task
<1>7. reader' = [reader EXCEPT ![r] = h]
  BY <1>2
<1> HIDE DEF k, h
<1>8. /\ Leases /\ tasks' \in Seq(Task)
      /\ \A u \in DOMAIN tasks : tasks'[u].state = "failed" => tasks[u].state = "failed"
  BY <1>1, <1>3, <1>4, <1>5, TaskIs
<1>9. /\ Versions' /\ Collections' /\ Steady /\ Grown /\ Results' = Results /\ Acknowledged' /\ RetentionSound'
      /\ \A p : Processed(p)' <=> Processed(p)
      /\ \A p \in Results : Free(p)' <=> Free(p)
  BY <1>1, <1>8, Leased
<1>10. Hands' /\ Restoration' /\ Window' /\ Stages' /\ Trained'
  BY <1>1, <1>9, ManagerIdle
<1>11. r \in active /\ (r \in retired /\ Serving /\ r[1] = generation => FALSE) /\ DOMAIN tasks' = DOMAIN tasks
  BY <1>1, <1>8 DEF AtWork, Leases
<1>12. /\ reader' \in [Reader -> Place] /\ Managers' /\ AtWork' /\ Answers'
       /\ \A p \in Results : Kept(p) => Kept(p)'
  BY <1>1, <1>3, <1>6, <1>7, <1>9, <1>11, OneReader
<1>13. TypeOK'
  BY <1>1, <1>8, <1>12 DEF TypeOK
<1>14. AllKept'
  BY <1>9, <1>12 DEF AllKept
<1> QED  BY <1>9, <1>10, <1>12, <1>13, <1>14

(* A refill leaves its reader asking.                                         *)
LEMMA RefillStep == ASSUME IInv, NEW r \in Reader, Refill(r) PROVE IInv'
<1> USE DEF IInv
<1>1. /\ produced < MaxGroups /\ produced' = Min({produced + RefillSize, MaxGroups})
      /\ tasks' = tasks \o [i \in 1..(produced' - produced) |-> NewTask(produced + i, {}, 0)]
      /\ UNCHANGED <<planned, log, cursor, processed, active, retired, reader, generation, managerAt, rollout, ready, collecting,
                     toFence, recovered, source, window, boundary, faults>>
  BY DEF Refill, memory, journal
<1> DEFINE k == produced' - produced
<1>2. produced' \in 0..MaxGroups /\ k \in Nat /\ produced + k <= MaxGroups /\ produced' = produced + k
  <2>1. produced \in Nat /\ RefillSize \in Nat /\ MaxGroups \in Nat
    BY Constants, Types
  <2>2. produced' = IF produced + RefillSize <= MaxGroups THEN produced + RefillSize ELSE MaxGroups
    BY <1>1, <2>1, MinOfTwo
  <2>3. CASE produced + RefillSize <= MaxGroups
    BY <2>1, <2>2, <2>3
  <2>4. CASE ~(produced + RefillSize <= MaxGroups)
    BY <1>1, <2>1, <2>2, <2>4
  <2> QED  BY <2>3, <2>4
<1>3. tasks' = tasks \o [i \in 1..k |-> NewTask(produced + i, {}, 0)]
  BY <1>1
<1> HIDE DEF k
<1>4. /\ Versions' /\ Collections' /\ Grown /\ Results' = Results
      /\ tasks' \in Seq(Task) /\ DOMAIN tasks \subseteq DOMAIN tasks'
      /\ SamePositions("collection") /\ SamePositions("batch")
      /\ \A p \in Results : Free(p)' <=> Free(p)
      /\ \A g : Dropped(g)' <=> Dropped(g)
  BY <1>1, <1>2, <1>3, Refilled
<1>5. Steady
  BY <1>4, SteadyStep
<1>6. Acknowledged' /\ RetentionSound' /\ \A p : Processed(p)' <=> Processed(p)
  <2>1. log' \in Seq(Entry)
    BY <1>1 DEF TypeOK
  <2>2. \A p \in Results' : Dropped(GroupAt(p))' => p \in Results /\ Dropped(GroupAt(p))
    BY <1>4 DEF Grown
  <2>3. \A n \in Rollout : GroupsOf(n) \subseteq GroupsOf(n)' /\ (Converted(n) => Converted(n)')
    BY <1>5 DEF Steady
  <2> QED  BY <1>1, <1>4, <2>1, <2>2, <2>3, AcknowledgedKeeps
<1>7. Hands' /\ Restoration' /\ Window' /\ Stages' /\ Trained'
  BY <1>1, <1>4, <1>5, <1>6, ManagerIdle
<1>8. Serving' <=> Serving
  BY <1>1 DEF Serving
<1>9. Managers' /\ AtWork'
  BY <1>1, <1>4, <1>8 DEF Managers, AtWork
<1>10. \A p \in Results : log'[p] = log[p]
  BY <1>1
<1>11. Answers'
  <2>1. ASSUME NEW q \in Reader, Serving, q[1] = generation, reader[q].at = "published"
        PROVE  /\ log'[reader[q].position].worker = q /\ reader[q].position \notin ready
               /\ \A p : p = reader[q].position => Free(p)'
    <3>1. Free(reader[q].position) /\ log[reader[q].position].worker = q /\ reader[q].position \notin ready
      BY <2>1 DEF Answers
    <3>2. reader[q].position \in Results
      BY <3>1 DEF Free, Final
    <3> QED  BY <1>1, <1>4, <3>1, <3>2
  <2> QED  BY <1>1, <1>8, <2>1 DEF Answers
<1>12. AllKept'
  BY <1>1, <1>4, <1>8 DEF AllKept, Kept
<1>13. TypeOK'
  BY <1>1, <1>2, <1>4 DEF TypeOK
<1> QED  BY <1>4, <1>6, <1>7, <1>9, <1>11, <1>12, <1>13

(* The place of a reader that has published.                                  *)
LEMMA PublishedIs ==
    ASSUME NEW n \in Nat
    PROVE  LET k == [Idle EXCEPT !.at = "published", !.position = n]
           IN  k \in Place /\ k.at = "published" /\ k.position = n
BY DEF Idle, Place

(* A result enters the log.                                                   *)
LEMMA CompleteStep == ASSUME IInv, NEW r \in Reader, Complete(r) PROVE IInv'
<1> USE DEF IInv
<1>1. /\ reader[r].at = "holding"
      /\ UNCHANGED <<produced, planned, cursor, processed, active, retired, generation, managerAt, rollout, ready, collecting,
                     toFence, recovered, source, window, boundary, faults>>
  BY DEF Complete, memory, journal
<1>2. r \in active /\ Held(r) \in DOMAIN tasks /\ (r \in retired /\ Serving /\ r[1] = generation => FALSE)
      /\ Len(log) \in Nat
  BY <1>1, Types DEF AtWork, Held
<1>3. CASE ~(Valid(r) /\ r \notin retired)
  <2>1. Becomes(r, "failed") /\ UNCHANGED <<log, tasks>>
    BY <1>3 DEF Complete
  <2> DEFINE k == [Idle EXCEPT !.at = "failed"]
  <2>2. k \in Place /\ reader' = [reader EXCEPT ![r] = k] /\ k.at = "failed"
    BY <2>1, PlaceIs
  <2> HIDE DEF k
  <2>3. /\ Versions' /\ Collections' /\ Steady /\ Grown /\ Results' = Results /\ Acknowledged' /\ RetentionSound'
        /\ \A p : Processed(p)' <=> Processed(p)
        /\ \A p \in Results : Free(p)' <=> Free(p)
    BY <1>1, <2>1, Still
  <2>4. Hands' /\ Restoration' /\ Window' /\ Stages' /\ Trained'
    BY <1>1, <2>1, <2>3, ManagerIdle
  <2>5. /\ reader' \in [Reader -> Place] /\ Managers' /\ AtWork' /\ Answers'
        /\ \A p \in Results : Kept(p) => Kept(p)'
    BY <1>1, <1>2, <2>1, <2>2, <2>3, OneReader
  <2>6. TypeOK'
    BY <1>1, <2>1, <2>5 DEF TypeOK
  <2>7. AllKept'
    BY <2>3, <2>5 DEF AllKept
  <2> QED  BY <2>3, <2>4, <2>5, <2>6, <2>7
<1>4. CASE Valid(r) /\ r \notin retired
  <2> DEFINE t == Held(r)
             last == Len(log) + 1
             k == [Idle EXCEPT !.at = "published", !.position = Len(log) + 1]
  <2>1. /\ log' = Append(log, [kind |-> "group", task |-> t, worker |-> r, rollout |-> 0, inputs |-> {}])
        /\ tasks' = [tasks EXCEPT ![t].state = "completed"]
        /\ reader' = [reader EXCEPT ![r] = k]
    BY <1>4 DEF Complete
  <2>2. k \in Place /\ k.at = "published" /\ k.position = last
    <3>1. last \in Nat
      BY <1>2
    <3> HIDE DEF last
    <3> QED  BY <3>1, PublishedIs DEF last
  <2>3. t \in DOMAIN tasks /\ tasks[t].state = "leased"
    BY <1>2, <1>4 DEF Valid
  <2> HIDE DEF t, k
  <2>4. /\ Versions' /\ Collections' /\ Grown /\ Results' = Results \cup {last}
        /\ log' \in Seq(Entry) /\ Len(log') = last
        /\ tasks' \in Seq(Task) /\ DOMAIN tasks' = DOMAIN tasks
        /\ log'[last].worker = r
        /\ SamePositions("collection") /\ SamePositions("batch")
        /\ \A p \in Results : Free(p)' <=> Free(p)
        /\ \A p : p = last => Free(p)' /\ GroupAt(p)' = tasks[t].group
        /\ \A g : Dropped(g)' <=> Dropped(g)
        /\ ~Dropped(tasks[t].group)
    BY <1>1, <1>2, <2>1, <2>3, ResultAppended
  <2>5. Steady
    BY <2>4, SteadyStep
  <2>6. last \notin DOMAIN log
    BY <1>2, Types
  <2> HIDE DEF last
  <2>7. Acknowledged' /\ RetentionSound' /\ \A p : Processed(p)' <=> Processed(p)
    <3>1. \A p \in Results' : Dropped(GroupAt(p))' => p \in Results /\ Dropped(GroupAt(p))
      BY <2>4 DEF Grown
    <3>2. \A n \in Rollout : GroupsOf(n) \subseteq GroupsOf(n)' /\ (Converted(n) => Converted(n)')
      BY <2>5 DEF Steady
    <3> QED  BY <1>1, <2>4, <3>1, <3>2, AcknowledgedKeeps
  <2>8. Hands' /\ Restoration' /\ Window' /\ Stages' /\ Trained'
    BY <1>1, <2>4, <2>5, <2>7, ManagerIdle
  <2>9. \A p \in ready : p \in DOMAIN log
    BY ResultIs DEF Hands, Free, Final
  <2>10. /\ reader' \in [Reader -> Place] /\ Managers' /\ AtWork' /\ Answers'
         /\ \A p \in Results : Kept(p) => Kept(p)'
    <3>1. k.position \notin ready' /\ log'[k.position].worker = r /\ \A p : p = k.position => Free(p)'
      BY <1>1, <2>2, <2>4, <2>6, <2>9
    <3>2. k.at # "holding" /\ r \in active'
      BY <1>1, <1>2, <2>2
    <3> QED  BY <1>1, <1>2, <2>1, <2>2, <2>4, <3>1, <3>2, OneReader
  <2>11. TypeOK'
    <3>1. cursor' \in 0..Len(log') /\ processed' \subseteq 1..Len(log')
      BY <1>1, <1>2, <2>4 DEF TypeOK, last
    <3> QED  BY <1>1, <2>4, <2>10, <3>1 DEF TypeOK
  <2>12. AllKept'
    <3>1. r[1] = source
      BY <1>2, <1>4 DEF Managers
    <3>2. reader'[r] = k
      BY <2>1 DEF TypeOK
    <3>3. Serving => r[1] = generation
      BY <3>1 DEF Managers
    <3>4. managerAt = "fence" => r \in toFence
      BY <1>2, <1>4 DEF Restoration
    <3>5. managerAt # "deliver"
      BY <1>2, <1>4 DEF Restoration
    <3>6. (Serving' <=> Serving)
      BY <1>1 DEF Serving
    <3>7. \A p : p = last => Kept(p)'
      BY <1>1, <2>2, <2>4, <3>1, <3>2, <3>3, <3>4, <3>5, <3>6 DEF Kept
    <3> QED  BY <2>4, <2>10, <3>7 DEF AllKept
  <2> QED  BY <2>4, <2>7, <2>8, <2>10, <2>11, <2>12
<1> QED  BY <1>3, <1>4

(* A task whose lease is valid and whose state changes.                       *)
LEMMA StateIs ==
    ASSUME TypeOK, NEW t \in DOMAIN tasks, NEW state \in {"pending", "failed"}, NEW stage \in Nat, tasks[t].state = "leased",
           tasks' = [tasks EXCEPT ![t].state = state, ![t].stage = stage], UNCHANGED <<produced, planned, log>>
    PROVE  /\ Leases /\ tasks' \in Seq(Task) /\ tasks'[t].state = state
           /\ \A u \in DOMAIN tasks : tasks'[u].state = "failed" => tasks[u].state = "failed" \/ (u = t /\ state = "failed")
<1> DEFINE k == [tasks[t] EXCEPT !.state = state, !.stage = stage]
<1>1. tasks[t] \in Task
  BY Types
<1>2. k.group = tasks[t].group /\ k.sources = tasks[t].sources /\ k.state = state
  BY <1>1 DEF Task
<1>3. k \in Task
  BY <1>1 DEF Task
<1>4. tasks' = [tasks EXCEPT ![t] = k]
  OBVIOUS
<1> HIDE DEF k
<1> QED  BY <1>2, <1>3, <1>4, TaskIs

(* ... with the stage it had.                                                 *)
LEMMA StageKept ==
    ASSUME TypeOK, NEW t \in DOMAIN tasks, NEW state,
           tasks' = [tasks EXCEPT ![t].state = state]
    PROVE  tasks[t].stage \in Nat /\ tasks' = [tasks EXCEPT ![t].state = state, ![t].stage = tasks[t].stage]
<1>1. tasks \in Seq(Task) /\ tasks[t] \in Task
  BY Types DEF TypeOK
<1>2. [tasks[t] EXCEPT !.state = state] = [tasks[t] EXCEPT !.state = state, !.stage = tasks[t].stage] /\ tasks[t].stage \in Nat
  BY <1>1 DEF Task
<1> QED  BY <1>1, <1>2

(* A reader gives its group up.                                               *)
LEMMA GivenUp ==
    ASSUME IInv, NEW r \in Reader, reader[r].at = "holding", NEW at \in {"idle", "failed"}, Becomes(r, at),
           UNCHANGED <<produced, planned, log, active, retired, generation, managerAt, rollout, ready, collecting,
                     toFence, recovered, source, window, boundary>>,
           faults' \in [Fault -> Nat], tasks' \in Seq(Task), DOMAIN tasks' = DOMAIN tasks, cursor' \in 0..Len(log),
           processed' \subseteq 1..Len(log),
           Versions', Collections', Steady, Results' = Results, Acknowledged', RetentionSound',
           \A p \in DOMAIN log : Processed(p) => Processed(p)',
           \A p \in Results : Free(p)' <=> Free(p)
    PROVE  IInv'
<1> USE DEF IInv
<1> DEFINE k == [Idle EXCEPT !.at = at]
<1>1. k \in Place /\ reader' = [reader EXCEPT ![r] = k] /\ k.at \in {"idle", "failed"}
  BY PlaceIs
<1> HIDE DEF k
<1>2. r \in retired /\ Serving /\ r[1] = generation => FALSE
  BY DEF AtWork
<1>3. Hands' /\ Restoration' /\ Window' /\ Stages' /\ Trained'
  BY ManagerIdle
<1>4. Grown
  BY DEF Steady
<1>5. /\ reader' \in [Reader -> Place] /\ Managers' /\ AtWork' /\ Answers'
      /\ \A p \in Results : Kept(p) => Kept(p)'
  BY <1>1, <1>2, <1>4, OneReader
<1>6. TypeOK'
  BY <1>5 DEF TypeOK
<1>7. AllKept'
  BY <1>5 DEF AllKept
<1> QED  BY <1>3, <1>5, <1>6, <1>7

(* Faults are counted.                                                        *)
LEMMA FaultsCounted == ASSUME TypeOK, NEW f \in Fault, NEW b, Suffer(f, b) PROVE faults' \in [Fault -> Nat]
BY DEF TypeOK, Suffer

(* An unfinished group is returned.                                           *)
LEMMA ReturnStep == ASSUME IInv, NEW r \in Reader, Return(r) PROVE IInv'
<1> USE DEF IInv
<1>1. /\ reader[r].at = "holding" /\ Suffer("return", MaxReturns) /\ "return" \in Fault
      /\ UNCHANGED <<produced, planned, log, cursor, processed, active, retired, generation, managerAt, rollout, ready, collecting,
                     toFence, recovered, source, window, boundary>>
  BY DEF Return, memory, journal, Fault
<1>2. faults' \in [Fault -> Nat] /\ cursor' \in 0..Len(log) /\ processed' \subseteq 1..Len(log)
  BY <1>1, FaultsCounted DEF TypeOK
<1>3. Held(r) \in DOMAIN tasks
  BY <1>1 DEF AtWork, Held
<1>4. CASE ~Valid(r)
  <2>1. Becomes(r, "failed") /\ UNCHANGED tasks
    BY <1>4 DEF Return
  <2>2. /\ Versions' /\ Collections' /\ Steady /\ Grown /\ Results' = Results /\ Acknowledged' /\ RetentionSound'
        /\ \A p : Processed(p)' <=> Processed(p)
        /\ \A p \in Results : Free(p)' <=> Free(p)
    BY <1>1, <2>1, Still
  <2>3. tasks' \in Seq(Task) /\ DOMAIN tasks' = DOMAIN tasks
    BY <2>1 DEF TypeOK
  <2> QED  BY <1>1, <1>2, <2>1, <2>2, <2>3, GivenUp
<1>5. CASE Valid(r)
  <2> DEFINE t == Held(r)
  <2>1. Becomes(r, "idle")
    BY <1>5 DEF Return
  <2>2. PICK s \in tasks[t].stage..Max({1, tasks[t].stage}) : tasks' = [tasks EXCEPT ![t].state = "pending", ![t].stage = s]
    BY <1>5 DEF Return
  <2>3. t \in DOMAIN tasks /\ tasks[t].state = "leased"
    BY <1>3, <1>5 DEF Valid
  <2>4. s \in Nat
    <3>1. tasks[t].stage \in Nat
      BY <2>3, Types DEF Task
    <3>2. s \in Int /\ tasks[t].stage <= s
      BY <2>2, <3>1
    <3> QED  BY <3>1, <3>2
  <2> HIDE DEF t
  <2>5. /\ Leases /\ tasks' \in Seq(Task)
        /\ \A u \in DOMAIN tasks : tasks'[u].state = "failed" => tasks[u].state = "failed"
    BY <1>1, <2>2, <2>3, <2>4, StateIs
  <2>6. /\ Versions' /\ Collections' /\ Steady /\ Grown /\ Results' = Results /\ Acknowledged' /\ RetentionSound'
        /\ \A p : Processed(p)' <=> Processed(p)
        /\ \A p \in Results : Free(p)' <=> Free(p)
    BY <1>1, <2>5, Leased
  <2>7. DOMAIN tasks' = DOMAIN tasks
    BY <2>5 DEF Leases
  <2> QED  BY <1>1, <1>2, <2>1, <2>5, <2>6, <2>7, GivenUp
<1> QED  BY <1>4, <1>5

(* A rejected group is dropped, and what it replaced is acknowledged.         *)
LEMMA RejectStep == ASSUME IInv, NEW r \in Reader, Reject(r) PROVE IInv'
<1> USE DEF IInv
<1>1. /\ reader[r].at = "holding" /\ Suffer("reject", MaxRejects) /\ "reject" \in Fault
      /\ UNCHANGED <<produced, planned, log, active, retired, generation, managerAt, rollout, ready, collecting,
                     toFence, recovered, source, window, boundary>>
  BY DEF Reject, memory, journal, Fault
<1>2. faults' \in [Fault -> Nat]
  BY <1>1, FaultsCounted
<1>3. Held(r) \in DOMAIN tasks
  BY <1>1 DEF AtWork, Held
<1>4. CASE ~Valid(r)
  <2>1. Becomes(r, "failed") /\ UNCHANGED <<tasks, cursor, processed>>
    BY <1>4 DEF Reject
  <2>2. /\ Versions' /\ Collections' /\ Steady /\ Grown /\ Results' = Results /\ Acknowledged' /\ RetentionSound'
        /\ \A p : Processed(p)' <=> Processed(p)
        /\ \A p \in Results : Free(p)' <=> Free(p)
    BY <1>1, <2>1, Still
  <2>3. /\ tasks' \in Seq(Task) /\ DOMAIN tasks' = DOMAIN tasks /\ cursor' \in 0..Len(log) /\ processed' \subseteq 1..Len(log)
    BY <2>1 DEF TypeOK
  <2> QED  BY <1>1, <1>2, <2>1, <2>2, <2>3, GivenUp
<1>5. CASE Valid(r)
  <2> DEFINE t == Held(r)
             P == tasks[t].sources
             g == tasks[t].group
  <2>1. Becomes(r, "idle") /\ tasks' = [tasks EXCEPT ![t].state = "failed"] /\ Advance(P)
    BY <1>5 DEF Reject
  <2>3. t \in DOMAIN tasks /\ tasks[t].state = "leased"
    BY <1>3, <1>5 DEF Valid
  <2> HIDE DEF t
  <2>4. tasks[t].stage \in Nat /\ tasks' = [tasks EXCEPT ![t].state = "failed", ![t].stage = tasks[t].stage]
    BY <2>1, <2>3, StageKept
  <2>5. /\ Leases /\ tasks' \in Seq(Task) /\ tasks'[t].state = "failed"
        /\ \A u \in DOMAIN tasks : tasks'[u].state = "failed" => tasks[u].state = "failed" \/ u = t
    BY <1>1, <2>3, <2>4, StateIs
  <2>6. /\ Versions' /\ Collections' /\ Steady /\ Grown /\ Results' = Results
        /\ \A p \in Results : Free(p)' <=> Free(p)
    BY <1>1, <2>5, Leased
  <2>7. DOMAIN tasks' = DOMAIN tasks /\ \A u \in DOMAIN tasks : tasks'[u].group = tasks[u].group
    BY <2>5 DEF Leases
  <2>8. \A h : Dropped(h)' => Dropped(h) \/ h = g
    BY <2>5, <2>7 DEF Dropped, InState, TasksOf
  <2>9. \A h : h = g => Dropped(h)'
    <3> QED  BY <2>3, <2>5, <2>7 DEF Dropped, InState, TasksOf
  <2>10. P = {p \in Results : GroupAt(p) = g /\ log[p].task < t}
    BY <2>3 DEF Versions
  <2>11. \A p \in Results : GroupAt(p) = g => p \in P
    <3>1. ASSUME NEW p \in Results, GroupAt(p) = g PROVE log[p].task < t
      <4>1. log[p].task \in DOMAIN tasks /\ tasks[log[p].task].state = "completed" /\ tasks[log[p].task].group = g
        BY <3>1, ResultIs DEF GroupAt
      <4>2. Newest(t)
        BY <2>3 DEF Versions
      <4>3. log[p].task <= t /\ log[p].task # t
        BY <2>3, <4>1, <4>2 DEF Newest
      <4> QED  BY <2>3, <4>1, <4>3, Types
    <3> QED  BY <2>10, <3>1
  <2>12. P \subseteq DOMAIN log
    BY <2>10, ResultIs
  <2>13. ASSUME NEW p \in Results, GroupAt(p) = g PROVE Spent(p)'
    <3>1. p \in DOMAIN log /\ log'[p].kind = "group" /\ GroupAt(p)' = g
      BY <1>1, <2>6, <2>13, ResultIs DEF Grown
    <3> QED  BY <2>9, <3>1 DEF Spent
  <2>14. \A p \in P : Spent(p)' /\ \A q \in SourcesOf(p) : Spent(q)'
    BY <2>10, <2>13, ReplacedIs
  <2>15. \A p \in Results : Dropped(GroupAt(p))' => Dropped(GroupAt(p)) \/ p \in P
    BY <2>6, <2>8, <2>11 DEF Grown
  <2>16. \A n \in Rollout : GroupsOf(n) \subseteq GroupsOf(n)' /\ (Converted(n) => Converted(n)')
    BY <2>6 DEF Steady
  <2> HIDE DEF P, g
  <2>17. /\ Acknowledged' /\ RetentionSound'
         /\ cursor' \in 0..Len(log) /\ processed' \subseteq 1..Len(log)
         /\ \A p \in DOMAIN log : Processed(p) => Processed(p)'
    BY <1>1, <2>1, <2>6, <2>12, <2>14, <2>15, <2>16, AcknowledgedGrows
  <2> QED  BY <1>1, <1>2, <2>1, <2>5, <2>6, <2>7, <2>17, GivenUp
<1> QED  BY <1>4, <1>5

(* A step of the leases that moves no reader and no manager.                  *)
LEMMA TasksOnly ==
    ASSUME IInv, Leases, tasks' \in Seq(Task), faults' \in [Fault -> Nat],
           \A u \in DOMAIN tasks : tasks'[u].state = "failed" => tasks[u].state = "failed",
           UNCHANGED <<cursor, processed, active, retired, reader, generation, managerAt, rollout, ready,
                     collecting, toFence, recovered, source, window, boundary>>
    PROVE  IInv'
<1> USE DEF IInv
<1>1. UNCHANGED <<produced, planned, log>> /\ DOMAIN tasks' = DOMAIN tasks
  BY DEF Leases
<1>2. /\ Versions' /\ Collections' /\ Steady /\ Grown /\ Results' = Results /\ Acknowledged' /\ RetentionSound'
      /\ \A p : Processed(p)' <=> Processed(p)
      /\ \A p \in Results : Free(p)' <=> Free(p)
  BY Leased
<1>3. Hands' /\ Restoration' /\ Window' /\ Stages' /\ Trained'
  BY <1>1, <1>2, ManagerIdle
<1>4. Serving' <=> Serving
  BY DEF Serving
<1>5. Managers' /\ AtWork'
  BY <1>1, <1>4 DEF Managers, AtWork
<1>6. Answers'
  <2>1. ASSUME NEW q \in Reader, Serving, q[1] = generation, reader[q].at = "published"
        PROVE  /\ log'[reader[q].position].worker = q /\ reader[q].position \notin ready
               /\ \A p : p = reader[q].position => Free(p)'
    <3>1. Free(reader[q].position) /\ log[reader[q].position].worker = q /\ reader[q].position \notin ready
      BY <2>1 DEF Answers
    <3>2. reader[q].position \in Results
      BY <3>1 DEF Free, Final
    <3> QED  BY <1>1, <1>2, <3>1, <3>2
  <2> QED  BY <1>4, <2>1 DEF Answers
<1>7. AllKept'
  BY <1>1, <1>2, <1>4 DEF AllKept, Kept
<1>8. TypeOK'
  BY <1>1 DEF TypeOK
<1> QED  BY <1>2, <1>3, <1>5, <1>6, <1>7, <1>8

(* A lease runs out.                                                          *)
LEMMA ExpireStep == ASSUME IInv, NEW t \in DOMAIN tasks, Expire(t) PROVE IInv'
<1> USE DEF IInv
<1>1. /\ tasks[t].state = "leased" /\ Suffer("expiry", MaxExpiries) /\ "expiry" \in Fault
      /\ tasks' = [tasks EXCEPT ![t].state = "pending"]
      /\ UNCHANGED <<produced, planned, log, cursor, processed, active, retired, reader, generation, managerAt, rollout, ready,
                     collecting, toFence, recovered, source, window, boundary>>
  BY DEF Expire, memory, journal, Fault
<1>2. faults' \in [Fault -> Nat]
  BY <1>1, FaultsCounted
<1>3. tasks[t].stage \in Nat /\ tasks' = [tasks EXCEPT ![t].state = "pending", ![t].stage = tasks[t].stage]
  BY <1>1, StageKept
<1>4. /\ Leases /\ tasks' \in Seq(Task)
      /\ \A u \in DOMAIN tasks : tasks'[u].state = "failed" => tasks[u].state = "failed"
  BY <1>1, <1>3, StateIs
<1> QED  BY <1>1, <1>2, <1>4, TasksOnly

(* A reader of the running manager dies.                                      *)
LEMMA ReaderDiesStep == ASSUME IInv, NEW r \in Reader, ReaderDies(r) PROVE IInv'
<1> USE DEF IInv
<1>1. /\ r[1] = generation /\ managerAt # "dead" /\ reader[r].at \notin {"none", "dead"}
      /\ Suffer("death", MaxDeaths) /\ "death" \in Fault /\ Becomes(r, "dead")
      /\ UNCHANGED <<produced, tasks, planned, log, cursor, processed, active, retired, generation, managerAt, rollout, ready,
                     collecting, toFence, recovered, source, window, boundary>>
  BY DEF ReaderDies, controller, memory, journal, Fault
<1>2. faults' \in [Fault -> Nat]
  BY <1>1, FaultsCounted
<1> DEFINE k == [Idle EXCEPT !.at = "dead"]
<1>3. k \in Place /\ reader' = [reader EXCEPT ![r] = k] /\ k.at = "dead"
  BY <1>1, PlaceIs
<1> HIDE DEF k
<1>4. /\ Versions' /\ Collections' /\ Steady /\ Grown /\ Results' = Results /\ Acknowledged' /\ RetentionSound'
      /\ \A p : Processed(p)' <=> Processed(p)
      /\ \A p \in Results : Free(p)' <=> Free(p)
  BY <1>1, Still
<1>5. Hands' /\ Restoration' /\ Window' /\ Stages' /\ Trained'
  BY <1>1, <1>4, ManagerIdle
<1>6. reader' \in [Reader -> Place] /\ Managers' /\ AtWork' /\ Answers'
  BY <1>1, <1>3, <1>4, OneReader
<1>7. TypeOK'
  BY <1>1, <1>2, <1>6 DEF TypeOK
<1>8. reader'[r].at = "dead" /\ \A q \in Reader : q # r => reader'[q] = reader[q]
  BY <1>3 DEF TypeOK
<1>9. Serving /\ r \in retired => FALSE
  BY <1>1 DEF AtWork
<1>10. ASSUME NEW p \in Results, Kept(p) PROVE Kept(p)'
  <2> DEFINE w == log[p].worker
  <2>1. w \in Reader /\ log'[p].worker = w
    BY <1>1, ResultIs DEF TypeOK
  <2>2. w = r \/ reader'[w] = reader[w]
    BY <1>8, <2>1
  <2>3. (Serving' <=> Serving)
    BY <1>1 DEF Serving
  <2> QED  BY <1>1, <1>8, <1>9, <1>10, <2>1, <2>2, <2>3 DEF Kept
<1>11. AllKept'
  BY <1>4, <1>10 DEF AllKept
<1> QED  BY <1>4, <1>5, <1>6, <1>7, <1>11

(* The manager receives an answer.                                            *)
LEMMA ReceiveStep == ASSUME IInv, NEW r \in Reader, Receive(r) PROVE IInv'
<1> USE DEF IInv
<1> DEFINE p == reader[r].position
           k == [Idle EXCEPT !.at = "idle"]
<1>1. /\ r[1] = generation /\ reader[r].at = "published" /\ managerAt # "dead"
      /\ ready' = ready \cup {p} /\ Becomes(r, "idle")
      /\ UNCHANGED <<produced, tasks, planned, log, cursor, processed, active, retired, generation, managerAt, rollout,
                     collecting, toFence, recovered, source, window, boundary, faults>>
  BY DEF Receive, controller, journal
<1>2. Serving
  <2>1. managerAt \notin Restoring
    BY <1>1 DEF Managers, TypeOK, Reader
  <2> QED  BY <1>1, <2>1 DEF Serving
<1>3. k \in Place /\ reader' = [reader EXCEPT ![r] = k] /\ k.at = "idle"
  BY <1>1, PlaceIs
<1>4. Free(p) /\ log[p].worker = r /\ p \in Results /\ p \in Nat
  BY <1>1, <1>2, ResultIs DEF Answers, Free, Final
<1> HIDE DEF k, p
<1>5. /\ Versions' /\ Collections' /\ Steady /\ Grown /\ Results' = Results /\ Acknowledged' /\ RetentionSound'
      /\ \A q : Processed(q)' <=> Processed(q)
      /\ \A q \in Results : Free(q)' <=> Free(q)
  BY <1>1, Still
<1>6. Window' /\ Stages' /\ Trained'
  BY <1>1, <1>5, WindowKeeps
<1>7. Serving' <=> Serving
  BY <1>1 DEF Serving
<1>8. Restoration'
  <2>1. recovered = {}
    BY <1>2 DEF Restoration, Serving, Restoring
  <2> QED  BY <1>1, <2>1 DEF Restoration
<1>9. Hands'
  <2>1. \A q \in ready : q \in Results
    BY DEF Hands, Free, Final
  <2>2. \A q \in ready' : Free(q)' /\ Own(q)'
    BY <1>1, <1>4, <1>5, <2>1 DEF Hands, Own
  <2>3. \A q \in collecting : q \in Results' /\ (MaxFailures = 0 => Collected(GroupAt(q))')
    BY <1>5 DEF Hands, Steady, Grown
  <2>4. \A n \in Rollout : planned'[n] = {} => \A q \in InputsOf(n)' : Serving' /\ Own(q)' => q \in collecting'
    BY <1>1, <1>5, <1>7 DEF Hands, Own, Steady
  <2> QED  BY <1>1, <1>2, <1>7, <2>2, <2>3, <2>4 DEF Hands
<1>10. r \in retired => FALSE
  BY <1>1, <1>2 DEF AtWork
<1>11. reader' \in [Reader -> Place] /\ Managers' /\ AtWork' /\ Answers'
  BY <1>1, <1>2, <1>3, <1>5, <1>10, OneReader DEF p
<1>12. TypeOK'
  BY <1>1, <1>4, <1>11 DEF TypeOK
<1>13. \A q \in Reader : q # r => reader'[q] = reader[q]
  BY <1>3 DEF TypeOK
<1>14. ASSUME NEW q \in Results, Kept(q) PROVE Kept(q)'
  <2> DEFINE w == log[q].worker
  <2>1. w \in Reader /\ log'[q].worker = w
    BY <1>1, ResultIs DEF TypeOK
  <2>2. CASE w # r
    <3>1. reader'[w] = reader[w]
      BY <1>13, <2>1, <2>2
    <3> QED  BY <1>1, <1>7, <1>14, <2>1, <3>1 DEF Kept
  <2>3. CASE w = r
    <3>1. q \in ready'
      BY <1>1, <1>2, <1>14, <2>3 DEF Kept, p
    <3> QED  BY <1>1, <1>2, <3>1 DEF Kept, Serving, Restoring
  <2> QED  BY <2>2, <2>3
<1>15. AllKept'
  BY <1>5, <1>14 DEF AllKept
<1> QED  BY <1>5, <1>6, <1>8, <1>9, <1>11, <1>12, <1>15

-----------------------------------------------------------------------------
(* Steps of a serving manager *)

(* What they leave to the readers.                                            *)
LEMMA Served ==
    ASSUME IInv, Serving, Serving', UNCHANGED <<active, retired, reader, generation, source, toFence, recovered>>,
           DOMAIN tasks' = DOMAIN tasks, Grown, Results' = Results, ready' \subseteq ready,
           \A p \in Results : Free(p)' => Free(p),
           \A p \in Results : Free(p) /\ p \notin ready => Free(p)',
           MaxFailures = 0 => \A p \in ready : Free(p)' => p \in ready'
    PROVE  Managers' /\ AtWork' /\ Answers' /\ Restoration' /\ AllKept'
<1> USE DEF IInv
<1>1. managerAt \notin Restoring \cup {"dead"} /\ managerAt' \notin Restoring \cup {"dead"}
  BY DEF Serving
<1>2. Managers' /\ AtWork'
  BY <1>1 DEF Managers, AtWork
<1>3. Restoration'
  BY <1>1 DEF Restoration, Restoring
<1>4. \A p \in Results : log'[p] = log[p]
  BY ResultIs DEF Grown
<1>5. Answers'
  <2>1. ASSUME NEW q \in Reader, q[1] = generation, reader[q].at = "published"
        PROVE  /\ log'[reader[q].position].worker = q /\ reader[q].position \notin ready'
               /\ \A p : p = reader[q].position => Free(p)'
    <3>1. Free(reader[q].position) /\ log[reader[q].position].worker = q /\ reader[q].position \notin ready
      BY <2>1 DEF Answers
    <3>2. reader[q].position \in Results
      BY <3>1 DEF Free, Final
    <3> QED  BY <1>4, <3>1, <3>2
  <2> QED  BY <2>1 DEF Answers
<1>6. ASSUME MaxFailures = 0, NEW p \in Results, Free(p)' PROVE Kept(p)'
  <2>1. Kept(p) /\ log'[p] = log[p]
    BY <1>4, <1>6 DEF AllKept
  <2> QED  BY <1>1, <1>6, <2>1 DEF Kept, Restoring
<1>7. AllKept'
  BY <1>6 DEF AllKept
<1> QED  BY <1>2, <1>3, <1>5, <1>7

(* What they leave in the hands of the manager.                               *)
LEMMA HandsKeep ==
    ASSUME IInv, Serving, Serving', UNCHANGED <<generation, ready, collecting>>, Steady,
           \A p \in Results : Free(p)' <=> Free(p),
           \A n \in Rollout : planned'[n] = {} => planned[n] = {}
    PROVE  Hands'
<1> USE DEF IInv
<1>1. \A p \in Results : p \in Results' /\ log'[p] = log[p] /\ GroupAt(p)' = GroupAt(p)
  BY ResultIs DEF Steady, Grown
<1>2. \A p \in ready : p \in Results
  BY DEF Hands, Free, Final
<1>3. \A n \in Rollout : \A p \in InputsOf(n) : p \in Results
  BY InputsAre
<1>4. \A p \in ready : Free(p)' /\ Own(p)'
  BY <1>1, <1>2 DEF Hands, Own
<1>5. \A p \in collecting : p \in Results' /\ (MaxFailures = 0 => Collected(GroupAt(p))')
  BY <1>1 DEF Hands, Steady
<1>6. \A n \in Rollout : planned'[n] = {} => \A p \in InputsOf(n)' : Own(p)' => p \in collecting
  BY <1>1, <1>3 DEF Hands, Own, Steady
<1> QED  BY <1>4, <1>5, <1>6 DEF Hands

(* The common part of those that leave the log and the plans alone.           *)
LEMMA ServedStill ==
    ASSUME IInv, Serving, Serving', UNCHANGED <<produced, tasks, planned, log, active, retired, reader, generation, source, ready,
           toFence, recovered>>
    PROVE  /\ Versions' /\ Collections' /\ Managers' /\ AtWork' /\ Answers' /\ Restoration' /\ AllKept'
           /\ Steady /\ Grown /\ Results' = Results /\ \A p \in Results : Free(p)' <=> Free(p)
           /\ collecting' = collecting => Hands'
           /\ UNCHANGED <<cursor, processed>> =>
                 Acknowledged' /\ RetentionSound' /\ \A n \in Rollout : Settled(n) => Settled(n)'
<1> USE DEF IInv
<1>1. /\ Versions' /\ Collections' /\ Steady /\ Grown /\ Results' = Results
      /\ \A p \in Results : Free(p)' <=> Free(p)
      /\ UNCHANGED <<cursor, processed>> =>
                 Acknowledged' /\ RetentionSound' /\ \A p : Processed(p)' <=> Processed(p)
  BY Still
<1>2. Managers' /\ AtWork' /\ Answers' /\ Restoration' /\ AllKept'
  BY <1>1, Served
<1>3. collecting' = collecting => Hands'
  BY <1>1, HandsKeep
<1>4. ASSUME UNCHANGED <<cursor, processed>>, NEW n \in Rollout, Settled(n) PROVE Settled(n)'
  BY <1>1, <1>4, SettledKeeps DEF Steady
<1> QED  BY <1>1, <1>2, <1>3, <1>4

(* Before a new collection every earlier one has its plan.                    *)
LEMMA NoneUnplanned ==
    ASSUME IInv, managerAt \in {"generate", "collect"}, window[rollout] = "absent", NEW n \in Rollout, planned[n] = {}
    PROVE  InputsOf(n) = {}
<1> USE DEF IInv
<1>1. ~Converted(n)
  BY DEF Collections
<1>2. ~(n <= boundary \/ n < rollout)
  BY <1>1 DEF Trained, Settled
<1>3. boundary < rollout /\ rollout \in Rollout
  BY DEF Stages, TypeOK
<1>4. window[n] = "absent"
  <2>1. n = rollout \/ (boundary < rollout /\ rollout < n)
    BY <1>2, <1>3, Types, Constants
  <2> QED  BY <1>3, <2>1 DEF Window, Below, TypeOK
<1>5. Positions("collection", n) = {}
  BY <1>2, <1>4 DEF Window
<1> QED  BY <1>5 DEF InputsOf

(* A rollout starts: its batch is replayed or collected.                      *)
LEMMA GenerateStep == ASSUME IInv, Generate PROVE IInv'
<1> USE DEF IInv
<1>1. /\ managerAt = "generate"
      /\ UNCHANGED <<produced, tasks, planned, log, cursor, processed, active, retired, reader, generation, rollout, ready,
                     toFence, recovered, source, window, boundary, faults>>
  BY DEF Generate, GoTo, controller, journal
<1>2. \/ window[rollout] = "absent" /\ managerAt' = "collect" /\ collecting' = {}
      \/ window[rollout] = "raw" /\ managerAt' = "begin" /\ collecting' = collecting
      \/ window[rollout] = "converted" /\ managerAt' = "train" /\ collecting' = collecting
  BY DEF Generate, GoTo, ClearCollecting, TypeOK
<1>3. Serving /\ Serving' /\ rollout \in Rollout
  BY <1>1, <1>2 DEF Serving, Restoring, TypeOK
<1>4. /\ Versions' /\ Collections' /\ Managers' /\ AtWork' /\ Answers' /\ Restoration' /\ AllKept'
      /\ Steady /\ Grown /\ Results' = Results /\ \A p \in Results : Free(p)' <=> Free(p)
      /\ collecting' = collecting => Hands'
      /\ Acknowledged' /\ RetentionSound' /\ \A n \in Rollout : Settled(n) => Settled(n)'
  BY <1>1, <1>3, ServedStill
<1>5. TypeOK'
  BY <1>1, <1>2 DEF TypeOK, At
<1>6. \A n : Below(n)' <=> Below(n)
  BY <1>1 DEF Below
<1>7. Window'
  BY <1>1, <1>2, <1>4, <1>6 DEF Window, Steady
<1>8. Stages'
  BY <1>1, <1>2, <1>3, <1>4, <1>6 DEF Stages, Window, Steady, Restoring
<1>9. Trained'
  BY <1>1, <1>2, <1>4 DEF Trained
<1>10. window[rollout] = "absent" => \A n \in Rollout : planned[n] = {} => InputsOf(n) = {}
  BY <1>1, NoneUnplanned
<1>11. CASE collecting' # collecting
  <2>1. collecting' = {} /\ window[rollout] = "absent"
    BY <1>2, <1>11
  <2>2. \A p \in ready : p \in Results
    BY DEF Hands, Free, Final
  <2>3. \A p \in ready : Free(p)' /\ Own(p)'
    BY <1>1, <1>4, <2>2 DEF Hands, Own
  <2>4. \A n \in Rollout : planned[n] = {} => InputsOf(n)' = {}
    BY <1>4, <1>10, <2>1 DEF Steady
  <2>5. Hands'
    BY <1>1, <1>3, <2>1, <2>3, <2>4 DEF Hands
  <2> QED  BY <1>4, <1>5, <1>7, <1>8, <1>9, <2>5
<1> QED  BY <1>4, <1>5, <1>7, <1>8, <1>9, <1>11

(* The batch enters the replay window.                                        *)
LEMMA RememberRawStep == ASSUME IInv, RememberRaw PROVE IInv'
<1> USE DEF IInv
<1>1. /\ managerAt = "remember raw" /\ managerAt' = "begin" /\ window' = [window EXCEPT ![rollout] = "raw"]
      /\ source' = generation
      /\ UNCHANGED <<produced, tasks, planned, log, cursor, processed, active, retired, reader, generation, rollout, ready, collecting,
                     toFence, recovered, boundary, faults>>
  BY DEF RememberRaw, GoTo, controller
<1>2. Serving /\ Serving' /\ rollout \in Rollout
  BY <1>1 DEF Serving, Restoring, TypeOK
<1>3. source' = source
  BY <1>1, <1>2 DEF Managers
<1>4. /\ Versions' /\ Collections' /\ Managers' /\ AtWork' /\ Answers' /\ Restoration' /\ AllKept'
      /\ Steady /\ Grown /\ Results' = Results /\ Hands'
      /\ Acknowledged' /\ RetentionSound' /\ \A n \in Rollout : Settled(n) => Settled(n)'
  BY <1>1, <1>2, <1>3, ServedStill
<1>5. window' \in [Rollout -> {"absent", "raw", "converted"}] /\ window'[rollout] = "raw"
      /\ \A n \in Rollout : n # rollout => window'[n] = window[n]
  BY <1>1, <1>2 DEF TypeOK
<1>6. TypeOK'
  BY <1>1, <1>3, <1>5 DEF TypeOK, At
<1>7. boundary < rollout /\ Below(rollout) /\ window[rollout] = "absent" /\ Positions("collection", rollout) # {}
  BY <1>1, <1>2 DEF Stages
<1>8. \A n \in Rollout : Below(n) => Below(n)'
  BY <1>1, <1>5 DEF Below
<1>9. Window'
  <2>1. ASSUME NEW n \in Rollout
        PROVE  /\ window'[n] # "absent" => boundary < n /\ Below(n)' /\ Positions("collection", n) # {}
               /\ window'[n] = "converted" => Converted(n)
    <3>1. CASE n = rollout
      BY <1>5, <1>7, <1>8, <3>1
    <3>2. CASE n # rollout
      BY <1>5, <1>8, <3>2 DEF Window
    <3> QED  BY <3>1, <3>2
  <2>2. ASSUME NEW n \in Rollout, Positions("collection", n) # {} PROVE n <= boundary \/ window'[n] # "absent"
    <3>1. CASE n = rollout
      BY <1>5, <3>1
    <3>2. CASE window[n] = "absent" /\ n # rollout /\ ~(n <= boundary)
      <4>1. Below(n)
        BY <2>2, <3>2 DEF Window
      <4>2. ~(rollout < n)
        BY <1>2, <1>7, <4>1 DEF Below
      <4>3. n < rollout /\ boundary < n
        BY <1>2, <3>2, <4>2, Types, Constants
      <4> QED  BY <1>7, <3>2, <4>3 DEF Below
    <3> QED  BY <1>5, <3>1, <3>2
  <2> QED  BY <1>1, <1>4, <2>1, <2>2 DEF Window, Steady
<1>10. Stages'
  BY <1>1, <1>2, <1>5, <1>7, <1>8 DEF Stages
<1>11. Trained'
  BY <1>1, <1>4 DEF Trained
<1> QED  BY <1>4, <1>6, <1>9, <1>10, <1>11

(* The window remembers that the batch is converted.                          *)
LEMMA RememberConvertedStep == ASSUME IInv, RememberConverted PROVE IInv'
<1> USE DEF IInv
<1>1. /\ managerAt = "remember converted" /\ managerAt' = "train" /\ window' = [window EXCEPT ![rollout] = "converted"]
      /\ UNCHANGED <<produced, tasks, planned, log, cursor, processed, active, retired, reader, generation, rollout, ready, collecting,
                     toFence, recovered, source, boundary, faults>>
  BY DEF RememberConverted, GoTo, controller
<1>2. Serving /\ Serving' /\ rollout \in Rollout
  BY <1>1 DEF Serving, Restoring, TypeOK
<1>4. /\ Versions' /\ Collections' /\ Managers' /\ AtWork' /\ Answers' /\ Restoration' /\ AllKept'
      /\ Steady /\ Grown /\ Results' = Results /\ Hands'
      /\ Acknowledged' /\ RetentionSound' /\ \A n \in Rollout : Settled(n) => Settled(n)'
  BY <1>1, <1>2, ServedStill
<1>5. window' \in [Rollout -> {"absent", "raw", "converted"}] /\ window'[rollout] = "converted"
      /\ \A n \in Rollout : n # rollout => window'[n] = window[n]
  BY <1>1, <1>2 DEF TypeOK
<1>6. TypeOK'
  BY <1>1, <1>5 DEF TypeOK, At
<1>7. boundary < rollout /\ Below(rollout) /\ window[rollout] # "absent" /\ Converted(rollout)
  BY <1>1, <1>2 DEF Stages, Restoring
<1>8. \A n \in Rollout : (window'[n] = "absent" <=> window[n] = "absent") /\ (Below(n)' <=> Below(n))
  BY <1>1, <1>5, <1>7 DEF Below
<1>9. Window'
  <2>1. ASSUME NEW n \in Rollout
        PROVE  /\ window'[n] # "absent" => boundary < n /\ Below(n) /\ Positions("collection", n) # {}
               /\ window'[n] = "converted" => Converted(n)
               /\ Positions("collection", n) # {} => n <= boundary \/ window'[n] # "absent"
    BY <1>1, <1>5, <1>7, <1>8 DEF Window
  <2> QED  BY <1>1, <1>4, <1>8, <2>1 DEF Window, Steady
<1>10. Stages'
  <2>1. \A n : n = rollout => (Converted(n)' <=> Converted(n)) /\ (Below(n)' <=> Below(n))
    BY <1>2, <1>4, <1>8 DEF Steady
  <2> QED  BY <1>1, <1>2, <1>5, <1>7, <2>1 DEF Stages
<1>11. Trained'
  BY <1>1, <1>4 DEF Trained
<1> QED  BY <1>4, <1>6, <1>9, <1>10, <1>11

(* The next rollout.                                                          *)
LEMMA NextRolloutStep == ASSUME IInv, NextRollout PROVE IInv'
<1> USE DEF IInv
<1>1. /\ managerAt = "trained" /\ managerAt' = "generate" /\ rollout < MaxRollouts /\ rollout' = rollout + 1
      /\ UNCHANGED <<produced, tasks, planned, log, cursor, processed, active, retired, reader, generation, ready, collecting,
                     toFence, recovered, source, window, boundary, faults>>
  BY DEF NextRollout, GoTo, controller, journal
<1>2. Serving /\ Serving' /\ rollout \in Rollout /\ rollout' \in Rollout /\ rollout \in Nat /\ boundary \in Nat /\ Rollout \subseteq Nat
  BY <1>1, Types, Constants DEF Serving, Restoring, TypeOK, Rollout
<1>3. /\ Versions' /\ Collections' /\ Managers' /\ AtWork' /\ Answers' /\ Restoration' /\ AllKept'
      /\ Steady /\ Hands' /\ Acknowledged' /\ RetentionSound' /\ \A n \in Rollout : Settled(n) => Settled(n)'
  BY <1>1, <1>2, ServedStill
<1>4. TypeOK'
  BY <1>1, <1>2 DEF TypeOK, At
<1>5. \A n \in Rollout : Below(n)' <=> Below(n)
  BY <1>1 DEF Below
<1>6. Window'
  BY <1>1, <1>3, <1>5 DEF Window, Steady
<1>7. boundary <= rollout /\ Below(rollout) /\ (boundary < rollout => window[rollout] # "absent")
  BY <1>1, <1>2 DEF Stages
<1>8. Stages'
  <2>1. \A m \in Rollout : boundary < m /\ m < rollout' => window[m] # "absent"
    <3>1. \A m \in Rollout : m < rollout' => m < rollout \/ m = rollout
      BY <1>1, <1>2
    <3> QED  BY <1>2, <1>7, <3>1 DEF Below
  <2>2. boundary < rollout'
    BY <1>1, <1>2, <1>7
  <2>3. Below(rollout)'
    BY <1>1, <2>1 DEF Below
  <2> QED  BY <1>1, <1>2, <2>2, <2>3 DEF Stages
<1>9. Trained'
  <2>1. \A n \in Rollout : n < rollout' => n < rollout \/ n = rollout
    BY <1>1, <1>2
  <2>2. Settled(rollout)
    BY <1>1 DEF Trained
  <2>3. \A n \in Rollout : n <= boundary \/ n < rollout' => Settled(n)
    BY <2>1, <2>2 DEF Trained
  <2> QED  BY <1>1, <1>3, <2>3 DEF Trained
<1> QED  BY <1>3, <1>4, <1>6, <1>8, <1>9

(* A joint checkpoint.                                                        *)
LEMMA CheckpointStep == ASSUME IInv, Checkpoint PROVE IInv'
<1> USE DEF IInv
<1>1. /\ managerAt = "trained" /\ boundary < rollout /\ boundary' = rollout
      /\ window' = [n \in Rollout |-> IF n <= rollout THEN "absent" ELSE window[n]]
      /\ UNCHANGED <<produced, tasks, planned, log, cursor, processed, active, retired, reader, generation, managerAt, rollout,
                     ready, collecting, toFence, recovered, source, faults>>
  BY DEF Checkpoint, controller, memory
<1>2. Serving /\ Serving' /\ rollout \in Rollout /\ rollout \in Nat /\ boundary \in Nat /\ Rollout \subseteq Nat
  BY <1>1, Types, Constants DEF Serving, Restoring, TypeOK
<1>3. /\ Versions' /\ Collections' /\ Managers' /\ AtWork' /\ Answers' /\ Restoration' /\ AllKept'
      /\ Steady /\ Hands' /\ Acknowledged' /\ RetentionSound' /\ \A n \in Rollout : Settled(n) => Settled(n)'
  BY <1>1, <1>2, ServedStill
<1>4. TypeOK'
  <2>1. boundary' \in 0..MaxRollouts
    BY <1>1, <1>2 DEF Rollout
  <2>2. window' \in [Rollout -> {"absent", "raw", "converted"}]
    BY <1>1 DEF TypeOK
  <2> QED  BY <1>1, <2>1, <2>2 DEF TypeOK
<1>5. Window'
  <2>1. ASSUME NEW n \in Rollout, window'[n] # "absent"
        PROVE  rollout < n /\ window'[n] = window[n] /\ Below(n)' /\ Positions("collection", n) # {}
    <3>1. rollout < n /\ window'[n] = window[n]
      BY <1>1, <1>2, <2>1
    <3>2. Below(n) /\ Positions("collection", n) # {}
      BY <2>1, <3>1 DEF Window
    <3>3. \A m \in Rollout : rollout < m => boundary < m /\ window'[m] = window[m]
      BY <1>1, <1>2
    <3> QED  BY <1>1, <3>1, <3>2, <3>3 DEF Below
  <2>2. ASSUME NEW n \in Rollout, Positions("collection", n) # {} PROVE n <= rollout \/ window'[n] # "absent"
    <3>1. n <= boundary \/ window[n] # "absent"
      BY <1>1, <2>2 DEF Window
    <3> QED  BY <1>1, <1>2, <3>1
  <2>3. \A n \in Rollout : window'[n] = "converted" => Converted(n)
    BY <2>1 DEF Window
  <2> QED  BY <1>1, <1>3, <2>1, <2>2, <2>3 DEF Window, Steady
<1>6. Stages'
  <2>1. Below(rollout)'
    BY <1>1, <1>2 DEF Below
  <2> QED  BY <1>1, <1>2, <2>1 DEF Stages
<1>7. Trained'
  <2>1. \A n \in Rollout : n <= boundary' => n < rollout \/ n = rollout
    BY <1>1, <1>2
  <2> QED  BY <1>1, <1>2, <1>3, <2>1 DEF Trained
<1> QED  BY <1>3, <1>4, <1>5, <1>6, <1>7

(* The plan of a converted batch is spent.                                    *)
LEMMA PlanSpent ==
    ASSUME TypeOK, Versions, Collections, NEW n \in Rollout, Converted(n)
    PROVE  \A p \in planned[n] : p \in DOMAIN log /\ Spent(p) /\ \A q \in SourcesOf(p) : q \in planned[n]
<1> SUFFICES ASSUME NEW p \in planned[n]
             PROVE  p \in DOMAIN log /\ Spent(p) /\ \A q \in SourcesOf(p) : q \in planned[n]
  OBVIOUS
<1>1. p \in DOMAIN log /\ p \in Plan(n) /\ SourcesOf(p) \subseteq planned[n]
  BY PlannedIs
<1>2. CASE p \in Positions("collection", n)
  <2>1. log[p].kind = "collection" /\ log[p].rollout = n
    BY <1>2 DEF Positions
  <2> QED  BY <1>1, <2>1 DEF Spent
<1>3. CASE p \in Results /\ GroupAt(p) \in GroupsOf(n)
  <2>1. log[p].kind = "group"
    BY <1>3 DEF Results
  <2> QED  BY <1>1, <1>3, <2>1 DEF Spent
<1> QED  BY <1>1, <1>2, <1>3, PlanClosed

(* So is its conversion.                                                      *)
LEMMA BatchSpent ==
    ASSUME TypeOK, Versions, Collections, NEW n \in Rollout
    PROVE  \A p \in Positions("batch", n) : p \in DOMAIN log /\ Spent(p) /\ SourcesOf(p) = planned[n]
<1> SUFFICES ASSUME NEW p \in Positions("batch", n)
             PROVE  p \in DOMAIN log /\ Spent(p) /\ SourcesOf(p) = planned[n]
  OBVIOUS
<1>1. p \in DOMAIN log /\ log[p].kind = "batch" /\ log[p].rollout = n /\ Converted(n)
  BY DEF Positions, Converted
<1> QED  BY <1>1, OtherSources DEF Spent

(* Acknowledging what is spent.                                               *)
LEMMA StillAdvances ==
    ASSUME IInv, UNCHANGED <<produced, tasks, planned, log>>, active \subseteq active', NEW P \in SUBSET DOMAIN log, Advance(P),
           \A p \in P : Spent(p) /\ \A q \in SourcesOf(p) : Spent(q)
    PROVE  /\ Acknowledged' /\ RetentionSound' /\ cursor' \in 0..Len(log) /\ processed' \subseteq 1..Len(log)
           /\ \A p \in DOMAIN log : Processed(p) => Processed(p)'
           /\ \A p \in P : Processed(p)' /\ \A q \in SourcesOf(p) : Processed(q)'
           /\ \A n \in Rollout : Settled(n) => Settled(n)'
<1> USE DEF IInv
<1>1. /\ Steady /\ Grown /\ Results' = Results /\ \A g : Dropped(g)' <=> Dropped(g)
  BY Still
<1>2. \A n \in Rollout : GroupsOf(n) \subseteq GroupsOf(n)' /\ (Converted(n) => Converted(n)')
  BY <1>1 DEF Steady
<1>3. \A p \in P : p \in DOMAIN log /\ \A q \in SourcesOf(p) : q \in DOMAIN log
  BY AllSources
<1>4. \A p \in DOMAIN log : Spent(p) => Spent(p)'
  BY <1>1, <1>2, SpentKeeps
<1>5. \A p \in P : Spent(p)' /\ \A q \in SourcesOf(p) : Spent(q)'
  BY <1>3, <1>4
<1>6. \A p \in Results : Dropped(GroupAt(p))' => Dropped(GroupAt(p)) \/ p \in P
  BY <1>1 DEF Grown
<1>7. /\ Acknowledged' /\ RetentionSound' /\ cursor' \in 0..Len(log) /\ processed' \subseteq 1..Len(log)
      /\ \A p \in DOMAIN log : Processed(p) => Processed(p)'
      /\ \A p \in P : Processed(p)' /\ \A q \in SourcesOf(p) : Processed(q)'
  BY <1>1, <1>2, <1>5, <1>6, AcknowledgedGrows
<1>8. ASSUME NEW n \in Rollout, Settled(n) PROVE Settled(n)'
  BY <1>1, <1>7, <1>8, SettledKeeps DEF Steady
<1> QED  BY <1>7, <1>8

(* The inputs of the conversion are acknowledged.                             *)
LEMMA InputsAdvance ==
    ASSUME IInv, managerAt = "advance", UNCHANGED <<produced, tasks, planned, log>>, active \subseteq active',
           Advance(planned[rollout])
    PROVE  /\ Acknowledged' /\ RetentionSound' /\ cursor' \in 0..Len(log) /\ processed' \subseteq 1..Len(log)
           /\ \A n \in Rollout : Settled(n) => Settled(n)'
<1> USE DEF IInv
<1> DEFINE P == planned[rollout]
<1>1. Converted(rollout) /\ rollout \in Rollout
  BY DEF Stages, TypeOK
<1>2. P \in SUBSET DOMAIN log /\ \A p \in P : Spent(p) /\ \A q \in SourcesOf(p) : Spent(q)
  BY <1>1, PlanSpent
<1>3. Advance(P)
  OBVIOUS
<1> HIDE DEF P
<1> QED  BY <1>2, <1>3, StillAdvances

(* The cursor advances over the inputs of a converted batch.                 *)
LEMMA AdvanceInputsStep == ASSUME IInv, AdvanceInputs PROVE IInv'
<1> USE DEF IInv
<1>1. /\ managerAt = "advance" /\ managerAt' = "remember converted" /\ Advance(planned[rollout])
      /\ UNCHANGED <<produced, tasks, planned, log, active, retired, reader, generation, rollout, ready, collecting,
                     toFence, recovered, source, window, boundary, faults>>
  BY DEF AdvanceInputs, GoTo, journal
<1>2. Serving /\ Serving' /\ rollout \in Rollout
  BY <1>1 DEF Serving, Restoring, TypeOK
<1>3. /\ Versions' /\ Collections' /\ Managers' /\ AtWork' /\ Answers' /\ Restoration' /\ AllKept'
      /\ Steady /\ Hands'
  BY <1>1, <1>2, ServedStill
<1>4. /\ Acknowledged' /\ RetentionSound' /\ cursor' \in 0..Len(log) /\ processed' \subseteq 1..Len(log)
      /\ \A n \in Rollout : Settled(n) => Settled(n)'
  BY <1>1, InputsAdvance
<1>5. TypeOK'
  BY <1>1, <1>4 DEF TypeOK, At
<1>6. \A n : Below(n)' <=> Below(n)
  BY <1>1 DEF Below
<1>7. Window'
  BY <1>1, <1>3, <1>6 DEF Window, Steady
<1>8. Stages'
  BY <1>1, <1>2, <1>3, <1>6 DEF Stages, Steady
<1>9. Trained'
  BY <1>1, <1>4 DEF Trained
<1> QED  BY <1>3, <1>4, <1>5, <1>7, <1>8, <1>9

(* The batch is trained on.                                                   *)
LEMMA FinishBatchStep == ASSUME IInv, FinishBatch PROVE IInv'
<1> USE DEF IInv
<1> DEFINE P == Positions("batch", rollout)
<1>1. /\ managerAt = "train" /\ managerAt' = "trained" /\ Advance(P)
      /\ UNCHANGED <<produced, tasks, planned, log, active, retired, reader, generation, rollout, ready, collecting,
                     toFence, recovered, source, window, boundary, faults>>
  BY DEF FinishBatch, GoTo, journal
<1>2. Serving /\ Serving' /\ rollout \in Rollout
  BY <1>1 DEF Serving, Restoring, TypeOK
<1>3. /\ Versions' /\ Collections' /\ Managers' /\ AtWork' /\ Answers' /\ Restoration' /\ AllKept'
      /\ Steady /\ Hands'
  BY <1>1, <1>2, ServedStill
<1>4. Converted(rollout) /\ window[rollout] # "absent"
  BY <1>1 DEF Stages
<1>5. /\ P \in SUBSET DOMAIN log /\ \A p \in P : Spent(p) /\ SourcesOf(p) = planned[rollout]
      /\ \A p \in P : \A q \in SourcesOf(p) : Spent(q)
  BY <1>2, <1>4, BatchSpent, PlanSpent
<1>6. P # {}
  BY <1>4 DEF Converted
<1> HIDE DEF P
<1>7. /\ Acknowledged' /\ RetentionSound' /\ cursor' \in 0..Len(log) /\ processed' \subseteq 1..Len(log)
      /\ \A p \in P : Processed(p)' /\ \A q \in SourcesOf(p) : Processed(q)'
      /\ \A n \in Rollout : Settled(n) => Settled(n)'
  BY <1>1, <1>5, StillAdvances
<1>8. TypeOK'
  BY <1>1, <1>7 DEF TypeOK, At
<1>9. \A n : Below(n)' <=> Below(n)
  BY <1>1 DEF Below
<1>10. Window'
  BY <1>1, <1>3, <1>9 DEF Window, Steady
<1>11. Stages'
  BY <1>1, <1>2, <1>3, <1>9 DEF Stages, Steady
<1>12. ASSUME NEW n \in Rollout, n = rollout PROVE Settled(n)'
  <2>1. \A p \in planned[n] \cup Positions("batch", n) : Processed(p)'
    BY <1>5, <1>6, <1>7, <1>12 DEF P
  <2>2. Converted(n) /\ Positions("collection", n) # {}
    BY <1>4, <1>12 DEF Window
  <2> QED  BY <1>1, <1>3, <2>1, <2>2 DEF Settled, Steady
<1>13. Trained'
  BY <1>1, <1>2, <1>7, <1>12 DEF Trained
<1> QED  BY <1>3, <1>7, <1>8, <1>10, <1>11, <1>13

(* A batch is collected.                                                      *)
LEMMA AcceptCollectionStep == ASSUME IInv, AcceptCollection PROVE IInv'
<1> USE DEF IInv
<1>1. PICK S \in kSubset(Batch, ready) :
        /\ log' = Append(log, [kind |-> "collection", task |-> 0, worker |-> NoReader,
                               rollout |-> rollout, inputs |-> S])
        /\ ready' = ready \ S /\ collecting' = S
  BY DEF AcceptCollection
<1>2. /\ managerAt = "collect" /\ managerAt' = "remember raw" /\ Positions("collection", rollout) = {}
      /\ UNCHANGED <<produced, tasks, planned, cursor, processed, active, retired, reader, generation, rollout,
                     toFence, recovered, source, window, boundary, faults>>
  BY DEF AcceptCollection, journal
<1>3. S \subseteq ready
  BY DEF kSubset
<1>4. Serving /\ Serving' /\ rollout \in Rollout
  BY <1>2 DEF Serving, Restoring, TypeOK
<1>5. S \in SUBSET Nat /\ \A p \in S : Free(p)
  BY <1>3 DEF Hands, TypeOK
<1>6. /\ Versions' /\ Collections' /\ Grown /\ Results' = Results
      /\ log' \in Seq(Entry) /\ Len(log') = Len(log) + 1 /\ DOMAIN log' = DOMAIN log \cup {Len(log) + 1}
      /\ SamePositions("batch") /\ planned[rollout] = {}
      /\ \A n : Positions("collection", n)' = IF n = rollout THEN {Len(log) + 1} ELSE Positions("collection", n)
      /\ \A n \in Rollout : InputsOf(n)' = IF n = rollout THEN S ELSE InputsOf(n)
      /\ \A n \in Rollout : GroupsOf(n)' = IF n = rollout THEN {GroupAt(p) : p \in S} ELSE GroupsOf(n)
      /\ \A p \in Results : Free(p)' <=> Free(p) /\ p \notin S
      /\ \A g : Dropped(g)' <=> Dropped(g)
  BY <1>1, <1>2, <1>5, CollectionAppended
<1>7. Managers' /\ AtWork' /\ Answers' /\ Restoration' /\ AllKept'
  <2>1. \A p \in ready : p \in Results
    BY DEF Hands, Free, Final
  <2>2. ready' \subseteq ready /\ \A p \in ready : Free(p)' => p \in ready'
    BY <1>1, <1>6, <2>1
  <2>3. \A p \in Results : (Free(p)' => Free(p)) /\ (Free(p) /\ p \notin ready => Free(p)')
    BY <1>3, <1>6
  <2> QED  BY <1>2, <1>4, <1>6, <2>2, <2>3, Served
<1>8. \A n \in Rollout : Converted(n)' <=> Converted(n)
  BY <1>6 DEF Converted, SamePositions
<1>9. \A n \in Rollout : GroupsOf(n) \subseteq GroupsOf(n)'
  <2>1. GroupsOf(rollout) = {}
    BY <1>2 DEF GroupsOf, InputsOf
  <2> QED  BY <1>6, <2>1
<1>10. Acknowledged' /\ RetentionSound' /\ \A p : Processed(p)' <=> Processed(p)
  <2>1. \A p \in Results' : Dropped(GroupAt(p))' => p \in Results /\ Dropped(GroupAt(p))
    BY <1>6 DEF Grown
  <2> QED  BY <2>1, <1>2, <1>6, <1>8, <1>9, AcknowledgedKeeps
<1>11. TypeOK'
  <2>1. cursor \in 0..Len(log') /\ processed \subseteq 1..Len(log')
    BY <1>6, Types DEF TypeOK
  <2>2. ready' \subseteq Nat /\ collecting' \subseteq Nat
    BY <1>1, <1>5 DEF TypeOK
  <2> QED  BY <1>2, <1>6, <2>1, <2>2 DEF TypeOK, At
<1>12. Hands'
  <2>1. \A p \in ready : p \in Results
    BY DEF Hands, Free, Final
  <2>2. \A p \in Results : log'[p] = log[p] /\ GroupAt(p)' = GroupAt(p)
    BY <1>6, ResultIs DEF Grown
  <2>3. \A p \in ready' : Free(p)' /\ Own(p)'
    BY <1>1, <1>2, <1>6, <2>1, <2>2 DEF Hands, Own
  <2>4. \A p \in collecting' : p \in Results' /\ Collected(GroupAt(p))'
    <3>1. ASSUME NEW p \in S PROVE p \in Results /\ GroupAt(p) \in GroupsOf(rollout)'
      <4>1. \A n : n = rollout => GroupsOf(n)' = {GroupAt(q) : q \in S}
        BY <1>4, <1>6
      <4>2. GroupsOf(rollout)' = {GroupAt(q) : q \in S}
        BY <1>2, <4>1 DEF GroupsOf, GroupAt, InputsOf, Positions
      <4> QED  BY <1>3, <2>1, <4>2
    <3> QED  BY <1>1, <1>2, <1>4, <1>6, <2>2, <3>1 DEF Collected
  <2>5. ASSUME NEW n \in Rollout, planned'[n] = {}, NEW p \in InputsOf(n)' PROVE p \in collecting'
    <3>1. n # rollout => InputsOf(n) = {}
      BY <1>2, <2>5, NoneUnplanned DEF Stages
    <3> QED  BY <1>1, <1>6, <2>5, <3>1
  <2> QED  BY <1>4, <2>3, <2>4, <2>5 DEF Hands
<1>13. \A n : Below(n)' <=> Below(n)
  BY <1>2 DEF Below
<1>14. boundary < rollout /\ Below(rollout) /\ window[rollout] = "absent"
  BY <1>2, <1>4 DEF Stages
<1>15. Window'
  <2>1. ASSUME NEW n \in Rollout
        PROVE  /\ window[n] # "absent" => Positions("collection", n)' # {}
               /\ Positions("collection", n)' # {} => n <= boundary \/ window[n] # "absent" \/ Below(n)
    BY <1>2, <1>6, <1>14 DEF Window
  <2> QED  BY <1>2, <1>8, <1>13, <2>1 DEF Window
<1>16. Stages'
  <2>1. \A n : n = rollout => Positions("collection", n)' # {} /\ Below(n)'
    BY <1>6, <1>13, <1>14
  <2>2. Positions("collection", rollout)' # {} /\ Below(rollout)'
    BY <1>2, <2>1 DEF Positions, Below
  <2> QED  BY <1>2, <1>14, <2>2 DEF Stages
<1>17. Trained'
  <2>1. ASSUME NEW n \in Rollout, Settled(n) PROVE Settled(n)'
    <3>1. n # rollout
      BY <1>2, <2>1 DEF Settled
    <3> QED  BY <1>2, <1>6, <1>10, <2>1, <3>1, SettledKeeps DEF SamePositions
  <2> QED  BY <1>2, <2>1 DEF Trained
<1> QED  BY <1>6, <1>7, <1>10, <1>11, <1>12, <1>15, <1>16, <1>17

(* The batch gets its plan.                                                   *)
LEMMA PlanBatchStep == ASSUME IInv, PlanBatch PROVE IInv'
<1> USE DEF IInv
<1>1. /\ managerAt = "begin" /\ managerAt' = IF Positions("batch", rollout) = {} THEN "convert" ELSE "train"
      /\ planned' = [planned EXCEPT ![rollout] = IF @ = {} THEN Plan(rollout) ELSE @]
      /\ UNCHANGED <<produced, tasks, log, cursor, processed, active, retired, reader, generation, rollout, ready, collecting,
                     toFence, recovered, source, window, boundary, faults>>
  BY DEF PlanBatch, GoTo, journal
<1>2. Serving /\ Serving' /\ rollout \in Rollout /\ managerAt' \in {"convert", "train"}
  BY <1>1 DEF Serving, Restoring, TypeOK
<1>3. /\ Versions' /\ Collections' /\ Grown /\ Results' = Results
      /\ SamePositions("collection") /\ SamePositions("batch")
      /\ \A p \in Results : Free(p)' <=> Free(p)
      /\ \A g : Dropped(g)' <=> Dropped(g)
      /\ planned' \in [Rollout -> SUBSET Nat]
      /\ \A n \in Rollout : n # rollout \/ planned[n] # {} => planned'[n] = planned[n]
      /\ planned'[rollout] = Plan(rollout)
  BY <1>1, PlanMade
<1>4. Steady
  BY <1>3, SteadyStep
<1>5. Managers' /\ AtWork' /\ Answers' /\ Restoration' /\ AllKept'
  BY <1>1, <1>2, <1>3, Served
<1>6. boundary < rollout /\ Below(rollout) /\ window[rollout] # "absent" /\ Positions("collection", rollout) # {}
  BY <1>1, <1>2 DEF Stages, Window
<1>7. planned'[rollout] # {}
  BY <1>3, <1>6 DEF Plan
<1>8. Hands'
  BY <1>1, <1>2, <1>3, <1>4, <1>7, HandsKeep
<1>9. Acknowledged' /\ RetentionSound' /\ \A p : Processed(p)' <=> Processed(p)
  <2>1. \A p \in Results' : Dropped(GroupAt(p))' => p \in Results /\ Dropped(GroupAt(p))
    BY <1>3 DEF Grown
  <2> QED  BY <2>1, <1>1, <1>3, <1>4, AcknowledgedKeeps DEF Steady, TypeOK
<1>10. TypeOK'
  BY <1>1, <1>2, <1>3 DEF TypeOK, At
<1>11. \A n : Below(n)' <=> Below(n)
  BY <1>1 DEF Below
<1>12. Window'
  BY <1>1, <1>4, <1>11 DEF Window, Steady
<1>13. Stages'
  <2>1. managerAt' = "train" => Converted(rollout)
    BY <1>1, <1>2 DEF Converted
  <2>2. \A n : n = rollout => (Converted(n)' <=> Converted(n)) /\ (Below(n)' <=> Below(n))
    BY <1>2, <1>4, <1>11 DEF Steady
  <2>3. Converted(rollout)' <=> Converted(rollout)
    BY <1>1 DEF Converted, Positions
  <2>4. Below(rollout)'
    BY <1>1, <1>6 DEF Below
  <2> QED  BY <1>1, <1>2, <1>6, <1>7, <2>1, <2>3, <2>4 DEF Stages
<1>14. Trained'
  <2>1. ASSUME NEW n \in Rollout, Settled(n) PROVE Settled(n)'
    <3>1. planned[n] # {}
      BY <2>1 DEF Settled, Collections
    <3> QED  BY <1>3, <1>4, <1>9, <2>1, <3>1, SettledKeeps DEF Steady
  <2> QED  BY <1>1, <1>2, <2>1 DEF Trained
<1> QED  BY <1>3, <1>5, <1>8, <1>9, <1>10, <1>12, <1>13, <1>14

(* The conversion is accepted.                                                *)
LEMMA AcceptBatchStep == ASSUME IInv, AcceptBatch PROVE IInv'
<1> USE DEF IInv
<1>1. /\ managerAt = "convert" /\ managerAt' = "advance" /\ Positions("batch", rollout) = {}
      /\ log' = Append(log, [kind |-> "batch", task |-> 0, worker |-> NoReader, rollout |-> rollout, inputs |-> {}])
      /\ UNCHANGED <<produced, tasks, planned, cursor, processed, active, retired, reader, generation, rollout, ready, collecting,
                     toFence, recovered, source, window, boundary, faults>>
  BY DEF AcceptBatch, GoTo, journal
<1>2. Serving /\ Serving' /\ rollout \in Rollout
  BY <1>1 DEF Serving, Restoring, TypeOK
<1>3. boundary < rollout /\ Below(rollout) /\ window[rollout] # "absent" /\ planned[rollout] # {}
  BY <1>1, <1>2 DEF Stages
<1>4. /\ Versions' /\ Collections' /\ Grown /\ Results' = Results
      /\ log' \in Seq(Entry) /\ Len(log') = Len(log) + 1 /\ DOMAIN log' = DOMAIN log \cup {Len(log) + 1}
      /\ SamePositions("collection")
      /\ \A n : Positions("batch", n)' = IF n = rollout THEN Positions("batch", n) \cup {Len(log) + 1}
                                         ELSE Positions("batch", n)
      /\ \A p \in Results : Free(p)' <=> Free(p)
      /\ \A g : Dropped(g)' <=> Dropped(g)
  BY <1>1, <1>3, BatchAppended
<1>5. Managers' /\ AtWork' /\ Answers' /\ Restoration' /\ AllKept'
  BY <1>1, <1>2, <1>4, Served
<1>6. \A n \in Rollout : InputsOf(n)' = InputsOf(n) /\ GroupsOf(n)' = GroupsOf(n)
  BY <1>4, CollectionsKeep
<1>7. \A g : Collected(g)' <=> Collected(g)
  BY <1>4, CollectionsKeep
<1>8. \A n \in Rollout : Converted(n)' <=> Converted(n) \/ n = rollout
  BY <1>4 DEF Converted
<1>9. Acknowledged' /\ RetentionSound' /\ \A p : Processed(p)' <=> Processed(p)
  <2>1. \A p \in Results' : Dropped(GroupAt(p))' => p \in Results /\ Dropped(GroupAt(p))
    BY <1>4 DEF Grown
  <2> QED  BY <2>1, <1>1, <1>4, <1>6, <1>8, AcknowledgedKeeps
<1>10. TypeOK'
  <2>1. cursor \in 0..Len(log') /\ processed \subseteq 1..Len(log')
    BY <1>4, Types DEF TypeOK
  <2> QED  BY <1>1, <1>4, <2>1 DEF TypeOK, At
<1>11. Hands'
  <2>1. \A p \in ready : p \in Results
    BY DEF Hands, Free, Final
  <2>2. \A p \in Results : log'[p] = log[p] /\ GroupAt(p)' = GroupAt(p)
    BY <1>4, ResultIs DEF Grown
  <2>3. \A p \in ready : Free(p)' /\ Own(p)'
    BY <1>1, <1>4, <2>1, <2>2 DEF Hands, Own
  <2>4. \A p \in collecting : p \in Results' /\ (MaxFailures = 0 => Collected(GroupAt(p))')
    BY <1>4, <1>7, <2>2 DEF Hands
  <2>5. \A n \in Rollout : \A p \in InputsOf(n) : p \in Results
    BY InputsAre
  <2>6. \A n \in Rollout : planned[n] = {} => \A p \in InputsOf(n)' : Own(p)' => p \in collecting
    BY <1>1, <1>2, <1>6, <2>2, <2>5 DEF Hands, Own
  <2> QED  BY <1>1, <1>2, <2>3, <2>4, <2>6 DEF Hands
<1>12. \A n : Below(n)' <=> Below(n)
  BY <1>1 DEF Below
<1>13. Window'
  BY <1>1, <1>4, <1>8, <1>12 DEF Window, SamePositions
<1>14. Stages'
  <2>1. \A n : n = rollout => Converted(n)'
    BY <1>2, <1>8
  <2>2. Converted(rollout)' /\ Below(rollout)'
    <3>1. Below(rollout)'
      BY <1>1, <1>3 DEF Below
    <3> QED  BY <1>1, <2>1, <3>1 DEF Converted, Positions
  <2> QED  BY <1>1, <1>2, <1>3, <2>2 DEF Stages
<1>15. Trained'
  <2>1. ASSUME NEW n \in Rollout, Settled(n) PROVE Settled(n)'
    <3>1. n # rollout
      BY <1>1, <2>1 DEF Settled, Converted
    <3> QED  BY <1>1, <1>4, <1>9, <2>1, <3>1, SettledKeeps DEF SamePositions
  <2> QED  BY <1>1, <2>1 DEF Trained
<1> QED  BY <1>4, <1>5, <1>9, <1>10, <1>11, <1>13, <1>14, <1>15

-----------------------------------------------------------------------------
(* An attempt that fails, and readers that are retired *)

(* A call under way is carried through.                                       *)
LEMMA CallCarried ==
    ASSUME IInv, CallEnds, UNCHANGED <<produced, tasks, planned, log>>, active' = active
    PROVE  /\ Acknowledged' /\ RetentionSound' /\ cursor' \in 0..Len(log) /\ processed' \subseteq 1..Len(log)
           /\ \A n \in Rollout : Settled(n) => Settled(n)'
<1> USE DEF IInv
<1>1. CASE managerAt = "advance"
  <2>1. Advance(planned[rollout])
    BY <1>1 DEF CallEnds
  <2> QED  BY <1>1, <2>1, InputsAdvance
<1>2. CASE managerAt # "advance"
  <2>1. UNCHANGED <<cursor, processed>>
    BY <1>2 DEF CallEnds
  <2>2. /\ Acknowledged' /\ RetentionSound' /\ Steady /\ Grown /\ \A p : Processed(p)' <=> Processed(p)
    BY <2>1, Still
  <2>3. ASSUME NEW n \in Rollout, Settled(n) PROVE Settled(n)'
    BY <2>2, <2>3, SettledKeeps DEF Steady
  <2> QED  BY <2>1, <2>2, <2>3 DEF TypeOK
<1> QED  BY <1>1, <1>2

(* An attempt fails and its manager survives.                                 *)
LEMMA DetachStep == ASSUME IInv, Detach PROVE IInv'
<1> USE DEF IInv
<1>1. /\ managerAt \notin Restoring \cup {"dead"} /\ managerAt' = "detached" /\ CallEnds
      /\ Suffer("restart", MaxRestarts) /\ "restart" \in Fault
      /\ UNCHANGED <<produced, tasks, planned, log, active, retired, reader, generation, rollout, ready, collecting,
                     toFence, recovered, source, window, boundary>>
  BY DEF Detach, GoTo, journal, Fault
<1>2. Serving /\ Serving'
  BY <1>1 DEF Serving, Restoring
<1>3. /\ Versions' /\ Collections' /\ Managers' /\ AtWork' /\ Answers' /\ Restoration' /\ AllKept'
      /\ Steady /\ Hands'
  BY <1>1, <1>2, ServedStill
<1>4. /\ Acknowledged' /\ RetentionSound' /\ cursor' \in 0..Len(log) /\ processed' \subseteq 1..Len(log)
      /\ \A n \in Rollout : Settled(n) => Settled(n)'
  BY <1>1, CallCarried
<1>5. faults' \in [Fault -> Nat]
  BY <1>1, FaultsCounted
<1>6. TypeOK'
  BY <1>1, <1>4, <1>5 DEF TypeOK, At
<1>7. \A n : Below(n)' <=> Below(n)
  BY <1>1 DEF Below
<1>8. Window'
  <2>1. \A n \in Rollout : Positions("collection", n) # {} => n <= boundary \/ window[n] # "absent" \/ Below(n)
    BY DEF Window
  <2>2. \A n \in Rollout : /\ window[n] # "absent" => boundary < n /\ Below(n) /\ Positions("collection", n) # {}
                           /\ window[n] = "converted" => Converted(n)
    BY DEF Window
  <2> QED  BY <1>1, <1>3, <1>7, <2>1, <2>2 DEF Window, Steady
<1>9. Stages'
  BY <1>1 DEF Stages
<1>10. Trained'
  BY <1>1, <1>4 DEF Trained
<1> QED  BY <1>3, <1>4, <1>6, <1>8, <1>9, <1>10

(* A collection fails before the queue accepts it.                            *)
LEMMA CollectionFailsStep == ASSUME IInv, CollectionFails PROVE IInv'
<1> USE DEF IInv
<1>1. PICK S \in kSubset(Batch, ready) : ready' = ready \ S /\ collecting' = S
  BY DEF CollectionFails
<1>2. /\ managerAt = "collect" /\ managerAt' = "detached"
      /\ Suffer("failure", MaxFailures) /\ "failure" \in Fault
      /\ UNCHANGED <<produced, tasks, planned, log, cursor, processed, active, retired, reader, generation, rollout,
                     toFence, recovered, source, window, boundary>>
  BY DEF CollectionFails, controller, journal, Fault
<1>3. S \subseteq ready
  BY DEF kSubset
<1>4. Serving /\ Serving'
  BY <1>2 DEF Serving, Restoring
<1>5. MaxFailures # 0 /\ faults' \in [Fault -> Nat]
  <2>1. faults["failure"] \in Nat /\ faults["failure"] < MaxFailures
    BY <1>2 DEF TypeOK, Suffer
  <2>2. MaxFailures # 0
    BY <2>1
  <2> QED  BY <1>2, <2>2, FaultsCounted
<1>6. /\ Versions' /\ Collections' /\ Steady /\ Grown /\ Results' = Results /\ \A p \in Results : Free(p)' <=> Free(p)
      /\ Acknowledged' /\ RetentionSound' /\ \A p : Processed(p)' <=> Processed(p)
  BY <1>2, Still
<1>7. Managers' /\ AtWork' /\ Answers' /\ Restoration' /\ AllKept'
  <2>1. ready' \subseteq ready
    BY <1>1
  <2> QED  BY <1>2, <1>4, <1>5, <1>6, <2>1, Served
<1>8. \A p \in ready : p \in Results /\ p \in Nat
  BY DEF Hands, Free, Final, TypeOK
<1>9. TypeOK'
  <2>1. ready' \subseteq Nat /\ collecting' \subseteq Nat
    BY <1>1, <1>3, <1>8
  <2> QED  BY <1>2, <1>5, <2>1 DEF TypeOK, At
<1>10. Hands'
  <2>1. \A p \in Results : log'[p] = log[p]
    BY <1>2
  <2>2. \A p \in ready' : Free(p)' /\ Own(p)'
    BY <1>1, <1>2, <1>6, <1>8, <2>1 DEF Hands, Own
  <2>3. \A p \in collecting' : p \in Results'
    BY <1>1, <1>3, <1>6, <1>8
  <2>4. \A n \in Rollout : planned[n] = {} => InputsOf(n)' = {}
    BY <1>2, <1>6, NoneUnplanned DEF Steady, Stages
  <2> QED  BY <1>2, <1>4, <1>5, <2>2, <2>3, <2>4 DEF Hands
<1>11. \A n : Below(n)' <=> Below(n)
  BY <1>2 DEF Below
<1>12. Window'
  BY <1>2, <1>6, <1>11 DEF Window, Steady
<1>13. Stages'
  BY <1>2 DEF Stages
<1>14. ASSUME NEW n \in Rollout, Settled(n) PROVE Settled(n)'
  BY <1>2, <1>6, <1>14, SettledKeeps DEF Steady
<1>15. Trained'
  BY <1>2, <1>14 DEF Trained
<1> QED  BY <1>6, <1>7, <1>9, <1>10, <1>12, <1>13, <1>15

(* The group of a newest version that is complete was not rejected.           *)
LEMMA NotDropped ==
    ASSUME TypeOK, Versions, NEW p, Final(p)
    PROVE  ~Dropped(GroupAt(p))
<1>1. p \in Results /\ Newest(log[p].task)
  BY DEF Final
<1>2. log[p].task \in DOMAIN tasks /\ tasks[log[p].task].state = "completed"
  BY <1>1, ResultIs
<1>3. ASSUME NEW t \in DOMAIN tasks, tasks[t].group = GroupAt(p), tasks[t].state = "failed" PROVE FALSE
  <2>1. Newest(t)
    BY <1>3 DEF Versions
  <2>2. t <= log[p].task /\ log[p].task <= t
    BY <1>1, <1>2, <1>3, <2>1 DEF Newest, GroupAt
  <2>3. t = log[p].task
    BY <1>2, <2>2, Types
  <2> QED  BY <1>2, <1>3, <2>3
<1> QED  BY <1>3 DEF Dropped, InState, TasksOf

(* What may be recovered is the newest version of its group, in no plan.      *)
LEMMA RecoverableIs ==
    ASSUME TypeOK, Versions, Collections, NEW r, NEW D, NEW p \in Recoverable(r, D)
    PROVE  /\ p \in Results /\ p \in Nat /\ log[p].worker = r /\ p \notin D /\ Final(p)
           /\ \A n \in Rollout : planned[n] # {} => p \notin InputsOf(n)
<1>1. p \in Results /\ log[p].worker = r /\ p \notin D /\ p \notin Superseded
  BY DEF Recoverable, Results
<1>2. \A t \in DOMAIN tasks : p \notin tasks[t].sources
  BY <1>1 DEF Superseded
<1>3. \A n \in Rollout : p \notin planned[n]
  BY <1>1 DEF Superseded
<1>4. \A n \in Rollout : planned[n] # {} => p \notin InputsOf(n)
  BY <1>3 DEF Collections, Plan
<1> QED  BY <1>1, <1>2, <1>4, FinalIs, ResultIs

(* What no batch holds may be recovered.                                      *)
LEMMA FreeRecoverable ==
    ASSUME TypeOK, Versions, Collections, RetentionSound, NEW r, NEW D, NEW p \in Results, Free(p), log[p].worker = r, p \notin D
    PROVE  p \in Recoverable(r, D)
<1>1. Final(p) /\ ~Collected(GroupAt(p)) /\ log[p].kind = "group" /\ p \in DOMAIN log
  BY DEF Free, Results
<1>2. ~Processed(p)
  <2>1. ~Dropped(GroupAt(p))
    BY <1>1, NotDropped
  <2> QED  BY <1>1, <2>1 DEF RetentionSound, Collected
<1>3. \A t \in DOMAIN tasks : p \notin tasks[t].sources
  BY <1>1, FinalIs
<1>4. ASSUME NEW n \in Rollout, p \in planned[n] PROVE FALSE
  <2>1. p \in Plan(n)
    BY <1>4, PlannedIs
  <2>2. GroupAt(p) \in GroupsOf(n)
    BY <1>1, <2>1, PlanClosed DEF Positions
  <2> QED  BY <1>1, <2>2 DEF Collected
<1>5. p \notin Superseded
  BY <1>3, <1>4 DEF Superseded
<1> QED  BY <1>1, <1>2, <1>5 DEF Recoverable

(* The leases of a fenced reader end.                                         *)
LEMMA Fenced ==
    ASSUME IInv, NEW r \in Reader, Fence(r), UNCHANGED <<produced, planned, log, active, cursor, processed>>
    PROVE  /\ Versions' /\ Collections' /\ Steady /\ Grown /\ Results' = Results /\ Acknowledged' /\ RetentionSound'
           /\ \A p : Processed(p)' <=> Processed(p)
           /\ \A p \in Results : Free(p)' <=> Free(p)
           /\ tasks' \in Seq(Task) /\ DOMAIN tasks' = DOMAIN tasks /\ retired' = retired \cup {r} /\ retired' \subseteq Reader
<1> USE DEF IInv
<1>1. tasks' = [t \in DOMAIN tasks |->
           IF tasks[t].state = "leased" /\ tasks[t].worker = r
           THEN [tasks[t] EXCEPT !.state = "pending"] ELSE tasks[t]]
      /\ retired' = retired \cup {r}
  BY DEF Fence
<1>2. ASSUME NEW t \in DOMAIN tasks
      PROVE  /\ tasks'[t] \in Task /\ tasks'[t].group = tasks[t].group /\ tasks'[t].sources = tasks[t].sources
             /\ tasks'[t].state = "completed" <=> tasks[t].state = "completed"
             /\ tasks'[t].state = "failed" <=> tasks[t].state = "failed"
  <2>1. tasks[t] \in Task
    BY Types
  <2>2. CASE tasks[t].state = "leased" /\ tasks[t].worker = r
    <3>1. tasks'[t] = [tasks[t] EXCEPT !.state = "pending"]
      BY <1>1, <2>2
    <3> QED  BY <2>1, <2>2, <3>1 DEF Task
  <2>3. CASE ~(tasks[t].state = "leased" /\ tasks[t].worker = r)
    <3>1. tasks'[t] = tasks[t]
      BY <1>1, <2>3
    <3> QED  BY <2>1, <3>1
  <2> QED  BY <2>2, <2>3
<1>3. DOMAIN tasks' = 1..Len(tasks) /\ Len(tasks) \in Nat
  BY <1>1, Types
<1>4. tasks' \in Seq(Task) /\ DOMAIN tasks' = DOMAIN tasks
  <2>1. tasks' \in [1..Len(tasks) -> Task]
    BY <1>1, <1>2, <1>3, Types
  <2> QED  BY <1>3, <2>1, Types
<1>5. Leases
  BY <1>2, <1>4 DEF Leases
<1>6. retired' \subseteq Reader
  BY <1>1 DEF TypeOK
<1> QED  BY <1>1, <1>2, <1>4, <1>5, <1>6, Leased

(* The manager retires a dead reader.                                         *)
LEMMA RetireReaderStep == ASSUME IInv, NEW r \in Reader, RetireReader(r) PROVE IInv'
<1> USE DEF IInv
<1> DEFINE New == Recoverable(r, ready \cup collecting)
<1>1. /\ managerAt \notin Restoring \cup {"dead"} /\ r[1] = generation /\ reader[r].at = "dead" /\ r \notin retired /\ Fence(r)
      /\ ready' = ready \cup New
      /\ UNCHANGED <<produced, planned, log, cursor, processed, active, reader, generation, managerAt, rollout,
                     collecting, toFence, recovered, source, window, boundary, faults>>
  BY DEF RetireReader, journal
<1>2. Serving /\ Serving'
  BY <1>1 DEF Serving
<1>3. /\ Versions' /\ Collections' /\ Steady /\ Grown /\ Results' = Results /\ Acknowledged' /\ RetentionSound'
      /\ \A p : Processed(p)' <=> Processed(p)
      /\ \A p \in Results : Free(p)' <=> Free(p)
      /\ tasks' \in Seq(Task) /\ DOMAIN tasks' = DOMAIN tasks /\ retired' = retired \cup {r} /\ retired' \subseteq Reader
  BY <1>1, Fenced
<1>4. ASSUME NEW p \in New PROVE p \in Results /\ p \in Nat /\ log[p].worker = r /\ p \notin ready /\ Free(p)
  <2>1. /\ p \in Results /\ p \in Nat /\ log[p].worker = r /\ p \notin ready \cup collecting /\ Final(p)
        /\ \A n \in Rollout : planned[n] # {} => p \notin InputsOf(n)
    BY RecoverableIs
  <2>2. \A n \in Rollout : p \notin InputsOf(n)
    BY <1>1, <1>2, <2>1 DEF Hands, Own
  <2>3. ~Collected(GroupAt(p))
    BY <2>1, <2>2, CollectedIs
  <2> QED  BY <2>1, <2>3 DEF Free
<1>5. ASSUME MaxFailures = 0, NEW p \in Results, Free(p), log[p].worker = r PROVE p \in ready'
  <2>1. p \notin collecting
    BY <1>5 DEF Hands, Free
  <2>2. p \notin ready => p \in New
    BY <1>5, <2>1, FreeRecoverable
  <2> QED  BY <1>1, <2>2
<1> HIDE DEF New
<1>6. TypeOK'
  BY <1>1, <1>3, <1>4 DEF TypeOK
<1>7. Window' /\ Stages' /\ Trained'
  BY <1>1, <1>3, WindowKeeps
<1>8. Restoration'
  BY <1>1, <1>2 DEF Restoration, Serving, Restoring
<1>9. Managers' /\ AtWork'
  <2>1. source = generation
    BY <1>2 DEF Managers
  <2>2. generation \in Nat
    BY DEF TypeOK
  <2>3. Managers'
    BY <1>1, <1>2, <1>3, <2>1, <2>2 DEF Managers, Serving
  <2>4. AtWork'
    BY <1>1, <1>3, <1>2 DEF AtWork
  <2> QED  BY <2>3, <2>4
<1>10. \A p \in ready : p \in Results
  BY DEF Hands, Free, Final
<1>11. Hands'
  <2>1. \A p \in ready' : Free(p)' /\ Own(p)'
    <3>1. \A p \in ready' : p \in Results /\ Free(p) /\ log[p].worker[1] = generation
      BY <1>1, <1>4, <1>10 DEF Hands, Own
    <3> QED  BY <1>1, <1>3, <3>1 DEF Own
  <2>2. \A p \in collecting : p \in Results' /\ (MaxFailures = 0 => Collected(GroupAt(p))')
    BY <1>3 DEF Hands, Steady, Grown
  <2>3. \A n \in Rollout : planned'[n] = {} => \A p \in InputsOf(n)' : Own(p)' => p \in collecting
    BY <1>1, <1>2, <1>3 DEF Hands, Own, Steady
  <2> QED  BY <1>1, <1>2, <2>1, <2>2, <2>3 DEF Hands
<1>12. Answers'
  <2>1. ASSUME NEW q \in Reader, q[1] = generation, reader[q].at = "published"
        PROVE  /\ log[reader[q].position].worker = q /\ reader[q].position \notin ready'
               /\ \A p : p = reader[q].position => Free(p)'
    <3>1. Free(reader[q].position) /\ log[reader[q].position].worker = q /\ reader[q].position \notin ready
      BY <1>2, <2>1 DEF Answers
    <3>2. reader[q].position \in Results /\ q # r
      BY <1>1, <2>1, <3>1 DEF Free, Final
    <3> QED  BY <1>1, <1>3, <1>4, <3>1, <3>2
  <2> QED  BY <1>1, <2>1 DEF Answers
<1>13. ASSUME MaxFailures = 0, NEW p \in Results, Free(p) PROVE Kept(p)'
  <2>1. Kept(p)
    BY <1>13 DEF AllKept
  <2>2. log[p].worker = r => p \in ready'
    BY <1>5, <1>13
  <2> QED  BY <1>1, <1>2, <1>3, <2>1, <2>2 DEF Kept, Serving, Restoring
<1>14. AllKept'
  BY <1>3, <1>13 DEF AllKept
<1> QED  BY <1>3, <1>6, <1>7, <1>8, <1>9, <1>11, <1>12, <1>14

-----------------------------------------------------------------------------
(* A manager that restores *)

(* What is left to the readers when no manager serves.                        *)
LEMMA Outside ==
    ASSUME IInv, ~Serving, ~Serving', UNCHANGED <<active, reader, ready, collecting>>, DOMAIN tasks \subseteq DOMAIN tasks'
    PROVE  Hands' /\ AtWork' /\ Answers'
<1> USE DEF IInv
<1>1. ready' = {} /\ collecting' = {}
  BY DEF Hands
<1>2. Hands'
  BY <1>1 DEF Hands
<1>3. AtWork'
  BY DEF AtWork
<1>4. Answers'
  BY DEF Answers
<1> QED  BY <1>2, <1>3, <1>4

(* A new manager fences a reader of the dead one.                             *)
LEMMA FenceReaderStep == ASSUME IInv, NEW r \in Reader, FenceReader(r) PROVE IInv'
<1> USE DEF IInv
<1> DEFINE New == Recoverable(r, Excluded)
<1>1. /\ managerAt = "fence" /\ r \in toFence /\ Fence(r) /\ toFence' = toFence \ {r}
      /\ recovered' = recovered \cup New
      /\ UNCHANGED <<produced, planned, log, cursor, processed, active, reader, generation, managerAt, rollout,
                     ready, collecting, source, window, boundary, faults>>
  BY DEF FenceReader, journal
<1>2. ~Serving /\ ~Serving' /\ managerAt \in Restoring
  BY <1>1 DEF Serving, Restoring
<1>3. /\ Versions' /\ Collections' /\ Steady /\ Grown /\ Results' = Results /\ Acknowledged' /\ RetentionSound'
      /\ \A p : Processed(p)' <=> Processed(p)
      /\ \A p \in Results : Free(p)' <=> Free(p)
      /\ tasks' \in Seq(Task) /\ DOMAIN tasks' = DOMAIN tasks /\ retired' = retired \cup {r} /\ retired' \subseteq Reader
  BY <1>1, Fenced
<1>4. r \in active /\ r[1] = source
  BY <1>1 DEF Restoration
<1>5. ASSUME NEW p \in New PROVE p \in Results /\ p \in Nat /\ log[p].worker = r /\ Free(p)
  <2>1. /\ p \in Results /\ p \in Nat /\ log[p].worker = r /\ p \notin Excluded /\ Final(p)
        /\ \A n \in Rollout : planned[n] # {} => p \notin InputsOf(n)
    BY RecoverableIs
  <2>2. ASSUME NEW n \in Rollout, p \in InputsOf(n) PROVE FALSE
    <3>1. planned[n] = {}
      BY <2>1, <2>2
    <3>2. ~(n <= boundary)
      BY <3>1 DEF Trained, Settled, Collections
    <3>3. Positions("collection", n) # {}
      BY <2>2 DEF InputsOf
    <3>4. window[n] # "absent"
      BY <1>1, <3>2, <3>3 DEF Window
    <3>5. n \in Retained
      BY <3>4 DEF Retained
    <3> QED  BY <2>1, <2>2, <3>5 DEF Excluded
  <2>3. ~Collected(GroupAt(p))
    BY <2>1, <2>2, CollectedIs
  <2> QED  BY <2>1, <2>3 DEF Free
<1>6. ASSUME NEW p \in Results, Free(p), log[p].worker = r PROVE p \in recovered'
  <2>1. Final(p) /\ ~Collected(GroupAt(p))
    BY <1>6 DEF Free
  <2>2. ASSUME NEW n \in Retained, p \in InputsOf(n) \cup UNION {SourcesOf(q) : q \in InputsOf(n)} PROVE FALSE
    <3>1. n \in Rollout
      BY DEF Retained
    <3>2. p \notin InputsOf(n)
      BY <2>1, <3>1, CollectedIs
    <3>3. PICK q \in InputsOf(n) : p \in SourcesOf(q)
      BY <2>2, <3>2
    <3>4. q \in Results
      BY <3>1, InputsAre
    <3> QED  BY <2>1, <3>3, <3>4, ReplacedIs
  <2>3. p \notin Excluded
    BY <2>2 DEF Excluded
  <2>4. p \in New
    BY <1>6, <2>3, FreeRecoverable
  <2> QED  BY <1>1, <2>4
<1> HIDE DEF New
<1>7. TypeOK'
  BY <1>1, <1>3, <1>5 DEF TypeOK
<1>8. Window' /\ Stages' /\ Trained'
  BY <1>1, <1>3, WindowKeeps
<1>9. Hands' /\ AtWork' /\ Answers'
  BY <1>1, <1>2, <1>3, Outside
<1>10. Managers'
  <2>1. source \in Nat /\ r[1] <= source
    BY <1>4 DEF TypeOK
  <2> QED  BY <1>1, <1>2, <1>3, <2>1 DEF Managers
<1>11. Restoration'
  <2>1. \A p \in recovered : p \in Results
    BY DEF Restoration, Free, Final
  <2>2. \A p \in recovered' : Free(p)' /\ log[p].worker[1] = source
    BY <1>1, <1>3, <1>4, <1>5, <2>1 DEF Restoration
  <2>3. \A q \in active : q \in toFence' \cup retired'
    BY <1>1, <1>3 DEF Restoration
  <2> QED  BY <1>1, <2>2, <2>3 DEF Restoration, Restoring
<1>12. ASSUME MaxFailures = 0, NEW p \in Results, Free(p) PROVE Kept(p)'
  <2>1. Kept(p)
    BY <1>12 DEF AllKept
  <2>2. log[p].worker = r => p \in recovered'
    BY <1>6, <1>12
  <2> QED  BY <1>1, <1>2, <2>1, <2>2 DEF Kept
<1>13. AllKept'
  BY <1>3, <1>12 DEF AllKept
<1> QED  BY <1>3, <1>7, <1>8, <1>9, <1>10, <1>11, <1>13

(* The readers of the dead manager are fenced.                                *)
LEMMA AllFencedStep == ASSUME IInv, AllFenced PROVE IInv'
<1> USE DEF IInv
<1>1. /\ managerAt = "fence" /\ toFence = {} /\ managerAt' = "deliver"
      /\ UNCHANGED <<produced, tasks, planned, log, cursor, processed, active, retired, reader, generation, rollout,
                     ready, collecting, toFence, recovered, source, window, boundary, faults>>
  BY DEF AllFenced, controller, journal
<1>2. ~Serving /\ ~Serving' /\ managerAt \in Restoring
  BY <1>1 DEF Serving, Restoring
<1>3. /\ Versions' /\ Collections' /\ Steady /\ Grown /\ Results' = Results /\ Acknowledged' /\ RetentionSound'
      /\ \A p : Processed(p)' <=> Processed(p)
      /\ \A p \in Results : Free(p)' <=> Free(p)
  BY <1>1, Still
<1>4. TypeOK'
  BY <1>1 DEF TypeOK, At, Restoring
<1>5. Hands' /\ AtWork' /\ Answers'
  BY <1>1, <1>2, Outside
<1>6. Managers'
  BY <1>1, <1>2 DEF Managers
<1>7. Restoration'
  <2>1. \A p \in recovered : p \in Results
    BY DEF Restoration, Free, Final
  <2>2. \A p \in recovered : Free(p)' /\ log[p].worker[1] = source
    BY <1>3, <2>1 DEF Restoration
  <2>3. active \subseteq retired
    BY <1>1 DEF Restoration
  <2> QED  BY <1>1, <2>2, <2>3 DEF Restoration
<1>8. \A n : Below(n)' <=> Below(n)
  BY <1>1 DEF Below
<1>9. Window'
  BY <1>1, <1>3, <1>8 DEF Window, Steady
<1>10. Stages'
  BY <1>1, <1>2 DEF Stages
<1>11. Trained'
  <2>1. ASSUME NEW n \in Rollout, Settled(n) PROVE Settled(n)'
    BY <1>1, <1>3, <2>1, SettledKeeps DEF Steady
  <2> QED  BY <1>1, <2>1 DEF Trained
<1>12. AllKept'
  BY <1>1, <1>2, <1>3 DEF AllKept, Kept
<1> QED  BY <1>3, <1>4, <1>5, <1>6, <1>7, <1>9, <1>10, <1>11, <1>12

(* A recovered result becomes a delivery.                                     *)
LEMMA DeliverStep == ASSUME IInv, NEW p \in recovered, Deliver(p) PROVE IInv'
<1> USE DEF IInv
<1>1. /\ managerAt = "deliver" /\ recovered' = recovered \ {p}
      /\ tasks' = Append(tasks, NewTask(tasks[log[p].task].group, SourcesOf(p) \cup {p}, 2))
      /\ UNCHANGED <<produced, planned, log, cursor, processed, active, retired, reader, generation, managerAt,
                     rollout, ready, collecting, toFence, source, window, boundary, faults>>
  BY DEF Deliver, journal
<1>2. ~Serving /\ ~Serving' /\ managerAt \in Restoring
  BY <1>1 DEF Serving, Restoring
<1>3. Free(p) /\ p \in Nat
  BY DEF Restoration, TypeOK
<1>4. /\ Versions' /\ Collections' /\ Grown /\ Results' = Results
      /\ tasks' \in Seq(Task) /\ DOMAIN tasks \subseteq DOMAIN tasks'
      /\ SamePositions("collection") /\ SamePositions("batch")
      /\ \A q \in Results : Free(q)' <=> Free(q) /\ q # p
      /\ \A g : Dropped(g)' <=> Dropped(g)
  BY <1>1, <1>3, Delivered
<1>5. Steady
  BY <1>4, SteadyStep
<1>6. Acknowledged' /\ RetentionSound' /\ \A q : Processed(q)' <=> Processed(q)
  <2>1. \A q \in Results' : Dropped(GroupAt(q))' => q \in Results /\ Dropped(GroupAt(q))
    BY <1>4 DEF Grown
  <2> QED  BY <1>1, <1>4, <1>5, <2>1, AcknowledgedKeeps DEF Steady, TypeOK
<1>7. TypeOK'
  BY <1>1, <1>4 DEF TypeOK
<1>8. Hands' /\ AtWork' /\ Answers'
  BY <1>1, <1>2, <1>4, Outside
<1>9. Managers'
  BY <1>1, <1>2 DEF Managers
<1>10. Restoration'
  <2>1. \A q \in recovered : q \in Results
    BY DEF Restoration, Free, Final
  <2>2. \A q \in recovered' : Free(q)' /\ log[q].worker[1] = source
    BY <1>1, <1>4, <2>1 DEF Restoration
  <2> QED  BY <1>1, <2>2 DEF Restoration
<1>11. Window' /\ Stages' /\ Trained'
  BY <1>1, <1>5, <1>6, WindowKeeps
<1>12. AllKept'
  BY <1>1, <1>2, <1>4 DEF AllKept, Kept
<1> QED  BY <1>4, <1>6, <1>7, <1>8, <1>9, <1>10, <1>11, <1>12

(* Where a new attempt starts.                                                *)
LEMMA Resumes ==
    ASSUME TypeOK, rollout' = Min({boundary + 1, MaxRollouts}), UNCHANGED boundary
    PROVE  /\ rollout' \in Rollout /\ boundary <= rollout'
           /\ boundary < MaxRollouts => rollout' = boundary + 1
           /\ ~(boundary < MaxRollouts) => rollout' = boundary
           /\ \A n \in Rollout : n < rollout' => n <= boundary
<1>1. boundary \in 0..MaxRollouts /\ boundary \in Nat /\ MaxRollouts \in Nat \ {0} /\ boundary + 1 \in Nat
  BY Constants DEF TypeOK
<1>2. rollout' = IF boundary + 1 <= MaxRollouts THEN boundary + 1 ELSE MaxRollouts
  BY <1>1, MinOfTwo
<1> QED  BY <1>1, <1>2 DEF Rollout

(* A new attempt starts at the rollout after the boundary.                   *)
LEMMA Attempted ==
    ASSUME IInv, NextAttempt, UNCHANGED boundary, \A n \in Rollout : Settled(n) => Settled(n)'
    PROVE  /\ rollout' \in Rollout /\ managerAt' \in {"generate", "trained"} /\ Serving' /\ Stages' /\ Trained'
<1> USE DEF IInv
<1>1. /\ rollout' \in Rollout /\ boundary <= rollout'
      /\ boundary < MaxRollouts => rollout' = boundary + 1
      /\ ~(boundary < MaxRollouts) => rollout' = boundary
      /\ \A n \in Rollout : n < rollout' => n <= boundary
  BY Resumes DEF NextAttempt
<1>2. boundary \in Nat /\ rollout' \in Nat
  BY <1>1, Types, Constants
<1>3. managerAt' = IF boundary < MaxRollouts THEN "generate" ELSE "trained"
  BY DEF NextAttempt
<1>4. \/ managerAt' = "generate" /\ boundary < rollout'
      \/ managerAt' = "trained" /\ rollout' = boundary
  BY <1>1, <1>2, <1>3
<1>5. Serving'
  BY <1>4 DEF Serving, Restoring
<1>6. \A m \in Rollout : ~(boundary < m /\ m < rollout')
  <2>1. \A m \in Rollout : m \in Nat
    BY Constants
  <2> QED  BY <1>1, <1>2, <2>1
<1>7. Below(rollout)'
  BY <1>6 DEF Below
<1>8. Stages'
  <2>1. CASE managerAt' = "generate" /\ boundary < rollout'
    BY <1>1, <1>7, <2>1 DEF Stages
  <2>2. CASE managerAt' = "trained" /\ rollout' = boundary
    <3>1. ~(boundary < rollout')
      BY <1>2, <2>2
    <3> QED  BY <1>1, <1>7, <2>2, <3>1 DEF Stages
  <2> QED  BY <1>4, <2>1, <2>2
<1>9. Trained'
  <2>1. ASSUME NEW n \in Rollout, n <= boundary \/ n < rollout' PROVE Settled(n)'
    BY <1>1, <2>1 DEF Trained
  <2>2. managerAt' = "trained" => \A n : n = rollout' => Settled(n)'
    BY <1>1, <1>2, <1>4, <2>1
  <2>3. managerAt' = "trained" => Settled(rollout)'
    BY <2>2 DEF Settled, Converted, Positions, Processed, SourcesOf
  <2> QED  BY <2>1, <2>3 DEF Trained
<1> QED  BY <1>1, <1>4, <1>5, <1>8, <1>9

(* The window takes in the collection that it missed.                         *)
LEMMA WindowReconciled ==
    ASSUME IInv, managerAt \in {"detached", "reconcile"}, window' = [n \in Rollout |-> Reconciled(n)], UNCHANGED <<log, boundary>>
    PROVE  /\ window' \in [Rollout -> {"absent", "raw", "converted"}]
           /\ \A n \in Rollout :
                 /\ window'[n] # "absent" => boundary < n /\ Below(n)' /\ Positions("collection", n) # {}
                 /\ window'[n] = "converted" => Converted(n)
                 /\ Positions("collection", n) # {} => n <= boundary \/ window'[n] # "absent"
<1> USE DEF IInv
<1> DEFINE S == Retained \cup {boundary}
           k == Max(S)
<1>1. Rollout \subseteq Nat \ {0} /\ boundary \in Nat /\ Rollout = 1..MaxRollouts /\ MaxRollouts \in Nat /\ boundary <= MaxRollouts
  BY Constants, Types DEF TypeOK, Rollout
<1>2. S \in SUBSET Nat /\ S # {} /\ \A x \in S : x <= MaxRollouts
  BY <1>1 DEF Retained
<1>3. k \in S /\ \A x \in S : x <= k
  <2> HIDE DEF S
  <2> QED  BY <1>1, <1>2, MaxIs
<1>4. ASSUME NEW n \in Rollout
      PROVE  LET raw == IF n = k + 1 /\ Positions("collection", n) # {} THEN "raw" ELSE window[n]
             IN window'[n] = IF raw = "raw" /\ Positions("batch", n) # {} THEN "converted" ELSE raw
  BY DEF Reconciled
<1> HIDE DEF k
<1>5. k \in Nat /\ boundary <= k /\ \A n \in Rollout : window[n] # "absent" => n <= k
  BY <1>1, <1>2, <1>3 DEF Retained
<1>6. ASSUME NEW n \in Rollout, boundary < n, n <= k PROVE window[n] # "absent"
  <2>1. k \in Rollout /\ window[k] # "absent"
    BY <1>1, <1>3, <1>5, <1>6 DEF Retained
  <2>2. Below(k)
    BY <2>1 DEF Window
  <2>3. n = k \/ n < k
    BY <1>1, <1>5, <1>6
  <2> QED  BY <1>6, <2>1, <2>2, <2>3 DEF Below
<1> HIDE DEF S
<1>7. ASSUME NEW n \in Rollout
      PROVE  /\ window[n] \in {"absent", "raw", "converted"}
             /\ window[n] = "converted" => Converted(n)
             /\ window[n] # "absent" => boundary < n /\ Positions("collection", n) # {}
  BY DEF Window, TypeOK
<1>8. ASSUME NEW n \in Rollout
      PROVE  /\ window'[n] \in {"absent", "raw", "converted"}
             /\ window'[n] # "absent" <=> window[n] # "absent" \/ (n = k + 1 /\ Positions("collection", n) # {})
             /\ window'[n] = "converted" => Converted(n)
  BY <1>4, <1>7 DEF Converted
<1>9. window' \in [Rollout -> {"absent", "raw", "converted"}]
  BY <1>8
<1>10. ASSUME NEW n \in Rollout, window'[n] # "absent" PROVE boundary < n /\ n <= k + 1 /\ Positions("collection", n) # {}
  <2>1. CASE window[n] # "absent"
    BY <1>1, <1>5, <1>7, <2>1
  <2>2. CASE n = k + 1 /\ Positions("collection", n) # {}
    BY <1>1, <1>5, <2>2
  <2> QED  BY <1>8, <1>10, <2>1, <2>2
<1>11. ASSUME NEW n \in Rollout, window'[n] # "absent" PROVE Below(n)'
  <2>1. ASSUME NEW m \in Rollout, boundary < m, m < n PROVE window'[m] # "absent"
    <3>1. m <= k
      BY <1>1, <1>5, <1>10, <1>11, <2>1
    <3> QED  BY <1>6, <1>8, <2>1, <3>1
  <2> QED  BY <2>1 DEF Below
<1>12. ASSUME NEW n \in Rollout, Positions("collection", n) # {}, ~(n <= boundary) PROVE window'[n] # "absent"
  <2>1. CASE window[n] # "absent"
    BY <1>8, <2>1
  <2>2. CASE window[n] = "absent"
    <3>1. Below(n)
      BY <1>12, <2>2 DEF Window
    <3>2. boundary < n /\ n \in Nat
      BY <1>1, <1>12
    <3>3. k < n
      BY <1>5, <1>6, <2>2, <3>2
    <3>4. CASE k + 1 < n
      <4>1. k + 1 \in Rollout /\ boundary < k + 1
        BY <1>1, <1>5, <3>4
      <4>2. window[k + 1] # "absent"
        BY <3>1, <3>4, <4>1 DEF Below
      <4> QED  BY <1>5, <4>1, <4>2
    <3>5. CASE n = k + 1
      BY <1>8, <1>12, <3>5
    <3> QED  BY <1>5, <3>2, <3>3, <3>4, <3>5
  <2> QED  BY <2>1, <2>2
<1> QED  BY <1>8, <1>9, <1>10, <1>11, <1>12

(* The next attempt on the same manager.                                      *)
LEMMA ReattachStep == ASSUME IInv, Reattach PROVE IInv'
<1> USE DEF IInv
<1>1. /\ managerAt = "detached" /\ window' = [n \in Rollout |-> Reconciled(n)] /\ NextAttempt
      /\ UNCHANGED <<produced, tasks, planned, log, cursor, processed, active, retired, reader, generation,
                     ready, collecting, toFence, recovered, source, boundary, faults>>
  BY DEF Reattach, controller
<1>2. Serving
  BY <1>1 DEF Serving, Restoring
<1>3. Steady /\ Grown /\ \A p : Processed(p)' <=> Processed(p)
  BY <1>1, Still
<1>4. ASSUME NEW n \in Rollout, Settled(n) PROVE Settled(n)'
  BY <1>1, <1>3, <1>4, SettledKeeps DEF Steady
<1>5. rollout' \in Rollout /\ managerAt' \in {"generate", "trained"} /\ Serving' /\ Stages' /\ Trained'
  BY <1>1, <1>4, Attempted
<1>6. /\ Versions' /\ Collections' /\ Managers' /\ AtWork' /\ Answers' /\ Restoration' /\ AllKept'
      /\ Hands' /\ Acknowledged' /\ RetentionSound'
  BY <1>1, <1>2, <1>5, ServedStill
<1>7. /\ window' \in [Rollout -> {"absent", "raw", "converted"}]
      /\ \A n \in Rollout :
            /\ window'[n] # "absent" => boundary < n /\ Below(n)' /\ Positions("collection", n) # {}
            /\ window'[n] = "converted" => Converted(n)
            /\ Positions("collection", n) # {} => n <= boundary \/ window'[n] # "absent"
  BY <1>1, WindowReconciled
<1>8. TypeOK'
  BY <1>1, <1>5, <1>7 DEF TypeOK, At
<1>9. Window'
  BY <1>1, <1>3, <1>7 DEF Window, Steady
<1> QED  BY <1>5, <1>6, <1>8, <1>9

(* A new manager takes in what the journal missed.                            *)
LEMMA ReconcileStep == ASSUME IInv, Reconcile PROVE IInv'
<1> USE DEF IInv
<1>1. /\ managerAt = "reconcile" /\ window' = [n \in Rollout |-> Reconciled(n)] /\ toFence' = ReadersOfSource
      /\ managerAt' = "fence"
      /\ UNCHANGED <<produced, tasks, planned, log, cursor, processed, active, retired, reader, generation, rollout,
                     ready, collecting, recovered, source, boundary, faults>>
  BY DEF Reconcile, controller
<1>2. ~Serving /\ ~Serving' /\ managerAt \in Restoring
  BY <1>1 DEF Serving, Restoring
<1>3. /\ Versions' /\ Collections' /\ Steady /\ Grown /\ Results' = Results /\ Acknowledged' /\ RetentionSound'
      /\ \A p : Processed(p)' <=> Processed(p)
      /\ \A p \in Results : Free(p)' <=> Free(p)
  BY <1>1, Still
<1>4. Hands' /\ AtWork' /\ Answers'
  BY <1>1, <1>2, Outside
<1>5. Managers'
  BY <1>1, <1>2 DEF Managers
<1>6. \A r : r \in toFence' <=> r \in active /\ r[1] = source
  BY <1>1 DEF ReadersOfSource
<1>7. Restoration'
  <2>1. recovered = {} /\ recovered' = {}
    BY <1>1 DEF Restoration
  <2>2. \A r \in active : r \in toFence' \cup retired
    BY <1>6 DEF Managers
  <2> QED  BY <1>1, <1>6, <2>1, <2>2 DEF Restoration
<1>8. /\ window' \in [Rollout -> {"absent", "raw", "converted"}]
      /\ \A n \in Rollout :
            /\ window'[n] # "absent" => boundary < n /\ Below(n)' /\ Positions("collection", n) # {}
            /\ window'[n] = "converted" => Converted(n)
            /\ Positions("collection", n) # {} => n <= boundary \/ window'[n] # "absent"
  BY <1>1, WindowReconciled
<1>9. TypeOK'
  <2>1. toFence' \subseteq Reader
    BY <1>6 DEF TypeOK
  <2> QED  BY <1>1, <1>8, <2>1 DEF TypeOK, At, Restoring
<1>10. Window'
  BY <1>1, <1>3, <1>8 DEF Window, Steady
<1>11. Stages'
  BY <1>1, <1>2 DEF Stages
<1>12. Trained'
  <2>1. ASSUME NEW n \in Rollout, Settled(n) PROVE Settled(n)'
    BY <1>1, <1>3, <2>1, SettledKeeps DEF Steady
  <2> QED  BY <1>1, <2>1 DEF Trained
<1>13. ASSUME MaxFailures = 0, NEW p \in Results, Free(p) PROVE Kept(p)'
  <2>1. log[p].worker \in active /\ log[p].worker[1] = source
    BY <1>1, <1>13, ResultIs DEF AllKept, Kept
  <2> QED  BY <1>1, <1>2, <1>6, <2>1 DEF Kept
<1>14. AllKept'
  BY <1>3, <1>13 DEF AllKept
<1> QED  BY <1>3, <1>4, <1>5, <1>7, <1>9, <1>10, <1>11, <1>12, <1>14

(* The manager dies.                                                          *)
LEMMA ManagerDiesStep == ASSUME IInv, ManagerDies PROVE IInv'
<1> USE DEF IInv
<1>1. /\ managerAt # "dead" /\ CallEnds /\ managerAt' = "dead" /\ rollout' = Min({boundary + 1, MaxRollouts})
      /\ ready' = {} /\ collecting' = {} /\ toFence' = {} /\ recovered' = {}
      /\ UNCHANGED <<produced, tasks, planned, log, active, retired, generation, source, window, boundary, faults>>
  BY DEF ManagerDies, journal
<1>2. reader' = [r \in Reader |->
           CASE r[1] = generation /\ reader[r].at = "published" -> Idle
             [] r[1] = generation /\ reader[r].at = "failed"    -> [Idle EXCEPT !.at = "dead"]
             [] OTHER -> reader[r]]
  BY DEF ManagerDies
<1>3. ~Serving'
  BY <1>1 DEF Serving
<1>4. /\ Acknowledged' /\ RetentionSound' /\ cursor' \in 0..Len(log) /\ processed' \subseteq 1..Len(log)
      /\ \A n \in Rollout : Settled(n) => Settled(n)'
  BY <1>1, CallCarried
<1>5. /\ Versions' /\ Collections' /\ Steady /\ Grown /\ Results' = Results
      /\ \A p \in Results : Free(p)' <=> Free(p)
  BY <1>1, Still
<1>6. ASSUME NEW r \in Reader
      PROVE  reader'[r] \in Place /\ (reader'[r] = reader[r] \/ (reader'[r].at \in {"idle", "dead"} /\ reader[r].at # "none"))
  <2>1. CASE r[1] = generation /\ reader[r].at = "published"
    <3>1. reader'[r] = Idle
      BY <1>2, <2>1
    <3> QED  BY <2>1, <3>1 DEF Idle, Place
  <2>2. CASE r[1] = generation /\ reader[r].at = "failed"
    <3>1. reader'[r] = [Idle EXCEPT !.at = "dead"]
      BY <1>2, <2>2
    <3> QED  BY <2>2, <3>1 DEF Idle, Place
  <2>3. CASE ~(r[1] = generation /\ reader[r].at \in {"published", "failed"})
    <3>1. reader'[r] = reader[r]
      BY <1>2, <2>3
    <3> QED  BY <3>1 DEF TypeOK
  <2> QED  BY <2>1, <2>2, <2>3
<1>7. /\ rollout' \in Rollout /\ boundary <= rollout' /\ \A n \in Rollout : n < rollout' => n <= boundary
  BY <1>1, Resumes
<1>8. TypeOK'
  <2>1. reader' \in [Reader -> Place]
    BY <1>2, <1>6
  <2> QED  BY <1>1, <1>4, <1>7, <2>1 DEF TypeOK, At
<1>9. Hands' /\ Answers'
  BY <1>1, <1>3 DEF Hands, Answers
<1>10. AtWork'
  BY <1>1, <1>3, <1>6 DEF AtWork
<1>11. Managers'
  BY <1>1, <1>3, <1>6 DEF Managers, Restoring
<1>12. Restoration'
  BY <1>1 DEF Restoration
<1>13. \A n : Below(n)' <=> Below(n)
  BY <1>1 DEF Below
<1>14. Window'
  <2>1. \A n \in Rollout : /\ window[n] # "absent" => boundary < n /\ Below(n) /\ Positions("collection", n) # {}
                           /\ window[n] = "converted" => Converted(n)
                           /\ Positions("collection", n) # {} => n <= boundary \/ window[n] # "absent" \/ Below(n)
    BY DEF Window
  <2> QED  BY <1>1, <1>5, <1>13, <2>1 DEF Window, Steady
<1>15. Stages'
  BY <1>1, <1>3, <1>7 DEF Stages
<1>16. Trained'
  BY <1>1, <1>4, <1>7 DEF Trained
<1>17. ASSUME MaxFailures = 0, NEW p \in Results, Free(p) PROVE log[p].worker[1] = source
  <2>1. Kept(p)
    BY <1>17 DEF AllKept
  <2>2. CASE Serving
    BY <2>1, <2>2 DEF Kept, Hands, Own, Managers
  <2>3. CASE managerAt \in Restoring
    BY <2>1, <2>3 DEF Kept, Restoring, Restoration
  <2> QED  BY <1>1, <2>2, <2>3 DEF Serving
<1>18. AllKept'
  BY <1>1, <1>3, <1>5, <1>17 DEF AllKept, Kept
<1> QED  BY <1>4, <1>5, <1>8, <1>9, <1>10, <1>11, <1>12, <1>14, <1>15, <1>16, <1>18

(* A new manager is created.                                                  *)
LEMMA StartManagerStep == ASSUME IInv, StartManager PROVE IInv'
<1> USE DEF IInv
<1>1. /\ managerAt = "dead" /\ generation < MaxManagers /\ generation' = generation + 1 /\ managerAt' = "reconcile"
      /\ UNCHANGED <<produced, tasks, planned, log, cursor, processed, active, retired, reader, rollout, ready, collecting,
                     toFence, recovered, source, window, boundary, faults>>
  BY DEF StartManager, controller, memory, journal
<1>2. ~Serving /\ ~Serving'
  BY <1>1 DEF Serving, Restoring
<1>3. /\ Versions' /\ Collections' /\ Steady /\ Grown /\ Results' = Results /\ Acknowledged' /\ RetentionSound'
      /\ \A p : Processed(p)' <=> Processed(p)
      /\ \A p \in Results : Free(p)' <=> Free(p)
  BY <1>1, Still
<1>4. generation' \in 1..MaxManagers /\ source \in 1..generation' /\ source < generation'
  BY <1>1, Constants DEF TypeOK
<1>5. TypeOK'
  BY <1>1, <1>4 DEF TypeOK, At, Restoring
<1>6. Hands' /\ AtWork' /\ Answers'
  BY <1>1, <1>2, Outside
<1>7. Managers'
  BY <1>1, <1>2, <1>4 DEF Managers
<1>8. Restoration'
  BY <1>1 DEF Restoration
<1>9. \A n : Below(n)' <=> Below(n)
  BY <1>1 DEF Below
<1>10. Window'
  BY <1>1, <1>3, <1>9 DEF Window, Steady
<1>11. Stages'
  BY <1>1, <1>2 DEF Stages
<1>12. Trained'
  <2>1. ASSUME NEW n \in Rollout, Settled(n) PROVE Settled(n)'
    BY <1>1, <1>3, <2>1, SettledKeeps DEF Steady
  <2> QED  BY <1>1, <2>1 DEF Trained
<1>13. AllKept'
  BY <1>1, <1>2, <1>3 DEF AllKept, Kept
<1> QED  BY <1>3, <1>5, <1>6, <1>7, <1>8, <1>10, <1>11, <1>12, <1>13

(* The new manager serves.                                                    *)
LEMMA RestoredStep == ASSUME IInv, Restored PROVE IInv'
<1> USE DEF IInv
<1>1. /\ managerAt = "deliver" /\ recovered = {} /\ source' = generation /\ NextAttempt
      /\ reader' = [r \in Reader |-> IF r[1] = generation THEN Idle ELSE reader[r]]
      /\ UNCHANGED <<produced, tasks, planned, log, cursor, processed, active, retired, generation, ready, collecting,
                     toFence, recovered, window, boundary, faults>>
  BY DEF Restored, controller
<1>2. ~Serving /\ managerAt \in Restoring
  BY <1>1 DEF Serving, Restoring
<1>3. /\ Versions' /\ Collections' /\ Steady /\ Grown /\ Results' = Results /\ Acknowledged' /\ RetentionSound'
      /\ \A p : Processed(p)' <=> Processed(p)
      /\ \A p \in Results : Free(p)' <=> Free(p)
  BY <1>1, Still
<1>4. ASSUME NEW n \in Rollout, Settled(n) PROVE Settled(n)'
  BY <1>1, <1>3, <1>4, SettledKeeps DEF Steady
<1>5. rollout' \in Rollout /\ managerAt' \in {"generate", "trained"} /\ Serving' /\ Stages' /\ Trained'
  BY <1>1, <1>4, Attempted
<1>6. source < generation /\ source \in Nat /\ generation \in 1..MaxManagers /\ generation \in Nat
  BY <1>2 DEF Managers, TypeOK
<1>7. active \subseteq retired
  BY <1>1 DEF Restoration
<1>8. \A r \in active \cup retired : r \in Reader /\ r[1] \in Nat /\ r[1] <= source /\ r[1] # generation
  <2>1. \A r \in active \cup retired : r \in Reader /\ r[1] \in Nat /\ r[1] <= source
    BY DEF Managers, TypeOK, Reader
  <2> QED  BY <1>6, <2>1
<1>9. ASSUME NEW r \in Reader
      PROVE reader'[r] \in Place /\ (r[1] = generation => reader'[r].at = "idle") /\ (r[1] # generation => reader'[r] = reader[r])
  BY <1>1 DEF TypeOK, Idle, Place
<1>10. TypeOK'
  <2>1. reader' \in [Reader -> Place]
    BY <1>1, <1>9
  <2>2. source' \in 1..generation'
    BY <1>1, <1>6
  <2> QED  BY <1>1, <1>5, <2>1, <2>2 DEF TypeOK, At
<1>11. ready = {} /\ collecting = {}
  BY <1>2 DEF Hands
<1>12. Hands'
  <2>1. ASSUME NEW n \in Rollout, NEW p \in InputsOf(n)' PROVE ~Own(p)'
    <3>1. p \in InputsOf(n)
      BY <1>3 DEF Steady
    <3>2. p \in Results
      BY <3>1, InputsAre
    <3>3. log[p].worker \in active
      BY <3>2, ResultIs
    <3> QED  BY <1>1, <1>8, <3>3 DEF Own
  <2> QED  BY <1>1, <1>5, <1>11, <2>1 DEF Hands
<1>13. AtWork'
  BY <1>1, <1>8, <1>9 DEF AtWork
<1>14. Answers'
  BY <1>1, <1>9 DEF Answers
<1>15. Managers'
  <2>1. \A r \in active \cup retired : r[1] <= source'
    BY <1>1, <1>6, <1>8
  <2>2. \A r \in Reader : r[1] > source' => reader'[r].at = "none"
    <3>1. \A r \in Reader : r[1] \in Nat
      BY DEF Reader
    <3>2. \A r \in Reader : r[1] > source' => r[1] > source /\ r[1] # generation
      BY <1>1, <1>6, <3>1
    <3> QED  BY <1>9, <3>2 DEF Managers
  <2> QED  BY <1>1, <1>5, <1>7, <2>1, <2>2 DEF Managers, Restoring
<1>16. Restoration'
  BY <1>1, <1>5 DEF Restoration
<1>17. \A n : Below(n)' <=> Below(n)
  BY <1>1 DEF Below
<1>18. Window'
  BY <1>1, <1>3, <1>17 DEF Window, Steady
<1>19. AllKept'
  BY <1>1, <1>3 DEF AllKept, Kept
<1> QED  BY <1>3, <1>5, <1>10, <1>12, <1>13, <1>14, <1>15, <1>16, <1>18, <1>19

-----------------------------------------------------------------------------
(* The invariant *)

(* It holds initially.                                                        *)
LEMMA InitStep == Init => IInv
<1> SUFFICES ASSUME Init PROVE IInv
  OBVIOUS
<1>1. /\ produced = 0 /\ tasks = <<>> /\ planned = [n \in Rollout |-> {}] /\ log = <<>>
      /\ cursor = 0 /\ processed = {} /\ active = {} /\ retired = {}
      /\ reader = [r \in Reader |-> IF r[1] = 1 THEN Idle ELSE [Idle EXCEPT !.at = "none"]]
      /\ generation = 1 /\ managerAt = "generate" /\ rollout = 1
      /\ ready = {} /\ collecting = {} /\ toFence = {} /\ recovered = {}
      /\ source = 1 /\ window = [n \in Rollout |-> "absent"] /\ boundary = 0
      /\ faults = [f \in Fault |-> 0]
  BY DEF Init
<1>2. DOMAIN log = {} /\ DOMAIN tasks = {} /\ Len(log) = 0
  BY <1>1
<1>3. 1 \in Rollout /\ 1 \in 1..MaxManagers /\ 0 \in 0..MaxGroups /\ 0 \in 0..MaxRollouts
  BY Constants DEF Rollout
<1>4. Results = {} /\ \A kind, n : Positions(kind, n) = {}
  BY <1>2 DEF Results, Positions
<1>5. \A n : InputsOf(n) = {} /\ ~Converted(n)
  BY <1>4 DEF InputsOf, Converted
<1>6. ASSUME NEW r \in Reader
      PROVE  reader[r] \in Place /\ reader[r].at = IF r[1] = 1 THEN "idle" ELSE "none"
  <2>1. CASE r[1] = 1
    <3>1. reader[r] = Idle
      BY <1>1, <2>1
    <3> QED  BY <2>1, <3>1 DEF Idle, Place
  <2>2. CASE r[1] # 1
    <3>1. reader[r] = [Idle EXCEPT !.at = "none"]
      BY <1>1, <2>2
    <3> QED  BY <2>2, <3>1 DEF Idle, Place
  <2> QED  BY <2>1, <2>2
<1>7. TypeOK
  <2>1. reader \in [Reader -> Place]
    BY <1>1, <1>6
  <2>2. tasks \in Seq(Task) /\ log \in Seq(Entry)
    BY <1>1
  <2>3. planned \in [Rollout -> SUBSET Nat] /\ faults \in [Fault -> Nat] /\ window \in [Rollout -> {"absent", "raw", "converted"}]
    BY <1>1
  <2> QED  BY <1>1, <1>2, <1>3, <2>1, <2>2, <2>3 DEF TypeOK, At
<1>8. Versions
  BY <1>2, <1>4 DEF Versions
<1>9. Collections
  BY <1>1, <1>2, <1>4, <1>5 DEF Collections
<1>10. Hands
  BY <1>1, <1>5 DEF Hands
<1>11. Managers
  <2>1. \A r \in Reader : r[1] > 1 => r[1] # 1
    BY DEF Reader
  <2> QED  BY <1>1, <1>6, <2>1 DEF Managers, Restoring
<1>12. Restoration /\ AtWork /\ Answers
  BY <1>1, <1>6 DEF Restoration, AtWork, Answers
<1>13. Window
  BY <1>1, <1>4 DEF Window
<1>14. Stages
  <2>1. Below(rollout)
    <3>1. \A m \in Rollout : m \in Nat
      BY Constants
    <3> QED  BY <1>1, <3>1 DEF Below
  <2> QED  BY <1>1, <2>1 DEF Stages
<1>15. Trained
  <2>1. \A n \in Rollout : ~(n <= 0 \/ n < 1)
    BY DEF Rollout
  <2> QED  BY <1>1, <2>1 DEF Trained
<1>16. Acknowledged /\ RetentionSound /\ AllKept
  BY <1>2, <1>4 DEF Acknowledged, RetentionSound, AllKept
<1> QED  BY <1>7, <1>8, <1>9, <1>10, <1>11, <1>12, <1>13, <1>14, <1>15, <1>16 DEF IInv

(* Every step keeps it.                                                       *)
LEMMA NextStep == IInv /\ [Next]_vars => IInv'
<1> SUFFICES ASSUME IInv, [Next]_vars PROVE IInv'
  OBVIOUS
<1>1. ASSUME NEW r \in Reader, ReaderStep(r) PROVE IInv'
  BY <1>1, AskStep, AcquireStep, RefillStep, CompleteStep, ReturnStep, RejectStep, ReaderDiesStep DEF ReaderStep
<1>2. ASSUME NEW r \in Reader, RetireReader(r) \/ Receive(r) \/ FenceReader(r) PROVE IInv'
  BY <1>2, RetireReaderStep, ReceiveStep, FenceReaderStep
<1>3. ASSUME NEW t \in DOMAIN tasks, Expire(t) PROVE IInv'
  BY <1>3, ExpireStep
<1>4. ASSUME Manager PROVE IInv'
  <2>1. CASE Generate \/ AcceptCollection \/ RememberRaw \/ PlanBatch \/ AcceptBatch \/ AdvanceInputs
    BY <2>1, GenerateStep, AcceptCollectionStep, RememberRawStep, PlanBatchStep, AcceptBatchStep, AdvanceInputsStep
  <2>2. CASE RememberConverted \/ FinishBatch \/ Checkpoint \/ NextRollout \/ Detach \/ CollectionFails
    BY <2>2, RememberConvertedStep, FinishBatchStep, CheckpointStep, NextRolloutStep, DetachStep, CollectionFailsStep
  <2>3. CASE Reattach \/ ManagerDies \/ StartManager \/ Reconcile \/ AllFenced \/ Restored
    BY <2>3, ReattachStep, ManagerDiesStep, StartManagerStep, ReconcileStep, AllFencedStep, RestoredStep
  <2>4. ASSUME NEW p \in recovered, Deliver(p) PROVE IInv'
    BY <2>4, DeliverStep
  <2> QED  BY <1>4, <2>1, <2>2, <2>3, <2>4 DEF Manager
<1>5. CASE UNCHANGED vars
  <2>1. UNCHANGED <<produced, tasks, planned, log, cursor, processed, active, retired, reader, generation, managerAt, rollout,
                    ready, collecting, toFence, recovered, source, window, boundary, faults>>
    BY <1>5 DEF vars, controller, memory, journal
  <2>2. Leases /\ tasks' \in Seq(Task) /\ faults' \in [Fault -> Nat]
        /\ \A u \in DOMAIN tasks : tasks'[u].state = "failed" => tasks[u].state = "failed"
    BY <2>1 DEF Leases, IInv, TypeOK
  <2> QED  BY <2>1, <2>2, TasksOnly
<1> QED  BY <1>1, <1>2, <1>3, <1>4, <1>5 DEF Next

(* The invariant holds in every state: types, versions, collections, what the *)
(* manager holds, the fencing of dead managers, the replay window, what is    *)
(* acknowledged and where an unfinished group is kept.                        *)
THEOREM Invariance == Spec => []IInv
BY InitStep, NextStep, PTL DEF Spec

(* The cursor passes an accepted result only when its group was rejected or   *)
(* is in an accepted conversion: _advance and online GC erase nothing that    *)
(* training or a replacement manager still needs.                             *)
THEOREM Retention == Spec => []RetentionSound
<1>1. IInv => RetentionSound
  BY DEF IInv
<1> QED  BY <1>1, Invariance, PTL

(* A group that is complete and in no batch is available.                     *)
LEMMA InvAvailable == ASSUME MaxFailures = 0, IInv PROVE CompletedAvailable
<1> USE DEF IInv
<1>1. ASSUME Serving, NEW g \in Group, TasksOf(g) # {}, ~IsOpen(g), ~Dropped(g), ~Collected(g) PROVE Available(g)
  <2>1. TasksOf(g) \in SUBSET Nat /\ Len(tasks) \in Nat /\ \A t \in TasksOf(g) : t <= Len(tasks)
    BY Types DEF TasksOf
  <2>2. PICK t \in TasksOf(g) : \A u \in TasksOf(g) : u <= t
    BY <1>1, <2>1, Greatest
  <2>3. t \in DOMAIN tasks /\ tasks[t].group = g /\ Newest(t)
    BY <2>2 DEF TasksOf, Newest
  <2>4. tasks[t].state = "completed"
    <3>1. tasks[t].state \in {"pending", "leased", "completed", "failed"}
      BY <2>3, Types DEF Task
    <3> QED  BY <1>1, <2>2, <3>1 DEF IsOpen, Dropped, InState
  <2>5. PICK p \in Results : log[p].task = t
    BY <2>3, <2>4 DEF Versions
  <2>6. GroupAt(p) = g /\ Final(p)
    BY <2>3, <2>5 DEF GroupAt, Final
  <2>7. Free(p)
    BY <1>1, <2>6 DEF Free
  <2>8. Kept(p) /\ p \in DOMAIN log /\ log[p].kind = "group" /\ log[p].worker \in active /\ log[p].worker \in Reader
    BY <2>7, ResultIs DEF AllKept, TypeOK
  <2> QED  BY <1>1, <2>6, <2>8 DEF Available, Kept
<1> QED  BY <1>1 DEF CompletedAvailable

(* Under a serving manager an accepted group that is in no batch is in the    *)
(* manager's hands, on its way there, or open again, as long as no collection *)
(* fails between the selection of its groups and their acceptance.            *)
THEOREM AvailableAlways == MaxFailures = 0 => (Spec => []CompletedAvailable)
<1>1. CASE MaxFailures = 0
  <2>1. IInv => CompletedAvailable
    BY <1>1, InvAvailable
  <2> QED  BY <2>1, Invariance, PTL
<1> QED  BY <1>1

(* What the cursor has not passed is under way, or will be trained again.     *)
LEMMA InvReleased == ASSUME MaxFailures = 0, IInv PROVE RetentionReleased
<1> USE DEF IInv
<1>1. ASSUME Serving, NEW p \in DOMAIN log, ~Processed(p), log[p].kind = "group"
      PROVE  \/ IsOpen(GroupAt(p)) \/ Available(GroupAt(p))
             \/ \E n \in Rollout : n > boundary /\ GroupAt(p) \in GroupsOf(n)
  <2>1. p \in Results
    BY <1>1 DEF Results
  <2>2. GroupAt(p) \in Group /\ TasksOf(GroupAt(p)) # {} /\ ~Dropped(GroupAt(p))
    BY <1>1, <2>1, ResultIs DEF TasksOf, GroupAt, Acknowledged
  <2>3. IsOpen(GroupAt(p)) \/ Collected(GroupAt(p)) \/ Available(GroupAt(p))
    BY <1>1, <2>2, InvAvailable DEF CompletedAvailable
  <2>4. ASSUME NEW n \in Rollout, GroupAt(p) \in GroupsOf(n), ~(n > boundary) PROVE FALSE
    <3>1. n <= boundary
      BY <2>4, Types, Constants
    <3>2. Settled(n) /\ planned[n] = Plan(n)
      BY <3>1 DEF Trained, Settled, Collections
    <3>3. PICK q \in InputsOf(n) : GroupAt(q) = GroupAt(p)
      BY <2>4 DEF GroupsOf
    <3>4. Final(q) /\ q \in Results
      BY InputsAre
    <3>5. p = q \/ p \in SourcesOf(q)
      <4>1. log[p].task \in DOMAIN tasks /\ log[q].task \in DOMAIN tasks
        BY <2>1, <3>4, ResultIs
      <4>2. log[p].task <= log[q].task
        BY <3>3, <3>4, <4>1 DEF Final, Newest, GroupAt
      <4>3. log[p].task = log[q].task \/ log[p].task < log[q].task
        BY <4>1, <4>2, Types
      <4>4. log[p].task = log[q].task => p = q
        BY <2>1, <3>4 DEF Versions
      <4>5. log[p].task < log[q].task => p \in SourcesOf(q)
        BY <2>1, <3>3, <3>4, SourcesIs
      <4> QED  BY <4>3, <4>4, <4>5
    <3>6. p \in planned[n]
      BY <3>2, <3>5 DEF Plan
    <3> QED  BY <1>1, <3>2, <3>6 DEF Settled
  <2> QED  BY <2>3, <2>4 DEF Collected
<1>2. ASSUME NEW p \in DOMAIN log, ~Processed(p), log[p].kind # "group", ~(log[p].rollout > boundary) PROVE FALSE
  <2> DEFINE n == log[p].rollout
  <2>1. n \in Rollout
    BY <1>2 DEF Collections
  <2>2. n <= boundary
    <3>1. n \in Nat /\ boundary \in Nat /\ ~(n > boundary)
      BY <1>2, <2>1, Types, Constants
    <3> HIDE DEF n
    <3> QED  BY <3>1
  <2>3. Settled(n) /\ planned[n] = Plan(n)
    BY <2>1, <2>2 DEF Trained, Settled, Collections
  <2>4. log[p].kind \in {"collection", "batch"}
    BY <1>2, Types DEF Entry
  <2>5. p \in Plan(n) \cup Positions("batch", n)
    BY <2>4 DEF Plan, Positions
  <2> QED  BY <1>2, <2>3, <2>5 DEF Settled
<1> QED  BY <1>1, <1>2 DEF RetentionReleased

(* A result that the cursor has not passed belongs to a group under way or to *)
(* a batch after the last joint checkpoint, which will be trained again:      *)
(* nothing is retained for ever, as long as no collection fails.              *)
THEOREM ReleasedAlways == MaxFailures = 0 => (Spec => []RetentionReleased)
<1>1. CASE MaxFailures = 0
  <2>1. IInv => RetentionReleased
    BY <1>1, InvReleased
  <2> QED  BY <2>1, Invariance, PTL
<1> QED  BY <1>1

-----------------------------------------------------------------------------
(* The queue implements PromptDelivery *)

(* The state of the abstract specification.                                   *)
Places  == [g \in Group |-> PlaceOf(g)]
Batches == [n \in 1..Cardinality(Gathered) |-> GroupsOf(n)]

(* A version that is not complete speaks for its group.                       *)
LEMMA Speaks ==
    ASSUME TypeOK, Versions, NEW t \in DOMAIN tasks, tasks[t].state # "completed", NEW S, "completed" \notin S
    PROVE  InState(tasks[t].group, S) <=> tasks[t].state \in S
<1>1. Newest(t)
  BY DEF Versions
<1>2. ASSUME NEW u \in DOMAIN tasks, tasks[u].group = tasks[t].group, tasks[u].state \in S PROVE u = t
  <2>1. Newest(u)
    BY <1>2 DEF Versions
  <2>2. u <= t /\ t <= u
    BY <1>1, <1>2, <2>1 DEF Newest
  <2> QED  BY <2>2, Types
<1> QED  BY <1>2 DEF InState, TasksOf

(* A group is under way, rejected or collected, never two of these.           *)
LEMMA Exclusive ==
    ASSUME TypeOK, Versions, Collections, NEW g
    PROVE  /\ IsOpen(g) => ~Dropped(g) /\ ~Collected(g)
           /\ Dropped(g) => ~Collected(g)
           /\ IsOpen(g) \/ Dropped(g) \/ Collected(g) => TasksOf(g) # {}
<1>1. ASSUME NEW t \in DOMAIN tasks, tasks[t].group = g, tasks[t].state # "completed" PROVE ~Collected(g)
  <2>1. Newest(t)
    BY <1>1 DEF Versions
  <2>2. ASSUME NEW n \in Rollout, NEW p \in InputsOf(n), GroupAt(p) = g PROVE FALSE
    <3>1. p \in Results /\ Newest(log[p].task)
      BY InputsAre DEF Final
    <3>2. log[p].task \in DOMAIN tasks /\ tasks[log[p].task].state = "completed"
      BY <3>1, ResultIs
    <3>3. log[p].task <= t /\ t <= log[p].task
      BY <1>1, <2>1, <2>2, <3>1, <3>2 DEF Newest, GroupAt
    <3>4. log[p].task = t
      BY <3>2, <3>3, Types
    <3> QED  BY <1>1, <3>2, <3>4
  <2> QED  BY <2>2 DEF Collected, GroupsOf
<1>2. IsOpen(g) => ~Dropped(g) /\ ~Collected(g)
  <2> SUFFICES ASSUME IsOpen(g) PROVE ~Dropped(g) /\ ~Collected(g)
    OBVIOUS
  <2>1. PICK t \in DOMAIN tasks : tasks[t].group = g /\ tasks[t].state \in {"pending", "leased"}
    BY DEF IsOpen, InState, TasksOf
  <2>2. ~InState(g, {"failed"})
    BY <2>1, Speaks
  <2> QED  BY <1>1, <2>1, <2>2 DEF Dropped
<1>3. Dropped(g) => ~Collected(g)
  BY <1>1 DEF Dropped, InState, TasksOf
<1>4. Collected(g) => TasksOf(g) # {}
  <2>1. ASSUME NEW n \in Rollout, NEW p \in InputsOf(n), GroupAt(p) = g PROVE TasksOf(g) # {}
    <3>1. log[p].task \in DOMAIN tasks
      BY InputsAre, ResultIs
    <3> QED  BY <2>1, <3>1 DEF TasksOf, GroupAt
  <2> QED  BY <2>1 DEF Collected, GroupsOf
<1>5. IsOpen(g) \/ Dropped(g) => TasksOf(g) # {}
  BY DEF IsOpen, Dropped, InState
<1> QED  BY <1>2, <1>3, <1>4, <1>5

(* The place of a group.                                                      *)
LEMMA Placed ==
    ASSUME TypeOK, Versions, Collections, NEW g
    PROVE  /\ TasksOf(g) = {} => PlaceOf(g) = "unread"
           /\ IsOpen(g) => PlaceOf(g) = "open"
           /\ TasksOf(g) # {} /\ ~IsOpen(g) /\ ~Dropped(g) /\ ~Collected(g) => PlaceOf(g) = "accepted"
BY Exclusive DEF PlaceOf

(* A group that is free has been accepted.                                    *)
LEMMA FreePlaced ==
    ASSUME TypeOK, Versions, Collections, NEW p, Free(p)
    PROVE  /\ TasksOf(GroupAt(p)) # {} /\ ~IsOpen(GroupAt(p)) /\ ~Dropped(GroupAt(p)) /\ ~Collected(GroupAt(p))
           /\ GroupAt(p) \in Group
<1>1. p \in Results /\ Newest(log[p].task) /\ ~Collected(GroupAt(p))
  BY DEF Free, Final
<1>2. log[p].task \in DOMAIN tasks /\ tasks[log[p].task].state = "completed" /\ GroupAt(p) \in Group
  BY <1>1, ResultIs
<1>3. ASSUME NEW t \in DOMAIN tasks, tasks[t].group = GroupAt(p), tasks[t].state # "completed" PROVE FALSE
  <2>1. Newest(t)
    BY <1>3 DEF Versions
  <2>2. t <= log[p].task /\ log[p].task <= t
    BY <1>1, <1>2, <1>3, <2>1 DEF Newest, GroupAt
  <2>3. t = log[p].task
    BY <1>2, <2>2, Types
  <2> QED  BY <1>2, <1>3, <2>3
<1>4. ~IsOpen(GroupAt(p)) /\ ~Dropped(GroupAt(p))
  BY <1>3 DEF IsOpen, Dropped, InState, TasksOf
<1>5. TasksOf(GroupAt(p)) # {}
  BY <1>2 DEF TasksOf, GroupAt
<1> QED  BY <1>1, <1>2, <1>4, <1>5

(* A step that moves no group and collects nothing.                           *)
SameGroups ==
    \A n \in Rollout : Positions("collection", n)' = Positions("collection", n) /\ GroupsOf(n)' = GroupsOf(n)

(* A group of which nothing changes stays where it is.                       *)
LEMMA PlaceKeeps ==
    ASSUME NEW g, TasksOf(g)' = {} <=> TasksOf(g) = {}, IsOpen(g)' <=> IsOpen(g), Dropped(g)' <=> Dropped(g),
           Collected(g)' <=> Collected(g)
    PROVE  PlaceOf(g)' = PlaceOf(g)
BY DEF PlaceOf

(* The rollouts that have collected are the first ones.                       *)
LEMMA GatheredIs ==
    ASSUME IInv
    PROVE  /\ \E k \in 0..MaxRollouts : Gathered = 1..k /\ Cardinality(Gathered) = k
           /\ Gathered \subseteq Rollout
<1> USE DEF IInv
<1>1. Rollout = 1..MaxRollouts /\ MaxRollouts \in Nat /\ Rollout \subseteq Nat /\ boundary \in Nat
  BY Constants, Types DEF Rollout
<1>2. ASSUME NEW n \in Gathered, NEW m \in Rollout, m < n PROVE m \in Gathered
  <2>1. n \in Rollout /\ Positions("collection", n) # {}
    BY DEF Gathered
  <2>2. CASE m <= boundary
    BY <2>2 DEF Trained, Settled, Gathered
  <2>3. CASE boundary < m
    <3>1. ~(n <= boundary)
      BY <1>1, <1>2, <2>1, <2>3
    <3>2. Below(n)
      BY <2>1, <3>1 DEF Window
    <3>3. window[m] # "absent"
      BY <1>2, <2>3, <3>2 DEF Below
    <3> QED  BY <3>3 DEF Window, Gathered
  <2> QED  BY <1>1, <2>2, <2>3
<1>3. Gathered \subseteq Rollout
  BY DEF Gathered
<1>4. \E k \in 0..MaxRollouts : Gathered = 1..k
  <2>1. CASE Gathered = {}
    BY <1>1, <2>1
  <2>2. CASE Gathered # {}
    <3>1. Gathered \in SUBSET Nat /\ \A n \in Gathered : n <= MaxRollouts
      BY <1>1, <1>3
    <3>2. PICK k \in Gathered : \A n \in Gathered : n <= k
      BY <1>1, <2>2, <3>1, Greatest
    <3>3. k \in Rollout
      BY <1>3
    <3>4. \A n \in 1..k : n \in Rollout /\ (n < k \/ n = k)
      BY <1>1, <3>3
    <3>5. 1..k \subseteq Gathered
      BY <1>2, <3>2, <3>4
    <3>6. Gathered \subseteq 1..k
      BY <1>1, <1>3, <3>2
    <3>7. Gathered = 1..k
      BY <3>5, <3>6
    <3>8. k \in 0..MaxRollouts
      BY <1>1, <3>3
    <3> QED  BY <3>7, <3>8
  <2> QED  BY <2>1, <2>2
<1>5. ASSUME NEW k \in 0..MaxRollouts PROVE Cardinality(1..k) = k
  <2>1. k \in Int /\ k \in Nat /\ 1 \in Int
    BY <1>1
  <2>2. Cardinality(1..k) = IF 1 > k THEN 0 ELSE k - 1 + 1
    BY <2>1, FS_Interval
  <2> QED  BY <2>1, <2>2
<1> QED  BY <1>3, <1>4, <1>5

(* A step that collects nothing leaves the batches.                          *)
LEMMA BatchesKeep == ASSUME IInv, SameGroups PROVE Batches' = Batches
<1>1. Gathered' = Gathered
  BY DEF Gathered, SameGroups
<1>2. PICK k \in 0..MaxRollouts : Gathered = 1..k /\ Cardinality(Gathered) = k
  BY GatheredIs
<1>3. \A n \in 1..Cardinality(Gathered) : n \in Rollout
  BY <1>2, GatheredIs
<1>4. Batches' = [n \in 1..Cardinality(Gathered) |-> GroupsOf(n)']
  BY <1>1 DEF Batches
<1> QED  BY <1>3, <1>4 DEF Batches, SameGroups

(* Groups that move from one place to another.                                *)
LEMMA Moves ==
    ASSUME NEW G \in SUBSET Group, G # {}, NEW from, NEW to, \A g \in G : PlaceOf(g) = from /\ PlaceOf(g)' = to,
           \A g \in Group : g \notin G => PlaceOf(g)' = PlaceOf(g)
    PROVE  Abstract!Move(G, from, to)
BY DEF Abstract!Move, Abstract!Place

Implements == [Abstract!Next]_<<Places, Batches>>

(* Neither the tasks nor the log change.                                      *)
LEMMA QuietStep == ASSUME IInv, UNCHANGED <<tasks, log>> PROVE UNCHANGED <<Places, Batches>>
<1>1. \A g : TasksOf(g)' = TasksOf(g) /\ (IsOpen(g)' <=> IsOpen(g)) /\ (Dropped(g)' <=> Dropped(g))
  BY DEF TasksOf, IsOpen, Dropped, InState
<1>2. SameGroups
  BY DEF SameGroups, Positions, GroupsOf, InputsOf, GroupAt
<1>3. \A g : Collected(g)' <=> Collected(g)
  BY <1>2 DEF Collected, SameGroups
<1>4. \A g : PlaceOf(g)' = PlaceOf(g)
  BY <1>1, <1>3, PlaceKeeps
<1> QED  BY <1>2, <1>4, BatchesKeep DEF Places

(* A group that is open stays open.                                           *)
LEMMA LeaseQuiet ==
    ASSUME IInv, Leases, active' = active,
           \A u \in DOMAIN tasks : /\ tasks'[u].state \in {"pending", "leased"} <=> tasks[u].state \in {"pending", "leased"}
                                   /\ tasks'[u].state = "failed" <=> tasks[u].state = "failed"
    PROVE  UNCHANGED <<Places, Batches>>
<1>1. DOMAIN tasks' = DOMAIN tasks /\ \A u \in DOMAIN tasks : tasks'[u].group = tasks[u].group
  BY DEF Leases
<1>2. \A g : TasksOf(g)' = TasksOf(g) /\ (IsOpen(g)' <=> IsOpen(g)) /\ (Dropped(g)' <=> Dropped(g))
  BY <1>1 DEF TasksOf, IsOpen, Dropped, InState
<1>3. Steady
  BY Leased
<1>4. \A g : PlaceOf(g)' = PlaceOf(g)
  BY <1>2, <1>3, PlaceKeeps DEF Steady
<1>5. SameGroups
  BY <1>3 DEF SameGroups, Steady
<1> QED  BY <1>4, <1>5, BatchesKeep DEF Places

(* One task changes its state.                                                *)
LEMMA OneTask ==
    ASSUME TypeOK, TypeOK', NEW t \in DOMAIN tasks, UNCHANGED <<produced, planned, log>>,
           NEW k, tasks' = [tasks EXCEPT ![t] = k], k.group = tasks[t].group, k.sources = tasks[t].sources,
           tasks[t].state \in {"pending", "leased"}, k.state # "completed"
    PROVE  /\ Leases /\ tasks'[t] = k
           /\ \A u \in DOMAIN tasks : u # t => tasks'[u] = tasks[u]
<1>1. DOMAIN tasks' = DOMAIN tasks /\ tasks'[t] = k /\ \A u \in DOMAIN tasks : u # t => tasks'[u] = tasks[u]
  BY DEF TypeOK
<1> QED  BY <1>1 DEF Leases, TypeOK

(* take of a pending task moves no group.                                    *)
LEMMA AcquireQuiet == ASSUME IInv, IInv', NEW r \in Reader, Acquire(r) PROVE UNCHANGED <<Places, Batches>>
<1> USE DEF IInv
<1>1. UNCHANGED <<produced, planned, log, active>>
  BY DEF Acquire
<1>2. PICK t \in Pending : tasks' = [tasks EXCEPT ![t].state = "leased", ![t].worker = r, ![t].attempt = @ + 1]
  BY DEF Acquire
<1>3. t \in DOMAIN tasks /\ tasks[t].state = "pending" /\ tasks[t] \in Task
  BY Types DEF Pending
<1> DEFINE k == [tasks[t] EXCEPT !.state = "leased", !.worker = r, !.attempt = @ + 1]
<1>4. tasks' = [tasks EXCEPT ![t] = k]
  BY <1>2
<1>5. k.group = tasks[t].group /\ k.sources = tasks[t].sources /\ k.state = "leased"
  BY <1>3 DEF Task
<1> HIDE DEF k
<1>6. Leases /\ tasks'[t] = k /\ \A u \in DOMAIN tasks : u # t => tasks'[u] = tasks[u]
  BY <1>1, <1>3, <1>4, <1>5, OneTask
<1> QED  BY <1>1, <1>3, <1>5, <1>6, LeaseQuiet

(* A returned task moves no group.                                           *)
LEMMA ReturnQuiet == ASSUME IInv, IInv', NEW r \in Reader, Return(r) PROVE UNCHANGED <<Places, Batches>>
<1> USE DEF IInv
<1>1. reader[r].at = "holding" /\ UNCHANGED <<produced, planned, log, active>>
  BY DEF Return
<1> DEFINE t == Held(r)
<1>2. t \in DOMAIN tasks
  BY <1>1 DEF AtWork, Held
<1>3. CASE ~Valid(r)
  BY <1>1, <1>3, QuietStep DEF Return
<1>4. CASE Valid(r)
  <2>1. PICK s \in tasks[t].stage..Max({1, tasks[t].stage}) : tasks' = [tasks EXCEPT ![t].state = "pending", ![t].stage = s]
    BY <1>4 DEF Return
  <2>2. tasks[t].state = "leased" /\ tasks[t] \in Task
    BY <1>2, <1>4, Types DEF Valid
  <2> DEFINE k == [tasks[t] EXCEPT !.state = "pending", !.stage = s]
  <2>3. tasks' = [tasks EXCEPT ![t] = k]
    BY <2>1
  <2>4. k.group = tasks[t].group /\ k.sources = tasks[t].sources /\ k.state = "pending"
    BY <2>2 DEF Task
  <2> HIDE DEF k, t
  <2>5. Leases /\ tasks'[t] = k /\ \A u \in DOMAIN tasks : u # t => tasks'[u] = tasks[u]
    BY <1>1, <1>2, <2>2, <2>3, <2>4, OneTask
  <2> QED  BY <1>1, <1>2, <2>2, <2>4, <2>5, LeaseQuiet
<1> QED  BY <1>3, <1>4

(* An expired lease moves no group.                                          *)
LEMMA ExpireQuiet == ASSUME IInv, IInv', NEW t \in DOMAIN tasks, Expire(t) PROVE UNCHANGED <<Places, Batches>>
<1> USE DEF IInv
<1>1. /\ tasks[t].state = "leased" /\ tasks[t] \in Task /\ tasks' = [tasks EXCEPT ![t].state = "pending"]
      /\ UNCHANGED <<produced, planned, log, active>>
  BY Types DEF Expire
<1> DEFINE k == [tasks[t] EXCEPT !.state = "pending"]
<1>2. tasks' = [tasks EXCEPT ![t] = k]
  BY <1>1
<1>3. k.group = tasks[t].group /\ k.sources = tasks[t].sources /\ k.state = "pending"
  BY <1>1 DEF Task
<1> HIDE DEF k
<1>4. Leases /\ tasks'[t] = k /\ \A u \in DOMAIN tasks : u # t => tasks'[u] = tasks[u]
  BY <1>1, <1>2, <1>3, OneTask
<1> QED  BY <1>1, <1>3, <1>4, LeaseQuiet

(* A fenced reader moves no group.                                           *)
LEMMA FenceQuiet ==
    ASSUME IInv, IInv', NEW r \in Reader, Fence(r), UNCHANGED <<produced, planned, log, active>>
    PROVE  UNCHANGED <<Places, Batches>>
<1> USE DEF IInv
<1>1. tasks' = [t \in DOMAIN tasks |->
           IF tasks[t].state = "leased" /\ tasks[t].worker = r
           THEN [tasks[t] EXCEPT !.state = "pending"] ELSE tasks[t]]
  BY DEF Fence
<1>2. ASSUME NEW t \in DOMAIN tasks
      PROVE  /\ tasks'[t].group = tasks[t].group /\ tasks'[t].sources = tasks[t].sources
             /\ tasks'[t] = tasks[t] \/ (tasks'[t].state = "pending" /\ tasks[t].state = "leased")
  <2>1. tasks[t] \in Task
    BY Types
  <2>2. CASE tasks[t].state = "leased" /\ tasks[t].worker = r
    <3>1. tasks'[t] = [tasks[t] EXCEPT !.state = "pending"]
      BY <1>1, <2>2
    <3> QED  BY <2>1, <2>2, <3>1 DEF Task
  <2>3. CASE ~(tasks[t].state = "leased" /\ tasks[t].worker = r)
    BY <1>1, <2>3
  <2> QED  BY <2>2, <2>3
<1>3. DOMAIN tasks' = DOMAIN tasks
  BY <1>1
<1>4. Leases
  BY <1>2, <1>3 DEF Leases, TypeOK
<1> QED  BY <1>2, <1>4, LeaseQuiet

(* The groups of a refill are read.                                           *)
LEMMA RefillReads == ASSUME IInv, IInv', NEW r \in Reader, Refill(r) PROVE \E G \in SUBSET Group : Abstract!Read(G)
<1> USE DEF IInv
<1> DEFINE k == produced' - produced
           G == (produced + 1)..produced'
<1>1. /\ produced < MaxGroups /\ produced' = Min({produced + RefillSize, MaxGroups})
      /\ tasks' = tasks \o [i \in 1..k |-> NewTask(produced + i, {}, 0)]
      /\ UNCHANGED <<planned, log, active>>
  BY DEF Refill
<1>2. produced \in Nat /\ produced' \in 0..MaxGroups /\ produced < produced' /\ k \in Nat
  <2>1. produced \in Nat /\ RefillSize \in Nat \ {0} /\ MaxGroups \in Nat
    BY Constants, Types
  <2>2. produced' = IF produced + RefillSize <= MaxGroups THEN produced + RefillSize ELSE MaxGroups
    BY <1>1, <2>1, MinOfTwo
  <2>3. CASE produced + RefillSize <= MaxGroups
    BY <2>1, <2>2, <2>3
  <2>4. CASE ~(produced + RefillSize <= MaxGroups)
    BY <1>1, <2>1, <2>2, <2>4
  <2> QED  BY <2>3, <2>4
<1>3. produced + k <= MaxGroups /\ produced' = produced + k /\ 1 <= k
  <2>1. MaxGroups \in Nat
    BY Constants
  <2>2. produced' \in Nat /\ produced' <= MaxGroups
    BY <1>2, <2>1
  <2>3. \A a, b \in Nat : a < b => a + (b - a) = b /\ 1 <= b - a
    OBVIOUS
  <2>4. produced + k = produced' /\ 1 <= k
    BY <1>2, <2>2, <2>3
  <2> QED  BY <2>2, <2>4
<1>4. G \in SUBSET Group /\ produced + 1 \in G
  <2>1. MaxGroups \in Nat
    BY Constants
  <2> QED  BY <1>2, <2>1 DEF Group
<1>5. \A g \in G : ~(g <= produced) /\ g \in Nat /\ g - produced \in Nat /\ 1 <= g - produced /\ g <= produced'
  BY <1>2
<1>6. \A g \in Nat : ~(g <= produced) /\ g <= produced' => g \in G
  BY <1>2
<1> HIDE DEF G
<1>7. tasks' = tasks \o [i \in 1..k |-> NewTask(produced + i, {}, 0)] /\ k \in Nat
  BY <1>1, <1>2
<1> HIDE DEF k
<1>8. /\ Len(tasks') = Len(tasks) + k /\ Len(tasks) \in Nat
      /\ DOMAIN tasks = 1..Len(tasks) /\ DOMAIN tasks' = 1..(Len(tasks) + k) /\ DOMAIN tasks \subseteq DOMAIN tasks'
      /\ \A t \in DOMAIN tasks : tasks'[t] = tasks[t] /\ tasks[t].group <= produced /\ tasks[t].group \in Nat
      /\ \A t \in DOMAIN tasks' : t \notin DOMAIN tasks =>
             /\ tasks'[t].group = produced + (t - Len(tasks)) /\ tasks'[t].state = "pending"
             /\ tasks'[t].group \in Nat /\ ~(tasks'[t].group <= produced) /\ tasks'[t].group <= produced'
  BY <1>3, <1>7, Added, Types
<1>9. \A t \in DOMAIN tasks : t \in DOMAIN tasks' /\ tasks'[t] = tasks[t] /\ tasks[t].group \notin G
  BY <1>5, <1>8
<1>10. \A t \in DOMAIN tasks' : t \notin DOMAIN tasks => tasks'[t].group \in G /\ tasks'[t].state = "pending"
  BY <1>6, <1>8
<1>11. ASSUME NEW g \in G PROVE \E t \in DOMAIN tasks' : tasks'[t].group = g /\ tasks'[t].state = "pending"
  <2> DEFINE t == Len(tasks) + (g - produced)
  <2>1. g - produced <= k /\ produced \in Nat /\ g \in Nat
    BY <1>2, <1>3, <1>5, <1>7
  <2>2. t \in DOMAIN tasks' /\ t \notin DOMAIN tasks /\ produced + (t - Len(tasks)) = g
    <3>1. Len(tasks) \in Nat /\ g - produced \in Nat /\ 1 <= g - produced /\ k \in Nat
      BY <1>5, <1>7, <1>8
    <3>2. t \in 1..(Len(tasks) + k) /\ t \notin 1..Len(tasks) /\ produced + (t - Len(tasks)) = g
      BY <2>1, <3>1
    <3> QED  BY <1>8, <3>2
  <2> HIDE DEF t
  <2> QED  BY <1>8, <2>2
<1>12. /\ Grown /\ SamePositions("collection")
       /\ \A g : Dropped(g)' <=> Dropped(g)
  BY <1>1, <1>3, <1>7, Refilled
<1>13. \A g : Collected(g)' <=> Collected(g)
  BY <1>12, CollectionsKeep
<1>14. SameGroups
  BY <1>12, CollectionsKeep DEF SameGroups, SamePositions
<1>15. ASSUME NEW g \in G PROVE PlaceOf(g) = "unread" /\ PlaceOf(g)' = "open"
  <2>1. TasksOf(g) = {}
    BY <1>9 DEF TasksOf
  <2>2. PlaceOf(g) = "unread" /\ ~Dropped(g) /\ ~Collected(g)
    BY <2>1, Placed, Exclusive
  <2>4. TasksOf(g)' # {} /\ IsOpen(g)'
    BY <1>11 DEF TasksOf, IsOpen, InState
  <2> QED  BY <1>12, <1>13, <2>2, <2>4 DEF PlaceOf
<1>16. ASSUME NEW g, g \notin G PROVE PlaceOf(g)' = PlaceOf(g)
  <2>1. TasksOf(g)' = TasksOf(g)
    BY <1>9, <1>10, <1>16 DEF TasksOf
  <2>2. IsOpen(g)' <=> IsOpen(g)
    BY <1>9, <2>1 DEF IsOpen, InState, TasksOf
  <2> QED  BY <1>12, <1>13, <2>1, <2>2, PlaceKeeps
<1>17. Abstract!Move(G, "unread", "open")
  BY <1>4, <1>15, <1>16, Moves
<1>18. Batches' = Batches
  BY <1>14, BatchesKeep
<1> QED  BY <1>4, <1>17, <1>18 DEF Abstract!Read, Batches

(* An accepted result moves its group to the accepted ones.                   *)
LEMMA CompleteAccepts ==
    ASSUME IInv, IInv', NEW r \in Reader, Complete(r)
    PROVE  UNCHANGED <<Places, Batches>> \/ \E g \in Group : Abstract!Accept(g)
<1> USE DEF IInv
<1>1. reader[r].at = "holding" /\ UNCHANGED <<produced, planned, active>>
  BY DEF Complete
<1>2. CASE ~(Valid(r) /\ r \notin retired)
  BY <1>2, QuietStep DEF Complete
<1>3. CASE Valid(r) /\ r \notin retired
  <2> DEFINE t == Held(r)
             g == tasks[t].group
             k == [tasks[t] EXCEPT !.state = "completed"]
  <2>1. /\ log' = Append(log, [kind |-> "group", task |-> t, worker |-> r, rollout |-> 0, inputs |-> {}])
        /\ tasks' = [tasks EXCEPT ![t].state = "completed"]
    BY <1>3 DEF Complete
  <2>2. t \in DOMAIN tasks /\ tasks[t].state = "leased" /\ r \in active
    BY <1>1, <1>3 DEF Valid, AtWork, Held
  <2> HIDE DEF t
  <2>3. tasks[t] \in Task /\ g \in Group
    BY <2>2, Types DEF Task
  <2>4. k.group = g /\ k.state = "completed"
    BY <2>3 DEF Task
  <2>5. tasks' = [tasks EXCEPT ![t] = k]
    BY <2>1
  <2> HIDE DEF k
  <2>6. DOMAIN tasks' = DOMAIN tasks /\ tasks'[t] = k /\ \A u \in DOMAIN tasks : u # t => tasks'[u] = tasks[u]
    BY <2>2, <2>5
  <2>7. /\ Grown /\ SamePositions("collection")
        /\ \A h : Dropped(h)' <=> Dropped(h)
    BY <1>1, <2>1, <2>2, ResultAppended
  <2>8. \A h : Collected(h)' <=> Collected(h)
    BY <2>7, CollectionsKeep
  <2>9. SameGroups
    BY <2>7, CollectionsKeep DEF SameGroups, SamePositions
  <2>10. \A h : TasksOf(h)' = TasksOf(h)
    BY <2>4, <2>6 DEF TasksOf
  <2>11. IsOpen(g)
    BY <2>2 DEF IsOpen, InState, TasksOf
  <2>12. \A h : h = g => ~IsOpen(h)'
    <3>1. ASSUME NEW u \in DOMAIN tasks, tasks[u].group = g, u # t PROVE tasks[u].state = "completed"
      <4>1. Newest(t)
        BY <2>2 DEF Versions
      <4>2. ~Newest(u)
        <5>1. Newest(u) => u <= t /\ t <= u
          BY <2>2, <3>1, <4>1 DEF Newest
        <5> QED  BY <2>2, <3>1, <5>1, Types
      <4> QED  BY <4>2 DEF Versions
    <3> QED  BY <2>4, <2>6, <2>10, <3>1 DEF IsOpen, InState, TasksOf
  <2>13. \A h : h # g => (IsOpen(h)' <=> IsOpen(h))
    BY <2>4, <2>6 DEF IsOpen, InState, TasksOf
  <2> HIDE DEF g
  <2>14. PlaceOf(g) = "open" /\ ~Dropped(g) /\ ~Collected(g) /\ TasksOf(g) # {}
    BY <2>11, Placed, Exclusive
  <2>15. \A h : h = g => PlaceOf(h)' = "accepted"
    BY <2>7, <2>8, <2>10, <2>12, <2>14 DEF PlaceOf
  <2>16. \A h : h # g => PlaceOf(h)' = PlaceOf(h)
    BY <2>7, <2>8, <2>10, <2>13, PlaceKeeps
  <2>17. ASSUME NEW h \in Group, h = g PROVE Abstract!Accept(h)
    <3>1. Abstract!Move({h}, "open", "accepted")
      BY <2>14, <2>15, <2>16, <2>17, Moves
    <3> QED  BY <2>9, <3>1, BatchesKeep DEF Abstract!Accept, Batches
  <2> QED  BY <2>3, <2>17
<1> QED  BY <1>2, <1>3

(* A rejection drops its group.                                               *)
LEMMA RejectDrops ==
    ASSUME IInv, IInv', NEW r \in Reader, Reject(r)
    PROVE  UNCHANGED <<Places, Batches>> \/ \E g \in Group : Abstract!Drop(g)
<1> USE DEF IInv
<1>1. reader[r].at = "holding" /\ UNCHANGED <<produced, planned, log, active>>
  BY DEF Reject
<1>2. CASE ~Valid(r)
  BY <1>1, <1>2, QuietStep DEF Reject
<1>3. CASE Valid(r)
  <2> DEFINE t == Held(r)
             g == tasks[t].group
             k == [tasks[t] EXCEPT !.state = "failed"]
  <2>1. tasks' = [tasks EXCEPT ![t].state = "failed"]
    BY <1>3 DEF Reject
  <2>2. t \in DOMAIN tasks /\ tasks[t].state = "leased"
    BY <1>1, <1>3 DEF Valid, AtWork, Held
  <2> HIDE DEF t
  <2>3. tasks[t] \in Task /\ g \in Group
    BY <2>2, Types DEF Task
  <2>4. k.group = g /\ k.state = "failed" /\ k.sources = tasks[t].sources
    BY <2>3 DEF Task
  <2>5. tasks' = [tasks EXCEPT ![t] = k]
    BY <2>1
  <2> HIDE DEF k
  <2>6. Leases /\ tasks'[t] = k /\ \A u \in DOMAIN tasks : u # t => tasks'[u] = tasks[u]
    BY <1>1, <2>2, <2>4, <2>5, OneTask
  <2>7. DOMAIN tasks' = DOMAIN tasks
    BY <2>6 DEF Leases
  <2>8. Steady
    BY <1>1, <2>6, Leased
  <2>9. \A h : TasksOf(h)' = TasksOf(h)
    BY <2>4, <2>6, <2>7 DEF TasksOf
  <2>10. IsOpen(g)
    BY <2>2 DEF IsOpen, InState, TasksOf
  <2>11. \A h : h = g => ~IsOpen(h)' /\ Dropped(h)'
    <3>1. ASSUME NEW u \in DOMAIN tasks, tasks[u].group = g, u # t PROVE tasks[u].state = "completed"
      <4>1. Newest(t)
        BY <2>2 DEF Versions
      <4>2. ~Newest(u)
        <5>1. Newest(u) => u <= t /\ t <= u
          BY <2>2, <3>1, <4>1 DEF Newest
        <5> QED  BY <2>2, <3>1, <5>1, Types
      <4> QED  BY <4>2 DEF Versions
    <3> QED  BY <2>2, <2>4, <2>6, <2>7, <3>1 DEF IsOpen, Dropped, InState, TasksOf
  <2>12. \A h : h # g => (IsOpen(h)' <=> IsOpen(h)) /\ (Dropped(h)' <=> Dropped(h))
    BY <2>4, <2>6, <2>7 DEF IsOpen, Dropped, InState, TasksOf
  <2> HIDE DEF g
  <2>13. PlaceOf(g) = "open" /\ ~Collected(g) /\ TasksOf(g) # {}
    BY <2>10, Placed, Exclusive
  <2>14. \A h : h = g => PlaceOf(h)' = "dropped"
    BY <2>8, <2>9, <2>11, <2>13 DEF PlaceOf, Steady
  <2>15. \A h : h # g => PlaceOf(h)' = PlaceOf(h)
    BY <2>8, <2>9, <2>12, PlaceKeeps DEF Steady
  <2>16. SameGroups
    BY <2>8 DEF SameGroups, Steady
  <2>17. ASSUME NEW h \in Group, h = g PROVE Abstract!Drop(h)
    <3>1. Abstract!Move({h}, "open", "dropped")
      BY <2>13, <2>14, <2>15, <2>17, Moves
    <3> QED  BY <2>16, <3>1, BatchesKeep DEF Abstract!Drop, Batches
  <2> QED  BY <2>3, <2>17
<1> QED  BY <1>2, <1>3

(* A recovered result opens its group again.                                  *)
LEMMA DeliverReopens ==
    ASSUME IInv, IInv', NEW p \in recovered, Deliver(p)
    PROVE  \E g \in Group : Abstract!Reopen(g)
<1> USE DEF IInv
<1> DEFINE g == GroupAt(p)
           k == NewTask(tasks[log[p].task].group, SourcesOf(p) \cup {p}, 2)
<1>1. /\ tasks' = Append(tasks, k)
      /\ UNCHANGED <<produced, planned, log, active>>
  BY DEF Deliver
<1>2. Free(p) /\ p \in Nat
  BY DEF Restoration, TypeOK
<1>3. TasksOf(g) # {} /\ ~IsOpen(g) /\ ~Dropped(g) /\ ~Collected(g) /\ g \in Group
  BY <1>2, FreePlaced
<1>4. /\ Grown /\ SamePositions("collection")
      /\ \A h : Dropped(h)' <=> Dropped(h)
  BY <1>1, <1>2, Delivered
<1>5. \A h : Collected(h)' <=> Collected(h)
  BY <1>4, CollectionsKeep
<1>6. SameGroups
  BY <1>4, CollectionsKeep DEF SameGroups, SamePositions
<1>7. k.group = g /\ k.state = "pending"
  BY DEF NewTask, GroupAt
<1> HIDE DEF k, g
<1>8. /\ DOMAIN tasks' = DOMAIN tasks \cup {Len(tasks) + 1} /\ Len(tasks) + 1 \notin DOMAIN tasks
      /\ tasks'[Len(tasks) + 1] = k /\ \A t \in DOMAIN tasks : tasks'[t] = tasks[t]
  <2>1. tasks \in Seq(Task) /\ Len(tasks) \in Nat /\ DOMAIN tasks = 1..Len(tasks)
    BY Types DEF TypeOK
  <2> QED  BY <1>1, <2>1
<1>9. \A h : h = g => IsOpen(h)' /\ TasksOf(h)' # {}
  BY <1>7, <1>8 DEF IsOpen, InState, TasksOf
<1>10. \A h : h # g => TasksOf(h)' = TasksOf(h)
  BY <1>7, <1>8 DEF TasksOf
<1>11. \A h : h # g => (IsOpen(h)' <=> IsOpen(h))
  BY <1>7, <1>8 DEF IsOpen, InState, TasksOf
<1>12. PlaceOf(g) = "accepted"
  BY <1>3, Placed
<1>13. \A h : h = g => PlaceOf(h)' = "open"
  BY <1>3, <1>4, <1>5, <1>9 DEF PlaceOf
<1>14. \A h : h # g => PlaceOf(h)' = PlaceOf(h)
  BY <1>4, <1>5, <1>10, <1>11, PlaceKeeps
<1>15. ASSUME NEW h \in Group, h = g PROVE Abstract!Reopen(h)
  <2>1. Abstract!Move({h}, "accepted", "open")
    BY <1>12, <1>13, <1>14, <1>15, Moves
  <2> QED  BY <1>6, <2>1, BatchesKeep DEF Abstract!Reopen, Batches
<1> QED  BY <1>3, <1>15

(* A conversion moves no group.                                               *)
LEMMA AcceptBatchQuiet == ASSUME IInv, IInv', AcceptBatch PROVE UNCHANGED <<Places, Batches>>
<1> USE DEF IInv
<1>1. /\ managerAt = "convert"
      /\ log' = Append(log, [kind |-> "batch", task |-> 0, worker |-> NoReader, rollout |-> rollout, inputs |-> {}])
      /\ UNCHANGED <<produced, tasks, planned, active>>
  BY DEF AcceptBatch
<1>2. planned[rollout] # {}
  BY <1>1 DEF Stages
<1>3. /\ Grown /\ SamePositions("collection")
      /\ \A h : Dropped(h)' <=> Dropped(h)
  BY <1>1, <1>2, BatchAppended
<1>4. \A h : Collected(h)' <=> Collected(h)
  BY <1>3, CollectionsKeep
<1>5. SameGroups
  BY <1>3, CollectionsKeep DEF SameGroups, SamePositions
<1>6. \A h : TasksOf(h)' = TasksOf(h) /\ (IsOpen(h)' <=> IsOpen(h))
  BY <1>1 DEF TasksOf, IsOpen, InState
<1>7. \A h : PlaceOf(h)' = PlaceOf(h)
  BY <1>3, <1>4, <1>6, PlaceKeeps
<1> QED  BY <1>5, <1>7, BatchesKeep DEF Places

(* A sequence with one more element at its end.                               *)
LEMMA AppendIs ==
    ASSUME NEW k \in Nat, NEW T, NEW h \in [1..k -> T], NEW G,
           NEW b, b = [n \in 1..(k + 1) |-> IF n = k + 1 THEN G ELSE h[n]]
    PROVE  Append(h, G) = b
<1> DEFINE U == T \cup {G}
           a == Append(h, G)
<1>1. h \in Seq(U) /\ Len(h) = k /\ G \in U
  <2>1. h \in [1..k -> U]
    OBVIOUS
  <2> QED  BY <2>1
<1> HIDE DEF U
<1>2. a \in Seq(U) /\ Len(a) = k + 1
  BY <1>1
<1>3. \A n \in 1..(k + 1) : a[n] = IF n = k + 1 THEN G ELSE h[n]
  BY <1>1
<1>4. b \in [1..(k + 1) -> U] /\ \A n \in 1..(k + 1) : b[n] = IF n = k + 1 THEN G ELSE h[n]
  <2>1. \A n \in 1..(k + 1) : n # k + 1 => n \in 1..k
    OBVIOUS
  <2>2. \A n \in 1..k : h[n] \in U
    BY <1>1
  <2> QED  BY <1>1, <2>1, <2>2
<1> HIDE DEF a
<1>5. a \in [1..(k + 1) -> U]
  BY <1>2
<1>6. a = b
  BY <1>3, <1>4, <1>5
<1> QED  BY <1>6 DEF a

(* A set whose members have different groups has as many groups.              *)
LEMMA ManyGroups ==
    ASSUME NEW S, IsFiniteSet(S), NEW f, DOMAIN f = S, \A p, q \in S : f[p] = f[q] => p = q
    PROVE  Cardinality({f[p] : p \in S}) = Cardinality(S)
<1> DEFINE T == {f[p] : p \in S}
           g == [p \in S |-> f[p]]
<1>1. g \in [S -> T] /\ \A t \in T : \E s \in S : g[s] = t
  OBVIOUS
<1>2. \A p, q \in S : g[p] = g[q] => p = q
  OBVIOUS
<1>3. g \in Bijection(S, T)
  BY <1>1, <1>2 DEF Bijection, Injection, Surjection, IsInjective
<1>4. ExistsBijection(S, T)
  BY <1>3 DEF ExistsBijection
<1> QED  BY <1>4, FS_Bijection

(* A batch of accepted groups is collected.                                   *)
LEMMA CollectionCollects == ASSUME IInv, IInv', AcceptCollection PROVE \E G \in SUBSET Group : Abstract!Collect(G)
<1> USE DEF IInv
<1>1. PICK S \in kSubset(Batch, ready) :
        log' = Append(log, [kind |-> "collection", task |-> 0, worker |-> NoReader, rollout |-> rollout, inputs |-> S])
  BY DEF AcceptCollection
<1>2. /\ Positions("collection", rollout) = {} /\ rollout \in Rollout
      /\ UNCHANGED <<produced, tasks, planned, active, rollout>>
  BY DEF AcceptCollection, TypeOK
<1>3. S \subseteq ready /\ Cardinality(S) = Batch
  BY DEF kSubset
<1>4. S \in SUBSET Nat /\ \A p \in S : Free(p)
  BY <1>3 DEF Hands, TypeOK
<1> DEFINE G == {GroupAt(p) : p \in S}
<1>5. /\ Grown /\ Results' = Results
      /\ \A n : Positions("collection", n)' = IF n = rollout THEN {Len(log) + 1} ELSE Positions("collection", n)
      /\ \A n \in Rollout : GroupsOf(n)' = IF n = rollout THEN G ELSE GroupsOf(n)
      /\ \A g : Dropped(g)' <=> Dropped(g)
  BY <1>1, <1>2, <1>4, CollectionAppended
<1>6. IsFiniteSet(S)
  <2>1. IsFiniteSet(1..Len(log))
    <3>1. 1 \in Int /\ Len(log) \in Int
      BY Types
    <3> QED  BY <3>1, FS_Interval
  <2>2. S \in SUBSET (1..Len(log))
    BY <1>4, ResultIs, Types DEF Free, Final
  <2> QED  BY <2>1, <2>2, FS_Subset
<1>7. Cardinality(G) = Batch
  <2> DEFINE f == [p \in S |-> GroupAt(p)]
  <2>1. DOMAIN f = S /\ \A p \in S : f[p] = GroupAt(p)
    OBVIOUS
  <2>2. \A p, q \in S : GroupAt(p) = GroupAt(q) => p = q
    BY <1>4, OneFinal DEF Free
  <2> HIDE DEF f
  <2>3. Cardinality({f[p] : p \in S}) = Cardinality(S)
    BY <1>6, <2>1, <2>2, ManyGroups
  <2>4. {f[p] : p \in S} = G
    BY <2>1
  <2> QED  BY <1>3, <2>3, <2>4
<1>8. G \in SUBSET Group /\ \A g \in G : TasksOf(g) # {} /\ ~IsOpen(g) /\ ~Dropped(g) /\ ~Collected(g)
  BY <1>4, FreePlaced
<1>9. G # {}
  <2>1. S # {}
    <3>1. Cardinality({}) = 0
      BY FS_EmptySet
    <3> QED  BY <1>3, <3>1, Constants
  <2> QED  BY <2>1
<1> HIDE DEF G
<1>10. \A g : Collected(g)' <=> Collected(g) \/ g \in G
  <2>1. GroupsOf(rollout) = {}
    BY <1>2 DEF GroupsOf, InputsOf
  <2> QED  BY <1>2, <1>5, <2>1 DEF Collected
<1>11. \A g : TasksOf(g)' = TasksOf(g) /\ (IsOpen(g)' <=> IsOpen(g))
  BY <1>2 DEF TasksOf, IsOpen, InState
<1>12. \A g \in G : PlaceOf(g) = "accepted" /\ PlaceOf(g)' = "batched"
  <2>1. \A g \in G : PlaceOf(g) = "accepted"
    BY <1>8, Placed
  <2>2. \A g \in G : PlaceOf(g)' = "batched"
    BY <1>5, <1>8, <1>10, <1>11 DEF PlaceOf
  <2> QED  BY <2>1, <2>2
<1>13. \A g : g \notin G => PlaceOf(g)' = PlaceOf(g)
  BY <1>5, <1>10, <1>11, PlaceKeeps
<1>14. Abstract!Move(G, "accepted", "batched")
  BY <1>8, <1>9, <1>12, <1>13, Moves
<1>15. PICK k \in 0..MaxRollouts : Gathered = 1..k /\ Cardinality(Gathered) = k
  BY GatheredIs
<1>16. MaxRollouts \in Nat /\ Rollout = 1..MaxRollouts /\ k \in Nat
  BY <1>15, Constants DEF Rollout
<1>17. Gathered' = 1..k \cup {rollout} /\ rollout \notin 1..k
  <2>1. \A n \in Rollout : Positions("collection", n)' # {} <=> Positions("collection", n) # {} \/ n = rollout
    BY <1>5
  <2>2. Gathered' = Gathered \cup {rollout}
    BY <1>2, <2>1 DEF Gathered
  <2>3. rollout \notin Gathered
    BY <1>2 DEF Gathered
  <2> QED  BY <1>15, <2>2, <2>3
<1>18. rollout = k + 1
  <2>1. rollout \in Nat /\ 1 <= rollout /\ k < rollout
    BY <1>2, <1>16, <1>17
  <2>2. CASE k + 1 < rollout
    <3>1. k + 1 \in Rollout /\ boundary \in Nat
      BY <1>2, <1>16, <2>1, <2>2, Types
    <3>2. Settled(k + 1)
      <4>1. k + 1 < rollout
        BY <2>2
      <4> QED  BY <3>1, <4>1 DEF Trained
    <3>3. k + 1 \in Gathered
      BY <3>1, <3>2 DEF Settled, Gathered
    <3> QED  BY <1>15, <1>16, <3>3
  <2> QED  BY <1>16, <2>1, <2>2
<1>19. Gathered' = 1..(k + 1) /\ Cardinality(Gathered') = k + 1
  <2>1. Gathered' = 1..(k + 1)
    BY <1>16, <1>17, <1>18
  <2>2. 1 \in Int /\ k + 1 \in Int /\ ~(1 > k + 1)
    BY <1>16
  <2>3. Cardinality(1..(k + 1)) = (k + 1) - 1 + 1
    BY <2>2, FS_Interval
  <2> QED  BY <1>16, <2>1, <2>3
<1>20. Batches = [n \in 1..k |-> GroupsOf(n)]
  BY <1>15 DEF Batches
<1>21. Batches' = [n \in 1..(k + 1) |-> GroupsOf(n)']
  BY <1>19 DEF Batches
<1>22. \A n \in 1..(k + 1) : GroupsOf(n)' = IF n = k + 1 THEN G ELSE GroupsOf(n)
  <2>1. \A n \in 1..(k + 1) : n \in Rollout
    BY <1>2, <1>16, <1>18
  <2> QED  BY <1>5, <1>18, <2>1
<1>23. Batches' = Append(Batches, G)
  <2> DEFINE h == [n \in 1..k |-> GroupsOf(n)]
             T == {GroupsOf(n) : n \in 1..k}
  <2>1. h \in [1..k -> T]
    OBVIOUS
  <2>2. \A n \in 1..k : h[n] = GroupsOf(n)
    OBVIOUS
  <2> HIDE DEF h, T
  <2> DEFINE b == [n \in 1..(k + 1) |-> IF n = k + 1 THEN G ELSE h[n]]
  <2>3. \A n \in 1..(k + 1) : GroupsOf(n)' = IF n = k + 1 THEN G ELSE h[n]
    <3>1. \A n \in 1..(k + 1) : n # k + 1 => n \in 1..k
      BY <1>16
    <3> QED  BY <1>22, <2>2, <3>1
  <2>4. Batches' = b
    BY <1>21, <2>3
  <2>5. b = [n \in 1..(k + 1) |-> IF n = k + 1 THEN G ELSE h[n]]
    OBVIOUS
  <2> HIDE DEF b
  <2>6. Append(h, G) = b
    BY <1>16, <2>1, <2>5, AppendIs
  <2> QED  BY <1>20, <2>4, <2>6 DEF h
<1>24. Abstract!Collect(G)
  <2>1. Abstract!Cardinality(G) = Cardinality(G)
    BY DEF Abstract!Cardinality, Cardinality
  <2> QED  BY <1>7, <1>14, <1>23, <2>1 DEF Abstract!Collect, Batches
<1> QED  BY <1>8, <1>24

(* The initial state of the queue.                                            *)
LEMMA Begins == Init => Abstract!Init
<1> SUFFICES ASSUME Init PROVE Abstract!Init
  OBVIOUS
<1>1. tasks = <<>> /\ log = <<>>
  BY DEF Init
<1>2. \A g : PlaceOf(g) = "unread"
  <2>1. \A g : TasksOf(g) = {}
    BY <1>1 DEF TasksOf
  <2>2. \A g : ~IsOpen(g) /\ ~Dropped(g)
    BY <2>1 DEF IsOpen, Dropped, InState
  <2>3. \A g : ~Collected(g)
    BY <1>1 DEF Collected, GroupsOf, InputsOf, Positions
  <2> QED  BY <2>1, <2>2, <2>3 DEF PlaceOf
<1>3. Gathered = {}
  BY <1>1 DEF Gathered, Positions
<1>4. Cardinality(Gathered) = 0
  BY <1>3, FS_EmptySet
<1>5. Batches = <<>>
  BY <1>4 DEF Batches
<1> QED  BY <1>2, <1>5 DEF Abstract!Init, Batches

(* Every step of the queue is a step of PromptDelivery, or a stutter.         *)
LEMMA StepImplements == ASSUME IInv, IInv', [Next]_vars PROVE Implements
<1>1. ASSUME NEW r \in Reader, ReaderStep(r) PROVE Implements
  <2>1. CASE Ask(r) \/ ReaderDies(r)
    BY <2>1, QuietStep DEF Ask, ReaderDies, controller, Implements
  <2>2. CASE Acquire(r) \/ Return(r)
    BY <2>2, AcquireQuiet, ReturnQuiet DEF Implements
  <2>3. CASE Refill(r)
    BY <2>3, RefillReads DEF Implements, Abstract!Next
  <2>4. CASE Complete(r)
    BY <2>4, CompleteAccepts DEF Implements, Abstract!Next
  <2>5. CASE Reject(r)
    BY <2>5, RejectDrops DEF Implements, Abstract!Next
  <2> QED  BY <1>1, <2>1, <2>2, <2>3, <2>4, <2>5 DEF ReaderStep
<1>2. ASSUME NEW r \in Reader, RetireReader(r) \/ Receive(r) \/ FenceReader(r) PROVE Implements
  <2>1. CASE Receive(r)
    BY <2>1, QuietStep DEF Receive, controller, Implements
  <2>2. CASE RetireReader(r) \/ FenceReader(r)
    BY <2>2, FenceQuiet DEF RetireReader, FenceReader, Implements
  <2> QED  BY <1>2, <2>1, <2>2
<1>3. ASSUME NEW t \in DOMAIN tasks, Expire(t) PROVE Implements
  BY <1>3, ExpireQuiet DEF Implements
<1>4. ASSUME Manager PROVE Implements
  <2>1. CASE AcceptCollection
    BY <2>1, CollectionCollects DEF Implements, Abstract!Next
  <2>2. CASE AcceptBatch
    BY <2>2, AcceptBatchQuiet DEF Implements
  <2>3. ASSUME NEW p \in recovered, Deliver(p) PROVE Implements
    BY <2>3, DeliverReopens DEF Implements, Abstract!Next
  <2>4. CASE Generate \/ RememberRaw \/ PlanBatch \/ AdvanceInputs \/ RememberConverted \/ FinishBatch
    BY <2>4, QuietStep DEF Generate, RememberRaw, PlanBatch, AdvanceInputs, RememberConverted, FinishBatch, controller,
                           Implements
  <2>5. CASE Checkpoint \/ NextRollout \/ Detach \/ CollectionFails \/ Reattach \/ ManagerDies
    BY <2>5, QuietStep DEF Checkpoint, NextRollout, Detach, CollectionFails, Reattach, ManagerDies, controller, Implements
  <2>6. CASE StartManager \/ Reconcile \/ AllFenced \/ Restored
    BY <2>6, QuietStep DEF StartManager, Reconcile, AllFenced, Restored, controller, Implements
  <2> QED  BY <1>4, <2>1, <2>2, <2>3, <2>4, <2>5, <2>6 DEF Manager
<1>5. CASE UNCHANGED vars
  BY <1>5, QuietStep DEF vars, controller, Implements
<1> QED  BY <1>1, <1>2, <1>3, <1>4, <1>5 DEF Next

(* The queue, its readers and its managers deliver each prompt group to one   *)
(* batch, whatever fails on the way: a batch holds rollout_batch_size         *)
(* different groups, a group is in one batch at most, and the rollouts get    *)
(* their batches in order.                                                    *)
THEOREM Delivery == Spec => DeliveredOnce
<1>1. IInv /\ IInv' /\ [Next]_vars => [Abstract!Next]_<<Places, Batches>>
  BY StepImplements DEF Implements
<1>2. IInv /\ IInv' /\ [Next]_vars =>
        [Abstract!Next]_<<[g \in Group |-> PlaceOf(g)], [n \in 1..Cardinality(Gathered) |-> GroupsOf(n)]>>
  BY <1>1 DEF Places, Batches
<1> QED  BY <1>2, Begins, Invariance, PTL DEF Spec, DeliveredOnce, Abstract!Spec
=============================================================================
