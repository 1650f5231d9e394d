----------------------------- MODULE DpSchedule -----------------------------
(***************************************************************************)
(* From one rollout's samples to the micro-batches of every data-parallel  *)
(* rank (vime/utils/dp_schedule.py, vime/utils/seqlen_balancing.py), and   *)
(* the passes of the trainers over them (DataIterator, forward_only and    *)
(* train of vime/backends/megatron_utils).                                 *)
(*                                                                         *)
(* A job is the input of one rollout: samples, a sequence of [total,       *)
(* response]; rollouts, the rollout each sample is of; gbs, rollouts per   *)
(* training step; dp; group, the micro-batches of a pipeline group;        *)
(* dynamic, cap, mbs, byFlops and balance, the options; layout and tp.     *)
(* Samples, micro-batches and ranks count from 1 here.                     *)
(***************************************************************************)
EXTENDS Integers, Sequences, SequencesExt, FiniteSets, FiniteSetsExt

CONSTANTS
    Jobs,           \* the inputs considered
    Flops(_)        \* calculate_fwd_flops of one sample: grows with its length

ASSUME JobsAssumption ==
    \A j \in Jobs :
        /\ Len(j.samples) = Len(j.rollouts)
        /\ \A i \in DOMAIN j.samples : j.samples[i].response < j.samples[i].total
        /\ j.gbs > 0 /\ j.dp > 0 /\ j.group > 0 /\ j.mbs > 0 /\ j.cap > 0

VARIABLES
    job,
    phase,          \* "schedule", "refused", "forward", "train", "failed" or "done"
    step,           \* the training step at hand
    partitions,     \* the samples of each rank
    micro,          \* micro_batch_indices: of each rank, indices into its partition
    counts,         \* num_microbatches of each step
    offset,         \* of each rank's DataIterator
    taken,          \* the micro-batches each rank fetched for the last step, as samples
    stored          \* the log-probabilities each rank keeps of the forward pass, as
                    \* the samples they are of

vars == <<job, phase, step, partitions, micro, counts, offset, taken, stored>>

SumBy(f(_), x) == FoldLeft(LAMBDA a, b : a + f(b), 0, x)
UpTo(n) == [k \in 1..n |-> k]

\* FoldLeft; the singleton sets make TLC evaluate each value once.
Fold(op(_, _), base, seq) ==
    LET Once(acc, e) == CHOOSE v \in {op(a, e) : a \in {acc}} : TRUE
    IN  CHOOSE v \in {FoldLeft(Once, b, x) : b \in {base}, x \in {seq}} : TRUE

-----------------------------------------------------------------------------
(* seqlen_balancing.py *)

\* Mutant: the cap is tested before the sample is added.
FirstFitOver(lengths, cap) ==
    LET Put(bins, i) ==
            LET fits == {b \in DOMAIN bins : SumBy(LAMBDA k : lengths[k], bins[b]) < cap}
            IN  IF fits = {} THEN Append(bins, <<i>>) ELSE [bins EXCEPT ![Min(fits)] = Append(@, i)]
    IN  Fold(Put, <<>>, UpTo(Len(lengths)))

\* first_fit_pack
FirstFit(lengths, cap) ==
    LET Put(bins, i) ==
            LET fits == {b \in DOMAIN bins : SumBy(LAMBDA k : lengths[k], bins[b]) + lengths[i] <= cap}
            IN  IF fits = {} THEN Append(bins, <<i>>) ELSE [bins EXCEPT ![Min(fits)] = Append(@, i)]
    IN  Fold(Put, <<>>, UpTo(Len(lengths)))

\* _split_bin_by_tokens: longest first, each to the lighter half.
SplitBin(bin, lengths) ==
    LET Weight(half) == SumBy(LAMBDA k : lengths[k], half)
        Put(halves, i) ==
            LET h == IF Weight(halves[1]) <= Weight(halves[2]) THEN 1 ELSE 2
            IN  [halves EXCEPT ![h] = Append(@, i)]
    IN  Fold(Put, << <<>>, <<>> >>, SortSeq(bin, LAMBDA i, k : lengths[i] > lengths[k]))

\* expand_bins_by_splitting: the heaviest bin of several samples, until there
\* are target bins or only single samples.
Expand(bins, target, lengths) ==
    LET Weight(bs, b) == SumBy(LAMBDA k : lengths[k], bs[b])
        Grow(bs, n) ==
            LET candidates == {b \in DOMAIN bs : Len(bs[b]) > 1}
                heaviest == CHOOSE b \in candidates : \A o \in candidates :
                                Weight(bs, o) < Weight(bs, b) \/ (Weight(bs, o) = Weight(bs, b) /\ o <= b)
                halves == SplitBin(bs[heaviest], lengths)
            IN  IF candidates = {} THEN bs
                ELSE SubSeq(bs, 1, heaviest - 1) \o <<halves[1]>> \o SubSeq(bs, heaviest + 1, Len(bs)) \o <<halves[2]>>
    IN  Fold(Grow, bins, UpTo(target - Len(bins)))

\* The order of Set: by weight, then size, then items.
LexLess(a, b) ==
    \E k \in DOMAIN a \cap DOMAIN b : a[k] < b[k] /\ \A j \in 1..(k - 1) : a[j] = b[j]
SetLess(a, b, weights) ==
    LET wa == SumBy(LAMBDA k : weights[k], a)
        wb == SumBy(LAMBDA k : weights[k], b)
    IN  IF wa # wb THEN wa < wb ELSE IF Len(a) # Len(b) THEN Len(a) < Len(b) ELSE LexLess(a, b)
Decreasing(sets, weights) == SortSeq(sets, LAMBDA a, b : SetLess(b, a, weights))

\* The order of the heap: the widest spread first, then the heaviest first set.
Spread(state, weights) ==
    SumBy(LAMBDA k : weights[k], Head(state)) - SumBy(LAMBDA k : weights[k], Last(state))
PopsFirst(s, o, weights) ==
    IF Spread(s, weights) # Spread(o, weights) THEN Spread(s, weights) > Spread(o, weights)
    ELSE SetLess(Head(o), Head(s), weights)

\* State.merge: heavy sets with light ones.
Merged(s, o, weights) == Decreasing([i \in DOMAIN s |-> s[i] \o o[Len(s) + 1 - i]], weights)

\* karmarkar_karp: states of k sets, merged until one is left.
KarmarkarKarp(weights, k, equal) ==
    LET n == Len(weights)
        sorted == SortSeq(UpTo(n), LAMBDA a, b : weights[a] < weights[b] \/ (weights[a] = weights[b] /\ a < b))
        Start(items) == Decreasing([i \in 1..k |-> IF i <= Len(items) THEN <<items[i]>> ELSE <<>>], weights)
        heap == IF equal THEN [i \in 1..(n \div k) |-> Start(SubSeq(sorted, (i - 1) * k + 1, i * k))]
                ELSE [i \in 1..n |-> Start(<<sorted[i]>>)]
        MergeFirst(h) == <<Merged(h[1], h[2], weights)>> \o SubSeq(h, 3, Len(h))
        Step(h, m) == MergeFirst(SortSeq(h, LAMBDA s, o : PopsFirst(s, o, weights)))
    IN  Fold(Step, heap, UpTo(Len(heap) - 1))[1]

\* get_seqlen_balanced_partitions, with its assertions.
BalancedPartitions(weights, k, equal) ==
    LET Sorted(sets) == [i \in 1..k |-> SortSeq(sets[i], LAMBDA a, b : a < b)]
    IN  CHOOSE parts \in {Sorted(sets) : sets \in {KarmarkarKarp(weights, k, equal)}} : TRUE
PartitionsSound(parts, n) ==
    (\A i \in DOMAIN parts : parts[i] # <<>>) /\ UNION {ToSet(parts[i]) : i \in DOMAIN parts} = 1..n

-----------------------------------------------------------------------------
(* dp_schedule.py *)

CeilDiv(a, b) == (a + b - 1) \div b

\* The rollouts in the order of their first samples.
RolloutIds(j) ==
    LET first == {i \in DOMAIN j.rollouts : \A k \in 1..(i - 1) : j.rollouts[k] # j.rollouts[i]}
    IN  [k \in 1..Cardinality(first) |-> j.rollouts[SetToSortSeq(first, LAMBDA a, b : a < b)[k]]]
NumSteps(j) == Len(RolloutIds(j)) \div j.gbs

\* The samples of step s, rollout by rollout.
StepSamples(j, s) ==
    LET Of(rid) == SelectSeq(UpTo(Len(j.rollouts)), LAMBDA i : j.rollouts[i] = rid)
        rids == SubSeq(RolloutIds(j), (s - 1) * j.gbs + 1, s * j.gbs)
    IN  FlattenSeq([k \in DOMAIN rids |-> Of(rids[k])])

\* _pack_step_into_mbs
Pack(j, lengths) ==
    LET cap == j.cap * j.layout.cp
        n == Len(lengths)
        k == Max({1, CeilDiv(SumBy(LAMBDA x : x, lengths), cap)})
        work == [i \in 1..n |-> Flops(lengths[i])]
    IN  CASE j.dynamic /\ j.byFlops ->
                 IF k >= n THEN [i \in 1..n |-> <<i>>] ELSE BalancedPartitions(work, k, FALSE)
          [] j.dynamic /\ ~j.byFlops -> FirstFit(lengths, cap)
          [] OTHER -> [b \in 1..CeilDiv(n, j.mbs) |->
                          SubSeq(UpTo(n), (b - 1) * j.mbs + 1, Min({b * j.mbs, n}))]

\* Every rank runs as many micro-batches as the others, in whole groups.
AlignTo(j) == j.dp * j.group

\* Mutant: the count is aligned to the ranks only.
TargetMbsRanks(j, k) == Max({CeilDiv(k, j.dp) * j.dp, j.dp})

TargetMbs(j, k) == Max({CeilDiv(k, AlignTo(j)) * AlignTo(j), AlignTo(j)})

\* The micro-batches of a step, their number aligned when that is possible.
StepMbs(j, lengths) ==
    LET packed == Pack(j, lengths)
    IN  IF j.dynamic THEN Expand(packed, TargetMbs(j, Len(packed)), lengths) ELSE packed

\* Which micro-batches each rank gets.
RankMbs(j, mbs, lengths) ==
    LET K == Len(mbs)
        Weight(b) == SumBy(LAMBDA i : Flops(lengths[i]), mbs[b])
    IN  IF j.balance THEN BalancedPartitions([b \in 1..K |-> Weight(b)], j.dp, TRUE)
        ELSE [r \in 1..j.dp |-> SelectSeq(UpTo(K), LAMBDA b : (b - 1) % j.dp = r - 1)]

\* The assertions of build_dp_schedule and of what it calls.
Accepts(j, lengths, mbs, ranks) ==
    /\ Len(lengths) >= j.dp
    /\ Len(mbs) = TargetMbs(j, Len(Pack(j, lengths)))
    /\ j.dynamic /\ j.byFlops => PartitionsSound(mbs, Len(lengths))
    /\ j.balance => PartitionsSound(ranks, Len(mbs)) /\ \A r \in 1..j.dp : Len(ranks[r]) * j.dp = Len(mbs)

\* A rank's micro-batch gets the indices that its samples have in the partition.
Place(placed, mb) ==
    [part |-> placed.part \o mb,
     micro |-> Append(placed.micro, [k \in DOMAIN mb |-> Len(placed.part) + k])]

\* One iteration over the training steps.
ScheduleStep ==
    /\ phase = "schedule" /\ step <= NumSteps(job) /\ NumSteps(job) >= 1
    /\ \E samples \in {StepSamples(job, step)} :
       \E lengths \in {[k \in DOMAIN samples |-> job.samples[samples[k]].total]} :
       \E mbs \in {StepMbs(job, lengths)} :
           LET ranks == RankMbs(job, mbs, lengths)
               Global(r) == [m \in DOMAIN ranks[r] |->
                                [k \in DOMAIN mbs[ranks[r][m]] |-> samples[mbs[ranks[r][m]][k]]]]
               Placed(r) == Fold(Place, [part |-> partitions[r], micro |-> micro[r]], Global(r))
           IN  IF Accepts(job, lengths, mbs, ranks)
               THEN /\ partitions' = [r \in 1..job.dp |-> Placed(r).part]
                    /\ micro' = [r \in 1..job.dp |-> Placed(r).micro]
                    /\ counts' = Append(counts, Len(mbs) \div job.dp)
                    /\ step' = step + 1
                    /\ phase' = phase
               ELSE phase' = "refused" /\ UNCHANGED <<step, partitions, micro, counts>>
    /\ UNCHANGED <<job, offset, taken, stored>>

\* Fewer rollouts than one step needs.
TooFew ==
    /\ phase = "schedule" /\ NumSteps(job) < 1
    /\ phase' = "refused"
    /\ UNCHANGED <<job, step, partitions, micro, counts, offset, taken, stored>>

\* What forward_only returns: the values in the order they were computed, put
\* back in the order of the partition only when batches are dynamic.
Kept ==
    LET At(r, i) == CHOOSE k \in DOMAIN stored[r] : FlattenSeq(micro[r])[k] = i
    IN  IF job.dynamic THEN [r \in 1..job.dp |-> [i \in DOMAIN stored[r] |-> stored[r][At(r, i)]]] ELSE stored

\* Mutant: the iterators go on from where the last pass ended.
BeginPassOn ==
    /\ \/ phase = "schedule" /\ NumSteps(job) >= 1 /\ step > NumSteps(job) /\ phase' = "forward"
       \/ phase = "forward" /\ step > NumSteps(job) /\ phase' = "train"
    /\ step' = 1
    /\ offset' = IF phase = "schedule" THEN [r \in 1..job.dp |-> 0] ELSE [r \in 1..job.dp |-> Min({offset[r], 1})]
    /\ taken' = <<>>
    /\ stored' = Kept
    /\ UNCHANGED <<job, partitions, micro, counts>>

\* The schedule is complete, or a pass is over: the iterators are reset and
\* the next pass begins, forward_only before train.
BeginPass ==
    /\ \/ phase = "schedule" /\ NumSteps(job) >= 1 /\ step > NumSteps(job) /\ phase' = "forward"
       \/ phase = "forward" /\ step > NumSteps(job) /\ phase' = "train"
    /\ step' = 1
    /\ offset' = [r \in 1..job.dp |-> 0]
    /\ taken' = <<>>
    /\ stored' = Kept
    /\ UNCHANGED <<job, partitions, micro, counts>>

\* A step of a pass: every rank fetches its number of micro-batches; running
\* off the end of a rank's list is an IndexError.
RunStep ==
    /\ phase \in {"forward", "train"} /\ step <= NumSteps(job)
    /\ IF \A r \in 1..job.dp : offset[r] + counts[step] <= Len(micro[r])
       THEN /\ taken' = [r \in 1..job.dp |->
                             [m \in 1..counts[step] |->
                                 LET indices == micro[r][offset[r] + m]
                                 IN  [k \in DOMAIN indices |-> partitions[r][indices[k]]]]]
            /\ offset' = [r \in 1..job.dp |-> offset[r] + counts[step]]
            /\ stored' = IF phase = "forward" THEN [r \in 1..job.dp |-> stored[r] \o FlattenSeq(taken'[r])] ELSE stored
            /\ step' = step + 1
            /\ phase' = phase
       ELSE phase' = "failed" /\ UNCHANGED <<step, offset, taken, stored>>
    /\ UNCHANGED <<job, partitions, micro, counts>>

Finish ==
    /\ phase = "train" /\ step > NumSteps(job)
    /\ phase' = "done"
    /\ UNCHANGED <<job, step, partitions, micro, counts, offset, taken, stored>>

Init ==
    /\ job \in Jobs
    /\ phase = "schedule" /\ step = 1
    /\ partitions = [r \in 1..job.dp |-> <<>>]
    /\ micro = [r \in 1..job.dp |-> <<>>]
    /\ counts = <<>>
    /\ offset = [r \in 1..job.dp |-> 0]
    /\ taken = <<>>
    /\ stored = [r \in 1..job.dp |-> <<>>]

Over == phase \in {"refused", "failed", "done"} /\ UNCHANGED vars

Next == ScheduleStep \/ TooFew \/ BeginPass \/ RunStep \/ Finish \/ Over

Spec == Init /\ [][Next]_vars
=============================================================================
