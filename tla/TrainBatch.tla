----------------------------- MODULE TrainBatch -----------------------------
(***************************************************************************)
(* DpSchedule and CpLayout together: what the loss of a training step sums *)
(* over data-parallel ranks, micro-batches and context-parallel ranks.     *)
(***************************************************************************)
EXTENDS DpSchedule, CpLayout

\* The micro-batches fetched for the last step, as sequences of samples.
Fetched == {taken[r][m] : r \in DOMAIN taken, m \in 1..(IF taken = <<>> THEN 0 ELSE Len(taken[1]))}
Lengths(mb) == [i \in DOMAIN mb |-> job.samples[mb[i]]]
L == job.layout

\* BatchBuilder: the denominator of a sample's loss, the tokens of its rollout.
RolloutMaskSum(rid) ==
    SumOf([i \in DOMAIN job.samples |-> IF job.rollouts[i] = rid THEN job.samples[i].response ELSE 0])

\* What the reducers of all ranks add up in the last step: tokens of job.samples.
Counted ==
    FlattenSeq([r \in 1..job.dp |-> FlattenSeq([m \in DOMAIN taken[r] |->
        LET mb == taken[r][m]
            Chunk(i, c) == MaskChunk(ResponseTokens(Lengths(mb), i), Lengths(mb)[i], L.cp, c)
            Named(i, c) == [k \in DOMAIN Chunk(i, c) |-> <<mb[i], Chunk(i, c)[k][2]>>]
        IN  FlattenSeq([i \in DOMAIN mb |-> FlattenSeq([c \in 1..L.cp |-> Named(i, c - 1)])])])])

-----------------------------------------------------------------------------
\* "every DP rank runs the same num_microbatches per training step (required for
\* PP sync)": no rank runs out of micro-batches or keeps one, none is empty, and
\* the pipeline gets whole groups.  Balancing never fails, and a rollout is
\* refused only when no schedule exists: too few rollouts or samples, or no
\* aligned number of micro-batches between those needed and the samples.
RanksInStep ==
    /\ phase # "failed"
    /\ phase = "done" =>
           /\ \A s \in DOMAIN counts : counts[s] % job.group = 0
           /\ \A r \in 1..job.dp :
                  offset[r] = Len(micro[r]) /\ \A m \in DOMAIN micro[r] : micro[r][m] # <<>>
    /\ phase = "refused" =>
           \/ NumSteps(job) < 1
           \/ LET samples == StepSamples(job, step)
                  needed == Len(Pack(job, [k \in DOMAIN samples |-> job.samples[samples[k]].total]))
                  most == IF job.dynamic THEN Len(samples) ELSE needed
              IN  Len(samples) < job.dp \/ \A k \in needed..most : k % AlignTo(job) # 0

\* A step trains on exactly the samples of its rollouts, each fetched once, by
\* one rank, in the forward pass and again in the training pass; and the
\* log-probabilities that the forward pass leaves are in the order of the
\* samples they are trained with, also where nothing puts them back in order.
StepExact ==
    /\ phase \in {"forward", "train"} /\ taken # <<>> =>
           LET all == FlattenSeq([r \in 1..job.dp |-> FlattenSeq(taken[r])])
           IN  /\ Len(all) = Len(StepSamples(job, step - 1))
               /\ ToSet(all) = ToSet(StepSamples(job, step - 1))
    /\ phase \in {"train", "done"} => stored = partitions

\* "every mbs holds <= max_tokens_per_gpu * cp_size tokens", unless it is one
\* sample that is longer; splitting for alignment never makes one larger.
CapKept ==
    job.dynamic /\ ~job.byFlops => \A mb \in Fetched :
        Len(mb) > 1 => SumOf([i \in DOMAIN mb |-> job.samples[mb[i]].total]) <= job.cap * L.cp

\* The loss of a step counts every response token of its rollouts once, over
\* all ranks and micro-batches, so that its denominators make one mean of each
\* rollout, also when first-fit spreads a rollout over ranks.
LossCountsOnce ==
    phase = "train" /\ taken # <<>> =>
        \A counted \in {Counted}, samples \in {StepSamples(job, step - 1)} :
            LET Of(rid) == {k \in DOMAIN counted : job.rollouts[counted[k][1]] = rid}
            IN  /\ IsInjective(counted)
                /\ ToSet(counted) =
                       UNION {{<<i, p>> : p \in Prompt(job.samples[i])..(job.samples[i].total - 1)} : i \in ToSet(samples)}
                /\ \A i \in ToSet(samples) : Cardinality(Of(job.rollouts[i])) = RolloutMaskSum(job.rollouts[i])

\* On every rank the log-probabilities of a sample are those of the tokens its
\* mask entries stand for, in the same order, each computed from the row before
\* the token: with zigzag, with allgather after redistribution; whitening takes
\* the same entries, and all_gather_with_cp puts the ranks' parts of a response
\* together again.
LogProbsAligned ==
    phase = "train" => \A mb \in Fetched : \A i \in DOMAIN mb, c \in Ranks(L) :
        LET x == Lengths(mb)[i]
            mask == MaskChunk(ResponseTokens(Lengths(mb), i), x, L.cp, c)
            whole == [k \in 1..x.response |-> <<k>>]
        IN  /\ LogProbs(Lengths(mb), L, c, i) =
                   [k \in DOMAIN mask |-> << << <<i, mask[k][2] - 1>>, mask[k]>> >>]
            /\ WhitenMask(ResponseTokens(Lengths(mb), i), x, L.cp, c) = mask
            /\ AllGather([r \in Ranks(L) |-> SliceLogProb(whole, x, L.cp, r)], x, L) = whole

\* Row by row, the loss mask of get_batch and the top-p nucleus belong to the
\* token that the row predicts, and the replayed routes, put together over the
\* tensor-parallel ranks, to the token in the row; no row is left unset.
RowsAligned ==
    phase = "train" => \A mb \in Fetched : \A c \in Ranks(L), xs \in {Lengths(mb)} :
        \A held \in {LocalTokens(xs, L, c)} :
            LET Predicted(t) == IF t # Pad /\ t[2] + 1 \in Prompt(xs[t[1]])..(xs[t[1]].total - 1)
                                THEN <<t[1], t[2] + 1>> ELSE Pad
                Route(t) == IF t # Pad /\ t[2] < xs[t[1]].total - 1 THEN t ELSE Pad
                expected == [k \in DOMAIN held |-> Predicted(held[k])]
            IN  /\ FullLossMask(xs, L, c) = expected /\ KeepMask(xs, L, c) = expected
                /\ FlattenSeq([t \in 1..job.tp |-> RoutedExperts(xs, L, c, job.tp, t - 1)]) =
                       [k \in DOMAIN held |-> Route(held[k])]
=============================================================================
