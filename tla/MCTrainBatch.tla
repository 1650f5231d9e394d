---------------------------- MODULE MCTrainBatch ----------------------------
(* TrainBatch for TLC: rollouts of a few short samples under every option    *)
(* that changes the schedule, and single micro-batches under every layout.   *)
EXTENDS TrainBatch

MCFlops(n) == n * (n + 2)

Job(samples, rollouts, gbs, dp, group, options, layout, tp) ==
    [samples |-> samples, rollouts |-> rollouts, gbs |-> gbs, dp |-> dp, group |-> group,
     dynamic |-> options.dynamic, cap |-> 4, mbs |-> options.mbs, byFlops |-> options.byFlops,
     balance |-> options.balance, layout |-> layout, tp |-> tp]

Sample(total) == [total |-> total, response |-> total - 1]
Samples(n) == {x \in [total : 1..n, response : 0..(n - 1)] : x.response < x.total}
Options == {o \in [dynamic : BOOLEAN, mbs : {1, 2}, byFlops : BOOLEAN, balance : BOOLEAN] :
                (o.byFlops => o.dynamic) /\ (o.dynamic => o.mbs = 1)}
Plain == [cp |-> 1, allgather |-> FALSE, pad |-> 2]

\* Four samples of two to four rollouts, of three lengths: below, near and above the cap.
ScheduleJobs ==
    {Job([i \in 1..4 |-> Sample(s[i])], rollouts, gbs, ranks[1], ranks[2], o, Plain, 1) :
        s \in [1..4 -> {2, 3, 5}], rollouts \in {<<1, 2, 3, 4>>, <<2, 1, 2, 1>>},
        gbs \in {1, 2}, ranks \in {<<1, 2>>, <<2, 1>>}, o \in Options}

\* All samples of one rollout, which is too few for a step of two.
OneRolloutJobs ==
    {Job([i \in 1..4 |-> Sample(s[i])], <<1, 1, 1, 1>>, gbs, 2, 1, o, Plain, 1) :
        s \in [1..4 -> {2, 5}], gbs \in {1, 2}, o \in Options}

\* One or two samples in a micro-batch, with chunks that are full, partly padding and empty.
LayoutJobs ==
    {Job(<<x>> \o rest, [i \in 1..(1 + Len(rest)) |-> 1], 1, 1, 1,
         [dynamic |-> FALSE, mbs |-> 2, byFlops |-> FALSE, balance |-> FALSE],
         [cp |-> cp, allgather |-> a, pad |-> 2], 2) :
        x \in Samples(9), rest \in {<<>>, <<Sample(3)>>, <<[total |-> 5, response |-> 2]>>},
        cp \in 1..3, a \in BOOLEAN}

\* Both at once: rollouts spread over two data-parallel and two context-parallel ranks.
ComposedJobs ==
    {Job([i \in 1..4 |-> Sample(s[i])], <<2, 1, 2, 1>>, 2, 2, 1, o, [cp |-> 2, allgather |-> a, pad |-> 2], 2) :
        s \in [1..4 -> {3, 5}], o \in Options, a \in BOOLEAN}

MCJobs == UNION {ScheduleJobs, OneRolloutJobs, LayoutJobs, ComposedJobs}
=============================================================================
