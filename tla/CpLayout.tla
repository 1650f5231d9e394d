------------------------------ MODULE CpLayout ------------------------------
(***************************************************************************)
(* Where the tokens of one micro-batch are: the layouts of context         *)
(* parallelism (vime/backends/megatron_utils: cp_utils.py, get_batch in    *)
(* data.py, the index arithmetic of loss.py).                              *)
(*                                                                         *)
(* A micro-batch mb is a sequence of samples [total, response], total the  *)
(* length of prompt and response.  A layout L is [cp, allgather, pad]: the *)
(* number of context-parallel ranks; whether the samples are concatenated  *)
(* before they are divided (allgather) or each sample is cut into 2 * cp   *)
(* chunks of which rank c holds the c-th from either end (zigzag); and the *)
(* multiple rows are padded to.  Ranks, rows and positions count from 0.   *)
(*                                                                         *)
(* A token is <<sample, position>>.  An entry of a tensor that ranks add   *)
(* up is the sequence of its non-zero summands: a zero is <<>>.            *)
(***************************************************************************)
EXTENDS Integers, Sequences, SequencesExt, FiniteSets, FiniteSetsExt

Pad == <<0, 0>>             \* a padding token, row or mask entry
Unset == <<0, 1>>           \* what torch.empty leaves

Ranks(L) == 0..(L.cp - 1)
Zigzag(L) == L.cp > 1 /\ ~L.allgather
Prompt(x) == x.total - x.response

\* The half-open range a..b of Python, as a sequence, and the slice x[a:b].
Interval(a, b) == [k \in 1..(b - a) |-> a + k - 1]
Slice(x, a, b) == SubSeq(x, a + 1, b)
Zeros(n) == [k \in 1..n |-> <<>>]
Fill(n) == [k \in 1..n |-> Pad]
SumOf(x) == FoldLeft(LAMBDA a, b : a + b, 0, x)

\* n rows of base, overwritten by the segments [at, vals].
Scatter(n, base, segments) ==
    LET At(k) == {s \in segments : k \in s.at .. (s.at + Len(s.vals) - 1)}
    IN  [k \in 1..n |-> IF At(k - 1) = {} THEN base
                        ELSE LET s == CHOOSE s \in At(k - 1) : TRUE IN s.vals[k - s.at]]

Tokens(mb, i) == [k \in 1..mb[i].total |-> <<i, k - 1>>]
ResponseTokens(mb, i) == Slice(Tokens(mb, i), Prompt(mb[i]), mb[i].total)

-----------------------------------------------------------------------------
(* cp_utils.py *)

\* Mutant: rounded down.
ChunkSizeDown(total, cp) == Max({total \div (2 * cp), 1})

ChunkSize(total, cp) == (total + 2 * cp - 1) \div (2 * cp)

Chunks(size, cp, c) == << <<c * size, (c + 1) * size>>,
                          <<(2 * cp - c - 1) * size, (2 * cp - c) * size>> >>

\* The rows of rank c that predict a token of the response, one range in each
\* of its chunks: a row predicts the token after its own.
LogitsOffset(x, cp, c) ==
    [h \in 1..2 |->
        LET chunk == Chunks(ChunkSize(x.total, cp), cp, c)[h]
            a == Max({chunk[1], Prompt(x) - 1})
            b == Min({chunk[2], x.total - 1})
        IN  IF a < b THEN <<a, b>> ELSE <<0, 0>>]

TokensOffset(x, cp, c) ==
    [h \in 1..2 |->
        LET r == LogitsOffset(x, cp, c)[h]
        IN  IF r[1] < r[2] THEN <<r[1] + 1, r[2] + 1>> ELSE <<0, 0>>]

\* The same, relative to where the chunk starts in what the rank holds.
LocalOffset(x, cp, c) ==
    [h \in 1..2 |->
        LET start == Chunks(ChunkSize(x.total, cp), cp, c)[h][1]
            r == LogitsOffset(x, cp, c)[h]
        IN  <<r[1] - start, r[2] - start>>]

SliceWithCp(x, cp, c) ==
    IF cp = 1 THEN x
    ELSE LET size == ChunkSize(Len(x), cp)
             padded == x \o Fill(2 * cp * size - Len(x))
             chunks == Chunks(size, cp, c)
         IN  Slice(padded, chunks[1][1], chunks[1][2]) \o Slice(padded, chunks[2][1], chunks[2][2])

\* slice_log_prob_with_cp: from a value per response token to those of rank c.
SliceLogProb(values, x, cp, c) ==
    IF cp = 1 THEN values
    ELSE LET first == Prompt(x) - 1
             r == LogitsOffset(x, cp, c)
         IN  Slice(values, r[1][1] - first, r[1][2] - first)
                 \o Slice(values, r[2][1] - first, r[2][2] - first)

\* An all-reduce: the entries of all ranks, added up.
AllReduce(full, L) ==
    [k \in DOMAIN full[0] |-> FlattenSeq([c \in 1..L.cp |-> full[c - 1][k]])]

\* all_gather_with_cp: each rank puts its two pieces between zeros.
Placed(values, x, cp, c) ==
    LET r == LogitsOffset(x, cp, c)
        n1 == r[1][2] - r[1][1]
        n2 == r[2][2] - r[2][1]
        first == Prompt(x) - 1
        last == x.total - 1
        piece1 == Slice(values, 0, n1)
        piece2 == Slice(values, n1, Len(values))
    IN  CASE n1 = 0 /\ n2 = 0 -> Zeros(x.response)
          [] n1 # 0 /\ n2 = 0 -> Zeros(r[1][1] - first) \o piece1 \o Zeros(last - r[1][2])
          [] n1 = 0 /\ n2 # 0 -> Zeros(r[2][1] - first) \o piece2 \o Zeros(last - r[2][2])
          [] OTHER -> Zeros(r[1][1] - first) \o piece1 \o Zeros(r[2][1] - r[1][2])
                          \o piece2 \o Zeros(last - r[2][2])

AllGather(values, x, L) ==
    IF L.cp = 1 THEN values[0] ELSE AllReduce([c \in Ranks(L) |-> Placed(values[c], x, L.cp, c)], L)

\* get_sum_of_sample_mean: the mask entries a rank multiplies its values with.
MaskChunk(mask, x, cp, c) ==
    IF cp = 1 THEN mask
    ELSE LET t == TokensOffset(x, cp, c)
             Part(h) == Slice(mask, t[h][1] - Prompt(x), t[h][2] - Prompt(x))
         IN  Part(1) \o Part(2)

-----------------------------------------------------------------------------
(* get_batch: what rank c holds of a micro-batch *)

Missing(n, m) == (m - (n % m)) % m       \* rows up to the next multiple of m
PadTo(x, m) == x \o Fill(Missing(Len(x), m))

\* One sequence per sample, divided among the ranks.
Divide(xs, L, c) ==
    IF L.allgather
    THEN LET stream == PadTo(FlattenSeq(xs), L.cp * L.pad)
             n == Len(stream) \div L.cp
         IN  Slice(stream, c * n, (c + 1) * n)
    ELSE PadTo(FlattenSeq([i \in DOMAIN xs |-> SliceWithCp(xs[i], L.cp, c)]), L.pad)

LocalTokens(mb, L, c) == Divide([i \in DOMAIN mb |-> Tokens(mb, i)], L, c)

\* Mutant: the mask is aligned with the tokens it masks, not with their rows.
StreamMaskUnshifted(mb, i) == Fill(Prompt(mb[i])) \o ResponseTokens(mb, i)

\* The mask of a sample, shifted to the rows that predict its tokens.
StreamMask(mb, i) == Fill(Prompt(mb[i]) - 1) \o ResponseTokens(mb, i) \o Fill(1)

FullLossMask(mb, L, c) == Divide([i \in DOMAIN mb |-> StreamMask(mb, i)], L, c)

-----------------------------------------------------------------------------
(* Routing replay: the experts of the rollout, in the rows of tensor-parallel *)
(* rank t of tp ranks that share the rows of context-parallel rank c.         *)

\* A range of a sample's routes, which end one row before its tokens do, then
\* of the row added for its last token, then of the padding of its chunks.
FillSample(mb, i, at, a, b) ==
    LET n == mb[i].total - 1
    IN  {[at |-> at + Max({a, 0}) - a, vals |-> Slice(Tokens(mb, i), Max({a, 0}), Min({b, n}))],
         [at |-> at + Max({a, n}) - a, vals |-> Fill(Min({b, n + 1}) - Max({a, n}))],
         [at |-> at + Max({a, n + 1}) - a, vals |-> Fill(b - Max({a, n + 1}))]}

SampleChunks(x, L, c) == IF L.cp = 1 THEN << <<0, x.total>> >> ELSE Chunks(ChunkSize(x.total, L.cp), L.cp, c)
OutLength(x, L, c) == SumOf([h \in DOMAIN SampleChunks(x, L, c) |->
                                SampleChunks(x, L, c)[h][2] - SampleChunks(x, L, c)[h][1]])

\* _fill_routed_experts_allgather_range, sample i.
AllgatherSegments(mb, i, start, end) ==
    LET pos == SumOf([j \in 1..(i - 1) |-> mb[j].total])
        os == Max({start, pos})
        oe == Min({end, pos + mb[i].total})
    IN  IF os < oe THEN FillSample(mb, i, os - start, os - pos, oe - pos) ELSE {}

\* _fill_routed_experts_cp_range, sample i.
ZigzagSegments(mb, L, c, i, start, end) ==
    LET pos == SumOf([j \in 1..(i - 1) |-> OutLength(mb[j], L, c)])
        os == Max({start, pos})
        oe == Min({end, pos + OutLength(mb[i], L, c)})
        chunks == SampleChunks(mb[i], L, c)
        Chunk(h) ==
            LET out == SumOf([g \in 1..(h - 1) |-> chunks[g][2] - chunks[g][1]])
                cs == Max({os - pos, out})
                ce == Min({oe - pos, out + chunks[h][2] - chunks[h][1]})
            IN  IF cs < ce
                THEN FillSample(mb, i, (os - start) + cs - (os - pos), chunks[h][1] + cs - out, chunks[h][1] + ce - out)
                ELSE {}
    IN  IF os < oe THEN UNION {Chunk(h) : h \in DOMAIN chunks} ELSE {}

RoutedExperts(mb, L, c, tp, t) ==
    LET total == SumOf([i \in DOMAIN mb |-> IF L.allgather THEN mb[i].total ELSE OutLength(mb[i], L, c)])
        final == total + Missing(total, IF L.allgather THEN L.cp * L.pad ELSE L.pad)
        rows == IF L.allgather THEN final \div L.cp ELSE final
        start == (IF L.allgather THEN c * rows ELSE 0) + t * (rows \div tp)
        end == start + rows \div tp
        tail == Max({start, total})
        Segments(i) == IF L.allgather THEN AllgatherSegments(mb, i, start, end)
                       ELSE ZigzagSegments(mb, L, c, i, start, end)
    IN  Scatter(end - start, Unset,
                UNION {Segments(i) : i \in DOMAIN mb} \cup {[at |-> tail - start, vals |-> Fill(end - tail)]})

-----------------------------------------------------------------------------
(* loss.py *)

\* The first row of sample i in what a zigzag rank holds, and in the stream.
LocalStart(mb, L, i) == SumOf([j \in 1..(i - 1) |-> 2 * ChunkSize(mb[j].total, L.cp)])
StreamStart(mb, i) == SumOf([j \in 1..(i - 1) |-> mb[j].total])

\* The rows of the stream, of those of rank c, that predict the response of
\* sample i: from s to e, empty when e <= s.  A rank has n rows.
Owned(mb, i, n, c) ==
    LET first == StreamStart(mb, i) + Prompt(mb[i]) - 1
    IN  [first |-> first,
         s |-> Max({first, c * n}),
         e |-> Min({StreamStart(mb, i) + mb[i].total - 1, (c + 1) * n})]

\* _build_shifted_tokens: the token each row predicts.
ShiftedTokens(mb, L, c) ==
    LET T == Len(LocalTokens(mb, L, c))
        n == IF L.allgather THEN StreamStart(mb, Len(mb) + 1) ELSE T
        stream == Scatter(n, Pad, {[at |-> StreamStart(mb, i), vals |-> Tail(Tokens(mb, i))] : i \in DOMAIN mb})
        Half(i, h) ==
            LET t == TokensOffset(mb[i], L.cp, c)[h]
            IN  [at |-> LocalStart(mb, L, i) + (h - 1) * ChunkSize(mb[i].total, L.cp)
                            + LocalOffset(mb[i], L.cp, c)[h][1],
                 vals |-> Slice(Tokens(mb, i), t[1], t[2])]
    IN  CASE Zigzag(L) -> Scatter(T, Pad, {Half(i, h) : i \in DOMAIN mb, h \in 1..2})
          [] L.allgather /\ (c + 1) * T > n -> Slice(stream, c * T, n) \o Fill(Min({T, (c + 1) * T - n}))
          [] L.allgather /\ (c + 1) * T <= n -> Slice(stream, c * T, (c + 1) * T)
          [] OTHER -> stream

\* _extract_per_sample, get_responses: the rows of rank c for sample i.
ResponseRows(mb, L, c, i) ==
    LET n == Len(LocalTokens(mb, L, c))
        o == Owned(mb, i, n, c)
        h == LocalOffset(mb[i], L.cp, c)
        base == LocalStart(mb, L, i)
        size == ChunkSize(mb[i].total, L.cp)
        end == StreamStart(mb, i) + mb[i].total
    IN  CASE Zigzag(L) -> Interval(base + h[1][1], base + h[1][2])
                              \o Interval(base + size + h[2][1], base + size + h[2][2])
          [] L.allgather -> IF o.e <= o.s THEN <<>> ELSE Interval(o.s - c * n, o.e - c * n)
          [] OTHER -> Interval(end - mb[i].response - 1, end - 1)

\* A log-probability: the row it is computed from and the token it is of.
LocalLogProbs(mb, L, c, i) ==
    LET Of(rows, held, shifted) == [k \in DOMAIN rows |-> << <<held[rows[k] + 1], shifted[rows[k] + 1]>> >>]
    IN  CHOOSE v \in {Of(rows, held, shifted) : rows \in {ResponseRows(mb, L, c, i)},
                          held \in {LocalTokens(mb, L, c)}, shifted \in {ShiftedTokens(mb, L, c)}} : TRUE

\* Mutant: a rank's rows are counted from the start of its chunk.
RedistributedEarly(mb, L, c, i) ==
    LET n == Len(LocalTokens(mb, L, 0))
        Full(r) == LET o == Owned(mb, i, n, r)
                   IN  IF o.e <= o.s THEN Zeros(mb[i].response)
                       ELSE LocalLogProbs(mb, L, r, i) \o Zeros(mb[i].response - (o.e - o.s))
    IN  SliceLogProb(AllReduce([r \in Ranks(L) |-> Full(r)], L), mb[i], L.cp, c)

\* _allgather_cp_redistribute: from the allgather layout to zigzag.
Redistributed(mb, L, c, i) ==
    LET n == Len(LocalTokens(mb, L, 0))
        Full(r) == LET o == Owned(mb, i, n, r)
                   IN  IF o.e <= o.s THEN Zeros(mb[i].response)
                       ELSE Zeros(o.s - o.first) \o LocalLogProbs(mb, L, r, i)
                                \o Zeros(mb[i].response - (o.e - o.first))
    IN  SliceLogProb(AllReduce([r \in Ranks(L) |-> Full(r)], L), mb[i], L.cp, c)

\* get_log_probs_and_entropy
LogProbs(mb, L, c, i) ==
    IF L.allgather THEN Redistributed(mb, L, c, i) ELSE LocalLogProbs(mb, L, c, i)

\* _build_topp_keep_mask: the response token whose nucleus restricts a row.
KeepMask(mb, L, c) ==
    LET T == Len(LocalTokens(mb, L, c))
        Rows(i, at, from, n) == [at |-> at, vals |-> Slice(ResponseTokens(mb, i), from, from + n)]
        Half(i, h) ==
            LET r == LogitsOffset(mb[i], L.cp, c)[h]
            IN  Rows(i, LocalStart(mb, L, i) + (h - 1) * ChunkSize(mb[i].total, L.cp)
                            + LocalOffset(mb[i], L.cp, c)[h][1],
                     TokensOffset(mb[i], L.cp, c)[h][1] - Prompt(mb[i]), r[2] - r[1])
        Part(i) ==
            LET o == Owned(mb, i, T, c)
            IN  IF o.e > o.s THEN Rows(i, o.s - c * T, o.s - o.first, o.e - o.s) ELSE Rows(i, 0, 0, 0)
        Whole(i) ==
            Rows(i, StreamStart(mb, i) + Prompt(mb[i]) - 1, 0, mb[i].response)
    IN  Scatter(T, Pad, CASE Zigzag(L) -> {Half(i, h) : i \in DOMAIN mb, h \in 1..2}
                          [] L.allgather -> {Part(i) : i \in DOMAIN mb}
                          [] OTHER -> {Whole(i) : i \in DOMAIN mb})

\* compute_advantages_and_returns: the mask entries for whitening on rank c.
WhitenMask(mask, x, cp, c) ==
    IF cp = 1 THEN mask
    ELSE LET t == TokensOffset(x, cp, c)
             a(h) == Max({0, t[h][1] - Prompt(x)})
             b(h) == Max({0, t[h][2] - Prompt(x)})
             Part(h) == IF b(h) > a(h) THEN Slice(mask, a(h), b(h)) ELSE <<>>
         IN  Part(1) \o Part(2)
=============================================================================
