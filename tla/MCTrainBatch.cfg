CONSTANTS
    Jobs <- MCJobs
    Flops <- MCFlops
SPECIFICATION Spec
INVARIANTS RanksInStep StepExact CapKept LossCountsOnce LogProbsAligned RowsAligned
