SPECIFICATION FairSpec
CONSTANT Inputs <- PairOnly
INVARIANT RanCaseHasResult
CHECK_DEADLOCK FALSE
