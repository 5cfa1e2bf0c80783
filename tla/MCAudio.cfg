SPECIFICATION MCSpec
CONSTANTS
  Channels = {main, c1}
  Main = main
  Second = 7
  Rates = {2, 3}
  Samples = {1, 2}
  SendAhead = 2
  InitialDelay = 3
  Times = {9}
  MaxCalls = 3
  Roles = {r1, r2}
  PieceLead = 1
  YieldEvery = 2
  MaxAudio = 4
  MaxNow = 1
  MaxClears = 1
  MaxChanges = 2
  ReapFirst = FALSE
INVARIANTS DriftFree Placed Delivered PipelineInOrder
CHECK_DEADLOCK FALSE
