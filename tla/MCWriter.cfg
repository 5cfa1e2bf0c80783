SPECIFICATION MCSpec
CONSTANTS
  Roles = {p, a}
  Capacity = 1
  MaxPending = 3
  Grace = 1
  Ahead = 1
  MaxNow = 2
  MaxOps = 5
  Members = {"new", "old"}
  Legacy = {"old"}
  Tracks = {"t"}
  StateLead = 2
  Slack = 1
  StateNow = 3
  StateOps = 4
INVARIANTS OnlyTheStream BufferBound WriterAttends InSync
CHECK_DEADLOCK FALSE
