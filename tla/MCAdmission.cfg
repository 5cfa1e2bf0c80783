SPECIFICATION MCSpec
CONSTANTS
  Conns = {c1, c2, c3}
  None = None
  Config = Config
  Servers = {"A", "B"}
  LastPlayed = "A"
  Capacity = 3
  MaxNew = 1
  MaxMsgs = 4
  Methods = {"static", "dynamic", "psk"}
  MaxPsk = 2
  MaxKeys = 6
  MaxOps = 4
  RoundLimit = 2
  WindowLimit = 2
SYMMETRY Symmetry
INVARIANTS AdmissionSound StoreSound SessionReads BothEndsAgree
CHECK_DEADLOCK FALSE
