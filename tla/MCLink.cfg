CONSTANTS
    MaxConns = 3
    MaxTasks = 2
SPECIFICATION MCSpec
INVARIANTS
    PairingIsKept
    StepsAreFair
PROPERTIES
    ReturnsTheNextOne
    CallsReturn
CHECK_DEADLOCK FALSE
