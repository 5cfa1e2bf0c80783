SPECIFICATION Spec
CONSTANTS
    MaxConns = 2
    MaxTasks = 2
INVARIANT CallsAnswer
CHECK_DEADLOCK FALSE
