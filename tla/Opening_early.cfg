SPECIFICATION Spec
CONSTANT Faults = {"none", "early"}
INVARIANT EarlyMessageIsFound
CHECK_DEADLOCK FALSE
