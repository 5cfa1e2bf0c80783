CONSTANT Flaky = FALSE
SPECIFICATION Spec
INVARIANT PairingIsRestored
CHECK_DEADLOCK FALSE
