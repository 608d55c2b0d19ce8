CONSTANT N <- MCN3
SPECIFICATION Spec
INVARIANT SameCyclesReported
CHECK_DEADLOCK FALSE
