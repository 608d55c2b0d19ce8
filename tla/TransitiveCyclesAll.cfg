CONSTANT N <- MCN3
SPECIFICATION Spec
INVARIANT AllCyclesReported
CHECK_DEADLOCK FALSE
