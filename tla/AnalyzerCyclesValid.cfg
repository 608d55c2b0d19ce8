CONSTANT N <- MCN3
SPECIFICATION Spec
INVARIANT ReportedCyclesValid
CHECK_DEADLOCK FALSE
