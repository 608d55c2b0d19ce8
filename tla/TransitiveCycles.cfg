CONSTANT N <- MCN3
SPECIFICATION Spec
INVARIANT TypeOK ReportedCyclesValid IInv ExitCodeCorrect
PROPERTY Termination ImplementsCycleReport
CHECK_DEADLOCK FALSE
