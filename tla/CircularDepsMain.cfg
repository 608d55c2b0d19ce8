CONSTANTS
  N <- MCN3
  MaxIncludes = 2
SPECIFICATION Spec
INVARIANT ExitCodeMatchesSpec RingScenario DirectScanExact DirectScanInv
PROPERTY Terminates DirectImplementsPairReport
CHECK_DEADLOCK FALSE
