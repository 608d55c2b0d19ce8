CONSTANTS
  N <- MCN2
  Other = Other
  MaxFiles = 2
  CMakeForms <- MCCMakeWhole
  FileForms <- MCFileForms
SPECIFICATION Spec
INVARIANT ScannedAsSpecified ScanInv
CHECK_DEADLOCK FALSE
