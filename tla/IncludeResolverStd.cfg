CONSTANTS
  Tree <- MCTreeStd
  Tokens <- MCTokensStd
  MaxIncludes = 1
  SysNames <- MCSysNames
  StdNames <- MCStdNames
  CwdSegs <- MCCwd
  IncSegs <- MCInc
  RootForms <- MCAbs
SPECIFICATION Spec
INVARIANT IncludesResolvedAsSpecified
CHECK_DEADLOCK FALSE
