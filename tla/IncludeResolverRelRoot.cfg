CONSTANTS
  Tree <- MCTree
  Tokens <- MCTokens
  MaxIncludes = 2
  SysNames <- MCSysNames
  StdNames = {}
  CwdSegs <- MCCwd
  IncSegs <- MCInc
  RootForms <- MCBoth
SPECIFICATION Spec
INVARIANT IncludesResolvedAsSpecified
CHECK_DEADLOCK FALSE
