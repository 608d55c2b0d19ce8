CONSTANTS
  Tree <- MCTree
  Tokens <- MCTokens
  MaxIncludes = 2
  SysNames <- MCSysNames
  StdNames = {}
  CwdSegs <- MCCwd
  IncSegs <- MCInc
  RootForms <- MCAbs
SPECIFICATION Spec
INVARIANT IncludesResolvedAsSpecified ResolutionAsSpecified ResolveInv
CHECK_DEADLOCK FALSE
