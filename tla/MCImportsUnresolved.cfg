SPECIFICATION Spec
CONSTANTS
  Paths <- MCPaths
  Stems <- MCStems
  PkgNames <- MCPkgNames
  Dirs <- MCDirs
  Faults <- MCFaults
  Unwritten = "unwritten"
  MaxTries = 6
  Programs <- UnresolvedPrograms
INVARIANT SomeFileResolves
