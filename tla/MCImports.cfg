SPECIFICATION Spec
CONSTANTS
  Paths <- MCPaths
  Stems <- MCStems
  PkgNames <- MCPkgNames
  Dirs <- MCDirs
  Faults <- MCFaults
  Unwritten = "unwritten"
  MaxTries = 6
  Programs <- TamePrograms
INVARIANT TypeOK
INVARIANT ReferencesResolve
INVARIANT ImportsAreSound
INVARIANT OutputIsWhole
PROPERTY NamesAreSettled
