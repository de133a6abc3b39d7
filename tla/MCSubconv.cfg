SPECIFICATION FairSpec
CONSTANTS
  Pairs <- MCPairs
  Mods <- MCMods
  Stems <- MCStems
  Programs <- CorePackages
  MaxStack = 8
INVARIANT TypeOK
INVARIANT CallsResolve
INVARIANT ErrorlessIsSafe
INVARIANT ErrorsAreNeeded
INVARIANT OutcomeIsDetermined
INVARIANT NamesAreUnique
INVARIANT ForksKeepErrorsOut
PROPERTY ImplementsConverters
PROPERTY BuildReturns
