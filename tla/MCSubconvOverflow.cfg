SPECIFICATION FairSpec
CONSTANTS
  Pairs <- MCPairs
  Mods <- MCMods
  Stems <- MCStems
  Programs <- ListPackages
  MaxStack = 8
PROPERTY AlwaysReturns
