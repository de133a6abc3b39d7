SPECIFICATION Spec
CONSTANTS
  Nodes <- MCNodes
  Tags <- MCTags
  Wrappers <- MCWrappers
  Zero <- MCZero
  Programs <- FallibleUnions
  Conversions <- MCConversions
INVARIANT FaultsAreReported
