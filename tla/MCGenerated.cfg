SPECIFICATION Spec
CONSTANTS
  Nodes <- MCNodes
  Tags <- MCTags
  Wrappers <- MCWrappers
  Zero <- MCZero
  Programs <- SafePrograms
  Conversions <- MCConversions
INVARIANT TypeOK
INVARIANT FirstFaultStops
INVARIANT FaultsAreReported
INVARIANT ErrorsAreReal
INVARIANT WrappersInOrder
INVARIANT ConversionIsExact
