SPECIFICATION Spec
CONSTANTS
  Owners <- MCOwners
  Positions <- MCPositions
  Keys <- MCKeys
  NoKey = NoKey
  NoPos = NoPos
  Missing = Missing
  Problems <- MatchProblems
INVARIANT TypeOK
INVARIANT NothingIsLost
INVARIANT NothingIsMerged
INVARIANT MatchesAreMeant
INVARIANT RefusalsAreReal
