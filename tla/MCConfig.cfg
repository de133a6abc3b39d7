SPECIFICATION Spec
CONSTANTS
  Programs <- TamePrograms
  Common <- MCCommon
  ra = ra
  rb = rb
  rc = rc
  rd = rd
  NoFinder = NoFinder
  Own = Own
  Wrong = Wrong
  Nil = Nil
INVARIANT TypeOK
INVARIANT RenamesInForce
INVARIANT DiscoveryInForce
INVARIANT MatchesInForce
INVARIANT SubconvertersInherit
INVARIANT ErrorsAreComplete
PROPERTY RulesAreSettled
CHECK_DEADLOCK FALSE
