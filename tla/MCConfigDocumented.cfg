SPECIFICATION Spec
CONSTANTS
  Programs <- OddPrograms
  Common <- MCCommon
  ra = ra
  rb = rb
  rc = rc
  rd = rd
  NoFinder = NoFinder
  Own = Own
  Wrong = Wrong
  Nil = Nil
INVARIANT SomeAreAsDocumented
CHECK_DEADLOCK FALSE
