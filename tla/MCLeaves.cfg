SPECIFICATION Spec
CONSTANTS
  Idents <- MCIdents
  Structs <- MCStructs
  Leaf <- MCLeaf
  Sides <- MCSides
  Assignments <- MCAssignments
  Bytes <- MCBytes
  Lower <- MCLower
  Upper <- MCUpper
  Digit <- MCDigit
  Underscore <- MCUnderscore
  NameLists <- MCNameLists
INVARIANTS
  MembersAreReached
  WritesSurvive
  CommonIsLongest
  ConversionsLoseNothing
