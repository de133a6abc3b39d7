SPECIFICATION Spec
CONSTANTS
  Names <- MCNames
  Exported <- MCExported
  Blank = "_"
  NoName = "none"
  Garbage = "garbage"
  Packages <- MCPackages
INVARIANT StandsAlone
INVARIANT DeclaredOnce
INVARIANT MistakesAreReported
INVARIANT SameEveryRun
