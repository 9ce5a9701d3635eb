SPECIFICATION FairSpec
CONSTANTS
  pkg = pkg
  sub = sub
  mod = mod
  leaf = leaf
  app = app
  old = old
  readme = readme
  stray = stray
  Path <- MCPath
  Kind <- MCKind
  Ancestors <- MCAncestors
  Existing <- MCExisting
  Ignored <- MCIgnored
  Plans <- MCDisturbedPlans
  MaxEdits = 1
  MaxInterrupts = 2
INVARIANTS
  UndoneIsOriginal
  RollbackFailureHasCause
  UserEditSurvives
PROPERTIES
  RunEnds
