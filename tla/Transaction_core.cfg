SPECIFICATION Spec
CONSTANTS
  pkg = pkg
  sub = sub
  mod = mod
  leaf = leaf
  app = app
  old = old
  readme = readme
  stray = stray
  Path <- MCPath
  Kind <- MCKind
  Ancestors <- MCAncestors
  Existing <- MCExisting
  Ignored <- MCIgnored
  Plans <- MCPlans
  MaxEdits = 0
  MaxInterrupts = 0
INVARIANTS
  WriteAhead
  CompletedIsPlanned
  ReportIsHonest
PROPERTIES
  KeepsContract
