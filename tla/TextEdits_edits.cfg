SPECIFICATION Spec
CONSTANTS
  Letter <- MCLetter
  Files <- MCFiles
  Others <- MCOthers
  Word <- MCWord
  Diffs <- MCDiffs
  MaxEdits = 2
  MaxLine = 3
  MaxLength = 6
PROPERTIES
  KeepsNewlineStyle
  ExactEditsAreCounted
  RangeEditsAreLocal
  DiffAppliesAtItsLines
  MovesLoseNothing
CHECK_DEADLOCK FALSE
