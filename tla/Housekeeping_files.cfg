SPECIFICATION Spec
CONSTANTS
  p1 = p1
  p2 = p2
  id1 = id1
  id2 = id2
  OldProject = OldProject
  NoProject = NoProject
  NoProc = NoProc
  Proc = {p1, p2}
  FreshProject <- MCFreshProject
  MaxEdits = 2
  MaxUpdates = 2
  MaxCrashes = 1
INVARIANTS
  OneProject
PROPERTIES
  FinishedFilesStay
  ReplacedGuideIsBackedUp
CHECK_DEADLOCK FALSE
