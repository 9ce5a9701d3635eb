SPECIFICATION FairAtomicSpec
CONSTANTS
  p1 = p1
  p2 = p2
  fix = fix
  port = port
  h1 = h1
  h2 = h2
  dir = dir
  file = file
  text = text
  v1 = v1
  NoProc = NoProc
  Proc = {p1, p2}
  Id = {fix}
  Hash = {h1, h2}
  Patch <- MCPatch
  Path = {dir, file, text}
  Content = {Absent, v1}
  Absent = Absent
  Within <- MCWithin
  Original <- MCOriginal
  Goal <- MCGoal
  Faults = TRUE
  MaxCommands = 3
INVARIANTS
  EveryRecordCounts
  RecordedIsDocumented
  CompletedIsLocatable
PROPERTIES
  OthersSurvive
  KeepsLedger
  LockIsReleased
