SPECIFICATION FairSpec
CONSTANTS
  Python <- MCPython
  Html <- MCHtml
  New <- MCNew
  Excluded <- MCExcluded
  Checks <- MCChecks
  RerunChecks = TRUE
  MaxInterrupts = 1
  Path <- MCPath
  Root = "/"
  Children <- MCChildren
  Ignored = {"notes"}
  Caches <- MCCaches
  Bytecode = {"app.pyc", "new.pyc"}
  Audit <- MCAudit
  InitialTrees <- MCTrees
  MaxChanges <- MCMaxChanges
INVARIANTS
  OneToolAtATime
  ToolsRunOnAcceptedInput
  WorkspaceIsAsFound
  ReadsAreOfOneMoment
PROPERTIES
  LateAnswerIsNoSuccess
  CleanupTakesBackWhatRunsLeft
  JobEnds
CHECK_DEADLOCK FALSE
