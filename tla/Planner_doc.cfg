SPECIFICATION Spec
CONSTANTS
  app = app
  lib = lib
  pkg = pkg
  mod = mod
  sub = sub
  leaf = leaf
  key = key
  v0 = v0
  v1 = v1
  v2 = v2
  Path <- MCPath
  Parents <- MCParents
  Protected <- MCProtected
  Python <- MCPython
  Text <- MCText
  Edits <- MCEdits
  Edit <- MCEdit
  Transfer <- MCTransfer
  Trees <- MCTrees
  Actions <- MCActions
  Checks <- MCChecks
  MaxActions = 3
  MaxUserEdits = 1
INVARIANTS
  VacatedPathIsNotReused
CHECK_DEADLOCK FALSE
