SPECIFICATION FairSpec
CONSTANTS
  p1 = p1
  p2 = p2
  w1 = w1
  w2 = w2
  main = main
  orders = orders
  users = users
  NoProc = NoProc
  Proc = {p1, p2}
  Workspace = {w1, w2}
  Database = {main}
  App = {orders, users}
  Top <- MCTop
  Reviewable <- MCReviewable
  NonAtomic <- MCNonAtomic
  Irreversible <- MCIrreversible
  MaxAttempts = 2
  MaxChanges = 1
INVARIANTS
  OneUnresolvedAttempt
  JournalExplainsDatabase
PROPERTIES
  ChangesAreAnnounced
  LocksAreReleased
CHECK_DEADLOCK FALSE
