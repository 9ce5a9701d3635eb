----------------------------- MODULE JobLedger -----------------------------
(***************************************************************************)
(* What a workspace promises to whoever takes its lock: jobs come one at a *)
(* time, and each changes its own paths and the registry in one step, or   *)
(* is counted and leaves the rest as it was.  A job that was carried out   *)
(* can be taken back as long as its own paths are as it left them, before  *)
(* or after other jobs.  A process that dies, or a record that cannot be   *)
(* written, leaves the change of the job in hand without its record, and   *)
(* nothing else.                                                           *)
(***************************************************************************)
EXTENDS JobFiles

CONSTANTS Original, Faults

VARIABLES
  tree,     \* the workspace files
  record    \* what is recorded of each ID

Unknown == [runs |-> 0]
Known(i) == record[i] # Unknown

(* The job may be carried out, or it is the one that was. *)
Open(j) == Known(j.id) => record[j.id].hash = j.hash /\ ~record[j.id].completed
Done(j) == Known(j.id) /\ record[j.id].hash = j.hash /\ record[j.id].completed

Init == tree = Original /\ record = [i \in Id |-> Unknown]

(* What a rollback would take back, and whether one has failed. *)
Undo(i) == IF Known(i) THEN record[i].undo ELSE NoChange
Stuck(i) == Known(i) /\ record[i].stuck
Completed(i) == Known(i) /\ record[i].completed

(* The first run gives the ID its hash; every run counts. *)
Count(j, completed, undo, stuck) ==
  record' = [record EXCEPT ![j.id] =
               [hash      |-> IF Known(j.id) THEN record[j.id].hash ELSE j.hash,
                completed |-> completed,
                undo      |-> undo,
                stuck     |-> stuck,
                runs      |-> record[j.id].runs + 1]]

(* A rollback happened, or failed, and is not counted. *)
Spend(j, stuck) ==
  record' = [record EXCEPT ![j.id] = [@ EXCEPT !.undo = NoChange, !.stuck = stuck]]

-----------------------------------------------------------------------------
(* What becomes of the files *)

(* Something to do, and nothing to do. *)
Changes(j) == j \in Patch /\ Plannable(j, tree) /\ Touched(PlanOf(j, tree)) # {}
Settled(j) == j \in Patch => Plannable(j, tree) /\ Touched(PlanOf(j, tree)) = {}

Apply(j) == Open(j) /\ Changes(j) /\ tree' = Rewritten(tree, PlanOf(j, tree))
Break(j) == Open(j) /\ Changes(j) /\ tree' \in Disturbed(tree, PlanOf(j, tree))

Undoable(j) ==
  Done(j) /\ j \in Patch /\ Touched(Undo(j.id)) # {} /\ InPlace(tree, Undo(j.id))
TakeBack(j) == Undoable(j) /\ tree' = Restored(tree, Undo(j.id))
BreakUndo(j) == Undoable(j) /\ tree' \in Disturbed(tree, Undo(j.id))

-----------------------------------------------------------------------------
(* Jobs *)

Complete(j) == Apply(j) /\ Count(j, TRUE, PlanOf(j, tree), FALSE)

(* There is nothing to do: an audit, or the files are as the job wants them. *)
Confirm(j) ==
  /\ Open(j) /\ Settled(j)
  /\ UNCHANGED tree
  /\ Count(j, TRUE, Undo(j.id), Stuck(j.id))

(* Refused, declined, in conflict, applied before: counted only. *)
Note(j) == UNCHANGED tree /\ Count(j, Completed(j.id), Undo(j.id), Stuck(j.id))

(* A run that fails is not completed; a rollback that fails leaves the job   *)
(* completed and cannot be tried again, unless its failure is not noted in   *)
(* the backup.                                                               *)
Fail(j) ==
  \/ Break(j) /\ \E stuck \in BOOLEAN : Count(j, FALSE, NoChange, stuck)
  \/ BreakUndo(j) /\ Count(j, TRUE, NoChange, TRUE)
  \/ Faults /\ BreakUndo(j) /\ Count(j, TRUE, Undo(j.id), Stuck(j.id))

RollBack(j) == TakeBack(j) /\ Count(j, FALSE, NoChange, FALSE)

Lose(j) ==
  /\ Faults
  /\ \/ (Apply(j) \/ Break(j)) /\ UNCHANGED record
     \/ (TakeBack(j) \/ BreakUndo(j)) /\ UNCHANGED record
     \/ TakeBack(j) /\ Spend(j, FALSE)
     \/ BreakUndo(j) /\ Spend(j, TRUE)

Take(j) == Complete(j) \/ Confirm(j) \/ Note(j) \/ Fail(j) \/ RollBack(j) \/ Lose(j)

(* Every job leaves a trace in the files or in the registry. *)
Next ==
  /\ tree' # tree \/ record' # record
  /\ \E j \in Job : Take(j)

Spec == Init /\ [][Next]_<<tree, record>>
=============================================================================
