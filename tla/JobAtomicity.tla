---------------------------- MODULE JobAtomicity ----------------------------
(***************************************************************************)
(* JobLifecycle implements JobLedger.  A run changes the workspace, the    *)
(* backup, the archive, the log and the registry one after the other; seen *)
(* when the lock is free, it is one step.  The history variable before     *)
(* holds what was to be seen when the lock was last free.                  *)
(***************************************************************************)
EXTENDS JobLifecycle

VARIABLE before

(* What the backup is good for that the registry refers to. *)
StatusOf(reg, bs, i) == IF reg[i].backup = 0 THEN "none" ELSE bs[reg[i].backup].status
UndoOf(reg, bs, i) ==
  IF StatusOf(reg, bs, i) = "COMPLETED" THEN bs[reg[i].backup].entries ELSE NoChange

(* What is recorded of each ID, in the registry and in that backup. *)
Ledger(reg, bs) ==
  [i \in Id |->
     IF ~Known(reg, i) THEN NoRecord
     ELSE [hash      |-> reg[i].hash,
           completed |-> reg[i].completed,
           undo      |-> UndoOf(reg, bs, i),
           stuck     |-> StatusOf(reg, bs, i) = "ROLLBACK_FAILED",
           runs      |-> reg[i].runs]]

Seen == [tree |-> tree, record |-> Ledger(registry, backups)]

AtomicInit == Init /\ before = Seen
AtomicNext == Next /\ before' = IF holder' = NoProc THEN Seen' ELSE before
AtomicSpec == AtomicInit /\ [][AtomicNext]_<<vars, before>>
FairAtomicSpec == AtomicSpec /\ Fairness

Contract == INSTANCE JobLedger WITH tree <- before.tree, record <- before.record

(* Between one holder of the lock and the next one job was carried out,      *)
(* taken back or counted, in the files and in the registry alike, whatever   *)
(* the processes do at the same time; only a killed process or a record that *)
(* cannot be written leaves the change of one job unrecorded.                *)
KeepsLedger == Contract!Spec
=============================================================================
