------------------------- MODULE TransactionProofs -------------------------
(***************************************************************************)
(* Proofs about Transaction, for every plan, tree, and bound: types, that  *)
(* originals are retained before effects, and that an undone transaction   *)
(* leaves nothing behind; then what a transaction tells its reader: that a *)
(* COMPLETED manifest, the answer to the caller, a failed rollback and the *)
(* treatment of a user's edit are right, and that the transaction          *)
(* implements PatchContract.                                               *)
(***************************************************************************)
EXTENDS Transaction, SequenceTheorems, TLAPS

(* The loops of a rollback run within their lists. *)
CursorOK ==
  /\ pc = "restore" => cursor <= Len(modified_files)
  /\ pc = "unlink" => cursor <= Len(rollback_files)
  /\ pc = "rmdir" => cursor <= Len(created_directories)

TypeInv == TypeOK /\ CursorOK

-----------------------------------------------------------------------------
(* Lemmas about the plan and the operators on it *)

(* The components of the plan in hand. *)
LEMMA PlanType ==
  ASSUME plan \in Plans
  PROVE  /\ plan.steps \in Seq(Path) /\ plan.dirs \in Seq(Path)
         /\ plan.formatted \subseteq Path
         /\ plan.lint \in BOOLEAN /\ plan.rerun \in BOOLEAN /\ plan.retain \in BOOLEAN
  BY PlanAssumption DEF Plan

(* What a plan declares is part of the workspace. *)
LEMMA DeclaredType ==
  ASSUME plan \in Plans
  PROVE  /\ Steps \subseteq Path /\ PlannedDirs \subseteq Path /\ Declared \subseteq Path
         /\ OriginalsNeeded \subseteq Path /\ FilesToCreate \subseteq Path
         /\ Undeclared \subseteq Path
  BY PlanType DEF Steps, PlannedDirs, PlannedFiles, Declared, OriginalsNeeded,
                  FilesToCreate, Undeclared, Range

(* The next directory to make is a planned one, and one the step asks for. *)
LEMMA NextDirectoryType ==
  ASSUME plan \in Plans, NEW p \in Path, NEW d \in NextDirectories(p)
  PROVE  d \in PlannedDirs /\ d \in Path /\ Kind[d] = "directory"
<1>1. PICK i \in DOMAIN plan.dirs : d = plan.dirs[i]
  BY DEF NextDirectories, Required
<1>2. d \in PlannedDirs
  BY <1>1 DEF PlannedDirs, Range
<1>3. Kind[d] = "directory"
  BY <1>2, PlanAssumption DEF PlannedDirs
<1>. QED  BY <1>2, <1>3, DeclaredType

LEMMA ContentType ==
  ASSUME NEW p \in Path
  PROVE  Original(p) \in Content /\ Planned(p) \in Content
  BY DEF Original, Planned, Content

LEMMA ItemType ==
  ASSUME NEW p \in Path
  PROVE  Target(p) \in Item /\ Temporary(p) \in Item
  BY DEF Target, Temporary, Item

LEMMA ResultType ==
  ASSUME NEW s \in {"none", "NO_CHANGE", "APPLIED", "ROLLED_BACK", "ERROR",
                    "INTERRUPTED", "REFUSED"},
         NEW r \in {"none", "succeeded", "failed", "skipped"}, NEW k \in BOOLEAN
  PROVE  Result(s, r, k) \in Outcome
  BY DEF Result, Outcome

-----------------------------------------------------------------------------
(* Type correctness *)

LEMMA InitTypeInv == Init => TypeInv
<1>. SUFFICES ASSUME Init PROVE TypeInv
  OBVIOUS
<1>1. disk \in [Path -> Content]
  BY ContentType DEF Init
<1>2. /\ applied \in [Path -> Content] /\ formatted_files \in [Path -> Content]
  BY DEF Init, Content
<1>3. outcome \in Outcome
  BY ResultType DEF Init
<1>4. modified_files \in Seq(Path) /\ rollback_files \in Seq(Item)
      /\ created_directories \in Seq(Path)
  BY DEF Init
<1>5. CursorOK
  BY DEF Init, CursorOK
<1>6. /\ manifest \in Statuses /\ pc \in PCs /\ stage \in Stages /\ step \in Nat \ {0}
      /\ cursor \in Nat /\ temps = {} /\ caches = {} /\ copies = {} /\ current = {}
      /\ unresolved = {} /\ edited = {} /\ protected = {} /\ interruptedAt = {}
      /\ stranded = {}
  BY DEF Init, Statuses, PCs, Stages
<1>7. /\ plan \in Plans /\ ledger \in BOOLEAN /\ cache_unresolved \in BOOLEAN
      /\ manual \in BOOLEAN /\ ioFault \in BOOLEAN
  BY DEF Init
<1>. QED
  BY <1>1, <1>2, <1>3, <1>4, <1>5, <1>6, <1>7 DEF TypeInv, TypeOK

LEMMA PrepareTypeInv == TypeInv /\ Prepare => TypeInv'
<1>. SUFFICES ASSUME TypeInv, Prepare PROVE TypeInv'
  OBVIOUS
<1>. USE DEF TypeInv, TypeOK, CursorOK, durable, lists, work, undo, history
<1>1. CASE NoChange
  BY <1>1, ResultType DEF NoChange, PCs
<1>2. CASE PlanStale \/ BackupUnavailable \/ CaptureFails
  BY <1>2, ResultType DEF PlanStale, BackupUnavailable, CaptureFails, Refuse, PCs
<1>3. CASE BeginBackup
  BY <1>3 DEF BeginBackup, PCs
<1>4. CASE CaptureEntry
  <2>1. plan.steps[step] \in Path
    BY <1>4, PlanType DEF CaptureEntry
  <2>. QED  BY <1>4, <2>1 DEF CaptureEntry
<1>5. CASE WritePrepared
  BY <1>5 DEF WritePrepared, PCs, Statuses
<1>. QED
  BY <1>1, <1>2, <1>3, <1>4, <1>5 DEF Prepare

LEMMA ApplyTypeInv == TypeInv /\ Apply => TypeInv'
<1>. SUFFICES ASSUME TypeInv, Apply PROVE TypeInv'
  OBVIOUS
<1>. USE DEF TypeInv, TypeOK, CursorOK, durable, lists, work, undo, history
<1>1. CASE MakeDirectory
  <2>1. plan.steps[step] \in Path
    BY <1>1, PlanType DEF MakeDirectory
  <2>2. PICK d \in NextDirectories(plan.steps[step]) :
          disk' = [disk EXCEPT ![d] = "dir"] /\ current' = {d}
    BY <1>1 DEF MakeDirectory
  <2>3. d \in Path
    BY <2>1, NextDirectoryType
  <2>. QED  BY <1>1, <2>2, <2>3 DEF MakeDirectory, PCs, Content
<1>2. CASE StageFile
  <2>1. plan.steps[step] \in Path
    BY <1>2, PlanType DEF StageFile
  <2>. QED  BY <1>2, <2>1 DEF StageFile, PCs
<1>3. CASE Publish
  <2>1. disk' \in [Path -> Content]
    BY <1>3, ContentType DEF Publish
  <2>. QED  BY <1>3, <2>1 DEF Publish, PCs
<1>4. CASE Record
  <2>1. PICK p \in Path : Listed(p)
    BY <1>4 DEF Record
  <2>2. modified_files' \in Seq(Path) /\ created_directories' \in Seq(Path)
    BY <2>1 DEF Listed
  <2>3. rollback_files' \in Seq(Item)
    BY <2>1, ItemType DEF Listed
  <2>. QED  BY <1>4, <2>2, <2>3 DEF Record, PCs
<1>5. CASE VerifyEffect
  BY <1>5 DEF VerifyEffect, PCs
<1>6. CASE EffectFails
  BY <1>6 DEF EffectFails, Fail, PCs
<1>7. CASE PublishLeavesTemporary
  <2>1. rollback_files' \in Seq(Item)
    <3>1. PICK p \in Path :
            \/ rollback_files' = Append(rollback_files, Temporary(p))
            \/ rollback_files' = Append(Append(rollback_files, Target(p)), Temporary(p))
      BY <1>7 DEF PublishLeavesTemporary
    <3>2. Append(rollback_files, Target(p)) \in Seq(Item)
      BY ItemType
    <3>3. CASE rollback_files' = Append(rollback_files, Temporary(p))
      BY <3>3, ItemType
    <3>4. CASE rollback_files' = Append(Append(rollback_files, Target(p)), Temporary(p))
      BY <3>2, <3>4, ItemType, AppendProperties
    <3>. QED  BY <3>1, <3>3, <3>4
  <2>2. disk' \in [Path -> Content]
    BY <1>7 DEF PublishLeavesTemporary, Content
  <2>. QED  BY <1>7, <2>1, <2>2 DEF PublishLeavesTemporary, Fail, PCs
<1>8. CASE PublishLeavesPartialTarget
  <2>1. rollback_files' \in Seq(Item)
    BY <1>8, ItemType DEF PublishLeavesPartialTarget
  <2>2. disk' \in [Path -> Content]
    BY <1>8 DEF PublishLeavesPartialTarget, Content
  <2>. QED  BY <1>8, <2>1, <2>2 DEF PublishLeavesPartialTarget, Fail, PCs
<1>9. CASE EffectsComplete
  BY <1>9 DEF EffectsComplete, Fail, PCs
<1>10. CASE CaptureLedger
  BY <1>10 DEF CaptureLedger, Fail, PCs, Stages
<1>. QED
  BY <1>1, <1>2, <1>3, <1>4, <1>5, <1>6, <1>7, <1>8, <1>9, <1>10 DEF Apply

LEMMA ValidateTypeInv == TypeInv /\ Validate => TypeInv'
<1>. SUFFICES ASSUME TypeInv, Validate PROVE TypeInv'
  OBVIOUS
<1>. USE DEF TypeInv, TypeOK, CursorOK, durable, lists, work, undo, history
<1>1. CASE RunTool
  <2>1. PICK made \in Product(stage), new \in SUBSET {"pyc", "foreign"} :
          /\ caches' = caches \cup new
          /\ \/ disk' = AfterProduct(made)
             \/ \E p \in Declared \cup Undeclared : \E c \in Damages(p) :
                  disk' = [AfterProduct(made) EXCEPT ![p] = c]
    BY <1>1 DEF RunTool
  <2>2. AfterProduct(made) \in [Path -> Content]
    BY DEF AfterProduct, Content
  <2>3. disk' \in [Path -> Content]
    BY <2>1, <2>2 DEF Damages, Content
  <2>. QED  BY <1>1, <2>1, <2>3 DEF RunTool, Fail, PCs
<1>2. CASE InspectTool
  <2>1. AfterStage # "done" => AfterStage \in Stages
    BY DEF AfterStage, Stages
  <2>. QED  BY <1>2, <2>1 DEF InspectTool, Fail, PCs
<1>3. CASE CleanCaches
  BY <1>3 DEF CleanCaches, Cleaned, Fail, PCs
<1>4. CASE CompareInventory
  BY <1>4 DEF CompareInventory, Fail, PCs
<1>5. CASE WriteCompleted
  BY <1>5 DEF WriteCompleted, PCs, Statuses
<1>6. CASE CompletionFails
  BY <1>6 DEF CompletionFails, Fail, PCs
<1>7. CASE ReturnApplied
  BY <1>7, ResultType DEF ReturnApplied, PCs
<1>. QED
  BY <1>1, <1>2, <1>3, <1>4, <1>5, <1>6, <1>7 DEF Validate

LEMMA RecoverTypeInv == TypeInv /\ Recover => TypeInv'
<1>. SUFFICES ASSUME TypeInv, Recover PROVE TypeInv'
  OBVIOUS
<1>. USE DEF TypeInv, TypeOK, CursorOK, durable, lists, work, undo, history
<1>1. CASE HandleFailure
  <2>1. /\ caches' \subseteq {"pyc", "foreign"}
        /\ cache_unresolved' \in BOOLEAN /\ ioFault' \in BOOLEAN
    BY <1>1 DEF HandleFailure, CleanUpFirst, Cleaned
  <2>2. /\ pc' \in {"keep", "restore"} /\ cursor' \in Nat
        /\ pc' = "restore" => cursor' = Len(modified_files)
    BY <1>1 DEF HandleFailure
  <2>. QED  BY <1>1, <2>1, <2>2 DEF HandleFailure, PCs
<1>2. CASE RetainFailure
  BY <1>2, ResultType DEF RetainFailure, PCs, Statuses
<1>3. CASE RestoreOriginal
  <2>1. modified_files[cursor] \in Path
    BY <1>3 DEF RestoreOriginal
  <2>2. disk' \in [Path -> Content]
    BY <1>3, <2>1 DEF RestoreOriginal, Content
  <2>3. temps' \subseteq Path /\ unresolved' \subseteq Path /\ ioFault' \in BOOLEAN
    BY <1>3, <2>1 DEF RestoreOriginal, Unresolve
  <2>. QED  BY <1>3, <2>2, <2>3 DEF RestoreOriginal
<1>4. CASE RemoveCreatedFile
  <2>1. rollback_files[cursor] \in Item
    BY <1>4 DEF RemoveCreatedFile
  <2>2. rollback_files[cursor].path \in Path
    BY <2>1 DEF Item
  <2>3. disk' \in [Path -> Content]
    BY <1>4, <2>2 DEF RemoveCreatedFile, Content
  <2>4. temps' \subseteq Path /\ unresolved' \subseteq Path /\ ioFault' \in BOOLEAN
    BY <1>4, <2>2 DEF RemoveCreatedFile, Unresolve
  <2>. QED  BY <1>4, <2>3, <2>4 DEF RemoveCreatedFile
<1>5. CASE RemoveCreatedDirectory
  <2>1. created_directories[cursor] \in Path
    BY <1>5 DEF RemoveCreatedDirectory
  <2>2. disk' \in [Path -> Content]
    BY <1>5, <2>1 DEF RemoveCreatedDirectory, Content
  <2>3. temps' \subseteq Path /\ unresolved' \subseteq Path /\ ioFault' \in BOOLEAN
    BY <1>5, <2>1 DEF RemoveCreatedDirectory, Unresolve
  <2>. QED  BY <1>5, <2>2, <2>3 DEF RemoveCreatedDirectory
<1>6. CASE NextLoop
  BY <1>6 DEF NextLoop, PCs
<1>7. CASE Settle
  BY <1>7, ResultType DEF Settle, PCs, Statuses
<1>. QED
  BY <1>1, <1>2, <1>3, <1>4, <1>5, <1>6, <1>7 DEF Recover

LEMMA OthersTypeInv == TypeInv /\ (Manual \/ Environment \/ UNCHANGED vars) => TypeInv'
<1>. SUFFICES ASSUME TypeInv, Manual \/ Environment \/ UNCHANGED vars PROVE TypeInv'
  OBVIOUS
<1>. USE DEF TypeInv, TypeOK, CursorOK, durable, lists, work, undo, history
<1>1. CASE BeginManualRollback
  BY <1>1 DEF BeginManualRollback, PCs
<1>2. CASE ManualRollbackRefused
  BY <1>2, ResultType DEF ManualRollbackRefused
<1>3. CASE Interrupt
  <2>1. /\ pc \in PCs /\ pc' \in {"failing", "ended"} /\ current' \in SUBSET Path
        /\ stranded' \subseteq Path
    BY <1>3 DEF Interrupt, InterruptEnds, InterruptHandled, InterruptStrands
  <2>2. outcome' \in Outcome
    BY <1>3, ResultType
       DEF Interrupt, InterruptEnds, InterruptHandled, InterruptStrands
  <2>3. disk' \in [Path -> Content]
    BY <1>3 DEF Interrupt, InterruptEnds, InterruptHandled, InterruptStrands, Content
  <2>4. temps' \subseteq Path
    <3>1. pc = "restore" /\ cursor > 0 => modified_files[cursor] \in Path
      OBVIOUS
    <3>2. FilesToCreate \subseteq Path
      BY DeclaredType
    <3>. QED
      BY <1>3, <3>1, <3>2 DEF Interrupt, InterruptEnds, InterruptHandled, InterruptStrands
  <2>5. interruptedAt' \subseteq PCs
    BY <1>3, <2>1 DEF Interrupt
  <2>. QED  BY <1>3, <2>1, <2>2, <2>3, <2>4, <2>5 DEF Interrupt, PCs
<1>4. ASSUME NEW p \in Path, UserEdit(p) PROVE TypeInv'
  BY <1>4 DEF UserEdit, Content
<1>5. CASE UNCHANGED vars
  BY <1>5 DEF vars
<1>. QED
  BY <1>1, <1>2, <1>3, <1>4, <1>5 DEF Manual, Environment

LEMMA NextTypeInv == TypeInv /\ [Next]_vars => TypeInv'
  BY PrepareTypeInv, ApplyTypeInv, ValidateTypeInv, RecoverTypeInv, OthersTypeInv
     DEF Next, RunStep, Ended

LEMMA TypeInvariant == Spec => []TypeInv
  BY InitTypeInv, NextTypeInv, PTL DEF Spec

(* Every variable stays in its type, whatever the plan, the user, the tools *)
(* and the file system do; in particular every loop of a rollback stays     *)
(* within the list it works down.                                           *)
THEOREM TypeCorrect == Spec => []TypeOK
  BY TypeInvariant, PTL DEF TypeInv
-----------------------------------------------------------------------------
(* Write-ahead *)

(* WriteAhead is not inductive: it needs to know that nothing declared is    *)
(* touched before the manifest exists, that the manifest is only written     *)
(* when every step has been captured, and which steps have been.             *)
Untouched == \A p \in Declared \ edited : disk[p] = Original(p)
Captured == \A i \in DOMAIN plan.steps :
              i < step /\ plan.steps[i] \in OriginalsNeeded => plan.steps[i] \in copies

WriteAheadInv ==
  /\ pc = "planned" => step = 1
  /\ pc = "backup" => Captured
  /\ pc \in {"planned", "backup"} => manifest = "none"
  /\ manifest = "none" => pc \in {"planned", "backup", "ended"} /\ Untouched
  /\ manifest # "none" => OriginalsNeeded \subseteq copies

(* The plan, and with it all that is derived from it, never changes. *)
LEMMA PlanIsFixed == [Next]_vars => plan' = plan
<1>. SUFFICES ASSUME Next PROVE plan' = plan
  BY DEF vars, work
<1>. USE DEF work
<1>1. CASE Prepare
  BY <1>1 DEF Prepare, NoChange, PlanStale, BeginBackup, BackupUnavailable,
              CaptureEntry, CaptureFails, WritePrepared, Refuse
<1>2. CASE Apply
  BY <1>2 DEF Apply, MakeDirectory, StageFile, Publish, Record, VerifyEffect,
              EffectFails, PublishLeavesTemporary, PublishLeavesPartialTarget,
              EffectsComplete, CaptureLedger, Fail
<1>3. CASE Validate
  BY <1>3 DEF Validate, RunTool, InspectTool, CleanCaches, CompareInventory,
              WriteCompleted, CompletionFails, ReturnApplied, Fail
<1>4. CASE Recover
  BY <1>4 DEF Recover, HandleFailure, RetainFailure, RestoreOriginal,
              RemoveCreatedFile, RemoveCreatedDirectory, NextLoop, Settle
<1>5. CASE Manual \/ Environment \/ Ended
  BY <1>5 DEF Manual, BeginManualRollback, ManualRollbackRefused, Environment,
              Interrupt, UserEdit, Ended, vars
<1>. QED
  BY <1>1, <1>2, <1>3, <1>4, <1>5 DEF Next, RunStep

(* What is derived from the plan stays as it is. *)
LEMMA DerivedIsFixed ==
  ASSUME plan' = plan
  PROVE  /\ Steps' = Steps /\ PlannedDirs' = PlannedDirs
         /\ PlannedFiles' = PlannedFiles /\ Declared' = Declared
         /\ FilesToCreate' = FilesToCreate /\ OriginalsNeeded' = OriginalsNeeded
  BY DEF Steps, PlannedDirs, PlannedFiles, Declared, FilesToCreate, OriginalsNeeded

(* Once the manifest exists no step of the run, the user or the operator     *)
(* takes it or a retained original away.                                     *)
LEMMA RetainedStays ==
  ASSUME Apply \/ Validate \/ Recover \/ Manual \/ Environment \/ UNCHANGED vars,
         manifest # "none"
  PROVE  manifest' # "none" /\ copies' = copies
<1>. USE DEF durable
<1>1. CASE Apply
  BY <1>1 DEF Apply, MakeDirectory, StageFile, Publish, Record, VerifyEffect,
              EffectFails, PublishLeavesTemporary, PublishLeavesPartialTarget,
              EffectsComplete, CaptureLedger
<1>2. CASE Validate
  BY <1>2 DEF Validate, RunTool, InspectTool, CleanCaches, CompareInventory,
              WriteCompleted, CompletionFails, ReturnApplied
<1>3. CASE Recover
  BY <1>3 DEF Recover, HandleFailure, RetainFailure, RestoreOriginal,
              RemoveCreatedFile, RemoveCreatedDirectory, NextLoop, Settle
<1>4. CASE Manual \/ Environment \/ UNCHANGED vars
  BY <1>4 DEF Manual, BeginManualRollback, ManualRollbackRefused, Environment,
              Interrupt, UserEdit, vars
<1>. QED
  BY <1>1, <1>2, <1>3, <1>4

(* Everything after the preparation begins and ends outside it. *)
LEMMA PreparedOnce ==
  ASSUME Apply \/ Validate \/ Recover \/ Manual
  PROVE  /\ pc \notin {"planned", "backup"} /\ pc' \notin {"planned", "backup"}
         /\ pc = "ended" => manifest = "COMPLETED"
<1>1. CASE Apply
  BY <1>1 DEF Apply, MakeDirectory, StageFile, Publish, Record, VerifyEffect,
              EffectFails, PublishLeavesTemporary, PublishLeavesPartialTarget,
              EffectsComplete, CaptureLedger, Fail
<1>2. CASE Validate
  BY <1>2 DEF Validate, RunTool, InspectTool, CleanCaches, CompareInventory,
              WriteCompleted, CompletionFails, ReturnApplied, Fail
<1>3. CASE Recover
  BY <1>3 DEF Recover, HandleFailure, RetainFailure, RestoreOriginal,
              RemoveCreatedFile, RemoveCreatedDirectory, NextLoop, Settle
<1>4. CASE Manual
  BY <1>4 DEF Manual, BeginManualRollback, ManualRollbackRefused, Reversible
<1>. QED
  BY <1>1, <1>2, <1>3, <1>4

LEMMA InitWriteAhead == Init => WriteAheadInv
<1>. SUFFICES ASSUME Init PROVE WriteAheadInv
  OBVIOUS
<1>1. Untouched
  BY DeclaredType DEF Init, Untouched
<1>. QED  BY <1>1 DEF Init, WriteAheadInv

LEMMA NextWriteAhead == TypeInv /\ WriteAheadInv /\ [Next]_vars => WriteAheadInv'
<1>. SUFFICES ASSUME TypeInv, WriteAheadInv, [Next]_vars PROVE WriteAheadInv'
  OBVIOUS
<1>0. /\ plan' = plan /\ Declared' = Declared /\ OriginalsNeeded' = OriginalsNeeded
      /\ plan \in Plans
  BY PlanIsFixed, DerivedIsFixed DEF TypeInv, TypeOK
<1>1. CASE Apply \/ Validate \/ Recover \/ Manual
  <2>1. manifest # "none"
    BY <1>1, PreparedOnce DEF WriteAheadInv
  <2>. QED
    BY <1>0, <1>1, <2>1, RetainedStays, PreparedOnce DEF WriteAheadInv
<1>2. ASSUME UNCHANGED <<disk, copies, manifest, step, edited>>,
             pc' = pc \/ pc' = "ended" \/ (pc = "planned" /\ pc' = "backup")
      PROVE  WriteAheadInv'
  <2>1. Untouched' = Untouched /\ Captured' = Captured
    BY <1>0, <1>2 DEF Untouched, Captured, Original
  <2>2. step = 1 => Captured
    BY <1>0, PlanType DEF Captured
  <2>. QED  BY <1>0, <1>2, <2>1, <2>2 DEF WriteAheadInv
<1>3. CASE NoChange \/ PlanStale \/ BeginBackup \/ BackupUnavailable \/ CaptureFails
  BY <1>2, <1>3 DEF NoChange, PlanStale, BeginBackup, BackupUnavailable,
       CaptureFails, Refuse, durable, work, history
<1>4. CASE CaptureEntry
  <2>1. Captured'
    <3>. SUFFICES ASSUME NEW i \in DOMAIN plan.steps, i < step + 1,
                         plan.steps[i] \in OriginalsNeeded
                  PROVE  plan.steps[i] \in copies'
      BY <1>0, <1>4 DEF Captured, CaptureEntry
    <3>1. i \in Nat /\ step \in Nat
      BY <1>0, PlanType DEF TypeInv, TypeOK
    <3>2. CASE i = step
      BY <1>4, <3>2 DEF CaptureEntry
    <3>3. CASE i < step
      <4>1. plan.steps[i] \in copies
        BY <1>4, <3>3 DEF WriteAheadInv, Captured, CaptureEntry
      <4>. QED  BY <1>4, <4>1 DEF CaptureEntry
    <3>. QED  BY <3>1, <3>2, <3>3
  <2>2. Untouched' = Untouched
    BY <1>0, <1>4 DEF Untouched, CaptureEntry, history
  <2>. QED  BY <1>4, <2>1, <2>2 DEF WriteAheadInv, CaptureEntry
<1>5. CASE WritePrepared
  <2>1. OriginalsNeeded \subseteq copies
    <3>. SUFFICES ASSUME NEW q \in OriginalsNeeded PROVE q \in copies
      OBVIOUS
    <3>1. PICK i \in DOMAIN plan.steps : q = plan.steps[i]
      BY DEF OriginalsNeeded, Steps, Range
    <3>2. i <= Len(plan.steps) /\ i \in Nat
      BY <1>0, PlanType
    <3>3. i < step
      BY <1>0, <1>5, <3>2, PlanType DEF WritePrepared, TypeInv, TypeOK
    <3>. QED  BY <1>5, <3>1, <3>3 DEF WritePrepared, WriteAheadInv, Captured
  <2>. QED  BY <1>0, <1>5, <2>1 DEF WriteAheadInv, WritePrepared
<1>6. CASE Interrupt
  <2>1. pc' \in {"failing", "ended"} /\ pc # "ended"
    BY <1>6 DEF Interrupt, InterruptEnds, InterruptHandled, InterruptStrands
  <2>2. CASE pc \in {"planned", "backup"}
    <3>1. pc' = "ended" /\ UNCHANGED <<disk, copies, manifest, step, edited>>
      BY <1>6, <2>2
         DEF Interrupt, InterruptEnds, InterruptHandled, InterruptStrands, InTry
    <3>. QED  BY <1>2, <3>1
  <2>3. CASE pc \notin {"planned", "backup"}
    <3>1. manifest # "none" /\ UNCHANGED <<manifest, copies>>
      BY <1>6, <2>1, <2>3 DEF Interrupt, WriteAheadInv
    <3>. QED  BY <1>0, <2>1, <3>1 DEF WriteAheadInv
  <2>. QED  BY <2>2, <2>3
<1>7. ASSUME NEW p \in Path, UserEdit(p) PROVE WriteAheadInv'
  <2>1. Untouched => Untouched'
    BY <1>0, <1>7, DeclaredType DEF Untouched, UserEdit, Original, TypeInv, TypeOK
  <2>2. Captured' = Captured
    BY <1>0, <1>7 DEF Captured, UserEdit, work
  <2>. QED  BY <1>0, <1>7, <2>1, <2>2 DEF WriteAheadInv, UserEdit, work
<1>8. CASE UNCHANGED vars
  BY <1>2, <1>8 DEF vars, durable, work, history
<1>. QED
  BY <1>1, <1>3, <1>4, <1>5, <1>6, <1>7, <1>8
     DEF Next, RunStep, Prepare, Environment, Ended

LEMMA WriteAheadInvariant == Spec => []WriteAheadInv
  BY TypeInvariant, InitWriteAhead, NextWriteAhead, PTL DEF Spec

(* As soon as a declared path is not what it was, and not because a user     *)
(* edited it, the manifest exists and every original the plan overwrites or  *)
(* removes is retained: for every plan and at every point at which the       *)
(* process may be killed.                                                    *)
THEOREM OriginalsAreRetained == Spec => []WriteAhead
<1>1. TypeInv /\ WriteAheadInv => WriteAhead
  <2>. SUFFICES ASSUME TypeInv, WriteAheadInv,
                       \E p \in Declared \ edited : disk[p] # Original(p)
                PROVE  /\ manifest # "none"
                       /\ \A q \in Declared : Original(q) = "orig" => q \in copies
    BY DEF WriteAhead
  <2>1. manifest # "none"
    BY DEF WriteAheadInv, Untouched
  <2>2. \A q \in Declared : Original(q) = "orig" => q \in OriginalsNeeded
    <3>. SUFFICES ASSUME NEW q \in Declared, Original(q) = "orig"
                  PROVE  q \in OriginalsNeeded
      OBVIOUS
    <3>1. \A d \in PlannedDirs : Kind[d] = "directory"
      BY PlanAssumption DEF PlannedDirs, TypeInv, TypeOK
    <3>2. \A f \in Steps : Kind[f] # "undeclared"
      BY PlanAssumption DEF Steps, TypeInv, TypeOK
    <3>. QED  BY <3>1, <3>2 DEF Declared, PlannedFiles, OriginalsNeeded, Original
  <2>. QED  BY <2>1, <2>2 DEF WriteAheadInv
<1>. QED
  BY <1>1, TypeInvariant, WriteAheadInvariant, PTL

-----------------------------------------------------------------------------
(***************************************************************************)
(* An undone transaction leaves the declared paths as they were, for every *)
(* plan: UndoneIsOriginal of Transaction.                                  *)
(*                                                                         *)
(* The argument is a coverage of the disk by the lists of the run.  While  *)
(* rollback may still come, every declared path that differs from its      *)
(* original, and every temporary, is in a list or is the one in hand whose *)
(* entry comes next, or is where an interrupt stranded something; while    *)
(* rollback is at work, it is in what the loops have yet to work down, or  *)
(* has been given up on.  When nothing is left and nothing was given up    *)
(* on, everything is as it was, but for what is stranded.                  *)
(***************************************************************************)

(* What rollback has yet to deal with: entries of the list it is working     *)
(* down, or will work down.                                                  *)
RestorePending(p) ==
  /\ pc \notin {"unlink", "rmdir", "settle"}
  /\ \E i \in DOMAIN modified_files :
       modified_files[i] = p /\ (pc = "restore" => i <= cursor)
UnlinkPending(item) ==
  /\ pc \notin {"rmdir", "settle"}
  /\ \E i \in DOMAIN rollback_files :
       rollback_files[i] = item /\ (pc = "unlink" => i <= cursor)
RmdirPending(d) ==
  /\ pc # "settle"
  /\ \E i \in DOMAIN created_directories :
       created_directories[i] = d /\ (pc = "rmdir" => i <= cursor)
Left(p) == pc \in RollbackPCs /\ p \in unresolved

(* A path that is not as it was is in a list, has been given up on, is the   *)
(* one in hand whose entry comes next, or is where something is stranded.    *)
Pending(p) ==
  \/ RestorePending(p) \/ UnlinkPending(Target(p)) \/ RmdirPending(p)
  \/ Left(p)
  \/ pc = "published" /\ p \in current
  \/ p \in stranded
PendingTemp(p) ==
  \/ UnlinkPending(Temporary(p))
  \/ Left(p)
  \/ pc = "staged" /\ p \in current
  \/ p \in stranded

Coverage ==
  /\ \A p \in Declared : disk[p] = Original(p) \/ Pending(p)
  /\ \A p \in temps : PendingTemp(p)

(* The lists hold what their loops may be given. *)
ListKinds ==
  /\ \A i \in DOMAIN modified_files : modified_files[i] \in OriginalsNeeded
  /\ \A i \in DOMAIN rollback_files :
       ~rollback_files[i].temp => rollback_files[i].path \in FilesToCreate
  /\ \A i \in DOMAIN created_directories : created_directories[i] \in PlannedDirs

(* One path is in hand between its first step and its verification. *)
InHand ==
  IF pc \in {"staged", "published", "verify"}
  THEN \E p \in Declared : current = {p}
  ELSE current = {}

(* No user has changed a declared file. *)
Unedited == edited = {}

(* Rollback may still begin, or is at work. *)
Active ==
  \/ pc # "ended"
  \/ manifest = "COMPLETED" /\ outcome.status \in {"APPLIED", "REFUSED"}

(* The inductive invariant, with the lists' own below. *)
UndoInv ==
  /\ manifest \in {"ROLLED_BACK", "FAILED"} =>
       pc = "ended" /\ (Unedited => OriginalBut(stranded))
  /\ Unedited /\ Active => Coverage

-----------------------------------------------------------------------------
(* Lemmas about the plan *)

(* A declared path is a planned directory, a created file, or has an original. *)
LEMMA DeclaredKinds ==
  ASSUME plan \in Plans, NEW p \in Declared
  PROVE  /\ p \in Path
         /\ \/ p \in PlannedDirs /\ Kind[p] = "directory"
            \/ p \in FilesToCreate /\ Kind[p] = "create"
            \/ p \in OriginalsNeeded /\ Kind[p] \in {"modify", "delete"}
<1>1. p \in Path
  BY DeclaredType
<1>2. CASE p \in PlannedDirs
  BY <1>1, <1>2, PlanAssumption DEF PlannedDirs
<1>3. CASE p \in PlannedFiles
  <2>1. p \in Steps /\ Kind[p] # "directory"
    BY <1>3 DEF PlannedFiles
  <2>2. Kind[p] # "undeclared"
    BY <2>1, PlanAssumption DEF Steps
  <2>3. Kind[p] \in Kinds
    BY <1>1, PathAssumption
  <2>. QED
    BY <1>1, <2>1, <2>2, <2>3 DEF Kinds, FilesToCreate, OriginalsNeeded
<1>. QED  BY <1>2, <1>3 DEF Declared

LEMMA OriginalContents ==
  ASSUME plan \in Plans
  PROVE  /\ \A p \in PlannedDirs : p \in Declared /\ Original(p) = "absent"
         /\ \A p \in FilesToCreate : p \in Declared /\ Original(p) = "absent"
         /\ \A p \in OriginalsNeeded : p \in Declared /\ Original(p) = "orig"
<1>1. \A p \in PlannedDirs : Kind[p] = "directory"
  BY PlanAssumption DEF PlannedDirs
<1>. QED
  BY <1>1 DEF Declared, PlannedFiles, FilesToCreate, OriginalsNeeded, Original

(* What appending does to the elements of a list. *)
LEMMA AppendRange ==
  ASSUME NEW S, NEW s \in Seq(S), NEW e \in S
  PROVE  /\ Append(s, e) \in Seq(S)
         /\ Range(Append(s, e)) = Range(s) \cup {e}
<1>1. /\ Append(s, e) \in Seq(S) /\ Len(Append(s, e)) = Len(s) + 1
      /\ \A i \in 1..Len(s) : Append(s, e)[i] = s[i]
      /\ Append(s, e)[Len(s) + 1] = e
  BY AppendProperties
<1>2. /\ DOMAIN Append(s, e) = 1..(Len(s) + 1) /\ DOMAIN s = 1..Len(s)
      /\ Len(s) \in Nat
  BY <1>1
<1>3. Range(s) \cup {e} \subseteq Range(Append(s, e))
  BY <1>1, <1>2 DEF Range
<1>4. ASSUME NEW x \in Range(Append(s, e)) PROVE x \in Range(s) \cup {e}
  <2>1. PICK i \in 1..(Len(s) + 1) : x = Append(s, e)[i]
    BY <1>2 DEF Range
  <2>2. CASE i = Len(s) + 1
    BY <1>1, <2>1, <2>2
  <2>3. CASE i # Len(s) + 1
    <3>1. i \in 1..Len(s)
      BY <1>2, <2>3
    <3>. QED  BY <1>1, <1>2, <2>1, <3>1 DEF Range
  <2>. QED  BY <2>2, <2>3
<1>. QED  BY <1>1, <1>3, <1>4

LEMMA AppendTwiceRange ==
  ASSUME NEW S, NEW s \in Seq(S), NEW e \in S, NEW f \in S
  PROVE  Range(Append(Append(s, e), f)) = Range(s) \cup {e, f}
<1>. DEFINE t == Append(s, e)
<1>1. t \in Seq(S) /\ Range(t) = Range(s) \cup {e}
  BY AppendRange
<1>. HIDE DEF t
<1>2. Range(Append(t, f)) = Range(t) \cup {f}
  BY <1>1, AppendRange
<1>. QED  BY <1>1, <1>2 DEF t

-----------------------------------------------------------------------------
(* The lists and the path in hand *)

ListsOK ==
  /\ ListKinds
  /\ InHand
  /\ pc \in {"ledger", "run", "inspect"} => AllRecorded

(* Only three actions add to the lists, and nothing takes from them. *)
LEMMA ListsChange ==
  ASSUME [Next]_vars
  PROVE  UNCHANGED lists \/ Record \/ PublishLeavesTemporary \/ PublishLeavesPartialTarget
<1>. SUFFICES ASSUME Next, ~Record, ~PublishLeavesTemporary, ~PublishLeavesPartialTarget
              PROVE  UNCHANGED lists
  BY DEF vars
<1>1. CASE Prepare
  BY <1>1 DEF Prepare, NoChange, PlanStale, BeginBackup, BackupUnavailable,
              CaptureEntry, CaptureFails, WritePrepared, Refuse
<1>2. CASE Apply
  BY <1>2 DEF Apply, MakeDirectory, StageFile, Publish, VerifyEffect, EffectFails,
              EffectsComplete, CaptureLedger
<1>3. CASE Validate
  BY <1>3 DEF Validate, RunTool, InspectTool, CleanCaches, CompareInventory,
              WriteCompleted, CompletionFails, ReturnApplied
<1>4. CASE Recover
  BY <1>4 DEF Recover, HandleFailure, RetainFailure, RestoreOriginal,
              RemoveCreatedFile, RemoveCreatedDirectory, NextLoop, Settle
<1>5. CASE Manual \/ Environment \/ Ended
  BY <1>5 DEF Manual, BeginManualRollback, ManualRollbackRefused, Environment,
              Interrupt, UserEdit, Ended, vars
<1>. QED
  BY <1>1, <1>2, <1>3, <1>4, <1>5 DEF Next, RunStep

(* ListKinds, in terms of what the lists contain. *)
LEMMA ListKindsRange ==
  ListKinds <=>
    /\ Range(modified_files) \subseteq OriginalsNeeded
    /\ \A item \in Range(rollback_files) : ~item.temp => item.path \in FilesToCreate
    /\ Range(created_directories) \subseteq PlannedDirs
  BY DEF ListKinds, Range

LEMMA ListKindsRangeNext ==
  ListKinds' <=>
    /\ Range(modified_files') \subseteq OriginalsNeeded'
    /\ \A item \in Range(rollback_files') : ~item.temp => item.path \in FilesToCreate'
    /\ Range(created_directories') \subseteq PlannedDirs'
  BY DEF ListKinds, Range

LEMMA NextListKinds == TypeInv /\ ListsOK /\ [Next]_vars => ListKinds'
<1>. SUFFICES ASSUME TypeInv, ListsOK, [Next]_vars PROVE ListKinds'
  OBVIOUS
<1>0. /\ plan \in Plans /\ plan' = plan
      /\ FilesToCreate' = FilesToCreate /\ OriginalsNeeded' = OriginalsNeeded
      /\ PlannedDirs' = PlannedDirs
      /\ modified_files \in Seq(Path) /\ rollback_files \in Seq(Item)
      /\ created_directories \in Seq(Path)
  BY PlanIsFixed, DerivedIsFixed DEF TypeInv, TypeOK
<1>1. /\ Range(modified_files) \subseteq OriginalsNeeded
      /\ \A item \in Range(rollback_files) : ~item.temp => item.path \in FilesToCreate
      /\ Range(created_directories) \subseteq PlannedDirs
  BY ListKindsRange DEF ListsOK
<1>2. CASE UNCHANGED lists
  BY <1>0, <1>1, <1>2, ListKindsRangeNext DEF lists
<1>3. CASE Record
  <2>1. PICK p \in Declared : Listed(p)
    BY <1>3 DEF Record, ListsOK, InHand
  <2>2. /\ p \in Path
        /\ Kind[p] = "directory" => p \in PlannedDirs
        /\ Kind[p] = "create" => p \in FilesToCreate
        /\ Kind[p] \in {"modify", "delete"} => p \in OriginalsNeeded
    BY <1>0, DeclaredKinds
  <2>3. Range(modified_files') \subseteq OriginalsNeeded
    BY <1>0, <1>1, <2>1, <2>2, AppendRange DEF Listed
  <2>4. \A item \in Range(rollback_files') : ~item.temp => item.path \in FilesToCreate
    BY <1>0, <1>1, <2>1, <2>2, AppendRange, ItemType DEF Listed, Target
  <2>5. Range(created_directories') \subseteq PlannedDirs
    BY <1>0, <1>1, <2>1, <2>2, AppendRange DEF Listed
  <2>. QED  BY <1>0, <2>3, <2>4, <2>5, ListKindsRangeNext
<1>4. CASE PublishLeavesTemporary \/ PublishLeavesPartialTarget
  <2>1. PICK p \in Declared :
          /\ \/ rollback_files' = Append(rollback_files, Temporary(p))
             \/ /\ Kind[p] = "create"
                /\ rollback_files' = Append(Append(rollback_files, Target(p)), Temporary(p))
             \/ Kind[p] = "create" /\ rollback_files' = Append(rollback_files, Target(p))
          /\ UNCHANGED <<modified_files, created_directories>>
    BY <1>4 DEF PublishLeavesTemporary, PublishLeavesPartialTarget, ListsOK, InHand
  <2>2. p \in Path /\ (Kind[p] = "create" => p \in FilesToCreate)
    BY <1>0, DeclaredKinds
  <2>3. /\ Append(rollback_files, Target(p)) \in Seq(Item)
        /\ Range(Append(rollback_files, Target(p))) = Range(rollback_files) \cup {Target(p)}
        /\ Range(Append(rollback_files, Temporary(p)))
             = Range(rollback_files) \cup {Temporary(p)}
    BY <1>0, <2>2, AppendRange, ItemType
  <2>4. Range(Append(Append(rollback_files, Target(p)), Temporary(p)))
          = Range(rollback_files) \cup {Target(p), Temporary(p)}
    BY <1>0, <2>2, AppendTwiceRange, ItemType
  <2>5. Range(rollback_files') \subseteq Range(rollback_files) \cup {Target(p), Temporary(p)}
    BY <2>1, <2>3, <2>4
  <2>6. Kind[p] # "create" => Target(p) \notin Range(rollback_files') \ Range(rollback_files)
    <3>1. Target(p) # Temporary(p)
      BY DEF Target, Temporary
    <3>. QED  BY <2>1, <2>3, <3>1
  <2>7. \A item \in Range(rollback_files') : ~item.temp => item.path \in FilesToCreate
    <3>. SUFFICES ASSUME NEW item \in Range(rollback_files'), ~item.temp
                  PROVE  item.path \in FilesToCreate
      OBVIOUS
    <3>1. /\ ~Target(p).temp /\ Target(p).path = p
          /\ Temporary(p).temp
      BY DEF Target, Temporary
    <3>2. CASE item \in Range(rollback_files)
      BY <1>1, <3>2
    <3>3. CASE item \notin Range(rollback_files)
      <4>1. item = Target(p)
        BY <2>5, <3>1, <3>3
      <4>. QED  BY <2>2, <2>6, <3>1, <3>3, <4>1
    <3>. QED  BY <3>2, <3>3
  <2>. QED  BY <1>0, <1>1, <2>1, <2>7, ListKindsRangeNext
<1>. QED
  BY <1>2, <1>3, <1>4, ListsChange

LEMMA NextInHand == TypeInv /\ ListsOK /\ [Next]_vars => InHand'
<1>. SUFFICES ASSUME TypeInv, ListsOK, [Next]_vars PROVE InHand'
  OBVIOUS
<1>0. /\ plan \in Plans /\ Declared' = Declared
      /\ pc \in {"staged", "published", "verify"} => \E p \in Declared : current = {p}
      /\ pc \notin {"staged", "published", "verify"} => current = {}
  BY PlanIsFixed, DerivedIsFixed DEF TypeInv, TypeOK, ListsOK, InHand
<1>. USE DEF InHand, durable, work
<1>1. CASE Prepare
  BY <1>0, <1>1 DEF Prepare, NoChange, PlanStale, BeginBackup, BackupUnavailable,
              CaptureEntry, CaptureFails, WritePrepared, Refuse
<1>2. CASE MakeDirectory
  <2>1. plan.steps[step] \in Path
    BY <1>0, <1>2, PlanType DEF MakeDirectory, TypeInv, TypeOK
  <2>2. \E d \in Declared : current' = {d}
    BY <1>0, <1>2, <2>1, NextDirectoryType, OriginalContents DEF MakeDirectory
  <2>. QED  BY <1>0, <1>2, <2>2 DEF MakeDirectory
<1>3. CASE StageFile
  <2>1. plan.steps[step] \in Declared
    BY <1>0, <1>3, PlanType
       DEF StageFile, TypeInv, TypeOK, Declared, PlannedFiles, Steps, Range
  <2>. QED  BY <1>0, <1>3, <2>1 DEF StageFile
<1>4. CASE Publish
  BY <1>0, <1>4 DEF Publish
<1>5. CASE Record
  BY <1>0, <1>5 DEF Record
<1>6. CASE VerifyEffect
  BY <1>0, <1>6 DEF VerifyEffect
<1>7. CASE EffectFails \/ PublishLeavesTemporary \/ PublishLeavesPartialTarget
  BY <1>7 DEF EffectFails, PublishLeavesTemporary, PublishLeavesPartialTarget, Fail
<1>8. CASE EffectsComplete \/ CaptureLedger
  BY <1>0, <1>8 DEF EffectsComplete, CaptureLedger, Fail
<1>9. CASE Validate
  BY <1>0, <1>9 DEF Validate, RunTool, InspectTool, CleanCaches, CompareInventory,
              WriteCompleted, CompletionFails, ReturnApplied, Fail
<1>10. CASE Recover
  BY <1>0, <1>10 DEF Recover, HandleFailure, RetainFailure, RestoreOriginal,
              RemoveCreatedFile, RemoveCreatedDirectory, NextLoop, Settle
<1>11. CASE Manual
  BY <1>0, <1>11 DEF Manual, BeginManualRollback, ManualRollbackRefused, Reversible
<1>12. CASE Interrupt
  BY <1>0, <1>12
     DEF Interrupt, InterruptEnds, InterruptHandled, InterruptStrands, InTry, AtTheEdge
<1>13. CASE (\E p \in Path : UserEdit(p)) \/ UNCHANGED vars
  BY <1>0, <1>13 DEF UserEdit, vars
<1>. QED
  BY <1>1, <1>2, <1>3, <1>4, <1>5, <1>6, <1>7, <1>8, <1>9, <1>10, <1>11, <1>12, <1>13
     DEF Next, RunStep, Apply, Environment, Ended

(* Tools only run after everything planned was recorded. *)
LEMMA NextAllRecorded ==
  ListsOK /\ [Next]_vars => (pc' \in {"ledger", "run", "inspect"} => AllRecorded')
<1>. SUFFICES ASSUME ListsOK, [Next]_vars, pc' \in {"ledger", "run", "inspect"}
              PROVE  AllRecorded'
  OBVIOUS
<1>1. UNCHANGED lists
  BY ListsChange
     DEF Record, PublishLeavesTemporary, PublishLeavesPartialTarget, Fail
<1>2. AllRecorded' = AllRecorded
  BY <1>1, PlanIsFixed, DerivedIsFixed DEF AllRecorded, CreatedFiles, lists
<1>3. CASE Prepare
  BY <1>3 DEF Prepare, NoChange, PlanStale, BeginBackup, BackupUnavailable,
              CaptureEntry, CaptureFails, WritePrepared, Refuse
<1>4. CASE Apply
  BY <1>2, <1>4 DEF Apply, MakeDirectory, StageFile, Publish, Record, VerifyEffect,
              EffectFails, PublishLeavesTemporary, PublishLeavesPartialTarget,
              EffectsComplete, CaptureLedger, Fail, ListsOK
<1>5. CASE Validate
  BY <1>2, <1>5 DEF Validate, RunTool, InspectTool, CleanCaches, CompareInventory,
              WriteCompleted, CompletionFails, ReturnApplied, Fail, ListsOK
<1>6. CASE Recover
  BY <1>6 DEF Recover, HandleFailure, RetainFailure, RestoreOriginal,
              RemoveCreatedFile, RemoveCreatedDirectory, NextLoop, Settle
<1>7. CASE Manual \/ Environment \/ UNCHANGED vars
  BY <1>2, <1>7 DEF Manual, BeginManualRollback, ManualRollbackRefused, Reversible,
              Environment, Interrupt, InterruptEnds, InterruptHandled, InterruptStrands,
              UserEdit, vars, ListsOK
<1>. QED
  BY <1>3, <1>4, <1>5, <1>6, <1>7 DEF Next, RunStep, Ended

LEMMA ListsInvariant == Spec => []ListsOK
<1>1. Init => ListsOK
  BY DEF Init, ListsOK, ListKinds, InHand
<1>2. TypeInv /\ ListsOK /\ [Next]_vars => ListsOK'
  BY NextListKinds, NextInHand, NextAllRecorded DEF ListsOK
<1>. QED
  BY <1>1, <1>2, TypeInvariant, PTL DEF Spec

-----------------------------------------------------------------------------
(* What is pending outside the loops of a rollback *)

(* Outside the loops every entry of every list is pending. *)
LEMMA PendingOutside ==
  ASSUME pc \notin RollbackPCs
  PROVE  \A p : /\ Pending(p) <=>
                     \/ p \in Range(modified_files) \cup Range(created_directories)
                     \/ Target(p) \in Range(rollback_files)
                     \/ pc = "published" /\ p \in current
                     \/ p \in stranded
                /\ PendingTemp(p) <=>
                     \/ Temporary(p) \in Range(rollback_files)
                     \/ pc = "staged" /\ p \in current
                     \/ p \in stranded
  BY DEF RollbackPCs, Pending, PendingTemp, RestorePending, UnlinkPending,
         RmdirPending, Left, Range

LEMMA PendingOutsideNext ==
  ASSUME pc' \notin RollbackPCs
  PROVE  \A p : /\ Pending(p)' <=>
                     \/ p \in Range(modified_files') \cup Range(created_directories')
                     \/ Target(p) \in Range(rollback_files')
                     \/ pc' = "published" /\ p \in current'
                     \/ p \in stranded'
                /\ PendingTemp(p)' <=>
                     \/ Temporary(p) \in Range(rollback_files')
                     \/ pc' = "staged" /\ p \in current'
                     \/ p \in stranded'
  BY DEF RollbackPCs, Pending, PendingTemp, RestorePending, UnlinkPending,
         RmdirPending, Left, Range, Target, Temporary

(* A step outside the loops that touches no declared path keeps the coverage, *)
(* if it takes a staged temporary out of hand only together with the file.    *)
LEMMA CoverageStays ==
  ASSUME Coverage, UNCHANGED <<plan, disk, lists, stranded>>, temps' \subseteq temps,
         pc \notin RollbackPCs \cup {"published"}, pc' \notin RollbackPCs,
         pc = "staged" => temps' \cap current = {}
  PROVE  Coverage'
<1>1. Declared' = Declared /\ (\A p : Original(p)' = Original(p))
  BY DerivedIsFixed DEF Original
<1>2. \A p : Pending(p) => Pending(p)'
  BY PendingOutside, PendingOutsideNext DEF lists
<1>3. \A p \in temps' : PendingTemp(p) => PendingTemp(p)'
  BY PendingOutside, PendingOutsideNext DEF lists
<1>. QED  BY <1>1, <1>2, <1>3 DEF Coverage

(* The loops begin above the last entry of the first list. *)
LEMMA CoverageBegins ==
  ASSUME Coverage, UNCHANGED <<plan, disk, temps, lists, stranded>>, TypeInv,
         pc \notin RollbackPCs \cup {"published", "staged"},
         pc' = "restore", cursor' = Len(modified_files)
  PROVE  Coverage'
<1>1. Declared' = Declared /\ (\A p : Original(p)' = Original(p))
  BY DerivedIsFixed DEF Original
<1>2. \A i \in DOMAIN modified_files : i <= cursor'
  BY DEF TypeInv, TypeOK
<1>3. \A p : (RestorePending(p) => RestorePending(p)')
  BY <1>2 DEF RestorePending, lists
<1>4. \A p : UnlinkPending(Target(p)) => UnlinkPending(Target(p))'
  BY DEF UnlinkPending, lists, Target
<1>5. \A p : UnlinkPending(Temporary(p)) => UnlinkPending(Temporary(p))'
  BY DEF UnlinkPending, lists, Temporary
<1>6. \A p : RmdirPending(p) => RmdirPending(p)'
  BY DEF RmdirPending, lists
<1>7. \A p : ~Left(p)
  BY DEF Left
<1>. QED
  BY <1>1, <1>3, <1>4, <1>5, <1>6, <1>7 DEF Coverage, Pending, PendingTemp

(* After everything planned was recorded, every declared path is pending. *)
LEMMA CoverageOfTools ==
  ASSUME plan \in Plans, AllRecorded, Coverage, UNCHANGED <<plan, temps, lists, stranded>>,
         pc \notin RollbackPCs \cup {"staged"}, pc' \notin RollbackPCs
  PROVE  Coverage'
<1>1. Declared' = Declared
  BY DerivedIsFixed
<1>2. ASSUME NEW p \in Declared PROVE Pending(p)'
  BY <1>2, DeclaredKinds, PendingOutsideNext DEF AllRecorded, CreatedFiles, lists
<1>3. \A p \in temps' : PendingTemp(p)'
  BY PendingOutside, PendingOutsideNext DEF Coverage, lists
<1>. QED  BY <1>1, <1>2, <1>3 DEF Coverage

-----------------------------------------------------------------------------
(* Only an interrupt leaves something where no list says so. *)
LEMMA StrandedStays ==
  ASSUME RunStep \/ Manual \/ (\E p \in Path : UserEdit(p)) \/ UNCHANGED vars
  PROVE  stranded' = stranded
<1>. USE DEF history
<1>1. CASE Prepare
  BY <1>1 DEF Prepare, NoChange, PlanStale, BeginBackup, BackupUnavailable,
              CaptureEntry, CaptureFails, WritePrepared, Refuse
<1>2. CASE Apply
  BY <1>2 DEF Apply, MakeDirectory, StageFile, Publish, Record, VerifyEffect,
              EffectFails, PublishLeavesTemporary, PublishLeavesPartialTarget,
              EffectsComplete, CaptureLedger, Fail
<1>3. CASE Validate
  BY <1>3 DEF Validate, RunTool, InspectTool, CleanCaches, CompareInventory,
              WriteCompleted, CompletionFails, ReturnApplied, Fail
<1>4. CASE Recover
  BY <1>4 DEF Recover, HandleFailure, RetainFailure, RestoreOriginal,
              RemoveCreatedFile, RemoveCreatedDirectory, NextLoop, Settle
<1>5. CASE Manual \/ (\E p \in Path : UserEdit(p)) \/ UNCHANGED vars
  BY <1>5 DEF Manual, BeginManualRollback, ManualRollbackRefused, UserEdit, vars
<1>. QED  BY <1>1, <1>2, <1>3, <1>4, <1>5 DEF RunStep

-----------------------------------------------------------------------------
(* The effects of the run *)

LEMMA ApplyCoverage ==
  TypeInv /\ ListsOK /\ Coverage /\ Apply => Coverage'
<1>. SUFFICES ASSUME TypeInv, ListsOK, Coverage, Apply PROVE Coverage'
  OBVIOUS
<1>0. /\ plan \in Plans /\ plan' = plan /\ Declared' = Declared
      /\ (\A p : Original(p)' = Original(p))
      /\ modified_files \in Seq(Path) /\ rollback_files \in Seq(Item)
      /\ created_directories \in Seq(Path)
      /\ disk \in [Path -> Content]
      /\ pc \in {"staged", "published", "verify"} => \E p \in Declared : current = {p}
      /\ pc \notin {"staged", "published", "verify"} => current = {}
      /\ stranded' = stranded
  BY PlanIsFixed, DerivedIsFixed, StrandedStays
     DEF TypeInv, TypeOK, ListsOK, InHand, Next, RunStep, Original
<1>. USE <1>0 DEF RollbackPCs
<1>1. CASE MakeDirectory
  <2>1. plan.steps[step] \in Path
    BY <1>0, <1>1, PlanType DEF MakeDirectory, TypeInv, TypeOK
  <2>2. PICK d \in Path : disk' = [disk EXCEPT ![d] = "dir"] /\ current' = {d}
    BY <1>0, <1>1, <2>1, NextDirectoryType DEF MakeDirectory
  <2>3. \A p : Pending(p) => Pending(p)'
    BY <1>1, PendingOutside, PendingOutsideNext DEF MakeDirectory, lists
  <2>4. Pending(d)'
    BY <1>1, <2>2, PendingOutsideNext DEF MakeDirectory
  <2>5. \A p : PendingTemp(p) => PendingTemp(p)'
    BY <1>1, PendingOutside, PendingOutsideNext DEF MakeDirectory, lists
  <2>6. \A p \in Declared : p # d => disk'[p] = disk[p]
    BY <1>0, <2>2, DeclaredType
  <2>. QED  BY <1>0, <1>1, <2>3, <2>4, <2>5, <2>6 DEF Coverage, MakeDirectory
<1>2. CASE StageFile
  <2>1. \A p : Pending(p) => Pending(p)'
    BY <1>2, PendingOutside, PendingOutsideNext DEF StageFile, lists
  <2>2. \A p : PendingTemp(p) => PendingTemp(p)'
    BY <1>2, PendingOutside, PendingOutsideNext DEF StageFile, lists
  <2>3. \A p \in temps' \ temps : PendingTemp(p)'
    BY <1>2, PendingOutsideNext DEF StageFile
  <2>. QED  BY <1>0, <1>2, <2>1, <2>2, <2>3 DEF Coverage, StageFile
<1>3. CASE Publish
  <2>1. PICK q \in Declared : current = {q}
    BY <1>0, <1>3 DEF Publish
  <2>2. /\ disk' = [disk EXCEPT ![q] = Planned(q)]
        /\ temps' = temps \ {q} /\ current' = {q} /\ pc' = "published"
        /\ UNCHANGED lists /\ pc = "staged"
    BY <1>3, <2>1 DEF Publish
  <2>3. Pending(q)'
    BY <2>2, PendingOutsideNext
  <2>4. \A p : Pending(p) => Pending(p)'
    BY <2>2, PendingOutside, PendingOutsideNext DEF lists
  <2>5. \A p \in temps' : PendingTemp(p) => PendingTemp(p)'
    BY <2>1, <2>2, PendingOutside, PendingOutsideNext DEF lists
  <2>6. \A p \in Declared : p # q => disk'[p] = disk[p]
    BY <1>0, <2>2, DeclaredType
  <2>. QED  BY <1>0, <2>2, <2>3, <2>4, <2>5, <2>6 DEF Coverage
<1>4. CASE Record
  <2>1. PICK q \in Declared : current = {q} /\ Listed(q)
    BY <1>0, <1>4 DEF Record
  <2>2. q \in Path /\ Kind[q] \in {"directory", "create", "modify", "delete"}
    BY <1>0, DeclaredKinds
  <2>3. /\ Range(modified_files) \subseteq Range(modified_files')
        /\ Range(rollback_files) \subseteq Range(rollback_files')
        /\ Range(created_directories) \subseteq Range(created_directories')
        /\ \/ q \in Range(modified_files') \cup Range(created_directories')
           \/ Target(q) \in Range(rollback_files')
    <3>1. CASE Kind[q] = "directory"
      BY <1>0, <2>1, <2>2, <3>1, AppendRange DEF Listed
    <3>2. CASE Kind[q] = "create"
      BY <1>0, <2>1, <2>2, <3>2, AppendRange, ItemType DEF Listed
    <3>3. CASE Kind[q] \in {"modify", "delete"}
      BY <1>0, <2>1, <2>2, <3>3, AppendRange DEF Listed
    <3>. QED  BY <2>2, <3>1, <3>2, <3>3
  <2>4. \A p : Pending(p) => Pending(p)'
    BY <1>4, <2>1, <2>3, PendingOutside, PendingOutsideNext DEF Record
  <2>5. \A p : PendingTemp(p) => PendingTemp(p)'
    BY <1>4, <2>3, PendingOutside, PendingOutsideNext DEF Record
  <2>. QED  BY <1>0, <1>4, <2>4, <2>5 DEF Coverage, Record, durable
<1>5. CASE VerifyEffect
  BY <1>5, CoverageStays DEF VerifyEffect, durable, work
<1>6. CASE EffectFails
  BY <1>6, CoverageStays DEF EffectFails, Fail, work
<1>7. CASE PublishLeavesTemporary
  <2>1. PICK q \in Declared : current = {q}
    BY <1>0, <1>7 DEF PublishLeavesTemporary
  <2>2. /\ pc = "staged" /\ pc' = "failing" /\ UNCHANGED temps
        /\ UNCHANGED <<modified_files, created_directories>>
        /\ \/ /\ UNCHANGED disk
              /\ rollback_files' = Append(rollback_files, Temporary(q))
           \/ /\ \E c \in {"new", "alien"} : disk' = [disk EXCEPT ![q] = c]
              /\ rollback_files' = Append(Append(rollback_files, Target(q)), Temporary(q))
    BY <1>7, <2>1 DEF PublishLeavesTemporary, Fail
  <2>3. q \in Path
    BY <1>0, DeclaredType
  <2>4. /\ Range(rollback_files) \subseteq Range(rollback_files')
        /\ Temporary(q) \in Range(rollback_files')
        /\ UNCHANGED disk \/ Target(q) \in Range(rollback_files')
    <3>1. CASE rollback_files' = Append(rollback_files, Temporary(q)) /\ UNCHANGED disk
      BY <1>0, <2>3, <3>1, AppendRange, ItemType
    <3>2. CASE rollback_files' = Append(Append(rollback_files, Target(q)), Temporary(q))
      BY <1>0, <2>3, <3>2, AppendTwiceRange, ItemType
    <3>. QED  BY <2>2, <3>1, <3>2
  <2>5. \A p : Pending(p) => Pending(p)'
    BY <2>2, <2>4, PendingOutside, PendingOutsideNext
  <2>6. \A p : PendingTemp(p) => PendingTemp(p)'
    BY <2>1, <2>2, <2>4, PendingOutside, PendingOutsideNext
  <2>7. \A p \in Declared : disk'[p] = disk[p] \/ Pending(p)'
    <3>1. \A p \in Declared : p # q => disk'[p] = disk[p]
      BY <1>0, <2>2, DeclaredType
    <3>2. UNCHANGED disk \/ Pending(q)'
      BY <2>2, <2>4, PendingOutsideNext
    <3>. QED  BY <3>1, <3>2
  <2>. QED  BY <1>0, <2>2, <2>5, <2>6, <2>7 DEF Coverage
<1>8. CASE PublishLeavesPartialTarget
  <2>1. PICK q \in Declared : current = {q}
    BY <1>0, <1>8 DEF PublishLeavesPartialTarget
  <2>2. /\ pc = "staged" /\ pc' = "failing" /\ temps' = temps \ {q}
        /\ UNCHANGED <<modified_files, created_directories>>
        /\ disk' = [disk EXCEPT ![q] = "alien"]
        /\ rollback_files' = Append(rollback_files, Target(q))
    BY <1>8, <2>1 DEF PublishLeavesPartialTarget, Fail
  <2>3. /\ Range(rollback_files) \subseteq Range(rollback_files')
        /\ Target(q) \in Range(rollback_files')
    BY <1>0, <2>1, <2>2, AppendRange, ItemType, DeclaredType
  <2>4. \A p : Pending(p) => Pending(p)'
    BY <2>2, <2>3, PendingOutside, PendingOutsideNext
  <2>5. \A p \in temps' : PendingTemp(p) => PendingTemp(p)'
    BY <2>1, <2>2, <2>3, PendingOutside, PendingOutsideNext
  <2>6. Pending(q)'
    BY <2>2, <2>3, PendingOutsideNext
  <2>7. \A p \in Declared : p # q => disk'[p] = disk[p]
    BY <1>0, <2>2, DeclaredType
  <2>. QED  BY <1>0, <2>2, <2>4, <2>5, <2>6, <2>7 DEF Coverage
<1>9. CASE EffectsComplete \/ CaptureLedger
  BY <1>0, <1>9, CoverageStays DEF EffectsComplete, CaptureLedger, Fail, durable
<1>. QED
  BY <1>1, <1>2, <1>3, <1>4, <1>5, <1>6, <1>7, <1>8, <1>9 DEF Apply

LEMMA ValidateCoverage ==
  TypeInv /\ ListsOK /\ Coverage /\ Validate => Coverage'
<1>. SUFFICES ASSUME TypeInv, ListsOK, Coverage, Validate PROVE Coverage'
  OBVIOUS
<1>0. plan \in Plans /\ plan' = plan /\ stranded' = stranded
  BY PlanIsFixed, StrandedStays DEF TypeInv, TypeOK, Next, RunStep
<1>1. CASE RunTool
  BY <1>0, <1>1, CoverageOfTools DEF RunTool, Fail, ListsOK, RollbackPCs
<1>2. CASE ~RunTool
  <2>1. /\ UNCHANGED <<disk, temps, lists>>
        /\ pc \notin RollbackPCs \cup {"published", "staged"} /\ pc' \notin RollbackPCs
    BY <1>2 DEF Validate, InspectTool, CleanCaches, CompareInventory, WriteCompleted,
                CompletionFails, ReturnApplied, Fail, durable, RollbackPCs
  <2>. QED  BY <1>0, <2>1, CoverageStays
<1>. QED  BY <1>1, <1>2

-----------------------------------------------------------------------------
(* Rollback *)

(* One pass of a loop that settles its entry x, or gives it up, keeps the    *)
(* rest of the coverage.                                                     *)
LEMMA RestoreCoverage ==
  TypeInv /\ ListsOK /\ Coverage /\ RestoreOriginal => Coverage'
<1>. SUFFICES ASSUME TypeInv, ListsOK, Coverage, RestoreOriginal PROVE Coverage'
  OBVIOUS
<1>. DEFINE q == modified_files[cursor]
<1>1. /\ pc = "restore" /\ pc' = "restore" /\ cursor \in Nat /\ cursor > 0
      /\ cursor' = cursor - 1 /\ UNCHANGED <<plan, lists, stranded>>
      /\ plan \in Plans /\ disk \in [Path -> Content]
      /\ cursor \in DOMAIN modified_files /\ unresolved \subseteq unresolved'
  BY DEF TypeInv, TypeOK, CursorOK, RestoreOriginal, work, Unresolve
<1>2. q \in Path /\ q \in OriginalsNeeded /\ Original(q) = "orig"
  BY <1>1, OriginalContents, DeclaredType DEF ListsOK, ListKinds
<1>3. /\ disk'[q] = "orig" \/ q \in unresolved'
      /\ \A p \in Path : p # q => disk'[p] = disk[p]
      /\ temps' \subseteq temps \cup {q}
      /\ temps' \subseteq temps \/ q \in unresolved'
  BY <1>1, <1>2 DEF RestoreOriginal, Unresolve
<1>4. Declared' = Declared /\ (\A p : Original(p)' = Original(p))
  BY <1>1, DerivedIsFixed DEF Original
<1>5. ASSUME NEW p, p # q, RestorePending(p) PROVE RestorePending(p)'
  <2>1. PICK i \in DOMAIN modified_files : modified_files[i] = p /\ i <= cursor
    BY <1>1, <1>5 DEF RestorePending
  <2>2. i \in Nat /\ i # cursor
    BY <1>5, <2>1 DEF TypeInv, TypeOK
  <2>3. i <= cursor - 1
    BY <1>1, <2>1, <2>2
  <2>. QED  BY <1>1, <2>1, <2>3 DEF RestorePending, lists
<1>6. \A p : UnlinkPending(Target(p)) => UnlinkPending(Target(p))'
  BY <1>1 DEF UnlinkPending, lists, Target
<1>7. \A p : UnlinkPending(Temporary(p)) => UnlinkPending(Temporary(p))'
  BY <1>1 DEF UnlinkPending, lists, Temporary
<1>8. \A p : RmdirPending(p) => RmdirPending(p)'
  BY <1>1 DEF RmdirPending, lists
<1>9. \A p : p \in unresolved' <=> Left(p)'
  BY <1>1 DEF Left, RollbackPCs
<1>10. \A p : Left(p) => Left(p)'
  BY <1>1, <1>9 DEF Left
<1>. HIDE DEF q
<1>11. ASSUME NEW p \in Declared PROVE disk'[p] = Original(p) \/ Pending(p)'
  <2>1. CASE p = q
    BY <1>2, <1>3, <1>9, <2>1 DEF Pending
  <2>2. CASE p # q
    <3>1. Pending(p) => Pending(p)'
      BY <1>1, <1>5, <1>6, <1>8, <1>10, <2>2 DEF Pending
    <3>. QED  BY <1>1, <1>3, <2>2, <3>1, DeclaredType DEF Coverage
  <2>. QED  BY <2>1, <2>2
<1>12. ASSUME NEW p \in temps' PROVE PendingTemp(p)'
  <2>1. PendingTemp(p) => PendingTemp(p)'
    BY <1>1, <1>7, <1>10 DEF PendingTemp
  <2>. QED  BY <1>3, <1>9, <2>1 DEF Coverage, PendingTemp
<1>. QED  BY <1>4, <1>11, <1>12 DEF Coverage

LEMMA RemoveFileCoverage ==
  TypeInv /\ ListsOK /\ Coverage /\ RemoveCreatedFile => Coverage'
<1>. SUFFICES ASSUME TypeInv, ListsOK, Coverage, RemoveCreatedFile PROVE Coverage'
  OBVIOUS
<1>. DEFINE item == rollback_files[cursor]
            q == item.path
<1>1. /\ pc = "unlink" /\ pc' = "unlink" /\ cursor \in Nat /\ cursor > 0
      /\ cursor' = cursor - 1 /\ UNCHANGED <<plan, lists, stranded>>
      /\ plan \in Plans /\ disk \in [Path -> Content]
      /\ cursor \in DOMAIN rollback_files /\ unresolved \subseteq unresolved'
  BY DEF TypeInv, TypeOK, CursorOK, RemoveCreatedFile, work, Unresolve
<1>2. /\ item \in Item /\ q \in Path
      /\ ~item.temp => q \in FilesToCreate /\ Original(q) = "absent"
  <2>1. item \in Item
    BY <1>1 DEF TypeInv, TypeOK
  <2>2. ~item.temp => q \in FilesToCreate
    BY <1>1 DEF ListsOK, ListKinds
  <2>. QED  BY <1>1, <2>1, <2>2, OriginalContents DEF Item
<1>3. /\ item.temp => disk' = disk /\ (q \notin temps' \/ q \in unresolved')
      /\ ~item.temp => disk'[q] = "absent" \/ q \in unresolved'
      /\ \A p \in Path : p # q => disk'[p] = disk[p]
      /\ temps' \subseteq temps
  BY <1>1, <1>2 DEF RemoveCreatedFile, Unresolve
<1>4. Declared' = Declared /\ (\A p : Original(p)' = Original(p))
  BY <1>1, DerivedIsFixed DEF Original
<1>5. ASSUME NEW x, x # item, UnlinkPending(x) PROVE UnlinkPending(x)'
  <2>1. PICK i \in DOMAIN rollback_files : rollback_files[i] = x /\ i <= cursor
    BY <1>1, <1>5 DEF UnlinkPending
  <2>2. i \in Nat /\ i # cursor
    BY <1>5, <2>1 DEF TypeInv, TypeOK
  <2>3. i <= cursor - 1
    BY <1>1, <2>1, <2>2
  <2>. QED  BY <1>1, <2>1, <2>3 DEF UnlinkPending, lists
<1>6. \A p : RmdirPending(p) => RmdirPending(p)'
  BY <1>1 DEF RmdirPending, lists
<1>7. \A p : (p \in unresolved' <=> Left(p)') /\ ~RestorePending(p)
  BY <1>1 DEF Left, RollbackPCs, RestorePending
<1>8. \A p : Left(p) => Left(p)'
  BY <1>1, <1>7 DEF Left
<1>9. \A p : /\ Target(p) = item => ~item.temp /\ p = q
             /\ Temporary(p) = item => item.temp /\ p = q
  BY DEF Target, Temporary
<1>. HIDE DEF item, q
<1>10. ASSUME NEW p \in Declared PROVE disk'[p] = Original(p) \/ Pending(p)'
  <2>1. CASE Target(p) = item
    BY <1>2, <1>3, <1>7, <1>9, <2>1 DEF Pending
  <2>2. CASE Target(p) # item
    <3>1. Pending(p) => Pending(p)'
      BY <1>1, <1>5, <1>6, <1>7, <1>8, <2>2 DEF Pending, Target, UnlinkPending
    <3>2. disk'[p] = disk[p] \/ disk'[p] = Original(p) \/ Pending(p)'
      BY <1>1, <1>2, <1>3, <1>7, DeclaredType DEF Pending
    <3>. QED  BY <3>1, <3>2 DEF Coverage
  <2>. QED  BY <2>1, <2>2
<1>11. ASSUME NEW p \in temps' PROVE PendingTemp(p)'
  <2>1. CASE Temporary(p) = item
    BY <1>3, <1>7, <1>9, <2>1 DEF PendingTemp
  <2>2. CASE Temporary(p) # item
    <3>1. PendingTemp(p) => PendingTemp(p)'
      BY <1>1, <1>5, <1>8, <2>2 DEF PendingTemp, Temporary, UnlinkPending
    <3>. QED  BY <1>3, <3>1 DEF Coverage
  <2>. QED  BY <2>1, <2>2
<1>. QED  BY <1>4, <1>10, <1>11 DEF Coverage

LEMMA RemoveDirectoryCoverage ==
  TypeInv /\ ListsOK /\ Coverage /\ RemoveCreatedDirectory => Coverage'
<1>. SUFFICES ASSUME TypeInv, ListsOK, Coverage, RemoveCreatedDirectory PROVE Coverage'
  OBVIOUS
<1>. DEFINE q == created_directories[cursor]
<1>1. /\ pc = "rmdir" /\ pc' = "rmdir" /\ cursor \in Nat /\ cursor > 0
      /\ cursor' = cursor - 1 /\ UNCHANGED <<plan, lists, temps, stranded>>
      /\ plan \in Plans /\ disk \in [Path -> Content]
      /\ cursor \in DOMAIN created_directories /\ unresolved \subseteq unresolved'
  BY DEF TypeInv, TypeOK, CursorOK, RemoveCreatedDirectory, work, Unresolve
<1>2. q \in Path /\ Original(q) = "absent"
  BY <1>1, OriginalContents, DeclaredType DEF ListsOK, ListKinds
<1>3. /\ disk'[q] = "absent" \/ q \in unresolved'
      /\ \A p \in Path : p # q => disk'[p] = disk[p]
  BY <1>1, <1>2 DEF RemoveCreatedDirectory, Unresolve
<1>4. Declared' = Declared /\ (\A p : Original(p)' = Original(p))
  BY <1>1, DerivedIsFixed DEF Original
<1>5. ASSUME NEW p, p # q, RmdirPending(p) PROVE RmdirPending(p)'
  <2>1. PICK i \in DOMAIN created_directories : created_directories[i] = p /\ i <= cursor
    BY <1>1, <1>5 DEF RmdirPending
  <2>2. i \in Nat /\ i # cursor
    BY <1>5, <2>1 DEF TypeInv, TypeOK
  <2>3. i <= cursor - 1
    BY <1>1, <2>1, <2>2
  <2>. QED  BY <1>1, <2>1, <2>3 DEF RmdirPending, lists
<1>6. \A p : (p \in unresolved' <=> Left(p)') /\ (Left(p) => Left(p)')
  BY <1>1 DEF Left, RollbackPCs
<1>7. \A x : ~RestorePending(x) /\ ~UnlinkPending(x)
  BY <1>1 DEF RestorePending, UnlinkPending
<1>. HIDE DEF q
<1>8. ASSUME NEW p \in Declared PROVE disk'[p] = Original(p) \/ Pending(p)'
  <2>1. CASE p = q
    BY <1>2, <1>3, <1>6, <2>1 DEF Pending
  <2>2. CASE p # q
    <3>1. Pending(p) => Pending(p)'
      BY <1>1, <1>5, <1>6, <1>7, <2>2 DEF Pending
    <3>. QED  BY <1>1, <1>3, <2>2, <3>1, DeclaredType DEF Coverage
  <2>. QED  BY <2>1, <2>2
<1>9. \A p \in temps' : PendingTemp(p)'
  BY <1>1, <1>6, <1>7 DEF Coverage, PendingTemp
<1>. QED  BY <1>4, <1>8, <1>9 DEF Coverage

(* A loop that has come to its end leaves nothing of its list pending. *)
LEMMA NextLoopCoverage ==
  TypeInv /\ ListsOK /\ Coverage /\ NextLoop => Coverage'
<1>. SUFFICES ASSUME TypeInv, ListsOK, Coverage, NextLoop PROVE Coverage'
  OBVIOUS
<1>1. /\ cursor = 0 /\ UNCHANGED <<plan, disk, temps, lists, unresolved, stranded>>
      /\ pc \in {"restore", "unlink", "rmdir"} /\ pc' \in {"unlink", "rmdir", "settle"}
      /\ pc = "restore" <=> pc' = "unlink"
      /\ pc = "unlink" <=> pc' = "rmdir"
      /\ pc' = "unlink" => cursor' = Len(rollback_files)
      /\ pc' = "rmdir" => cursor' = Len(created_directories)
  BY DEF NextLoop, durable, work, history
<1>2. /\ \A i \in DOMAIN modified_files : i > 0
      /\ \A i \in DOMAIN rollback_files : i > 0 /\ i <= Len(rollback_files)
      /\ \A i \in DOMAIN created_directories : i > 0 /\ i <= Len(created_directories)
  BY DEF TypeInv, TypeOK
<1>3. Declared' = Declared /\ (\A p : Original(p)' = Original(p))
  BY <1>1, DerivedIsFixed DEF Original
<1>4. \A p : ~RestorePending(p)
  BY <1>1, <1>2 DEF RestorePending
<1>5. \A p : UnlinkPending(Target(p)) => UnlinkPending(Target(p))'
  BY <1>1, <1>2 DEF UnlinkPending, lists, Target
<1>6. \A p : UnlinkPending(Temporary(p)) => UnlinkPending(Temporary(p))'
  BY <1>1, <1>2 DEF UnlinkPending, lists, Temporary
<1>7. \A p : RmdirPending(p) => RmdirPending(p)'
  BY <1>1, <1>2 DEF RmdirPending, lists
<1>8. \A p : Left(p) => Left(p)'
  BY <1>1 DEF Left, RollbackPCs
<1>. QED
  BY <1>1, <1>3, <1>4, <1>5, <1>6, <1>7, <1>8 DEF Coverage, Pending, PendingTemp

-----------------------------------------------------------------------------
(* The invariant *)

LEMMA HistoryGrows ==
  ASSUME [Next]_vars, Unedited'
  PROVE  Unedited /\ \A p \in Path : ~UserEdit(p)
<1>1. edited \subseteq edited'
  <2>. USE DEF history
  <2>1. CASE Prepare
    BY <2>1 DEF Prepare, NoChange, PlanStale, BeginBackup, BackupUnavailable,
                CaptureEntry, CaptureFails, WritePrepared, Refuse
  <2>2. CASE Apply
    BY <2>2 DEF Apply, MakeDirectory, StageFile, Publish, Record, VerifyEffect,
                EffectFails, PublishLeavesTemporary, PublishLeavesPartialTarget,
                EffectsComplete, CaptureLedger, Fail
  <2>3. CASE Validate
    BY <2>3 DEF Validate, RunTool, InspectTool, CleanCaches, CompareInventory,
                WriteCompleted, CompletionFails, ReturnApplied, Fail
  <2>4. CASE Recover
    BY <2>4 DEF Recover, HandleFailure, RetainFailure, RestoreOriginal,
                RemoveCreatedFile, RemoveCreatedDirectory, NextLoop, Settle
  <2>5. CASE Manual \/ Environment \/ UNCHANGED vars
    BY <2>5 DEF Manual, BeginManualRollback, ManualRollbackRefused, Environment,
                Interrupt, UserEdit, vars
  <2>. QED
    BY <2>1, <2>2, <2>3, <2>4, <2>5 DEF Next, RunStep, Ended
<1>2. \A p \in Path : UserEdit(p) => p \in edited'
  BY DEF UserEdit
<1>. QED  BY <1>1, <1>2 DEF Unedited

(* Nothing pending and nothing given up on means that all is as it was, but  *)
(* for what is stranded.                                                     *)
LEMMA NothingPending ==
  ASSUME Coverage, \A p : Pending(p) \/ PendingTemp(p) => p \in stranded
  PROVE  OriginalBut(stranded)
  BY DEF Coverage, OriginalBut

LEMMA OriginalStays ==
  ASSUME plan' = plan, UNCHANGED <<disk, temps, stranded>>
  PROVE  OriginalBut(stranded)' = OriginalBut(stranded)
<1>1. Declared' = Declared /\ \A p : Original(p)' = Original(p)
  BY DerivedIsFixed DEF Original
<1>. QED  BY <1>1 DEF OriginalBut

(* Only the two ends of the handler write a verdict of no effect. *)
LEMMA VerdictOfNoEffect ==
  ASSUME [Next]_vars, manifest' \in {"ROLLED_BACK", "FAILED"}
  PROVE  manifest' = manifest \/ RetainFailure \/ Settle
<1>. USE DEF durable
<1>1. CASE Prepare
  BY <1>1 DEF Prepare, NoChange, PlanStale, BeginBackup, BackupUnavailable,
              CaptureEntry, CaptureFails, WritePrepared, Refuse
<1>2. CASE Apply
  BY <1>2 DEF Apply, MakeDirectory, StageFile, Publish, Record, VerifyEffect,
              EffectFails, PublishLeavesTemporary, PublishLeavesPartialTarget,
              EffectsComplete, CaptureLedger
<1>3. CASE Validate
  BY <1>3 DEF Validate, RunTool, InspectTool, CleanCaches, CompareInventory,
              WriteCompleted, CompletionFails, ReturnApplied
<1>4. CASE Recover
  BY <1>4 DEF Recover, HandleFailure, RestoreOriginal, RemoveCreatedFile,
              RemoveCreatedDirectory, NextLoop
<1>5. CASE Manual \/ Environment \/ UNCHANGED vars
  BY <1>5 DEF Manual, BeginManualRollback, ManualRollbackRefused, Environment,
              Interrupt, UserEdit, vars
<1>. QED
  BY <1>1, <1>2, <1>3, <1>4, <1>5 DEF Next, RunStep, Ended

LEMMA VerdictHolds ==
  ASSUME TypeInv, ListsOK, UndoInv, [Next]_vars,
         manifest' \in {"ROLLED_BACK", "FAILED"}
  PROVE  pc' = "ended" /\ (Unedited' => OriginalBut(stranded)')
<1>0. plan' = plan
  BY PlanIsFixed
<1>1. CASE RetainFailure \/ Settle
  <2>1. pc' = "ended" /\ UNCHANGED <<disk, temps, stranded>> /\ pc \in {"keep", "settle"}
    BY <1>1 DEF RetainFailure, Settle, history
  <2>2. manifest \notin {"ROLLED_BACK", "FAILED"}
    BY <2>1 DEF UndoInv
  <2>3. ASSUME Unedited' PROVE OriginalBut(stranded)
    <3>1. Coverage
      BY <2>1, <2>3, HistoryGrows DEF UndoInv, Active
    <3>2. CASE RetainFailure
      <4>1. /\ pc = "keep" /\ rollback_files = <<>> /\ created_directories = <<>>
            /\ modified_files = <<>>
        BY <2>2, <3>2 DEF RetainFailure
      <4>2. \A p : Pending(p) \/ PendingTemp(p) => p \in stranded
        BY <4>1 DEF Pending, PendingTemp, RestorePending, UnlinkPending,
                    RmdirPending, Left, RollbackPCs
      <4>. QED  BY <3>1, <4>2, NothingPending
    <3>3. CASE Settle
      <4>1. pc = "settle" /\ unresolved = {}
        BY <2>2, <3>3 DEF Settle, Restored
      <4>2. \A p : Pending(p) \/ PendingTemp(p) => p \in stranded
        BY <4>1 DEF Pending, PendingTemp, RestorePending, UnlinkPending,
                    RmdirPending, Left
      <4>. QED  BY <3>1, <4>2, NothingPending
    <3>. QED  BY <1>1, <3>2, <3>3
  <2>. QED  BY <1>0, <2>1, <2>3, OriginalStays
<1>2. CASE manifest' = manifest
  <2>1. pc = "ended" /\ (Unedited => OriginalBut(stranded))
    BY <1>2 DEF UndoInv
  <2>2. CASE UNCHANGED vars
    <3>1. UNCHANGED <<disk, temps, stranded, edited, pc>>
      BY <2>2 DEF vars, durable, history
    <3>. QED  BY <1>0, <2>1, <3>1, OriginalStays DEF Unedited
  <2>3. CASE \E p \in Path : UserEdit(p)
    BY <2>1, <2>3, HistoryGrows DEF UserEdit
  <2>4. ~RunStep /\ ~Interrupt /\ ~Manual
    <3>1. ~Prepare
      BY <2>1 DEF Prepare, NoChange, PlanStale, BeginBackup, BackupUnavailable,
                  CaptureEntry, CaptureFails, WritePrepared
    <3>2. ~Apply /\ ~Validate /\ ~Recover /\ ~Manual
      BY <1>2, <2>1, PreparedOnce
    <3>. QED  BY <2>1, <3>1, <3>2 DEF RunStep, Interrupt
  <2>. QED  BY <2>2, <2>3, <2>4 DEF Next, Environment, Ended
<1>. QED  BY <1>1, <1>2, VerdictOfNoEffect

(* What an interrupt leaves behind is where it is said to be stranded. *)
LEMMA StrandCoverage ==
  ASSUME TypeInv, ListsOK, Coverage, InterruptStrands, UNCHANGED <<plan, lists>>
  PROVE  Coverage'
<1>1. /\ Declared' = Declared /\ (\A p : Original(p)' = Original(p))
      /\ Declared \subseteq Path /\ disk \in [Path -> Content]
  BY DerivedIsFixed, DeclaredType DEF Original, TypeInv, TypeOK
<1>2. PICK q \in Declared : current = {q}
  BY DEF ListsOK, InHand, InterruptStrands
<1>3. /\ pc \in {"staged", "published"} /\ pc' = "failing"
      /\ stranded' = stranded \cup {q} /\ temps' \subseteq temps \cup {q}
      /\ disk' = disk \/ disk' = [disk EXCEPT ![q] = "alien"]
  BY <1>2 DEF InterruptStrands
<1>4. \A p : Pending(p) => Pending(p)'
  BY <1>2, <1>3, PendingOutside, PendingOutsideNext DEF lists, RollbackPCs
<1>5. \A p : PendingTemp(p) => PendingTemp(p)'
  BY <1>2, <1>3, PendingOutside, PendingOutsideNext DEF lists, RollbackPCs
<1>6. Pending(q)' /\ PendingTemp(q)'
  BY <1>3, PendingOutsideNext DEF RollbackPCs
<1>7. \A p \in Declared : p # q => disk'[p] = disk[p]
  BY <1>1, <1>3
<1>. QED  BY <1>1, <1>3, <1>4, <1>5, <1>6, <1>7 DEF Coverage

LEMMA NextCoverage ==
  ASSUME TypeInv, ListsOK, UndoInv, [Next]_vars, Unedited', Active'
  PROVE  Coverage'
<1>0. plan' = plan /\ Unedited /\ (\A p \in Path : ~UserEdit(p))
  BY PlanIsFixed, HistoryGrows
<1>1. CASE Prepare
  <2>1. /\ pc \in {"planned", "backup"} /\ pc' \notin RollbackPCs
        /\ UNCHANGED <<disk, temps, lists, stranded>>
    BY <1>1 DEF Prepare, NoChange, PlanStale, BeginBackup, BackupUnavailable,
                CaptureEntry, CaptureFails, WritePrepared, Refuse, durable, history,
                RollbackPCs
  <2>2. Coverage
    BY <1>0, <2>1 DEF UndoInv, Active
  <2>. QED  BY <1>0, <2>1, <2>2, CoverageStays DEF RollbackPCs
<1>2. CASE Apply \/ Validate
  <2>1. pc # "ended"
    BY <1>2 DEF Apply, MakeDirectory, StageFile, Publish, Record, VerifyEffect,
              EffectFails, PublishLeavesTemporary, PublishLeavesPartialTarget,
              EffectsComplete, CaptureLedger, Validate, RunTool, InspectTool,
              CleanCaches, CompareInventory, WriteCompleted, CompletionFails,
              ReturnApplied
  <2>. QED
    BY <1>0, <1>2, <2>1, ApplyCoverage, ValidateCoverage DEF UndoInv, Active
<1>3. CASE HandleFailure
  <2>1. Coverage /\ pc = "failing" /\ UNCHANGED <<disk, temps, lists, stranded>>
    BY <1>0, <1>3 DEF UndoInv, Active, HandleFailure
  <2>2. CASE pc' = "keep"
    BY <1>0, <2>1, <2>2, CoverageStays DEF RollbackPCs
  <2>3. CASE pc' = "restore" /\ cursor' = Len(modified_files)
    BY <1>0, <2>1, <2>3, CoverageBegins DEF RollbackPCs
  <2>. QED  BY <1>3, <2>2, <2>3 DEF HandleFailure
<1>4. CASE RestoreOriginal \/ RemoveCreatedFile \/ RemoveCreatedDirectory \/ NextLoop
  <2>1. Coverage
    BY <1>0, <1>4 DEF UndoInv, Active, RestoreOriginal, RemoveCreatedFile,
                      RemoveCreatedDirectory, NextLoop
  <2>. QED
    BY <1>4, <2>1, RestoreCoverage, RemoveFileCoverage, RemoveDirectoryCoverage,
       NextLoopCoverage
<1>5. CASE RetainFailure \/ Settle
  <2>1. ~Active'
    BY <1>5 DEF RetainFailure, Settle, Active, Result
  <2>. QED  BY <2>1
<1>6. CASE BeginManualRollback
  BY <1>0, <1>6, CoverageBegins
     DEF BeginManualRollback, Reversible, UndoInv, Active, durable, history, RollbackPCs
<1>7. CASE ManualRollbackRefused
  BY <1>0, <1>7, CoverageStays
     DEF ManualRollbackRefused, Reversible, UndoInv, Active, durable, history, RollbackPCs
<1>8. CASE Interrupt
  <2>1. Coverage /\ UNCHANGED lists
    BY <1>0, <1>8 DEF UndoInv, Active, Interrupt
  <2>2. CASE InterruptEnds
    BY <2>2 DEF InterruptEnds, Active, Result
  <2>3. CASE InterruptHandled
    BY <1>0, <2>1, <2>3, CoverageStays DEF InterruptHandled, InTry, RollbackPCs
  <2>4. CASE InterruptStrands
    BY <1>0, <2>1, <2>4, StrandCoverage
  <2>. QED  BY <1>8, <2>2, <2>3, <2>4 DEF Interrupt
<1>9. CASE UNCHANGED vars
  <2>1. Coverage' = Coverage /\ Active' = Active
    BY <1>9 DEF vars, durable, lists, work, undo, history, Coverage, Active, Declared, PlannedFiles,
       PlannedDirs, Steps, Original, Pending, PendingTemp, RestorePending,
       UnlinkPending, RmdirPending, Left, Target, Temporary
  <2>. QED  BY <1>0, <2>1 DEF UndoInv
<1>. QED
  BY <1>0, <1>1, <1>2, <1>3, <1>4, <1>5, <1>6, <1>7, <1>8, <1>9
     DEF Next, RunStep, Recover, Manual, Environment, Ended

LEMMA UndoInvariant == Spec => []UndoInv
<1>1. Init => UndoInv
  <2>. SUFFICES ASSUME Init PROVE UndoInv
    OBVIOUS
  <2>1. Coverage
    BY DeclaredType DEF Init, Coverage
  <2>. QED  BY <2>1 DEF Init, UndoInv
<1>2. TypeInv /\ ListsOK /\ UndoInv /\ [Next]_vars => UndoInv'
  BY VerdictHolds, NextCoverage DEF UndoInv
<1>. QED
  BY <1>1, <1>2, TypeInvariant, ListsInvariant, PTL DEF Spec

(* A manifest that says ROLLED_BACK, or FAILED with nothing kept, is right   *)
(* about the workspace: unless a user edited a declared path, every declared  *)
(* path is as it was and no temporary is left, for every plan, every failure  *)
(* and interrupts anywhere, except at the path at which an interrupt left     *)
(* something that no list names.                                              *)
THEOREM UndoneTransactionsLeaveNothing == Spec => []UndoneIsOriginal
<1>1. UndoInv => UndoneIsOriginal
  BY DEF UndoInv, UndoneIsOriginal, Unedited
<1>. QED  BY <1>1, UndoInvariant, PTL

-----------------------------------------------------------------------------
(* What a transaction tells its reader *)

(* Where the run is, and what it has written and recorded by then.           *)
Working == {"apply", "staged", "published", "verify", "ledger", "run", "inspect",
            "clean", "compare", "complete"}
PhaseInv ==
  /\ pc \in Working => manifest = "PREPARED"
  /\ pc = "completed" => manifest = "COMPLETED"
  /\ pc = "backup" \/ manifest # "none" => plan.steps # <<>>
  /\ manual => pc \in RollbackPCs \cup {"ended"}
  /\ manifest \in {"CHANGES_KEPT", "ROLLBACK_FAILED"} => pc = "ended"
  /\ pc \in {"ledger", "run", "inspect", "clean", "compare", "complete"} => AllRecorded
  /\ manifest = "COMPLETED" => AllRecorded

(* Temporaries exist only while a file is staged, and after a failure.       *)
TempsInv ==
  /\ manifest = "none" => temps = {}
  /\ pc \in Working \ {"staged"} => temps = {}
  /\ pc = "staged" => temps \subseteq current

-----------------------------------------------------------------------------
(* Which steps there are *)

(* A run that has ended is only undone, edited, or left alone. *)
LEMMA AfterCompletion ==
  ASSUME [Next]_vars, pc \in {"completed", "ended"}
  PROVE  \/ ReturnApplied \/ Manual \/ Interrupt \/ UNCHANGED vars
         \/ \E p \in Path : UserEdit(p)
<1>1. ~Prepare
  BY DEF Prepare, NoChange, PlanStale, BeginBackup, BackupUnavailable, CaptureEntry,
         CaptureFails, WritePrepared
<1>2. ~Apply
  BY DEF Apply, MakeDirectory, StageFile, Publish, Record, VerifyEffect, EffectFails,
         PublishLeavesTemporary, PublishLeavesPartialTarget, EffectsComplete, CaptureLedger
<1>3. Validate => ReturnApplied
  BY DEF Validate, RunTool, InspectTool, CleanCaches, CompareInventory, WriteCompleted,
         CompletionFails
<1>4. ~Recover
  BY DEF Recover, HandleFailure, RetainFailure, RestoreOriginal, RemoveCreatedFile,
         RemoveCreatedDirectory, NextLoop, Settle
<1>. QED  BY <1>1, <1>2, <1>3, <1>4 DEF Next, RunStep, Environment, Ended

(* Nothing that has happened is forgotten. *)
LEMMA HistoryStays ==
  ASSUME [Next]_vars
  PROVE  /\ edited \subseteq edited' /\ interruptedAt \subseteq interruptedAt'
         /\ stranded \subseteq stranded'
         /\ manual' = manual \/ BeginManualRollback
<1>1. CASE Prepare
  <2>1. UNCHANGED <<undo, history>>
    BY <1>1 DEF Prepare, NoChange, PlanStale, BeginBackup, BackupUnavailable,
                CaptureEntry, CaptureFails, WritePrepared, Refuse
  <2>. QED  BY <2>1 DEF undo, history
<1>2. CASE Apply
  <2>1. UNCHANGED <<undo, history>>
    BY <1>2 DEF Apply, MakeDirectory, StageFile, Publish, Record, VerifyEffect,
                EffectFails, PublishLeavesTemporary, PublishLeavesPartialTarget,
                EffectsComplete, CaptureLedger, Fail
  <2>. QED  BY <2>1 DEF undo, history
<1>3. CASE Validate
  <2>1. UNCHANGED <<undo, history>>
    BY <1>3 DEF Validate, RunTool, InspectTool, CleanCaches, CompareInventory,
                WriteCompleted, CompletionFails, ReturnApplied, Fail
  <2>. QED  BY <2>1 DEF undo, history
<1>4. CASE Recover
  <2>1. UNCHANGED <<edited, interruptedAt, stranded, manual>>
    BY <1>4 DEF Recover, HandleFailure, RetainFailure, RestoreOriginal,
                RemoveCreatedFile, RemoveCreatedDirectory, NextLoop, Settle, undo, history
  <2>. QED  BY <2>1
<1>5. CASE Manual
  BY <1>5 DEF Manual, BeginManualRollback, ManualRollbackRefused, undo, history
<1>6. CASE Environment \/ UNCHANGED vars
  BY <1>6 DEF Environment, Interrupt, InterruptEnds, InterruptHandled, InterruptStrands,
              UserEdit, vars, undo, history
<1>. QED  BY <1>1, <1>2, <1>3, <1>4, <1>5, <1>6 DEF Next, RunStep, Ended

(* The manifest changes at five points of the run. *)
LEMMA ManifestChanges ==
  ASSUME [Next]_vars
  PROVE  UNCHANGED manifest \/ WritePrepared \/ WriteCompleted \/ RetainFailure \/ Settle
<1>. USE DEF durable
<1>1. CASE Prepare
  BY <1>1 DEF Prepare, NoChange, PlanStale, BeginBackup, BackupUnavailable,
              CaptureEntry, CaptureFails, Refuse
<1>2. CASE Apply
  BY <1>2 DEF Apply, MakeDirectory, StageFile, Publish, Record, VerifyEffect,
              EffectFails, PublishLeavesTemporary, PublishLeavesPartialTarget,
              EffectsComplete, CaptureLedger
<1>3. CASE Validate
  BY <1>3 DEF Validate, RunTool, InspectTool, CleanCaches, CompareInventory,
              CompletionFails, ReturnApplied
<1>4. CASE Recover
  BY <1>4 DEF Recover, HandleFailure, RestoreOriginal, RemoveCreatedFile,
              RemoveCreatedDirectory, NextLoop
<1>5. CASE Manual \/ Environment \/ UNCHANGED vars
  BY <1>5 DEF Manual, BeginManualRollback, ManualRollbackRefused, Environment,
              Interrupt, UserEdit, vars
<1>. QED  BY <1>1, <1>2, <1>3, <1>4, <1>5 DEF Next, RunStep, Ended

-----------------------------------------------------------------------------
(* Where the run is *)

LEMMA NextPhase ==
  TypeInv /\ WriteAheadInv /\ ListsOK /\ PhaseInv /\ [Next]_vars => PhaseInv'
<1>. SUFFICES ASSUME TypeInv, WriteAheadInv, ListsOK, PhaseInv, [Next]_vars PROVE PhaseInv'
  OBVIOUS
<1>1. plan' = plan /\ (manual' = manual \/ BeginManualRollback)
  BY PlanIsFixed, HistoryStays
<1>2. UNCHANGED lists => AllRecorded' = AllRecorded
  BY <1>1, DerivedIsFixed DEF AllRecorded, CreatedFiles, lists
<1>3. \/ UNCHANGED lists
      \/ /\ pc \in {"published", "staged"} /\ pc' \in {"verify", "failing"}
         /\ UNCHANGED manifest
  BY ListsChange DEF Record, PublishLeavesTemporary, PublishLeavesPartialTarget, Fail, durable
<1>4. (manual => pc \in RollbackPCs \cup {"ended"})'
  <2>1. CASE BeginManualRollback
    BY <2>1 DEF BeginManualRollback, RollbackPCs
  <2>2. CASE manual' = manual /\ pc \in {"completed", "ended"} /\ ~BeginManualRollback
    BY <2>2, AfterCompletion DEF PhaseInv, ReturnApplied, Manual, ManualRollbackRefused,
       Interrupt, InterruptEnds, InterruptHandled, InterruptStrands, InTry, UserEdit,
       vars, RollbackPCs
  <2>3. CASE manual' = manual /\ pc \in RollbackPCs
    <3>1. pc' \in RollbackPCs \cup {"ended"}
      <4>1. ~Prepare /\ ~Apply /\ ~Validate
        BY <2>3 DEF Prepare, NoChange, PlanStale, BeginBackup, BackupUnavailable,
           CaptureEntry, CaptureFails, WritePrepared, Apply, MakeDirectory, StageFile,
           Publish, Record, VerifyEffect, EffectFails, PublishLeavesTemporary,
           PublishLeavesPartialTarget, EffectsComplete, CaptureLedger, Validate, RunTool,
           InspectTool, CleanCaches, CompareInventory, WriteCompleted, CompletionFails,
           ReturnApplied, RollbackPCs
      <4>2. CASE Recover
        BY <2>3, <4>2 DEF Recover, HandleFailure, RetainFailure, RestoreOriginal,
           RemoveCreatedFile, RemoveCreatedDirectory, NextLoop, Settle, RollbackPCs
      <4>3. CASE Manual \/ Environment \/ UNCHANGED vars
        BY <2>3, <4>3 DEF Manual, BeginManualRollback, ManualRollbackRefused, Reversible,
           Environment, Interrupt, InterruptEnds, InterruptHandled, InterruptStrands,
           InTry, UserEdit, vars, RollbackPCs
      <4>. QED  BY <4>1, <4>2, <4>3 DEF Next, RunStep, Ended
    <3>. QED  BY <3>1 DEF RollbackPCs
  <2>4. CASE manual' = manual /\ pc \notin RollbackPCs \cup {"completed", "ended"}
    BY <2>4 DEF PhaseInv
  <2>. QED  BY <1>1, <2>1, <2>2, <2>3, <2>4
<1>. DEFINE Goal == /\ pc' \in Working => manifest' = "PREPARED"
                    /\ pc' = "completed" => manifest' = "COMPLETED"
                    /\ pc' = "backup" \/ manifest' # "none" => plan'.steps # <<>>
                    /\ manifest' \in {"CHANGES_KEPT", "ROLLBACK_FAILED"} => pc' = "ended"
                    /\ pc' \in {"ledger", "run", "inspect", "clean", "compare", "complete"}
                         => AllRecorded'
                    /\ manifest' = "COMPLETED" => AllRecorded'
<1>5. ASSUME ~ UNCHANGED lists PROVE Goal
  BY <1>1, <1>3, <1>5 DEF PhaseInv, Working
<1>6. ASSUME Prepare PROVE Goal
  <2>1. UNCHANGED lists
    BY <1>6, ListsChange DEF Prepare, NoChange, PlanStale, BeginBackup, BackupUnavailable,
     CaptureEntry, CaptureFails, WritePrepared, Refuse
  <2>2. /\ manifest = "none"
        /\ pc' = "backup" => plan.steps # <<>>
        /\ pc' = "apply" => manifest' = "PREPARED" /\ plan.steps # <<>>
        /\ pc' \in {"backup", "apply", "ended"}
        /\ manifest' \in {"none", "PREPARED"} /\ (pc' # "apply" => manifest' = "none")
    BY <1>6 DEF Prepare, NoChange, PlanStale, BeginBackup, BackupUnavailable,
       CaptureEntry, CaptureFails, WritePrepared, Refuse, WriteAheadInv, PhaseInv, durable
  <2>. QED  BY <1>1, <2>2 DEF Working
<1>7. ASSUME Apply, UNCHANGED lists PROVE Goal
  BY <1>1, <1>2, <1>7 DEF Apply, MakeDirectory, StageFile, Publish, Record, VerifyEffect,
     EffectFails, PublishLeavesTemporary, PublishLeavesPartialTarget, EffectsComplete,
     CaptureLedger, Fail, PhaseInv, Working, durable
<1>8. ASSUME Validate, UNCHANGED lists PROVE Goal
  BY <1>1, <1>2, <1>8 DEF Validate, RunTool, InspectTool, CleanCaches, CompareInventory,
     WriteCompleted, CompletionFails, ReturnApplied, Fail, PhaseInv, Working, durable
<1>9. ASSUME Recover, UNCHANGED lists PROVE Goal
  <2>1. manifest # "none"
    BY <1>9, PreparedOnce DEF WriteAheadInv
  <2>3. pc # "ended" /\ pc' \in RollbackPCs \cup {"keep", "ended"}
    BY <1>9 DEF Recover, HandleFailure, RetainFailure, RestoreOriginal,
       RemoveCreatedFile, RemoveCreatedDirectory, NextLoop, Settle, RollbackPCs
  <2>2. manifest' = manifest \/ (pc' = "ended" /\ manifest' # "COMPLETED")
    BY <1>9 DEF Recover, HandleFailure, RetainFailure, RestoreOriginal,
       RemoveCreatedFile, RemoveCreatedDirectory, NextLoop, Settle, durable
  <2>. QED  BY <1>1, <1>2, <1>9, <2>1, <2>2, <2>3 DEF PhaseInv, Working, RollbackPCs
<1>10. ASSUME Manual, UNCHANGED lists PROVE Goal
  <2>1. /\ pc = "ended" /\ pc' \in {"restore", "ended"} /\ manifest = "COMPLETED"
        /\ manifest' = manifest
    BY <1>10 DEF Manual, BeginManualRollback, ManualRollbackRefused, Reversible, durable
  <2>2. plan.steps # <<>>
    BY <2>1 DEF PhaseInv
  <2>. QED  BY <1>1, <1>2, <1>10, <2>1, <2>2 DEF PhaseInv, Working
<1>11. ASSUME Interrupt, UNCHANGED lists PROVE Goal
  BY <1>1, <1>2, <1>11
     DEF Interrupt, InterruptEnds, InterruptHandled, InterruptStrands, InTry, AtTheEdge,
         PhaseInv, Working
<1>12. ASSUME (\E p \in Path : UserEdit(p)) \/ UNCHANGED vars, UNCHANGED lists PROVE Goal
  BY <1>1, <1>2, <1>12 DEF UserEdit, vars, PhaseInv, durable
<1>13. Goal
  BY <1>3, <1>5, <1>6, <1>7, <1>8, <1>9, <1>10, <1>11, <1>12
     DEF Next, RunStep, Environment, Ended
<1>. QED  BY <1>4, <1>13 DEF PhaseInv

LEMMA NextTemps ==
  TypeInv /\ WriteAheadInv /\ ListsOK /\ PhaseInv /\ TempsInv /\ [Next]_vars => TempsInv'
<1>. SUFFICES ASSUME TypeInv, WriteAheadInv, ListsOK, PhaseInv, TempsInv, [Next]_vars
              PROVE  TempsInv'
  OBVIOUS
<1>. USE DEF TempsInv, Working, durable, work
<1>1. ASSUME Prepare PROVE TempsInv'
  BY <1>1 DEF Prepare, NoChange, PlanStale, BeginBackup, BackupUnavailable,
     CaptureEntry, CaptureFails, WritePrepared, Refuse, WriteAheadInv
<1>2. ASSUME Apply PROVE TempsInv'
  <2>1. manifest' # "none"
    BY <1>2, PreparedOnce, RetainedStays DEF WriteAheadInv
  <2>2. CASE StageFile
    BY <2>1, <2>2 DEF StageFile
  <2>3. CASE Publish
    BY <2>1, <2>3 DEF Publish, ListsOK, InHand
  <2>. QED
    BY <1>2, <2>1, <2>2, <2>3 DEF Apply, MakeDirectory, Record, VerifyEffect,
       EffectFails, PublishLeavesTemporary, PublishLeavesPartialTarget, EffectsComplete,
       CaptureLedger, Fail
<1>3. ASSUME Validate PROVE TempsInv'
  <2>1. manifest' # "none"
    BY <1>3, PreparedOnce, RetainedStays DEF WriteAheadInv
  <2>. QED
    BY <1>3, <2>1 DEF Validate, RunTool, InspectTool, CleanCaches, CompareInventory,
       WriteCompleted, CompletionFails, ReturnApplied, Fail
<1>4. ASSUME Recover \/ Manual PROVE TempsInv'
  <2>1. manifest # "none"
    BY <1>4, PreparedOnce DEF WriteAheadInv
  <2>2. manifest' # "none"
    BY <1>4, <2>1, RetainedStays
  <2>3. pc' \notin Working
    BY <1>4 DEF Recover, HandleFailure, RetainFailure, RestoreOriginal,
       RemoveCreatedFile, RemoveCreatedDirectory, NextLoop, Settle, Manual,
       BeginManualRollback, ManualRollbackRefused, Reversible
  <2>. QED  BY <2>2, <2>3
<1>5. ASSUME Interrupt PROVE TempsInv'
  <2>1. pc' \in {"failing", "ended"} /\ UNCHANGED manifest
    BY <1>5 DEF Interrupt, InterruptEnds, InterruptHandled, InterruptStrands
  <2>2. manifest = "none" => temps' = {}
    BY <1>5 DEF Interrupt, InterruptEnds, InterruptHandled, InterruptStrands,
                WriteAheadInv, InTry
  <2>. QED  BY <2>1, <2>2
<1>6. ASSUME (\E p \in Path : UserEdit(p)) \/ UNCHANGED vars PROVE TempsInv'
  BY <1>6 DEF UserEdit, vars
<1>. QED
  BY <1>1, <1>2, <1>3, <1>4, <1>5, <1>6 DEF Next, RunStep, Environment, Ended


LEMMA PhasesHold == Spec => [](TypeInv /\ WriteAheadInv /\ ListsOK /\ PhaseInv /\ TempsInv)
<1>1. Init => PhaseInv /\ TempsInv
  BY DEF Init, PhaseInv, TempsInv, Working, RollbackPCs
<1>. QED
  BY <1>1, NextPhase, NextTemps, TypeInvariant, WriteAheadInvariant, ListsInvariant, PTL
     DEF Spec

-----------------------------------------------------------------------------
(* What validation establishes *)

(* A success nobody has interrupted or begun to undo. *)
Finished == manifest = "COMPLETED" /\ ~manual /\ "completed" \notin interruptedAt

(* Each stage of the validation adds to what is known of the files no user   *)
(* edited: before the formatters run every file is the planned one, then a   *)
(* formatted one may also be their output, which stays what it was.          *)
FilesAccepted == \A p \in PlannedFiles \ edited : disk[p] \in Accepted(p)
StageInv ==
  /\ pc = "run" /\ stage = "format" =>
       \A p \in PlannedFiles \ edited : disk[p] = Planned(p)
  /\ pc = "inspect" /\ stage = "format" =>
       \A p \in plan.formatted \ edited : disk[p] \in {"new", "fmt", "absent", "dir"}
  /\ pc \in {"run", "inspect"} /\ stage = "final" =>
       \A p \in plan.formatted \ edited : formatted_files[p] \in {"new", "fmt"}
  /\ pc \in {"clean", "compare", "complete"} => FilesAccepted
  /\ pc \in {"compare", "complete"} => caches = {}
  /\ pc = "complete" => Unexpected = {}
FinishedInv ==
  Finished =>
    /\ pc \in {"completed", "ended"}
    /\ temps = {} /\ caches = {} /\ Unexpected = {}
    /\ \A p \in Declared \ edited : disk[p] \in Accepted(p)

LEMMA FormattedKinds ==
  ASSUME plan \in Plans, NEW p \in plan.formatted
  PROVE  p \in PlannedFiles /\ Planned(p) = "new" /\ {"new", "fmt"} \subseteq Accepted(p)
<1>1. p \in Steps /\ Kind[p] \in {"create", "modify"}
  BY PlanAssumption DEF Steps
<1>. QED  BY <1>1 DEF PlannedFiles, Planned, Accepted

(* What the run may leave in a declared path is neither what was there, nor  *)
(* what a user puts there.                                                   *)
LEMMA AcceptedIsNew ==
  ASSUME plan \in Plans, NEW p \in Declared
  PROVE  Original(p) \notin Accepted(p) /\ "alien" \notin Accepted(p)
<1>1. Kind[p] \in {"directory", "create", "modify", "delete"}
  BY DeclaredKinds
<1>2. p \in plan.formatted => Kind[p] \in {"create", "modify"}
  BY PlanAssumption
<1>. QED  BY <1>1, <1>2 DEF Original, Accepted, Planned

LEMMA UndeclaredPaths ==
  ASSUME plan \in Plans, NEW p \in Undeclared
  PROVE  p \in Path /\ p \notin Declared
<1>1. p \in Path /\ Kind[p] = "undeclared"
  BY DEF Undeclared
<1>. QED  BY <1>1, DeclaredKinds

(* What the three predicates of StageInv depend on. *)
LEMMA FilesAcceptedStays ==
  ASSUME plan' = plan, disk' = disk, edited \subseteq edited', FilesAccepted
  PROVE  FilesAccepted'
<1>1. PlannedFiles' = PlannedFiles /\ \A p : Accepted(p)' = Accepted(p)
  BY DerivedIsFixed DEF Accepted, Planned
<1>. QED  BY <1>1 DEF FilesAccepted

LEMMA UnexpectedStays ==
  ASSUME \A p \in Undeclared : disk'[p] = disk[p]
  PROVE  Unexpected' = Unexpected
BY DEF Unexpected, Undeclared, Original

LEMMA InspectStage ==
  TypeInv /\ StageInv /\ InspectTool => StageInv'
<1>. SUFFICES ASSUME TypeInv, StageInv, InspectTool PROVE StageInv'
  OBVIOUS
<1>1. /\ pc = "inspect" /\ UNCHANGED <<plan, disk, caches, edited>>
      /\ plan \in Plans /\ stage \in Stages
  BY DEF InspectTool, Fail, durable, history, TypeInv, TypeOK
<1>2. CASE ~Intact(stage)
  BY <1>1, <1>2 DEF InspectTool, Fail, StageInv
<1>3. ASSUME Intact(stage) PROVE StageInv'
  <2>1. /\ AfterStage = "done" => pc' = "clean"
        /\ AfterStage # "done" => pc' = "run" /\ stage' = AfterStage
        /\ formatted_files' = IF stage = "format" THEN disk ELSE formatted_files
    BY <1>3 DEF InspectTool
  <2>2. /\ stage = "lint" => AfterStage = "checks"
        /\ stage = "checks" =>
             AfterStage = IF plan.formatted # {} THEN "format" ELSE "done"
        /\ stage = "format" => AfterStage \in {"final", "done"}
        /\ stage = "final" => AfterStage = "done"
    BY <1>1 DEF AfterStage
  <2>3. \A p \in PlannedFiles :
          /\ stage \in {"lint", "checks"} \/ p \notin plan.formatted => disk[p] = Planned(p)
          /\ stage = "format" /\ p \in plan.formatted => disk[p] \notin {"absent", "dir"}
          /\ stage = "final" /\ p \in plan.formatted => disk[p] = formatted_files[p]
    BY <1>1, <1>3 DEF Intact, Stages
  <2>4. stage = "format" => \A p \in plan.formatted \ edited : disk[p] \in {"new", "fmt"}
    BY <1>1, <2>3, FormattedKinds DEF StageInv
  <2>5. stage = "final" => \A p \in plan.formatted \ edited : disk[p] \in {"new", "fmt"}
    BY <1>1, <2>3, FormattedKinds DEF StageInv
  <2>6. AfterStage = "done" => FilesAccepted
    <3>. SUFFICES ASSUME AfterStage = "done", NEW p \in PlannedFiles \ edited
                  PROVE  disk[p] \in Accepted(p)
      BY DEF FilesAccepted
    <3>1. Planned(p) \in Accepted(p)
      BY DEF Accepted
    <3>2. CASE p \notin plan.formatted
      BY <2>3, <3>1, <3>2
    <3>3. CASE p \in plan.formatted
      <4>1. stage \in {"format", "final"}
        BY <1>1, <2>2, <3>3 DEF Stages
      <4>. QED  BY <1>1, <2>4, <2>5, <3>3, <4>1, FormattedKinds
    <3>. QED  BY <3>2, <3>3
  <2>7. AfterStage = "done" => FilesAccepted'
    BY <1>1, <2>6, FilesAcceptedStays
  <2>8. /\ PlannedFiles' = PlannedFiles
        /\ \A p : Planned(p)' = Planned(p)
    BY <1>1, DerivedIsFixed DEF Planned
  <2>9. CASE AfterStage = "done"
    BY <2>1, <2>7, <2>9 DEF StageInv
  <2>10. CASE AfterStage # "done"
    <3>1. pc' = "run" /\ stage' = AfterStage
      BY <2>1, <2>10
    <3>2. stage' = "format" => \A p \in PlannedFiles : disk[p] = Planned(p)
      BY <1>1, <2>2, <2>3, <3>1 DEF Stages
    <3>3. stage' = "final" =>
            \A p \in plan.formatted \ edited : formatted_files'[p] \in {"new", "fmt"}
      <4>1. stage' = "final" => stage = "format"
        BY <1>1, <2>2, <3>1 DEF Stages
      <4>. QED  BY <2>1, <2>4, <4>1
    <3>. QED  BY <1>1, <2>8, <3>1, <3>2, <3>3 DEF StageInv
  <2>. QED  BY <2>9, <2>10
<1>. QED  BY <1>2, <1>3

LEMMA RunStage ==
  TypeInv /\ StageInv /\ RunTool => StageInv'
<1>. SUFFICES ASSUME TypeInv, StageInv, RunTool PROVE StageInv'
  OBVIOUS
<1>1. /\ pc = "run" /\ UNCHANGED <<plan, stage, formatted_files, edited>>
      /\ plan \in Plans /\ disk \in [Path -> Content]
      /\ pc' \in {"inspect", "failing"}
  BY DEF RunTool, Fail, work, history, TypeInv, TypeOK
<1>2. ASSUME stage = "format", NEW p \in plan.formatted \ edited
      PROVE  disk'[p] \in {"new", "fmt", "absent", "dir"}
  <2>1. p \in Path /\ disk[p] = "new"
    BY <1>1, <1>2, FormattedKinds, DeclaredType DEF StageInv, PlannedFiles
  <2>2. PICK made \in Product(stage) :
          \/ disk' = AfterProduct(made)
          \/ \E q \in Declared \cup Undeclared : \E c \in Damages(q) :
               disk' = [AfterProduct(made) EXCEPT ![q] = c]
    BY DEF RunTool
  <2>3. AfterProduct(made) \in [Path -> Content] /\ AfterProduct(made)[p] \in {"new", "fmt"}
    BY <1>1, <2>1 DEF AfterProduct, Content
  <2>4. \A q, c : disk' = [AfterProduct(made) EXCEPT ![q] = c] /\ c \in Damages(q)
                    => disk'[p] \in {"new", "fmt", "absent", "dir"}
    BY <1>2, <2>1, <2>3 DEF Damages
  <2>. QED  BY <2>2, <2>3, <2>4
<1>. QED  BY <1>1, <1>2 DEF StageInv

LEMMA NextStage ==
  TypeInv /\ StageInv /\ [Next]_vars => StageInv'
<1>. SUFFICES ASSUME TypeInv, StageInv, [Next]_vars PROVE StageInv'
  OBVIOUS
<1>1. plan' = plan /\ edited \subseteq edited' /\ plan \in Plans
  BY PlanIsFixed, HistoryStays DEF TypeInv, TypeOK
<1>2. ASSUME pc' \notin {"run", "inspect", "clean", "compare", "complete"} PROVE StageInv'
  BY <1>2 DEF StageInv
<1>3. CASE Prepare
  BY <1>2, <1>3 DEF Prepare, NoChange, PlanStale, BeginBackup, BackupUnavailable,
     CaptureEntry, CaptureFails, WritePrepared, Refuse
<1>4. CASE Apply
  <2>1. CASE CaptureLedger
    BY <2>1 DEF CaptureLedger, Fail, StageInv
  <2>. QED
    BY <1>2, <1>4, <2>1 DEF Apply, MakeDirectory, StageFile, Publish, Record,
       VerifyEffect, EffectFails, PublishLeavesTemporary, PublishLeavesPartialTarget,
       EffectsComplete, Fail
<1>5. CASE RunTool
  BY <1>5, RunStage
<1>6. CASE InspectTool
  BY <1>6, InspectStage
<1>7. CASE CleanCaches
  <2>1. CASE pc' = "compare"
    <3>1. caches' = {} /\ disk' = disk /\ FilesAccepted
      BY <1>7, <2>1 DEF CleanCaches, Fail, StageInv
    <3>2. FilesAccepted'
      BY <1>1, <3>1, FilesAcceptedStays
    <3>. QED  BY <2>1, <3>1, <3>2 DEF StageInv
  <2>2. CASE pc' # "compare"
    BY <1>2, <1>7, <2>2 DEF CleanCaches, Fail
  <2>. QED  BY <2>1, <2>2
<1>8. CASE CompareInventory
  <2>1. CASE pc' = "complete"
    <3>1. caches' = {} /\ disk' = disk /\ FilesAccepted /\ Unexpected = {}
      BY <1>8, <2>1 DEF CompareInventory, Fail, StageInv, durable
    <3>2. FilesAccepted' /\ Unexpected' = {}
      BY <1>1, <3>1, FilesAcceptedStays, UnexpectedStays
    <3>. QED  BY <2>1, <3>1, <3>2 DEF StageInv
  <2>2. CASE pc' # "complete"
    BY <1>2, <1>8, <2>2 DEF CompareInventory, Fail
  <2>. QED  BY <2>1, <2>2
<1>9. CASE WriteCompleted \/ CompletionFails \/ ReturnApplied
  BY <1>2, <1>9 DEF WriteCompleted, CompletionFails, ReturnApplied, Fail
<1>10. CASE Recover
  BY <1>2, <1>10 DEF Recover, HandleFailure, RetainFailure, RestoreOriginal,
     RemoveCreatedFile, RemoveCreatedDirectory, NextLoop, Settle
<1>11. CASE Manual
  BY <1>2, <1>11 DEF Manual, BeginManualRollback, ManualRollbackRefused, Reversible
<1>12. CASE Interrupt
  BY <1>2, <1>12 DEF Interrupt, InterruptEnds, InterruptHandled, InterruptStrands
<1>13. ASSUME NEW q \in Path, UserEdit(q) PROVE StageInv'
  <2>1. /\ UNCHANGED <<pc, stage, caches, formatted_files>> /\ q \in PlannedFiles
        /\ edited' = edited \cup {q} /\ disk' = [disk EXCEPT ![q] = "alien"]
    BY <1>13 DEF UserEdit, work
  <2>2. \A p \in Path : p \notin edited' => disk'[p] = disk[p]
    BY <1>1, <2>1 DEF TypeInv, TypeOK
  <2>3. /\ PlannedFiles' = PlannedFiles /\ PlannedFiles \subseteq Path
        /\ plan.formatted \subseteq Path
        /\ \A p : Planned(p)' = Planned(p) /\ Accepted(p)' = Accepted(p)
    BY <1>1, DerivedIsFixed, DeclaredType, PlanType DEF Planned, Accepted, PlannedFiles
  <2>4. \A p \in Undeclared : disk'[p] = disk[p]
    BY <1>1, <2>1, UndeclaredPaths DEF TypeInv, TypeOK, Declared
  <2>5. Unexpected' = Unexpected
    BY <2>4, UnexpectedStays
  <2>6. FilesAccepted => FilesAccepted'
    BY <1>1, <2>2, <2>3 DEF FilesAccepted
  <2>. QED  BY <1>1, <2>1, <2>2, <2>3, <2>5, <2>6 DEF StageInv
<1>14. CASE UNCHANGED vars
  <2>1. UNCHANGED <<pc, stage, disk, caches, formatted_files, edited>>
    BY <1>14 DEF vars, durable, work, history
  <2>2. FilesAccepted => FilesAccepted'
    BY <1>1, <2>1, FilesAcceptedStays
  <2>3. Unexpected' = Unexpected
    BY <2>1, UnexpectedStays
  <2>4. PlannedFiles' = PlannedFiles /\ \A p : Planned(p)' = Planned(p)
    BY <1>1, DerivedIsFixed DEF Planned
  <2>. QED  BY <1>1, <2>1, <2>2, <2>3, <2>4 DEF StageInv
<1>. QED
  BY <1>3, <1>4, <1>5, <1>6, <1>7, <1>8, <1>9, <1>10, <1>11, <1>12, <1>13, <1>14
     DEF Next, RunStep, Validate, Environment, Ended

LEMMA WriteFinished ==
  TypeInv /\ PhaseInv /\ TempsInv /\ StageInv /\ WriteCompleted
    => /\ pc' = "completed" /\ temps' = {} /\ caches' = {} /\ Unexpected' = {}
       /\ \A p \in Declared \ edited : disk'[p] \in Accepted(p)
<1>. SUFFICES ASSUME TypeInv, PhaseInv, TempsInv, StageInv, WriteCompleted
              PROVE  /\ pc' = "completed" /\ temps' = {} /\ caches' = {} /\ Unexpected' = {}
                     /\ \A p \in Declared \ edited : disk'[p] \in Accepted(p)
  OBVIOUS
<1>1. /\ pc = "complete" /\ pc' = "completed" /\ Capturable
      /\ UNCHANGED <<disk, temps, caches>> /\ plan \in Plans
  BY DEF WriteCompleted, TypeInv, TypeOK
<1>2. temps = {} /\ caches = {} /\ Unexpected = {} /\ FilesAccepted
  BY <1>1 DEF TempsInv, StageInv, Working
<1>3. Unexpected' = Unexpected
  BY <1>1, UnexpectedStays
<1>4. ASSUME NEW p \in Declared \ edited PROVE disk[p] \in Accepted(p)
  <2>1. CASE p \in PlannedFiles
    BY <1>2, <1>4, <2>1 DEF FilesAccepted
  <2>2. CASE p \in PlannedDirs
    <3>1. Kind[p] = "directory"
      BY <1>1, <2>2, PlanAssumption DEF PlannedDirs
    <3>. QED  BY <1>1, <3>1 DEF Capturable, Accepted, Planned
  <2>. QED  BY <2>1, <2>2 DEF Declared
<1>. QED  BY <1>1, <1>2, <1>3, <1>4

LEMMA NextFinished ==
  TypeInv /\ PhaseInv /\ TempsInv /\ StageInv /\ FinishedInv /\ [Next]_vars => FinishedInv'
<1>. SUFFICES ASSUME TypeInv, PhaseInv, TempsInv, StageInv, FinishedInv, [Next]_vars,
                     Finished'
              PROVE  /\ pc' \in {"completed", "ended"}
                     /\ temps' = {} /\ caches' = {} /\ Unexpected' = {}
                     /\ \A p \in Declared' \ edited' : disk'[p] \in Accepted(p)'
  BY DEF FinishedInv
<1>1. /\ plan \in Plans /\ Declared' = Declared /\ edited \subseteq edited'
      /\ \A p : Accepted(p)' = Accepted(p)
  BY PlanIsFixed, DerivedIsFixed, HistoryStays DEF TypeInv, TypeOK, Accepted, Planned
<1>2. ~manual /\ "completed" \notin interruptedAt
  <2>1. ~manual' /\ "completed" \notin interruptedAt'
    BY DEF Finished
  <2>2. ~BeginManualRollback
    BY <2>1 DEF BeginManualRollback
  <2>3. manual' = manual /\ interruptedAt \subseteq interruptedAt'
    BY <2>2, HistoryStays
  <2>. QED  BY <2>1, <2>3
<1>3. CASE manifest = "COMPLETED"
  <2>1. /\ pc \in {"completed", "ended"} /\ temps = {} /\ caches = {} /\ Unexpected = {}
        /\ \A p \in Declared \ edited : disk[p] \in Accepted(p)
    BY <1>2, <1>3 DEF FinishedInv, Finished
  <2>2. CASE ReturnApplied \/ ManualRollbackRefused \/ UNCHANGED vars
    <3>1. UNCHANGED <<disk, temps, caches>> /\ pc' \in {"completed", "ended"}
      BY <2>1, <2>2 DEF ReturnApplied, ManualRollbackRefused, vars, durable
    <3>. QED  BY <1>1, <2>1, <3>1, UnexpectedStays
  <2>3. ~BeginManualRollback /\ ~Interrupt
    BY <2>1 DEF BeginManualRollback, Interrupt, Finished
  <2>4. ASSUME NEW q \in Path, UserEdit(q)
        PROVE  /\ pc' = pc /\ UNCHANGED <<temps, caches>> /\ Unexpected' = Unexpected
               /\ \A p \in Declared' \ edited' : disk'[p] \in Accepted(p)'
    <3>1. /\ UNCHANGED <<pc, temps, caches>> /\ q \in PlannedFiles
          /\ edited' = edited \cup {q} /\ disk' = [disk EXCEPT ![q] = "alien"]
      BY <2>4 DEF UserEdit
    <3>2. \A p \in Path : p # q => disk'[p] = disk[p]
      BY <3>1 DEF TypeInv, TypeOK
    <3>3. \A p \in Undeclared : disk'[p] = disk[p]
      BY <1>1, <3>1, <3>2, UndeclaredPaths DEF Declared
    <3>4. Unexpected' = Unexpected
      BY <3>3, UnexpectedStays
    <3>. QED  BY <1>1, <2>1, <3>1, <3>2, <3>4, DeclaredType
  <2>. QED
    BY <2>1, <2>2, <2>3, <2>4, AfterCompletion DEF Manual
<1>4. CASE manifest # "COMPLETED"
  <2>1. WriteCompleted
    BY <1>4, ManifestChanges DEF Finished, WritePrepared, RetainFailure, Settle
  <2>2. UNCHANGED edited
    BY <2>1 DEF WriteCompleted, history
  <2>. QED  BY <1>1, <2>1, <2>2, WriteFinished
<1>. QED  BY <1>3, <1>4

LEMMA StagesHold == Spec => [](StageInv /\ FinishedInv)
<1>1. Init => StageInv /\ FinishedInv
  BY DEF Init, StageInv, FinishedInv, Finished
<1>. QED
  BY <1>1, NextStage, NextFinished, PhasesHold, PTL DEF Spec

(* A COMPLETED manifest is right for every plan, whatever the tools did to    *)
(* the workspace before, and whatever failed or was interrupted: each stage   *)
(* of the validation keeps what the earlier ones established of a file, and   *)
(* the manifest is only written when all of it holds.                         *)
THEOREM CompletedTransactionsAreAsPlanned == Spec => []CompletedIsPlanned
<1>1. TypeInv /\ WriteAheadInv /\ FinishedInv => CompletedIsPlanned
  BY DEF FinishedInv, Finished, CompletedIsPlanned, AllAccepted, WriteAheadInv
<1>. QED  BY <1>1, PhasesHold, StagesHold, PTL

-----------------------------------------------------------------------------
(* What happens to a user's edit *)

(* An edit the run has no claim on stays unclaimed while the run lasts, and  *)
(* is never what a manual rollback takes for the result of the run.          *)
ProtectInv ==
  /\ UserEditSurvives
  /\ protected \subseteq PlannedFiles /\ protected \subseteq edited
  /\ pc # "ended" => \A p \in protected : ~Claimed(p)
  /\ manifest = "COMPLETED" =>
       \A p \in PlannedFiles : applied[p] = "alien" => p \in edited \ protected

(* When everything planned is recorded, every file the plan names is claimed. *)
LEMMA AllClaimed ==
  ASSUME plan \in Plans, AllRecorded, NEW p \in PlannedFiles
  PROVE  Claimed(p)
<1>1. p \in Declared /\ Kind[p] # "directory"
  BY DEF Declared, PlannedFiles
<1>. QED  BY <1>1, DeclaredKinds DEF AllRecorded, Claimed

(* A step that leaves the workspace, the lists and the edits alone, and takes *)
(* nothing into hand.                                                        *)
LEMMA QuietStep ==
  ASSUME ProtectInv, UNCHANGED <<plan, disk, lists, protected, edited, applied>>,
         pc = "ended" => pc' = "ended",
         pc' \notin {"staged", "published", "verify"},
         manifest' = "COMPLETED" => manifest = "COMPLETED"
  PROVE  ProtectInv'
<1>1. PlannedFiles' = PlannedFiles
  BY DerivedIsFixed
<1>2. \A p : Claimed(p)' => Claimed(p)
  BY DEF Claimed, CreatedFiles, lists, Target
<1>3. UserEditSurvives'
  BY DEF ProtectInv, UserEditSurvives
<1>. QED  BY <1>1, <1>2, <1>3 DEF ProtectInv

(* A step of the run that changes one path nobody has a protected edit of.   *)
LEMMA StepOnPath ==
  ASSUME TypeInv, ProtectInv, NEW q \in Path, q \notin protected,
         UNCHANGED <<plan, protected, edited, applied, manifest>>,
         \A p \in Path : p # q => disk'[p] = disk[p],
         \A p \in Path : p # q => (Claimed(p)' => Claimed(p)),
         pc # "ended"
  PROVE  ProtectInv'
<1>1. PlannedFiles' = PlannedFiles /\ PlannedFiles \subseteq Path
  BY DerivedIsFixed, DeclaredType DEF TypeInv, TypeOK, Declared
<1>2. UserEditSurvives'
  BY DEF ProtectInv, UserEditSurvives, TypeInv, TypeOK
<1>. QED  BY <1>1, <1>2 DEF ProtectInv

LEMMA ApplyProtect ==
  TypeInv /\ ListsOK /\ PhaseInv /\ ProtectInv /\ Apply => ProtectInv'
<1>. SUFFICES ASSUME TypeInv, ListsOK, PhaseInv, ProtectInv, Apply PROVE ProtectInv'
  OBVIOUS
<1>0. /\ plan \in Plans /\ plan' = plan /\ PlannedFiles \subseteq Path
      /\ disk \in [Path -> Content] /\ pc # "ended"
      /\ modified_files \in Seq(Path) /\ rollback_files \in Seq(Item)
      /\ pc \in {"staged", "published", "verify"} => \E p \in Declared : current = {p}
      /\ pc \notin {"staged", "published", "verify"} => current = {}
      /\ \A p \in protected : disk[p] = "alien" /\ ~Claimed(p) /\ p \in PlannedFiles
  <2>1. pc # "ended"
    BY DEF Apply, MakeDirectory, StageFile, Publish, Record, VerifyEffect, EffectFails,
         PublishLeavesTemporary, PublishLeavesPartialTarget, EffectsComplete, CaptureLedger
  <2>2. plan \in Plans /\ plan' = plan
    BY PlanIsFixed DEF TypeInv, TypeOK, Next, RunStep
  <2>3. PlannedFiles \subseteq Path
    BY <2>2, DeclaredType DEF Declared
  <2>. QED
    BY <2>1, <2>2, <2>3
       DEF TypeInv, TypeOK, ListsOK, InHand, ProtectInv, UserEditSurvives
<1>1. CASE MakeDirectory
  <2>1. plan.steps[step] \in Path
    BY <1>0, <1>1, PlanType DEF MakeDirectory, TypeInv, TypeOK
  <2>2. PICK d \in Path : /\ disk' = [disk EXCEPT ![d] = "dir"] /\ current' = {d}
                          /\ Kind[d] = "directory"
    BY <1>0, <1>1, <2>1, NextDirectoryType DEF MakeDirectory
  <2>3. d \notin protected
    BY <1>0, <2>2 DEF PlannedFiles
  <2>4. UNCHANGED <<plan, protected, edited, applied, manifest, lists>>
    BY <1>1 DEF MakeDirectory, history
  <2>5. \A p \in Path : p # d => disk'[p] = disk[p] /\ (Claimed(p)' => Claimed(p))
    BY <1>0, <2>2, <2>4 DEF Claimed, CreatedFiles, lists, Target
  <2>. QED  BY <1>0, <2>3, <2>4, <2>5, StepOnPath
<1>2. CASE StageFile
  <2>1. PICK q \in Path : q = plan.steps[step]
    BY <1>0, <1>2, PlanType DEF StageFile, TypeInv, TypeOK
  <2>2. /\ UNCHANGED <<plan, disk, protected, edited, applied, manifest, lists>>
        /\ disk[q] = Original(q) /\ current' = {q}
    BY <1>2, <2>1 DEF StageFile, history
  <2>3. q \notin protected
    BY <1>0, <2>2 DEF Original
  <2>4. \A p \in Path : p # q => (Claimed(p)' => Claimed(p))
    BY <2>2 DEF Claimed, CreatedFiles, lists, Target
  <2>. QED  BY <1>0, <2>2, <2>3, <2>4, StepOnPath
<1>3. CASE Publish
  <2>1. PICK q \in Declared : current = {q}
    BY <1>0, <1>3 DEF Publish
  <2>2. /\ UNCHANGED <<plan, protected, edited, applied, manifest, lists, current>>
        /\ disk' = [disk EXCEPT ![q] = Planned(q)]
        /\ Publishable(q) /\ pc = "staged" /\ q \in Path
    BY <1>0, <1>3, <2>1, DeclaredType DEF Publish, history
  <2>3. q \notin protected
    BY <1>0, <2>1, <2>2 DEF Publishable, Claimed
  <2>4. \A p \in Path : p # q => disk'[p] = disk[p] /\ (Claimed(p)' => Claimed(p))
    BY <1>0, <2>1, <2>2 DEF Claimed, CreatedFiles, lists, Target
  <2>. QED  BY <1>0, <2>2, <2>3, <2>4, StepOnPath
<1>4. CASE Record
  <2>1. PICK q \in Declared : current = {q} /\ Listed(q)
    BY <1>0, <1>4 DEF Record
  <2>2. /\ UNCHANGED <<plan, disk, protected, edited, applied, manifest, current>>
        /\ pc = "published" /\ pc' = "verify" /\ q \in Path
    BY <1>0, <1>4, DeclaredType DEF Record, durable, work, history
  <2>3. q \notin protected
    BY <1>0, <2>1, <2>2 DEF Claimed
  <2>4. /\ Range(modified_files') \subseteq Range(modified_files) \cup {q}
        /\ Range(rollback_files') \subseteq Range(rollback_files) \cup {Target(q)}
    BY <1>0, <2>1, <2>2, AppendRange, ItemType DEF Listed
  <2>5. \A p \in Path : p # q => (Claimed(p)' => Claimed(p))
    BY <2>1, <2>2, <2>4 DEF Claimed, CreatedFiles, Target
  <2>. QED  BY <1>0, <2>2, <2>3, <2>5, StepOnPath
<1>5. CASE VerifyEffect \/ EffectFails \/ EffectsComplete \/ CaptureLedger
  <2>1. /\ UNCHANGED <<plan, disk, lists, protected, edited, applied, manifest>>
        /\ pc' \notin {"staged", "published", "verify"}
    BY <1>5 DEF VerifyEffect, EffectFails, EffectsComplete, CaptureLedger, Fail, durable,
                work, history
  <2>. QED  BY <1>0, <2>1, QuietStep
<1>6. CASE PublishLeavesTemporary \/ PublishLeavesPartialTarget
  <2>1. PICK q \in Declared : current = {q}
    BY <1>0, <1>6 DEF PublishLeavesTemporary, PublishLeavesPartialTarget
  <2>2. /\ UNCHANGED <<plan, protected, edited, applied, manifest, modified_files>>
        /\ pc' = "failing" /\ current' = {} /\ q \in Path
    BY <1>0, <1>6, DeclaredType
       DEF PublishLeavesTemporary, PublishLeavesPartialTarget, Fail, history
  <2>3. Temporary(q) # Target(q) /\ \A p : Target(p) # Temporary(q)
    BY DEF Temporary, Target
  <2>4. CASE UNCHANGED disk /\ rollback_files' = Append(rollback_files, Temporary(q))
    <3>1. Range(rollback_files') = Range(rollback_files) \cup {Temporary(q)}
      BY <1>0, <2>2, <2>4, AppendRange, ItemType
    <3>2. \A p \in Path : Claimed(p)' => Claimed(p)
      BY <2>2, <2>3, <3>1 DEF Claimed, CreatedFiles, Target
    <3>3. PlannedFiles' = PlannedFiles
      BY <2>2, DerivedIsFixed
    <3>4. UserEditSurvives'
      BY <1>0, <2>2, <2>4 DEF UserEditSurvives
    <3>. QED  BY <1>0, <2>2, <3>2, <3>3, <3>4 DEF ProtectInv
  <2>5. CASE ~(UNCHANGED disk /\ rollback_files' = Append(rollback_files, Temporary(q)))
    <3>1. /\ disk[q] = "absent" /\ \E c : disk' = [disk EXCEPT ![q] = c]
          /\ \/ rollback_files' = Append(Append(rollback_files, Target(q)), Temporary(q))
             \/ rollback_files' = Append(rollback_files, Target(q))
      BY <1>6, <2>1, <2>5
         DEF PublishLeavesTemporary, PublishLeavesPartialTarget, Publishable
    <3>2. Range(rollback_files')
            \subseteq Range(rollback_files) \cup {Target(q), Temporary(q)}
      <4>1. /\ Range(Append(rollback_files, Target(q))) = Range(rollback_files) \cup {Target(q)}
            /\ Range(Append(Append(rollback_files, Target(q)), Temporary(q)))
                 = Range(rollback_files) \cup {Target(q), Temporary(q)}
        BY <1>0, <2>2, AppendRange, AppendTwiceRange, ItemType
      <4>. QED  BY <3>1, <4>1
    <3>3. q \notin protected
      BY <1>0, <3>1
    <3>4. \A p \in Path : p # q => (Claimed(p)' => Claimed(p))
      BY <2>2, <2>3, <3>2 DEF Claimed, CreatedFiles, Target
    <3>5. \A p \in Path : p # q => disk'[p] = disk[p]
      BY <1>0, <3>1
    <3>. QED  BY <1>0, <2>2, <3>3, <3>4, <3>5, StepOnPath
  <2>. QED  BY <2>4, <2>5
<1>. QED  BY <1>1, <1>2, <1>3, <1>4, <1>5, <1>6 DEF Apply

LEMMA NextProtect ==
  TypeInv /\ WriteAheadInv /\ ListsOK /\ PhaseInv /\ StageInv /\ ProtectInv /\ [Next]_vars
    => ProtectInv'
<1>. SUFFICES ASSUME TypeInv, WriteAheadInv, ListsOK, PhaseInv, StageInv, ProtectInv,
                     [Next]_vars
              PROVE  ProtectInv'
  OBVIOUS
<1>0. /\ plan \in Plans /\ plan' = plan /\ PlannedFiles \subseteq Path
      /\ PlannedFiles' = PlannedFiles /\ PlannedFiles \subseteq Declared
      /\ disk \in [Path -> Content]
      /\ modified_files \in Seq(Path) /\ rollback_files \in Seq(Item)
      /\ \A p \in protected : disk[p] = "alien" /\ p \in PlannedFiles
      /\ pc # "ended" => \A p \in protected : ~Claimed(p)
  <2>1. plan \in Plans /\ plan' = plan
    BY PlanIsFixed DEF TypeInv, TypeOK
  <2>2. PlannedFiles \subseteq Path /\ PlannedFiles' = PlannedFiles
    BY <2>1, DeclaredType, DerivedIsFixed DEF Declared
  <2>. QED  BY <2>1, <2>2 DEF TypeInv, TypeOK, ProtectInv, UserEditSurvives, Declared
<1>1. CASE Prepare
  <2>1. /\ UNCHANGED <<disk, lists, protected, edited, applied>>
        /\ pc' \in {"backup", "apply", "ended"} /\ pc # "ended"
        /\ manifest' = manifest \/ manifest' = "PREPARED"
    BY <1>1 DEF Prepare, NoChange, PlanStale, BeginBackup, BackupUnavailable,
       CaptureEntry, CaptureFails, WritePrepared, Refuse, durable, history
  <2>. QED  BY <1>0, <2>1, QuietStep
<1>2. CASE Apply
  BY <1>2, ApplyProtect
<1>3. ASSUME AllRecorded, pc # "ended" PROVE protected = {}
  BY <1>0, <1>3, AllClaimed
<1>4. CASE RunTool
  <2>1. protected = {}
    BY <1>3, <1>4 DEF RunTool, ListsOK
  <2>2. UNCHANGED <<protected, edited, applied, manifest>>
    BY <1>4 DEF RunTool, Fail, history
  <2>. QED  BY <1>0, <2>1, <2>2 DEF ProtectInv, UserEditSurvives
<1>5. CASE WriteCompleted
  <2>1. pc = "complete" /\ UNCHANGED <<disk, protected, edited>> /\ applied' = disk
    BY <1>5 DEF WriteCompleted, history
  <2>2. protected = {} /\ FilesAccepted
    BY <1>3, <2>1 DEF PhaseInv, StageInv
  <2>3. \A p \in PlannedFiles : disk[p] = "alien" => p \in edited
    BY <1>0, <2>2, AcceptedIsNew DEF FilesAccepted
  <2>. QED  BY <1>0, <2>1, <2>2, <2>3 DEF ProtectInv, UserEditSurvives
<1>6. CASE InspectTool \/ CleanCaches \/ CompareInventory \/ CompletionFails \/ ReturnApplied
  <2>1. /\ UNCHANGED <<disk, lists, protected, edited, applied, manifest>> /\ pc # "ended"
        /\ pc' \notin {"staged", "published", "verify"}
    BY <1>6 DEF InspectTool, CleanCaches, CompareInventory, CompletionFails, ReturnApplied,
                Fail, durable, history
  <2>. QED  BY <1>0, <2>1, QuietStep
<1>7. CASE HandleFailure \/ RetainFailure \/ NextLoop \/ Settle
  <2>1. /\ UNCHANGED <<disk, lists, protected, edited, applied>> /\ pc # "ended"
        /\ pc' \notin {"staged", "published", "verify"}
        /\ manifest' = manifest \/ manifest' # "COMPLETED"
    BY <1>7 DEF HandleFailure, RetainFailure, NextLoop, Settle, durable, history
  <2>. QED  BY <1>0, <2>1, QuietStep
<1>8. CASE RestoreOriginal
  <2>1. PICK q \in Path : q = modified_files[cursor] /\ q \in Range(modified_files)
    BY <1>0, <1>8 DEF RestoreOriginal, TypeInv, TypeOK, CursorOK, Range
  <2>2. /\ pc = "restore" /\ pc' = pc
        /\ UNCHANGED <<protected, edited, applied, manifest, lists, current>>
        /\ \A p \in Path : p # q => disk'[p] = disk[p]
    BY <1>0, <1>8, <2>1 DEF RestoreOriginal, work
  <2>3. q \notin protected
    BY <1>0, <2>1, <2>2 DEF Claimed
  <2>4. \A p \in Path : Claimed(p)' => Claimed(p)
    BY <2>2 DEF Claimed, CreatedFiles, lists, Target
  <2>. QED  BY <1>0, <2>2, <2>3, <2>4, StepOnPath
<1>9. CASE RemoveCreatedFile
  <2>1. PICK item \in Item : item = rollback_files[cursor] /\ item \in Range(rollback_files)
    BY <1>0, <1>9 DEF RemoveCreatedFile, TypeInv, TypeOK, CursorOK, Range
  <2>2. item.path \in Path /\ (item.temp \/ item = Target(item.path))
    BY DEF Item, Target
  <2>3. /\ pc = "unlink" /\ pc' = pc
        /\ UNCHANGED <<protected, edited, applied, manifest, lists, current>>
        /\ item.temp => disk' = disk
        /\ \A p \in Path : p # item.path => disk'[p] = disk[p]
    BY <1>0, <1>9, <2>1, <2>2 DEF RemoveCreatedFile, work
  <2>4. \A p \in Path : Claimed(p)' => Claimed(p)
    BY <2>3 DEF Claimed, CreatedFiles, lists, Target
  <2>5. CASE item.temp
    <3>1. UserEditSurvives'
      BY <1>0, <2>3, <2>5 DEF UserEditSurvives
    <3>. QED  BY <1>0, <2>3, <2>4, <3>1 DEF ProtectInv
  <2>6. CASE ~item.temp
    <3>1. item.path \notin protected
      BY <1>0, <2>1, <2>2, <2>3, <2>6 DEF Claimed, CreatedFiles
    <3>. QED  BY <1>0, <2>2, <2>3, <2>4, <3>1, StepOnPath
  <2>. QED  BY <2>5, <2>6
<1>10. CASE RemoveCreatedDirectory
  <2>1. PICK d \in PlannedDirs : d = created_directories[cursor]
    BY <1>10 DEF RemoveCreatedDirectory, TypeInv, TypeOK, CursorOK, ListsOK, ListKinds
  <2>2. d \in Path /\ Kind[d] = "directory"
    BY <1>0, DeclaredType, PlanAssumption DEF PlannedDirs
  <2>3. /\ pc = "rmdir" /\ pc' = pc
        /\ UNCHANGED <<protected, edited, applied, manifest, lists, current>>
        /\ \A p \in Path : p # d => disk'[p] = disk[p]
    BY <1>0, <1>10, <2>1, <2>2 DEF RemoveCreatedDirectory, work
  <2>4. \A p \in Path : Claimed(p)' => Claimed(p)
    BY <2>3 DEF Claimed, CreatedFiles, lists, Target
  <2>5. d \notin protected
    BY <1>0, <2>2 DEF PlannedFiles
  <2>. QED  BY <1>0, <2>2, <2>3, <2>4, <2>5, StepOnPath
<1>11. CASE BeginManualRollback
  <2>1. /\ manifest = "COMPLETED" /\ PreflightOk
        /\ UNCHANGED <<disk, protected, edited, applied, manifest>>
    BY <1>11 DEF BeginManualRollback, Reversible, durable, history
  <2>2. protected = {}
    BY <1>0, <2>1 DEF PreflightOk, ProtectInv
  <2>. QED  BY <1>0, <2>1, <2>2 DEF ProtectInv, UserEditSurvives
<1>12. CASE ManualRollbackRefused
  <2>1. /\ UNCHANGED <<disk, lists, protected, edited, applied, manifest, pc>>
        /\ pc = "ended"
    BY <1>12 DEF ManualRollbackRefused, Reversible, durable, history
  <2>. QED  BY <1>0, <2>1, QuietStep
<1>13. CASE Interrupt
  <2>1. /\ UNCHANGED <<plan, lists, protected, edited, applied, manifest>> /\ pc # "ended"
        /\ pc' \in {"failing", "ended"}
    BY <1>13 DEF Interrupt, InterruptEnds, InterruptHandled, InterruptStrands
  <2>2. CASE disk' = disk
    BY <1>0, <2>1, <2>2, QuietStep
  <2>3. CASE disk' # disk
    <3>1. PICK q \in Path : disk[q] = "absent" /\ disk' = [disk EXCEPT ![q] = "alien"]
      BY <1>0, <1>13, <2>3, DeclaredType
         DEF Interrupt, InterruptEnds, InterruptHandled, InterruptStrands, Publishable,
             TypeInv, TypeOK
    <3>2. q \notin protected
      BY <3>1 DEF ProtectInv, UserEditSurvives
    <3>3. \A p \in Path : Claimed(p)' => Claimed(p)
      BY <2>1 DEF Claimed, CreatedFiles, lists, Target
    <3>4. \A p \in Path : p # q => disk'[p] = disk[p]
      BY <3>1 DEF TypeInv, TypeOK
    <3>. QED  BY <1>0, <2>1, <3>1, <3>2, <3>3, <3>4, StepOnPath
  <2>. QED  BY <2>2, <2>3
<1>14. ASSUME NEW q \in Path, UserEdit(q) PROVE ProtectInv'
  <2>1. /\ UNCHANGED <<applied, manifest, lists, current, pc>>
        /\ q \in PlannedFiles \ edited /\ edited' = edited \cup {q}
        /\ disk' = [disk EXCEPT ![q] = "alien"]
        /\ protected' = IF Claimed(q) /\ pc # "ended" THEN protected ELSE protected \cup {q}
    BY <1>14 DEF UserEdit, work
  <2>2. \A p : Claimed(p)' = Claimed(p)
    BY <2>1 DEF Claimed, CreatedFiles, lists, Target
  <2>3. UserEditSurvives'
    BY <1>0, <2>1 DEF UserEditSurvives
  <2>4. \A p \in protected' : p \in protected \/ (p = q /\ (~Claimed(q) \/ pc = "ended"))
    BY <2>1
  <2>5. pc' # "ended" => \A p \in protected' : ~Claimed(p)'
    BY <1>0, <2>1, <2>2, <2>4
  <2>6. protected' \subseteq PlannedFiles /\ protected' \subseteq edited'
    BY <2>1, <2>4 DEF ProtectInv
  <2>7. manifest' = "COMPLETED" =>
          \A p \in PlannedFiles : applied'[p] = "alien" => p \in edited' \ protected'
    BY <2>1, <2>4 DEF ProtectInv
  <2>. QED  BY <1>0, <2>3, <2>5, <2>6, <2>7 DEF ProtectInv
<1>15. CASE UNCHANGED vars
  <2>1. UNCHANGED <<disk, lists, protected, edited, applied, manifest, pc, current>>
    BY <1>15 DEF vars, durable, work, history
  <2>2. \A p : Claimed(p)' = Claimed(p)
    BY <2>1 DEF Claimed, CreatedFiles, lists, Target
  <2>3. UserEditSurvives'
    BY <1>0, <2>1 DEF UserEditSurvives
  <2>. QED  BY <1>0, <2>1, <2>2, <2>3 DEF ProtectInv
<1>. QED
  BY <1>1, <1>2, <1>4, <1>5, <1>6, <1>7, <1>8, <1>9, <1>10, <1>11, <1>12, <1>13, <1>14, <1>15
     DEF Next, RunStep, Validate, Recover, Manual, Environment, Ended

(* A user's edit of a declared file is never overwritten or removed, by an   *)
(* effect, a rollback or a manual rollback, if it was made before the run    *)
(* last looked at the file, or while no run was active: for every plan, and  *)
(* any number of edits and interrupts at any points.                         *)
THEOREM UserEditsSurvive == Spec => []UserEditSurvives
<1>1. Init => ProtectInv
  BY DEF Init, ProtectInv, UserEditSurvives
<1>2. ProtectInv => UserEditSurvives
  BY DEF ProtectInv
<1>. QED
  BY <1>1, <1>2, NextProtect, PhasesHold, StagesHold, PTL DEF Spec

-----------------------------------------------------------------------------
(* What the caller is told *)

(* Every answer is given when the run ends; until then there is only that of *)
(* the run which a manual rollback undoes.                                   *)
ReportInv ==
  /\ pc # "ended" => outcome.status \in {"none", "APPLIED", "REFUSED"}
  /\ outcome.status \in {"none", "APPLIED", "REFUSED"} =>
       outcome.rollback \in {"none", "failed"}
  /\ outcome.status \in {"APPLIED", "REFUSED"} => manifest = "COMPLETED"
  /\ outcome.status \in {"NO_CHANGE", "ERROR"} /\ outcome.rollback = "none" =>
       manifest = "none"
  /\ Unedited /\ outcome.rollback = "succeeded" => OriginalBut(stranded)
  /\ Unedited /\ outcome.rollback = "skipped" /\ outcome.kept = FALSE =>
       OriginalBut(stranded)

(* The end of a rollback that gave up on nothing, and of a failure that left *)
(* nothing in the lists.                                                     *)
LEMMA SettledIsOriginal ==
  ASSUME Coverage, \/ pc = "settle" /\ unresolved = {}
                   \/ /\ pc = "keep" /\ rollback_files = <<>>
                      /\ created_directories = <<>> /\ modified_files = <<>>
  PROVE  OriginalBut(stranded)
<1>1. \A p : Pending(p) \/ PendingTemp(p) => p \in stranded
  BY DEF Pending, PendingTemp, RestorePending, UnlinkPending, RmdirPending, Left, RollbackPCs
<1>. QED  BY <1>1, NothingPending

LEMMA NextReport ==
  TypeInv /\ WriteAheadInv /\ ListsOK /\ UndoInv /\ PhaseInv /\ ReportInv /\ [Next]_vars
    => ReportInv'
<1>. SUFFICES ASSUME TypeInv, WriteAheadInv, ListsOK, UndoInv, PhaseInv, ReportInv,
                     [Next]_vars
              PROVE  ReportInv'
  OBVIOUS
<1>1. plan' = plan /\ (Unedited' => Unedited)
  BY PlanIsFixed, HistoryGrows
<1>2. ASSUME UNCHANGED <<disk, temps, stranded, outcome>>, pc = "ended" => pc' = "ended" \/ Reversible,
             manifest' = manifest \/ manifest = "none" \/ manifest' = "COMPLETED",
             pc = "ended" => manifest' = manifest
      PROVE  ReportInv'
  BY <1>1, <1>2, OriginalStays DEF ReportInv, Reversible
<1>3. CASE pc = "ended"
  <2>1. CASE BeginManualRollback
    BY <1>2, <1>3, <2>1 DEF BeginManualRollback, durable, history
  <2>2. CASE ManualRollbackRefused
    BY <1>1, <2>2, OriginalStays
       DEF ManualRollbackRefused, Reversible, ReportInv, durable, history, Result
  <2>3. CASE UNCHANGED vars
    BY <1>2, <1>3, <2>3 DEF vars, durable, history
  <2>4. ASSUME NEW q \in Path, UserEdit(q) PROVE ReportInv'
    <3>1. ~Unedited'
      BY <2>4 DEF UserEdit, Unedited
    <3>2. UNCHANGED <<pc, outcome, manifest>>
      BY <2>4 DEF UserEdit
    <3>. QED  BY <3>1, <3>2 DEF ReportInv
  <2>5. ~ReturnApplied /\ ~Interrupt
    BY <1>3 DEF ReturnApplied, Interrupt
  <2>. QED  BY <1>3, <2>1, <2>2, <2>3, <2>4, <2>5, AfterCompletion DEF Manual
<1>4. CASE pc # "ended"
  <2>0. /\ outcome.status \in {"none", "APPLIED", "REFUSED"}
        /\ outcome.rollback \in {"none", "failed"}
    BY <1>4 DEF ReportInv
  <2>1. ASSUME UNCHANGED outcome,
               manifest' = manifest \/ manifest = "none" \/ manifest' = "COMPLETED"
        PROVE  ReportInv'
    BY <2>0, <2>1 DEF ReportInv
  <2>2. CASE NoChange \/ PlanStale \/ BackupUnavailable \/ CaptureFails
    <3>1. /\ manifest' = "none" /\ pc' = "ended"
          /\ outcome' \in {Result("NO_CHANGE", "none", FALSE), Result("ERROR", "none", FALSE)}
      BY <2>2 DEF NoChange, PlanStale, BackupUnavailable, CaptureFails, Refuse,
                  WriteAheadInv, durable
    <3>2. outcome'.status \in {"NO_CHANGE", "ERROR"} /\ outcome'.rollback = "none"
      BY <3>1 DEF Result
    <3>. QED  BY <3>1, <3>2 DEF ReportInv
  <2>3. CASE BeginBackup \/ CaptureEntry \/ WritePrepared
    BY <2>1, <2>3 DEF BeginBackup, CaptureEntry, WritePrepared, WriteAheadInv, durable
  <2>4. CASE Apply
    BY <2>1, <2>4 DEF Apply, MakeDirectory, StageFile, Publish, Record, VerifyEffect,
       EffectFails, PublishLeavesTemporary, PublishLeavesPartialTarget, EffectsComplete,
       CaptureLedger, Fail, durable
  <2>5. CASE Validate /\ ~ReturnApplied
    BY <2>1, <2>5 DEF Validate, RunTool, InspectTool, CleanCaches, CompareInventory,
       WriteCompleted, CompletionFails, Fail, durable
  <2>6. CASE ReturnApplied
    <3>1. manifest' = "COMPLETED" /\ outcome' = Result("APPLIED", "none", FALSE)
      BY <2>6 DEF ReturnApplied, PhaseInv, durable
    <3>2. outcome'.status = "APPLIED" /\ outcome'.rollback = "none"
      BY <3>1 DEF Result
    <3>. QED  BY <3>1, <3>2 DEF ReportInv
  <2>7. CASE HandleFailure \/ RestoreOriginal \/ RemoveCreatedFile
             \/ RemoveCreatedDirectory \/ NextLoop
    BY <2>1, <2>7 DEF HandleFailure, RestoreOriginal, RemoveCreatedFile,
       RemoveCreatedDirectory, NextLoop, durable
  <2>8. CASE RetainFailure
    <3>1. PICK present \in BOOLEAN :
            /\ outcome' = Result("ERROR", "skipped", present)
            /\ present = (rollback_files # <<>> \/ created_directories # <<>>
                             \/ modified_files # <<>>)
      BY <2>8 DEF RetainFailure
    <3>2. /\ outcome'.status = "ERROR" /\ outcome'.rollback = "skipped"
          /\ outcome'.kept = present
      BY <3>1 DEF Result
    <3>3. pc = "keep" /\ pc' = "ended" /\ UNCHANGED <<disk, temps, stranded>>
      BY <2>8 DEF RetainFailure, history
    <3>4. ASSUME Unedited', present = FALSE PROVE OriginalBut(stranded)'
      <4>1. Coverage
        BY <1>1, <1>4, <3>4 DEF UndoInv, Active
      <4>2. rollback_files = <<>> /\ created_directories = <<>> /\ modified_files = <<>>
        BY <3>1, <3>4
      <4>. QED  BY <1>1, <3>3, <4>1, <4>2, SettledIsOriginal, OriginalStays
    <3>. QED  BY <3>2, <3>3, <3>4 DEF ReportInv
  <2>9. CASE Settle
    <3>1. /\ \/ outcome' = Result("ROLLED_BACK", "succeeded", FALSE) /\ Restored
             \/ outcome' = Result("ERROR", "succeeded", FALSE) /\ Restored
             \/ outcome' = Result("ERROR", "failed", FALSE)
          /\ pc = "settle" /\ pc' = "ended" /\ UNCHANGED <<disk, temps, stranded>>
      BY <2>9 DEF Settle, history
    <3>2. /\ outcome'.status \in {"ERROR", "ROLLED_BACK"}
          /\ outcome'.rollback \in {"succeeded", "failed"}
          /\ outcome'.rollback = "succeeded" => unresolved = {}
      BY <3>1 DEF Result, Restored
    <3>3. ASSUME Unedited', unresolved = {} PROVE OriginalBut(stranded)'
      <4>1. Coverage
        BY <1>1, <1>4, <3>3 DEF UndoInv, Active
      <4>. QED  BY <1>1, <3>1, <3>3, <4>1, SettledIsOriginal, OriginalStays
    <3>. QED  BY <3>1, <3>2, <3>3 DEF ReportInv
  <2>10. CASE Interrupt
    <3>1. CASE InterruptHandled \/ InterruptStrands
      BY <2>1, <2>10, <3>1 DEF Interrupt, InterruptHandled, InterruptStrands
    <3>2. CASE InterruptEnds
      <4>1. pc' = "ended" /\ outcome' = Result("INTERRUPTED", "none", FALSE)
        BY <3>2 DEF InterruptEnds
      <4>2. outcome'.status = "INTERRUPTED" /\ outcome'.rollback = "none"
        BY <4>1 DEF Result
      <4>. QED  BY <4>1, <4>2 DEF ReportInv
    <3>. QED  BY <2>10, <3>1, <3>2 DEF Interrupt
  <2>11. CASE (\E p \in Path : UserEdit(p)) \/ UNCHANGED vars
    BY <2>1, <2>11 DEF UserEdit, vars, durable
  <2>12. ~Manual
    BY <1>4 DEF Manual, BeginManualRollback, ManualRollbackRefused, Reversible
  <2>. QED
    BY <2>2, <2>3, <2>4, <2>5, <2>6, <2>7, <2>8, <2>9, <2>10, <2>11, <2>12
       DEF Next, RunStep, Prepare, Recover, Environment, Ended
<1>. QED  BY <1>3, <1>4

LEMMA ReportsHold == Spec => [](UndoInv /\ ReportInv)
<1>1. Init => ReportInv
  BY DEF Init, ReportInv, Result
<1>. QED
  BY <1>1, NextReport, UndoInvariant, PhasesHold, PTL DEF Spec

(* What the caller is told is right, for every plan, failure and interrupt,  *)
(* unless a user edited a declared path, and but for the path at which an    *)
(* interrupt left something that no list names.                              *)
THEOREM ReportsAreHonest == Spec => []ReportIsHonest
<1>1. TypeInv /\ WriteAheadInv /\ TempsInv /\ ReportInv => ReportIsHonest
  <2>. SUFFICES ASSUME TypeInv, WriteAheadInv, TempsInv, ReportInv, pc = "ended", Unedited
                PROVE  /\ outcome.status = "APPLIED" => manifest = "COMPLETED"
                       /\ outcome.rollback = "succeeded" => OriginalBut(stranded)
                       /\ outcome.rollback = "skipped" /\ ~outcome.kept =>
                            OriginalBut(stranded)
                       /\ outcome.status \in {"NO_CHANGE", "ERROR"}
                            /\ outcome.rollback = "none" => AllOriginal /\ manifest = "none"
    BY DEF ReportIsHonest, Unedited
  <2>1. ~outcome.kept => outcome.kept = FALSE
    BY DEF TypeInv, TypeOK, Outcome
  <2>2. manifest = "none" => AllOriginal
    BY DEF WriteAheadInv, Untouched, TempsInv, AllOriginal, OriginalBut, Unedited
  <2>. QED  BY <2>1, <2>2 DEF ReportInv
<1>. QED  BY <1>1, PhasesHold, ReportsHold, PTL

-----------------------------------------------------------------------------
(* Why a rollback fails *)

(* Every directory above d is there. *)
Rooted(d) == \A a \in Ancestors[d] : disk[a] = "dir"

(* A directory is never anything else, and no step touches what is neither   *)
(* declared nor undeclared.  While effects are applied, the directories made *)
(* stay where they are, so that each was made before what is put into it.    *)
DirectoryContents ==
  /\ \A d \in Path : Kind[d] = "directory" => disk[d] \in {"absent", "dir"}
  /\ \A p \in Path \ (Declared \cup Undeclared) : disk[p] = Original(p)
MadeInOrder ==
  \A i, j \in DOMAIN created_directories :
    i <= j => created_directories[j] \notin Ancestors[created_directories[i]]
DirectoryInHand ==
  /\ pc = "staged" => \A p \in current : Kind[p] # "directory"
  /\ pc = "published" => \A p \in current : Kind[p] = "directory" =>
       /\ Rooted(p) /\ p \notin Ancestors[p]
       /\ \A i \in DOMAIN created_directories : p \notin Ancestors[created_directories[i]]
AllRooted ==
  pc \in {"planned", "backup", "apply", "staged", "published", "verify"} =>
    \A i \in DOMAIN created_directories : Rooted(created_directories[i])
Unstarted == pc \in {"planned", "backup"} => created_directories = <<>>
DirsInv == DirectoryContents /\ MadeInOrder /\ DirectoryInHand /\ AllRooted /\ Unstarted

(* What keeps a rollback from restoring everything, other than an I/O error. *)
Cause ==
  \/ \E p \in PlannedFiles : disk[p] = "dir"
  \/ \E p \in Undeclared : disk[p] # "absent" /\ Ancestors[p] \cap PlannedDirs # {}
  \/ \E p \in stranded : Ancestors[p] \cap PlannedDirs # {}
CauseInv ==
  /\ unresolved # {} => pc \in RollbackPCs \cup {"ended"}
  /\ cache_unresolved = TRUE => pc \in {"keep", "ended"} \cup RollbackPCs
  /\ cache_unresolved = TRUE /\ ioFault = FALSE => caches # {}
  /\ Unedited /\ ioFault = FALSE /\ unresolved # {} => Cause
  /\ manifest = "ROLLBACK_FAILED" =>
       pc = "ended" /\ (unresolved # {} \/ cache_unresolved = TRUE)

LEMMA AncestorsAreDirectories ==
  ASSUME NEW p \in Path, NEW a \in Ancestors[p]
  PROVE  a \in Path /\ Kind[a] = "directory"
  BY PathAssumption

(* A step that changes one path, to what it may be. *)
LEMMA ContentsStay ==
  ASSUME plan \in Plans, plan' = plan, DirectoryContents, disk \in [Path -> Content],
         NEW q \in Declared \cup Undeclared,
         \A p \in Path : p # q => disk'[p] = disk[p],
         Kind[q] = "directory" => disk'[q] \in {"absent", "dir"}
  PROVE  DirectoryContents'
<1>1. /\ Declared' = Declared /\ Undeclared' = Undeclared
      /\ \A p : Original(p)' = Original(p)
  BY DerivedIsFixed DEF Original, Undeclared
<1>. QED  BY <1>1 DEF DirectoryContents

LEMMA ContentsUnchanged ==
  ASSUME plan' = plan, DirectoryContents, disk' = disk
  PROVE  DirectoryContents'
<1>1. /\ Declared' = Declared /\ Undeclared' = Undeclared
      /\ \A p : Original(p)' = Original(p)
  BY DerivedIsFixed DEF Original, Undeclared
<1>. QED  BY <1>1 DEF DirectoryContents

LEMMA NextContents ==
  TypeInv /\ ListsOK /\ DirectoryContents /\ DirectoryInHand /\ [Next]_vars
    => DirectoryContents'
<1>. SUFFICES ASSUME TypeInv, ListsOK, DirectoryContents, DirectoryInHand, [Next]_vars
              PROVE  DirectoryContents'
  OBVIOUS
<1>1. /\ plan \in Plans /\ plan' = plan /\ disk \in [Path -> Content]
      /\ PlannedFiles \subseteq Declared /\ PlannedDirs \subseteq Declared
      /\ Declared \subseteq Path
      /\ \A p \in PlannedFiles : Kind[p] # "directory"
  BY PlanIsFixed, DeclaredType DEF TypeInv, TypeOK, Declared, PlannedFiles
<1>2. CASE UNCHANGED disk
  BY <1>1, <1>2, ContentsUnchanged
<1>3. CASE MakeDirectory
  <2>1. plan.steps[step] \in Path
    BY <1>1, <1>3, PlanType DEF MakeDirectory, TypeInv, TypeOK
  <2>2. PICK d \in Declared : disk' = [disk EXCEPT ![d] = "dir"]
    BY <1>1, <1>3, <2>1, NextDirectoryType DEF MakeDirectory
  <2>3. disk'[d] = "dir" /\ \A p \in Path : p # d => disk'[p] = disk[p]
    BY <1>1, <2>2
  <2>. QED  BY <1>1, <2>3, ContentsStay
<1>4. CASE (Publish \/ PublishLeavesTemporary \/ PublishLeavesPartialTarget) /\ disk' # disk
  <2>1. PICK q \in Declared : current = {q}
    BY <1>4 DEF Publish, PublishLeavesTemporary, PublishLeavesPartialTarget, ListsOK, InHand
  <2>2. /\ Kind[q] # "directory"
        /\ \E c : disk' = [disk EXCEPT ![q] = c]
    BY <1>4, <2>1
       DEF Publish, PublishLeavesTemporary, PublishLeavesPartialTarget, DirectoryInHand
  <2>3. \A p \in Path : p # q => disk'[p] = disk[p]
    BY <1>1, <2>2
  <2>. QED  BY <1>1, <2>2, <2>3, ContentsStay
<1>5. CASE RunTool
  <2>1. PICK made \in Product(stage) :
          \/ disk' = AfterProduct(made)
          \/ \E q \in Declared \cup Undeclared : \E c \in Damages(q) :
               disk' = [AfterProduct(made) EXCEPT ![q] = c]
    BY <1>5 DEF RunTool
  <2>2. made \subseteq plan.formatted
    BY DEF Product
  <2>3. /\ AfterProduct(made) \in [Path -> Content]
        /\ \A p \in Path : AfterProduct(made)[p] = disk[p] \/ p \in PlannedFiles
    BY <1>1, <2>2, FormattedKinds DEF AfterProduct, Content
  <2>4. /\ \A d \in Path : Kind[d] = "directory" => AfterProduct(made)[d] \in {"absent", "dir"}
        /\ \A p \in Path \ (Declared \cup Undeclared) : AfterProduct(made)[p] = Original(p)
    BY <1>1, <2>3 DEF DirectoryContents
  <2>5. /\ \A d \in Path : Kind[d] = "directory" => disk'[d] \in {"absent", "dir"}
        /\ \A p \in Path \ (Declared \cup Undeclared) : disk'[p] = Original(p)
    <3>1. CASE disk' = AfterProduct(made)
      BY <2>4, <3>1
    <3>2. ASSUME NEW q \in Declared \cup Undeclared, NEW c \in Damages(q),
                 disk' = [AfterProduct(made) EXCEPT ![q] = c]
          PROVE  /\ \A d \in Path : Kind[d] = "directory" => disk'[d] \in {"absent", "dir"}
                 /\ \A p \in Path \ (Declared \cup Undeclared) : disk'[p] = Original(p)
      <4>1. \A p \in Path : p # q => disk'[p] = AfterProduct(made)[p]
        BY <2>3, <3>2
      <4>2. q \in Path => disk'[q] = c
        BY <2>3, <3>2
      <4>3. Kind[q] = "directory" => c = "absent"
        BY <3>2 DEF Damages
      <4>. QED  BY <2>4, <4>1, <4>2, <4>3
    <3>. QED  BY <2>1, <3>1, <3>2
  <2>6. /\ Declared' = Declared /\ Undeclared' = Undeclared
        /\ \A p : Original(p)' = Original(p)
    BY <1>1, DerivedIsFixed DEF Original, Undeclared
  <2>. QED  BY <2>5, <2>6 DEF DirectoryContents
<1>6. CASE RestoreOriginal
  <2>1. PICK q \in OriginalsNeeded : q = modified_files[cursor]
    BY <1>6 DEF RestoreOriginal, TypeInv, TypeOK, CursorOK, ListsOK, ListKinds
  <2>2. q \in Declared /\ Kind[q] # "directory"
    BY <1>1, OriginalContents DEF OriginalsNeeded
  <2>3. \A p \in Path : p # q => disk'[p] = disk[p]
    BY <1>1, <1>6, <2>1 DEF RestoreOriginal
  <2>. QED  BY <1>1, <2>2, <2>3, ContentsStay
<1>7. CASE RemoveCreatedFile
  <2>1. PICK item \in Item : item = rollback_files[cursor]
                             /\ (~item.temp => item.path \in FilesToCreate)
    BY <1>7 DEF RemoveCreatedFile, TypeInv, TypeOK, CursorOK, ListsOK, ListKinds
  <2>2. CASE item.temp
    BY <1>2, <1>7, <2>1, <2>2 DEF RemoveCreatedFile
  <2>3. CASE ~item.temp
    <3>1. item.path \in Declared /\ Kind[item.path] # "directory"
      BY <1>1, <2>1, <2>3, OriginalContents DEF FilesToCreate
    <3>2. \A p \in Path : p # item.path => disk'[p] = disk[p]
      BY <1>1, <1>7, <2>1 DEF RemoveCreatedFile
    <3>. QED  BY <1>1, <3>1, <3>2, ContentsStay
  <2>. QED  BY <2>2, <2>3
<1>8. CASE RemoveCreatedDirectory /\ disk' # disk
  <2>1. PICK d \in PlannedDirs : d = created_directories[cursor]
    BY <1>8 DEF RemoveCreatedDirectory, TypeInv, TypeOK, CursorOK, ListsOK, ListKinds
  <2>2. disk' = [disk EXCEPT ![d] = "absent"]
    BY <1>8, <2>1 DEF RemoveCreatedDirectory
  <2>3. disk'[d] = "absent" /\ \A p \in Path : p # d => disk'[p] = disk[p]
    BY <1>1, <2>2
  <2>. QED  BY <1>1, <2>1, <2>3, ContentsStay
<1>9. ASSUME NEW q \in Path, UserEdit(q) PROVE DirectoryContents'
  <2>1. q \in PlannedFiles /\ disk' = [disk EXCEPT ![q] = "alien"]
    BY <1>9 DEF UserEdit
  <2>2. \A p \in Path : p # q => disk'[p] = disk[p]
    BY <1>1, <2>1
  <2>. QED  BY <1>1, <2>1, <2>2, ContentsStay
<1>10. CASE disk' # disk
  <2>1. ~Prepare /\ ~Manual /\ ~UNCHANGED vars
    BY <1>10 DEF Prepare, NoChange, PlanStale, BeginBackup, BackupUnavailable, CaptureEntry,
       CaptureFails, WritePrepared, Refuse, Manual, BeginManualRollback,
       ManualRollbackRefused, vars, durable
  <2>5. CASE Interrupt
    <3>1. PICK q \in Path : disk' = [disk EXCEPT ![q] = "alien"] /\ Kind[q] = "create"
                            /\ q \in Declared
      BY <1>1, <1>10, <2>5, DeclaredType
         DEF Interrupt, InterruptEnds, InterruptHandled, InterruptStrands, ListsOK, InHand
    <3>2. \A p \in Path : p # q => disk'[p] = disk[p]
      BY <1>1, <3>1
    <3>. QED  BY <1>1, <3>1, <3>2, ContentsStay
  <2>2. Apply => MakeDirectory \/ Publish \/ PublishLeavesTemporary
                   \/ PublishLeavesPartialTarget
    BY <1>10 DEF Apply, StageFile, Record, VerifyEffect, EffectFails, EffectsComplete,
       CaptureLedger, durable
  <2>3. Validate => RunTool
    BY <1>10 DEF Validate, InspectTool, CleanCaches, CompareInventory, WriteCompleted,
       CompletionFails, ReturnApplied, durable
  <2>4. Recover => RestoreOriginal \/ RemoveCreatedFile \/ RemoveCreatedDirectory
    BY <1>10 DEF Recover, HandleFailure, RetainFailure, NextLoop, Settle, durable
  <2>. QED
    BY <1>3, <1>4, <1>5, <1>6, <1>7, <1>8, <1>9, <1>10, <2>1, <2>2, <2>3, <2>4, <2>5
       DEF Next, RunStep, Environment, Ended
<1>. QED  BY <1>2, <1>10

(* Only a step of the run that is applying effects can touch what the rest   *)
(* of DirsInv is about.                                                      *)
LEMMA RootedStays ==
  ASSUME NEW d \in Path, Rooted(d), NEW q,
         \A p \in Path : p # q => disk'[p] = disk[p],
         Kind[q] = "directory" => disk'[q] = "dir"
  PROVE  Rooted(d)'
<1>1. \A a \in Ancestors[d] : a \in Path /\ Kind[a] = "directory"
  BY PathAssumption
<1>. QED  BY <1>1 DEF Rooted

LEMMA NextMadeInOrder ==
  TypeInv /\ ListsOK /\ DirsInv /\ [Next]_vars => MadeInOrder'
<1>. SUFFICES ASSUME TypeInv, ListsOK, DirsInv, [Next]_vars PROVE MadeInOrder'
  OBVIOUS
<1>1. CASE UNCHANGED created_directories
  BY <1>1 DEF DirsInv, MadeInOrder
<1>2. CASE created_directories' # created_directories
  <2>1. Record
    BY <1>2, ListsChange DEF PublishLeavesTemporary, PublishLeavesPartialTarget, lists
  <2>2. PICK q \in Declared : current = {q} /\ Listed(q)
    BY <2>1 DEF Record, ListsOK, InHand
  <2>3. /\ created_directories' = Append(created_directories, q)
        /\ q \notin Ancestors[q]
        /\ \A i \in DOMAIN created_directories : q \notin Ancestors[created_directories[i]]
    BY <1>2, <2>1, <2>2 DEF Listed, Record, DirsInv, DirectoryInHand
  <2>. DEFINE n == Len(created_directories)
  <2>4. /\ n \in Nat /\ DOMAIN created_directories = 1..n
        /\ DOMAIN created_directories' = 1..(n + 1)
        /\ \A i \in 1..n : created_directories'[i] = created_directories[i]
        /\ created_directories'[n + 1] = q
    BY <2>3, AppendProperties DEF TypeInv, TypeOK
  <2>. HIDE DEF n
  <2>5. ASSUME NEW i \in 1..(n + 1), NEW j \in 1..(n + 1), i <= j
        PROVE  created_directories'[j] \notin Ancestors[created_directories'[i]]
    <3>1. CASE j = n + 1 /\ i = n + 1
      BY <2>3, <2>4, <3>1
    <3>2. CASE j = n + 1 /\ i # n + 1
      <4>1. i \in 1..n
        BY <2>4, <3>2
      <4>. QED  BY <2>3, <2>4, <3>2, <4>1
    <3>3. CASE j # n + 1
      <4>1. i \in 1..n /\ j \in 1..n
        BY <2>4, <2>5, <3>3
      <4>. QED  BY <2>4, <2>5, <4>1 DEF DirsInv, MadeInOrder
    <3>. QED  BY <3>1, <3>2, <3>3
  <2>. QED  BY <2>4, <2>5 DEF MadeInOrder
<1>. QED  BY <1>1, <1>2

LEMMA NextRooted ==
  TypeInv /\ ListsOK /\ DirsInv /\ [Next]_vars
    => DirectoryInHand' /\ AllRooted' /\ Unstarted'
<1>. SUFFICES ASSUME TypeInv, ListsOK, DirsInv, [Next]_vars
              PROVE  DirectoryInHand' /\ AllRooted' /\ Unstarted'
  OBVIOUS
<1>0. /\ plan \in Plans /\ plan' = plan /\ disk \in [Path -> Content]
      /\ created_directories \in Seq(Path)
      /\ \A i \in DOMAIN created_directories : created_directories[i] \in Path
      /\ pc \in {"staged", "published", "verify"} => \E p \in Declared : current = {p}
      /\ pc \notin {"staged", "published", "verify"} => current = {}
      /\ \A p \in Declared : p \in Path
  BY PlanIsFixed, DeclaredType DEF TypeInv, TypeOK, ListsOK, InHand
<1>. DEFINE Early == {"planned", "backup", "apply", "staged", "published", "verify"}
<1>1. ASSUME pc' \notin Early PROVE DirectoryInHand' /\ AllRooted' /\ Unstarted'
  BY <1>1 DEF DirectoryInHand, AllRooted, Unstarted
<1>2. ASSUME UNCHANGED <<disk, created_directories>>, pc \in Early,
             pc' \notin {"staged", "published"},
             pc' \in {"planned", "backup"} => pc \in {"planned", "backup"}
      PROVE  DirectoryInHand' /\ AllRooted' /\ Unstarted'
  <2>1. \A d : Rooted(d)' <=> Rooted(d)
    BY <1>2 DEF Rooted
  <2>. QED  BY <1>2, <2>1 DEF DirectoryInHand, AllRooted, Unstarted, DirsInv
<1>3. CASE Prepare
  <2>1. /\ UNCHANGED <<disk, created_directories>> /\ pc \in {"planned", "backup"}
        /\ pc' \in {"backup", "apply", "ended"}
    BY <1>3 DEF Prepare, NoChange, PlanStale, BeginBackup, BackupUnavailable,
       CaptureEntry, CaptureFails, WritePrepared, Refuse, durable, lists
  <2>. QED  BY <1>2, <2>1
<1>4. CASE MakeDirectory
  <2>1. plan.steps[step] \in Path
    BY <1>0, <1>4, PlanType DEF MakeDirectory, TypeInv, TypeOK
  <2>2. PICK d \in Path : /\ disk' = [disk EXCEPT ![d] = "dir"] /\ current' = {d}
                          /\ disk[d] = "absent" /\ ParentsExist(d)
    BY <1>0, <1>4, <2>1, NextDirectoryType DEF MakeDirectory
  <2>3. pc = "apply" /\ pc' = "published" /\ UNCHANGED created_directories
    BY <1>4 DEF MakeDirectory, lists
  <2>4. \A i \in DOMAIN created_directories : Rooted(created_directories[i])
    BY <2>3 DEF DirsInv, AllRooted
  <2>5. disk'[d] = "dir" /\ \A p \in Path : p # d => disk'[p] = disk[p]
    BY <1>0, <2>2
  <2>6. Rooted(d) /\ d \notin Ancestors[d]
    BY <2>2 DEF ParentsExist, Rooted
  <2>7. \A p \in Path : Rooted(p) => Rooted(p)' /\ d \notin Ancestors[p]
    BY <2>2, <2>5, RootedStays DEF Rooted
  <2>8. \A i \in DOMAIN created_directories :
          Rooted(created_directories[i])' /\ d \notin Ancestors[created_directories[i]]
    BY <1>0, <2>3, <2>4, <2>7
  <2>9. AllRooted' /\ Unstarted'
    BY <2>3, <2>8 DEF AllRooted, Unstarted, Rooted
  <2>10. DirectoryInHand'
    BY <2>2, <2>3, <2>6, <2>7, <2>8 DEF DirectoryInHand
  <2>. QED  BY <2>9, <2>10
<1>5. CASE StageFile
  <2>1. /\ UNCHANGED <<disk, created_directories>> /\ pc = "apply" /\ pc' = "staged"
        /\ current' = {plan.steps[step]} /\ Kind[plan.steps[step]] # "directory"
    BY <1>5 DEF StageFile, lists
  <2>2. \A d : Rooted(d)' <=> Rooted(d)
    BY <2>1 DEF Rooted
  <2>. QED  BY <2>1, <2>2 DEF DirectoryInHand, AllRooted, Unstarted, DirsInv
<1>6. CASE Publish
  <2>1. PICK q \in Declared : current = {q}
    BY <1>0, <1>6 DEF Publish
  <2>2. /\ disk' = [disk EXCEPT ![q] = Planned(q)] /\ pc = "staged" /\ pc' = "published"
        /\ current' = {q} /\ Kind[q] # "directory" /\ UNCHANGED created_directories
    BY <1>6, <2>1 DEF Publish, DirsInv, DirectoryInHand, lists
  <2>3. \A p \in Path : p # q => disk'[p] = disk[p]
    BY <1>0, <2>2
  <2>4. \A p \in Path : Rooted(p) => Rooted(p)'
    BY <2>2, <2>3, RootedStays
  <2>5. \A i \in DOMAIN created_directories : Rooted(created_directories[i])'
    BY <1>0, <2>2, <2>4 DEF DirsInv, AllRooted
  <2>. QED  BY <2>2, <2>5 DEF DirectoryInHand, AllRooted, Unstarted, Rooted
<1>7. CASE Record
  <2>1. PICK q \in Declared : current = {q} /\ Listed(q)
    BY <1>0, <1>7 DEF Record
  <2>2. pc = "published" /\ pc' = "verify" /\ UNCHANGED disk
    BY <1>7 DEF Record, durable
  <2>3. \A d : Rooted(d)' <=> Rooted(d)
    BY <2>2 DEF Rooted
  <2>4. Range(created_directories') \subseteq Range(created_directories)
        \/ (Kind[q] = "directory"
            /\ Range(created_directories') = Range(created_directories) \cup {q})
    BY <1>0, <2>1, AppendRange DEF Listed
  <2>5. \A d \in Range(created_directories) : Rooted(d)
    BY <2>2 DEF DirsInv, AllRooted, Range
  <2>6. Kind[q] = "directory" => Rooted(q)
    BY <2>1, <2>2 DEF DirsInv, DirectoryInHand
  <2>7. \A d \in Range(created_directories') : Rooted(d)
    BY <2>4, <2>5, <2>6
  <2>8. \A i \in DOMAIN created_directories' : Rooted(created_directories'[i])
    BY <2>7 DEF Range
  <2>9. AllRooted'
    BY <2>2, <2>8 DEF AllRooted, Rooted
  <2>. QED  BY <2>2, <2>9 DEF DirectoryInHand, Unstarted
<1>8. CASE VerifyEffect
  BY <1>2, <1>8 DEF VerifyEffect, durable, lists
<1>9. CASE EffectFails \/ PublishLeavesTemporary \/ PublishLeavesPartialTarget
             \/ EffectsComplete \/ CaptureLedger \/ Validate \/ Recover \/ Manual \/ Interrupt
  <2>1. pc' \notin Early
    BY <1>9 DEF EffectFails, PublishLeavesTemporary, PublishLeavesPartialTarget,
       EffectsComplete, CaptureLedger, Fail, Validate, RunTool, InspectTool, CleanCaches,
       CompareInventory, WriteCompleted, CompletionFails, ReturnApplied, Recover,
       HandleFailure, RetainFailure, RestoreOriginal, RemoveCreatedFile,
       RemoveCreatedDirectory, NextLoop, Settle, Manual, BeginManualRollback,
       ManualRollbackRefused, Reversible, Interrupt, InterruptEnds, InterruptHandled,
       InterruptStrands
  <2>. QED  BY <1>1, <2>1
<1>10. CASE (\E q \in Path : UserEdit(q)) \/ UNCHANGED vars
  <2>1. PICK q : /\ UNCHANGED <<created_directories, pc, current>>
                 /\ \A p \in Path : p # q => disk'[p] = disk[p]
                 /\ Kind[q] = "directory" => disk'[q] = disk[q]
    <3>1. CASE UNCHANGED vars
      BY <3>1 DEF vars, durable, lists, work
    <3>2. ASSUME NEW q \in Path, UserEdit(q)
          PROVE  /\ UNCHANGED <<created_directories, pc, current>>
                 /\ \A p \in Path : p # q => disk'[p] = disk[p]
                 /\ Kind[q] = "directory" => disk'[q] = disk[q]
      BY <1>0, <3>2 DEF UserEdit, lists, work, PlannedFiles
    <3>. QED  BY <1>10, <3>1, <3>2
  <2>2. \A p \in Path : Rooted(p) => Rooted(p)'
    BY <2>1, AncestorsAreDirectories DEF Rooted
  <2>3. \A p \in current : p \in Path
    BY <1>0
  <2>4. \A i \in DOMAIN created_directories :
          Rooted(created_directories[i]) => Rooted(created_directories[i])'
    BY <1>0, <2>1, <2>2
  <2>5. AllRooted'
    BY <2>1, <2>4 DEF DirsInv, AllRooted, Rooted
  <2>6. DirectoryInHand' /\ Unstarted'
    BY <2>1, <2>2, <2>3 DEF DirsInv, DirectoryInHand, Unstarted
  <2>. QED  BY <2>5, <2>6
<1>. QED
  BY <1>3, <1>4, <1>5, <1>6, <1>7, <1>8, <1>9, <1>10
     DEF Next, RunStep, Apply, Environment, Ended

LEMMA DirsHold == Spec => []DirsInv
<1>1. Init => DirsInv
  <2>. SUFFICES ASSUME Init PROVE DirsInv
    OBVIOUS
  <2>1. DirectoryContents
    BY DEF Init, DirectoryContents, Original
  <2>. QED
    BY <2>1 DEF Init, DirsInv, MadeInOrder, DirectoryInHand, AllRooted, Unstarted
<1>2. TypeInv /\ ListsOK /\ DirsInv /\ [Next]_vars => DirsInv'
  BY NextContents, NextMadeInOrder, NextRooted DEF DirsInv
<1>. QED
  BY <1>1, <1>2, PhasesHold, PTL DEF Spec

LEMMA InitCause == Init => CauseInv
  BY DEF Init, CauseInv, RollbackPCs, Unedited

(* In a rollback a cause does not go away. *)
LEMMA CauseStays ==
  ASSUME plan' = plan, stranded' = stranded, plan \in Plans, DirectoryContents,
         NEW q \in Declared,
         disk \in [Path -> Content],
         \A p \in Path : p # q => disk'[p] = disk[p],
         q \in PlannedFiles => (disk[q] = "dir" => disk'[q] = "dir"),
         Cause
  PROVE  Cause'
<1>1. /\ PlannedFiles' = PlannedFiles /\ PlannedDirs' = PlannedDirs
      /\ Undeclared' = Undeclared /\ PlannedFiles \subseteq Path
  BY DerivedIsFixed, DeclaredType DEF Undeclared, Declared
<1>2. ASSUME NEW p \in PlannedFiles, disk[p] = "dir" PROVE disk'[p] = "dir"
  BY <1>1, <1>2
<1>3. ASSUME NEW p \in Undeclared PROVE disk'[p] = disk[p]
  BY <1>3, UndeclaredPaths
<1>. QED  BY <1>1, <1>2, <1>3 DEF Cause

LEMMA CauseUnchanged ==
  ASSUME plan' = plan, disk' = disk, stranded' = stranded
  PROVE  Cause' = Cause
<1>1. /\ PlannedFiles' = PlannedFiles /\ PlannedDirs' = PlannedDirs
      /\ Undeclared' = Undeclared
  BY DerivedIsFixed DEF Undeclared
<1>. QED  BY <1>1 DEF Cause

(* What is in a directory that cannot be removed, when rollback comes to it, *)
(* is there for a cause: what the run put into it is gone, or was given up.  *)
LEMMA PopulatedHasCause ==
  ASSUME TypeInv, ListsOK, DirsInv, Coverage, pc = "rmdir",
         cursor \in DOMAIN created_directories, unresolved = {},
         Populated(created_directories[cursor])
  PROVE  Cause
<1>. DEFINE d == created_directories[cursor]
<1>1. /\ plan \in Plans /\ d \in PlannedDirs /\ d \in Path /\ cursor \in Nat
  BY DeclaredType DEF TypeInv, TypeOK, ListsOK, ListKinds
<1>2. \A p : ~RestorePending(p) /\ ~UnlinkPending(Target(p)) /\ ~UnlinkPending(Temporary(p))
             /\ ~Left(p)
  BY DEF RestorePending, UnlinkPending, Left
<1>3. \A p \in temps : p \in stranded
  BY <1>2 DEF Coverage, PendingTemp
<1>4. PICK p \in Path : d \in Ancestors[p] /\ (disk[p] # "absent" \/ p \in stranded)
  BY <1>3 DEF Populated, TypeInv, TypeOK
<1>5. Kind[p] \in {"directory", "create", "undeclared"}
  BY <1>4, PathAssumption DEF Kinds
<1>6. CASE p \in stranded
  BY <1>1, <1>4, <1>6 DEF Cause
<1>7. CASE p \notin stranded /\ Kind[p] = "undeclared"
  BY <1>1, <1>4, <1>7 DEF Undeclared, Cause
<1>8. CASE p \notin stranded /\ Kind[p] \in {"directory", "create"}
  <2>1. Original(p) = "absent" /\ p \notin Undeclared
    BY <1>8 DEF Original, Undeclared
  <2>2. p \in Declared
    BY <1>4, <1>8, <2>1 DEF DirsInv, DirectoryContents
  <2>3. RmdirPending(p)
    BY <1>2, <1>4, <1>8, <2>1, <2>2 DEF Coverage, Pending
  <2>4. PICK i \in DOMAIN created_directories : created_directories[i] = p /\ i <= cursor
    BY <2>3 DEF RmdirPending
  <2>5. d \notin Ancestors[created_directories[i]]
    BY <2>4 DEF DirsInv, MadeInOrder
  <2>. QED  BY <1>4, <2>4, <2>5
<1>. QED  BY <1>5, <1>6, <1>7, <1>8

(* One pass of a loop: what it gives up, it gives up for a cause. *)
LEMMA LoopCause ==
  TypeInv /\ ListsOK /\ UndoInv /\ DirsInv /\ CauseInv
    /\ (RestoreOriginal \/ RemoveCreatedFile \/ RemoveCreatedDirectory)
    /\ Unedited' /\ ioFault' = FALSE /\ unresolved' # {} => Cause'
<1>. SUFFICES ASSUME TypeInv, ListsOK, UndoInv, DirsInv, CauseInv,
                     RestoreOriginal \/ RemoveCreatedFile \/ RemoveCreatedDirectory,
                     Unedited', ioFault' = FALSE, unresolved' # {}
              PROVE  Cause'
  OBVIOUS
<1>0. /\ plan \in Plans /\ plan' = plan /\ disk \in [Path -> Content] /\ pc # "ended"
      /\ Unedited /\ Coverage /\ stranded' = stranded
      /\ PlannedFiles \subseteq Path /\ PlannedFiles \subseteq Declared
  <2>1. plan \in Plans /\ plan' = plan /\ Unedited /\ stranded' = stranded
    BY PlanIsFixed, HistoryGrows, StrandedStays DEF TypeInv, TypeOK, Next, RunStep, Recover
  <2>2. pc # "ended"
    BY DEF RestoreOriginal, RemoveCreatedFile, RemoveCreatedDirectory
  <2>. QED
    BY <2>1, <2>2, DeclaredType DEF TypeInv, TypeOK, UndoInv, Active, Declared
<1>1. CASE RestoreOriginal
  <2>1. PICK q \in OriginalsNeeded : q = modified_files[cursor]
    BY <1>1 DEF RestoreOriginal, TypeInv, TypeOK, CursorOK, ListsOK, ListKinds
  <2>2. q \in PlannedFiles /\ q \in Path
    BY <1>0 DEF OriginalsNeeded, PlannedFiles
  <2>3. /\ \/ disk[q] # "dir" /\ disk' = [disk EXCEPT ![q] = "orig"] /\ UNCHANGED unresolved
           \/ disk[q] = "dir" /\ disk' = disk
        /\ ioFault = FALSE
    BY <1>1, <2>1 DEF RestoreOriginal
  <2>4. \A p \in Path : p # q => disk'[p] = disk[p]
    BY <1>0, <2>3
  <2>5. Cause
    BY <1>0, <2>2, <2>3 DEF CauseInv, Cause
  <2>. QED  BY <1>0, <2>2, <2>3, <2>4, <2>5, CauseStays DEF DirsInv
<1>2. CASE RemoveCreatedFile
  <2>1. PICK item \in Item : item = rollback_files[cursor]
                             /\ (~item.temp => item.path \in FilesToCreate)
    BY <1>2 DEF RemoveCreatedFile, TypeInv, TypeOK, CursorOK, ListsOK, ListKinds
  <2>2. /\ \/ item.temp /\ disk' = disk /\ UNCHANGED unresolved
           \/ /\ ~item.temp /\ disk[item.path] # "dir" /\ UNCHANGED unresolved
              /\ disk' = [disk EXCEPT ![item.path] = "absent"]
           \/ ~item.temp /\ disk[item.path] = "dir" /\ disk' = disk
        /\ ioFault = FALSE
    BY <1>2, <2>1 DEF RemoveCreatedFile
  <2>3. ~item.temp => item.path \in PlannedFiles /\ item.path \in Path
    BY <1>0, <2>1 DEF FilesToCreate, PlannedFiles
  <2>4. Cause
    BY <1>0, <2>2, <2>3 DEF CauseInv, Cause
  <2>5. CASE disk' = disk
    BY <1>0, <2>4, <2>5, CauseUnchanged
  <2>6. CASE disk' # disk
    <3>1. ~item.temp /\ disk[item.path] # "dir"
          /\ \A p \in Path : p # item.path => disk'[p] = disk[p]
      BY <1>0, <2>2, <2>6
    <3>. QED  BY <1>0, <2>3, <2>4, <3>1, CauseStays DEF DirsInv
  <2>. QED  BY <2>5, <2>6
<1>3. CASE RemoveCreatedDirectory
  <2>1. PICK d \in PlannedDirs : /\ d = created_directories[cursor]
                                 /\ cursor \in DOMAIN created_directories
    BY <1>3 DEF RemoveCreatedDirectory, TypeInv, TypeOK, CursorOK, ListsOK, ListKinds
  <2>2. d \in Declared /\ d \in Path /\ d \notin PlannedFiles /\ Kind[d] = "directory"
    BY <1>0, DeclaredType, PlanAssumption DEF Declared, PlannedDirs, PlannedFiles
  <2>3. /\ \/ disk' = [disk EXCEPT ![d] = "absent"] /\ UNCHANGED unresolved
           \/ (disk[d] \notin {"absent", "dir"} \/ Populated(d)) /\ disk' = disk
        /\ ioFault = FALSE /\ pc = "rmdir"
    BY <1>3, <2>1 DEF RemoveCreatedDirectory
  <2>4. disk[d] \in {"absent", "dir"}
    BY <2>2 DEF DirsInv, DirectoryContents
  <2>5. Cause
    <3>1. CASE unresolved # {}
      BY <1>0, <2>3, <3>1 DEF CauseInv
    <3>2. CASE unresolved = {}
      <4>1. Populated(d)
        BY <2>3, <2>4, <3>2
      <4>. QED  BY <1>0, <2>1, <2>3, <3>2, <4>1, PopulatedHasCause
    <3>. QED  BY <3>1, <3>2
  <2>6. \A p \in Path : p # d => disk'[p] = disk[p]
    BY <1>0, <2>3
  <2>. QED  BY <1>0, <2>2, <2>5, <2>6, CauseStays DEF DirsInv
<1>. QED  BY <1>1, <1>2, <1>3

LEMMA NextCause ==
  TypeInv /\ WriteAheadInv /\ ListsOK /\ UndoInv /\ PhaseInv /\ DirsInv /\ CauseInv
    /\ [Next]_vars => CauseInv'
<1>. SUFFICES ASSUME TypeInv, WriteAheadInv, ListsOK, UndoInv, PhaseInv, DirsInv, CauseInv,
                     [Next]_vars
              PROVE  CauseInv'
  OBVIOUS
<1>1. plan' = plan /\ (Unedited' => Unedited)
  BY PlanIsFixed, HistoryGrows
<1>2. ASSUME UNCHANGED <<undo, ioFault>>, pc \notin {"keep", "ended"} \cup RollbackPCs,
             manifest' # "ROLLBACK_FAILED"
      PROVE  CauseInv'
  <2>1. unresolved' = {} /\ ~(cache_unresolved' = TRUE)
    BY <1>2 DEF CauseInv, undo, RollbackPCs
  <2>. QED  BY <1>2, <2>1 DEF CauseInv
<1>3. CASE Prepare \/ Apply \/ Validate
  <2>1. pc \notin {"keep", "ended"} \cup RollbackPCs
    BY <1>3 DEF Prepare, NoChange, PlanStale, BeginBackup, BackupUnavailable, CaptureEntry,
       CaptureFails, WritePrepared, Apply, MakeDirectory, StageFile, Publish, Record,
       VerifyEffect, EffectFails, PublishLeavesTemporary, PublishLeavesPartialTarget,
       EffectsComplete, CaptureLedger, Validate, RunTool, InspectTool, CleanCaches,
       CompareInventory, WriteCompleted, CompletionFails, ReturnApplied, RollbackPCs
  <2>2. manifest' # "ROLLBACK_FAILED"
    BY <1>3, <2>1, ManifestChanges
       DEF PhaseInv, WritePrepared, WriteCompleted, RetainFailure, Settle, RollbackPCs
  <2>3. UNCHANGED <<undo, history>>
    BY <1>3 DEF Prepare, NoChange, PlanStale, BeginBackup, BackupUnavailable, CaptureEntry,
       CaptureFails, WritePrepared, Refuse, Apply, MakeDirectory, StageFile, Publish, Record,
       VerifyEffect, EffectFails, PublishLeavesTemporary, PublishLeavesPartialTarget,
       EffectsComplete, CaptureLedger, Fail, Validate, RunTool, InspectTool, CleanCaches,
       CompareInventory, WriteCompleted, CompletionFails, ReturnApplied
  <2>. QED  BY <1>2, <2>1, <2>2, <2>3 DEF history
<1>4. CASE HandleFailure
  <2>1. /\ pc = "failing" /\ pc' \in {"keep", "restore"} /\ UNCHANGED <<manifest, unresolved>>
    BY <1>4 DEF HandleFailure
  <2>2. unresolved' = {} /\ ~(cache_unresolved = TRUE) /\ manifest' # "ROLLBACK_FAILED"
    BY <2>1 DEF CauseInv, PhaseInv, RollbackPCs
  <2>3. cache_unresolved' = TRUE /\ ioFault' = FALSE => caches' # {}
    <3>1. CASE ledger
      BY <1>4, <3>1 DEF HandleFailure, CleanUpFirst
    <3>2. CASE ~ledger
      BY <1>4, <2>2, <3>2 DEF HandleFailure, CleanUpFirst
    <3>. QED  BY <3>1, <3>2
  <2>. QED  BY <2>1, <2>2, <2>3 DEF CauseInv, RollbackPCs
<1>5. CASE RestoreOriginal \/ RemoveCreatedFile \/ RemoveCreatedDirectory
  <2>1. /\ pc \in RollbackPCs /\ pc' = pc /\ pc # "ended"
        /\ UNCHANGED <<caches, cache_unresolved, manifest>>
    BY <1>5 DEF RestoreOriginal, RemoveCreatedFile, RemoveCreatedDirectory, RollbackPCs
  <2>2. ioFault' = FALSE => ioFault = FALSE
    BY <1>5 DEF RestoreOriginal, RemoveCreatedFile, RemoveCreatedDirectory
  <2>3. Unedited' /\ ioFault' = FALSE /\ unresolved' # {} => Cause'
    BY <1>5, LoopCause
  <2>4. manifest # "ROLLBACK_FAILED"
    BY <2>1 DEF PhaseInv
  <2>. QED  BY <2>1, <2>2, <2>3, <2>4 DEF CauseInv
<1>6. CASE NextLoop
  <2>1. /\ pc \in RollbackPCs /\ pc' \in RollbackPCs /\ pc # "ended" /\ pc' # "ended"
        /\ UNCHANGED <<disk, caches, cache_unresolved, unresolved, manifest, ioFault, stranded>>
    BY <1>6 DEF NextLoop, durable, history, RollbackPCs
  <2>2. Cause' = Cause
    BY <1>1, <2>1, CauseUnchanged
  <2>. QED  BY <1>1, <2>1, <2>2 DEF CauseInv
<1>7. CASE RetainFailure
  <2>1. /\ pc = "keep" /\ pc' = "ended" /\ manifest' # "ROLLBACK_FAILED"
        /\ UNCHANGED <<disk, caches, cache_unresolved, unresolved, ioFault, stranded>>
    BY <1>7 DEF RetainFailure, undo, history, PhaseInv
  <2>2. Cause' = Cause
    BY <1>1, <2>1, CauseUnchanged
  <2>. QED  BY <1>1, <2>1, <2>2 DEF CauseInv
<1>8. CASE Settle
  <2>1. /\ pc = "settle" /\ pc' = "ended"
        /\ UNCHANGED <<disk, caches, cache_unresolved, unresolved, ioFault, stranded>>
    BY <1>8 DEF Settle, undo, history
  <2>2. manifest' = "ROLLBACK_FAILED" => ~Restored
    BY <1>8, <2>1 DEF Settle, PhaseInv
  <2>3. ~Restored => unresolved # {} \/ cache_unresolved = TRUE
    BY DEF Restored, TypeInv, TypeOK
  <2>4. Cause' = Cause
    BY <1>1, <2>1, CauseUnchanged
  <2>. QED  BY <1>1, <2>1, <2>2, <2>3, <2>4 DEF CauseInv
<1>9. CASE Manual \/ UNCHANGED vars
  <2>1. /\ UNCHANGED <<disk, caches, cache_unresolved, unresolved, ioFault, manifest, stranded>>
        /\ pc' = pc \/ (pc = "ended" /\ pc' = "restore" /\ manifest = "COMPLETED")
    BY <1>9 DEF Manual, BeginManualRollback, ManualRollbackRefused, Reversible, vars,
                durable, undo, history
  <2>2. Cause' = Cause
    BY <1>1, <2>1, CauseUnchanged
  <2>. QED  BY <1>1, <2>1, <2>2 DEF CauseInv, RollbackPCs
<1>10. CASE Interrupt
  <2>1. UNCHANGED <<caches, manifest, cache_unresolved, unresolved, ioFault>> /\ pc # "ended"
    BY <1>10 DEF Interrupt, undo
  <2>2. CASE InterruptEnds
    <3>1. pc' = "ended" /\ UNCHANGED <<disk, stranded>>
      BY <2>2 DEF InterruptEnds
    <3>2. Cause' = Cause
      BY <1>1, <3>1, CauseUnchanged
    <3>. QED  BY <1>1, <2>1, <3>1, <3>2 DEF CauseInv
  <2>3. CASE InterruptHandled \/ InterruptStrands
    <3>1. pc' = "failing" /\ pc \notin {"keep", "ended"} \cup RollbackPCs
      BY <2>3 DEF InterruptHandled, InterruptStrands, InTry, RollbackPCs
    <3>2. unresolved' = {} /\ ~(cache_unresolved' = TRUE)
      BY <2>1, <3>1 DEF CauseInv, RollbackPCs
    <3>. QED  BY <2>1, <3>1, <3>2 DEF CauseInv
  <2>. QED  BY <1>10, <2>2, <2>3 DEF Interrupt
<1>11. ASSUME NEW q \in Path, UserEdit(q) PROVE CauseInv'
  <2>1. UNCHANGED <<caches, manifest, cache_unresolved, unresolved, ioFault, pc>>
    BY <1>11 DEF UserEdit, undo
  <2>2. ~Unedited'
    BY <1>11 DEF UserEdit, Unedited
  <2>. QED  BY <2>1, <2>2 DEF CauseInv
<1>. QED
  BY <1>3, <1>4, <1>5, <1>6, <1>7, <1>8, <1>9, <1>10, <1>11
     DEF Next, RunStep, Recover, Environment, Ended

(* A rollback fails only for a reason it cannot remove, for every plan: what *)
(* it gives up on without an I/O error is a declared file that has become a  *)
(* directory, or a directory that holds something undeclared or something an *)
(* interrupt left there.  No directory is given up because something the run *)
(* itself put there, and knows of, is still in it.                           *)
THEOREM RollbackFailuresHaveACause == Spec => []RollbackFailureHasCause
<1>1. TypeInv /\ CauseInv => RollbackFailureHasCause
  <2>. SUFFICES ASSUME TypeInv, CauseInv, manifest = "ROLLBACK_FAILED", Unedited, ~ioFault
                PROVE  Cause \/ caches # {}
    BY DEF RollbackFailureHasCause, Cause, Unedited
  <2>1. ioFault = FALSE
    BY DEF TypeInv, TypeOK
  <2>. QED  BY <2>1 DEF CauseInv
<1>. QED
  BY <1>1, InitCause, NextCause, PhasesHold, UndoInvariant, DirsHold, PTL DEF Spec

-----------------------------------------------------------------------------
(* The transaction implements the contract *)

(* Nobody edits a declared file, and no interrupt leaves something that no    *)
(* list names, or falls between the COMPLETED manifest and the answer.        *)
Quiet == Unedited /\ stranded = {} /\ "completed" \notin interruptedAt

LEMMA AllOriginalStays ==
  ASSUME plan' = plan, UNCHANGED <<disk, temps>>
  PROVE  AllOriginal' = AllOriginal
<1>1. Declared' = Declared /\ \A p : Original(p)' = Original(p)
  BY DerivedIsFixed DEF Original
<1>. QED  BY <1>1 DEF AllOriginal, OriginalBut

(* The refinement mapping, value by value. *)
LEMMA TreeValues ==
  /\ Tree \in Contract!Trees
  /\ AllOriginal => Tree = "original"
  /\ ~AllOriginal /\ AllAccepted => Tree = "accepted"
  BY DEF Tree, Contract!Trees

LEMMA VerdictValues ==
  ASSUME manifest \in Statuses
  PROVE  /\ manifest \in {"ROLLED_BACK", "FAILED"} => Verdict = "undone"
         /\ manifest \in {"CHANGES_KEPT", "ROLLBACK_FAILED"} => Verdict = "flagged"
         /\ manifest = "COMPLETED" /\ ~manual => Verdict = "applied"
         /\ manifest \in {"none", "PREPARED"} \/ (manifest = "COMPLETED" /\ manual)
              => Verdict = "open"
  BY DEF Verdict, Statuses

LEMMA TreeStays ==
  ASSUME plan' = plan, UNCHANGED <<disk, temps>>
  PROVE  Tree' = Tree
<1>1. AllOriginal' = AllOriginal
  BY AllOriginalStays
<1>2. Declared' = Declared /\ \A p : Accepted(p)' = Accepted(p)
  BY DerivedIsFixed DEF Accepted, Planned
<1>3. AllAccepted' = AllAccepted
  BY <1>2 DEF AllAccepted
<1>. QED  BY <1>1, <1>3 DEF Tree

(* A plan with effects has not been applied before it is. *)
LEMMA AcceptedIsNotOriginal ==
  ASSUME plan \in Plans, plan.steps # <<>>, AllAccepted
  PROVE  ~AllOriginal
<1>1. plan.steps \in Seq(Path)
  BY PlanType
<1>2. 1 \in DOMAIN plan.steps
  BY <1>1
<1>3. PICK p : p \in Steps
  BY <1>2 DEF Steps, Range
<1>4. p \in Declared
  BY <1>3, PlanAssumption DEF Declared, PlannedFiles, PlannedDirs, Steps
<1>. QED  BY <1>4, AcceptedIsNew DEF AllAccepted, AllOriginal, OriginalBut

LEMMA InitContract == Init => Contract!Init
<1>. SUFFICES ASSUME Init PROVE Contract!Init
  OBVIOUS
<1>1. AllOriginal
  BY DeclaredType DEF Init, AllOriginal, OriginalBut
<1>2. Verdict = "open"
  BY VerdictValues DEF Init, Statuses
<1>. QED  BY <1>1, <1>2, TreeValues DEF Contract!Init

(* What a step may do under each verdict. *)
LEMMA QuietStaysQuiet ==
  ASSUME [Next]_vars, Quiet'
  PROVE  Quiet /\ \A p \in Path : ~UserEdit(p)
<1>1. Unedited
  BY HistoryGrows DEF Quiet
<1>2. "completed" \notin interruptedAt /\ stranded = {}
  BY HistoryStays DEF Quiet
<1>3. edited' = {}
  BY DEF Quiet, Unedited
<1>. QED  BY <1>1, <1>2, <1>3 DEF Quiet, UserEdit

LEMMA FinalVerdictStep ==
  ASSUME TypeInv, PhaseInv, UndoInv, [Next]_vars, Quiet',
         manifest \in {"ROLLED_BACK", "FAILED", "CHANGES_KEPT", "ROLLBACK_FAILED"}
  PROVE  UNCHANGED <<Tree, Verdict>>
<1>1. pc = "ended"
  BY DEF PhaseInv, UndoInv
<1>2. ~Manual /\ ~ReturnApplied /\ ~Interrupt
  BY <1>1 DEF Manual, BeginManualRollback, ManualRollbackRefused, Reversible,
              ReturnApplied, Interrupt
<1>3. UNCHANGED vars
  BY <1>1, <1>2, AfterCompletion, QuietStaysQuiet
<1>4. UNCHANGED <<plan, disk, temps, manifest, manual>>
  BY <1>3 DEF vars, durable, work, undo
<1>5. Verdict' = Verdict
  BY <1>4 DEF Verdict
<1>. QED  BY <1>4, <1>5, TreeStays

LEMMA AppliedVerdictStep ==
  ASSUME TypeInv, FinishedInv, [Next]_vars, Quiet', manifest = "COMPLETED", ~manual
  PROVE  UNCHANGED <<Tree, Verdict>> \/ Contract!Reopen
<1>1. pc \in {"completed", "ended"}
  BY QuietStaysQuiet DEF FinishedInv, Finished, Quiet
<1>2. ~Interrupt
  BY <1>1 DEF Interrupt, Quiet
<1>3. CASE ReturnApplied \/ ManualRollbackRefused \/ UNCHANGED vars
  <2>1. UNCHANGED <<plan, disk, temps, manifest, manual>>
    BY <1>3 DEF ReturnApplied, ManualRollbackRefused, vars, durable, work, undo
  <2>2. Verdict' = Verdict
    BY <2>1 DEF Verdict
  <2>. QED  BY <2>1, <2>2, TreeStays
<1>4. CASE BeginManualRollback
  <2>1. UNCHANGED <<plan, disk, temps, manifest>> /\ manual'
    BY <1>4 DEF BeginManualRollback, durable, work
  <2>2. Verdict = "applied"
    BY VerdictValues DEF TypeInv, TypeOK
  <2>3. Verdict' = "open"
    BY <2>1 DEF Verdict
  <2>. QED  BY <2>1, <2>2, <2>3, TreeStays DEF Contract!Reopen
<1>. QED  BY <1>1, <1>2, <1>3, <1>4, AfterCompletion, QuietStaysQuiet DEF Manual

LEMMA OpenVerdictStep ==
  ASSUME TypeInv, TypeInv', ListsOK, PhaseInv, TempsInv, StageInv, UndoInv, [Next]_vars,
         Quiet', manifest \in {"none", "PREPARED"} \/ (manifest = "COMPLETED" /\ manual)
  PROVE  Contract!Next
<1>1. /\ manifest \in Statuses /\ manifest' \in Statuses /\ plan \in Plans
      /\ manual \in BOOLEAN /\ manual' \in BOOLEAN /\ plan' = plan
  BY PlanIsFixed DEF TypeInv, TypeOK
<1>2. Verdict = "open"
  BY <1>1, VerdictValues
<1>3. CASE manifest' \in {"ROLLED_BACK", "FAILED"}
  <2>1. RetainFailure \/ Settle
    BY <1>3, VerdictOfNoEffect
  <2>2. UNCHANGED <<disk, temps>>
    BY <2>1 DEF RetainFailure, Settle
  <2>3. AllOriginal'
    BY <1>3, VerdictHolds DEF Quiet, AllOriginal, OriginalBut
  <2>4. AllOriginal
    BY <1>1, <2>2, <2>3, AllOriginalStays
  <2>5. Verdict' = "undone"
    BY <1>3 DEF Verdict
  <2>6. Tree = "original" /\ Tree' = Tree
    BY <1>1, <2>2, <2>4, TreeValues, TreeStays
  <2>. QED  BY <1>2, <2>5, <2>6 DEF Contract!Next, Contract!Undo
<1>4. CASE manifest' \in {"CHANGES_KEPT", "ROLLBACK_FAILED"}
  <2>1. RetainFailure \/ Settle
    BY <1>4, ManifestChanges DEF WritePrepared, WriteCompleted
  <2>2. UNCHANGED <<disk, temps>>
    BY <2>1 DEF RetainFailure, Settle
  <2>3. Verdict' = "flagged"
    BY <1>4 DEF Verdict
  <2>4. Tree' = Tree
    BY <1>1, <2>2, TreeStays
  <2>. QED  BY <1>2, <2>3, <2>4 DEF Contract!Next, Contract!Surrender
<1>5. CASE manifest' = "COMPLETED" /\ ~manual'
  <2>1. manifest # "COMPLETED"
    BY <1>5, HistoryStays DEF BeginManualRollback
  <2>2. WriteCompleted
    BY <1>5, <2>1, ManifestChanges DEF WritePrepared, RetainFailure, Settle
  <2>3. UNCHANGED <<disk, temps>> /\ pc = "complete"
    BY <2>2 DEF WriteCompleted
  <2>4. edited = {}
    BY QuietStaysQuiet DEF Quiet, Unedited
  <2>5. temps' = {} /\ \A p \in Declared : disk'[p] \in Accepted(p)
    BY <2>2, <2>4, WriteFinished
  <2>6. AllAccepted
    BY <2>3, <2>5 DEF AllAccepted
  <2>7. plan.steps # <<>>
    BY <2>3 DEF PhaseInv, Working
  <2>8. ~AllOriginal
    BY <1>1, <2>6, <2>7, AcceptedIsNotOriginal
  <2>9. Tree = "accepted" /\ Tree' = Tree
    BY <1>1, <2>3, <2>6, <2>8, TreeValues, TreeStays
  <2>10. Verdict' = "applied"
    BY <1>5 DEF Verdict
  <2>. QED  BY <1>2, <2>9, <2>10 DEF Contract!Next, Contract!Commit
<1>6. CASE manifest' \in {"none", "PREPARED"} \/ (manifest' = "COMPLETED" /\ manual')
  <2>1. Verdict' = "open"
    BY <1>6 DEF Verdict
  <2>2. Tree' \in Contract!Trees
    BY DEF Tree, Contract!Trees
  <2>. QED  BY <1>2, <2>1, <2>2 DEF Contract!Next, Contract!Work
<1>. QED  BY <1>1, <1>3, <1>4, <1>5, <1>6 DEF Statuses

LEMMA NextContract ==
  TypeInv /\ TypeInv' /\ ListsOK /\ PhaseInv /\ TempsInv /\ StageInv /\ FinishedInv
    /\ UndoInv /\ [Next]_vars /\ Quiet'
    => [Contract!Next]_<<Tree, Verdict>>
<1>. SUFFICES ASSUME TypeInv, TypeInv', ListsOK, PhaseInv, TempsInv, StageInv,
                     FinishedInv, UndoInv, [Next]_vars, Quiet'
              PROVE  [Contract!Next]_<<Tree, Verdict>>
  OBVIOUS
<1>1. manifest \in Statuses
  BY DEF TypeInv, TypeOK
<1>2. CASE manifest \in {"ROLLED_BACK", "FAILED", "CHANGES_KEPT", "ROLLBACK_FAILED"}
  BY <1>2, FinalVerdictStep
<1>3. CASE manifest = "COMPLETED" /\ ~manual
  BY <1>3, AppliedVerdictStep DEF Contract!Next
<1>4. CASE manifest \in {"none", "PREPARED"} \/ (manifest = "COMPLETED" /\ manual)
  BY <1>4, OpenVerdictStep
<1>. QED  BY <1>1, <1>2, <1>3, <1>4 DEF Statuses

(* A reader of the manifest may rely on PatchContract: as long as nobody      *)
(* edits a declared file, no interrupt leaves something that no list names,   *)
(* and none falls on the manifest that was just completed, every step of the  *)
(* transaction is a step of the contract or changes nothing it speaks of, for *)
(* every plan, every failure and every other interrupt.                       *)
THEOREM TransactionKeepsContract == Spec /\ []Quiet => KeepsContract
<1>1. TypeInv /\ TypeInv' /\ ListsOK /\ PhaseInv /\ TempsInv /\ StageInv /\ FinishedInv
        /\ UndoInv /\ [Next]_vars /\ Quiet'
      => [Contract!Next]_<<Tree, Verdict>>
  BY NextContract
<1>. QED
  BY <1>1, InitContract, PhasesHold, StagesHold, UndoInvariant, PTL
     DEF Spec, KeepsContract, Contract!Spec
=============================================================================
