---------------------------- MODULE Transaction ----------------------------
(***************************************************************************)
(* One patch transaction of PatchShuttle, as runner._execute_locked runs   *)
(* it while it holds the workspace lock: revalidate the plan, retain the   *)
(* originals, write the PREPARED manifest, apply every planned effect,     *)
(* lint, check, format and check again, then write COMPLETED; on any       *)
(* exception roll the recorded effects back or retain them.  A completed   *)
(* transaction may later be rolled back by hand.                           *)
(*                                                                         *)
(* Every state is one in which the process may be killed: what the disk,   *)
(* the retained originals and the manifest say there is what is left.      *)
(* File contents are abstracted to what the code tells apart: the planned  *)
(* original, the planned result, a formatter's output, anything else.      *)
(***************************************************************************)
EXTENDS Naturals, Sequences, FiniteSets, Functions

CONSTANTS
  Path,           \* the workspace paths of the instance
  Kind,           \* what the plan does with each: see Kinds
  Ancestors,      \* the directories of Path above each path
  Existing,       \* the undeclared paths that exist before the run
  Ignored,        \* the undeclared paths the inventory does not look at
  Plans,          \* the approved plans: see Plan
  MaxEdits,       \* bound: how many paths a user edits during a behaviour
  MaxInterrupts   \* bound: how many KeyboardInterrupts hit the process

Kinds == {"directory", "create", "modify", "delete", "undeclared"}

Plan == [steps     : Seq(Path),     \* effects, in the order actions name them
         dirs      : Seq(Path),     \* plan.directories_to_create
         formatted : SUBSET Path,   \* plan.formatter_run_paths
         lint      : BOOLEAN,       \* plan.html_lint_targets is not empty
         rerun     : BOOLEAN,       \* formatting.rerun_checks
         retain    : BOOLEAN]       \* --keep-changes, or not plan.auto_rollback

ASSUME PathAssumption ==
  /\ IsFiniteSet(Path)
  /\ Kind \in [Path -> Kinds]
  /\ Ancestors \in [Path -> SUBSET Path]
  /\ \A p \in Path : \A d \in Ancestors[p] : Kind[d] = "directory"
  /\ \A p \in Path : Kind[p] \in {"modify", "delete"} => Ancestors[p] = {}
  /\ Existing \subseteq Path /\ Ignored \subseteq Path
  /\ MaxEdits \in Nat /\ MaxInterrupts \in Nat

(* What planning guarantees of a plan: every declared path is named once, a *)
(* directory before what is put into it; every directory it creates is one  *)
(* that some step needs; formatters run only on files that exist afterwards.*)
ASSUME PlanAssumption ==
  /\ Plans \subseteq Plan
  /\ \A p \in Plans :
       /\ IsInjective(p.steps) /\ IsInjective(p.dirs)
       /\ \A q \in Range(p.steps) : Kind[q] # "undeclared"
       /\ \A i, j \in DOMAIN p.steps :
            i < j => p.steps[j] \notin Ancestors[p.steps[i]]
       /\ \A d \in Range(p.dirs) : Kind[d] = "directory"
       /\ \A q \in Range(p.steps) : Kind[q] = "directory" => q \in Range(p.dirs)
       /\ \A d \in Range(p.dirs) : \E q \in Range(p.steps) :
            Kind[q] \in {"directory", "create"} /\ (d = q \/ d \in Ancestors[q])
       /\ \A q \in p.formatted : q \in Range(p.steps) /\ Kind[q] \in {"create", "modify"}

Content == {"absent", "dir", "orig", "new", "fmt", "alien"}
Statuses == {"none", "PREPARED", "COMPLETED", "ROLLED_BACK", "FAILED",
             "CHANGES_KEPT", "ROLLBACK_FAILED"}
Stages == {"lint", "checks", "format", "final"}
PCs == {"planned", "backup", "apply", "staged", "published", "verify", "ledger",
        "run", "inspect", "clean", "compare", "complete", "completed", "failing",
        "restore", "unlink", "rmdir", "settle", "keep", "ended"}
RollbackPCs == {"restore", "unlink", "rmdir", "settle"}

(* The content of a path before the transaction. *)
Original(p) ==
  IF Kind[p] \in {"modify", "delete"} \/ (Kind[p] = "undeclared" /\ p \in Existing)
  THEN "orig" ELSE "absent"

VARIABLES
  \* what survives the process
  disk,                 \* content of every path
  temps,                \* paths whose .patchshuttle-*.tmp sibling exists
  caches,               \* new __pycache__ entries: "pyc" and others, "foreign"
  manifest,             \* status in the manifest of the run's backup directory
  copies,               \* paths whose original is retained in the backup
  applied,              \* applied_states recorded with COMPLETED
  \* the run
  plan, pc, stage,
  step,                 \* index into plan.steps
  current,              \* the path in hand: {} or {path}
  modified_files, rollback_files, created_directories,
  ledger,               \* a runtime cache ledger was captured
  formatted_files,      \* contents captured after the formatters ran
  cursor,               \* rollback works down from this index
  cache_unresolved,     \* the handler could not clean the runtime caches
  unresolved,           \* paths rollback could not restore
  manual,               \* a manual rollback of the completed run has begun
  outcome,              \* what the caller is told
  \* history
  edited,               \* paths the user changed since planning
  protected,            \* edits made while the run had no claim on the path
  interruptedAt,        \* where KeyboardInterrupts hit
  stranded,             \* paths where an interrupt left what no list names
  ioFault               \* an I/O error hit a rollback operation

durable == <<disk, temps, caches, manifest, copies, applied>>
lists == <<modified_files, rollback_files, created_directories>>
work == <<plan, stage, step, current, ledger, formatted_files>>
undo == <<cursor, cache_unresolved, unresolved, manual>>
history == <<edited, protected, interruptedAt, stranded, ioFault>>
vars == <<durable, lists, work, undo, history, pc, outcome>>

-----------------------------------------------------------------------------
(* Derived from the plan *)

Steps == Range(plan.steps)
PlannedDirs == Range(plan.dirs)
PlannedFiles == {p \in Steps : Kind[p] # "directory"}
Declared == PlannedFiles \cup PlannedDirs
FilesToCreate == {p \in Steps : Kind[p] = "create"}
(* Mutant: the source of a move is not thought of as an original. *)
MutOriginalsNeeded == {p \in Steps : Kind[p] = "modify"}

OriginalsNeeded == {p \in Steps : Kind[p] \in {"modify", "delete"}}
Undeclared == {p \in Path : Kind[p] = "undeclared"}

(* The planned content of a declared path. *)
Planned(p) ==
  CASE Kind[p] = "directory" -> "dir"
    [] Kind[p] = "delete"    -> "absent"
    [] OTHER                 -> "new"

(* The content the run may leave in a declared path when it succeeds. *)
Accepted(p) == {Planned(p)} \cup (IF p \in plan.formatted THEN {"fmt"} ELSE {})

Target(p) == [path |-> p, temp |-> FALSE]
Temporary(p) == [path |-> p, temp |-> TRUE]
CreatedFiles == {p \in Path : Target(p) \in Range(rollback_files)}

(* A directory cannot be removed while anything is left in it. *)
Populated(d) ==
  \/ \E p \in Path : d \in Ancestors[p] /\ disk[p] # "absent"
  \/ \E p \in temps : d \in Ancestors[p]
ParentsExist(p) == \A d \in Ancestors[p] : disk[d] = "dir"

Result(status, rollback, kept) ==
  [status |-> status, rollback |-> rollback, kept |-> kept]

Init ==
  /\ plan \in Plans
  /\ disk = [p \in Path |-> Original(p)]
  /\ temps = {} /\ caches = {} /\ copies = {}
  /\ manifest = "none"
  /\ applied = [p \in Path |-> "absent"]
  /\ pc = "planned" /\ stage = "lint" /\ step = 1 /\ current = {}
  /\ modified_files = <<>> /\ rollback_files = <<>> /\ created_directories = <<>>
  /\ ledger = FALSE /\ formatted_files = [p \in Path |-> "absent"]
  /\ cursor = 0 /\ cache_unresolved = FALSE /\ unresolved = {} /\ manual = FALSE
  /\ outcome = Result("none", "none", FALSE)
  /\ edited = {} /\ protected = {} /\ interruptedAt = {} /\ stranded = {}
  /\ ioFault = FALSE

-----------------------------------------------------------------------------
(* Before the backup is prepared: an error here leaves the try block unentered *)

Refuse ==
  /\ pc' = "ended"
  /\ outcome' = Result("ERROR", "none", FALSE)
  /\ UNCHANGED <<durable, lists, work, undo, history>>

(* A valid plan without effects returns before a backup exists. *)
NoChange ==
  /\ pc = "planned"
  /\ plan.steps = <<>>
  /\ pc' = "ended"
  /\ outcome' = Result("NO_CHANGE", "none", FALSE)
  /\ UNCHANGED <<durable, lists, work, undo, history>>

(* Replanning under the lock differs from the approved plan exactly when a  *)
(* declared path no longer has its planned original.                        *)
PlanStale ==
  /\ pc = "planned"
  /\ \E p \in Declared : disk[p] # Original(p)
  /\ Refuse

(* The baseline inventory is captured and the run directory made. *)
BeginBackup ==
  /\ pc = "planned"
  /\ plan.steps # <<>>
  /\ \A p \in Declared : disk[p] = Original(p)
  /\ pc' = "backup"
  /\ UNCHANGED <<durable, lists, work, undo, history, outcome>>

(* A file the plan only reads has changed, or the baseline inventory or the *)
(* run directory fails.                                                     *)
BackupUnavailable == pc = "planned" /\ Refuse

(* One entry: an original is copied if it still has its planned hash. *)
CaptureEntry ==
  /\ pc = "backup"
  /\ step <= Len(plan.steps)
  /\ LET p == plan.steps[step] IN
       /\ p \in OriginalsNeeded => disk[p] = "orig"
       /\ copies' = IF p \in OriginalsNeeded THEN copies \cup {p} ELSE copies
  /\ step' = step + 1
  /\ UNCHANGED <<disk, temps, caches, manifest, applied, lists, undo, history,
                 plan, stage, current, ledger, formatted_files, pc, outcome>>

(* PLAN_STALE, BACKUP_FAILED, or a manifest that cannot be written: the run *)
(* directory and the copies already in it stay behind.                      *)
CaptureFails ==
  /\ pc = "backup"
  /\ Refuse

WritePrepared ==
  /\ pc = "backup"
  /\ step > Len(plan.steps)
  /\ manifest' = "PREPARED"
  /\ pc' = "apply"
  /\ step' = 1
  /\ UNCHANGED <<disk, temps, caches, copies, applied, lists, undo, history,
                 plan, stage, current, ledger, formatted_files, outcome>>

-----------------------------------------------------------------------------
(* Inside the try block: an exception enters the handler at "failing" *)

Fail ==
  /\ pc' = "failing"
  /\ current' = {}
  /\ UNCHANGED <<undo, history, plan, stage, step, ledger, formatted_files,
                 outcome>>

(* _create_required_directories: the first planned directory, in plan order, *)
(* that the step needs and this run has not created.                         *)
Required(p) ==
  {i \in DOMAIN plan.dirs :
     /\ plan.dirs[i] \notin Range(created_directories)
     /\ plan.dirs[i] = p \/ plan.dirs[i] \in Ancestors[p]}
NeedsDirectory(p) == Kind[p] \in {"directory", "create"} /\ Required(p) # {}
NextDirectories(p) ==
  {plan.dirs[i] : i \in {k \in Required(p) : \A j \in Required(p) : k <= j}}

MakeDirectory ==
  /\ pc = "apply"
  /\ step <= Len(plan.steps)
  /\ NeedsDirectory(plan.steps[step])
  /\ \E d \in NextDirectories(plan.steps[step]) :
       /\ disk[d] = "absent" /\ ParentsExist(d)
       /\ disk' = [disk EXCEPT ![d] = "dir"]
       /\ current' = {d}
  /\ pc' = "published"
  /\ UNCHANGED <<temps, caches, manifest, copies, applied, lists, undo, history,
                 plan, stage, step, ledger, formatted_files, outcome>>

(* Content goes to a temporary sibling; a modified or deleted file is hashed *)
(* once more just before it is replaced or unlinked (before_publish), a      *)
(* created one must be missing.                                              *)
StageFile ==
  /\ pc = "apply"
  /\ step <= Len(plan.steps)
  /\ Kind[plan.steps[step]] # "directory"
  /\ ~NeedsDirectory(plan.steps[step])
  /\ LET p == plan.steps[step] IN
       /\ disk[p] = Original(p)
       /\ ParentsExist(p)
       /\ temps' = IF Kind[p] = "delete" THEN temps ELSE temps \cup {p}
       /\ current' = {p}
  /\ pc' = "staged"
  /\ UNCHANGED <<disk, caches, manifest, copies, applied, lists, undo, history,
                 plan, stage, step, ledger, formatted_files, outcome>>

(* Mutant: created files are published with os.replace as well. *)
MutPublishable(p) == p \in Path

(* os.replace, unlink or link: only link fails when somebody else created   *)
(* the target since it was last looked at.                                  *)
Publishable(p) == Kind[p] = "create" => disk[p] = "absent"

Publish ==
  /\ pc = "staged"
  /\ \E p \in current :
       /\ Publishable(p)
       /\ disk' = [disk EXCEPT ![p] = Planned(p)]
       /\ temps' = temps \ {p}
  /\ pc' = "published"
  /\ UNCHANGED <<caches, manifest, copies, applied, lists, undo, history,
                 plan, stage, step, current, ledger, formatted_files, outcome>>

(* The effect succeeded: it enters the lists rollback works from. *)
Listed(p) ==
  /\ modified_files' = IF Kind[p] \in {"modify", "delete"}
                       THEN Append(modified_files, p) ELSE modified_files
  /\ rollback_files' = IF Kind[p] = "create"
                       THEN Append(rollback_files, Target(p)) ELSE rollback_files
  /\ created_directories' = IF Kind[p] = "directory"
                            THEN Append(created_directories, p)
                            ELSE created_directories

Record ==
  /\ pc = "published"
  /\ \E p \in current : Listed(p)
  /\ pc' = "verify"
  /\ UNCHANGED <<durable, work, undo, history, outcome>>

(* verify_created_file and its siblings; the loop goes on to the next effect. *)
VerifyEffect ==
  /\ pc = "verify"
  /\ \E p \in current :
       /\ disk[p] = Planned(p)
       /\ step' = IF p = plan.steps[step] THEN step + 1 ELSE step
  /\ pc' = "apply"
  /\ current' = {}
  /\ UNCHANGED <<durable, lists, undo, history, plan, stage, ledger,
                 formatted_files, outcome>>

(* The effect is refused or fails before it is published, leaving nothing:  *)
(* also a chmod or a verification that fails after it was recorded.         *)
EffectFails ==
  /\ \/ pc = "apply" /\ step <= Len(plan.steps)
     \/ pc = "staged"
     \/ pc = "verify"
  /\ temps' = temps \ current
  /\ Fail
  /\ UNCHANGED <<disk, caches, manifest, copies, applied, lists>>

(* FilePublishError and FileReplaceError: the temporary sibling cannot be   *)
(* removed, and the caller is told whether the target was published.        *)
PublishLeavesTemporary ==
  /\ pc = "staged"
  /\ \E p \in current :
       /\ p \in temps
       /\ \/ /\ UNCHANGED disk
             /\ UNCHANGED <<modified_files, created_directories>>
             /\ rollback_files' = Append(rollback_files, Temporary(p))
          \/ /\ Kind[p] = "create" /\ Publishable(p)
             /\ \E c \in {"new", "alien"} : disk' = [disk EXCEPT ![p] = c]
             /\ rollback_files' =
                  Append(Append(rollback_files, Target(p)), Temporary(p))
             /\ UNCHANGED <<modified_files, created_directories>>
  /\ Fail
  /\ UNCHANGED <<temps, caches, manifest, copies, applied>>

(* _exclusive_copy: without hard links the target is written in place; a    *)
(* partial target that cannot be removed is reported as created.            *)
PublishLeavesPartialTarget ==
  /\ pc = "staged"
  /\ \E p \in current :
       /\ Kind[p] = "create" /\ Publishable(p)
       /\ disk' = [disk EXCEPT ![p] = "alien"]
       /\ rollback_files' = Append(rollback_files, Target(p))
       /\ temps' = temps \ {p}
  /\ Fail
  /\ UNCHANGED <<caches, manifest, copies, applied, modified_files,
                 created_directories>>

(* All effects are applied: what was recorded must be what was planned. *)
AllRecorded ==
  /\ Range(created_directories) = PlannedDirs
  /\ CreatedFiles = FilesToCreate
  /\ Range(modified_files) = OriginalsNeeded

EffectsComplete ==
  /\ pc = "apply"
  /\ step > Len(plan.steps)
  /\ IF AllRecorded
     THEN /\ pc' = "ledger"
          /\ UNCHANGED <<work, undo, history, outcome>>
     ELSE Fail
  /\ UNCHANGED <<durable, lists>>

(* Entries found in __pycache__ directories before any tool runs. *)
CaptureLedger ==
  /\ pc = "ledger"
  /\ \/ /\ ledger' = TRUE
        /\ pc' = "run"
        /\ stage' = IF plan.lint THEN "lint" ELSE "checks"
        /\ UNCHANGED <<plan, step, current, formatted_files, undo, history,
                       outcome>>
     \/ Fail
  /\ UNCHANGED <<durable, lists>>

-----------------------------------------------------------------------------
(* External tools: linter, checks and formatters run on the live workspace *)

(* What a tool may leave at a path besides its product: nothing more than a *)
(* file system allows.  (Whatever a formatter writes to its target is its   *)
(* product.)                                                                *)
Damages(p) ==
  {c \in {"absent", "alien", "dir"} :
     /\ c # disk[p]
     /\ c # "absent" => ParentsExist(p)
     /\ Kind[p] = "directory" => c = "absent" /\ ~Populated(p)
     /\ stage = "format" /\ p \in plan.formatted => c # "alien"}

Product(s) == IF s = "format" THEN {{}, plan.formatted} ELSE {{}}
AfterProduct(made) ==
  [p \in Path |-> IF p \in made /\ disk[p] = "new" THEN "fmt" ELSE disk[p]]

RunTool ==
  /\ pc = "run"
  /\ \E made \in Product(stage), new \in SUBSET {"pyc", "foreign"} :
       /\ caches' = caches \cup new
       /\ \/ disk' = AfterProduct(made)
          \/ \E p \in Declared \cup Undeclared : \E c \in Damages(p) :
               disk' = [AfterProduct(made) EXCEPT ![p] = c]
  /\ \/ pc' = "inspect" /\ UNCHANGED <<work, undo, history, outcome>>
     \/ Fail                        \* a non-zero exit, a timeout, no launch
  /\ UNCHANGED <<temps, manifest, copies, applied, lists>>

(* Mutant: formatter targets are never verified. *)
MutIntact(s) ==
  s \in Stages /\ \A p \in PlannedFiles \ plan.formatted : disk[p] = Planned(p)

(* Which declared files the verification after a stage accepts: formatter   *)
(* output is any file, and must stay what it was during the final checks.   *)
Intact(s) ==
  \A p \in PlannedFiles :
    CASE s = "format" /\ p \in plan.formatted -> disk[p] \notin {"absent", "dir"}
      [] s = "final" /\ p \in plan.formatted  -> disk[p] = formatted_files[p]
      [] OTHER                                -> disk[p] = Planned(p)

AfterStage ==
  CASE stage = "lint" -> "checks"
    [] stage = "checks" /\ plan.formatted # {} -> "format"
    [] stage = "format" /\ plan.rerun -> "final"
    [] OTHER -> "done"

InspectTool ==
  /\ pc = "inspect"
  /\ IF Intact(stage)
     THEN /\ IF AfterStage = "done"
             THEN pc' = "clean" /\ UNCHANGED stage
             ELSE pc' = "run" /\ stage' = AfterStage
          /\ formatted_files' = IF stage = "format" THEN disk ELSE formatted_files
          /\ UNCHANGED <<plan, step, current, ledger, undo, history, outcome>>
     ELSE Fail
  /\ UNCHANGED <<durable, lists>>

(* cleanup_runtime_caches removes new .pyc files and nothing else; an I/O   *)
(* error leaves what it hits, and counts as unresolved even if nothing is   *)
(* there.                                                                   *)
Cleaned(fault) == IF fault THEN caches ELSE caches \ {"pyc"}

CleanCaches ==
  /\ pc = "clean"
  /\ \E fault \in BOOLEAN :
       /\ caches' = Cleaned(fault)
       /\ IF caches' = {} /\ ~fault
          THEN pc' = "compare" /\ UNCHANGED <<work, undo, history, outcome>>
          ELSE Fail
  /\ UNCHANGED <<disk, temps, manifest, copies, applied, lists>>

(* The inventory sees every path that local policy does not ignore, and a   *)
(* difference at an undeclared one is unexpected.                           *)
Unexpected == {p \in Undeclared \ Ignored : disk[p] # Original(p)}

CompareInventory ==
  /\ pc = "compare"
  /\ IF Unexpected = {}
     THEN pc' = "complete" /\ UNCHANGED <<work, undo, history, outcome>>
     ELSE Fail
  /\ UNCHANGED <<durable, lists>>

(* _capture_applied_states accepts any file at a file entry. *)
Capturable ==
  \A p \in Declared :
    CASE Kind[p] = "delete"    -> disk[p] = "absent"
      [] Kind[p] = "directory" -> disk[p] = "dir"
      [] OTHER                 -> disk[p] \notin {"absent", "dir"}

WriteCompleted ==
  /\ pc = "complete"
  /\ Capturable
  /\ manifest' = "COMPLETED"
  /\ applied' = disk
  /\ pc' = "completed"
  /\ UNCHANGED <<disk, temps, caches, copies, lists, work, undo, history, outcome>>

CompletionFails ==
  /\ pc \in {"compare", "complete"}
  /\ Fail
  /\ UNCHANGED <<durable, lists>>

ReturnApplied ==
  /\ pc = "completed"
  /\ pc' = "ended"
  /\ outcome' = Result("APPLIED", "none", FALSE)
  /\ UNCHANGED <<durable, lists, work, undo, history>>

-----------------------------------------------------------------------------
(* The handler: clean caches, then roll back or retain *)

CleanUpFirst ==
  IF ledger
  THEN \E fault \in BOOLEAN :
         /\ caches' = Cleaned(fault)
         /\ cache_unresolved' = (fault \/ caches' # {})
         /\ ioFault' = (ioFault \/ fault)
  ELSE UNCHANGED <<caches, cache_unresolved, ioFault>>

HandleFailure ==
  /\ pc = "failing"
  /\ CleanUpFirst
  /\ IF plan.retain
     THEN pc' = "keep" /\ UNCHANGED cursor
     ELSE pc' = "restore" /\ cursor' = Len(modified_files)
  /\ UNCHANGED <<disk, temps, manifest, copies, applied, lists, work, unresolved,
                 manual, edited, protected, interruptedAt, stranded, outcome>>

(* Mutant: after recording a retained failure the handler still rolls back. *)
MutRetainFailure ==
  /\ pc = "keep"
  /\ manifest' = IF rollback_files \o modified_files # <<>> THEN "CHANGES_KEPT" ELSE "FAILED"
  /\ pc' = "restore"
  /\ cursor' = Len(modified_files)
  /\ UNCHANGED <<disk, temps, caches, copies, applied, lists, work, cache_unresolved,
                 unresolved, manual, history, outcome>>

(* _record_retained_failure: the status says whether anything was recorded. *)
RetainFailure ==
  /\ pc = "keep"
  /\ LET present == rollback_files # <<>> \/ created_directories # <<>>
                      \/ modified_files # <<>>
     IN /\ \/ manifest' = IF present THEN "CHANGES_KEPT" ELSE "FAILED"
           \/ UNCHANGED manifest               \* the manifest write fails
        /\ outcome' = Result("ERROR", "skipped", present)
  /\ pc' = "ended"
  /\ UNCHANGED <<disk, temps, caches, copies, applied, lists, work, undo, history>>

(* One pass of a rollback loop: the path is dealt with, or left unresolved. *)
Unresolve(p) == unresolved' = unresolved \cup {p}

RestoreOriginal ==
  /\ pc = "restore" /\ cursor > 0
  /\ LET p == modified_files[cursor]
         restored == [disk EXCEPT ![p] = "orig"]
     IN \/ /\ disk[p] # "dir"
           /\ disk' = restored
           /\ UNCHANGED <<temps, unresolved, ioFault>>
        \/ /\ disk[p] = "dir"
           /\ Unresolve(p)
           /\ UNCHANGED <<disk, temps, ioFault>>
        \/ /\ disk[p] # "dir"               \* an I/O error, before or after
           /\ disk' \in {disk, restored}     \* the replacement
           /\ temps' \in {temps, temps \cup {p}}
           /\ Unresolve(p)
           /\ ioFault' = TRUE
  /\ cursor' = cursor - 1
  /\ UNCHANGED <<caches, manifest, copies, applied, lists, work, cache_unresolved,
                 manual, pc, edited, protected, interruptedAt, stranded, outcome>>

RemoveCreatedFile ==
  /\ pc = "unlink" /\ cursor > 0
  /\ LET item == rollback_files[cursor]
         p == item.path
     IN \/ /\ item.temp
           /\ temps' = temps \ {p}
           /\ UNCHANGED <<disk, unresolved, ioFault>>
        \/ /\ ~item.temp /\ disk[p] # "dir"
           /\ disk' = [disk EXCEPT ![p] = "absent"]
           /\ UNCHANGED <<temps, unresolved, ioFault>>
        \/ /\ ~item.temp /\ disk[p] = "dir"
           /\ Unresolve(p) /\ UNCHANGED <<disk, temps, ioFault>>
        \/ /\ item.temp \/ disk[p] # "absent"
           /\ Unresolve(p) /\ ioFault' = TRUE /\ UNCHANGED <<disk, temps>>
  /\ cursor' = cursor - 1
  /\ UNCHANGED <<caches, manifest, copies, applied, lists, work, cache_unresolved,
                 manual, pc, edited, protected, interruptedAt, stranded, outcome>>

RemoveCreatedDirectory ==
  /\ pc = "rmdir" /\ cursor > 0
  /\ LET d == created_directories[cursor] IN
       \/ /\ disk[d] = "absent" \/ (disk[d] = "dir" /\ ~Populated(d))
          /\ disk' = [disk EXCEPT ![d] = "absent"]
          /\ UNCHANGED <<temps, unresolved, ioFault>>
       \/ /\ disk[d] \notin {"absent", "dir"} \/ Populated(d)
          /\ Unresolve(d) /\ UNCHANGED <<disk, temps, ioFault>>
       \/ /\ disk[d] # "absent"
          /\ Unresolve(d) /\ ioFault' = TRUE /\ UNCHANGED <<disk, temps>>
  /\ cursor' = cursor - 1
  /\ UNCHANGED <<caches, manifest, copies, applied, lists, work, cache_unresolved,
                 manual, pc, edited, protected, interruptedAt, stranded, outcome>>

(* Mutant: directories are removed before the files in them. *)
MutNextLoop ==
  /\ cursor = 0
  /\ \/ pc = "restore" /\ pc' = "rmdir" /\ cursor' = Len(created_directories)
     \/ pc = "rmdir" /\ pc' = "unlink" /\ cursor' = Len(rollback_files)
     \/ pc = "unlink" /\ pc' = "settle" /\ UNCHANGED cursor
  /\ UNCHANGED <<durable, lists, work, cache_unresolved, unresolved, manual,
                 history, outcome>>

(* Mutant: unresolved paths are tried again until none is left. *)
MutNextLoopRetries ==
  /\ cursor = 0
  /\ \/ pc = "restore" /\ pc' = "unlink" /\ cursor' = Len(rollback_files)
     \/ pc = "unlink" /\ pc' = "rmdir" /\ cursor' = Len(created_directories)
     \/ /\ pc = "rmdir"
        /\ IF unresolved = {}
           THEN pc' = "settle" /\ UNCHANGED cursor
           ELSE pc' = "restore" /\ cursor' = Len(modified_files)
  /\ UNCHANGED <<durable, lists, work, cache_unresolved, unresolved, manual,
                 history, outcome>>

(* Modified files first, then created files, then directories, each list in *)
(* reverse.                                                                 *)
NextLoop ==
  /\ cursor = 0
  /\ \/ pc = "restore" /\ pc' = "unlink" /\ cursor' = Len(rollback_files)
     \/ pc = "unlink" /\ pc' = "rmdir" /\ cursor' = Len(created_directories)
     \/ pc = "rmdir" /\ pc' = "settle" /\ UNCHANGED cursor
  /\ UNCHANGED <<durable, lists, work, cache_unresolved, unresolved, manual,
                 history, outcome>>

(* The verdict of a rollback; a failed manifest write leaves the old status. *)
Restored == unresolved = {} /\ ~cache_unresolved

(* Mutant: the flag is set before the manifest is written, whatever was restored. *)
MutSettle ==
  /\ pc = "settle"
  /\ \/ /\ manifest' = (IF Restored THEN "ROLLED_BACK" ELSE "ROLLBACK_FAILED")
        /\ outcome' = Result("ERROR", IF Restored THEN "succeeded" ELSE "failed", FALSE)
     \/ /\ UNCHANGED manifest
        /\ outcome' = Result("ERROR", "succeeded", FALSE)
  /\ pc' = "ended"
  /\ UNCHANGED <<disk, temps, caches, copies, applied, lists, work, undo, history>>

Settle ==
  /\ pc = "settle"
  /\ \/ /\ manifest' = (IF Restored THEN "ROLLED_BACK" ELSE "ROLLBACK_FAILED")
        /\ outcome' =
             (IF manual /\ Restored
              THEN Result("ROLLED_BACK", "succeeded", FALSE)
              ELSE Result("ERROR", IF Restored THEN "succeeded" ELSE "failed", FALSE))
     \/ /\ UNCHANGED manifest
        /\ outcome' = Result("ERROR",
             IF Restored /\ ~manual THEN "succeeded" ELSE "failed", FALSE)
  /\ pc' = "ended"
  /\ UNCHANGED <<disk, temps, caches, copies, applied, lists, work, undo, history>>

-----------------------------------------------------------------------------
(* Manual rollback of a completed transaction *)

(* _preflight_manual_rollback: every entry still has its applied state, and *)
(* created directories hold nothing that is not declared.                   *)
PreflightOk ==
  /\ \A p \in Declared : disk[p] = applied[p]
  /\ \A d \in PlannedDirs : \A p \in Path :
       d \in Ancestors[p] /\ disk[p] # "absent" => p \in Declared

(* The registry knows the run as completed, and the manifest says so too. *)
Reversible ==
  /\ pc = "ended" /\ manifest = "COMPLETED" /\ ~manual
  /\ outcome.status \in {"APPLIED", "REFUSED"}

(* The entries of the manifest, by kind, are the lists of the completed run. *)
BeginManualRollback ==
  /\ Reversible
  /\ PreflightOk
  /\ manual' = TRUE
  /\ pc' = "restore"
  /\ cursor' = Len(modified_files)
  /\ UNCHANGED <<durable, lists, work, cache_unresolved, unresolved, history, outcome>>

ManualRollbackRefused ==
  /\ Reversible
  /\ ~PreflightOk
  /\ outcome' = Result("REFUSED", "failed", FALSE)
  /\ UNCHANGED <<durable, lists, work, undo, history, pc>>

-----------------------------------------------------------------------------
(* The environment *)

(* KeyboardInterrupt is a BaseException: inside the try block it enters the *)
(* handler like any failure.                                                *)
InTry == pc \in {"apply", "staged", "published", "verify", "ledger", "run",
                 "inspect", "clean", "compare", "complete", "completed"}

(* The statements between prepare_backup and the try block, and after it. *)
AtTheEdge ==
  \/ pc = "apply" /\ step = 1
     /\ modified_files = <<>> /\ rollback_files = <<>> /\ created_directories = <<>>
  \/ pc = "completed"

(* Outside the try block, inside the handler, and during a manual rollback  *)
(* it ends the run where it stands, also with a replacement staged for the  *)
(* original that is being restored.                                         *)
InterruptEnds ==
  /\ ~InTry \/ AtTheEdge
  /\ temps' = temps \/
       (pc = "restore" /\ cursor > 0 /\ temps' = temps \cup {modified_files[cursor]})
  /\ pc' = "ended"
  /\ outcome' = Result("INTERRUPTED", "none", FALSE)
  /\ UNCHANGED <<disk, current, stranded>>

(* Mutant: a staged temporary survives every interrupt. *)
MutInterruptHandled ==
  /\ InTry /\ pc # "published"
  /\ pc' = "failing" /\ current' = {}
  /\ UNCHANGED <<disk, temps, stranded, outcome>>

(* A staged temporary is removed on the way out. *)
InterruptHandled ==
  /\ InTry /\ pc # "published"
  /\ temps' = temps \ current
  /\ pc' = "failing" /\ current' = {}
  /\ UNCHANGED <<disk, stranded, outcome>>

(* There are instructions at which it leaves something that no list names:  *)
(* around the try statement that removes the temporary of a file (create,   *)
(* modify), while a target is written in place or removed again without     *)
(* hard links, and between an effect and the entry in its list.             *)
InterruptStrands ==
  /\ pc \in {"staged", "published"}
  /\ \E p \in current :
       \/ pc = "staged" /\ p \in temps /\ UNCHANGED <<disk, temps>>
       \/ /\ pc = "staged" /\ Kind[p] = "create" /\ Publishable(p)
          /\ disk' = [disk EXCEPT ![p] = "alien"]
          /\ temps' \in {temps, temps \ {p}}
       \/ /\ pc = "published"
          /\ temps' \in {temps, temps \cup (current \cap FilesToCreate)}
          /\ UNCHANGED disk
  /\ stranded' = stranded \cup current
  /\ pc' = "failing" /\ current' = {}
  /\ UNCHANGED outcome

Interrupt ==
  /\ pc # "ended"
  /\ Cardinality(interruptedAt) < MaxInterrupts
  /\ interruptedAt' = interruptedAt \cup {pc}
  /\ InterruptEnds \/ InterruptHandled \/ InterruptStrands
  /\ UNCHANGED <<caches, manifest, copies, applied, lists, undo, plan, stage,
                 step, ledger, formatted_files, edited, protected, ioFault>>

(* The run has a claim on a path from its last look at it: for a created    *)
(* file, from its publication.                                              *)
Claimed(p) ==
  \/ p \in Range(modified_files) \cup CreatedFiles
  \/ p \in current /\ pc \in {"published", "verify"}
  \/ p \in current /\ pc = "staged" /\ Kind[p] # "create"

(* The lock does not bind an editor: a user may rewrite a declared file at  *)
(* any time.                                                                *)
UserEdit(p) ==
  /\ Cardinality(edited) < MaxEdits
  /\ p \in PlannedFiles \ edited
  /\ ParentsExist(p)
  /\ disk' = [disk EXCEPT ![p] = "alien"]
  /\ edited' = edited \cup {p}
  /\ protected' = IF Claimed(p) /\ pc # "ended" THEN protected ELSE protected \cup {p}
  /\ UNCHANGED <<temps, caches, manifest, copies, applied, lists, work, undo, pc,
                 outcome, interruptedAt, stranded, ioFault>>

Ended == pc = "ended" /\ UNCHANGED vars

-----------------------------------------------------------------------------
(* The specification *)

Prepare == NoChange \/ PlanStale \/ BeginBackup \/ BackupUnavailable
             \/ CaptureEntry \/ CaptureFails \/ WritePrepared
Apply == MakeDirectory \/ StageFile \/ Publish \/ Record \/ VerifyEffect
           \/ EffectFails \/ PublishLeavesTemporary \/ PublishLeavesPartialTarget
           \/ EffectsComplete \/ CaptureLedger
Validate == RunTool \/ InspectTool \/ CleanCaches \/ CompareInventory
              \/ WriteCompleted \/ CompletionFails \/ ReturnApplied
Recover == HandleFailure \/ RetainFailure \/ RestoreOriginal \/ RemoveCreatedFile
             \/ RemoveCreatedDirectory \/ NextLoop \/ Settle
RunStep == Prepare \/ Apply \/ Validate \/ Recover
Manual == BeginManualRollback \/ ManualRollbackRefused
Environment == Interrupt \/ \E p \in Path : UserEdit(p)

Next == RunStep \/ Manual \/ Environment \/ Ended

Spec == Init /\ [][Next]_vars
FairSpec == Spec /\ WF_vars(RunStep)
-----------------------------------------------------------------------------
(* Correctness *)

Item == [path : Path, temp : BOOLEAN]
Outcome == [status   : {"none", "NO_CHANGE", "APPLIED", "ROLLED_BACK", "ERROR",
                        "INTERRUPTED", "REFUSED"},
            rollback : {"none", "succeeded", "failed", "skipped"},
            kept     : BOOLEAN]

(* Every variable stays in its type; this is the frame of the other proofs. *)
TypeOK ==
  /\ plan \in Plans
  /\ disk \in [Path -> Content] /\ applied \in [Path -> Content]
  /\ temps \subseteq Path /\ caches \subseteq {"pyc", "foreign"}
  /\ manifest \in Statuses /\ copies \subseteq Path
  /\ pc \in PCs /\ stage \in Stages /\ step \in Nat \ {0}
  /\ current \in SUBSET Path
  /\ modified_files \in Seq(Path) /\ created_directories \in Seq(Path)
  /\ rollback_files \in Seq(Item)
  /\ ledger \in BOOLEAN /\ formatted_files \in [Path -> Content]
  /\ cursor \in Nat /\ cache_unresolved \in BOOLEAN /\ unresolved \subseteq Path
  /\ manual \in BOOLEAN /\ outcome \in Outcome
  /\ edited \subseteq Path /\ protected \subseteq Path
  /\ interruptedAt \subseteq PCs /\ stranded \subseteq Path /\ ioFault \in BOOLEAN

(* Everything declared is as it was, but for what was left at the paths S. *)
OriginalBut(S) == temps \subseteq S /\ \A p \in Declared \ S : disk[p] = Original(p)
AllOriginal == OriginalBut({})
AllAccepted == temps = {} /\ \A p \in Declared : disk[p] \in Accepted(p)

(* Write-ahead: whenever a declared path is not what it was, whoever kills   *)
(* the process finds a manifest and every original retained (prepare_backup  *)
(* before the action loop).                                                  *)
WriteAhead ==
  (\E p \in Declared \ edited : disk[p] # Original(p))
    => /\ manifest # "none"
       /\ \A q \in Declared : Original(q) = "orig" => q \in copies

(* A manifest that says ROLLED_BACK, and one that says FAILED (a failure     *)
(* with nothing to keep), describes a workspace whose declared paths are as  *)
(* planned from, with no temporary left behind, whichever effect, tool,      *)
(* cleanup or manifest write failed, automatically or by hand.  Only what an *)
(* interrupt left at the path in hand can be different.                      *)
UndoneIsOriginal ==
  manifest \in {"ROLLED_BACK", "FAILED"} /\ edited = {} => OriginalBut(stranded)

(* A COMPLETED manifest of a run nobody has begun to undo describes exactly  *)
(* the planned or formatted result, no undeclared change the inventory can   *)
(* see, no cache residue, and originals to go back to.                       *)
CompletedIsPlanned ==
  manifest = "COMPLETED" /\ ~manual /\ edited = {} /\ "completed" \notin interruptedAt
    => /\ AllAccepted
       /\ Unexpected = {}
       /\ caches = {}
       /\ OriginalsNeeded \subseteq copies

(* What the caller is told agrees with the disk: success means a COMPLETED   *)
(* manifest, a succeeded rollback, an unkept failure and an error before the *)
(* backup all mean an original workspace, but for the path at which an       *)
(* interrupt left something.                                                 *)
ReportIsHonest ==
  pc = "ended" /\ edited = {} =>
    /\ outcome.status = "APPLIED" => manifest = "COMPLETED"
    /\ outcome.rollback = "succeeded" => OriginalBut(stranded)
    /\ outcome.rollback = "skipped" /\ ~outcome.kept => OriginalBut(stranded)
    /\ outcome.status \in {"NO_CHANGE", "ERROR"} /\ outcome.rollback = "none"
         => AllOriginal /\ manifest = "none"

(* Rollback gives up only for a reason it cannot remove: an I/O error, a     *)
(* declared file turned into a directory, something undeclared or something  *)
(* an interrupt left in a created directory, or a cache entry that is not a  *)
(* new .pyc file.  (A directory removed before what the run put into it      *)
(* would be such a failure without a reason.)                                *)
RollbackFailureHasCause ==
  manifest = "ROLLBACK_FAILED" /\ edited = {} /\ ~ioFault =>
    \/ \E p \in PlannedFiles : disk[p] = "dir"
    \/ \E p \in Undeclared : disk[p] # "absent" /\ Ancestors[p] \cap PlannedDirs # {}
    \/ \E p \in stranded : Ancestors[p] \cap PlannedDirs # {}
    \/ caches # {}

(* A user's edit of a declared file the run has no claim on (made before its *)
(* last check of the file, or while no run is active) is never overwritten   *)
(* or removed: not by the effect, nor by rollback, nor by a manual rollback. *)
UserEditSurvives == \A p \in protected : disk[p] = "alien"

(* Every run ends: each step of the runner leads on, whatever fails.         *)
RunEnds == (pc # "ended") ~> (pc = "ended")

(* The transaction implements the contract a reader of its manifest relies   *)
(* on, when no user edit disturbs it, no interrupt leaves something behind,  *)
(* and none falls on the manifest that was just completed.                   *)
Tree ==
  CASE AllOriginal -> "original"
    [] ~AllOriginal /\ AllAccepted -> "accepted"
    [] OTHER -> "other"
Verdict ==
  CASE manifest \in {"ROLLED_BACK", "FAILED"} -> "undone"
    [] manifest \in {"CHANGES_KEPT", "ROLLBACK_FAILED"} -> "flagged"
    [] manifest = "COMPLETED" /\ ~manual -> "applied"
    [] OTHER -> "open"
Contract == INSTANCE PatchContract WITH tree <- Tree, verdict <- Verdict
KeepsContract == Contract!Spec

=============================================================================
