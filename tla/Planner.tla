------------------------------ MODULE Planner ------------------------------
(***************************************************************************)
(* planner._Planner: the dry run of a patch job.  Nothing is written; every *)
(* action is planned on top of the ones before it, in an overlay over the  *)
(* real files: the texts read or invented so far, the sources of moves, the *)
(* directories to make.  The finished plan is shown and, if the user agrees *)
(* - who may edit files while the question stands - planned again from     *)
(* nothing under the workspace lock; a plan that is not the same is stale,  *)
(* one that is the same is carried out.                                    *)
(*                                                                         *)
(* A path holds a text, a directory or nothing.  What the text actions do  *)
(* to a text (module TextEdits) is a parameter here.                       *)
(***************************************************************************)
EXTENDS Naturals, FiniteSets, SequencesExt

CONSTANTS
  Path,            \* the workspace paths of the instance
  Parents,         \* the paths above each path, from the top down
  Protected,       \* paths local policy keeps from jobs
  Python,          \* .py paths that formatters and ruff look at
  Text,            \* contents of files
  Edits,           \* text edits an action may ask for
  Edit(_, _),      \* the text an edit makes of a text: a set of one, or none
  Transfer(_, _, _), \* source and destination after a transfer, or none
  Trees,           \* workspaces before planning
  Actions,         \* the actions a job may be made of: see Action
  Checks,          \* the check a job asks for: see Check
  MaxActions,      \* bound: actions in a job
  MaxUserEdits     \* bound: paths a user edits while the question stands

MISSING == "missing"
DIRECTORY == "directory"
UNREAD == "unread"
Content == Text \cup {MISSING, DIRECTORY}

Above(p) == Range(Parents[p])

(* Workspaces in which whatever exists is in a directory. *)
WellFormed(w) == \A p \in Path : w[p] # MISSING => \A q \in Above(p) : w[q] = DIRECTORY

Action ==
  [op : {"create_directory"}, path : Path]
    \cup [op : {"create_file"}, path : Path, text : Text]
    \cup [op : {"edit"}, path : Path, edit : Edits]
    \cup [op : {"apply_diff"}, first : Path, second : Path, edit : Edits]
    \cup [op : {"transfer"}, path : Path, destination : Path, edit : Edits, guard : Text]
    \cup [op : {"move_file"}, path : Path, destination : Path, guard : Text]

Check == [name : {"paths"}, path : Path] \cup [name : {"ruff"}]

ASSUME PlannerAssumption ==
  /\ Parents \in [Path -> Seq(Path)]
  /\ \A p \in Path : \A k \in DOMAIN Parents[p] :
       Parents[Parents[p][k]] = SubSeq(Parents[p], 1, k - 1)
  /\ Protected \subseteq Path /\ Python \subseteq Path
  /\ Text \cap {MISSING, DIRECTORY, UNREAD} = {}
  /\ \A e \in Edits, t \in Text :
       Edit(e, t) \subseteq Text /\ \A u, v \in Edit(e, t) : u = v
  /\ \A e \in Edits, s, d \in Text :
       /\ Transfer(e, s, d) \subseteq [source : Text, destination : Text]
       /\ \A u, v \in Transfer(e, s, d) : u = v
  /\ Trees \subseteq {w \in [Path -> Content] : WellFormed(w)}
  /\ Actions \subseteq Action
  /\ Checks \subseteq Check
  /\ MaxActions \in Nat /\ MaxUserEdits \in Nat

VARIABLES
  disk,                 \* the workspace
  job, check,           \* the actions of the job so far, and its check
  pc,
  next,                 \* the action of the job the second planning is at
  \* the _Planner object
  order,                \* files: paths in the order they entered the dict
  original, current,    \* files: bytes read, and bytes the plan leads to
  deleted,              \* sources of moves
  created_directories,  \* in order
  fingerprints,         \* what was seen at the paths that were looked at
  action_plans,         \* dispositions and paths of the planned actions
  \* the approved plan and its execution
  plan,
  step, file,           \* the action that is carried out, and which of its paths
  made,                 \* created_directories of the run
  written,              \* paths whose change was applied, in order
  \* history
  preview,              \* the workspace as the approved plan leaves it
  world,                \* the job carried out literally, action by action
  userEdits

planner == <<order, original, current, deleted, created_directories,
             fingerprints, action_plans>>
execution == <<step, file, made, written>>
vars == <<disk, job, check, pc, next, planner, plan, execution, preview, world, userEdits>>

PCs == {"planning", "asking", "revalidating", "applying", "done",
        "refused", "stale", "failed"}

(* The elements of a sequence that are in a set, in their order. *)
Kept(seq, S) ==
  LET places == {k \in DOMAIN seq : seq[k] \in S}
  IN [n \in 1..Cardinality(places) |->
        seq[CHOOSE k \in places : Cardinality({j \in places : j <= k}) = n]]

-----------------------------------------------------------------------------
(* The overlay *)

Files == Range(order)
PlannedDirectories == Range(created_directories)

(* _virtual_kind, without the test for planned files above the path. *)
VirtualKind(p) ==
  IF p \in deleted THEN MISSING
  ELSE IF p \in Files THEN "file"
  ELSE IF p \in PlannedDirectories THEN DIRECTORY
  ELSE IF disk[p] \in Text THEN "file" ELSE disk[p]

(* policy.resolve: the path is not protected, and what is above it on the   *)
(* disk is a directory or nothing.                                          *)
NoFileOnTheWay(p) == \A q \in Above(p) : disk[q] \notin Text
Resolves(p) == p \notin Protected /\ NoFileOnTheWay(p)

(* _reject_virtual_file_parent: also the source of a move stays in files. *)
NoFileAbove(p) == Above(p) \cap Files = {}

(* Mutant: only the directory right above a path is made. *)
MutMissingParents(p) ==
  Kept(Parents[p],
       {q \in Above(p) \ PlannedDirectories : q = Last(Parents[p]) /\ disk[q] = MISSING})

(* _ensure_parent_directories: the directories a path needs, top down. *)
MissingParents(p) ==
  Kept(Parents[p], {q \in Above(p) \ PlannedDirectories : disk[q] = MISSING})
ParentsFit(p) ==
  /\ NoFileAbove(p)
  /\ \A q \in Above(p) \ PlannedDirectories : Resolves(q) /\ disk[q] \notin Text
ParentsRead(p) == {q \in Above(p) \ PlannedDirectories : disk[q] = DIRECTORY}

(* _get_file: a text of the overlay, or the file itself. *)
Readable(p) ==
  /\ Resolves(p) /\ NoFileAbove(p)
  /\ p \notin deleted
  /\ p \notin PlannedDirectories
  /\ p \in Files \/ disk[p] \in Text
TextOf(p) == IF p \in Files THEN current[p] ELSE disk[p]

(* _record_fingerprint for some paths that exist. *)
Seen(S) == fingerprints' = [p \in Path |-> IF p \in S THEN disk[p] ELSE fingerprints[p]]

(* Files that enter the overlay as they are on the disk, with new texts. *)
Loaded(seq) == order \o Kept(seq, Path \ Files)
Update(S, text) ==
  /\ original' = [p \in Path |-> IF p \in S \ Files THEN disk[p] ELSE original[p]]
  /\ current' = [p \in Path |-> IF p \in S THEN text[p] ELSE current[p]]

Planned(op, disposition, paths) ==
  action_plans' = Append(action_plans,
                         [op |-> op, disposition |-> disposition, paths |-> paths])

-----------------------------------------------------------------------------
(* One definition per planner handler: what it accepts and what it does *)

CanCreateDirectory(a) ==
  /\ Resolves(a.path) /\ NoFileAbove(a.path)
  /\ \/ VirtualKind(a.path) = DIRECTORY
     \/ VirtualKind(a.path) = MISSING /\ ParentsFit(a.path)

PlanCreateDirectory(a) ==
  LET new == VirtualKind(a.path) = MISSING IN
  /\ CanCreateDirectory(a)
  /\ created_directories' = IF new THEN created_directories \o MissingParents(a.path)
                                          \o Kept(<<a.path>>, Path \ PlannedDirectories)
                            ELSE created_directories
  /\ Seen(IF new THEN ParentsRead(a.path) ELSE {a.path} \ {p \in Path : disk[p] = MISSING})
  /\ Planned(a.op, IF new THEN "CREATE" ELSE "NO_CHANGE", <<a.path>>)
  /\ UNCHANGED <<order, original, current, deleted>>

CanCreateFile(a) ==
  /\ a.path \notin deleted
  /\ Resolves(a.path) /\ ParentsFit(a.path)
  /\ \/ VirtualKind(a.path) = MISSING
     \/ VirtualKind(a.path) = "file" /\ TextOf(a.path) = a.text

PlanCreateFile(a) ==
  LET new == VirtualKind(a.path) = MISSING IN
  /\ CanCreateFile(a)
  /\ created_directories' = created_directories \o MissingParents(a.path)
  /\ order' = Loaded(<<a.path>>)
  /\ Update({a.path}, [p \in {a.path} |-> a.text])
  /\ Seen(ParentsRead(a.path) \cup (IF new THEN {} ELSE {a.path} \ Files))
  /\ Planned(a.op, IF new THEN "CREATE" ELSE "NO_CHANGE", <<a.path>>)
  /\ UNCHANGED deleted

CanEdit(a) == Readable(a.path) /\ Edit(a.edit, TextOf(a.path)) # {}

(* replace_symbol, the exact and the range edits and the import edits. *)
PlanEdit(a) ==
  /\ CanEdit(a)
  /\ \E t \in Edit(a.edit, TextOf(a.path)) :
       /\ Update({a.path}, [p \in {a.path} |-> t])
       /\ Planned(a.op, IF t = TextOf(a.path) THEN "NO_CHANGE" ELSE "MODIFY", <<a.path>>)
  /\ order' = Loaded(<<a.path>>)
  /\ Seen({a.path} \ Files)
  /\ UNCHANGED <<deleted, created_directories>>

(* apply_diff: each file of the diff in turn, only files that existed. *)
Existed(p) == p \in Files => original[p] # MISSING
CanApplyDiff(a) ==
  \A p \in {a.first, a.second} :
    Readable(p) /\ Existed(p) /\ Edit(a.edit, TextOf(p)) # {}

PlanApplyDiff(a) ==
  LET S == {a.first, a.second} IN
  /\ a.first # a.second
  /\ CanApplyDiff(a)
  /\ \E t \in [S -> Text] :
       /\ \A p \in S : t[p] \in Edit(a.edit, TextOf(p))
       /\ Update(S, t)
       /\ Planned(a.op, IF \A p \in S : t[p] = TextOf(p) THEN "NO_CHANGE" ELSE "MODIFY",
                  <<a.first, a.second>>)
  /\ order' = Loaded(<<a.first, a.second>>)
  /\ Seen(S \ Files)
  /\ UNCHANGED <<deleted, created_directories>>

CanTransfer(a) ==
  /\ a.path # a.destination
  /\ Readable(a.path) /\ Readable(a.destination)
  /\ TextOf(a.destination) = a.guard
  /\ Transfer(a.edit, TextOf(a.path), TextOf(a.destination)) # {}

(* move_range and move_symbol. *)
PlanTransfer(a) ==
  LET S == {a.path, a.destination} IN
  /\ CanTransfer(a)
  /\ \E t \in Transfer(a.edit, TextOf(a.path), TextOf(a.destination)) :
       Update(S, [p \in S |-> IF p = a.path THEN t.source ELSE t.destination])
  /\ order' = Loaded(<<a.path, a.destination>>)
  /\ Seen(S \ Files)
  /\ Planned(a.op, "MODIFY", <<a.path, a.destination>>)
  /\ UNCHANGED <<deleted, created_directories>>

CanMoveFile(a) ==
  /\ a.path # a.destination
  /\ {a.path, a.destination} \cap Files = {}
  /\ a.destination \notin deleted
  /\ disk[a.path] # MISSING /\ Readable(a.path)
  /\ disk[a.path] = a.guard
  /\ Resolves(a.destination) /\ a.path \notin Above(a.destination)
  /\ VirtualKind(a.destination) = MISSING
  /\ ParentsFit(a.destination)

PlanFileMove(a) ==
  /\ CanMoveFile(a)
  /\ created_directories' = created_directories \o MissingParents(a.destination)
  /\ order' = order \o <<a.path, a.destination>>
  /\ Update({a.path, a.destination}, [p \in {a.path, a.destination} |-> disk[a.path]])
  /\ deleted' = deleted \cup {a.path}
  /\ Seen({a.path} \cup ParentsRead(a.destination))
  /\ Planned(a.op, "MODIFY", <<a.destination, a.path>>)

CanPlan(a) ==
  CASE a.op = "create_directory" -> CanCreateDirectory(a)
    [] a.op = "create_file"      -> CanCreateFile(a)
    [] a.op = "edit"             -> CanEdit(a)
    [] a.op = "apply_diff"       -> CanApplyDiff(a)
    [] a.op = "transfer"         -> CanTransfer(a)
    [] a.op = "move_file"        -> CanMoveFile(a)

PlanAction(a) ==
  \/ a.op = "create_directory" /\ PlanCreateDirectory(a)
  \/ a.op = "create_file" /\ PlanCreateFile(a)
  \/ a.op = "edit" /\ PlanEdit(a)
  \/ a.op = "apply_diff" /\ PlanApplyDiff(a)
  \/ a.op = "transfer" /\ PlanTransfer(a)
  \/ a.op = "move_file" /\ PlanFileMove(a)

-----------------------------------------------------------------------------
(* The rest of build: the check, the net changes, the targets of the tools *)

(* ruff looks at the changed Python files that are still there. *)
RuffPaths ==
  {p \in Python \ deleted : \E k \in DOMAIN action_plans :
     /\ action_plans[k].op # "create_directory"
     /\ action_plans[k].disposition # "NO_CHANGE"
     /\ p \in Range(action_plans[k].paths)}

CheckPaths == IF check.name = "ruff" THEN RuffPaths ELSE {check.path}

(* _check_target: the path exists in the planned workspace; ruff needs at   *)
(* least one file.                                                          *)
CheckFits ==
  /\ CheckPaths # {}
  /\ \A p \in CheckPaths :
       /\ Resolves(p) /\ NoFileAbove(p)
       /\ VirtualKind(p) # MISSING
       /\ check.name = "ruff" => VirtualKind(p) = "file"

(* Mutant: a file that is moved without being edited is no change. *)
MutNetChange(p) == current[p] # original[p]

NetChange(p) == p \in deleted \/ current[p] # original[p]

(* _build_file_changes: in the order of the dict; an unchanged file is none. *)
Change(p) ==
  [path |-> p,
   disposition |-> IF p \in deleted THEN "DELETE"
                   ELSE IF original[p] = MISSING THEN "CREATE" ELSE "MODIFY",
   before |-> original[p],
   content |-> IF p \in deleted THEN MISSING ELSE current[p]]
FileChanges ==
  LET changed == Kept(order, {p \in Files : NetChange(p)})
  IN [k \in DOMAIN changed |-> Change(changed[k])]

Plan ==
  [actions |-> action_plans,
   checks |-> CheckPaths,
   file_changes |-> FileChanges,
   directories_to_create |-> created_directories,
   formatting_targets |-> {c.path : c \in {d \in Range(FileChanges) :
                                             d.path \in Python /\ d.disposition # "DELETE"}},
   fingerprints |-> [p \in Path |-> IF p \in CheckPaths /\ disk[p] # MISSING
                                    THEN disk[p] ELSE fingerprints[p]]]

NoPlan == [actions |-> <<>>, checks |-> {}, file_changes |-> <<>>,
           directories_to_create |-> <<>>, formatting_targets |-> {},
           fingerprints |-> [p \in Path |-> UNREAD]]

-----------------------------------------------------------------------------
(* The same job without an overlay: what each action means for a workspace *)

WithParents(w, p) ==
  [q \in Path |-> IF q \in Above(p) /\ w[q] = MISSING THEN DIRECTORY ELSE w[q]]

Perform(w, a) ==
  CASE a.op = "create_directory" ->
         [WithParents(w, a.path) EXCEPT ![a.path] = DIRECTORY]
    [] a.op = "create_file" ->
         [WithParents(w, a.path) EXCEPT ![a.path] = a.text]
    [] a.op = "edit" ->
         [w EXCEPT ![a.path] = CHOOSE t \in Edit(a.edit, w[a.path]) : TRUE]
    [] a.op = "apply_diff" ->
         [p \in Path |-> IF p \in {a.first, a.second}
                         THEN CHOOSE t \in Edit(a.edit, w[p]) : TRUE ELSE w[p]]
    [] a.op = "transfer" ->
         LET t == CHOOSE t \in Transfer(a.edit, w[a.path], w[a.destination]) : TRUE
         IN [w EXCEPT ![a.path] = t.source, ![a.destination] = t.destination]
    [] a.op = "move_file" ->
         [WithParents(w, a.destination) EXCEPT ![a.destination] = w[a.path],
                                               ![a.path] = MISSING]

-----------------------------------------------------------------------------
EmptyOverlay ==
  /\ order = <<>>
  /\ original = [p \in Path |-> MISSING]
  /\ current = [p \in Path |-> MISSING]
  /\ deleted = {}
  /\ created_directories = <<>>
  /\ fingerprints = [p \in Path |-> UNREAD]
  /\ action_plans = <<>>

Init ==
  /\ disk \in Trees
  /\ check \in Checks
  /\ job = <<>>
  /\ pc = "planning" /\ next = 1
  /\ EmptyOverlay
  /\ plan = NoPlan
  /\ step = 1 /\ file = 1 /\ made = <<>> /\ written = <<>>
  /\ preview = disk
  /\ world = disk
  /\ userEdits = 0

(* The job has one more action and it can be planned. *)
PlanNext ==
  /\ pc = "planning"
  /\ Len(job) < MaxActions
  /\ \E a \in Actions :
       /\ PlanAction(a)
       /\ job' = Append(job, a)
       /\ world' = Perform(world, a)
  /\ UNCHANGED <<disk, check, pc, next, plan, execution, preview, userEdits>>

End(how) ==
  /\ pc' = how
  /\ UNCHANGED <<disk, job, check, next, planner, plan, execution, preview, world, userEdits>>

(* An action or the check of the job cannot be planned, or architecture     *)
(* policy, a formatter or the HTML linter refuses the planned contents.     *)
PlanningError == pc = "planning" /\ End("refused")

CompletePlan ==
  /\ pc = "planning"
  /\ job # <<>>
  /\ CheckFits
  /\ plan' = Plan
  /\ preview' = world
  /\ pc' = "asking"
  /\ UNCHANGED <<disk, job, check, next, planner, execution, world, userEdits>>

(* While the question stands somebody changes a path. *)
UserEdit ==
  /\ pc = "asking"
  /\ userEdits < MaxUserEdits
  /\ \E p \in Path, c \in Content :
       /\ c # disk[p]
       /\ disk' = [disk EXCEPT ![p] = c]
       /\ WellFormed(disk')
  /\ userEdits' = userEdits + 1
  /\ UNCHANGED <<job, check, pc, next, planner, plan, execution, preview, world>>

Decline == pc = "asking" /\ End("refused")

(* Under the workspace lock the job is planned again from nothing. *)
Revalidate ==
  /\ pc = "asking"
  /\ pc' = "revalidating"
  /\ order' = <<>> /\ deleted' = {}
  /\ original' = [p \in Path |-> MISSING] /\ current' = [p \in Path |-> MISSING]
  /\ created_directories' = <<>> /\ action_plans' = <<>>
  /\ fingerprints' = [p \in Path |-> UNREAD]
  /\ world' = disk
  /\ UNCHANGED <<disk, job, check, next, plan, execution, preview, userEdits>>

ReplanNext ==
  /\ pc = "revalidating"
  /\ next <= Len(job)
  /\ PlanAction(job[next])
  /\ next' = next + 1
  /\ world' = Perform(world, job[next])
  /\ UNCHANGED <<disk, job, check, pc, plan, execution, preview, userEdits>>

ReplanFails ==
  /\ pc = "revalidating"
  /\ next <= Len(job) /\ ~CanPlan(job[next])
  /\ End("stale")

(* Mutant: the fingerprints are not compared. *)
MutSamePlan == [Plan EXCEPT !.fingerprints = plan.fingerprints] = plan

(* _revalidate_plan: equality of whole plans. *)
SamePlan == Plan = plan

Accept ==
  /\ pc = "revalidating"
  /\ next > Len(job) /\ CheckFits /\ SamePlan
  /\ pc' = "applying"
  /\ UNCHANGED <<disk, job, check, next, planner, plan, execution, preview, world, userEdits>>

(* The plan is another one, or the check or a quality tool refuses it now.  *)
Stale ==
  /\ pc = "revalidating"
  /\ next > Len(job)
  /\ End("stale")

-----------------------------------------------------------------------------
(* Carrying the plan out, without the faults that module Transaction adds *)

Here == plan.actions[step]
InHand == Here.paths[file]

(* Mutant: a new file does not bring its directories. *)
MutRequired(p) ==
  Kept(plan.directories_to_create, {p} \ Range(made))

(* _create_required_directories, for a directory or the parents of a file. *)
Required(p) ==
  Kept(plan.directories_to_create, (Above(p) \cup {p}) \ Range(made))

ChangesOf(p) == {c \in Range(plan.file_changes) : c.path = p}

(* Directories are made one by one, each in an existing one. *)
CanMake(w, ds) ==
  \A k \in DOMAIN ds :
    /\ w[ds[k]] = MISSING
    /\ \A q \in Above(ds[k]) : w[q] = DIRECTORY \/ \E j \in 1..(k - 1) : ds[j] = q
Make(w, ds) == [p \in Path |-> IF p \in Range(ds) THEN DIRECTORY ELSE w[p]]

(* A file is created where nothing is, and replaced or removed only if it   *)
(* still has the contents planned from.                                     *)
CanWrite(w, c) == w[c.path] = c.before /\ \A q \in Above(c.path) : w[q] = DIRECTORY

Applying == pc = "applying" /\ step <= Len(plan.actions)

(* The next path of the action, or the next action. *)
Forward ==
  \/ file < Len(Here.paths) /\ file' = file + 1 /\ UNCHANGED step
  \/ file = Len(Here.paths) /\ file' = 1 /\ step' = step + 1

ApplyDirectory ==
  /\ Applying /\ Here.op = "create_directory"
  /\ LET ds == IF Here.disposition = "CREATE" THEN Required(InHand) ELSE <<>> IN
       /\ CanMake(disk, ds)
       /\ disk' = Make(disk, ds)
       /\ made' = made \o ds
  /\ Forward
  /\ UNCHANGED <<job, check, pc, next, planner, plan, written, preview, world, userEdits>>

(* The directories a change of a file needs that are still to be made. *)
RequiredBy(c) == IF c.disposition = "CREATE" THEN Required(c.path) ELSE <<>>

ApplyFile ==
  /\ Applying /\ Here.op # "create_directory"
  /\ \/ /\ ChangesOf(InHand) = {} \/ InHand \in Range(written)
        /\ UNCHANGED <<disk, made, written>>
     \/ /\ InHand \notin Range(written)
        /\ \E c \in ChangesOf(InHand) :
             /\ CanMake(disk, RequiredBy(c)) /\ CanWrite(Make(disk, RequiredBy(c)), c)
             /\ disk' = [Make(disk, RequiredBy(c)) EXCEPT ![c.path] = c.content]
             /\ made' = made \o RequiredBy(c)
        /\ written' = Append(written, InHand)
  /\ Forward
  /\ UNCHANGED <<job, check, pc, next, planner, plan, preview, world, userEdits>>

(* Whether what is next goes through. *)
EffectPossible ==
  /\ Here.op = "create_directory" /\ Here.disposition = "CREATE" =>
       CanMake(disk, Required(InHand))
  /\ Here.op # "create_directory" /\ InHand \notin Range(written) =>
       \A c \in ChangesOf(InHand) :
         CanMake(disk, RequiredBy(c)) /\ CanWrite(Make(disk, RequiredBy(c)), c)

Created == {c.path : c \in {d \in Range(plan.file_changes) : d.disposition = "CREATE"}}

(* Directories and new files were made in the order of the plan, every      *)
(* change was applied, and every declared path still holds what the plan    *)
(* says when the tools have run.                                            *)
DoneAsPlanned ==
  /\ made = plan.directories_to_create
  /\ Kept(written, Created)
       = Kept([k \in DOMAIN plan.file_changes |-> plan.file_changes[k].path], Created)
  /\ \A c \in Range(plan.file_changes) : c.path \in Range(written) /\ disk[c.path] = c.content
  /\ \A d \in Range(plan.directories_to_create) : disk[d] = DIRECTORY

Finish ==
  /\ pc = "applying" /\ step > Len(plan.actions)
  /\ DoneAsPlanned
  /\ End("done")

FinishFails ==
  /\ pc = "applying" /\ step > Len(plan.actions)
  /\ ~DoneAsPlanned
  /\ End("failed")

Next ==
  \/ PlanNext \/ PlanningError \/ CompletePlan
  \/ UserEdit \/ Decline
  \/ Revalidate \/ ReplanNext \/ ReplanFails \/ Accept \/ Stale
  \/ ApplyDirectory \/ ApplyFile \/ Finish \/ FinishFails

Spec == Init /\ [][Next]_vars

-----------------------------------------------------------------------------
(* Properties *)

DeclaredDirectories == Range(plan.directories_to_create)
DeclaredFiles == {c.path : c \in Range(plan.file_changes)}
ReusesVacatedPath ==
  \E c \in Range(plan.file_changes) :
    c.disposition = "DELETE" /\ c.path \in DeclaredDirectories

(* A path of the workspace the overlay stands for. *)
View(p) ==
  IF p \in deleted THEN MISSING
  ELSE IF p \in Files THEN current[p]
  ELSE IF p \in PlannedDirectories THEN DIRECTORY
  ELSE disk[p]

(* Planning an action on the overlay means what performing it on the        *)
(* workspace means, whatever the actions before it created, edited, moved   *)
(* or removed; but see VacatedPathIsNotReused.                              *)
PlanMeansActions ==
  pc \in {"planning", "revalidating"} =>
    \A p \in Path \ (deleted \cap PlannedDirectories) : View(p) = world[p]

(* The effects of an approved plan, taken one by one, are all possible, and *)
(* leave the workspace that performing the job would, in which all that     *)
(* checks, ruff and formatters are pointed at is there; but a plan that     *)
(* makes a directory of a path a file was moved from fails at the end.      *)
AcceptedPlanApplies ==
  /\ Applying => EffectPossible
  /\ pc = "failed" => ReusesVacatedPath
  /\ pc = "done" =>
       /\ disk = world
       /\ \A p \in plan.checks :
            disk[p] # MISSING /\ (check.name = "ruff" => disk[p] \in Text)
       /\ \A p \in plan.formatting_targets : disk[p] \in Text

(* The effects an action asks for, and which of two comes first. *)
Effects ==
  {e \in [action : DOMAIN plan.actions, file : {1, 2}] :
     LET a == plan.actions[e.action] IN
     /\ e.file \in DOMAIN a.paths
     /\ a.op = "create_directory" => a.disposition = "CREATE"}
Before(e, f) == e.action < f.action \/ (e.action = f.action /\ e.file < f.file)
PathOf(e) == plan.actions[e.action].paths[e.file]
MakesDirectory(e) == plan.actions[e.action].op = "create_directory"

(* What Transaction assumes of the plans it carries out: a path is declared *)
(* once, as one thing; a directory is made before what is put into it, and  *)
(* because something needs it; originals are in directories that exist.     *)
PlanFitsTransaction ==
  (pc \in {"asking", "applying"} /\ ~ReusesVacatedPath) =>
    LET changes == plan.file_changes
        dirs == plan.directories_to_create
    IN /\ \A i, j \in DOMAIN changes : changes[i].path = changes[j].path => i = j
       /\ IsInjective(dirs)
       /\ \A d \in Range(dirs) : \E e \in Effects :
            \/ PathOf(e) = d
            \/ d \in Above(PathOf(e)) /\ (MakesDirectory(e) \/ PathOf(e) \in Created)
       /\ \A e, f \in Effects :
            /\ MakesDirectory(f) /\ Before(e, f)
            /\ MakesDirectory(e) \/ PathOf(e) \in DeclaredFiles
            => PathOf(f) \notin Above(PathOf(e)) \cup {PathOf(e)}
       /\ \A p \in DeclaredFiles : \E e \in Effects : PathOf(e) = p
       /\ \A c \in Range(changes) :
            c.disposition # "CREATE" => Above(c.path) \cap Range(dirs) = {}

(* Whatever the user does to the files while being asked, a run that goes   *)
(* through leaves every path the plan changes or looked at as in the        *)
(* preview that was approved.                                               *)
ConsentCoversTheResult ==
  pc = "done" =>
    \A p \in Path :
      \/ disk[p] = preview[p]
      \/ /\ plan.fingerprints[p] = UNREAD
         /\ p \notin DeclaredFiles \cup DeclaredDirectories

(* AI_GUIDE.md: reuse of the path a move vacates is rejected. *)
VacatedPathIsNotReused == pc = "asking" => ~ReusesVacatedPath
=============================================================================
