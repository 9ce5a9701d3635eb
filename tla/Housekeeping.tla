---------------------------- MODULE Housekeeping ----------------------------
(***************************************************************************)
(* The files PatchShuttle keeps in patches/ besides jobs, logs and backups: *)
(* init creates what is missing, without a lock; docs refresh replaces the  *)
(* guide by the template of the installed version, as reviewed; baseline    *)
(* updates the accepted warnings; a run adds a history record.  These three *)
(* work under the workspace lock.  Processes die and writes fail at any     *)
(* point, and the owner edits the guide.                                    *)
(***************************************************************************)
EXTENDS Naturals, FiniteSets, SequencesExt

CONSTANTS
  Proc, NoProc,
  FreshProject,    \* the project ID a process generates
  OldProject,      \* the ID of a workspace initialised by an older version
  NoProject,       \* of a file that is not there
  MaxEdits,        \* bound: edits of the guide by its owner
  MaxUpdates,      \* bound: baseline updates and history records
  MaxCrashes       \* bound: processes that die

Project == {FreshProject[p] : p \in Proc} \cup {OldProject}

ASSUME HousekeepingAssumption ==
  /\ NoProc \notin Proc
  /\ FreshProject \in [Proc -> Project] /\ IsInjective(FreshProject)
  /\ \A p \in Proc : FreshProject[p] # OldProject
  /\ NoProject \notin Project
  /\ MaxEdits \in Nat /\ MaxUpdates \in Nat /\ MaxCrashes \in Nat

(* The guide is a template with the notes appended to it; in the baseline   *)
(* the notes count the updates.  A template may be one of this version, a   *)
(* recognised older one, or have been edited.                               *)
Text == [template : {"current", "legacy", "edited"}, notes : 0..(MaxEdits + MaxUpdates)]
Fresh == [template |-> "current", notes |-> 0]

Missing == [state |-> "missing", project |-> NoProject, text |-> Fresh]
Torn == [state |-> "torn", project |-> NoProject, text |-> Fresh]
Whole(project, text) == [state |-> "whole", project |-> project, text |-> text]

(* Generated files, in the order init creates them after the configuration. *)
Generated == <<"guide", "registry", "baseline">>
Name == {"config"} \cup Range(Generated)

VARIABLES
  file,            \* the managed files
  backup,          \* state of the backup of each guide
  history,         \* states of the history records
  lock,            \* the workspace lock
  pc,
  at,              \* index into Generated, or number of the history record
  project,         \* project ID the process works with
  seen,            \* guide or baseline as the process read it
  late,            \* history: the guide was edited after the last check
  bounds           \* edits, started updates and crashes so far

vars == <<file, backup, history, lock, pc, at, project, seen, late, bounds>>

Slot == 1..MaxUpdates

Init ==
  /\ \/ file = [n \in Name |-> Missing]
     \/ file = [n \in Name |-> Whole(OldProject,
                  IF n = "guide" THEN [Fresh EXCEPT !.template = "legacy"] ELSE Fresh)]
  /\ backup = [g \in Text |-> "missing"]
  /\ history = [k \in Slot |-> "missing"]
  /\ lock = NoProc
  /\ pc = [p \in Proc |-> "idle"]
  /\ at = [p \in Proc |-> 1]
  /\ project = [p \in Proc |-> NoProject]
  /\ seen = [p \in Proc |-> Fresh]
  /\ late = [p \in Proc |-> FALSE]
  /\ bounds = [edits |-> 0, started |-> 0, crashes |-> 0]

Goto(p, label) == pc' = [pc EXCEPT ![p] = label]
Put(name, content) == file' = [file EXCEPT ![name] = content]

(* The command ends, with an error or not; a lock it holds is released. *)
Leave(p) ==
  /\ Goto(p, "idle")
  /\ lock' = IF lock = p THEN NoProc ELSE lock
  /\ at' = [at EXCEPT ![p] = 1]
  /\ project' = [project EXCEPT ![p] = NoProject]
  /\ seen' = [seen EXCEPT ![p] = Fresh]
  /\ late' = [late EXCEPT ![p] = FALSE]

memory == <<at, project, seen, late>>
disk == <<file, backup, history>>

-----------------------------------------------------------------------------
(* init_workspace *)

(* The configuration is there, or has to be created with a new project ID. *)
InitBegin(p) ==
  /\ pc[p] = "idle"
  /\ Goto(p, IF file["config"].state = "missing" THEN "configuring" ELSE "loading")
  /\ UNCHANGED <<disk, lock, memory, bounds>>

(* Mutant: the configuration is opened for writing whatever is there. *)
MutOpenConfig(p) ==
  /\ pc[p] = "configuring"
  /\ Put("config", Torn) /\ Goto(p, "filling config")
  /\ UNCHANGED <<backup, history, lock, memory, bounds>>

OpenConfig(p) ==
  /\ pc[p] = "configuring"
  /\ IF file["config"].state = "missing"
       THEN Put("config", Torn) /\ Goto(p, "filling config")
       ELSE Goto(p, "loading") /\ UNCHANGED file
  /\ UNCHANGED <<backup, history, lock, memory, bounds>>

FillConfig(p) ==
  /\ pc[p] = "filling config"
  /\ Put("config", Whole(FreshProject[p], Fresh))
  /\ Goto(p, "loading")
  /\ UNCHANGED <<backup, history, lock, memory, bounds>>

(* Mutant: init goes on with the ID it generated. *)
MutLoadConfig(p) ==
  /\ pc[p] = "loading" /\ file["config"].state = "whole"
  /\ project' = [project EXCEPT ![p] = FreshProject[p]]
  /\ Goto(p, "scaffolding")
  /\ UNCHANGED <<disk, lock, at, seen, late, bounds>>

(* The configuration on the disk decides, whoever wrote it. *)
LoadConfig(p) ==
  /\ pc[p] = "loading" /\ file["config"].state = "whole"
  /\ project' = [project EXCEPT ![p] = file["config"].project]
  /\ Goto(p, "scaffolding")
  /\ UNCHANGED <<disk, lock, at, seen, late, bounds>>

LoadConfigFails(p) ==
  /\ pc[p] = "loading" /\ file["config"].state # "whole"
  /\ Leave(p)
  /\ UNCHANGED <<disk, bounds>>

(* _create_file_if_missing, for one generated file after the other. *)
CreateNext(p) ==
  /\ pc[p] = "scaffolding" /\ at[p] <= Len(Generated)
  /\ IF file[Generated[at[p]]].state = "missing"
       THEN Put(Generated[at[p]], Torn) /\ Goto(p, "filling") /\ UNCHANGED at
       ELSE at' = [at EXCEPT ![p] = @ + 1] /\ UNCHANGED <<file, pc>>
  /\ UNCHANGED <<backup, history, lock, project, seen, late, bounds>>

(* A file that was replaced meanwhile is no longer the one being written.   *)
FillNext(p) ==
  /\ pc[p] = "filling"
  /\ IF file[Generated[at[p]]].state = "torn"
       THEN Put(Generated[at[p]], Whole(project[p], Fresh))
       ELSE UNCHANGED file
  /\ at' = [at EXCEPT ![p] = @ + 1]
  /\ Goto(p, "scaffolding")
  /\ UNCHANGED <<backup, history, lock, project, seen, late, bounds>>

(* A write that fails takes the path of the file it created away again,     *)
(* whatever is there by now.                                                *)
FillFails(p) ==
  /\ \/ pc[p] = "filling config" /\ Put("config", Missing)
     \/ pc[p] = "filling" /\ Put(Generated[at[p]], Missing)
  /\ Leave(p)
  /\ UNCHANGED <<backup, history, bounds>>

InitDone(p) ==
  /\ pc[p] = "scaffolding" /\ at[p] > Len(Generated)
  /\ Leave(p)
  /\ UNCHANGED <<disk, bounds>>

Initialise(p) ==
  \/ InitBegin(p) \/ OpenConfig(p) \/ FillConfig(p) \/ LoadConfig(p) \/ LoadConfigFails(p)
  \/ CreateNext(p) \/ FillNext(p) \/ FillFails(p) \/ InitDone(p)

-----------------------------------------------------------------------------
(* docs refresh *)

(* plan_guide_refresh: a known template with the ID of the project.  The    *)
(* plan is determined by the guide.                                         *)
Refreshable ==
  /\ file["config"].state = "whole" /\ file["guide"].state = "whole"
  /\ file["guide"].project = file["config"].project
  /\ file["guide"].text.template # "edited"

ReviewGuide(p) ==
  /\ pc[p] = "idle"
  /\ Refreshable
  /\ seen' = [seen EXCEPT ![p] = file["guide"].text]
  /\ project' = [project EXCEPT ![p] = file["config"].project]
  /\ Goto(p, "reviewed")
  /\ UNCHANGED <<disk, lock, at, late, bounds>>

Lock(p, from, to) ==
  /\ pc[p] = from
  /\ lock = NoProc
  /\ lock' = p
  /\ Goto(p, to)
  /\ UNCHANGED <<disk, memory, bounds>>

LockForGuide(p) == Lock(p, "reviewed", "replanning")

(* The lock is tried once. *)
Locked(p) ==
  /\ pc[p] = "reviewed" /\ lock # NoProc
  /\ Leave(p)
  /\ UNCHANGED <<disk, bounds>>

SameGuide(p) == Refreshable /\ file["guide"].text = seen[p]

Replan(p) ==
  /\ pc[p] = "replanning"
  /\ SameGuide(p) /\ seen[p].template = "legacy"
  /\ Goto(p, "backing up")
  /\ UNCHANGED <<disk, lock, memory, bounds>>

(* Another guide than the reviewed one, or the current one already. *)
ReplanEnds(p) ==
  /\ pc[p] = "replanning"
  /\ ~SameGuide(p) \/ seen[p].template = "current"
  /\ Leave(p)
  /\ UNCHANGED <<disk, bounds>>

OpenBackup(p) ==
  /\ pc[p] = "backing up"
  /\ \/ /\ backup[seen[p]] = "missing"
        /\ backup' = [backup EXCEPT ![seen[p]] = "torn"]
        /\ Goto(p, "filling backup")
     \/ /\ backup[seen[p]] = "whole"
        /\ Goto(p, "staging")
        /\ UNCHANGED backup
  /\ UNCHANGED <<file, history, lock, memory, bounds>>

(* A backup of that name with other bytes, or a failing write; the torn     *)
(* backup stays.                                                            *)
BackupFails(p) ==
  /\ \/ pc[p] = "backing up" /\ backup[seen[p]] = "torn"
     \/ pc[p] = "filling backup"
  /\ Leave(p)
  /\ UNCHANGED <<disk, bounds>>

FillBackup(p) ==
  /\ pc[p] = "filling backup"
  /\ backup' = [backup EXCEPT ![seen[p]] = "whole"]
  /\ Goto(p, "staging")
  /\ UNCHANGED <<file, history, lock, memory, bounds>>

(* Mutant: the guide is not looked at again before it is replaced. *)
MutRecheck(p) ==
  /\ pc[p] = "staging"
  /\ Goto(p, "replacing")
  /\ UNCHANGED <<disk, lock, memory, bounds>>

(* The new guide is in a temporary file; the old one is still as reviewed. *)
Recheck(p) ==
  /\ pc[p] = "staging" /\ SameGuide(p)
  /\ Goto(p, "replacing")
  /\ UNCHANGED <<disk, lock, memory, bounds>>

StagingFails(p) ==
  /\ pc[p] \in {"staging", "replacing"}
  /\ Leave(p)
  /\ UNCHANGED <<disk, bounds>>

ReplaceGuide(p) ==
  /\ pc[p] = "replacing"
  /\ Put("guide", Whole(project[p], [seen[p] EXCEPT !.template = "current"]))
  /\ Goto(p, "unlocking")
  /\ UNCHANGED <<backup, history, lock, memory, bounds>>

Refresh(p) ==
  \/ ReviewGuide(p) \/ LockForGuide(p) \/ Locked(p) \/ Replan(p) \/ ReplanEnds(p)
  \/ OpenBackup(p) \/ BackupFails(p) \/ FillBackup(p)
  \/ Recheck(p) \/ StagingFails(p) \/ ReplaceGuide(p)

-----------------------------------------------------------------------------
(* warning-baseline and history: loaded and written under the lock *)

Start(p, to) ==
  /\ pc[p] = "idle"
  /\ file["config"].state = "whole"
  /\ bounds.started < MaxUpdates
  /\ lock = NoProc /\ lock' = p
  /\ bounds' = [bounds EXCEPT !.started = @ + 1]
  /\ project' = [project EXCEPT ![p] = file["config"].project]
  /\ Goto(p, to)

BeginUpdate(p) ==
  /\ Start(p, "updating")
  /\ UNCHANGED <<disk, at, seen, late>>

(* A workspace of an old version has no baseline: it is empty. *)
LoadBaseline(p) ==
  LET baseline == file["baseline"] IN
  /\ pc[p] = "updating"
  /\ baseline.state = "missing" \/ (baseline.state = "whole" /\ baseline.project = project[p])
  /\ seen' = [seen EXCEPT ![p] = baseline.text]
  /\ Goto(p, "writing")
  /\ UNCHANGED <<disk, lock, at, project, late, bounds>>

(* The file is not valid, or writing the temporary file fails. *)
UpdateFails(p) ==
  /\ pc[p] \in {"updating", "writing"}
  /\ Leave(p)
  /\ UNCHANGED <<disk, bounds>>

ReplaceBaseline(p) ==
  /\ pc[p] = "writing"
  /\ Put("baseline", Whole(project[p], [seen[p] EXCEPT !.notes = @ + 1]))
  /\ Goto(p, "unlocking")
  /\ UNCHANGED <<backup, history, lock, memory, bounds>>

BeginRecord(p) ==
  /\ Start(p, "recording")
  /\ UNCHANGED <<disk, at, seen, late>>

(* _unique_path: the first name that is free. *)
Free(k) == history[k] = "missing" /\ \A j \in Slot : j < k => history[j] # "missing"

OpenRecord(p) ==
  /\ pc[p] = "recording"
  /\ \E k \in Slot :
       /\ Free(k)
       /\ at' = [at EXCEPT ![p] = k]
       /\ history' = [history EXCEPT ![k] = "torn"]
  /\ Goto(p, "filling record")
  /\ UNCHANGED <<file, backup, lock, project, seen, late, bounds>>

FillRecord(p) ==
  /\ pc[p] = "filling record"
  /\ history' = [history EXCEPT ![at[p]] = "whole"]
  /\ Goto(p, "unlocking")
  /\ UNCHANGED <<file, backup, lock, memory, bounds>>

(* History is secondary: the run goes on, the new file is taken away. *)
RecordFails(p) ==
  /\ pc[p] = "filling record"
  /\ history' = [history EXCEPT ![at[p]] = "missing"]
  /\ Leave(p)
  /\ UNCHANGED <<file, backup, bounds>>

Unlock(p) ==
  /\ pc[p] = "unlocking"
  /\ Leave(p)
  /\ UNCHANGED <<disk, bounds>>

Update(p) == BeginUpdate(p) \/ LoadBaseline(p) \/ UpdateFails(p) \/ ReplaceBaseline(p)
Record(p) == BeginRecord(p) \/ OpenRecord(p) \/ FillRecord(p) \/ RecordFails(p)

-----------------------------------------------------------------------------
(* The owner adds notes to the guide, edits the text above them, or deletes *)
(* the file.                                                                *)
EditGuide ==
  /\ bounds.edits < MaxEdits
  /\ file["guide"].state = "whole"
  /\ bounds' = [bounds EXCEPT !.edits = @ + 1]
  /\ \/ Put("guide", [file["guide"] EXCEPT !.text.notes = @ + 1])
     \/ Put("guide", [file["guide"] EXCEPT !.text.template = "edited"])
     \/ Put("guide", Missing)
  /\ late' = [p \in Proc |-> late[p] \/ pc[p] = "replacing"]
  /\ UNCHANGED <<backup, history, lock, pc, at, project, seen>>

Crash(p) ==
  /\ bounds.crashes < MaxCrashes
  /\ pc[p] # "idle"
  /\ bounds' = [bounds EXCEPT !.crashes = @ + 1]
  /\ Leave(p)
  /\ UNCHANGED disk

Next ==
  \/ EditGuide
  \/ \E p \in Proc : Initialise(p) \/ Refresh(p) \/ Update(p) \/ Record(p) \/ Unlock(p) \/ Crash(p)

Spec == Init /\ [][Next]_vars

-----------------------------------------------------------------------------
(* Properties *)

(* However many processes initialise one directory at once, and wherever    *)
(* they stop, every file they finish is of the project in the configuration.*)
OneProject ==
  \A n \in Name :
    file[n].state = "whole" =>
      file["config"].state = "whole" /\ file[n].project = file["config"].project

(* What is finished stays: init never overwrites a file that is there, a    *)
(* replacement leaves a whole file of the same project, a history record    *)
(* never changes.  Only the owner does otherwise, and an init whose write   *)
(* fails after another process replaced the file it was creating.           *)
FinishedFilesStay ==
  [][/\ bounds'.edits = bounds.edits =>
          \A n \in Name :
            (file[n].state = "whole" /\ file'[n] # file[n]) =>
              \/ /\ file'[n].state = "whole" /\ file'[n].project = file[n].project
                 /\ lock \in Proc /\ pc[lock] \in {"replacing", "writing"}
                 /\ n \in {"guide", "baseline"}
              \/ \E p \in Proc : pc[p] = "filling" /\ pc'[p] = "idle" /\ Generated[at[p]] = n
     /\ \A k \in Slot :
          (history[k] # "missing" /\ history'[k] # history[k]) =>
            \E p \in Proc : pc[p] = "filling record" /\ at[p] = k /\ history[k] = "torn"]_vars

(* A refresh replaces no guide whose bytes are not in a backup, unless the  *)
(* owner saves it after the last look at it.                                *)
ReplacedGuideIsBackedUp ==
  [][\A p \in Proc :
       (pc[p] = "replacing" /\ pc'[p] = "unlocking") =>
         late[p] \/ (file["guide"].state = "whole" /\ backup[file["guide"].text] = "whole")]_vars
=============================================================================
