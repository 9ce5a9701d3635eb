---------------------------- MODULE JobLifecycle ----------------------------
(***************************************************************************)
(* The life of job IDs in one workspace: concurrent patchshuttle processes *)
(* run, decline and roll back jobs.  A run resolves the job under the      *)
(* workspace lock, releases the lock, plans and asks for approval without  *)
(* it, takes it again, decides again, executes, archives the job, writes   *)
(* its log and then the registry.  A manual rollback restores a completed  *)
(* run from its backup, marks the manifest, and records itself.            *)
(*                                                                         *)
(* The lock is not waited for: a process that finds it held ends.  What a  *)
(* transaction does inside is Transaction's subject; here it is in         *)
(* progress, then over, with the outcomes the runner can report.           *)
(***************************************************************************)
EXTENDS JobFiles

CONSTANTS
  Proc,         \* operating system processes
  NoProc,       \* nobody holds the lock
  Original,     \* the workspace before the first job
  Faults,       \* processes may be killed and records fail to be written
  MaxCommands   \* bound: commands started in a behaviour

ASSUME LifecycleAssumption ==
  /\ NoProc \notin Proc
  /\ Original \in Tree
  /\ Faults \in BOOLEAN
  /\ MaxCommands \in Nat

(* RegistryJobRecord; an ID that was never recorded has no record. *)
NoRecord == [runs |-> 0]
Record == [hash      : Hash,      \* job_hash, with the kind it implies
           completed : BOOLEAN,
           backup    : Nat,       \* backup_reference; 0 for null
           archive   : Hash,      \* what archived_job_copy is a copy of
           runs      : Nat \ {0}]
Registry == [Id -> Record \cup {NoRecord}]

BackupStatuses == {"none", "PREPARED", "COMPLETED", "ROLLED_BACK", "FAILED",
                   "CHANGES_KEPT", "ROLLBACK_FAILED"}
Backup == [job     : Job,
           entries : Plan,        \* the retained originals and the applied state
           status  : BackupStatuses]

(* What a process is about to record. *)
Verdict == [completed : BOOLEAN, reset : BOOLEAN, backup : Nat, retry : BOOLEAN]
Report(completed, backup) ==
  [completed |-> completed, reset |-> FALSE, backup |-> backup, retry |-> FALSE]

Unlocked == {"idle", "resolve", "plan", "confirm", "execute", "decline", "locate"}
Critical == {"transact", "applying", "archive", "log", "register", "preflight",
             "restoring", "undoing", "mark"}

VARIABLES
  \* shared by the processes
  holder,     \* the process that holds patches/state/run.lock
  registry,   \* patches/state/registry.json
  tree,       \* the workspace files
  backups,    \* patches/backups, in the order of their timestamps
  archives,   \* patches/applied and patches/failed
  logs,       \* per ID, how many run logs are in patches/logs
  \* per process
  pc,
  job,        \* the job in hand
  planned,    \* its plan
  snapshot,   \* the registry it loaded under the lock
  verdict,
  \* history
  commands,   \* commands started
  recorded    \* per ID, how often the registry was updated for it

shared == <<registry, tree, backups, archives, logs>>
local == <<job, planned, snapshot, verdict>>
history == <<commands, recorded>>
vars == <<holder, shared, local, history, pc>>

AnyJob == CHOOSE j \in Job : TRUE

NoSnapshot == [i \in Id |-> NoRecord]

Init ==
  /\ holder = NoProc
  /\ registry = NoSnapshot
  /\ tree = Original /\ backups = <<>> /\ archives = {}
  /\ logs = [i \in Id |-> 0]
  /\ pc = [p \in Proc |-> "idle"]
  /\ job = [p \in Proc |-> AnyJob]
  /\ planned = [p \in Proc |-> NoChange]
  /\ snapshot = [p \in Proc |-> NoSnapshot]
  /\ verdict = [p \in Proc |-> Report(FALSE, 0)]
  /\ commands = 0
  /\ recorded = [i \in Id |-> 0]

Goto(p, l) == pc' = [pc EXCEPT ![p] = l]

(* The command ends, and with it its memory and its hold on the lock. *)
Leave(p) ==
  /\ Goto(p, "idle")
  /\ job' = [job EXCEPT ![p] = AnyJob]
  /\ planned' = [planned EXCEPT ![p] = NoChange]
  /\ snapshot' = [snapshot EXCEPT ![p] = NoSnapshot]
  /\ verdict' = [verdict EXCEPT ![p] = Report(FALSE, 0)]
  /\ holder' = IF holder = p THEN NoProc ELSE holder

-----------------------------------------------------------------------------
(* Registry rules *)

Known(reg, i) == reg[i] # NoRecord

(* decide_job *)
Decision(reg, j) ==
  IF Known(reg, j.id) /\ reg[j.id].hash # j.hash THEN "PATCH_ID_CONFLICT"
  ELSE IF Known(reg, j.id) /\ reg[j.id].completed THEN "ALREADY_APPLIED"
  ELSE "PROCEED"

(* update_registry: identity and completion stick unless completion is      *)
(* reset; a run without a backup keeps the reference to the last one.       *)
Updated(reg, j, v) ==
  [hash      |-> IF Known(reg, j.id) THEN reg[j.id].hash ELSE j.hash,
   completed |-> v.completed \/ (~v.reset /\ Known(reg, j.id) /\ reg[j.id].completed),
   backup    |-> IF v.backup # 0 \/ ~Known(reg, j.id) THEN v.backup ELSE reg[j.id].backup,
   archive   |-> j.hash,
   runs      |-> reg[j.id].runs + 1]

(* Mutant: only the copy the registry names is considered. *)
MutLocatable(reg, i) == reg[i].archive = reg[i].hash

(* _find_archived_job: the copy the registry names, or any other whose       *)
(* content has the registered hash.                                          *)
Locatable(reg, i) ==
  reg[i].archive = reg[i].hash \/ [id |-> i, hash |-> reg[i].hash] \in archives

(* The registry names a completed patch with a backup, an intact copy of    *)
(* its source, and a manifest that says COMPLETED for this very job.        *)
Reversible(reg, i) ==
  /\ Known(reg, i)
  /\ [id |-> i, hash |-> reg[i].hash] \in Patch
  /\ reg[i].completed /\ reg[i].backup # 0
  /\ Locatable(reg, i)
  /\ backups[reg[i].backup].status = "COMPLETED"
  /\ backups[reg[i].backup].job = [id |-> i, hash |-> reg[i].hash]

-----------------------------------------------------------------------------
(* Commands *)

Start(p, l) ==
  /\ pc[p] = "idle"
  /\ commands < MaxCommands
  /\ commands' = commands + 1
  /\ Goto(p, l)
  /\ UNCHANGED <<holder, shared, planned, snapshot, verdict, recorded>>

Run(p, j) == Start(p, "resolve") /\ job' = [job EXCEPT ![p] = j]

(* For a rollback the hash in hand is only known from the registry. *)
RollBack(p, i) ==
  Start(p, "locate") /\ job' = [job EXCEPT ![p] = [id |-> i, hash |-> job[p].hash]]

(* The command ends where it would take the lock, and nothing is recorded:   *)
(* the lock is held (it is tried once, with a timeout of 0), the job file no *)
(* longer holds the planned job, or the registry cannot be read.             *)
GiveUp(p) ==
  /\ pc[p] \in {"resolve", "execute", "decline", "locate"}
  /\ Leave(p)
  /\ UNCHANGED <<shared, history>>

(* Mutant: the lock is tried but not held. *)
MutAcquire(p) ==
  /\ holder = NoProc
  /\ snapshot' = [snapshot EXCEPT ![p] = registry]
  /\ UNCHANGED holder

(* The lock is free: it is taken and the registry loaded. *)
Acquire(p) ==
  /\ holder = NoProc
  /\ holder' = p
  /\ snapshot' = [snapshot EXCEPT ![p] = registry]

(* A conflict is recorded as an error, a completed job as a success. *)
RecordDecision(p) ==
  /\ Acquire(p)
  /\ verdict' = [verdict EXCEPT ![p] =
                   Report(Decision(registry, job[p]) = "ALREADY_APPLIED", 0)]
  /\ Goto(p, "archive")

(* Mutant: the lock is kept for planning. *)
MutResolve(p) ==
  /\ pc[p] = "resolve"
  /\ holder = NoProc
  /\ IF Decision(registry, job[p]) = "PROCEED"
     THEN Goto(p, "plan") /\ holder' = p /\ UNCHANGED <<snapshot, verdict>>
     ELSE RecordDecision(p)
  /\ UNCHANGED <<shared, job, planned, history>>

(* resolve_registered_job: a job that may proceed leaves the lock again. *)
Resolve(p) ==
  /\ pc[p] = "resolve"
  /\ holder = NoProc
  /\ IF Decision(registry, job[p]) = "PROCEED"
     THEN Goto(p, "plan") /\ UNCHANGED <<holder, snapshot, verdict>>
     ELSE RecordDecision(p)
  /\ UNCHANGED <<shared, job, planned, history>>

(* plan_job reads the workspace without the lock; it may refuse the job. *)
MakePlan(p) ==
  /\ pc[p] = "plan"
  /\ \/ /\ Plannable(job[p], tree)
        /\ planned' = [planned EXCEPT ![p] = PlanOf(job[p], tree)]
        /\ Goto(p, "confirm")
        /\ UNCHANGED <<holder, job, snapshot, verdict>>
     \/ Leave(p)
  /\ UNCHANGED <<shared, history>>

(* The user answers the prompt, or never does; an audit asks nothing. *)
Answer(p) ==
  /\ pc[p] = "confirm"
  /\ Goto(p, "execute") \/ Goto(p, "decline")
  /\ UNCHANGED <<holder, shared, local, history>>

(* record_declined_plan: an error either way; it establishes the job's hash. *)
Decline(p) ==
  /\ pc[p] = "decline"
  /\ Acquire(p)
  /\ verdict' = [verdict EXCEPT ![p] = Report(FALSE, 0)]
  /\ Goto(p, "archive")
  /\ UNCHANGED <<shared, job, planned, history>>

(* Mutant: the decision made before planning is trusted. *)
MutExecute(p) ==
  /\ pc[p] = "execute"
  /\ Acquire(p)
  /\ Goto(p, "transact")
  /\ UNCHANGED <<shared, job, planned, verdict, history>>

(* execute_plan: the decision is made again under the lock. *)
Execute(p) ==
  /\ pc[p] = "execute"
  /\ IF Decision(registry, job[p]) = "PROCEED"
     THEN Acquire(p) /\ Goto(p, "transact") /\ UNCHANGED verdict
     ELSE RecordDecision(p)
  /\ UNCHANGED <<shared, job, planned, history>>

-----------------------------------------------------------------------------
(* The transaction, as its caller sees it *)

Conclude(p, completed, b) ==
  /\ verdict' = [verdict EXCEPT ![p] = Report(completed, b)]
  /\ Goto(p, "archive")

(* _revalidate_plan: the job is planned again, and the plans are compared. *)
Fresh(p) == Plannable(job[p], tree) /\ planned[p] = PlanOf(job[p], tree)

(* PLAN_STALE, an audit or verification that fails, or an error before a     *)
(* manifest exists: the run directory may have been made by then, and is     *)
(* referenced.                                                               *)
TransactionRefused(p) ==
  /\ pc[p] = "transact"
  /\ \/ UNCHANGED backups /\ Conclude(p, FALSE, 0)
     \/ /\ Fresh(p) /\ Touched(planned[p]) # {}
        /\ backups' = Append(backups, [job |-> job[p], entries |-> planned[p],
                                       status |-> "none"])
        /\ Conclude(p, FALSE, Len(backups'))
  /\ UNCHANGED <<holder, registry, tree, archives, logs, job, planned, snapshot,
                 history>>

(* NO_CHANGE: what the patch asks for is there already, whoever made it.  An *)
(* audit or a verification changes nothing when it succeeds.                 *)
NothingToDo(p) ==
  /\ pc[p] = "transact"
  /\ job[p] \in Patch => Fresh(p) /\ Touched(planned[p]) = {}
  /\ Conclude(p, TRUE, 0)
  /\ UNCHANGED <<holder, shared, job, planned, snapshot, history>>

(* The originals are retained, and the work begins. *)
BeginTransaction(p) ==
  /\ pc[p] = "transact"
  /\ Fresh(p) /\ Touched(planned[p]) # {}
  /\ backups' = Append(backups, [job |-> job[p], entries |-> planned[p],
                                 status |-> "PREPARED"])
  /\ tree' \in Disturbed(tree, planned[p])
  /\ Goto(p, "applying")
  /\ UNCHANGED <<holder, registry, archives, logs, local, history>>

(* A manifest write that fails leaves the status before it. *)
EndTransaction(p) ==
  /\ pc[p] = "applying"
  /\ LET b == Len(backups)
         entries == backups[b].entries
         Close(status) == backups' = [backups EXCEPT ![b].status = status]
         Unwritten == Faults /\ UNCHANGED backups
     IN \/ /\ tree' = Rewritten(tree, entries)
           /\ Close("COMPLETED")
           /\ Conclude(p, TRUE, b)
        \/ /\ tree' = Restored(tree, entries)
           /\ Close("ROLLED_BACK") \/ Close("FAILED") \/ Unwritten
           /\ Conclude(p, FALSE, b)
        \/ /\ UNCHANGED tree
           /\ Close("CHANGES_KEPT") \/ Close("ROLLBACK_FAILED") \/ Unwritten
           /\ Conclude(p, FALSE, b)
  /\ UNCHANGED <<holder, registry, archives, logs, job, planned, snapshot, history>>

-----------------------------------------------------------------------------
(* The records of a run, in their order; any of them may fail, and then the *)
(* command ends with what was written so far.                               *)

(* Mutant: a log that cannot be written does not stop the registry update. *)
MutArchive(p) ==
  /\ pc[p] = "archive"
  /\ archives' = archives \cup {job[p]}
  /\ Goto(p, "log") \/ Goto(p, "register")
  /\ UNCHANGED <<holder, registry, tree, backups, logs, local, history>>

Archive(p) ==
  /\ pc[p] = "archive"
  /\ archives' = archives \cup {job[p]}
  /\ Goto(p, "log")
  /\ UNCHANGED <<holder, registry, tree, backups, logs, local, history>>

WriteLog(p) ==
  /\ pc[p] = "log"
  /\ logs' = [logs EXCEPT ![job[p].id] = @ + 1]
  /\ Goto(p, "register")
  /\ UNCHANGED <<holder, registry, tree, backups, archives, local, history>>

(* The whole file is written from the snapshot; history is best effort. *)
Register(p) ==
  /\ pc[p] = "register"
  /\ registry' = [snapshot[p] EXCEPT ![job[p].id] =
                    Updated(snapshot[p], job[p], verdict[p])]
  /\ recorded' = [recorded EXCEPT ![job[p].id] = @ + 1]
  /\ Leave(p)
  /\ UNCHANGED <<tree, backups, archives, logs, commands>>

(* OPERATIONAL_RECORD_FAILED.  The record of a failed restoration is tried  *)
(* once more, from its log on, because it fails inside the try block.       *)
RecordFails(p) ==
  /\ Faults
  /\ pc[p] \in {"archive", "log", "register"}
  /\ IF verdict[p].retry
     THEN /\ verdict' = [verdict EXCEPT ![p].retry = FALSE]
          /\ Goto(p, "log")
          /\ UNCHANGED <<holder, job, planned, snapshot>>
     ELSE Leave(p)
  /\ UNCHANGED <<shared, history>>

-----------------------------------------------------------------------------
(* Manual rollback *)

(* rollback_job up to its try block: whatever is missing ends the command   *)
(* without a record.                                                        *)
Locate(p) ==
  /\ pc[p] = "locate"
  /\ holder = NoProc
  /\ IF Reversible(registry, job[p].id)
     THEN /\ Acquire(p)
          /\ job' = [job EXCEPT ![p].hash = registry[job[p].id].hash]
          /\ verdict' = [verdict EXCEPT ![p] = Report(FALSE, registry[job[p].id].backup)]
          /\ Goto(p, "preflight")
          /\ UNCHANGED planned
     ELSE Leave(p)
  /\ UNCHANGED <<shared, history>>

(* _preflight_manual_rollback *)
Applied(b) == InPlace(tree, backups[b].entries)

(* Refused, also when a path or its original cannot be read: recorded as a   *)
(* failed rollback, and nothing else changes.                                *)
Preflight(p) ==
  /\ pc[p] = "preflight"
  /\ \/ Applied(verdict[p].backup) /\ Goto(p, "restoring")
     \/ Goto(p, "log")
  /\ UNCHANGED <<holder, shared, local, history>>

(* rollback_transaction on the paths of the backup. *)
BeginRestore(p) ==
  /\ pc[p] = "restoring"
  /\ tree' \in Disturbed(tree, backups[verdict[p].backup].entries)
  /\ Goto(p, "undoing")
  /\ UNCHANGED <<holder, registry, backups, archives, logs, local, history>>

FinishRestore(p) ==
  /\ pc[p] = "undoing"
  /\ tree' = Restored(tree, backups[verdict[p].backup].entries)
  /\ Goto(p, "mark")
  /\ UNCHANGED <<holder, registry, backups, archives, logs, local, history>>

(* Paths are left unresolved.  If the manifest cannot be written either, the *)
(* failure is still recorded, once.                                          *)
RestoreFails(p) ==
  /\ pc[p] = "undoing"
  /\ \/ /\ backups' = [backups EXCEPT ![verdict[p].backup].status = "ROLLBACK_FAILED"]
        /\ verdict' = [verdict EXCEPT ![p].retry = TRUE]
     \/ Faults /\ UNCHANGED <<backups, verdict>>
  /\ Goto(p, "log")
  /\ UNCHANGED <<holder, registry, tree, archives, logs, job, planned, snapshot, history>>

(* Mutant: completion is not reset. *)
MutMarkRolledBack(p) ==
  /\ pc[p] = "mark"
  /\ backups' = [backups EXCEPT ![verdict[p].backup].status = "ROLLED_BACK"]
  /\ Goto(p, "log")
  /\ UNCHANGED <<holder, registry, tree, archives, logs, local, history>>

(* The manifest is marked before the log and the registry are written.      *)
(* Outside the try block: a failure here ends the command without a record. *)
MarkRolledBack(p) ==
  /\ pc[p] = "mark"
  /\ \/ /\ backups' = [backups EXCEPT ![verdict[p].backup].status = "ROLLED_BACK"]
        /\ verdict' = [verdict EXCEPT ![p].reset = TRUE]
        /\ Goto(p, "log")
        /\ UNCHANGED <<holder, job, planned, snapshot>>
     \/ Faults /\ Leave(p) /\ UNCHANGED backups
  /\ UNCHANGED <<registry, tree, archives, logs, history>>

-----------------------------------------------------------------------------
(* A process is killed, or interrupted where nothing records it; the        *)
(* operating system releases its lock.                                      *)
Crash(p) ==
  /\ Faults
  /\ pc[p] # "idle"
  /\ Leave(p)
  /\ UNCHANGED <<shared, history>>

(* Every command has been given and has ended. *)
Quiet ==
  /\ commands = MaxCommands
  /\ \A p \in Proc : pc[p] = "idle"
  /\ UNCHANGED vars

Work(p) ==
  \/ GiveUp(p) \/ Resolve(p) \/ MakePlan(p) \/ Decline(p) \/ Execute(p)
  \/ TransactionRefused(p) \/ NothingToDo(p) \/ BeginTransaction(p)
  \/ EndTransaction(p) \/ Archive(p) \/ WriteLog(p) \/ Register(p)
  \/ RecordFails(p) \/ Locate(p) \/ Preflight(p) \/ BeginRestore(p)
  \/ FinishRestore(p) \/ RestoreFails(p) \/ MarkRolledBack(p)

Next ==
  \/ \E p \in Proc :
       \/ \E j \in Job : Run(p, j)
       \/ \E i \in Id : RollBack(p, i)
       \/ Answer(p) \/ Work(p) \/ Crash(p)
  \/ Quiet

Spec == Init /\ [][Next]_vars

(* A process that can go on does; nobody has to answer a prompt. *)
Fairness == \A p \in Proc : WF_vars(Work(p))

-----------------------------------------------------------------------------
(* Correctness *)

(* Every variable stays in its type. *)
TypeOK ==
  /\ holder \in Proc \cup {NoProc}
  /\ registry \in Registry
  /\ tree \in Tree /\ backups \in Seq(Backup)
  /\ archives \subseteq Job /\ logs \in [Id -> Nat]
  /\ pc \in [Proc -> Unlocked \cup Critical]
  /\ job \in [Proc -> Job] /\ planned \in [Proc -> Plan]
  /\ snapshot \in [Proc -> Registry] /\ verdict \in [Proc -> Verdict]
  /\ commands \in Nat /\ recorded \in [Id -> Nat]

(* No update of the registry is lost, although each process writes the whole *)
(* file back from the snapshot it loaded some steps before: run_count says   *)
(* how often the job was recorded, also across crashes.                      *)
EveryRecordCounts == \A i \in Id : registry[i].runs = recorded[i]

(* An ID never changes its content: a job that conflicts, and is archived and *)
(* recorded under the ID, leaves its hash as it was.                          *)
IdentityIsStable ==
  [][\A i \in Id : Known(registry, i) =>
       Known(registry', i) /\ registry'[i].hash = registry[i].hash]_vars

(* What the registry says is documented, whatever failed before: every run   *)
(* counted has its log, the archived copy exists, and the backup referenced  *)
(* is one of this job and this content.                                      *)
RecordedIsDocumented ==
  \A i \in Id : Known(registry, i) =>
    /\ registry[i].runs <= logs[i]
    /\ [id |-> i, hash |-> registry[i].archive] \in archives
    /\ registry[i].backup # 0 =>
         backups[registry[i].backup].job = [id |-> i, hash |-> registry[i].hash]

(* A completed job can be found again for a rollback, even when a conflicting *)
(* job was archived under its ID since.                                       *)
CompletedIsLocatable ==
  \A i \in Id : Known(registry, i) /\ registry[i].completed => Locatable(registry, i)

(* The path is in the plan of the job that holds the lock, and what it       *)
(* overwrites is what the plan found, or made.                               *)
Overwrites(q) ==
  \E p \in Proc : \E b \in DOMAIN backups' :
    /\ holder = p
    /\ backups'[b].job = job[p] /\ q \in Touched(backups'[b].entries)
    /\ pc[p] = "transact" => tree[q] = backups'[b].entries[q].before
    /\ pc[p] = "restoring" => tree[q] = backups'[b].entries[q].after

(* Jobs keep out of each other's way: a path changes only under the lock, by *)
(* a process whose job has a backup that lists it, and what is overwritten   *)
(* first is what the backup says was there: the original when the job is     *)
(* run, the job's own work when it is rolled back.                           *)
OthersSurvive == [][\A q \in Path : tree'[q] # tree[q] => Overwrites(q)]_vars

(* No job is applied twice, whoever runs it at the same time: the decision   *)
(* made before planning is made again under the lock.  (Without faults: a    *)
(* run that is applied and never recorded may be applied again.)             *)
AppliedOnce ==
  ~Faults =>
    \A b, c \in DOMAIN backups :
      /\ backups[b].status = "COMPLETED" /\ backups[c].status = "COMPLETED"
      /\ backups[b].job = backups[c].job
      => b = c

(* Between commands everything that was applied is recorded and can be taken *)
(* back: a backup that says COMPLETED is the one the registry names for its  *)
(* job, and the job is recorded as completed.  (Without faults.)             *)
AppliedIsRecorded ==
  ~Faults /\ holder = NoProc =>
    \A b \in DOMAIN backups : backups[b].status = "COMPLETED" =>
      LET e == registry[backups[b].job.id] IN
      /\ e # NoRecord /\ e.hash = backups[b].job.hash
      /\ e.completed /\ e.backup = b

(* The registry knows what was applied: once, and with the way back, however  *)
(* many processes run and roll back jobs at the same time.                    *)
RegistryKnows == AppliedOnce /\ AppliedIsRecorded

(* The runs that changed the path and were not taken back, or not entirely. *)
Standing(q) ==
  {b \in DOMAIN backups :
     /\ q \in Touched(backups[b].entries)
     /\ backups[b].status \in {"PREPARED", "COMPLETED", "CHANGES_KEPT", "ROLLBACK_FAILED"}}

(* When every run that changed a path failed or was rolled back, the path is *)
(* as it was before all of them, in whatever order jobs that overlap and     *)
(* jobs that do not were run and rolled back.  (Without faults.)             *)
UndoneIsBack ==
  ~Faults /\ holder = NoProc =>
    \A q \in Path : Standing(q) = {} => tree[q] = Original[q]

(* The lock is always released, even if a user leaves a prompt unanswered. *)
LockIsReleased == (holder # NoProc) ~> (holder = NoProc)

(* SPEC_V0_1.md: "a rolled-back job with the same ID and same hash may be run *)
(* again".  A job whose backup says ROLLED_BACK, and for which there is       *)
(* something to do, is not decided to be applied already.                     *)
RolledBackMayRunAgain ==
  holder = NoProc =>
    \A j \in Job :
      /\ Known(registry, j.id) /\ registry[j.id].hash = j.hash
      /\ registry[j.id].backup # 0
      /\ backups[registry[j.id].backup].status = "ROLLED_BACK"
      /\ Plannable(j, tree) /\ Touched(PlanOf(j, tree)) # {}
      => Decision(registry, j) = "PROCEED"
=============================================================================
