# A verification development for PatchShuttle

PatchShuttle applies reviewed patch jobs to a local project: it plans a job,
asks for approval, retains the originals, applies the planned effects, checks
them, and undoes them when anything fails. A completed job can be rolled back
later. Jobs are remembered in a registry, so that no job is applied twice.

This directory holds TLA+ models of that program, configurations with which TLC
checks them on small instances, and theorems about them with proofs that TLAPS
checks. Every definition follows the code under `src/patchshuttle`;
`PROJECT.json` names the lines of each.

## The system

| Part | State it keeps | Operations | What is hard |
| --- | --- | --- | --- |
| Patch transaction (`runner.py`, `actions/`) | workspace files; lists of effects in memory | revalidate, back up, apply effects one by one, lint, check, format, compare, complete, recover | every step may fail or be interrupted; effect and bookkeeping are two steps |
| Backups (`backup.py`) | `patches/backups/<run>`: originals, manifest with a status | prepare, update, load completed, mark | order against effects; a failed manifest write during recovery |
| Rollback (`rollback.py`) | none; works from lists or from a manifest | restore, unlink, rmdir, preflight | order, partial failure, other content than expected |
| Runtime caches (`runtime_cache.py`), inventory (`inventory.py`) | snapshots in memory | capture, clean, compare | what the run made and what it did not |
| Job execution (`execution.py`) | none | resolve, execute, record a declined plan | decision made twice, records in order, failing records |
| Registry (`registry.py`) | `patches/state/registry.json` | load, decide, update (the whole file) | lost updates, sticky completion, conflicting IDs |
| Manual rollback (`operations.py`) | manifest, log, registry | locate the archived copy, restore, mark, record | three records of one event |
| Workspace lock (`runner.py`) | `patches/state/run.lock` | try once, release | held across the right steps, never across a prompt |
| Logs and archives (`logging.py`) | `patches/logs`, `applied`, `failed` | create new files exclusively | a record that cannot be written |
| CLI (`cli.py`) | none | run, audit, verify, rollback; read-only reports | the user answers while the world moves on |
| Planner (`planner.py`, `planning/`) | virtual file system in memory | one step per action, net changes, a second plan under the lock | agreement of the overlay with the actions and with what the runner applies; files edited while the user is asked |
| Content operations (`_diff.py`, `_line_ranges.py`, `_refactor.py`, ...) | none | exact edits, ranges, diffs, moves, newline styles | boundaries, overlapping matches, missing final newlines |
| Policy and preflight (`policy.py`, `preflight.py`) | none | resolve and refuse paths; try formatters on planned contents | tools run later on what the preflight accepted |
| Tools (`checks/`, `formatters/`, `linters/`, `_process.py`) | child processes | run with a timeout, terminate, kill | late answers, processes that outlive a kill |
| Audit and verification (`audit.py`, `verification.py`) | two inventories in memory | list, hash, work, list again, compare | files that change while they are read |
| Django migrations (`django_app/workflow.py`) | a journal per workspace: start, result and recovery records | review, start, migrate, record, reconcile | crash between database and journal; two locks |
| History (`history/`) | a file per record | best-effort write | torn records |
| Initialisation, guide refresh, warning baseline (`workspace.py`, `documentation/`, `warning_baseline.py`) | files under `patches/` | create if missing; replace if unchanged | two initialisers; an edit between check and replacement |
| Context, self documentation, MCP server | none | read-only reports | |

They interact through files and one lock. The CLI calls `execution.py`, which
decides under the lock from the registry, calls the transaction for a patch, and
writes archive, log and registry. The transaction writes the workspace and its
backup. A manual rollback reads registry, archive and manifest, writes the
workspace through `rollback.py`, and then manifest, log and registry. The planner
and the prompt in between run without the lock; `_revalidate_plan` plans again under
it. Audits, verifications and patches compare the workspace before and after with two
inventories. Initialisation takes no lock; guide refresh, warning baseline and Django
migrations take the workspace lock too, and a migration also that of its database.

`PROJECT.json` lists the components with what is modelled of each, and the
hazards of this code line by line with the properties that cover them.

## Modules

| Module | Subject |
| --- | --- |
| `Transaction` | one transaction from the plan to its end, a later manual rollback, user edits and KeyboardInterrupts at any point |
| `PatchContract` | what a transaction promises to somebody who reads only its manifest |
| `TransactionMC` | a small project for TLC |
| `TransactionProofs` | that originals are retained before effects and an undone transaction leaves nothing behind; what a manifest, an answer and a failed rollback are worth, what becomes of a user's edit, and the refinement of `PatchContract` |
| `JobFiles` | what a plan says of the files, path by path, and what running it and taking it back make of them |
| `JobLifecycle` | processes that run, decline and roll back jobs in one workspace: lock, registry, records, kills |
| `JobLedger` | what a workspace promises to whoever takes its lock: one job at a time, in one step |
| `JobAtomicity` | `JobLifecycle` seen when the lock is free, as an implementation of `JobLedger` |
| `JobLifecycleMC`, `JobAtomicityMC` | two processes and four jobs for TLC |
| `JobLifecycleProofs` | types, exclusion, no lost update, stable identity |
| `JobRecords` | what the registry says is documented and can be found, what is applied is recorded, what is undone is back; the refinement of `JobLedger` |
| `Planner`, `PlannerMC` | a job planned on the overlay, shown, planned again and carried out |
| `PlannerProofs` | that planning means performing, that a plan fits `Transaction`, goes through, and does what was approved |
| `TextEdits`, `TextEditsMC` | edits of file contents, character by character |
| `TextEditsProofs` | newline styles, counted copies, local ranges, whole moves and diffs, for texts and diffs of any length |
| `Migration`, `MigrationMC` | reviewed Django migrations under two locks, and their journal |
| `MigrationProofs` | exclusion, blocking attempts, and what the journal says of a database |
| `Housekeeping`, `HousekeepingMC` | initialisation, guide refresh, warning baseline, history records |
| `HousekeepingProofs` | one identity, finished files that stay, retained guides |
| `Tools` | the programs a job runs, one after the other, and the end of each |
| `Observation`, `ObservationMC` | inventories, audit reads and cache cleanup around those programs |
| `ObservationProofs` | the tools, the two listings, the reads and the cleanup |

`Observation` extends `Tools` and gives it the workspace in which it runs. `Planner`
states, as `PlanFitsTransaction`, what `Transaction` assumes of plans; `Tools` gives the
reason for the fairness `Transaction` assumes of tool stages (`JobEnds`). `JobLifecycle`
has `Transaction` as two steps with its outcomes, on the paths `JobFiles` names;
`JobLedger` speaks of the same files. Each module of proofs extends the module
it is about, or the one with the proofs it builds on.

Operators whose name begins with `Mut` are deliberate faults. Each is a plausible
bug in the definition it follows, and shows that the property it belongs to
notices: with it in place TLC finds the property violated.

### Transaction

A state is what is on disk (`disk`, `temps`, `caches`, the backup's `copies` and
`manifest`, the `applied` states recorded with COMPLETED) and what the process
holds (the local variables of `_execute_locked`, with the program counter `pc`).
A kill needs no action: every state is one a kill may leave, and the invariants
speak about the durable part in every state.

File contents are abstracted to what the code compares: the planned original,
the planned result, a formatter's output, a directory, nothing, anything else.
Paths have a kind (what the plan does with them) and ancestors. One effect is
several steps, as in the code: a temporary file is staged, the target is
published, the path is entered in a list, the result is verified. Each of them,
each tool, the cache cleanup, the comparison and each manifest write may fail;
recovery then works through the three lists of `rollback.py`, where each path may
fail again.

Taken from the planner as assumptions (`PlanAssumption`): declared paths are named
once, directories precede what is put into them, every directory to create is
needed by a step, and formatters run on files that exist afterwards. `Planner` checks
them (`PlanFitsTransaction`, `AcceptedPlanApplies`).

A KeyboardInterrupt ends the run where it stands outside the try statement of
`_execute_locked` (`InterruptEnds`; also just before it, just after it and in the handler), and
enters the handler inside it. There a staged temporary is removed on the way out
(`InterruptHandled`), but for a few instructions at which something is left that no list names
(`InterruptStrands`):

* at the edges of the try statement that removes a temporary: between `os.open` and the try,
  or between its end and the unlink (`create.py` 70-73 and 85-90, `modify.py` 146-149 and
  159-164);
* while a target without hard links is written in place, or taken away again
  (`create.py` 131-161);
* between an effect and the entry in its list (`runner.py` 305-350).

The history variable `stranded` has the path in hand of such an interrupt. The properties except
that path and nothing else (`OriginalBut`): everything else must be as it was.

The tool
stages are one step each: the tool succeeds, fails, and may damage a file or leave
caches.

### PatchContract

The abstract specification has two variables: the declared paths as a whole
(original, accepted, other) and the verdict the manifest lets a reader draw.
While the verdict is open anything may happen to the paths; success is reached
only from the accepted result, "undone" only from the original state; nothing is
touched under a verdict, unless a success is reopened by a manual rollback.
`KeepsContract` states that `Transaction` implements it under the mapping
`Tree`, `Verdict`.

### JobFiles and JobLifecycle

The workspace is a function from paths to contents. `Goal` says of each patch what it makes of
a workspace, formatters included, and for which workspaces it can be planned. A plan
(`PlanOf`) has an entry for each path that changes, with the content before and after; the same
entries are what a backup retains. `Rewritten` and `Restored` change the paths of a plan and no
others, `Disturbed` is anything on the way. `InPlace` is the preflight of a manual rollback: each
path of the backup is as the run left it, and a directory it created holds nothing else. So jobs
that share no paths are run and rolled back in any order, and a job whose work another
one has done has an empty plan: it is recorded as completed with `NO_CHANGE`, and stays so when
the other job is rolled back.

Each process goes through the steps of `_execute_job_command` or `rollback_job`.
The program counter separates what is done under the lock (`Critical`) from
planning and prompting without it (`Unlocked`); `Fresh` plans again under the lock and compares
the plans. The transaction is two steps (begun, over) with the outcomes the runner can report,
including a manifest that could not be written. Archive, log and registry are separate steps,
and each may fail. `Register` writes the whole registry back from the snapshot loaded under
the lock, as `_write_registry` does. `GiveUp` is every way a command ends where it would take
the lock without a record: the lock is held, the job file no longer holds the planned job
(`_job_source_bytes`), the registry cannot be read.

`Faults` switches kills and failing records on. `Crash` stands for a kill at any
point, and for a KeyboardInterrupt, which `execution.py` does not record.

Edits of users and files that an interrupt strands are the subject of `Transaction`, undeclared
changes by tools that of `Observation`: here only jobs change the paths of jobs. A formatter that
takes back every change of a patch is not told from a patch that changes something.

### JobLedger and JobAtomicity

A run writes workspace, backup, archive, log and registry one after the other, and other
processes plan and prompt meanwhile. `JobLedger` is what is left of it for somebody who
looks when nobody holds the lock: the files, and per ID the hash, the completion, the number
of runs, what a rollback would take back (`undo`) and whether one has failed (`stuck`). A job is
one step of all of it: it is completed on its own paths (`Complete`), finds nothing to do
(`Confirm`), is rolled back while its own paths are as it left them, whatever was run since on
others (`RollBack`), fails or is left half way and counted as a failure (`Fail`), or only
counted (`Note`). With `Faults` there is one more step, `Lose`: the files change, the backup may
say so, and the registry does not.

`JobAtomicity` adds a history variable, `before`: what was to be seen (`Seen`) when the lock was
last free. `KeepsLedger` states that it behaves as `JobLedger` says. The abstract step is the
write of the registry. A process that dies, or cannot write a record, after it touched the
workspace is a `Lose`. Of references the mapping keeps what the backup named by the registry is
good for (`UndoOf`); that references to backups, logs and archived copies lead somewhere is what
`RecordedIsDocumented` and `CompletedIsLocatable` are about.

### Planner

The variables are those of `_Planner`: the overlay of known files (`original`,
`current`), deleted paths, directories to create, fingerprints of everything looked at,
and the actions with their paths. One action of the specification plans one action of
the job (`PlanNext`), or refuses it. Operators named `Can...` hold the checks of a
planner method, `Plan...` what it does to the overlay. `world` is a history variable: the
workspace if the actions so far were performed one by one. The user may edit a file
while the plan is shown; `Revalidate` plans the job again from the files as they are then,
and `SamePlan` compares what `_revalidate_plan` compares. An accepted plan is carried out
path by path in the order of the actions, as the loop of `_execute_locked` does: `step`
and `file` say which path of which action is next, a path that was written is not written
again, and a directory or a new file brings the directories it needs. The failures of
effects are the subject of `Transaction`.

Contents are versions, and an edit is a partial function from versions to versions;
what it does to characters is the subject of `TextEdits`.

### TextEdits

Texts are sequences of letters, `LF`, `CR` and `SEP`, which stands for the separators that
`str.splitlines` honours and the canonical lines do not. Two files, `raw` and `other`,
take any sequence of edits. Each operation is translated as the functions it consists of:
decoding, newline style, the edit of the normalised text, and encoding. A diff is a
sequence of lines with their first character split off, parsed line by line as `_parse_hunk`
does and applied with its cursor. The properties say what a reader of the request would
expect, with definitions of their own (`Copies`, `FirstLines`, `ByHand`): of a diff, that the
lines below a header replace the lines the header names, hunk by hunk from the last to the
first, so that no line number moves before it is used.

### Migration

A process reviews a plan without a lock, takes the lock of its workspace and then that of
the database, each tried once, finds the same plan and no unresolved attempt, writes its
start record, migrates step by step, checks the postcondition and writes its result. A
record is opened and then filled, so that a process that dies leaves it torn; a torn start
record stops every database of the workspace. Journals belong to workspaces, databases
may be shared, and a database has one lock, as the advisory lock of a PostgreSQL server is.
(The lock file of an SQLite database stands beside the path as its settings spell it, while
its identity resolves the path: two workspaces that spell one file differently have two locks.
The model speaks of workspaces that spell it alike; otherwise the other workflow is `Foreign`.)
`Foreign` stands for
programs that migrate without the workflow, and for deployments that change the sources.
`observed`, `changes` and `settled` are history variables with which
`JournalExplainsDatabase` says what the journal is worth.

### Housekeeping

A file is missing, torn or whole. `init` creates files without a lock, from the
configuration on; `docs refresh` plans under the lock again, backs the guide up, checks
once more and replaces it; the warning baseline and history records are written under the
lock. A write that fails takes the path away again, whatever is there by then, as the code
does. `late` notes an edit of the guide after the last check: the window before
`os.replace` cannot be closed, and such an edit is lost.

### Tools and Observation

`CommandsOf` is the sequence of programs of a patch, a verification and an audit, from the
files the plan declares; for an audit it is the plan's actions in their order, the reads among
them: any sequence of `git --version` (the `environment` action), `git status` and reads.
`OnlyNoted` are the commands whose answer, or absence, only becomes a line of the report: a
formatter tried on the original content of a file, and `git --version`, for which any failure or
timeout is `NOT_AVAILABLE`. The process of each is running or ended, whatever the program
thinks: it may exit with any code at any time or never, and outlive its kill.
`Observation` adds the workspace: a tree that others may change at any moment, each change
making a new version. The scan of `capture_inventory` is a walk with the directory stack
of the code; a file is opened, hashed and closed in separate steps, with the comparisons of
its metadata in between. `cleanup_runtime_caches` goes cache by cache and entry by entry.
The effects of a patch and their rollback are one step here. Size and entry limits are
failures that may come at any entry (`ObservationFails`).

## What is checked

| Run | Instance | Question |
| --- | --- | --- |
| `transaction_core` | five plans: none, create in nested directories with modify and delete (rolled back or kept), formatters with a second check, every stage | with any failure at any point: write-ahead, a completed run is what was planned, the report is honest, and `PatchContract` is implemented (so an undone run is undone) |
| `transaction_interrupts` | a create in nested directories with modify and delete (rolled back or kept); two interrupts, also in the handler, and a user edit; failures as before | an undone run is undone but for what an interrupt stranded, a failed rollback has a cause, an edit the run has no claim on survives, and every run ends |
| `transaction_doc` | the same plan; one interrupt | a sentence of the guide, violated: see below |
| `lifecycle_faults` | two processes, one ID under two contents, of which the second writes a text the first deletes; three commands; kills and failing records | no lost update, what the registry says is documented, a completed job can be located, a path changes only for the job that has it in its plan and over what that plan found, `JobLedger` is implemented, where a fault loses the record of one job only, and the lock is always released |
| `lifecycle_clean` | two processes, two IDs under two contents each: three patches that overlap, keep apart, work in a directory another created or find their work done, and an audit; four commands, no faults | a job is applied once, what is applied is recorded and can be taken back, what was undone is back in whatever order, `JobLedger` is implemented with nothing lost, also out of order and where another job has done the work |
| `lifecycle_doc` | the jobs of `lifecycle_clean`; three commands, kills and failing records | a sentence of the specification, violated: see below |
| `planner_plan` | seven paths with a package that is there or missing, all jobs of up to three of eighteen actions, a check, one user edit | a plan means what its actions say, can be carried out, is what `Transaction` assumes, and a run does what the approved preview showed |
| `planner_doc` | the same | a sentence of the guide, violated: see below |
| `text_edits` | nine short texts in either newline style and four others, words of up to three characters, twenty-two diffs (one with two hunks that meet at the end of a file without a final newline), two edits in a row | newline style is kept; exact edits, ranges, diffs and moves do what was asked and nothing else |
| `migration` | one database behind two workspaces, two processes, forward, back and reconcile; two attempts, one foreign change; kills and torn records anywhere | an attempt blocks until it is resolved, the journal explains the database, changes are announced, locks are released |
| `housekeeping` | two processes, a fresh and an old workspace, two edits, two updates, one kill | one identity, no finished file is overwritten, a replaced guide was reviewed and retained |
| `observation` | a patch of two modules and a template, a verification, an audit that reads between git commands; an interrupt, one change by others (two in a verification) | no two tools at once, none on input not accepted, a late answer is no success, a job that succeeds found the workspace as it was, reads are of one moment, the cleanup takes only what runs left, every job ends |

### Bounds

`MaxEdits` and `MaxInterrupts` bound disturbances. One edit reaches each window
between a check and an effect; the second interrupt reaches the handler and the rollback
of the first. `MaxCommands` bounds the commands in a behaviour: three are enough for
two processes to race and a third command to meet the result; four let a job be
applied, conflict, be rolled back and be run again, or two jobs be applied and rolled back out
of order. The jobs have three paths: a directory, a file in it and a text. With faults one ID
is enough for two jobs to meet: a run that is killed before it is recorded leaves its work, and
the ID, to a job of other content. The plans contain each kind of effect, nested directories, and each validation stage; effects on more paths of
one kind repeat the same steps.

`MaxActions` is three: an action meets the result of another one on a path a third has
made, moved or vacated. `MaxUserEdits` is one, since the plan is made twice and carried out
once. In `TextEdits` a file has at most two or three lines, which gives a first, a middle
and a last one, with and without final newline; `MaxLength` only keeps files from growing
under repeated edits. In `Migration` two attempts are needed to violate the blocking, and
one foreign change reaches each window between looking and writing; `MaxAttempts` bounds
attempts over all journals, not retries of one. `MaxChanges` of `Observation` is one for a
patch and an audit, which have the longest behaviours, and two for a verification, so that a file
can come and go in the middle of a scan. In `Housekeeping` one kill leaves a torn file that the rest of
the behaviour meets. The theorems below hold without these bounds.

Deadlock is checked in the `transaction` and `lifecycle` runs: a finished transaction and a
workspace in which every command has ended stutter explicitly (`Ended`, `Quiet`). The
specifications of the other modules end: a job that was planned, edited or observed is over,
and the bounds on attempts, updates and kills may leave nothing to do.

### Fairness

`Transaction!FairSpec` assumes weak fairness of the runner's own steps: the
process is sequential, a step it can take it takes, and tools end because
`_process.py` kills them at their timeout. Edits and interrupts are not fair.
`JobLifecycle!Fairness` is weak fairness of each process's own work, and none
of `Answer`: nobody has to answer a prompt, and the lock is released nevertheless.
`Migration!FairSpec` is weak fairness of the work of each process that runs a command; nobody
has to start one. `Observation!FairSpec` is weak fairness of the job's own steps, among
them `Timeout`, `AfterTerm` and `AfterKill`, which wait for a clock; no tool has to exit, and
`JobEnds` holds nevertheless, since the wait after the kill is limited too.

### Where documents and code disagree

* `AI_GUIDE.md` says that `ROLLED_BACK` means that declared paths were restored.
  An effect and its entry in the list the rollback works from are two statements of
  `_execute_locked`, and the handler also catches KeyboardInterrupt. An interrupt
  between them leaves the effect in place under a `ROLLED_BACK` manifest, and one at the
  edge of the try statement that removes a temporary leaves that (`transaction_doc`). The
  other properties except the path such an interrupt was at, and no other.
* `SPEC_V0_1.md` says that a rolled-back job may be run again. `rollback_job` marks
  the manifest before it writes log and registry. When it is killed in between, or
  a record cannot be written, the job counts as applied although its work is taken back, and
  cannot be rolled back either (`lifecycle_doc`).
* `AI_GUIDE.md` says that reuse of the path a move vacates is rejected. The planner
  accepts a directory there, since `_virtual_kind` takes a deleted path for a missing one;
  the run then fails its verification after all effects were made, and is rolled back
  (`planner_doc`). `ReusesVacatedPath` names the exception in the other properties.

## What is proved

The theorems hold for every value of the constants that satisfies the assumption of the
module (`PathAssumption` and `PlanAssumption`, `LifecycleAssumption`, `MigrationAssumption`,
`HousekeepingAssumption`, `PlannerAssumption`, `TextAssumption`, and those of `Tools` and
`Observation`): any
set of paths, plans, jobs and actions, any tree, any number of processes, commands, edits,
interrupts, kills, workspaces, databases and attempts. Every safety property that a run
checks is a theorem.

An assumption says what the code gets from elsewhere. Of paths: in `Planner` the parents of a
path are a list, the parents of a parent are what comes before it in that list, and an edit
of a text gives one text or none; in
`Observation` a path has one parent and nothing is inside itself (of every nonempty set of
paths, one has its parent outside), what is in an ignored directory is ignored, and no cache is a
child of another. Of the plans of `Transaction`: what `Planner` makes of a job, such as
directories before what is in them, and no path twice. Of texts: `\n` and `\r` are two
characters, a separator of `str.splitlines` is a third, and a diff is a sequence of lines that have
no break but at their end (`LineText`), as `splitlines` gives them.

**Transaction.** `TypeCorrect` is inductive together with the bound of the rollback
cursor (`CursorOK`).

`OriginalsAreRetained` (`WriteAhead`): the invariant `WriteAheadInv` adds that
originals are complete once the manifest exists, and that before it nothing is
touched.

`UndoneTransactionsLeaveNothing` (`UndoneIsOriginal`): the property says nothing about
a run under way, so it is far from inductive. The invariant `UndoInv` says, of a
run nobody edited under, that whatever on the disk is not as it was, and was not stranded by an
interrupt, is covered (`Coverage`): it is in a list, above the cursor of the loop that works
through it only if that loop has not passed it, or among the unresolved paths, or is
the path in hand whose entry comes next. Every effect extends the coverage before
it is verified, every step of a loop gives up only what it has restored or noted as
unresolved, and at the end of the loops coverage without unresolved paths is the
original state, but for `stranded`: an interrupt between an effect and its entry, or around
the removal of a temporary, is where the argument breaks for the path in hand, and for that
path only, since all others are in the lists by then.

`CompletedTransactionsAreAsPlanned` (`CompletedIsPlanned`): `PhaseInv` ties the status of
the manifest to the step, `StageInv` says what is on the disk at each validation stage
(the planned contents, then the formatted ones), and `FinishedInv` keeps it under a
COMPLETED manifest. `UserEditsSurvive` (`UserEditSurvives`): an edit the run had no claim
on when it was made stays unclaimed, since claims only come with an effect whose check of
the original it makes fail (`ProtectInv`). `ReportsAreHonest` (`ReportIsHonest`) follows
step by step from `UndoInv` and `PhaseInv` (`ReportInv`).

`RollbackFailuresHaveACause` (`RollbackFailureHasCause`) needs why a rollback may fail at
all. `DirsInv` says that directories were made one in another and hold only what the run
declared, so the reverse order of the `rmdir` loop finds each of them empty, unless something
was stranded in it; `CauseInv` says
that what is unresolved without an I/O error has one of the causes the property names.

`TransactionKeepsContract` (`KeepsContract`): every step of `Transaction` is one of
`PatchContract` or a stutter under `Tree` and `Verdict`, as long as nobody edits a declared
file, no interrupt strands anything, and none falls after COMPLETED was written, where a
verdict that was given is taken back (`Quiet`). The run `transaction_core` has neither edits nor
interrupts, so it satisfies `Quiet`.

**JobLifecycle.** `TypeCorrect` needs that references from records and verdicts are to
backups that exist (`ReferencesOK`). `LockExcludes` proves exclusion together with the
freshness of snapshots: who is inside holds the lock, and the registry loaded there
is still the file. From it follow `NoUpdateIsLost` (`EveryRecordCounts`), since a write
from the snapshot is then an update of the registry itself, and
`IdentityNeverChanges`, since `Updated` keeps a known hash (`IdentityIsStable`, which no
run checks by itself: it is part of what `KeepsLedger` says).

`RegistryIsDocumented` (`RecordedIsDocumented`) and `CompletedCanBeFound`
(`CompletedIsLocatable`) come from one invariant, `RecordsInv`: whoever is about to write the
registry has the log and the archived copy it will name, its job agrees with the registered
hash (`Matches`), and the content of a completed record stays in the archive under whatever
name.

What follows is about registry, files and backups only, so each step is first put in those terms
(`Comes`: one of fifteen things a step of a process can come to). `WorkInv` says what a
process inside the lock is about: a job that may proceed and has a plan with effects, or the
completed run that the registry names. `OtherJobsSurvive` (`OthersSurvive`) follows from it step
by step. `RegistryKeepsUp` (`RegistryKnows`: `AppliedOnce` and
`AppliedIsRecorded`) holds without faults. Its invariant `CleanInv` says that every
COMPLETED backup is named by the registry, or will be by the record in hand (`Concluded`), so
that registering closes the gap.

`WhatWasUndoneIsBack` (`UndoneIsBack`): rollbacks come in any order, so what a path holds is
accounted for by the runs that last (`BalanceInv`): what each of them found, and what is there now, is
paired one to one with what the others left and the original content (`Chained`). A run adds
itself to the pairing. A rollback takes itself out of it: its preflight found the path as that run
left it, so what is there afterwards may take the partner of what the run found, whichever run
left the same content last. When no run lasts, the present content has the original one as its
partner. A path whose changes were kept, or whose rollback failed, is left out (`Marred`).

`JobsAreAtomic` (`KeepsLedger`) is the refinement of `JobLedger`, with and without faults. Its
invariant `LedgerInv` says what `before` is to the process inside the lock: the files it found,
of which those now are a disturbance on the paths of its plan, and the records as they still
are. Once there is a verdict, the job in hand has come to one of three things, in terms of `before`
and of the record that will be written: it left the files alone (`Idle`), it ran (`Ran`), or it
was undone (`Undid`). When the registry is written, each is one step of `JobLedger`; a
process that leaves before that has made a `Lose`, or nothing. It uses the freshness of snapshots from
`LockExcludes`, `WorkInv`, and from `RecordsInv` that a job to be rolled back is the one
recorded and that no two IDs name one backup.

**Migration.** `TypeCorrect` needs that targets are within the migrations of an app
(`Bounded`). The rest follows from one invariant, `MigrationInv`. For each process, `ProcInv`
says which locks it holds at which step, what it has written of its own attempt, that no
attempt is unresolved when it may start one (`Clear`), and what it has seen of the database
(`Observed`). `Discipline` says what a step of one process leaves to all others: their
memory, their locks, and the records and databases it has not locked; `OthersKeep` proves
once that `ProcInv` of the others survives such a step, so that each action is examined for
its own process only. The journal changes in two ways: a record opens a question or leaves
it open (`OpenQuestion`), or answers it (`AnswerQuestion`). From this follow `LocksExclude`,
`AttemptsBlock` (`OneUnresolvedAttempt`), `JournalIsRight` (`JournalExplainsDatabase`) and
`NothingHappensUnannounced` (`ChangesAreAnnounced`).

**Housekeeping.** `FilesAreOfOneProject` (`OneProject`): a process that knows a project has
read it from the configuration, which is never replaced once it is whole (`ConfigOK`), and
a file it creates is of that project (`ScaffoldOK`).
`WhatIsFinishedStays` (`FinishedFilesStay`) is the action property of the same invariant with
`RecordOK`, by which a history record in the making belongs to its writer alone, and
`LegacyOK`, by which an old guide is whole from the start and no initialisation takes it away.
`ReplacedGuidesAreBackedUp` (`ReplacedGuideIsBackedUp`): between its last check and the
replacement the guide is the one a refresh has seen, whose backup is whole, unless an edit
came in between (`GuideOK`).

**Tools and Observation.** `OneToolRuns`, `LateAnswersDoNotPass` and `InputIsAcceptedFirst`
follow from the position of the sequence (`SequenceOK`): everything before it was accepted,
nothing after it was started, and what still runs of the past has timed out and is among the
commands whose answer is only noted. The command
list of a job is a flattening of sequences; `FlatteningExists` shows what is in it by taking
a shortest list without one.

`ReadsHold` (`ReadsAreOfOneMoment`): a change gives a path a version it never had, so a path
whose node is the same before and after a read was the same in between (`ReadingOK`).
`CleanupHolds` (`CleanupTakesBackWhatRunsLeft`): what a sweep may still remove is neither in the
ledger nor touched by others, and what it has passed is gone, was there before, was touched, or is
counted as unresolved (`Rest`, `SweepInv`). `WorkspaceHolds` (`WorkspaceIsAsFound`) needs that
a finished listing misses nothing. This is an induction over the tree, which the prover
cannot do. `WalkInv` is therefore about any group of paths that stand, each with the paths
above it: every one of them is listed, being read, among the children in hand, in a directory
on the stack, or below something not yet listed (`Accounted`). At the end a missing path would
have one whose parent is not missing. `BaselineInv` says that the first listing was complete,
and `AbsenceOK` that what is not there has no version.

**Planner.** `PlanningMeansActions` (`PlanMeansActions`) is proved with one lemma for what each
planner method adds to the overlay (`...Extends`) and one for what this means for the
workspace (`...Means`). The invariant (`PlanningIsSound`) says that the overlay has a path once,
has read what is on the disk, and relies only on directories that are planned or there
(`OverlayOK`, `DiskOK`).

`ConsentIsKept` (`ConsentCoversTheResult`): a plan promises a workspace (`Promises`): contents at
the paths it changes, and at the others what was there when it was made. The approved plan and the one
made under the lock promise the preview and the final workspace; they are equal, so the two
agree wherever the plan speaks or has looked.

`PlansFitTransaction` (`PlanFitsTransaction`): `StructureInv` says why everything is in the overlay.
Each path is asked for by an action, directories and new files are in the order in which
actions first ask for them, and no directory is asked for after something that needed it, unless
a file was there before (`AskedOK`, `DirectoriesInOrder`, `FilesInOrder`, `NothingTooLate`).

`AcceptedPlansApply` (`AcceptedPlanApplies`): with the same structure, `Applied` says what is on the
disk half way through the effects: directories needed by what the cursor has passed, net
changes of the files it has passed, and the tree from which the plan was made everywhere else,
both lists in the order of the plan. So every directory finds its place free and its
parents made, and a file still has the contents planned from. At the end the lists are
equal to those of the plan (`SameList`), unless a directory took the place of a moved
file.

**TextEdits.** A text is as long as it likes, so everything here is about what a loop computes.
The induction theorems of the library are out of reach, but induction on the numbers up to a bound is
a fact about sets (`Stepwise`, from the well-foundedness of the naturals), and so are the
functions defined along them (`Recursion`). The split of a text into lines, its rendering and its
replaced copies are all flattenings of a sequence of pieces; `Pieces` says, for any of them, where
each piece stands in the result.

`TextsStay` is the invariant: decoding, cutting, parsing and applying lead from texts to texts
(`LineParsed`, `ParsedDiff` and `AppliedDiff` carry the shape of the parser's state through a diff).
`NewlineStyleIsKept` (`KeepsNewlineStyle`): a text without `CR` that is rendered in one style
decodes to itself (`WrittenIsRead`), and rendering in CRLF leaves no `LF` without its `CR` and no
`CR` without its `LF` (`WrittenIsPaired`).
`RangeEditsStayLocal` (`RangeEditsAreLocal`): the offset of line `n + 1` is the end of line `n`
(`LinesAreTheText`), and counting breaks leads to the same place (`FirstLinesEnd`), also
in a file that ends without one. `MovesKeepAll` (`MovesLoseNothing`) uses the same lemmas for both
ways of splitting: the source is cut at physical lines, the destination at those of
`str.splitlines`. `ExactEditsChangeTheCopies` (`ExactEditsAreCounted`): what the search from
left to right finds is disjoint (`PositionsAreCopies`), and where a copy or a character
outside of all copies begins in the result is shifted by the gains of the copies before it
(`ReplacedCopies`, again step by step). The word to look for is not empty once its newlines are
normalised (`NormalizedSome`); with an empty one the last lemma would be false.

`DiffsDoWhatTheySay` (`DiffAppliesAtItsLines`) has two halves. The parser: after each line of the
diff its state holds the hunks that the lines read so far say, where what a hunk says
(`Reads`) is put in terms of the text below its header and of the open hunk (`HunkOpened`,
`HunkGrown`, `LineUnderstood`); a mark of a missing newline takes the break from the line before it
on the sides that line belongs to (`BelowChopped`). So an accepted diff is
understood (`DiffUnderstood`). The cursor goes
forward through the lines of the file and the reference goes back through its hunks, so the
invariant of the comparison joins them at a hunk in between: what the cursor has put out, with the rest
of the file as the hunks from there on leave it by hand, is the same text at every hunk (`HunkDone`,
`HunksByHand`). That needs the hunks behind to have left alone the lines above the cursor
(`Agrees`), which is what the cursor's refusal of overlapping hunks is for.

`Next` of `JobLedger` excludes stutters in so many words, for the sake of TLC, which evaluates
that conjunct first.

Some definitions have a form that suits the provers: `Kept` in place of `SelectSeq`, sets where
the order of a list does not matter (`walk.children`, `sweep.items`), and conditionals in place
of `CASE` in `Decision`, `VirtualKind` and `Style`.

Checked by TLC only: the liveness properties `RunEnds`, `LockIsReleased`, `LocksAreReleased` and
`JobEnds`, which are outside the prover's reach.

## What is left

All subsystems that keep state are modelled, and the safety properties of all of them are proved.
Still open, in the order of their worth:

1. The instance of `Transaction` that `Planner` leads to: the plan of one as the plan of
   the other, with `PlanAssumption` proved of it. `PlanFitsTransaction` has its substance.
2. An abstract specification of a migration (it happens or it does not), as `JobLedger` is
   one of a job.
3. Audit actions of the planner.

## Not modelled

Text and layout (logs, reports, documentation, diffs as shown), argument parsing, the
job language's validation, configuration parsing, hashing, the spelling rules of the path
policy, error codes and exit codes, timestamps, the read-only commands, and everything
outside `src/patchshuttle`. Symbol edits, import edits and the reference analyses work on
the syntax tree of the Python parser, which is not part of the repository; the planner
model has them as edits that succeed or are refused. A history record that was torn makes
later listings fail; listing is read-only and not modelled, the torn record is. A disk that
loses synced data is not modelled; neither is a lock on a file system without locks.
