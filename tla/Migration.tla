----------------------------- MODULE Migration -----------------------------
(***************************************************************************)
(* django_app.workflow: reviewed Django migrations.  A process reviews a    *)
(* plan without a lock; to carry it out it takes the lock of its workspace  *)
(* and the lock of the database, each tried once, finds the same plan and   *)
(* no unresolved attempt in the journal of the workspace, writes a start    *)
(* record, migrates and writes a result record.  An attempt without a good  *)
(* result is resolved only by a recovery record the owner asks for.  Other  *)
(* programs migrate without any lock, processes die, records tear.          *)
(*                                                                         *)
(* The migrations of an app are a chain; a database holds how far each app  *)
(* is applied.                                                             *)
(***************************************************************************)
EXTENDS Naturals, FiniteSets

CONSTANTS
  Proc, Workspace, Database, App,
  Top,             \* migrations per app
  Reviewable,      \* what each process may ask for: see Request
  NonAtomic,       \* migrations <<app, k>> the adapter does not support
  Irreversible,    \* migrations <<app, k>> that cannot be reversed
  NoProc,          \* nobody: holder of a free lock
  MaxAttempts,     \* bound: attempts started over all journals
  MaxChanges       \* bound: changes made by other programs

Attempt == 1..MaxAttempts
Levels == {level \in [App -> Nat] : \A a \in App : level[a] <= Top[a]}
Request == [workspace : Workspace, database : Database, app : App,
            target : Nat, reverse : BOOLEAN, reconcile : 0..MaxAttempts]

ASSUME MigrationAssumption ==
  /\ Top \in [App -> Nat] /\ MaxAttempts \in Nat /\ MaxChanges \in Nat
  /\ Reviewable \in [Proc -> SUBSET Request]
  /\ UNION {Reviewable[p] : p \in Proc} # {}
  /\ \A p \in Proc : \A r \in Reviewable[p] : r.target <= Top[r.app]
  /\ NonAtomic \subseteq App \X Nat /\ Irreversible \subseteq App \X Nat
  /\ NoProc \notin Proc

VARIABLES
  db,              \* applied migrations of each database
  sources,         \* version of the migration sources of each workspace
  journal,         \* records of each attempt
  workspaceLock, databaseLock,
  pc, request,     \* of each process
  expected,        \* plan the process was given the hash of
  attempt,         \* attempt the process started, or 0
  observed,        \* history: number of foreign changes when it last looked
  changes,         \* history: number of foreign changes
  settled          \* history: what the last good record says of a database

local == <<pc, request, expected, attempt, observed>>
vars == <<db, sources, journal, workspaceLock, databaseLock, local, changes, settled>>

Plan == [database : Database, app : App, target : Nat, reverse : BOOLEAN,
         applied : Levels, sources : Nat]

(* A record file is not there, torn (opened and not written) or whole. *)
Entry == [workspace : Workspace, plan : Plan,
          start : {"none", "torn", "STARTED"},
          result : {"none", "torn", "APPLIED", "FAILED_REVIEW_REQUIRED"},
          recovery : {"none", "torn", "OWNER_RECONCILED"}]

Outside == {"idle", "reviewed", "locking"}
Holding == {"inspecting", "reconciling", "rechecking", "starting", "migrating",
            "checking", "applied", "failing", "closing", "failed", "leaving", "unlocking"}
PCs == Outside \cup Holding

-----------------------------------------------------------------------------
(* inspect_plan *)

Direction(r) ==
  LET level == db[r.database][r.app] IN
  level = r.target \/ (r.reverse <=> level > r.target)

Inspect(r) ==
  [database |-> r.database, app |-> r.app, target |-> r.target, reverse |-> r.reverse,
   applied |-> db[r.database], sources |-> sources[r.workspace]]

(* The migrations of a plan, and the levels they lead to. *)
Steps(plan) ==
  LET level == plan.applied[plan.app] IN
  {k \in 1..Top[plan.app] : (level < k /\ k <= plan.target) \/ (plan.target < k /\ k <= level)}
Outcome(plan) == [plan.applied EXCEPT ![plan.app] = plan.target]

Supported(plan) ==
  \A k \in Steps(plan) :
    /\ <<plan.app, k>> \notin NonAtomic
    /\ plan.reverse => <<plan.app, k>> \notin Irreversible

-----------------------------------------------------------------------------
(* unresolved *)

Started(w, d) ==
  {a \in Attempt : journal[a].start = "STARTED" /\ journal[a].workspace = w
                     /\ journal[a].plan.database = d}

(* A torn start stops every database of the workspace, another torn record  *)
(* its own database.                                                        *)
Readable(w, d) ==
  /\ \A a \in Attempt : journal[a].workspace = w => journal[a].start # "torn"
  /\ \A a \in Started(w, d) :
       \/ journal[a].recovery = "OWNER_RECONCILED"
       \/ journal[a].recovery = "none" /\ journal[a].result # "torn"

(* Mutant: only an attempt without a result is blocked. *)
MutBlocked(w, d) ==
  {a \in Started(w, d) : journal[a].recovery = "none" /\ journal[a].result = "none"}

Blocked(w, d) ==
  {a \in Started(w, d) : journal[a].recovery = "none"
                           /\ journal[a].result \in {"none", "FAILED_REVIEW_REQUIRED"}}

-----------------------------------------------------------------------------
(* Before anything happened: the fields of what is not there do not matter. *)
AnyRequest == CHOOSE r \in UNION {Reviewable[p] : p \in Proc} : TRUE
NoPlan == [database |-> AnyRequest.database, app |-> AnyRequest.app, target |-> 0,
           reverse |-> FALSE, applied |-> [a \in App |-> 0], sources |-> 0]
NoEntry == [workspace |-> AnyRequest.workspace, plan |-> NoPlan,
            start |-> "none", result |-> "none", recovery |-> "none"]

Init ==
  /\ db = [d \in Database |-> [a \in App |-> 0]]
  /\ sources = [w \in Workspace |-> 0]
  /\ journal = [a \in Attempt |-> NoEntry]
  /\ workspaceLock = [w \in Workspace |-> NoProc]
  /\ databaseLock = [d \in Database |-> NoProc]
  /\ pc = [p \in Proc |-> "idle"]
  /\ request = [p \in Proc |-> AnyRequest]
  /\ expected = [p \in Proc |-> NoPlan]
  /\ attempt = [p \in Proc |-> 0]
  /\ observed = [p \in Proc |-> 0]
  /\ changes = 0
  /\ settled = [d \in Database |-> [applied |-> [a \in App |-> 0], at |-> 0]]

Goto(p, label) == pc' = [pc EXCEPT ![p] = label]
(* The process ends, and what it knew is gone. *)
Exit(p) ==
  /\ Goto(p, "idle")
  /\ request' = [request EXCEPT ![p] = AnyRequest]
  /\ expected' = [expected EXCEPT ![p] = NoPlan]
  /\ attempt' = [attempt EXCEPT ![p] = 0]
  /\ observed' = [observed EXCEPT ![p] = 0]

locks == <<workspaceLock, databaseLock>>
world == <<db, sources, changes>>

(* The command without --apply shows a plan with its hash; the command that *)
(* quotes the hash, to apply it or to reconcile an attempt, comes later.    *)
Review(p) ==
  /\ pc[p] = "idle"
  /\ \E r \in Reviewable[p] :
       /\ Direction(r)
       /\ request' = [request EXCEPT ![p] = r]
       /\ expected' = [expected EXCEPT ![p] = Inspect(r)]
  /\ Goto(p, "reviewed")
  /\ UNCHANGED <<world, journal, locks, attempt, observed, settled>>

LockWorkspace(p) ==
  LET w == request[p].workspace IN
  /\ pc[p] = "reviewed"
  /\ IF workspaceLock[w] = NoProc
       THEN /\ workspaceLock' = [workspaceLock EXCEPT ![w] = p]
            /\ Goto(p, "locking")
            /\ UNCHANGED <<request, expected, attempt, observed>>
       ELSE Exit(p) /\ UNCHANGED workspaceLock
  /\ UNCHANGED <<world, journal, databaseLock, settled>>

(* database_lock.  One lock for each database, as the advisory lock of a      *)
(* PostgreSQL server is.  The lock file of an SQLite database stands beside  *)
(* the path as it is spelled in the settings, not as the database's identity *)
(* resolves it: the model is of workspaces whose settings spell it alike.    *)
LockDatabase(p) ==
  LET d == request[p].database IN
  /\ pc[p] = "locking"
  /\ IF databaseLock[d] = NoProc
       THEN /\ databaseLock' = [databaseLock EXCEPT ![d] = p]
            /\ Goto(p, "inspecting")
       ELSE /\ Goto(p, "unlocking")
            /\ UNCHANGED databaseLock
  /\ UNCHANGED <<world, journal, workspaceLock, request, expected, attempt, observed, settled>>

Step(p, from, to) ==
  /\ pc[p] = from /\ Goto(p, to)
  /\ UNCHANGED <<world, journal, locks, request, expected, attempt, observed, settled>>

SamePlan(p) == Direction(request[p]) /\ Inspect(request[p]) = expected[p]

(* Under both locks the plan is the reviewed one and the journal decides.   *)
Accept(p) ==
  LET r == request[p]
      blocked == Blocked(r.workspace, r.database)
  IN /\ pc[p] = "inspecting"
     /\ SamePlan(p) /\ Readable(r.workspace, r.database)
     /\ IF r.reconcile # 0
          THEN r.reconcile \in blocked /\ Goto(p, "reconciling")
          ELSE /\ blocked = {}
               /\ Steps(expected[p]) # {} /\ Supported(expected[p])
               /\ Goto(p, "rechecking")
     /\ observed' = [observed EXCEPT ![p] = changes]
     /\ UNCHANGED <<world, journal, locks, request, expected, attempt, settled>>

(* Mutant: an error path that leaves without giving back the locks. *)
MutRefuse(p) == Step(p, "inspecting", "idle") \/ Step(p, "rechecking", "leaving")

(* No change, or an error: the plan changed, the journal is invalid, it     *)
(* blocks the plan or does not have the attempt to reconcile, the plan is   *)
(* not supported; or Django's checks fail, or the second look differs.      *)
Refuse(p) == Step(p, "inspecting", "leaving") \/ Step(p, "rechecking", "leaving")

Recheck(p) == SamePlan(p) /\ Step(p, "rechecking", "starting")

-----------------------------------------------------------------------------
(* write_record opens a new file, then fills it; either may fail *)

(* Attempts are numbered as they start. *)
Fresh(a) == /\ journal[a].start = "none"
            /\ \A b \in Attempt : b < a => journal[b].start # "none"

Put(a, entry) == journal' = [journal EXCEPT ![a] = entry]

OpenStart(p) ==
  /\ pc[p] = "starting" /\ attempt[p] = 0
  /\ \E a \in Attempt :
       /\ Fresh(a)
       /\ Put(a, [NoEntry EXCEPT !.workspace = request[p].workspace, !.plan = expected[p],
                                 !.start = "torn"])
       /\ attempt' = [attempt EXCEPT ![p] = a]
  /\ UNCHANGED <<world, locks, pc, request, expected, observed, settled>>

FillStart(p) ==
  /\ pc[p] = "starting" /\ attempt[p] # 0
  /\ Put(attempt[p], [journal[attempt[p]] EXCEPT !.start = "STARTED"])
  /\ Goto(p, "migrating")
  /\ UNCHANGED <<world, locks, request, expected, attempt, observed, settled>>

(* Mutant: a start record that cannot be written is no reason to stop. *)
MutStartFails(p) == Step(p, "starting", "migrating")

StartFails(p) == Step(p, "starting", "leaving")

(* One migration, in its own transaction: Django goes to the target from    *)
(* wherever the database is.                                                *)
Migrate(p) ==
  LET r == request[p]
      level == db[r.database][r.app]
  IN /\ pc[p] = "migrating" /\ level # r.target
     /\ db' = [db EXCEPT ![r.database][r.app] = IF level < r.target THEN level + 1 ELSE level - 1]
     /\ UNCHANGED <<sources, changes, journal, locks, local, settled>>

Migrated(p) ==
  db[request[p].database][request[p].app] = request[p].target /\ Step(p, "migrating", "checking")

(* Mutant: only the app that was migrated is looked at. *)
MutReached(p) ==
  /\ Direction(request[p])
  /\ Steps(Inspect(request[p])) = {}
  /\ sources[request[p].workspace] = expected[p].sources

(* The postcondition: nothing left to do, exactly the reviewed migrations   *)
(* applied, unchanged sources.                                              *)
Reached(p) ==
  /\ Direction(request[p])
  /\ Steps(Inspect(request[p])) = {}
  /\ db[request[p].database] = Outcome(expected[p])
  /\ sources[request[p].workspace] = expected[p].sources

CheckOutcome(p) ==
  /\ pc[p] = "checking" /\ Reached(p)
  /\ Goto(p, "applied")
  /\ observed' = [observed EXCEPT ![p] = changes]
  /\ UNCHANGED <<world, journal, locks, request, expected, attempt, settled>>

(* An error or an interrupt while migrating or checking. *)
MigrationFails(p) == Step(p, "migrating", "failing") \/ Step(p, "checking", "failing")

OpenResult(p) ==
  /\ \/ pc[p] = "applied" /\ Goto(p, "closing")
     \/ pc[p] = "failing" /\ Goto(p, "failed")
  /\ Put(attempt[p], [journal[attempt[p]] EXCEPT !.result = "torn"])
  /\ UNCHANGED <<world, locks, request, expected, attempt, observed, settled>>

Settle(p, levels) ==
  settled' = [settled EXCEPT ![request[p].database] = [applied |-> levels, at |-> observed[p]]]

FillResult(p) ==
  /\ \/ /\ pc[p] = "closing"
        /\ Put(attempt[p], [journal[attempt[p]] EXCEPT !.result = "APPLIED"])
        /\ Settle(p, Outcome(expected[p]))
     \/ /\ pc[p] = "failed"
        /\ Put(attempt[p], [journal[attempt[p]] EXCEPT !.result = "FAILED_REVIEW_REQUIRED"])
        /\ UNCHANGED settled
  /\ Goto(p, "leaving")
  /\ UNCHANGED <<world, locks, request, expected, attempt, observed>>

OpenRecovery(p) ==
  LET a == request[p].reconcile IN
  /\ pc[p] = "reconciling" /\ journal[a].recovery = "none"
  /\ Put(a, [journal[a] EXCEPT !.recovery = "torn"])
  /\ UNCHANGED <<world, locks, local, settled>>

FillRecovery(p) ==
  LET a == request[p].reconcile IN
  /\ pc[p] = "reconciling" /\ journal[a].recovery = "torn"
  /\ Put(a, [journal[a] EXCEPT !.recovery = "OWNER_RECONCILED"])
  /\ Settle(p, expected[p].applied)
  /\ Goto(p, "leaving")
  /\ UNCHANGED <<world, locks, request, expected, attempt, observed>>

RecordFails(p) == \E from \in {"applied", "failing", "closing", "failed", "reconciling"} :
                    Step(p, from, "leaving")

-----------------------------------------------------------------------------
(* The with statements end: first the database, then the workspace. *)
UnlockDatabase(p) ==
  /\ pc[p] = "leaving"
  /\ databaseLock' = [databaseLock EXCEPT ![request[p].database] = NoProc]
  /\ Goto(p, "unlocking")
  /\ UNCHANGED <<world, journal, workspaceLock, request, expected, attempt, observed, settled>>

UnlockWorkspace(p) ==
  /\ pc[p] = "unlocking"
  /\ workspaceLock' = [workspaceLock EXCEPT ![request[p].workspace] = NoProc]
  /\ Exit(p)
  /\ UNCHANGED <<world, journal, databaseLock, settled>>

(* The process dies; the system and the database server free its locks. *)
Crash(p) ==
  /\ pc[p] \notin {"idle", "reviewed"}
  /\ workspaceLock' = [w \in Workspace |-> IF workspaceLock[w] = p THEN NoProc ELSE workspaceLock[w]]
  /\ databaseLock' = [d \in Database |-> IF databaseLock[d] = p THEN NoProc ELSE databaseLock[d]]
  /\ Exit(p)
  /\ UNCHANGED <<world, journal, settled>>

(* Another program migrates a database, or the deployed sources change. *)
Foreign ==
  /\ changes < MaxChanges
  /\ changes' = changes + 1
  /\ \/ /\ \E d \in Database, a \in App : \E k \in 0..Top[a] :
             /\ k = db[d][a] + 1 \/ k + 1 = db[d][a]
             /\ db' = [db EXCEPT ![d][a] = k]
        /\ UNCHANGED sources
     \/ /\ \E w \in Workspace : sources' = [sources EXCEPT ![w] = changes + 1]
        /\ UNCHANGED db
  /\ UNCHANGED <<journal, locks, local, settled>>

Work(p) ==
  \/ LockWorkspace(p) \/ LockDatabase(p) \/ Accept(p) \/ Refuse(p) \/ Recheck(p)
  \/ OpenStart(p) \/ FillStart(p) \/ StartFails(p)
  \/ Migrate(p) \/ Migrated(p) \/ CheckOutcome(p) \/ MigrationFails(p)
  \/ OpenResult(p) \/ FillResult(p) \/ OpenRecovery(p) \/ FillRecovery(p) \/ RecordFails(p)
  \/ UnlockDatabase(p) \/ UnlockWorkspace(p)

Next == Foreign \/ \E p \in Proc : Review(p) \/ Work(p) \/ Crash(p)

Spec == Init /\ [][Next]_vars

(* A command that runs goes on; nobody has to start one. *)
FairSpec == Spec /\ \A p \in Proc : WF_vars(Work(p))

-----------------------------------------------------------------------------
(* Properties *)

(* Shape of the state; the fields of a record that is not there are those   *)
(* of NoEntry.                                                              *)
TypeOK ==
  /\ db \in [Database -> Levels]
  /\ sources \in [Workspace -> Nat]
  /\ journal \in [Attempt -> Entry]
  /\ workspaceLock \in [Workspace -> Proc \cup {NoProc}]
  /\ databaseLock \in [Database -> Proc \cup {NoProc}]
  /\ pc \in [Proc -> PCs]
  /\ request \in [Proc -> Request]
  /\ expected \in [Proc -> Plan]
  /\ attempt \in [Proc -> 0..MaxAttempts]
  /\ observed \in [Proc -> Nat]
  /\ changes \in Nat
  /\ settled \in [Database -> [applied : Levels, at : Nat]]

(* An attempt that was started and has neither a good result nor a recovery. *)
Unresolved(a) ==
  /\ journal[a].start = "STARTED"
  /\ journal[a].result # "APPLIED" /\ journal[a].recovery # "OWNER_RECONCILED"

(* An attempt blocks every later one on its database until it is resolved:  *)
(* whatever dies, tears or races, one journal never has two unresolved      *)
(* attempts on one database.                                                *)
OneUnresolvedAttempt ==
  \A a, b \in Attempt :
    ( /\ Unresolved(a) /\ Unresolved(b)
      /\ journal[a].workspace = journal[b].workspace
      /\ journal[a].plan.database = journal[b].plan.database ) => a = b

(* A database no attempt is unresolved for, and that other programs left    *)
(* alone since, is as the last good record says, as after the reviewed plan *)
(* or as the owner saw it.                                                  *)
JournalExplainsDatabase ==
  \A d \in Database :
    \/ \E a \in Attempt : Unresolved(a) /\ journal[a].plan.database = d
    \/ settled[d].at # changes
    \/ db[d] = settled[d].applied

(* A database changes only by the hand of others or under the lock of a     *)
(* process whose start record is on the disk, with the reviewed plan in it. *)
ChangesAreAnnounced ==
  [][\A d \in Database :
       (db'[d] # db[d] /\ changes' = changes) =>
         \E p \in Proc, a \in Attempt :
           /\ databaseLock[d] = p /\ attempt[p] = a
           /\ workspaceLock[journal[a].workspace] = p
           /\ Unresolved(a) /\ journal[a].plan = expected[p]
           /\ expected[p].database = d]_vars

(* Locks are given back: on refusals, errors and interrupts, after a crash. *)
HoldsLock(p) ==
  (\E w \in Workspace : workspaceLock[w] = p) \/ (\E d \in Database : databaseLock[d] = p)
LocksAreReleased == \A p \in Proc : HoldsLock(p) ~> ~HoldsLock(p)
=============================================================================
