--------------------------- MODULE MigrationProofs ---------------------------
(***************************************************************************)
(* Proofs about Migration, for any number of processes, workspaces,         *)
(* databases, apps, attempts and foreign changes.                           *)
(***************************************************************************)
EXTENDS Migration, TLAPS

-----------------------------------------------------------------------------
(* Type correctness *)

LEMMA Defaults ==
  /\ AnyRequest \in Request /\ NoPlan \in Plan /\ NoEntry \in Entry
  /\ [a \in App |-> 0] \in Levels
<1>1. UNION {Reviewable[p] : p \in Proc} # {} /\ Reviewable \in [Proc -> SUBSET Request]
  BY MigrationAssumption
<1>2. AnyRequest \in Request
  <2>1. AnyRequest \in UNION {Reviewable[p] : p \in Proc}
    BY <1>1 DEF AnyRequest
  <2>. QED  BY <1>1, <2>1
<1>3. [a \in App |-> 0] \in Levels
  <2>1. \A a \in App : Top[a] \in Nat
    BY MigrationAssumption
  <2>. QED  BY <2>1 DEF Levels
<1>4. NoPlan \in Plan
  BY <1>2, <1>3 DEF NoPlan, Plan, Request
<1>5. NoEntry \in Entry
  BY <1>2, <1>4 DEF NoEntry, Entry, Request
<1>. QED  BY <1>2, <1>3, <1>4, <1>5

(* What a process looks at is a plan. *)
LEMMA InspectType ==
  ASSUME TypeOK, NEW r \in Request
  PROVE  Inspect(r) \in Plan /\ Inspect(r).database = r.database
  BY DEF TypeOK, Inspect, Plan, Request

(* A migration moves a database between the levels it may be at. *)
LEMMA LevelType ==
  ASSUME NEW level \in Levels, NEW a \in App, NEW k \in 0..Top[a]
  PROVE  [level EXCEPT ![a] = k] \in Levels
<1>1. Top[a] \in Nat
  BY MigrationAssumption
<1>. QED  BY <1>1 DEF Levels

LEMMA OutcomeType ==
  ASSUME NEW plan \in Plan, plan.target <= Top[plan.app]
  PROVE  Outcome(plan) \in Levels
<1>1. plan.app \in App /\ plan.applied \in Levels /\ plan.target \in Nat
  BY DEF Plan
<1>2. Top[plan.app] \in Nat
  BY <1>1, MigrationAssumption
<1>3. plan.target \in 0..Top[plan.app]
  BY <1>1, <1>2
<1>. QED  BY <1>1, <1>3, LevelType DEF Outcome

(* The end of a command. *)
LEMMA ExitType ==
  ASSUME TypeOK, NEW p \in Proc, Exit(p)
  PROVE  /\ pc' \in [Proc -> PCs] /\ request' \in [Proc -> Request]
         /\ expected' \in [Proc -> Plan] /\ attempt' \in [Proc -> 0..MaxAttempts]
         /\ observed' \in [Proc -> Nat]
<1>1. 0 \in 0..MaxAttempts
  BY MigrationAssumption
<1>. QED  BY <1>1, Defaults DEF Exit, Goto, TypeOK, PCs, Outside

(* Writing a record: only an attempt that exists has an entry. *)
LEMMA PutType ==
  ASSUME TypeOK, NEW a \in Nat, NEW entry, a \in Attempt => entry \in Entry, Put(a, entry)
  PROVE  journal' \in [Attempt -> Entry]
  BY DEF Put, TypeOK

LEMMA EntryType ==
  ASSUME NEW e \in Entry
  PROVE  /\ [e EXCEPT !.start = "STARTED"] \in Entry
         /\ [e EXCEPT !.result = "torn"] \in Entry
         /\ [e EXCEPT !.result = "APPLIED"] \in Entry
         /\ [e EXCEPT !.result = "FAILED_REVIEW_REQUIRED"] \in Entry
         /\ [e EXCEPT !.recovery = "torn"] \in Entry
         /\ [e EXCEPT !.recovery = "OWNER_RECONCILED"] \in Entry
  BY DEF Entry

LEMMA InitTypeOK == Init => TypeOK
<1>. SUFFICES ASSUME Init PROVE TypeOK
  OBVIOUS
<1>1. 0 \in 0..MaxAttempts
  BY MigrationAssumption
<1>2. settled \in [Database -> [applied : Levels, at : Nat]]
  BY Defaults DEF Init
<1>. QED  BY <1>1, <1>2, Defaults DEF Init, TypeOK, PCs, Outside

(* What is asked for is within the migrations of the app. *)
Bounded ==
  \A p \in Proc :
    /\ request[p].target <= Top[request[p].app]
    /\ expected[p].target <= Top[expected[p].app]

TypeInv == TypeOK /\ Bounded

LEMMA AnyRequestBounded == AnyRequest.target <= Top[AnyRequest.app] /\ 0 <= Top[AnyRequest.app]
<1>1. /\ UNION {Reviewable[p] : p \in Proc} # {}
      /\ \A p \in Proc : \A r \in Reviewable[p] : r.target <= Top[r.app]
      /\ Top \in [App -> Nat]
  BY MigrationAssumption
<1>2. AnyRequest \in UNION {Reviewable[p] : p \in Proc}
  BY <1>1 DEF AnyRequest
<1>3. AnyRequest.app \in App
  BY Defaults DEF Request
<1>4. Top[AnyRequest.app] \in Nat
  BY <1>1, <1>3
<1>. QED  BY <1>1, <1>2, <1>4

LEMMA InitTypeInv == Init => TypeInv
<1>. SUFFICES ASSUME Init PROVE Bounded
  BY InitTypeOK DEF TypeInv
<1>1. NoPlan.target = 0 /\ NoPlan.app = AnyRequest.app
  BY DEF NoPlan
<1>. QED  BY <1>1, AnyRequestBounded DEF Init, Bounded

LEMMA ExitBounded ==
  ASSUME TypeInv, NEW p \in Proc, Exit(p)
  PROVE  Bounded'
<1>1. NoPlan.target = 0 /\ NoPlan.app = AnyRequest.app
  BY DEF NoPlan
<1>. QED  BY <1>1, AnyRequestBounded DEF Exit, Bounded, TypeInv, TypeOK

(* The steps of a process that changes neither its plan nor the world. *)
LEMMA StepType ==
  ASSUME TypeInv, NEW p \in Proc, NEW from, NEW to \in PCs, Step(p, from, to)
  PROVE  TypeInv'
  BY DEF Step, Goto, TypeInv, TypeOK, Bounded, world, locks

LEMMA TypeStep == TypeInv /\ [Next]_vars => TypeInv'
<1>. SUFFICES ASSUME TypeInv, [Next]_vars PROVE TypeInv'
  OBVIOUS
<1>. USE DEF TypeInv
<1>0. CASE UNCHANGED vars
  BY <1>0 DEF vars, local, TypeOK, Bounded
<1>1. ASSUME NEW p \in Proc, Review(p) PROVE TypeInv'
  <2>1. PICK r \in Reviewable[p] : /\ request' = [request EXCEPT ![p] = r]
                                   /\ expected' = [expected EXCEPT ![p] = Inspect(r)]
    BY <1>1 DEF Review
  <2>2. r \in Request /\ r.target <= Top[r.app]
    BY <2>1, MigrationAssumption
  <2>3. Inspect(r) \in Plan /\ Inspect(r).target = r.target /\ Inspect(r).app = r.app
    BY <2>2, InspectType DEF Inspect
  <2>. QED  BY <1>1, <2>1, <2>2, <2>3 DEF Review, Goto, TypeOK, Bounded, PCs, Outside, world, locks
<1>2. ASSUME NEW p \in Proc, LockWorkspace(p) PROVE TypeInv'
  <2>1. CASE workspaceLock[request[p].workspace] = NoProc
    BY <1>2, <2>1 DEF LockWorkspace, Goto, TypeOK, Bounded, PCs, Outside, world
  <2>2. CASE workspaceLock[request[p].workspace] # NoProc
    <3>1. Exit(p) /\ UNCHANGED <<workspaceLock, world, journal, databaseLock, settled>>
      BY <1>2, <2>2 DEF LockWorkspace
    <3>. QED  BY <3>1, ExitType, ExitBounded DEF TypeOK, world
  <2>. QED  BY <2>1, <2>2
<1>3. ASSUME NEW p \in Proc, LockDatabase(p) PROVE TypeInv'
  BY <1>3 DEF LockDatabase, Goto, TypeOK, Bounded, PCs, Holding, world
<1>4. ASSUME NEW p \in Proc, Accept(p) PROVE TypeInv'
  BY <1>4 DEF Accept, Goto, TypeOK, Bounded, PCs, Holding, world, locks
<1>5. ASSUME NEW p \in Proc, Refuse(p) PROVE TypeInv'
  BY <1>5, StepType DEF Refuse, PCs, Holding
<1>6. ASSUME NEW p \in Proc, Recheck(p) PROVE TypeInv'
  BY <1>6, StepType DEF Recheck, PCs, Holding
<1>7. ASSUME NEW p \in Proc, OpenStart(p) PROVE TypeInv'
  <2>. DEFINE e == [NoEntry EXCEPT !.workspace = request[p].workspace, !.plan = expected[p],
                                   !.start = "torn"]
  <2>1. e \in Entry
    BY Defaults DEF TypeOK, Entry, Request
  <2>2. PICK a \in Attempt : Put(a, e) /\ attempt' = [attempt EXCEPT ![p] = a]
    BY <1>7 DEF OpenStart
  <2>. HIDE DEF e
  <2>3. a \in Nat /\ a \in 0..MaxAttempts
    BY MigrationAssumption DEF Attempt
  <2>4. journal' \in [Attempt -> Entry]
    BY <2>1, <2>2, <2>3, PutType
  <2>. QED  BY <1>7, <2>2, <2>3, <2>4 DEF OpenStart, TypeOK, Bounded, world, locks
<1>8. ASSUME NEW p \in Proc, FillStart(p) PROVE TypeInv'
  <2>1. attempt[p] \in Nat /\ (attempt[p] \in Attempt => journal[attempt[p]] \in Entry)
    BY MigrationAssumption DEF TypeOK
  <2>2. journal' \in [Attempt -> Entry]
    BY <1>8, <2>1, EntryType, PutType DEF FillStart
  <2>. QED  BY <1>8, <2>2 DEF FillStart, Goto, TypeOK, Bounded, PCs, Holding, world, locks
<1>9. ASSUME NEW p \in Proc, StartFails(p) PROVE TypeInv'
  BY <1>9, StepType DEF StartFails, PCs, Holding
<1>10. ASSUME NEW p \in Proc, Migrate(p) PROVE TypeInv'
  <2>. DEFINE r == request[p]
              level == db[r.database][r.app]
              k == IF level < r.target THEN level + 1 ELSE level - 1
  <2>1. r.database \in Database /\ r.app \in App /\ r.target \in Nat /\ r.target <= Top[r.app]
    BY DEF TypeOK, Request, Bounded
  <2>2. db[r.database] \in Levels /\ level \in Nat /\ level <= Top[r.app] /\ Top[r.app] \in Nat
    BY <2>1, MigrationAssumption DEF TypeOK, Levels
  <2>3. level # r.target
    BY <1>10 DEF Migrate
  <2>4. k \in 0..Top[r.app]
    BY <2>1, <2>2, <2>3
  <2>5. db' = [db EXCEPT ![r.database] = [@ EXCEPT ![r.app] = k]]
    BY <1>10 DEF Migrate
  <2>. HIDE DEF k
  <2>6. [db[r.database] EXCEPT ![r.app] = k] \in Levels
    BY <2>1, <2>2, <2>4, LevelType
  <2>7. db' \in [Database -> Levels]
    BY <2>5, <2>6 DEF TypeOK
  <2>. QED  BY <1>10, <2>7 DEF Migrate, TypeOK, Bounded, local, locks
<1>11. ASSUME NEW p \in Proc, Migrated(p) PROVE TypeInv'
  BY <1>11, StepType DEF Migrated, PCs, Holding
<1>12. ASSUME NEW p \in Proc, CheckOutcome(p) PROVE TypeInv'
  BY <1>12 DEF CheckOutcome, Goto, TypeOK, Bounded, PCs, Holding, world, locks
<1>13. ASSUME NEW p \in Proc, MigrationFails(p) PROVE TypeInv'
  BY <1>13, StepType DEF MigrationFails, PCs, Holding
<1>14. ASSUME NEW p \in Proc, OpenResult(p) PROVE TypeInv'
  <2>1. attempt[p] \in Nat /\ (attempt[p] \in Attempt => journal[attempt[p]] \in Entry)
    BY MigrationAssumption DEF TypeOK
  <2>2. journal' \in [Attempt -> Entry]
    BY <1>14, <2>1, EntryType, PutType DEF OpenResult
  <2>. QED  BY <1>14, <2>2 DEF OpenResult, Goto, TypeOK, Bounded, PCs, Holding, world, locks
<1>15. ASSUME NEW p \in Proc, FillResult(p) PROVE TypeInv'
  <2>1. attempt[p] \in Nat /\ (attempt[p] \in Attempt => journal[attempt[p]] \in Entry)
    BY MigrationAssumption DEF TypeOK
  <2>2. journal' \in [Attempt -> Entry]
    BY <1>15, <2>1, EntryType, PutType DEF FillResult
  <2>3. Outcome(expected[p]) \in Levels
    BY OutcomeType DEF TypeOK, Bounded
  <2>4. settled' \in [Database -> [applied : Levels, at : Nat]]
    BY <1>15, <2>3 DEF FillResult, Settle, TypeOK
  <2>. QED  BY <1>15, <2>2, <2>4 DEF FillResult, Goto, TypeOK, Bounded, PCs, Holding, world, locks
<1>16. ASSUME NEW p \in Proc, OpenRecovery(p) PROVE TypeInv'
  <2>. DEFINE a == request[p].reconcile
  <2>1. a \in Nat /\ (a \in Attempt => journal[a] \in Entry)
    BY MigrationAssumption DEF TypeOK, Request
  <2>2. journal' \in [Attempt -> Entry]
    BY <1>16, <2>1, EntryType, PutType DEF OpenRecovery
  <2>. QED  BY <1>16, <2>2 DEF OpenRecovery, TypeOK, Bounded, world, locks, local
<1>17. ASSUME NEW p \in Proc, FillRecovery(p) PROVE TypeInv'
  <2>. DEFINE a == request[p].reconcile
  <2>1. a \in Nat /\ (a \in Attempt => journal[a] \in Entry)
    BY MigrationAssumption DEF TypeOK, Request
  <2>2. journal' \in [Attempt -> Entry]
    BY <1>17, <2>1, EntryType, PutType DEF FillRecovery
  <2>3. settled' \in [Database -> [applied : Levels, at : Nat]]
    BY <1>17 DEF FillRecovery, Settle, TypeOK, Plan
  <2>. QED  BY <1>17, <2>2, <2>3 DEF FillRecovery, Goto, TypeOK, Bounded, PCs, Holding, world, locks
<1>18. ASSUME NEW p \in Proc, RecordFails(p) PROVE TypeInv'
  BY <1>18, StepType DEF RecordFails, PCs, Holding
<1>19. ASSUME NEW p \in Proc, UnlockDatabase(p) PROVE TypeInv'
  BY <1>19 DEF UnlockDatabase, Goto, TypeOK, Bounded, PCs, Holding, world
<1>20. ASSUME NEW p \in Proc, UnlockWorkspace(p) PROVE TypeInv'
  <2>1. workspaceLock' \in [Workspace -> Proc \cup {NoProc}]
    BY <1>20 DEF UnlockWorkspace, TypeOK
  <2>2. Exit(p) /\ UNCHANGED <<world, journal, databaseLock, settled>>
    BY <1>20 DEF UnlockWorkspace
  <2>. QED  BY <2>1, <2>2, ExitType, ExitBounded DEF TypeOK, world
<1>21. ASSUME NEW p \in Proc, Crash(p) PROVE TypeInv'
  <2>1. /\ workspaceLock' \in [Workspace -> Proc \cup {NoProc}]
        /\ databaseLock' \in [Database -> Proc \cup {NoProc}]
    BY <1>21 DEF Crash, TypeOK
  <2>2. Exit(p) /\ UNCHANGED <<world, journal, settled>>
    BY <1>21 DEF Crash
  <2>. QED  BY <2>1, <2>2, ExitType, ExitBounded DEF TypeOK, world
<1>22. CASE Foreign
  <2>1. changes' \in Nat
    BY <1>22 DEF Foreign, TypeOK
  <2>2. ASSUME NEW d \in Database, NEW a \in App, NEW k \in 0..Top[a],
               db' = [db EXCEPT ![d][a] = k]
        PROVE  db' \in [Database -> Levels]
    <3>1. db[d] \in Levels
      BY DEF TypeOK
    <3>2. [db[d] EXCEPT ![a] = k] \in Levels
      BY <3>1, LevelType
    <3>. QED  BY <2>2, <3>2 DEF TypeOK
  <2>3. db' \in [Database -> Levels]
    BY <1>22, <2>2 DEF Foreign, TypeOK
  <2>4. sources' \in [Workspace -> Nat]
    BY <1>22 DEF Foreign, TypeOK
  <2>. QED  BY <1>22, <2>1, <2>3, <2>4 DEF Foreign, TypeOK, Bounded, locks, local
<1>. QED
  BY <1>0, <1>1, <1>2, <1>3, <1>4, <1>5, <1>6, <1>7, <1>8, <1>9, <1>10, <1>11, <1>12, <1>13,
     <1>14, <1>15, <1>16, <1>17, <1>18, <1>19, <1>20, <1>21, <1>22 DEF Next, Work

(* Every variable keeps its type: databases stay within their migrations,   *)
(* whoever migrates them.                                                   *)
THEOREM TypeCorrect == Spec => []TypeOK
<1>1. Spec => []TypeInv
  BY InitTypeInv, TypeStep, PTL DEF Spec
<1>. QED  BY <1>1, PTL DEF TypeInv
-----------------------------------------------------------------------------
(* Locks and what is known under them *)

(* A process between taking and leaving a lock holds it. *)
Held(p) ==
  /\ pc[p] \in Holding \cup {"locking"} => workspaceLock[request[p].workspace] = p
  /\ pc[p] \in Holding \ {"unlocking"} => databaseLock[request[p].database] = p

(* The plan a process quotes is one of the database it locks. *)
Agreed(p) == pc[p] # "idle" => expected[p].database = request[p].database

Trying == {"starting", "migrating", "checking", "applied", "failing", "closing", "failed",
           "leaving", "unlocking"}

(* An attempt a process started has its record in the journal under the     *)
(* lock of the process, and no other record before the process writes it.   *)
OwnAttempt(p) ==
  /\ attempt[p] # 0 =>
       /\ pc[p] \in Trying
       /\ journal[attempt[p]].start # "none"
       /\ journal[attempt[p]].workspace = request[p].workspace
       /\ journal[attempt[p]].plan = expected[p]
  /\ (pc[p] = "starting" /\ attempt[p] # 0) =>
       journal[attempt[p]].result = "none" /\ journal[attempt[p]].recovery = "none"
  /\ pc[p] \in {"migrating", "checking", "applied", "failing", "closing", "failed"} =>
       /\ attempt[p] # 0
       /\ journal[attempt[p]].start = "STARTED" /\ journal[attempt[p]].recovery = "none"
       /\ journal[attempt[p]].result =
            IF pc[p] \in {"closing", "failed"} THEN "torn" ELSE "none"

(* An attempt a process reconciles is one of its workspace and database. *)
OwnRecovery(p) ==
  pc[p] = "reconciling" =>
    LET a == request[p].reconcile IN
    /\ a \in Attempt
    /\ journal[a].start = "STARTED" /\ journal[a].result # "APPLIED"
    /\ journal[a].workspace = request[p].workspace
    /\ journal[a].plan.database = request[p].database

Concerns(a, w, d) == journal[a].workspace = w /\ journal[a].plan.database = d

(* A process that may start an attempt has seen that none is unresolved. *)
Clear(p) ==
  pc[p] \in {"rechecking", "starting"} =>
    \A a \in Attempt :
      Concerns(a, request[p].workspace, request[p].database) => ~Unresolved(a)

(* What a process has seen of the database holds until others change it. *)
Observed(p) ==
  /\ observed[p] <= changes
  /\ (pc[p] \in {"applied", "closing"} /\ observed[p] = changes) =>
       db[request[p].database] = Outcome(expected[p])
  /\ (pc[p] = "reconciling" /\ observed[p] = changes) =>
       db[request[p].database] = expected[p].applied

ProcInv(p) ==
  /\ Held(p) /\ Agreed(p) /\ OwnAttempt(p) /\ OwnRecovery(p) /\ Clear(p) /\ Observed(p)

JournalInv ==
  /\ OneUnresolvedAttempt /\ JournalExplainsDatabase
  /\ \A d \in Database : settled[d].at <= changes

MigrationInv == TypeInv /\ JournalInv /\ \A p \in Proc : ProcInv(p)

(* What a step of p leaves to the others: their memory, their locks, the    *)
(* entries of workspaces and the databases it has not locked.               *)
Discipline(p) ==
  /\ \A q \in Proc \ {p} :
       /\ pc'[q] = pc[q] /\ request'[q] = request[q] /\ expected'[q] = expected[q]
       /\ attempt'[q] = attempt[q] /\ observed'[q] = observed[q]
       /\ \A w \in Workspace : workspaceLock[w] = q => workspaceLock'[w] = q
       /\ \A d \in Database : databaseLock[d] = q => databaseLock'[d] = q
  /\ \A a \in Attempt : journal'[a] # journal[a] =>
       /\ workspaceLock[journal'[a].workspace] = p
       /\ journal[a].start # "none" => workspaceLock[journal[a].workspace] = p
  /\ \A d \in Database : db'[d] # db[d] => databaseLock[d] = p
  /\ changes' = changes

(* What others know under their locks survives such a step. *)
LEMMA OthersKeep ==
  ASSUME TypeInv, TypeInv', NEW p \in Proc, Discipline(p),
         NEW q \in Proc \ {p}, ProcInv(q)
  PROVE  ProcInv(q)'
<1>1. /\ pc'[q] = pc[q] /\ request'[q] = request[q] /\ expected'[q] = expected[q]
      /\ attempt'[q] = attempt[q] /\ observed'[q] = observed[q]
  BY DEF Discipline
<1>2. /\ request[q].workspace \in Workspace /\ request[q].database \in Database
      /\ q \in Proc /\ q # p
  BY DEF TypeInv, TypeOK, Request
<1>3. Held(q)'
  BY <1>1, <1>2 DEF Discipline, ProcInv, Held
<1>4. Agreed(q)'
  BY <1>1 DEF ProcInv, Agreed
<1>5. \A a \in Attempt :
        ( /\ journal[a].workspace = request[q].workspace /\ journal[a].start # "none"
          /\ pc[q] \in Holding ) => journal'[a] = journal[a]
  BY <1>2 DEF Discipline, ProcInv, Held
<1>6. OwnAttempt(q)'
  <2>1. attempt[q] \in 0..MaxAttempts /\ MaxAttempts \in Nat
    BY <1>2, MigrationAssumption DEF TypeInv, TypeOK
  <2>2. attempt[q] # 0 => journal'[attempt[q]] = journal[attempt[q]]
    <3>1. attempt[q] # 0 => attempt[q] \in Attempt
      BY <2>1 DEF Attempt
    <3>2. Trying \subseteq Holding
      BY DEF Trying, Holding
    <3>. QED  BY <1>5, <3>1, <3>2 DEF ProcInv, OwnAttempt
  <2>3. CASE attempt[q] = 0
    BY <1>1, <2>3 DEF ProcInv, OwnAttempt
  <2>4. CASE attempt[q] # 0
    BY <1>1, <2>2, <2>4 DEF ProcInv, OwnAttempt
  <2>. QED  BY <2>3, <2>4
<1>7. OwnRecovery(q)'
  <2>. SUFFICES ASSUME pc[q] = "reconciling" PROVE OwnRecovery(q)'
    BY <1>1 DEF OwnRecovery
  <2>1. journal'[request[q].reconcile] = journal[request[q].reconcile]
    BY <1>5 DEF ProcInv, OwnRecovery, Holding
  <2>. QED  BY <1>1, <2>1 DEF ProcInv, OwnRecovery
<1>8. Clear(q)'
  <2>. SUFFICES ASSUME pc[q] \in {"rechecking", "starting"}, NEW a \in Attempt,
                       Concerns(a, request[q].workspace, request[q].database)'
                PROVE  ~Unresolved(a)'
    BY <1>1 DEF Clear, Concerns
  <2>1. journal'[a].workspace = request[q].workspace
        /\ journal'[a].plan.database = request[q].database
    BY <1>1 DEF Concerns
  <2>2. workspaceLock[request[q].workspace] = q
    BY DEF ProcInv, Held, Holding
  <2>3. journal'[a] = journal[a]
    BY <1>2, <2>1, <2>2 DEF Discipline
  <2>. QED  BY <2>1, <2>3 DEF ProcInv, Clear, Concerns, Unresolved
<1>9. Observed(q)'
  <2>1. changes' = changes
    BY DEF Discipline
  <2>2. pc[q] \in {"applied", "closing", "reconciling"} =>
          db'[request[q].database] = db[request[q].database]
    BY <1>2 DEF Discipline, ProcInv, Held, Holding
  <2>. QED  BY <1>1, <2>1, <2>2 DEF ProcInv, Observed, Outcome
<1>. QED  BY <1>3, <1>4, <1>6, <1>7, <1>8, <1>9 DEF ProcInv

LEMMA RequestType ==
  ASSUME TypeOK, NEW p \in Proc
  PROVE  /\ request[p].workspace \in Workspace /\ request[p].database \in Database
         /\ request[p].app \in App /\ request[p].reconcile \in 0..MaxAttempts
         /\ expected[p] \in Plan /\ observed[p] \in Nat /\ changes \in Nat
         /\ attempt[p] # 0 => attempt[p] \in Attempt
         /\ \A a \in Attempt : journal[a].workspace \in Workspace
<1>1. /\ request[p].workspace \in Workspace /\ request[p].database \in Database
      /\ request[p].app \in App /\ request[p].reconcile \in 0..MaxAttempts
      /\ expected[p] \in Plan /\ observed[p] \in Nat /\ changes \in Nat
  BY DEF TypeOK, Request
<1>2. attempt[p] \in 0..MaxAttempts /\ MaxAttempts \in Nat
  BY MigrationAssumption DEF TypeOK
<1>3. attempt[p] # 0 => attempt[p] \in Attempt
  BY <1>2 DEF Attempt
<1>4. \A a \in Attempt : journal[a].workspace \in Workspace
  BY DEF TypeOK, Entry
<1>. QED  BY <1>1, <1>3, <1>4

(* A step that writes no record and moves no database. *)
LEMMA QuietJournal ==
  ASSUME JournalInv, UNCHANGED <<db, changes, journal, settled>>
  PROVE  JournalInv'
  BY DEF JournalInv, OneUnresolvedAttempt, JournalExplainsDatabase, Unresolved

(* Going on without doing anything. *)
LEMMA StepKeeps ==
  ASSUME MigrationInv, NEW p \in Proc, NEW from, NEW to \in PCs, Step(p, from, to)
  PROVE  Discipline(p) /\ JournalInv'
<1>1. Discipline(p)
  BY DEF Step, Goto, Discipline, world, locks, MigrationInv, TypeInv, TypeOK
<1>2. JournalInv'
  BY QuietJournal DEF Step, world, MigrationInv
<1>. QED  BY <1>1, <1>2

(* On the way out. *)
LEMMA LeavingKeeps ==
  ASSUME MigrationInv, NEW p \in Proc,
         NEW from \in {"inspecting", "rechecking", "starting", "applied", "failing", "closing",
                       "failed", "reconciling"},
         Step(p, from, "leaving")
  PROVE  ProcInv(p)' /\ Discipline(p) /\ JournalInv'
<1>1. Discipline(p) /\ JournalInv'
  BY StepKeeps DEF PCs, Holding
<1>2. /\ pc[p] = from /\ pc'[p] = "leaving"
      /\ UNCHANGED <<db, sources, changes, journal, workspaceLock, databaseLock,
                     request, expected, attempt, observed>>
  BY DEF Step, Goto, world, locks, MigrationInv, TypeInv, TypeOK
<1>3. from \in Holding \ {"unlocking"} /\ from # "idle"
  BY DEF Holding
<1>4. ProcInv(p)
  BY DEF MigrationInv
<1>5. Held(p)' /\ Agreed(p)'
  BY <1>2, <1>3, <1>4 DEF ProcInv, Held, Agreed
<1>6. OwnAttempt(p)' /\ OwnRecovery(p)' /\ Clear(p)' /\ Observed(p)'
  BY <1>2, <1>4 DEF ProcInv, OwnAttempt, Trying, OwnRecovery, Clear, Observed
<1>. QED  BY <1>1, <1>5, <1>6 DEF ProcInv

(* Memory of nothing. *)
LEMMA ExitKeeps ==
  ASSUME MigrationInv, NEW p \in Proc, Exit(p), changes' = changes
  PROVE  /\ ProcInv(p)'
         /\ \A q \in Proc \ {p} :
              /\ pc'[q] = pc[q] /\ request'[q] = request[q] /\ expected'[q] = expected[q]
              /\ attempt'[q] = attempt[q] /\ observed'[q] = observed[q]
<1>1. pc'[p] = "idle" /\ attempt'[p] = 0 /\ observed'[p] = 0
  BY DEF Exit, Goto, MigrationInv, TypeInv, TypeOK
<1>2. changes \in Nat
  BY DEF MigrationInv, TypeInv, TypeOK
<1>3. ProcInv(p)'
  BY <1>1, <1>2 DEF ProcInv, Held, Holding, Agreed, OwnAttempt, OwnRecovery, Clear, Observed
<1>. QED  BY <1>3 DEF Exit, Goto, MigrationInv, TypeInv, TypeOK

(* Locks are taken when they are free, and given back by who holds them. *)
LEMMA LockingKeeps ==
  ASSUME MigrationInv, NEW p \in Proc,
         \/ Review(p) \/ LockWorkspace(p) \/ LockDatabase(p)
         \/ UnlockDatabase(p) \/ UnlockWorkspace(p) \/ Crash(p)
  PROVE  ProcInv(p)' /\ Discipline(p) /\ JournalInv'
<1>. USE DEF MigrationInv, TypeInv
<1>1. /\ request[p].workspace \in Workspace /\ request[p].database \in Database
      /\ ProcInv(p) /\ p # NoProc /\ \A q \in Proc : q # NoProc
  BY RequestType, MigrationAssumption
<1>2. CASE Review(p)
  <2>1. PICK r \in Reviewable[p] : /\ request' = [request EXCEPT ![p] = r]
                                   /\ expected' = [expected EXCEPT ![p] = Inspect(r)]
    BY <1>2 DEF Review
  <2>2. request'[p] = r /\ expected'[p].database = r.database /\ pc'[p] = "reviewed"
    BY <1>2, <2>1 DEF Review, Goto, TypeOK, Inspect
  <2>3. /\ UNCHANGED <<db, changes, journal, locks, attempt, observed, settled>>
        /\ pc[p] = "idle"
    BY <1>2 DEF Review, world
  <2>4. ProcInv(p)'
    BY <1>1, <2>2, <2>3
    DEF ProcInv, Held, Holding, Agreed, OwnAttempt, Trying, OwnRecovery, Clear, Observed
  <2>5. Discipline(p)
    BY <1>2, <2>1, <2>3 DEF Review, Goto, Discipline, TypeOK, locks
  <2>. QED  BY <2>3, <2>4, <2>5, QuietJournal
<1>3. CASE LockWorkspace(p)
  <2>1. UNCHANGED <<db, changes, journal, databaseLock, settled>> /\ pc[p] = "reviewed"
    BY <1>3 DEF LockWorkspace, world
  <2>2. CASE workspaceLock[request[p].workspace] = NoProc
    <3>1. /\ workspaceLock' = [workspaceLock EXCEPT ![request[p].workspace] = p]
          /\ pc' = [pc EXCEPT ![p] = "locking"]
          /\ UNCHANGED <<request, expected, attempt, observed>>
      BY <1>3, <2>2 DEF LockWorkspace, Goto
    <3>2. ProcInv(p)'
      BY <1>1, <2>1, <3>1
      DEF TypeOK, ProcInv, Held, Holding, Agreed, OwnAttempt, Trying, OwnRecovery, Clear, Observed
    <3>3. Discipline(p)
      BY <1>1, <2>1, <2>2, <3>1 DEF Discipline, TypeOK
    <3>. QED  BY <2>1, <3>2, <3>3, QuietJournal
  <2>3. CASE workspaceLock[request[p].workspace] # NoProc
    <3>1. Exit(p) /\ UNCHANGED workspaceLock
      BY <1>3, <2>3 DEF LockWorkspace
    <3>2. ProcInv(p)' /\ Discipline(p)
      BY <2>1, <3>1, ExitKeeps DEF Discipline
    <3>. QED  BY <2>1, <3>2, QuietJournal
  <2>. QED  BY <2>2, <2>3
<1>4. CASE LockDatabase(p)
  <2>1. /\ UNCHANGED <<db, changes, journal, workspaceLock, settled, request, expected,
                       attempt, observed>>
        /\ pc[p] = "locking"
        /\ \/ /\ databaseLock[request[p].database] = NoProc
              /\ databaseLock' = [databaseLock EXCEPT ![request[p].database] = p]
              /\ pc' = [pc EXCEPT ![p] = "inspecting"]
           \/ databaseLock' = databaseLock /\ pc' = [pc EXCEPT ![p] = "unlocking"]
    BY <1>4 DEF LockDatabase, Goto, world
  <2>2. ProcInv(p)'
    BY <1>1, <2>1
    DEF TypeOK, ProcInv, Held, Holding, Agreed, OwnAttempt, Trying, OwnRecovery, Clear, Observed
  <2>3. Discipline(p)
    BY <1>1, <2>1 DEF Discipline, TypeOK
  <2>. QED  BY <2>1, <2>2, <2>3, QuietJournal
<1>5. CASE UnlockDatabase(p)
  <2>1. /\ UNCHANGED <<db, changes, journal, workspaceLock, settled, request, expected,
                       attempt, observed>>
        /\ pc[p] = "leaving" /\ pc' = [pc EXCEPT ![p] = "unlocking"]
        /\ databaseLock' = [databaseLock EXCEPT ![request[p].database] = NoProc]
    BY <1>5 DEF UnlockDatabase, Goto, world
  <2>2. databaseLock[request[p].database] = p
    BY <1>1, <2>1 DEF ProcInv, Held, Holding
  <2>3. ProcInv(p)'
    BY <1>1, <2>1
    DEF TypeOK, ProcInv, Held, Holding, Agreed, OwnAttempt, Trying, OwnRecovery, Clear, Observed
  <2>4. Discipline(p)
    BY <1>1, <2>1, <2>2 DEF Discipline, TypeOK
  <2>. QED  BY <2>1, <2>3, <2>4, QuietJournal
<1>6. CASE UnlockWorkspace(p)
  <2>1. /\ UNCHANGED <<db, changes, journal, databaseLock, settled>>
        /\ pc[p] = "unlocking" /\ Exit(p)
        /\ workspaceLock' = [workspaceLock EXCEPT ![request[p].workspace] = NoProc]
    BY <1>6 DEF UnlockWorkspace, world
  <2>2. workspaceLock[request[p].workspace] = p
    BY <1>1, <2>1 DEF ProcInv, Held, Holding
  <2>3. \A w \in Workspace, q \in Proc \ {p} : workspaceLock[w] = q => workspaceLock'[w] = q
    BY <1>1, <2>1, <2>2 DEF TypeOK
  <2>4. ProcInv(p)' /\ Discipline(p)
    BY <2>1, <2>3, ExitKeeps DEF Discipline
  <2>. QED  BY <2>1, <2>4, QuietJournal
<1>7. CASE Crash(p)
  <2>1. UNCHANGED <<db, changes, journal, settled>> /\ Exit(p)
    BY <1>7 DEF Crash, world
  <2>2. /\ \A w \in Workspace, q \in Proc \ {p} : workspaceLock[w] = q => workspaceLock'[w] = q
        /\ \A d \in Database, q \in Proc \ {p} : databaseLock[d] = q => databaseLock'[d] = q
    BY <1>7 DEF Crash
  <2>3. ProcInv(p)' /\ Discipline(p)
    BY <2>1, <2>2, ExitKeeps DEF Discipline
  <2>. QED  BY <2>1, <2>3, QuietJournal
<1>. QED  BY <1>2, <1>3, <1>4, <1>5, <1>6, <1>7
(* What the journal gives a process that it lets through.                   *)
LEMMA AcceptKeeps ==
  ASSUME MigrationInv, NEW p \in Proc, Accept(p)
  PROVE  ProcInv(p)' /\ Discipline(p) /\ JournalInv'
<1>. USE DEF MigrationInv, TypeInv
<1>. DEFINE w == request[p].workspace
            d == request[p].database
<1>1. /\ pc[p] = "inspecting" /\ ProcInv(p) /\ SamePlan(p) /\ Readable(w, d)
      /\ UNCHANGED <<db, changes, journal, workspaceLock, databaseLock, settled,
                     request, expected, attempt>>
      /\ observed' = [observed EXCEPT ![p] = changes]
      /\ \/ request[p].reconcile \in Blocked(w, d) /\ pc' = [pc EXCEPT ![p] = "reconciling"]
         \/ Blocked(w, d) = {} /\ pc' = [pc EXCEPT ![p] = "rechecking"]
  BY DEF Accept, Goto, world, locks
<1>2. /\ observed'[p] = changes /\ changes \in Nat /\ attempt[p] = 0
      /\ pc'[p] \in {"reconciling", "rechecking"}
  BY <1>1, RequestType DEF TypeOK, ProcInv, OwnAttempt, Trying
<1>3. Held(p)' /\ Agreed(p)' /\ OwnAttempt(p)'
  BY <1>1, <1>2 DEF ProcInv, Held, Holding, Agreed, OwnAttempt, Trying
<1>4. OwnRecovery(p)'
  <2>. SUFFICES ASSUME pc'[p] = "reconciling" PROVE OwnRecovery(p)'
    BY DEF OwnRecovery
  <2>1. request[p].reconcile \in Blocked(w, d)
    BY <1>1 DEF TypeOK
  <2>. QED  BY <1>1, <2>1 DEF OwnRecovery, Blocked, Started
<1>5. Clear(p)'
  <2>. SUFFICES ASSUME pc'[p] = "rechecking", NEW a \in Attempt, Concerns(a, w, d), Unresolved(a)
                PROVE  FALSE
    BY <1>1, <1>2 DEF Clear, Concerns, Unresolved
  <2>1. Blocked(w, d) = {}
    BY <1>1 DEF TypeOK
  <2>2. a \in Started(w, d) /\ journal[a] \in Entry
    BY DEF Unresolved, Concerns, Started, TypeOK
  <2>3. journal[a].recovery = "none" /\ journal[a].result # "torn"
    BY <1>1, <2>2 DEF Readable, Unresolved
  <2>4. journal[a].result \in {"none", "FAILED_REVIEW_REQUIRED"}
    BY <2>2, <2>3 DEF Entry, Unresolved
  <2>. QED  BY <2>1, <2>2, <2>3, <2>4 DEF Blocked
<1>6. Observed(p)'
  <2>1. expected[p] = Inspect(request[p])
    BY <1>1 DEF SamePlan
  <2>2. expected[p].applied = db[d]
    BY <2>1 DEF Inspect
  <2>. QED  BY <1>1, <1>2, <2>2 DEF Observed
<1>7. Discipline(p)
  BY <1>1 DEF Discipline, TypeOK
<1>. QED  BY <1>1, <1>3, <1>4, <1>5, <1>6, <1>7, QuietJournal DEF ProcInv

(* Steps under the locks that write no record. *)
LEMMA WorkingKeeps ==
  ASSUME MigrationInv, NEW p \in Proc,
         Recheck(p) \/ Migrated(p) \/ CheckOutcome(p) \/ MigrationFails(p)
  PROVE  ProcInv(p)' /\ Discipline(p) /\ JournalInv'
<1>. USE DEF MigrationInv, TypeInv
<1>1. ProcInv(p) /\ observed[p] \in Nat /\ changes \in Nat
  BY RequestType
<1>2. ASSUME NEW from \in {"rechecking", "migrating", "checking"},
             NEW to \in {"starting", "checking", "failing"},
             Step(p, from, to), from = "rechecking" <=> to = "starting"
      PROVE  ProcInv(p)' /\ Discipline(p) /\ JournalInv'
  <2>1. Discipline(p) /\ JournalInv'
    BY <1>2, StepKeeps DEF PCs, Holding
  <2>2. /\ pc[p] = from /\ pc'[p] = to
        /\ UNCHANGED <<db, changes, journal, workspaceLock, databaseLock, request, expected,
                       attempt, observed>>
    BY <1>2 DEF Step, Goto, world, locks, TypeOK
  <2>3. Held(p)' /\ Agreed(p)' /\ OwnRecovery(p)' /\ Observed(p)'
    BY <1>1, <1>2, <2>2 DEF ProcInv, Held, Holding, Agreed, OwnRecovery, Observed
  <2>4. Clear(p)'
    BY <1>1, <1>2, <2>2 DEF ProcInv, Clear, Concerns, Unresolved
  <2>5. OwnAttempt(p)'
    BY <1>1, <1>2, <2>2 DEF ProcInv, OwnAttempt, Trying
  <2>. QED  BY <2>1, <2>3, <2>4, <2>5 DEF ProcInv
<1>3. CASE CheckOutcome(p)
  <2>1. /\ pc[p] = "checking" /\ pc' = [pc EXCEPT ![p] = "applied"]
        /\ db[request[p].database] = Outcome(expected[p])
        /\ observed' = [observed EXCEPT ![p] = changes]
        /\ UNCHANGED <<db, changes, journal, workspaceLock, databaseLock, settled, request,
                       expected, attempt>>
    BY <1>3 DEF CheckOutcome, Reached, Goto, world, locks
  <2>2. pc'[p] = "applied" /\ observed'[p] = changes
    BY <2>1 DEF TypeOK
  <2>3. Held(p)' /\ Agreed(p)' /\ OwnRecovery(p)' /\ Clear(p)'
    BY <1>1, <2>1, <2>2 DEF ProcInv, Held, Holding, Agreed, OwnRecovery, Clear
  <2>4. OwnAttempt(p)' /\ Observed(p)'
    BY <1>1, <2>1, <2>2 DEF ProcInv, OwnAttempt, Trying, Observed, Outcome
  <2>5. Discipline(p)
    BY <2>1 DEF Discipline, TypeOK
  <2>. QED  BY <2>1, <2>3, <2>4, <2>5, QuietJournal DEF ProcInv
<1>. QED  BY <1>2, <1>3 DEF Recheck, Migrated, MigrationFails

(* A migration moves only the database that is locked for an attempt that   *)
(* is started and unresolved.                                               *)
LEMMA MigrateUnderLocks ==
  ASSUME MigrationInv, NEW p \in Proc, Migrate(p)
  PROVE  LET a == attempt[p]  d == request[p].database IN
         /\ a \in Attempt /\ d \in Database
         /\ databaseLock[d] = p /\ workspaceLock[journal[a].workspace] = p
         /\ Unresolved(a) /\ journal[a].plan = expected[p] /\ expected[p].database = d
         /\ \A e \in Database \ {d} : db'[e] = db[e]
<1>1. pc[p] = "migrating" /\ ProcInv(p)
  BY DEF Migrate, MigrationInv
<1>2. attempt[p] # 0 /\ attempt[p] \in Attempt /\ request[p].database \in Database
  BY <1>1, RequestType DEF ProcInv, OwnAttempt, MigrationInv, TypeInv
<1>3. \A e \in Database \ {request[p].database} : db'[e] = db[e]
  BY DEF Migrate, MigrationInv, TypeInv, TypeOK
<1>. QED
  BY <1>1, <1>2, <1>3 DEF ProcInv, OwnAttempt, Held, Holding, Agreed, Unresolved

LEMMA MigrateKeeps ==
  ASSUME MigrationInv, NEW p \in Proc, Migrate(p)
  PROVE  ProcInv(p)' /\ Discipline(p) /\ JournalInv'
<1>. USE DEF MigrationInv, TypeInv
<1>. DEFINE d == request[p].database
<1>1. /\ pc[p] = "migrating" /\ ProcInv(p)
      /\ UNCHANGED <<changes, journal, workspaceLock, databaseLock, pc, request, expected,
                     attempt, observed, settled>>
  BY DEF Migrate, local, locks
<1>2. ProcInv(p)'
  BY <1>1 DEF ProcInv, Held, Agreed, OwnAttempt, OwnRecovery, Clear, Observed
<1>3. Discipline(p)
  BY <1>1, MigrateUnderLocks DEF Discipline
<1>4. OneUnresolvedAttempt'
  BY <1>1 DEF JournalInv, OneUnresolvedAttempt, Unresolved
<1>5. JournalExplainsDatabase'
  <2>. SUFFICES ASSUME NEW e \in Database
                PROVE  \/ \E a \in Attempt : Unresolved(a)' /\ journal'[a].plan.database = e
                       \/ settled'[e].at # changes'
                       \/ db'[e] = settled'[e].applied
    BY DEF JournalExplainsDatabase
  <2>1. CASE e = d
    BY <1>1, <2>1, MigrateUnderLocks DEF Unresolved
  <2>2. CASE e # d
    BY <1>1, <2>2, MigrateUnderLocks DEF Unresolved, JournalInv, JournalExplainsDatabase
  <2>. QED  BY <2>1, <2>2
<1>. QED  BY <1>1, <1>2, <1>3, <1>4, <1>5 DEF JournalInv

LEMMA PutEffect ==
  ASSUME TypeOK, NEW a \in Attempt, NEW entry, Put(a, entry)
  PROVE  journal'[a] = entry /\ \A b \in Attempt \ {a} : journal'[b] = journal[b]
  BY DEF Put, TypeOK

(* A record in an entry of the locked workspace, by a process that keeps    *)
(* its locks.                                                               *)
LEMMA RecordDiscipline ==
  ASSUME MigrationInv, NEW p \in Proc, NEW a \in Attempt,
         \A b \in Attempt \ {a} : journal'[b] = journal[b],
         workspaceLock[journal'[a].workspace] = p,
         journal[a].start # "none" => journal'[a].workspace = journal[a].workspace,
         \A q \in Proc \ {p} : pc'[q] = pc[q] /\ attempt'[q] = attempt[q],
         UNCHANGED <<db, changes, workspaceLock, databaseLock, request, expected, observed>>
  PROVE  Discipline(p)
  BY DEF Discipline

(* A record that opens a question or leaves it open. *)
LEMMA OpenQuestion ==
  ASSUME MigrationInv, NEW a \in Attempt,
         \A b \in Attempt \ {a} : journal'[b] = journal[b],
         Unresolved(a) => /\ Unresolved(a)'
                          /\ journal'[a].plan.database = journal[a].plan.database,
         Unresolved(a)' =>
           \A b \in Attempt \ {a} :
             Concerns(b, journal'[a].workspace, journal'[a].plan.database) => ~Unresolved(b),
         UNCHANGED <<db, changes, settled>>
  PROVE  JournalInv'
<1>. USE DEF MigrationInv
<1>1. \A b \in Attempt \ {a} : Unresolved(b)' <=> Unresolved(b)
  BY DEF Unresolved
<1>2. OneUnresolvedAttempt'
  <2>. SUFFICES ASSUME NEW b \in Attempt, NEW c \in Attempt, b # c,
                       Unresolved(b)', Unresolved(c)',
                       journal'[b].workspace = journal'[c].workspace,
                       journal'[b].plan.database = journal'[c].plan.database
                PROVE  FALSE
    BY DEF OneUnresolvedAttempt
  <2>1. CASE b # a /\ c # a
    BY <1>1, <2>1 DEF JournalInv, OneUnresolvedAttempt
  <2>2. CASE b = a
    BY <1>1, <2>2 DEF Concerns
  <2>3. CASE c = a
    BY <1>1, <2>3 DEF Concerns
  <2>. QED  BY <2>1, <2>2, <2>3
<1>3. \A d \in Database, b \in Attempt :
        (Unresolved(b) /\ journal[b].plan.database = d) =>
          (Unresolved(b)' /\ journal'[b].plan.database = d)
  BY <1>1
<1>4. JournalExplainsDatabase'
  BY <1>3 DEF JournalInv, JournalExplainsDatabase
<1>. QED  BY <1>2, <1>4 DEF JournalInv

(* A record that answers the question of an attempt, for what the process   *)
(* under the lock of the database has seen there.                           *)
LEMMA AnswerQuestion ==
  ASSUME MigrationInv, NEW a \in Attempt, NEW d \in Database, NEW levels \in Levels,
         NEW at \in Nat, at <= changes, at = changes => db[d] = levels,
         \A b \in Attempt \ {a} : journal'[b] = journal[b],
         ~Unresolved(a)', journal[a].plan.database = d,
         settled' = [settled EXCEPT ![d] = [applied |-> levels, at |-> at]],
         UNCHANGED <<db, changes>>
  PROVE  JournalInv'
<1>. USE DEF MigrationInv
<1>1. \A b \in Attempt \ {a} : Unresolved(b)' <=> Unresolved(b)
  BY DEF Unresolved
<1>2. OneUnresolvedAttempt'
  BY <1>1 DEF JournalInv, OneUnresolvedAttempt
<1>3. /\ settled'[d].applied = levels /\ settled'[d].at = at
      /\ \A e \in Database \ {d} : settled'[e] = settled[e]
  BY DEF TypeInv, TypeOK
<1>4. JournalExplainsDatabase'
  <2>. SUFFICES ASSUME NEW e \in Database
                PROVE  \/ \E b \in Attempt : Unresolved(b)' /\ journal'[b].plan.database = e
                       \/ settled'[e].at # changes
                       \/ db[e] = settled'[e].applied
    BY DEF JournalExplainsDatabase
  <2>1. CASE e = d
    BY <1>3, <2>1
  <2>2. CASE e # d
    <3>1. ASSUME NEW b \in Attempt, Unresolved(b), journal[b].plan.database = e
          PROVE  Unresolved(b)' /\ journal'[b].plan.database = e
      BY <1>1, <2>2, <3>1
    <3>. QED  BY <1>3, <2>2, <3>1 DEF JournalInv, JournalExplainsDatabase
  <2>. QED  BY <2>1, <2>2
<1>5. \A e \in Database : settled'[e].at <= changes'
  BY <1>3 DEF JournalInv
<1>. QED  BY <1>2, <1>4, <1>5 DEF JournalInv

LEMMA StartKeeps ==
  ASSUME MigrationInv, NEW p \in Proc, OpenStart(p) \/ FillStart(p)
  PROVE  ProcInv(p)' /\ Discipline(p) /\ JournalInv'
<1>. USE DEF MigrationInv, TypeInv
<1>. DEFINE w == request[p].workspace
            d == request[p].database
<1>1. /\ pc[p] = "starting" /\ ProcInv(p)
      /\ UNCHANGED <<db, changes, workspaceLock, databaseLock, request, expected, observed,
                     settled>>
  BY DEF OpenStart, FillStart, world, locks
<1>2. /\ w \in Workspace /\ d \in Database /\ workspaceLock[w] = p
      /\ \A a \in Attempt : Concerns(a, w, d) => ~Unresolved(a)
  BY <1>1, RequestType DEF ProcInv, Held, Holding, Clear
<1>3. CASE OpenStart(p)
  <2>. DEFINE e == [NoEntry EXCEPT !.workspace = w, !.plan = expected[p], !.start = "torn"]
  <2>1. PICK a \in Attempt :
          Fresh(a) /\ Put(a, e) /\ attempt' = [attempt EXCEPT ![p] = a] /\ pc' = pc
    BY <1>3 DEF OpenStart
  <2>2. /\ e.workspace = w /\ e.plan = expected[p] /\ e.start = "torn"
        /\ e.result = "none" /\ e.recovery = "none"
    BY DEF NoEntry
  <2>. HIDE DEF e
  <2>3. journal'[a] = e /\ \A b \in Attempt \ {a} : journal'[b] = journal[b]
    BY <2>1, PutEffect
  <2>4. journal[a].start = "none" /\ attempt'[p] = a
    BY <2>1 DEF Fresh, TypeOK
  <2>5. ~Unresolved(a) /\ ~Unresolved(a)'
    BY <2>2, <2>3, <2>4 DEF Unresolved
  <2>6. Discipline(p)
    BY <1>1, <1>2, <2>1, <2>2, <2>3, <2>4, RecordDiscipline DEF TypeOK
  <2>7. JournalInv'
    BY <1>1, <2>3, <2>5, OpenQuestion
  <2>8. Held(p)' /\ Agreed(p)' /\ OwnRecovery(p)' /\ Observed(p)'
    BY <1>1, <2>1 DEF ProcInv, Held, Agreed, OwnRecovery, Observed
  <2>9. OwnAttempt(p)'
    BY <1>1, <2>1, <2>2, <2>3, <2>4 DEF OwnAttempt, Trying
  <2>10. Clear(p)'
    BY <1>1, <1>2, <2>1, <2>3, <2>5 DEF Clear, Concerns, Unresolved
  <2>. QED  BY <2>6, <2>7, <2>8, <2>9, <2>10 DEF ProcInv
<1>4. CASE FillStart(p)
  <2>0. PICK a \in Attempt : a = attempt[p] /\ a # 0
    BY <1>4, RequestType DEF FillStart
  <2>1. /\ Put(a, [journal[a] EXCEPT !.start = "STARTED"])
        /\ pc' = [pc EXCEPT ![p] = "migrating"] /\ attempt' = attempt
    BY <1>4, <2>0 DEF FillStart, Goto
  <2>2. journal[a] \in Entry
    BY DEF TypeOK
  <2>3. /\ journal'[a] = [journal[a] EXCEPT !.start = "STARTED"]
        /\ \A b \in Attempt \ {a} : journal'[b] = journal[b]
    BY <2>1, <2>2, PutEffect
  <2>4. /\ journal'[a].start = "STARTED" /\ journal'[a].result = journal[a].result
        /\ journal'[a].recovery = journal[a].recovery
        /\ journal'[a].workspace = journal[a].workspace /\ journal'[a].plan = journal[a].plan
    BY <2>2, <2>3 DEF Entry
  <2>5. /\ journal[a].start # "none" /\ journal[a].workspace = w
        /\ journal[a].plan = expected[p] /\ expected[p].database = d
        /\ journal[a].result = "none" /\ journal[a].recovery = "none"
    BY <1>1, <2>0 DEF ProcInv, OwnAttempt, Agreed
  <2>6. Discipline(p)
    <3>1. \A q \in Proc \ {p} : pc'[q] = pc[q] /\ attempt'[q] = attempt[q]
      BY <2>1 DEF TypeOK
    <3>2. workspaceLock[journal'[a].workspace] = p /\ journal'[a].workspace = journal[a].workspace
      BY <1>2, <2>4, <2>5
    <3>. QED  BY <1>1, <2>3, <3>1, <3>2, RecordDiscipline
  <2>7. JournalInv'
    <3>1. Unresolved(a) => Unresolved(a)'
      BY <2>4 DEF Unresolved
    <3>2. \A b \in Attempt :
            Concerns(b, journal'[a].workspace, journal'[a].plan.database) => ~Unresolved(b)
      BY <1>2, <2>4, <2>5
    <3>3. journal'[a].plan.database = journal[a].plan.database
      BY <2>4
    <3>. QED  BY <1>1, <2>3, <3>1, <3>2, <3>3, OpenQuestion
  <2>8. pc'[p] = "migrating"
    BY <2>1 DEF TypeOK
  <2>9. Held(p)' /\ Agreed(p)' /\ OwnRecovery(p)' /\ Observed(p)' /\ Clear(p)'
    BY <1>1, <2>8 DEF ProcInv, Held, Holding, Agreed, OwnRecovery, Observed, Clear
  <2>10. OwnAttempt(p)'
    BY <1>1, <2>0, <2>1, <2>4, <2>5, <2>8 DEF OwnAttempt, Trying
  <2>. QED  BY <2>6, <2>7, <2>9, <2>10 DEF ProcInv
<1>. QED  BY <1>3, <1>4

LEMMA ResultKeeps ==
  ASSUME MigrationInv, NEW p \in Proc, OpenResult(p) \/ FillResult(p)
  PROVE  ProcInv(p)' /\ Discipline(p) /\ JournalInv'
<1>. USE DEF MigrationInv, TypeInv
<1>. DEFINE w == request[p].workspace
            d == request[p].database
<1>1. /\ pc[p] \in {"applied", "failing", "closing", "failed"} /\ ProcInv(p)
      /\ UNCHANGED <<db, changes, workspaceLock, databaseLock, request, expected, observed,
                     attempt>>
  BY DEF OpenResult, FillResult, world, locks
<1>2. /\ w \in Workspace /\ d \in Database /\ workspaceLock[w] = p
      /\ expected[p].database = d /\ expected[p] \in Plan
  BY <1>1, RequestType DEF ProcInv, Held, Holding, Agreed
<1>3. PICK a \in Attempt : a = attempt[p] /\ a # 0
  BY <1>1, RequestType DEF ProcInv, OwnAttempt
<1>4. /\ journal[a].start = "STARTED" /\ journal[a].recovery = "none"
      /\ journal[a].result \in {"none", "torn"}
      /\ journal[a].workspace = w /\ journal[a].plan = expected[p]
      /\ journal[a] \in Entry
  BY <1>1, <1>3 DEF ProcInv, OwnAttempt, TypeOK
<1>5. /\ Unresolved(a)
      /\ \A b \in Attempt \ {a} : Concerns(b, w, d) => ~Unresolved(b)
  <2>1. Unresolved(a)
    BY <1>4 DEF Unresolved
  <2>. QED  BY <1>2, <1>4, <2>1 DEF JournalInv, OneUnresolvedAttempt, Concerns
<1>6. PICK s \in {"torn", "APPLIED", "FAILED_REVIEW_REQUIRED"} :
        /\ Put(a, [journal[a] EXCEPT !.result = s])
        /\ s = "torn" =>
             /\ UNCHANGED settled
             /\ \/ pc[p] = "applied" /\ pc' = [pc EXCEPT ![p] = "closing"]
                \/ pc[p] = "failing" /\ pc' = [pc EXCEPT ![p] = "failed"]
        /\ s = "APPLIED" => pc[p] = "closing" /\ Settle(p, Outcome(expected[p]))
        /\ s = "FAILED_REVIEW_REQUIRED" => UNCHANGED settled
        /\ s # "torn" => pc' = [pc EXCEPT ![p] = "leaving"]
  BY <1>3 DEF OpenResult, FillResult, Goto
<1>7. /\ journal'[a] = [journal[a] EXCEPT !.result = s]
      /\ \A b \in Attempt \ {a} : journal'[b] = journal[b]
  BY <1>6, PutEffect
<1>8. /\ journal'[a].start = "STARTED" /\ journal'[a].result = s
      /\ journal'[a].recovery = "none"
      /\ journal'[a].workspace = w /\ journal'[a].plan = expected[p]
  BY <1>4, <1>7 DEF Entry
<1>9. Discipline(p)
  <2>1. \A q \in Proc \ {p} : pc'[q] = pc[q] /\ attempt'[q] = attempt[q]
    BY <1>1, <1>6 DEF TypeOK
  <2>2. workspaceLock[journal'[a].workspace] = p /\ journal'[a].workspace = journal[a].workspace
    BY <1>2, <1>4, <1>8
  <2>. QED  BY <1>1, <1>7, <2>1, <2>2, RecordDiscipline
<1>10. JournalInv'
  <2>1. CASE s # "APPLIED"
    <3>1. Unresolved(a)'
      BY <1>8, <2>1 DEF Unresolved
    <3>2. /\ journal'[a].plan.database = journal[a].plan.database
          /\ \A b \in Attempt \ {a} :
               Concerns(b, journal'[a].workspace, journal'[a].plan.database) => ~Unresolved(b)
      BY <1>2, <1>4, <1>5, <1>8
    <3>3. UNCHANGED settled
      BY <1>6, <2>1
    <3>. QED  BY <1>1, <1>7, <3>1, <3>2, <3>3, OpenQuestion
  <2>2. CASE s = "APPLIED"
    <3>1. Outcome(expected[p]) \in Levels
      BY <1>2, OutcomeType DEF Bounded
    <3>2. PICK levels \in Levels, at \in Nat, e \in Database :
            levels = Outcome(expected[p]) /\ at = observed[p] /\ e = d
      BY <1>2, <3>1, RequestType
    <3>3. at <= changes /\ (at = changes => db[e] = levels)
      BY <1>1, <1>6, <2>2, <3>2 DEF ProcInv, Observed
    <3>4. settled' = [settled EXCEPT ![e] = [applied |-> levels, at |-> at]]
      BY <1>6, <2>2, <3>2 DEF Settle
    <3>5. ~Unresolved(a)' /\ journal[a].plan.database = e
      BY <1>2, <1>4, <1>8, <2>2, <3>2 DEF Unresolved
    <3>. QED  BY <1>1, <1>7, <3>3, <3>4, <3>5, AnswerQuestion
  <2>. QED  BY <2>1, <2>2
<1>11. /\ pc[p] = "applied" /\ s = "torn" => pc'[p] = "closing"
       /\ pc[p] = "failing" /\ s = "torn" => pc'[p] = "failed"
       /\ s = "torn" => pc[p] \in {"applied", "failing"}
       /\ s # "torn" => pc'[p] = "leaving"
  BY <1>6 DEF TypeOK
<1>12. Held(p)' /\ Agreed(p)' /\ OwnRecovery(p)' /\ Clear(p)'
  BY <1>1, <1>11 DEF ProcInv, Held, Holding, Agreed, OwnRecovery, Clear
<1>13. OwnAttempt(p)'
  BY <1>1, <1>3, <1>8, <1>11 DEF OwnAttempt, Trying
<1>14. Observed(p)'
  BY <1>1, <1>11 DEF ProcInv, Observed, Outcome
<1>. QED  BY <1>9, <1>10, <1>12, <1>13, <1>14 DEF ProcInv

LEMMA RecoveryKeeps ==
  ASSUME MigrationInv, NEW p \in Proc, OpenRecovery(p) \/ FillRecovery(p)
  PROVE  ProcInv(p)' /\ Discipline(p) /\ JournalInv'
<1>. USE DEF MigrationInv, TypeInv
<1>. DEFINE w == request[p].workspace
            d == request[p].database
<1>1. /\ pc[p] = "reconciling" /\ ProcInv(p)
      /\ UNCHANGED <<db, changes, workspaceLock, databaseLock, request, expected, observed,
                     attempt>>
  BY DEF OpenRecovery, FillRecovery, world, locks, local
<1>2. /\ w \in Workspace /\ d \in Database /\ workspaceLock[w] = p
      /\ expected[p].applied \in Levels /\ observed[p] \in Nat
  BY <1>1, RequestType DEF ProcInv, Held, Holding, Plan
<1>3. PICK a \in Attempt : a = request[p].reconcile
  BY <1>1 DEF ProcInv, OwnRecovery
<1>4. /\ journal[a].start = "STARTED" /\ journal[a].result # "APPLIED"
      /\ journal[a].workspace = w /\ journal[a].plan.database = d /\ journal[a] \in Entry
      /\ attempt[p] = 0
  BY <1>1, <1>3 DEF ProcInv, OwnRecovery, OwnAttempt, Trying, TypeOK
<1>5. PICK s \in {"torn", "OWNER_RECONCILED"} :
        /\ Put(a, [journal[a] EXCEPT !.recovery = s])
        /\ s = "torn" => pc' = pc /\ UNCHANGED settled /\ journal[a].recovery = "none"
        /\ s = "OWNER_RECONCILED" =>
             Settle(p, expected[p].applied) /\ pc' = [pc EXCEPT ![p] = "leaving"]
  BY <1>3 DEF OpenRecovery, FillRecovery, Goto, local
<1>6. /\ journal'[a] = [journal[a] EXCEPT !.recovery = s]
      /\ \A b \in Attempt \ {a} : journal'[b] = journal[b]
  BY <1>5, PutEffect
<1>7. /\ journal'[a].start = "STARTED" /\ journal'[a].recovery = s
      /\ journal'[a].result = journal[a].result
      /\ journal'[a].workspace = w /\ journal'[a].plan = journal[a].plan
  BY <1>4, <1>6 DEF Entry
<1>8. Discipline(p)
  <2>1. \A q \in Proc \ {p} : pc'[q] = pc[q] /\ attempt'[q] = attempt[q]
    BY <1>1, <1>5 DEF TypeOK
  <2>2. workspaceLock[journal'[a].workspace] = p /\ journal'[a].workspace = journal[a].workspace
    BY <1>2, <1>4, <1>7
  <2>. QED  BY <1>1, <1>6, <2>1, <2>2, RecordDiscipline
<1>9. JournalInv'
  <2>1. CASE s = "torn"
    <3>1. Unresolved(a) /\ Unresolved(a)'
      BY <1>4, <1>5, <1>7, <2>1 DEF Unresolved
    <3>2. \A b \in Attempt \ {a} :
            Concerns(b, journal'[a].workspace, journal'[a].plan.database) => ~Unresolved(b)
      BY <1>4, <1>7, <3>1 DEF JournalInv, OneUnresolvedAttempt, Concerns
    <3>3. UNCHANGED settled /\ journal'[a].plan.database = journal[a].plan.database
      BY <1>5, <1>7, <2>1
    <3>. QED  BY <1>1, <1>6, <3>1, <3>2, <3>3, OpenQuestion
  <2>2. CASE s = "OWNER_RECONCILED"
    <3>1. PICK levels \in Levels, at \in Nat, e \in Database :
            levels = expected[p].applied /\ at = observed[p] /\ e = d
      BY <1>2
    <3>2. at <= changes /\ (at = changes => db[e] = levels)
      BY <1>1, <3>1 DEF ProcInv, Observed
    <3>3. settled' = [settled EXCEPT ![e] = [applied |-> levels, at |-> at]]
      BY <1>5, <2>2, <3>1 DEF Settle
    <3>4. ~Unresolved(a)' /\ journal[a].plan.database = e
      BY <1>4, <1>7, <2>2, <3>1 DEF Unresolved
    <3>. QED  BY <1>1, <1>6, <3>2, <3>3, <3>4, AnswerQuestion
  <2>. QED  BY <2>1, <2>2
<1>10. /\ s = "torn" => pc'[p] = "reconciling"
       /\ s # "torn" => pc'[p] = "leaving"
  BY <1>1, <1>5 DEF TypeOK
<1>11. Held(p)' /\ Agreed(p)' /\ Observed(p)' /\ Clear(p)'
  BY <1>1, <1>10 DEF ProcInv, Held, Holding, Agreed, Observed, Clear
<1>12. OwnAttempt(p)'
  BY <1>1, <1>4, <1>10 DEF OwnAttempt
<1>13. OwnRecovery(p)'
  BY <1>1, <1>3, <1>4, <1>7 DEF OwnRecovery
<1>. QED  BY <1>8, <1>9, <1>11, <1>12, <1>13 DEF ProcInv

(* Others change a database or the sources: nobody's records or locks, and  *)
(* what anybody has seen is out of date.                                    *)
LEMMA ForeignKeeps ==
  ASSUME MigrationInv, Foreign
  PROVE  JournalInv' /\ \A p \in Proc : ProcInv(p)'
<1>1. /\ changes' = changes + 1 /\ changes \in Nat
      /\ UNCHANGED <<journal, workspaceLock, databaseLock, pc, request, expected, attempt,
                     observed, settled>>
  BY DEF Foreign, locks, local, MigrationInv, TypeInv, TypeOK
<1>2. ASSUME NEW p \in Proc PROVE ProcInv(p)'
  <2>1. ProcInv(p) /\ observed[p] \in Nat
    BY RequestType DEF MigrationInv, TypeInv
  <2>2. Observed(p)'
    BY <1>1, <2>1 DEF ProcInv, Observed
  <2>3. Held(p)' /\ Agreed(p)' /\ OwnAttempt(p)' /\ OwnRecovery(p)'
    BY <1>1, <2>1 DEF ProcInv, Held, Agreed, OwnAttempt, OwnRecovery
  <2>4. Clear(p)'
    BY <1>1, <2>1 DEF ProcInv, Clear, Concerns, Unresolved
  <2>. QED  BY <2>2, <2>3, <2>4 DEF ProcInv
<1>3. \A d \in Database : settled[d].at \in Nat /\ settled[d].at <= changes
  BY DEF MigrationInv, JournalInv, TypeInv, TypeOK
<1>4. OneUnresolvedAttempt'
  BY <1>1 DEF MigrationInv, JournalInv, OneUnresolvedAttempt, Unresolved
<1>5. /\ JournalExplainsDatabase'
      /\ \A d \in Database : settled'[d].at <= changes'
  BY <1>1, <1>3 DEF JournalExplainsDatabase
<1>. QED  BY <1>2, <1>4, <1>5 DEF JournalInv

LEMMA InitMigrationInv == Init => MigrationInv
<1>. SUFFICES ASSUME Init PROVE MigrationInv
  OBVIOUS
<1>1. \A a \in Attempt : journal[a].start = "none"
  BY DEF Init, NoEntry
<1>2. \A d \in Database : settled[d].applied = db[d] /\ settled[d].at = 0
  BY DEF Init
<1>3. JournalInv
  BY <1>1, <1>2
  DEF Init, JournalInv, OneUnresolvedAttempt, JournalExplainsDatabase, Unresolved
<1>4. ASSUME NEW p \in Proc PROVE ProcInv(p)
  BY <1>4 DEF Init, ProcInv, Held, Holding, Agreed, OwnAttempt, OwnRecovery, Clear, Observed
<1>. QED  BY <1>3, <1>4, InitTypeInv DEF MigrationInv

LEMMA MigrationInvStep == MigrationInv /\ [Next]_vars => MigrationInv'
<1>. SUFFICES ASSUME MigrationInv, [Next]_vars PROVE MigrationInv'
  OBVIOUS
<1>1. TypeInv'
  BY TypeStep DEF MigrationInv
<1>2. CASE UNCHANGED vars
  <2>1. UNCHANGED <<db, changes, journal, settled, workspaceLock, databaseLock, pc, request,
                    expected, attempt, observed>>
    BY <1>2 DEF vars, local
  <2>2. JournalInv'
    BY <2>1, QuietJournal DEF MigrationInv
  <2>3. \A p \in Proc : ProcInv(p)'
    BY <2>1 DEF MigrationInv, ProcInv, Held, Agreed, OwnAttempt, OwnRecovery, Clear, Concerns,
                Unresolved, Observed
  <2>. QED  BY <1>1, <2>2, <2>3 DEF MigrationInv
<1>3. CASE Foreign
  BY <1>1, <1>3, ForeignKeeps DEF MigrationInv
<1>4. ASSUME NEW p \in Proc, Review(p) \/ Work(p) \/ Crash(p) PROVE MigrationInv'
  <2>1. ProcInv(p)' /\ Discipline(p) /\ JournalInv'
    <3>1. CASE \/ Review(p) \/ LockWorkspace(p) \/ LockDatabase(p)
               \/ UnlockDatabase(p) \/ UnlockWorkspace(p) \/ Crash(p)
      BY <3>1, LockingKeeps
    <3>2. CASE Refuse(p) \/ StartFails(p) \/ RecordFails(p)
      <4>1. PICK from \in {"inspecting", "rechecking", "starting", "applied", "failing",
                           "closing", "failed", "reconciling"} : Step(p, from, "leaving")
        BY <3>2 DEF Refuse, StartFails, RecordFails
      <4>. QED  BY <4>1, LeavingKeeps
    <3>3. CASE Accept(p)
      BY <3>3, AcceptKeeps
    <3>4. CASE Recheck(p) \/ Migrated(p) \/ CheckOutcome(p) \/ MigrationFails(p)
      BY <3>4, WorkingKeeps
    <3>5. CASE Migrate(p)
      BY <3>5, MigrateKeeps
    <3>6. CASE OpenStart(p) \/ FillStart(p)
      BY <3>6, StartKeeps
    <3>7. CASE OpenResult(p) \/ FillResult(p)
      BY <3>7, ResultKeeps
    <3>8. CASE OpenRecovery(p) \/ FillRecovery(p)
      BY <3>8, RecoveryKeeps
    <3>. QED  BY <1>4, <3>1, <3>2, <3>3, <3>4, <3>5, <3>6, <3>7, <3>8 DEF Work
  <2>2. ASSUME NEW q \in Proc \ {p} PROVE ProcInv(q)'
    BY <1>1, <2>1, OthersKeep DEF MigrationInv
  <2>. QED  BY <1>1, <2>1, <2>2 DEF MigrationInv
<1>. QED  BY <1>2, <1>3, <1>4 DEF Next

LEMMA MigrationInvariant == Spec => []MigrationInv
  BY InitMigrationInv, MigrationInvStep, PTL DEF Spec

-----------------------------------------------------------------------------
(* run_migration works under both locks: whatever dies or fails, no two     *)
(* processes are between inspecting a plan and leaving, for one workspace   *)
(* or for one database.                                                     *)
Exclusive ==
  \A p, q \in Proc :
    ( /\ {pc[p], pc[q]} \subseteq Holding \ {"unlocking"}
      /\ \/ request[p].workspace = request[q].workspace
         \/ request[p].database = request[q].database ) => p = q

THEOREM LocksExclude == Spec => []Exclusive
<1>1. MigrationInv => Exclusive
  BY DEF MigrationInv, ProcInv, Held, Exclusive
<1>. QED  BY <1>1, MigrationInvariant, PTL

(* An attempt blocks its journal and its database until it is resolved,     *)
(* which the check of unresolved under the locks ensures: the start record  *)
(* is written before the locks are given back, and read by whoever is next. *)
THEOREM AttemptsBlock == Spec => []OneUnresolvedAttempt
<1>1. MigrationInv => OneUnresolvedAttempt
  BY DEF MigrationInv, JournalInv
<1>. QED  BY <1>1, MigrationInvariant, PTL

(* The last good record of a database says how it is, unless an attempt is  *)
(* unresolved or other programs migrated since.                             *)
THEOREM JournalIsRight == Spec => []JournalExplainsDatabase
<1>1. MigrationInv => JournalExplainsDatabase
  BY DEF MigrationInv, JournalInv
<1>. QED  BY <1>1, MigrationInvariant, PTL

(* No process migrates a database without a start record on the disk and    *)
(* both locks in its hands.                                                 *)
THEOREM NothingHappensUnannounced == Spec => ChangesAreAnnounced
<1>. DEFINE Announced ==
       \A d \in Database :
         (db'[d] # db[d] /\ changes' = changes) =>
           \E p \in Proc, a \in Attempt :
             /\ databaseLock[d] = p /\ attempt[p] = a
             /\ workspaceLock[journal[a].workspace] = p
             /\ Unresolved(a) /\ journal[a].plan = expected[p]
             /\ expected[p].database = d
<1>1. MigrationInv /\ [Next]_vars => [Announced]_vars
  <2>. SUFFICES ASSUME MigrationInv, [Next]_vars, NEW d \in Database,
                       db'[d] # db[d], changes' = changes
                PROVE  \E p \in Proc, a \in Attempt :
                         /\ databaseLock[d] = p /\ attempt[p] = a
                         /\ workspaceLock[journal[a].workspace] = p
                         /\ Unresolved(a) /\ journal[a].plan = expected[p]
                         /\ expected[p].database = d
    OBVIOUS
  <2>1. ~Foreign
    BY DEF Foreign, MigrationInv, TypeInv, TypeOK
  <2>2. PICK p \in Proc : Migrate(p)
    BY <2>1 DEF vars, Next, Work, Review, LockWorkspace, LockDatabase, Accept, Refuse, Recheck,
                Step, OpenStart, FillStart, StartFails, Migrated, CheckOutcome, MigrationFails,
                OpenResult, FillResult, OpenRecovery, FillRecovery, RecordFails, UnlockDatabase,
                UnlockWorkspace, Crash, world
  <2>3. d = request[p].database
    BY <2>2, MigrateUnderLocks
  <2>. QED  BY <2>2, <2>3, MigrateUnderLocks
<1>. QED  BY <1>1, MigrationInvariant, PTL DEF Spec, ChangesAreAnnounced
=============================================================================
