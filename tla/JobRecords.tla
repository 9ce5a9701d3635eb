----------------------------- MODULE JobRecords -----------------------------
(***************************************************************************)
(* Proofs about JobLifecycle, continued: what the registry is worth.  What *)
(* it says is documented, a job it calls completed can be found again,     *)
(* jobs touch no paths but their own, what is applied is recorded and what *)
(* is undone is back when nothing fails, and whoever looks when the lock   *)
(* is free sees one job after the other.                                   *)
(***************************************************************************)
EXTENDS JobLifecycleProofs, JobAtomicity

(* An update by job j keeps the hash that is registered. *)
Matches(reg, j) == Known(reg, j.id) => reg[j.id].hash = j.hash

(* What a process inside may rely on when it comes to write the registry,   *)
(* and what it has in hand outside.                                         *)
ProcRecords(p) ==
  /\ pc[p] \notin Critical => verdict[p] = Report(FALSE, 0)
  /\ pc[p] \in {"preflight", "restoring", "undoing", "mark", "log", "register"}
       => job[p] \in archives
  /\ pc[p] = "register" => registry[job[p].id].runs < logs[job[p].id]
  /\ pc[p] = "archive" => ~verdict[p].retry
  /\ (verdict[p].completed \/ verdict[p].backup # 0 \/ pc[p] \in {"transact", "applying"})
       => Matches(registry, job[p])
  /\ verdict[p].backup # 0 => backups[verdict[p].backup].job = job[p]
  /\ pc[p] = "applying" => backups[Len(backups)].job = job[p]

(* A completed content is in the archive, whichever copy is registered. *)
CompletedIsArchived ==
  \A i \in Id : Known(registry, i) /\ registry[i].completed =>
    [id |-> i, hash |-> registry[i].hash] \in archives

RecordsInv ==
  /\ RecordedIsDocumented /\ CompletedIsArchived
  /\ \A p \in Proc : ProcRecords(p)

(* The job was run, and is recorded as completed. *)
Done(reg, j) == Known(reg, j.id) /\ reg[j.id].hash = j.hash /\ reg[j.id].completed

-----------------------------------------------------------------------------
(* One step *)

(* A step of p is nobody else's. *)
Others(p) ==
  \A q \in Proc \ {p} : pc'[q] = pc[q] /\ job'[q] = job[q] /\ verdict'[q] = verdict[q]

(* A step of p, by what it needs of the lock. *)
StepOf(p) ==
  \/ \E j \in Job : Run(p, j)
  \/ \E i \in Id : RollBack(p, i)
  \/ Answer(p) \/ Work(p) \/ Crash(p)

LEMMA NextSteps ==
  ASSUME [Next]_vars
  PROVE  UNCHANGED vars \/ \E p \in Proc : StepOf(p)
  BY DEF Next, Quiet, StepOf

LEMMA LeaveOthers ==
  ASSUME TypeInv, NEW p \in Proc, Leave(p)
  PROVE  Others(p) /\ pc'[p] = "idle" /\ verdict'[p] = Report(FALSE, 0)
  BY DEF Leave, Goto, Others, TypeInv, TypeOK

LEMMA StepOthers ==
  ASSUME TypeInv, NEW p \in Proc, StepOf(p)
  PROVE  Others(p)
<1>. USE DEF shared, local, history
<1>1. CASE (\E j \in Job : Run(p, j)) \/ (\E i \in Id : RollBack(p, i)) \/ Answer(p)
  BY <1>1 DEF Run, RollBack, Start, Answer, Goto, Others, TypeInv, TypeOK
<1>2. CASE Leave(p)
  BY <1>2, LeaveOthers
<1>3. CASE Work(p) /\ ~Leave(p)
  <2>1. CASE Resolve(p) \/ MakePlan(p) \/ Decline(p) \/ Execute(p)
    BY <1>3, <2>1 DEF Resolve, MakePlan, Decline, Execute, RecordDecision, Acquire, Goto,
                      Others, TypeInv, TypeOK
  <2>2. CASE TransactionRefused(p) \/ NothingToDo(p) \/ BeginTransaction(p)
    BY <1>3, <2>2 DEF TransactionRefused, NothingToDo, BeginTransaction, Conclude, Goto,
                      Others, TypeInv, TypeOK
  <2>3. CASE EndTransaction(p)
    <3>1. (\E c \in BOOLEAN : Conclude(p, c, Len(backups))) /\ UNCHANGED job
      BY <2>3 DEF EndTransaction
    <3>. QED  BY <3>1 DEF Conclude, Goto, Others, TypeInv, TypeOK
  <2>4. CASE Archive(p) \/ WriteLog(p) \/ RecordFails(p) \/ MarkRolledBack(p)
    BY <1>3, <2>4 DEF Archive, WriteLog, RecordFails, MarkRolledBack, Goto, Others,
                      TypeInv, TypeOK
  <2>5. CASE Locate(p) \/ Preflight(p) \/ BeginRestore(p) \/ FinishRestore(p) \/ RestoreFails(p)
    BY <1>3, <2>5 DEF Locate, Preflight, BeginRestore, FinishRestore, RestoreFails,
                      Acquire, Goto, Others, TypeInv, TypeOK
  <2>6. CASE GiveUp(p) \/ Register(p)
    BY <1>3, <2>6 DEF GiveUp, Register
  <2>. QED  BY <1>3, <2>1, <2>2, <2>3, <2>4, <2>5, <2>6 DEF Work
<1>. QED  BY <1>1, <1>2, <1>3 DEF StepOf, Crash

-----------------------------------------------------------------------------
(* Documents *)

(* Records are added, never taken away or given to another job. *)
RecordsGrow ==
  /\ archives \subseteq archives'
  /\ \A i \in Id : logs'[i] \in Nat /\ logs[i] <= logs'[i]
  /\ \A b \in DOMAIN backups : b \in DOMAIN backups' /\ backups'[b].job = backups[b].job

LEMMA BlankRecords ==
  ASSUME NEW p \in Proc, pc[p] \notin Critical, verdict[p] = Report(FALSE, 0)
  PROVE  ProcRecords(p)
<1>1. ~verdict[p].completed /\ verdict[p].backup = 0
  BY DEF Report
<1>. QED  BY <1>1 DEF ProcRecords, Critical

LEMMA BlankRecordsNext ==
  ASSUME NEW p \in Proc, pc'[p] \notin Critical, verdict'[p] = Report(FALSE, 0)
  PROVE  ProcRecords(p)'
<1>1. ~verdict'[p].completed /\ verdict'[p].backup = 0
  BY DEF Report
<1>. QED  BY <1>1 DEF ProcRecords, Critical

LEMMA RecordsKept ==
  ASSUME TypeInv, RecordsInv, NEW p \in Proc, Others(p), UNCHANGED registry, RecordsGrow,
         UNCHANGED backups \/ \A q \in Proc \ {p} : pc[q] \notin Critical,
         ProcRecords(p)'
  PROVE  RecordsInv'
<1>1. ASSUME NEW i \in Id, Known(registry, i)
      PROVE  /\ registry[i].runs <= logs'[i]
             /\ [id |-> i, hash |-> registry[i].archive] \in archives'
             /\ registry[i].backup # 0 =>
                  backups'[registry[i].backup].job = [id |-> i, hash |-> registry[i].hash]
  <2>1. /\ registry[i].runs <= logs[i] /\ registry[i].runs \in Nat /\ logs[i] \in Nat
        /\ [id |-> i, hash |-> registry[i].archive] \in archives
        /\ registry[i].backup # 0 =>
             backups[registry[i].backup].job = [id |-> i, hash |-> registry[i].hash]
    BY <1>1, KnownType DEF RecordsInv, RecordedIsDocumented, TypeInv, TypeOK
  <2>2. registry[i].backup # 0 => registry[i].backup \in DOMAIN backups
    <3>1. registry[i] \in Record /\ registry[i].backup <= Len(backups)
      BY <1>1, KnownType DEF TypeInv, TypeOK, ReferencesOK
    <3>2. registry[i].backup \in Nat /\ backups \in Seq(Backup)
      BY <3>1 DEF Record, TypeInv, TypeOK
    <3>. QED  BY <3>1, <3>2
  <2>. QED  BY <2>1, <2>2 DEF RecordsGrow
<1>2. RecordedIsDocumented'
  BY <1>1 DEF RecordedIsDocumented, Known
<1>3. CompletedIsArchived'
  BY DEF RecordsInv, CompletedIsArchived, Known, RecordsGrow
<1>4. ASSUME NEW q \in Proc, q # p PROVE ProcRecords(q)'
  <2>1. pc'[q] = pc[q] /\ job'[q] = job[q] /\ verdict'[q] = verdict[q] /\ ProcRecords(q)
    BY <1>4 DEF Others, RecordsInv
  <2>2. CASE pc[q] \notin Critical
    BY <2>1, <2>2, BlankRecordsNext DEF ProcRecords
  <2>3. CASE pc[q] \in Critical
    <3>1. UNCHANGED backups
      BY <1>4, <2>3
    <3>2. /\ job[q].id \in Id /\ registry[job[q].id].runs \in Nat
          /\ logs[job[q].id] \in Nat /\ logs'[job[q].id] \in Nat
          /\ logs[job[q].id] <= logs'[job[q].id]
      BY TypedNow, KnownType DEF TypeInv, TypeOK, RecordsGrow
    <3>3. pc[q] = "register" => registry[job[q].id].runs < logs'[job[q].id]
      BY <2>1, <3>2 DEF ProcRecords
    <3>4. Matches(registry', job[q]) <=> Matches(registry, job[q])
      BY DEF Matches, Known
    <3>. QED  BY <2>1, <2>3, <3>1, <3>3, <3>4 DEF ProcRecords, RecordsGrow
  <2>. QED  BY <2>2, <2>3
<1>. QED  BY <1>2, <1>3, <1>4 DEF RecordsInv

(* A command that ends without a record. *)
LEMMA LeaveRecords ==
  ASSUME TypeInv, RecordsInv, NEW p \in Proc, Leave(p), UNCHANGED <<shared, history>>
  PROVE  RecordsInv'
<1>1. Others(p) /\ ProcRecords(p)'
  <2>1. "idle" \notin Critical
    BY DEF Critical
  <2>. QED  BY <2>1, LeaveOthers, BlankRecordsNext
<1>2. RecordsGrow /\ UNCHANGED <<registry, backups>>
  BY DEF RecordsGrow, shared, TypeInv, TypeOK
<1>. QED  BY <1>1, <1>2, RecordsKept

LEMMA AloneInside ==
  ASSUME LockInv, NEW p \in Proc, pc[p] \in Critical
  PROVE  \A q \in Proc \ {p} : pc[q] \notin Critical
  BY DEF LockInv, Exclusion

(* What a step of p that does not leave does to p. *)
LEMMA Went ==
  ASSUME TypeInv, NEW p \in Proc, NEW l, Goto(p, l)
  PROVE  pc'[p] = l
  BY DEF Goto, TypeInv, TypeOK

LEMMA Concluding ==
  ASSUME TypeInv, NEW p \in Proc, NEW v, verdict' = [verdict EXCEPT ![p] = v]
  PROVE  verdict'[p] = v
  BY DEF TypeInv, TypeOK

LEMMA NothingNew ==
  ASSUME TypeInv, UNCHANGED <<archives, logs, backups>>
  PROVE  RecordsGrow
  BY DEF RecordsGrow, TypeInv, TypeOK

(* What a decision says of the registry. *)
LEMMA Decided ==
  ASSUME NEW reg, NEW j
  PROVE  /\ Decision(reg, j) = "PROCEED" => Matches(reg, j) /\ ~Done(reg, j)
         /\ Decision(reg, j) = "ALREADY_APPLIED" => Done(reg, j)
<1>1. CASE ~Known(reg, j.id)
  BY <1>1, Zenon DEF Decision, Matches, Done
<1>2. CASE Known(reg, j.id) /\ reg[j.id].hash # j.hash
  BY <1>2, Zenon DEF Decision, Matches, Done
<1>3. CASE Known(reg, j.id) /\ reg[j.id].hash = j.hash
  <2>1. CASE reg[j.id].completed
    BY <1>3, <2>1, Zenon DEF Decision, Matches, Done
  <2>2. CASE ~reg[j.id].completed
    BY <1>3, <2>2, Zenon DEF Decision, Matches, Done
  <2>. QED  BY <2>1, <2>2
<1>. QED  BY <1>1, <1>2, <1>3

(* Without the lock. *)
LEMMA OutsideRecords ==
  ASSUME TypeInv, RecordsInv, NEW p \in Proc,
         \/ \E j \in Job : Run(p, j)
         \/ \E i \in Id : RollBack(p, i)
         \/ Answer(p)
         \/ (Resolve(p) /\ ~RecordDecision(p))
         \/ MakePlan(p)
  PROVE  RecordsInv'
<1>. USE DEF shared, local, history
<1>1. CASE Leave(p)
  BY <1>1, LeaveRecords DEF MakePlan, Run, RollBack, Start, Resolve, Answer, Leave, Goto,
                            TypeInv, TypeOK, Critical, Unlocked, RecordsInv
<1>2. CASE ~Leave(p)
  <2>1. /\ pc[p] \in Unlocked /\ verdict' = verdict /\ UNCHANGED shared
        /\ \E l \in Unlocked : Goto(p, l)
    BY <1>2 DEF Run, RollBack, Start, Answer, Resolve, MakePlan, Unlocked
  <2>2. verdict[p] = Report(FALSE, 0)
    BY <2>1, Apart DEF RecordsInv, ProcRecords
  <2>3. pc'[p] \notin Critical
    BY <2>1, Went, Apart
  <2>4. ProcRecords(p)'
    BY <2>1, <2>2, <2>3, BlankRecordsNext
  <2>5. Others(p)
    BY StepOthers DEF StepOf, Work
  <2>6. RecordsGrow /\ UNCHANGED <<registry, backups>>
    BY <2>1, NothingNew
  <2>. QED  BY <2>4, <2>5, <2>6, RecordsKept
<1>. QED  BY <1>1, <1>2

(* What is decided under the lock. *)
LEMMA DecidedRecords ==
  ASSUME TypeInv, RecordsInv, NEW p \in Proc,
         \/ Resolve(p) /\ RecordDecision(p)
         \/ Decline(p)
         \/ Execute(p)
  PROVE  RecordsInv'
<1>. USE DEF shared, local, history
<1>1. Others(p)
  BY StepOthers DEF StepOf, Work
<1>2. UNCHANGED <<registry, archives, logs, backups, job>>
  BY DEF Resolve, Decline, Execute
<1>3. CASE Execute(p) /\ ~RecordDecision(p)
  <2>1. /\ Decision(registry, job[p]) = "PROCEED" /\ verdict' = verdict
        /\ Goto(p, "transact") /\ pc[p] = "execute"
    BY <1>3 DEF Execute
  <2>2. Matches(registry, job[p])
    BY <2>1, Decided
  <2>3. verdict[p] = Report(FALSE, 0)
    BY <2>1 DEF RecordsInv, ProcRecords, Critical
  <2>4. ~verdict[p].completed /\ verdict[p].backup = 0
    BY <2>3 DEF Report
  <2>5. pc'[p] = "transact"
    BY <2>1, Went
  <2>6. ProcRecords(p)'
    BY <1>2, <2>1, <2>2, <2>4, <2>5 DEF ProcRecords, Critical, Matches, Known
  <2>. QED  BY <1>1, <1>2, <2>6, NothingNew, RecordsKept
<1>4. CASE RecordDecision(p) \/ Decline(p)
  <2>1. PICK c \in BOOLEAN :
          /\ verdict' = [verdict EXCEPT ![p] = Report(c, 0)]
          /\ c => Decision(registry, job[p]) = "ALREADY_APPLIED"
    BY <1>4 DEF RecordDecision, Decline
  <2>2. Goto(p, "archive")
    BY <1>4 DEF RecordDecision, Decline
  <2>3. verdict'[p] = Report(c, 0) /\ pc'[p] = "archive"
    BY <2>1, <2>2, Went, Concluding
  <2>4. c => Matches(registry, job[p])
    BY <2>1, Decided DEF Done, Matches
  <2>5. /\ verdict'[p].completed = c /\ verdict'[p].backup = 0 /\ ~verdict'[p].retry
    BY <2>3 DEF Report
  <2>6. ProcRecords(p)'
    BY <1>2, <2>3, <2>4, <2>5 DEF ProcRecords, Critical, Matches, Known
  <2>. QED  BY <1>1, <1>2, <2>6, NothingNew, RecordsKept
<1>. QED  BY <1>3, <1>4

(* A process inside goes on to the records, with a backup of its own job.   *)
LEMMA InsideRecords ==
  ASSUME TypeInv, LockInv, RecordsInv, NEW p \in Proc, pc[p] \in Critical, StepOf(p),
         UNCHANGED <<registry, job>>, RecordsGrow, ProcRecords(p)'
  PROVE  RecordsInv'
  BY StepOthers, AloneInside, RecordsKept

(* The backup a run makes. *)
Copy(p, s) == [job |-> job[p], entries |-> planned[p], status |-> s]

LEMMA TransactionRecords ==
  ASSUME TypeInv, LockInv, RecordsInv, NEW p \in Proc,
         \/ TransactionRefused(p) \/ NothingToDo(p)
         \/ BeginTransaction(p) \/ EndTransaction(p)
  PROVE  RecordsInv'
<1>. USE DEF shared, local, history, Copy
<1>1. /\ pc[p] \in Critical /\ StepOf(p) /\ UNCHANGED <<registry, archives, logs, job>>
      /\ pc[p] \in {"transact", "applying"}
  BY DEF StepOf, Work, TransactionRefused, NothingToDo, BeginTransaction, EndTransaction,
         Critical
<1>2. Matches(registry, job[p]) /\ Matches(registry', job'[p])
  BY <1>1 DEF RecordsInv, ProcRecords, Matches, Known
<1>3. /\ \A b \in DOMAIN backups : b \in DOMAIN backups' /\ backups'[b].job = backups[b].job
      /\ backups' \in Seq(Backup)
  <2>1. CASE UNCHANGED backups
    BY <2>1 DEF TypeInv, TypeOK
  <2>2. CASE (TransactionRefused(p) /\ ~UNCHANGED backups) \/ BeginTransaction(p)
    <3>1. PICK s \in {"none", "PREPARED"} :
            backups' = Append(backups, Copy(p, s))
      BY <2>2 DEF TransactionRefused, BeginTransaction
    <3>2. s \in BackupStatuses
      BY DEF BackupStatuses
    <3>3. /\ Copy(p, s) \in Backup
          /\ backups' \in Seq(Backup) /\ Len(backups') = Len(backups) + 1
      BY <3>1, <3>2, TypedNow, BackupType
    <3>. QED  BY <3>1, <3>3, TypedNow, AppendProperties
  <2>3. CASE EndTransaction(p) /\ ~UNCHANGED backups
    <3>1. PICK s \in BackupStatuses : backups' = [backups EXCEPT ![Len(backups)].status = s]
      BY <2>3 DEF EndTransaction, BackupStatuses
    <3>2. Len(backups) \in DOMAIN backups
      BY <2>3, TypedNow DEF EndTransaction, TypeInv, ReferencesOK
    <3>3. backups' \in Seq(Backup)
      BY <3>1, <3>2, CloseType
    <3>. QED  BY <3>1, <3>2, <3>3
  <2>. QED  BY <2>1, <2>2, <2>3 DEF NothingToDo
<1>4. RecordsGrow
  BY <1>1, <1>3 DEF RecordsGrow, TypeInv, TypeOK
<1>5. CASE BeginTransaction(p)
  <2>1. /\ verdict' = verdict /\ Goto(p, "applying")
        /\ backups' = Append(backups, Copy(p, "PREPARED"))
    BY <1>5 DEF BeginTransaction
  <2>2. pc'[p] = "applying"
    BY <2>1, Went
  <2>3. /\ backups' \in Seq(Backup) /\ Len(backups') = Len(backups) + 1
        /\ backups'[Len(backups')] = Copy(p, "PREPARED")
    <3>1. "PREPARED" \in BackupStatuses
      BY DEF BackupStatuses
    <3>. QED  BY <2>1, <3>1, TypedNow, BackupType, AppendProperties
  <2>4. backups'[Len(backups')].job = job'[p]
    BY <1>1, <2>3
  <2>5. verdict[p].backup # 0 => backups'[verdict[p].backup].job = job'[p]
    <3>1. verdict[p].backup # 0 => verdict[p].backup \in DOMAIN backups
      BY TypedNow
    <3>2. verdict[p].backup # 0 => backups[verdict[p].backup].job = job[p]
      BY DEF RecordsInv, ProcRecords
    <3>. QED  BY <1>1, <1>3, <3>1, <3>2
  <2>6. ProcRecords(p)'
    BY <1>2, <2>1, <2>2, <2>4, <2>5 DEF ProcRecords, Critical
  <2>. QED  BY <1>1, <1>4, <2>6, InsideRecords
<1>6. CASE ~BeginTransaction(p)
  <2>1. PICK c \in BOOLEAN, n \in {0, Len(backups')} :
          /\ Conclude(p, c, n)
          /\ n # 0 => n \in DOMAIN backups' /\ backups'[n].job = job[p]
    <3>1. CASE NothingToDo(p) \/ (TransactionRefused(p) /\ UNCHANGED backups)
      <4>1. \E c \in BOOLEAN : Conclude(p, c, 0) \/ Conclude(p, c, Len(backups'))
        BY <3>1 DEF NothingToDo, TransactionRefused
      <4>2. ~(TransactionRefused(p) /\ UNCHANGED backups /\ ~Conclude(p, FALSE, 0))
        <5>1. ASSUME backups' = Append(backups, Copy(p, "none"))
              PROVE  backups' # backups
          <6>1. "none" \in BackupStatuses
            BY DEF BackupStatuses
          <6>2. Len(backups') = Len(backups) + 1
            BY <5>1, <6>1, TypedNow, BackupType
          <6>. QED  BY <6>2, TypedNow
        <5>. QED  BY <5>1 DEF TransactionRefused
      <4>. QED  BY <3>1, <4>2 DEF NothingToDo
    <3>2. CASE TransactionRefused(p) /\ ~UNCHANGED backups
      <4>1. /\ backups' = Append(backups, Copy(p, "none"))
            /\ Conclude(p, FALSE, Len(backups'))
        BY <3>2 DEF TransactionRefused
      <4>2. /\ backups' \in Seq(Backup) /\ Len(backups') = Len(backups) + 1
            /\ backups'[Len(backups')] = Copy(p, "none")
        <5>1. "none" \in BackupStatuses
          BY DEF BackupStatuses
        <5>. QED  BY <4>1, <5>1, TypedNow, BackupType, AppendProperties
      <4>3. Len(backups') \in DOMAIN backups'
        BY <4>2, TypedNow
      <4>4. backups'[Len(backups')].job = job[p]
        BY <4>2
      <4>. QED  BY <4>1, <4>3, <4>4
    <3>3. CASE EndTransaction(p)
      <4>1. \E c \in BOOLEAN : Conclude(p, c, Len(backups))
        BY <3>3 DEF EndTransaction
      <4>2. Len(backups) \in DOMAIN backups
        BY <3>3, TypedNow DEF EndTransaction, TypeInv, ReferencesOK
      <4>3. Len(backups') = Len(backups)
        <5>1. \/ UNCHANGED backups
              \/ \E s \in BackupStatuses :
                   backups' = [backups EXCEPT ![Len(backups)].status = s]
          BY <3>3 DEF EndTransaction, BackupStatuses
        <5>. QED  BY <4>2, <5>1, CloseType
      <4>4. backups[Len(backups)].job = job[p]
        BY <3>3 DEF EndTransaction, RecordsInv, ProcRecords
      <4>. QED  BY <1>3, <4>1, <4>2, <4>3, <4>4
    <3>. QED  BY <1>6, <3>1, <3>2, <3>3
  <2>2. verdict'[p] = Report(c, n) /\ pc'[p] = "archive"
    BY <2>1, Went, Concluding DEF Conclude
  <2>3. verdict'[p].backup = n /\ ~verdict'[p].retry
    BY <2>2 DEF Report
  <2>4. ProcRecords(p)'
    BY <1>1, <1>2, <2>1, <2>2, <2>3 DEF ProcRecords, Critical
  <2>. QED  BY <1>1, <1>4, <2>4, InsideRecords
<1>. QED  BY <1>5, <1>6

LEMMA RegisterRecords ==
  ASSUME TypeInv, LockInv, RecordsInv, NEW p \in Proc,
         Archive(p) \/ WriteLog(p) \/ Register(p) \/ RecordFails(p) \/ Crash(p)
  PROVE  RecordsInv'
<1>. USE DEF shared, local, history
<1>0. job[p] \in Job /\ job[p].id \in Id /\ verdict[p] \in Verdict /\ logs \in [Id -> Nat]
  BY TypedNow
<1>1. CASE Archive(p) \/ WriteLog(p)
  <2>1. /\ pc[p] \in Critical /\ StepOf(p) /\ verdict' = verdict
        /\ UNCHANGED <<registry, backups, job>>
    BY <1>1 DEF Archive, WriteLog, Critical, StepOf, Work
  <2>2. RecordsGrow
    <3>1. \A i \in Id : logs[i] \in Nat /\ logs'[i] \in {logs[i], logs[i] + 1}
      <4>1. CASE Archive(p)
        BY <1>0, <4>1 DEF Archive
      <4>2. CASE WriteLog(p)
        BY <1>0, <4>2 DEF WriteLog
      <4>. QED  BY <1>1, <4>1, <4>2
    <3>2. \A i \in Id : logs'[i] \in Nat /\ logs[i] <= logs'[i]
      BY <3>1
    <3>. QED  BY <1>1, <2>1, <3>2 DEF RecordsGrow, Archive, WriteLog
  <2>3. /\ ProcRecords(p)
        /\ Known(registry, job[p].id) => registry[job[p].id].runs <= logs[job[p].id]
    BY <1>0 DEF RecordsInv, RecordedIsDocumented
  <2>4. Matches(registry', job'[p]) <=> Matches(registry, job[p])
    BY <2>1 DEF Matches, Known
  <2>5. CASE Archive(p)
    <3>1. pc'[p] = "log" /\ job[p] \in archives'
      BY <2>5, Went DEF Archive
    <3>2. ProcRecords(p)'
      BY <2>1, <2>3, <2>4, <3>1 DEF ProcRecords, Critical
    <3>. QED  BY <2>1, <2>2, <3>2, InsideRecords
  <2>6. CASE WriteLog(p)
    <3>1. pc'[p] = "register" /\ pc[p] = "log" /\ UNCHANGED archives
      BY <2>6, Went DEF WriteLog
    <3>2. registry'[job'[p].id].runs < logs'[job'[p].id]
      <4>1. logs'[job[p].id] = logs[job[p].id] + 1 /\ logs[job[p].id] \in Nat
        BY <1>0, <2>6 DEF WriteLog
      <4>2. registry[job[p].id].runs \in Nat /\ registry[job[p].id].runs <= logs[job[p].id]
        BY <1>0, <2>3, <4>1, KnownType DEF TypeInv, TypeOK
      <4>. QED  BY <2>1, <4>1, <4>2
    <3>3. ProcRecords(p)'
      BY <2>1, <2>3, <2>4, <3>1, <3>2 DEF ProcRecords, Critical
    <3>. QED  BY <2>1, <2>2, <3>3, InsideRecords
  <2>. QED  BY <1>1, <2>5, <2>6
<1>2. CASE (RecordFails(p) \/ Crash(p)) /\ Leave(p)
  BY <1>2, LeaveRecords DEF RecordFails, Crash
<1>3. CASE RecordFails(p) /\ ~Leave(p)
  <2>. DEFINE v == [verdict[p] EXCEPT !.retry = FALSE]
  <2>1. /\ v.completed = verdict[p].completed /\ v.backup = verdict[p].backup
        /\ v.retry = FALSE
    BY <1>0 DEF Verdict
  <2>2. /\ verdict' = [verdict EXCEPT ![p] = v] /\ Goto(p, "log")
        /\ UNCHANGED <<registry, archives, logs, backups, job>>
        /\ pc[p] \in {"archive", "log", "register"} /\ verdict[p].retry
    BY <1>3 DEF RecordFails
  <2>. HIDE DEF v
  <2>3. verdict'[p] = v /\ pc'[p] = "log"
    BY <2>2, Went, Concluding
  <2>4. ProcRecords(p) /\ (Matches(registry', job'[p]) <=> Matches(registry, job[p]))
    BY <2>2 DEF RecordsInv, Matches, Known
  <2>5. ProcRecords(p)'
    BY <2>1, <2>2, <2>3, <2>4 DEF ProcRecords, Critical
  <2>6. pc[p] \in Critical /\ StepOf(p)
    BY <1>3 DEF StepOf, Work, RecordFails, Critical
  <2>. QED  BY <2>2, <2>5, <2>6, NothingNew, InsideRecords
<1>4. CASE Register(p)
  <2>. DEFINE i == job[p].id
  <2>. DEFINE u == Updated(registry, job[p], verdict[p])
  <2>1. /\ registry' = [registry EXCEPT ![i] = u] /\ i \in Id
        /\ registry \in Registry /\ u \in Record
    BY <1>4, RegisterType, UpdatedType
  <2>2. /\ UNCHANGED <<backups, archives, logs>> /\ Leave(p) /\ pc[p] = "register"
    BY <1>4 DEF Register
  <2>3. pc[p] \in Critical /\ ProcRecords(p)
    BY <2>2 DEF Critical, RecordsInv
  <2>4. registry'[i] = u /\ \A k \in Id \ {i} : registry'[k] = registry[k]
    BY <2>1 DEF Registry
  <2>5. ASSUME NEW q \in Proc PROVE ProcRecords(q)'
    <3>1. pc'[q] \notin Critical /\ verdict'[q] = Report(FALSE, 0)
      <4>1. CASE q = p
        BY <2>2, <4>1, LeaveOthers DEF Critical
      <4>2. CASE q # p
        <5>1. pc'[q] = pc[q] /\ verdict'[q] = verdict[q]
          BY <2>2, <4>2, LeaveOthers DEF Others
        <5>2. pc[q] \notin Critical
          BY <2>3, <4>2, AloneInside
        <5>. QED  BY <5>1, <5>2 DEF RecordsInv, ProcRecords
      <4>. QED  BY <4>1, <4>2
    <3>. QED  BY <3>1, BlankRecordsNext
  <2>6. [id |-> i, hash |-> job[p].hash] = job[p]
    BY <1>0 DEF Job
  <2>7. /\ u.runs = registry[i].runs + 1 /\ u.archive = job[p].hash
        /\ u.hash = IF Known(registry, i) THEN registry[i].hash ELSE job[p].hash
        /\ u.backup = IF verdict[p].backup # 0 \/ ~Known(registry, i) THEN verdict[p].backup
                      ELSE registry[i].backup
    BY DEF Updated
  <2>8. u.completed => verdict[p].completed \/ (Known(registry, i) /\ registry[i].completed)
    BY Zenon DEF Updated
  <2>. HIDE DEF u, i
  <2>9. Matches(registry, job[p]) => u.hash = job[p].hash
    BY <2>7 DEF Matches, i
  <2>10. u.runs <= logs[i]
    BY <1>0, <2>1, <2>2, <2>3, <2>7, KnownType DEF ProcRecords, i
  <2>11. [id |-> i, hash |-> u.archive] \in archives
    BY <2>2, <2>3, <2>6, <2>7 DEF ProcRecords
  <2>12. u.backup # 0 => backups[u.backup].job = [id |-> i, hash |-> u.hash]
    <3>1. CASE verdict[p].backup # 0 \/ ~Known(registry, i)
      BY <2>3, <2>6, <2>7, <2>9, <3>1 DEF ProcRecords
    <3>2. CASE ~(verdict[p].backup # 0 \/ ~Known(registry, i))
      BY <2>1, <2>7, <3>2 DEF RecordsInv, RecordedIsDocumented
    <3>. QED  BY <3>1, <3>2
  <2>13. u.completed => [id |-> i, hash |-> u.hash] \in archives
    <3>1. CASE verdict[p].completed
      BY <2>2, <2>3, <2>6, <2>9, <3>1 DEF ProcRecords
    <3>2. CASE Known(registry, i) /\ registry[i].completed
      BY <2>1, <2>7, <3>2 DEF RecordsInv, CompletedIsArchived
    <3>. QED  BY <2>8, <3>1, <3>2
  <2>14. RecordedIsDocumented'
    <3>. SUFFICES ASSUME NEW k \in Id, Known(registry', k)
                  PROVE  /\ registry'[k].runs <= logs'[k]
                         /\ [id |-> k, hash |-> registry'[k].archive] \in archives'
                         /\ registry'[k].backup # 0 =>
                              backups'[registry'[k].backup].job
                                = [id |-> k, hash |-> registry'[k].hash]
      BY DEF RecordedIsDocumented
    <3>1. CASE k = i
      BY <2>2, <2>4, <2>10, <2>11, <2>12, <3>1
    <3>2. CASE k # i
      BY <2>2, <2>4, <3>2 DEF RecordsInv, RecordedIsDocumented, Known
    <3>. QED  BY <3>1, <3>2
  <2>15. CompletedIsArchived'
    <3>. SUFFICES ASSUME NEW k \in Id, Known(registry', k), registry'[k].completed
                  PROVE  [id |-> k, hash |-> registry'[k].hash] \in archives'
      BY DEF CompletedIsArchived
    <3>1. CASE k = i
      BY <2>2, <2>4, <2>13, <3>1
    <3>2. CASE k # i
      BY <2>2, <2>4, <3>2 DEF RecordsInv, CompletedIsArchived, Known
    <3>. QED  BY <3>1, <3>2
  <2>. QED  BY <2>5, <2>14, <2>15 DEF RecordsInv
<1>. QED  BY <1>1, <1>2, <1>3, <1>4 DEF Crash

LEMMA RollbackRecords ==
  ASSUME TypeInv, LockInv, RecordsInv, NEW p \in Proc,
         \/ GiveUp(p) \/ Locate(p) \/ Preflight(p) \/ BeginRestore(p)
         \/ FinishRestore(p) \/ RestoreFails(p) \/ MarkRolledBack(p)
  PROVE  RecordsInv'
<1>. USE DEF shared, local, history
<1>0. /\ job[p] \in Job /\ job[p].id \in Id /\ verdict[p] \in Verdict
      /\ backups \in Seq(Backup) /\ verdict[p].backup \in Nat
      /\ verdict[p].backup <= Len(backups)
  BY TypedNow
<1>1. CASE GiveUp(p) \/ (Locate(p) /\ Leave(p))
  BY <1>1, LeaveRecords DEF GiveUp, Locate
<1>2. CASE MarkRolledBack(p) /\ Leave(p) /\ UNCHANGED backups
  BY <1>2, LeaveRecords DEF MarkRolledBack
<1>3. CASE Locate(p) /\ ~Leave(p)
  <2>1. PICK i \in Id : i = job[p].id
    BY <1>0
  <2>2. PICK e \in Record : e = registry[i] /\ Known(registry, i)
    BY <1>3, <2>1, KnownType DEF Locate, Reversible, TypeInv, TypeOK
  <2>3. /\ Reversible(registry, i) /\ Goto(p, "preflight")
        /\ job' = [job EXCEPT ![p] = [job[p] EXCEPT !.hash = e.hash]]
        /\ verdict' = [verdict EXCEPT ![p] = Report(FALSE, e.backup)]
        /\ UNCHANGED shared
    BY <1>3, <2>1, <2>2 DEF Locate
  <2>4. job'[p] = [id |-> i, hash |-> e.hash]
    <3>1. job'[p] = [job[p] EXCEPT !.hash = e.hash]
      BY <2>3 DEF TypeInv, TypeOK
    <3>. QED  BY <1>0, <2>1, <3>1 DEF Job
  <2>5. verdict'[p] = Report(FALSE, e.backup) /\ pc'[p] = "preflight"
    BY <2>3, Went, Concluding
  <2>6. verdict'[p].backup = e.backup
    BY <2>5 DEF Report
  <2>7. job'[p] \in archives'
    <3>1. e.archive = e.hash \/ [id |-> i, hash |-> e.hash] \in archives
      BY <2>2, <2>3 DEF Reversible, Locatable
    <3>2. [id |-> i, hash |-> e.archive] \in archives
      BY <2>2 DEF RecordsInv, RecordedIsDocumented
    <3>. QED  BY <2>3, <2>4, <3>1, <3>2
  <2>8. backups'[e.backup].job = job'[p]
    BY <2>2, <2>3, <2>4 DEF Reversible
  <2>9. Matches(registry', job'[p])
    BY <2>2, <2>3, <2>4 DEF Matches
  <2>10. ProcRecords(p)'
    BY <2>5, <2>6, <2>7, <2>8, <2>9 DEF ProcRecords, Critical
  <2>11. Others(p)
    BY <1>3, StepOthers DEF StepOf, Work
  <2>12. RecordsGrow
    BY <2>3, NothingNew
  <2>. QED  BY <2>3, <2>10, <2>11, <2>12, RecordsKept
<1>4. CASE \/ Preflight(p) \/ BeginRestore(p) \/ FinishRestore(p) \/ RestoreFails(p)
           \/ (MarkRolledBack(p) /\ ~(Leave(p) /\ UNCHANGED backups))
  <2>. DEFINE b == verdict[p].backup
  <2>1. /\ pc[p] \in {"preflight", "restoring", "undoing", "mark"}
        /\ pc[p] \in Critical /\ StepOf(p)
        /\ UNCHANGED <<registry, archives, logs, job>>
    BY <1>4 DEF Preflight, BeginRestore, FinishRestore, RestoreFails, MarkRolledBack, Critical,
                  StepOf, Work
  <2>2. /\ job[p] \in archives /\ backups[b].job = job[p] /\ Matches(registry, job[p])
        /\ b \in DOMAIN backups
    <3>1. b # 0
      BY <2>1 DEF TypeInv, ReferencesOK
    <3>2. b \in DOMAIN backups
      BY <1>0, <3>1
    <3>3. ProcRecords(p)
      BY DEF RecordsInv
    <3>4. job[p] \in archives /\ backups[b].job = job[p] /\ Matches(registry, job[p])
      BY <2>1, <3>1, <3>3, Zenon DEF ProcRecords
    <3>. QED  BY <3>2, <3>4
  <2>3. \A c \in DOMAIN backups : c \in DOMAIN backups' /\ backups'[c].job = backups[c].job
    <3>1. \/ UNCHANGED backups
          \/ \E s \in BackupStatuses : backups' = [backups EXCEPT ![b].status = s]
      BY <1>4 DEF Preflight, BeginRestore, FinishRestore, RestoreFails, MarkRolledBack,
                  BackupStatuses
    <3>2. ASSUME NEW s \in BackupStatuses, backups' = [backups EXCEPT ![b].status = s],
                 NEW c \in DOMAIN backups
          PROVE  c \in DOMAIN backups' /\ backups'[c].job = backups[c].job
      <4>1. backups[b] \in Backup /\ backups[c] \in Backup
        BY <1>0, <2>2
      <4>2. backups' = [backups EXCEPT ![b] = [backups[b] EXCEPT !.status = s]]
        BY <3>2
      <4>3. [backups[b] EXCEPT !.status = s].job = backups[b].job
        BY <4>1 DEF Backup
      <4>. QED  BY <1>0, <4>2, <4>3
    <3>. QED  BY <3>1, <3>2
  <2>4. RecordsGrow
    BY <2>1, <2>3 DEF RecordsGrow, TypeInv, TypeOK
  <2>5. pc'[p] \in {"restoring", "undoing", "mark", "log"}
    <3>1. Goto(p, "restoring") \/ Goto(p, "undoing") \/ Goto(p, "mark") \/ Goto(p, "log")
      BY <1>4 DEF Preflight, BeginRestore, FinishRestore, RestoreFails, MarkRolledBack
    <3>. QED  BY <3>1, Went
  <2>6. verdict'[p].backup = b
    <3>1. CASE UNCHANGED verdict
      BY <3>1
    <3>2. CASE verdict' = [verdict EXCEPT ![p].retry = TRUE]
      <4>. DEFINE v == [verdict[p] EXCEPT !.retry = TRUE]
      <4>1. verdict[p] \in Verdict
        BY TypedNow
      <4>2. v.backup = verdict[p].backup
        BY <4>1 DEF Verdict
      <4>3. verdict' = [verdict EXCEPT ![p] = v]
        BY <3>2
      <4>. HIDE DEF v
      <4>. QED  BY <4>2, <4>3, Concluding
    <3>3. CASE verdict' = [verdict EXCEPT ![p].reset = TRUE]
      <4>. DEFINE v == [verdict[p] EXCEPT !.reset = TRUE]
      <4>1. verdict[p] \in Verdict
        BY TypedNow
      <4>2. v.backup = verdict[p].backup
        BY <4>1 DEF Verdict
      <4>3. verdict' = [verdict EXCEPT ![p] = v]
        BY <3>3
      <4>. HIDE DEF v
      <4>. QED  BY <4>2, <4>3, Concluding
    <3>. QED
      BY <1>4, <3>1, <3>2, <3>3
      DEF Preflight, BeginRestore, FinishRestore, RestoreFails, MarkRolledBack
  <2>7. ProcRecords(p)'
    <3>1. /\ job'[p] \in archives' /\ backups'[b].job = job'[p]
      BY <2>1, <2>2, <2>3
    <3>2. Matches(registry', job'[p])
      BY <2>1, <2>2 DEF Matches, Known
    <3>. QED  BY <2>5, <2>6, <3>1, <3>2 DEF ProcRecords, Critical
  <2>. QED  BY <2>1, <2>4, <2>7, InsideRecords
<1>. QED  BY <1>1, <1>2, <1>3, <1>4

LEMMA InitRecords == Init => RecordsInv
<1>. SUFFICES ASSUME Init PROVE RecordsInv
  OBVIOUS
<1>1. \A i \in Id : ~Known(registry, i)
  BY Blank DEF Init
<1>2. \A p \in Proc : pc[p] = "idle" /\ verdict[p] = Report(FALSE, 0)
  BY DEF Init
<1>3. \A p \in Proc : ProcRecords(p)
  BY <1>2, BlankRecords, Apart
<1>. QED  BY <1>1, <1>3 DEF RecordsInv, RecordedIsDocumented, CompletedIsArchived

LEMMA NextRecords == TypeInv /\ LockInv /\ RecordsInv /\ [Next]_vars => RecordsInv'
<1>. SUFFICES ASSUME TypeInv, LockInv, RecordsInv, [Next]_vars PROVE RecordsInv'
  OBVIOUS
<1>1. CASE UNCHANGED vars
  BY <1>1 DEF vars, shared, local, RecordsInv, RecordedIsDocumented, CompletedIsArchived,
              ProcRecords, Matches, Known
<1>2. ASSUME NEW p \in Proc, StepOf(p) PROVE RecordsInv'
  <2>1. CASE (\E j \in Job : Run(p, j)) \/ (\E i \in Id : RollBack(p, i)) \/ Answer(p)
    BY <2>1, OutsideRecords
  <2>2. CASE Resolve(p) \/ MakePlan(p) \/ Decline(p) \/ Execute(p)
    BY <2>2, OutsideRecords, DecidedRecords
  <2>3. CASE Crash(p) \/ Archive(p) \/ WriteLog(p) \/ Register(p) \/ RecordFails(p)
    BY <2>3, RegisterRecords
  <2>. QED  BY <1>2, <2>1, <2>2, <2>3, TransactionRecords, RollbackRecords DEF StepOf, Work
<1>. QED  BY <1>1, <1>2, NextSteps

LEMMA RecordsHold == Spec => [](TypeInv /\ LockInv /\ RecordsInv)
<1>. QED  BY InitTypeInv, InitLockInv, InitRecords, NextTypeInv, NextLockInv, NextRecords, PTL
          DEF Spec

(* What the registry says is documented whatever failed before, or was killed *)
(* half way: each run counted has its log, the archived copy it names exists, *)
(* and the backup it refers to was made by a run of this ID and this content. *)
THEOREM RegistryIsDocumented == Spec => []RecordedIsDocumented
<1>1. RecordsInv => RecordedIsDocumented
  BY DEF RecordsInv
<1>. QED  BY <1>1, RecordsHold, PTL

(* A completed job can be found again for a rollback, however many conflicting *)
(* jobs were archived under its ID since, and took the name in the registry.   *)
THEOREM CompletedCanBeFound == Spec => []CompletedIsLocatable
<1>1. RecordsInv => CompletedIsLocatable
  BY DEF RecordsInv, CompletedIsArchived, CompletedIsLocatable, Locatable
<1>. QED  BY <1>1, RecordsHold, PTL

-----------------------------------------------------------------------------
(* A step, and what it comes to *)

(* The job may be run. *)
Open(reg, j) == Matches(reg, j) /\ ~Done(reg, j)

(* The registry after an update. *)
After(reg, j, v) == [reg EXCEPT ![j.id] = Updated(reg, j, v)]

(* One more backup, or the status of one changed. *)
Added(e) ==
  /\ DOMAIN backups' = DOMAIN backups \cup {Len(backups')}
  /\ Len(backups') \notin DOMAIN backups /\ Len(backups') \in Nat \ {0}
  /\ backups'[Len(backups')] = e
  /\ \A b \in DOMAIN backups : backups'[b] = backups[b]
Closed(b, s) ==
  /\ b \in DOMAIN backups /\ DOMAIN backups' = DOMAIN backups
  /\ Len(backups') = Len(backups)
  /\ backups'[b].job = backups[b].job /\ backups'[b].entries = backups[b].entries
  /\ backups'[b].status = s
  /\ \A c \in DOMAIN backups \ {b} : backups'[c] = backups[c]

(* The verdict, but for a second try to record it. *)
SameVerdict(p) ==
  /\ verdict'[p].completed = verdict[p].completed
  /\ verdict'[p].backup = verdict[p].backup
  /\ verdict'[p].reset = verdict[p].reset

Aside(p) ==
  /\ pc[p] \notin Critical /\ pc'[p] \notin Critical
  /\ UNCHANGED <<registry, tree, backups>>
Takes(p) ==
  /\ pc[p] \notin Critical
  /\ UNCHANGED <<registry, tree, backups>> /\ job'[p] = job[p]
  /\ \/ pc'[p] = "transact" /\ Open(registry, job[p])
     \/ /\ pc'[p] = "archive"
        /\ \E c \in BOOLEAN :
             verdict'[p] = Report(c, 0) /\ (c => Done(registry, job[p]))
Locates(p) ==
  /\ pc[p] \notin Critical /\ pc'[p] = "preflight"
  /\ UNCHANGED <<registry, tree, backups>>
  /\ verdict'[p] = Report(FALSE, registry[job'[p].id].backup)
  /\ job'[p] \in Patch /\ Done(registry, job'[p])
  /\ registry[job'[p].id].backup \in DOMAIN backups
  /\ backups[registry[job'[p].id].backup].status = "COMPLETED"
Refuses(p) ==
  /\ pc[p] = "transact" /\ pc'[p] = "archive"
  /\ UNCHANGED <<registry, tree>> /\ job'[p] = job[p]
  /\ \/ UNCHANGED backups /\ verdict'[p] = Report(FALSE, 0)
     \/ /\ Fresh(p) /\ Touched(planned[p]) # {}
        /\ Added(Copy(p, "none")) /\ verdict'[p] = Report(FALSE, Len(backups'))
Settles(p) ==
  /\ pc[p] = "transact" /\ pc'[p] = "archive"
  /\ UNCHANGED <<registry, tree, backups>> /\ job'[p] = job[p]
  /\ job[p] \in Patch => Fresh(p) /\ Touched(planned[p]) = {}
  /\ verdict'[p] = Report(TRUE, 0)
Begins(p) ==
  /\ pc[p] = "transact" /\ pc'[p] = "applying"
  /\ Fresh(p) /\ Touched(planned[p]) # {}
  /\ Added(Copy(p, "PREPARED"))
  /\ tree' \in Disturbed(tree, planned[p])
  /\ UNCHANGED registry /\ job'[p] = job[p]
Ends(p) ==
  /\ pc[p] = "applying" /\ pc'[p] = "archive"
  /\ UNCHANGED registry /\ job'[p] = job[p]
  /\ \/ /\ tree' = Rewritten(tree, backups[Len(backups)].entries)
        /\ Closed(Len(backups), "COMPLETED")
        /\ verdict'[p] = Report(TRUE, Len(backups))
     \/ /\ tree' = Restored(tree, backups[Len(backups)].entries)
        /\ \/ Closed(Len(backups), "ROLLED_BACK") \/ Closed(Len(backups), "FAILED")
           \/ Faults /\ UNCHANGED backups
        /\ verdict'[p] = Report(FALSE, Len(backups))
     \/ /\ UNCHANGED tree
        /\ \/ Closed(Len(backups), "CHANGES_KEPT")
           \/ Closed(Len(backups), "ROLLBACK_FAILED")
           \/ Faults /\ UNCHANGED backups
        /\ verdict'[p] = Report(FALSE, Len(backups))
Records(p) ==
  /\ pc[p] \in {"archive", "log", "register"} /\ pc'[p] \in {"archive", "log", "register"}
  /\ UNCHANGED <<registry, tree, backups>> /\ job'[p] = job[p] /\ SameVerdict(p)
Registers(p) ==
  /\ pc[p] = "register" /\ Leave(p)
  /\ UNCHANGED <<tree, backups>> /\ registry' = After(registry, job[p], verdict[p])
Checks(p) ==
  /\ pc[p] = "preflight"
  /\ pc'[p] = "log" \/ (pc'[p] = "restoring" /\ Applied(verdict[p].backup))
  /\ UNCHANGED <<registry, tree, backups>> /\ job'[p] = job[p] /\ SameVerdict(p)
Restores(p) ==
  /\ pc[p] = "restoring" /\ pc'[p] = "undoing"
  /\ tree' \in Disturbed(tree, backups[verdict[p].backup].entries)
  /\ UNCHANGED <<registry, backups>> /\ job'[p] = job[p] /\ SameVerdict(p)
Finishes(p) ==
  /\ pc[p] = "undoing" /\ pc'[p] = "mark"
  /\ tree' = Restored(tree, backups[verdict[p].backup].entries)
  /\ UNCHANGED <<registry, backups>> /\ job'[p] = job[p] /\ SameVerdict(p)
Breaks(p) ==
  /\ pc[p] = "undoing" /\ pc'[p] = "log"
  /\ \/ Closed(verdict[p].backup, "ROLLBACK_FAILED")
     \/ Faults /\ UNCHANGED backups
  /\ UNCHANGED <<registry, tree>> /\ job'[p] = job[p] /\ SameVerdict(p)
Marks(p) ==
  /\ pc[p] = "mark" /\ pc'[p] = "log"
  /\ Closed(verdict[p].backup, "ROLLED_BACK")
  /\ UNCHANGED <<registry, tree>> /\ job'[p] = job[p]
  /\ verdict'[p].backup = verdict[p].backup /\ verdict'[p].reset
  /\ verdict'[p].completed = verdict[p].completed
Leaves(p) ==
  /\ Faults /\ pc[p] \in Critical /\ Leave(p) /\ UNCHANGED <<registry, tree, backups>>

(* Everything a step of p can come to. *)
Comes(p) ==
  \/ Aside(p) \/ Takes(p) \/ Locates(p) \/ Refuses(p) \/ Settles(p) \/ Begins(p)
  \/ Ends(p) \/ Records(p) \/ Registers(p) \/ Checks(p) \/ Restores(p) \/ Finishes(p)
  \/ Breaks(p) \/ Marks(p) \/ Leaves(p)

LEMMA AddedBackup ==
  ASSUME TypeInv, NEW p \in Proc, NEW s \in BackupStatuses,
         backups' = Append(backups, Copy(p, s))
  PROVE  Added(Copy(p, s))
<1>1. job[p] \in Job /\ planned[p] \in Plan /\ backups \in Seq(Backup)
  BY TypedNow DEF TypeInv, TypeOK
<1>2. Copy(p, s) \in Backup
  BY <1>1 DEF Copy, Backup
<1>3. /\ Len(backups') = Len(backups) + 1 /\ backups'[Len(backups) + 1] = Copy(p, s)
      /\ \A b \in 1..Len(backups) : backups'[b] = backups[b]
      /\ backups' \in Seq(Backup) /\ Len(backups) \in Nat
  BY <1>1, <1>2, AppendProperties
<1>4. DOMAIN backups = 1..Len(backups) /\ DOMAIN backups' = 1..Len(backups')
  BY <1>1, <1>3
<1>. QED  BY <1>3, <1>4 DEF Added

LEMMA ClosedBackup ==
  ASSUME TypeInv, NEW b \in DOMAIN backups, NEW s \in BackupStatuses,
         backups' = [backups EXCEPT ![b].status = s]
  PROVE  Closed(b, s)
<1>1. backups \in Seq(Backup) /\ backups[b] \in Backup
  BY DEF TypeInv, TypeOK
<1>. DEFINE e == [backups[b] EXCEPT !.status = s]
<1>2. e.job = backups[b].job /\ e.entries = backups[b].entries /\ e.status = s
  BY <1>1 DEF Backup
<1>3. backups' = [backups EXCEPT ![b] = e]
  OBVIOUS
<1>4. Len(backups') = Len(backups)
  BY CloseType
<1>. HIDE DEF e
<1>. QED  BY <1>1, <1>2, <1>3, <1>4 DEF Closed

LEMMA OutsideComes ==
  ASSUME TypeInv, LockInv, NEW p \in Proc,
         \/ \E j \in Job : Run(p, j)
         \/ \E i \in Id : RollBack(p, i)
         \/ Answer(p) \/ GiveUp(p) \/ MakePlan(p)
  PROVE  Aside(p)
<1>1. pc[p] \in Unlocked /\ UNCHANGED <<registry, tree, backups>>
  BY DEF Run, RollBack, Start, Answer, GiveUp, MakePlan, Unlocked, shared
<1>2. Leave(p) \/ \E l \in Unlocked : Goto(p, l)
  BY DEF Run, RollBack, Start, Answer, GiveUp, MakePlan, Unlocked
<1>3. pc'[p] \in Unlocked
  BY <1>2, LeaveOthers, Went DEF Unlocked
<1>. QED  BY <1>1, <1>3, Apart DEF Aside

LEMMA DecisionComes ==
  ASSUME TypeInv, LockInv, NEW p \in Proc, Resolve(p) \/ Decline(p) \/ Execute(p)
  PROVE  Aside(p) \/ Takes(p)
<1>1. /\ pc[p] \in Unlocked /\ pc[p] \notin Critical
      /\ UNCHANGED <<registry, tree, backups, job>>
  BY Apart DEF Resolve, Decline, Execute, Unlocked, shared
<1>2. CASE Resolve(p) /\ ~RecordDecision(p)
  <2>1. Goto(p, "plan")
    BY <1>2 DEF Resolve
  <2>2. pc'[p] \in Unlocked
    BY <2>1, Went DEF Unlocked
  <2>. QED  BY <1>1, <2>2, Apart DEF Aside
<1>3. CASE Execute(p) /\ ~RecordDecision(p)
  <2>1. Decision(registry, job[p]) = "PROCEED" /\ Goto(p, "transact")
    BY <1>3 DEF Execute
  <2>2. pc'[p] = "transact" /\ Open(registry, job[p])
    BY <2>1, Went, Decided DEF Open
  <2>. QED  BY <1>1, <2>2 DEF Takes
<1>4. CASE RecordDecision(p) \/ Decline(p)
  <2>1. PICK c \in BOOLEAN :
          /\ verdict' = [verdict EXCEPT ![p] = Report(c, 0)]
          /\ c => Decision(registry, job[p]) = "ALREADY_APPLIED"
    BY <1>4 DEF RecordDecision, Decline
  <2>2. Goto(p, "archive")
    BY <1>4 DEF RecordDecision, Decline
  <2>3. verdict'[p] = Report(c, 0) /\ pc'[p] = "archive"
    BY <2>1, <2>2, Went, Concluding
  <2>4. c => Done(registry, job[p])
    BY <2>1, Decided
  <2>. QED  BY <1>1, <2>3, <2>4 DEF Takes
<1>. QED  BY <1>2, <1>3, <1>4

LEMMA LocateComes ==
  ASSUME TypeInv, LockInv, NEW p \in Proc, Locate(p)
  PROVE  Aside(p) \/ Locates(p)
<1>1. /\ pc[p] = "locate" /\ pc[p] \notin Critical
      /\ UNCHANGED <<registry, tree, backups>>
  BY DEF Locate, Critical, shared
<1>2. CASE Leave(p)
  <2>1. pc'[p] \notin Critical
    BY <1>2, LeaveOthers DEF Critical
  <2>. QED  BY <1>1, <2>1 DEF Aside
<1>3. CASE ~Leave(p)
  <2>. DEFINE i == job[p].id
  <2>1. /\ Reversible(registry, i) /\ Goto(p, "preflight")
        /\ job' = [job EXCEPT ![p] = [job[p] EXCEPT !.hash = registry[i].hash]]
        /\ verdict' = [verdict EXCEPT ![p] = Report(FALSE, registry[i].backup)]
    BY <1>3 DEF Locate
  <2>2. job'[p] = [id |-> i, hash |-> registry[i].hash]
    <3>1. job'[p] = [job[p] EXCEPT !.hash = registry[i].hash]
      BY <2>1 DEF TypeInv, TypeOK
    <3>. QED  BY <3>1, TypedNow DEF Job
  <2>3. verdict'[p] = Report(FALSE, registry[i].backup) /\ pc'[p] = "preflight"
    BY <2>1, Went, Concluding
  <2>4. /\ job'[p] \in Patch /\ Done(registry, job'[p])
        /\ backups[registry[i].backup].status = "COMPLETED"
    BY <2>1, <2>2 DEF Reversible, Done
  <2>5. job'[p].id = i
    BY <2>2
  <2>6. registry[i].backup \in DOMAIN backups
    <3>1. Known(registry, i) /\ registry[i].backup # 0
      BY <2>1 DEF Reversible
    <3>2. registry[i].backup \in Nat /\ registry[i].backup <= Len(backups)
      BY <3>1, KnownType, TypedNow DEF TypeInv, TypeOK, ReferencesOK, Record
    <3>. QED  BY <3>1, <3>2, TypedNow
  <2>. QED  BY <1>1, <2>3, <2>4, <2>5, <2>6 DEF Locates
<1>. QED  BY <1>2, <1>3

LEMMA TransactionComes ==
  ASSUME TypeInv, LockInv, NEW p \in Proc,
         TransactionRefused(p) \/ NothingToDo(p) \/ BeginTransaction(p)
  PROVE  Refuses(p) \/ Settles(p) \/ Begins(p)
<1>1. pc[p] = "transact" /\ UNCHANGED <<registry, job>>
  BY DEF TransactionRefused, NothingToDo, BeginTransaction, shared, local
<1>2. {"none", "PREPARED"} \subseteq BackupStatuses
  BY DEF BackupStatuses
<1>3. CASE TransactionRefused(p)
  <2>1. UNCHANGED tree
    BY <1>3 DEF TransactionRefused
  <2>2. CASE UNCHANGED backups /\ Conclude(p, FALSE, 0)
    <3>1. verdict'[p] = Report(FALSE, 0) /\ pc'[p] = "archive"
      BY <2>2, Went, Concluding DEF Conclude
    <3>. QED  BY <1>1, <2>1, <2>2, <3>1 DEF Refuses
  <2>3. CASE /\ Fresh(p) /\ Touched(planned[p]) # {}
             /\ backups' = Append(backups, Copy(p, "none"))
             /\ Conclude(p, FALSE, Len(backups'))
    <3>1. verdict'[p] = Report(FALSE, Len(backups')) /\ pc'[p] = "archive"
      BY <2>3, Went, Concluding DEF Conclude
    <3>2. Added(Copy(p, "none"))
      BY <1>2, <2>3, AddedBackup
    <3>. QED  BY <1>1, <2>1, <2>3, <3>1, <3>2 DEF Refuses
  <2>. QED  BY <1>3, <2>2, <2>3 DEF TransactionRefused, Copy
<1>4. CASE NothingToDo(p)
  <2>1. verdict'[p] = Report(TRUE, 0) /\ pc'[p] = "archive"
    BY <1>4, Went, Concluding DEF NothingToDo, Conclude
  <2>. QED  BY <1>1, <1>4, <2>1 DEF NothingToDo, Settles, shared
<1>5. CASE BeginTransaction(p)
  <2>1. backups' = Append(backups, Copy(p, "PREPARED")) /\ Goto(p, "applying")
    BY <1>5 DEF BeginTransaction, Copy
  <2>2. Added(Copy(p, "PREPARED")) /\ pc'[p] = "applying"
    BY <1>2, <2>1, AddedBackup, Went
  <2>. QED  BY <1>1, <1>5, <2>2 DEF BeginTransaction, Begins
<1>. QED  BY <1>3, <1>4, <1>5

LEMMA EndComes ==
  ASSUME TypeInv, LockInv, NEW p \in Proc, EndTransaction(p)
  PROVE  Ends(p)
<1>. DEFINE b == Len(backups)
<1>. DEFINE Close(s) == backups' = [backups EXCEPT ![b].status = s]
<1>1. b \in DOMAIN backups
  BY TypedNow DEF EndTransaction, TypeInv, ReferencesOK
<1>2. \A s \in BackupStatuses : Close(s) => Closed(b, s)
  BY <1>1, ClosedBackup
<1>3. {"COMPLETED", "ROLLED_BACK", "FAILED", "CHANGES_KEPT", "ROLLBACK_FAILED"}
        \subseteq BackupStatuses
  BY DEF BackupStatuses
<1>4. \A c \in BOOLEAN : Conclude(p, c, b) => verdict'[p] = Report(c, b) /\ pc'[p] = "archive"
  BY Went, Concluding DEF Conclude
<1>5. \/ /\ tree' = Rewritten(tree, backups[b].entries)
         /\ Close("COMPLETED") /\ Conclude(p, TRUE, b)
      \/ /\ tree' = Restored(tree, backups[b].entries)
         /\ Close("ROLLED_BACK") \/ Close("FAILED") \/ (Faults /\ UNCHANGED backups)
         /\ Conclude(p, FALSE, b)
      \/ /\ UNCHANGED tree
         /\ Close("CHANGES_KEPT") \/ Close("ROLLBACK_FAILED") \/ (Faults /\ UNCHANGED backups)
         /\ Conclude(p, FALSE, b)
  BY DEF EndTransaction
<1>6. pc[p] = "applying" /\ UNCHANGED <<registry, job>>
  BY DEF EndTransaction
<1>. HIDE DEF Close
<1>7. /\ Close("COMPLETED") => Closed(b, "COMPLETED")
      /\ Close("ROLLED_BACK") => Closed(b, "ROLLED_BACK")
      /\ Close("FAILED") => Closed(b, "FAILED")
      /\ Close("CHANGES_KEPT") => Closed(b, "CHANGES_KEPT")
      /\ Close("ROLLBACK_FAILED") => Closed(b, "ROLLBACK_FAILED")
  BY <1>2, <1>3
<1>. QED  BY <1>4, <1>5, <1>6, <1>7 DEF Ends

LEMMA RecordComes ==
  ASSUME TypeInv, LockInv, NEW p \in Proc,
         Archive(p) \/ WriteLog(p) \/ Register(p) \/ RecordFails(p) \/ Crash(p)
  PROVE  Aside(p) \/ Records(p) \/ Registers(p) \/ Leaves(p)
<1>1. CASE Archive(p) \/ WriteLog(p)
  <2>1. /\ pc[p] \in {"archive", "log"} /\ (Goto(p, "log") \/ Goto(p, "register"))
        /\ UNCHANGED <<registry, tree, backups, job, verdict>>
    BY <1>1 DEF Archive, WriteLog, local
  <2>2. pc'[p] \in {"archive", "log", "register"}
    BY <2>1, Went
  <2>. QED  BY <2>1, <2>2 DEF Records, SameVerdict
<1>2. CASE Register(p)
  BY <1>2, RegisterType DEF Register, Registers, After
<1>3. CASE (RecordFails(p) \/ Crash(p)) /\ Leave(p)
  <2>1. pc'[p] = "idle" /\ Faults /\ UNCHANGED <<registry, tree, backups>>
    BY <1>3, LeaveOthers DEF RecordFails, Crash, shared
  <2>. QED  BY <1>3, <2>1 DEF Leaves, Aside, Critical
<1>4. CASE RecordFails(p) /\ ~Leave(p)
  <2>. DEFINE v == [verdict[p] EXCEPT !.retry = FALSE]
  <2>1. /\ v.completed = verdict[p].completed /\ v.backup = verdict[p].backup
        /\ v.reset = verdict[p].reset
    BY TypedNow DEF Verdict
  <2>2. /\ verdict' = [verdict EXCEPT ![p] = v] /\ Goto(p, "log")
        /\ UNCHANGED <<registry, tree, backups, job>>
        /\ pc[p] \in {"archive", "log", "register"}
    BY <1>4 DEF RecordFails, shared
  <2>. HIDE DEF v
  <2>3. verdict'[p] = v /\ pc'[p] = "log"
    BY <2>2, Went, Concluding
  <2>. QED  BY <2>1, <2>2, <2>3 DEF Records, SameVerdict
<1>. QED  BY <1>1, <1>2, <1>3, <1>4 DEF Crash

LEMMA RollbackComes ==
  ASSUME TypeInv, LockInv, NEW p \in Proc,
         \/ Preflight(p) \/ BeginRestore(p) \/ FinishRestore(p) \/ RestoreFails(p)
         \/ MarkRolledBack(p)
  PROVE  Checks(p) \/ Restores(p) \/ Finishes(p) \/ Breaks(p) \/ Marks(p) \/ Leaves(p)
<1>. USE DEF shared, local, history
<1>. DEFINE b == verdict[p].backup
<1>1. verdict[p] \in Verdict
  BY TypedNow
<1>2. CASE Preflight(p) \/ BeginRestore(p) \/ FinishRestore(p)
  <2>1. UNCHANGED <<registry, backups, job, verdict>>
    BY <1>2 DEF Preflight, BeginRestore, FinishRestore
  <2>2. SameVerdict(p) /\ job'[p] = job[p]
    BY <2>1 DEF SameVerdict
  <2>3. CASE Preflight(p)
    <3>1. pc'[p] = "log" \/ (pc'[p] = "restoring" /\ Applied(b))
      BY <2>3, Went DEF Preflight
    <3>. QED  BY <2>1, <2>2, <2>3, <3>1 DEF Preflight, Checks
  <2>4. CASE BeginRestore(p)
    <3>1. pc'[p] = "undoing"
      BY <2>4, Went DEF BeginRestore
    <3>. QED  BY <2>1, <2>2, <2>4, <3>1 DEF BeginRestore, Restores
  <2>5. CASE FinishRestore(p)
    <3>1. pc'[p] = "mark"
      BY <2>5, Went DEF FinishRestore
    <3>. QED  BY <2>1, <2>2, <2>5, <3>1 DEF FinishRestore, Finishes
  <2>. QED  BY <1>2, <2>3, <2>4, <2>5
<1>3. CASE MarkRolledBack(p) /\ Leave(p) /\ Faults /\ UNCHANGED backups
  BY <1>3 DEF MarkRolledBack, Leaves, Critical
<1>4. CASE RestoreFails(p) \/ (MarkRolledBack(p) /\ ~(Leave(p) /\ Faults /\ UNCHANGED backups))
  <2>1. /\ pc[p] \in {"undoing", "mark"} /\ Goto(p, "log")
        /\ UNCHANGED <<registry, tree, job>>
    BY <1>4 DEF RestoreFails, MarkRolledBack
  <2>2. pc'[p] = "log" /\ b \in DOMAIN backups
    <3>1. b # 0
      BY <2>1 DEF TypeInv, ReferencesOK
    <3>. QED  BY <2>1, <3>1, Went, TypedNow
  <2>3. {"ROLLED_BACK", "ROLLBACK_FAILED"} \subseteq BackupStatuses
    BY DEF BackupStatuses
  <2>4. CASE RestoreFails(p)
    <3>1. CASE Faults /\ UNCHANGED <<backups, verdict>>
      BY <2>1, <2>2, <2>4, <3>1 DEF RestoreFails, Breaks, SameVerdict
    <3>2. CASE /\ backups' = [backups EXCEPT ![b].status = "ROLLBACK_FAILED"]
               /\ verdict' = [verdict EXCEPT ![p].retry = TRUE]
      <4>. DEFINE v == [verdict[p] EXCEPT !.retry = TRUE]
      <4>1. v.completed = verdict[p].completed /\ v.backup = b /\ v.reset = verdict[p].reset
        BY <1>1 DEF Verdict
      <4>2. verdict' = [verdict EXCEPT ![p] = v]
        BY <3>2
      <4>. HIDE DEF v
      <4>3. verdict'[p] = v
        BY <4>2, Concluding
      <4>4. Closed(b, "ROLLBACK_FAILED")
        BY <2>2, <2>3, <3>2, ClosedBackup
      <4>. QED  BY <2>1, <2>2, <2>4, <4>1, <4>3, <4>4 DEF RestoreFails, Breaks, SameVerdict
    <3>. QED  BY <2>4, <3>1, <3>2 DEF RestoreFails
  <2>5. CASE MarkRolledBack(p)
    <3>. DEFINE v == [verdict[p] EXCEPT !.reset = TRUE]
    <3>1. v.completed = verdict[p].completed /\ v.backup = b /\ v.reset
      BY <1>1 DEF Verdict
    <3>2. /\ verdict' = [verdict EXCEPT ![p] = v]
          /\ backups' = [backups EXCEPT ![b].status = "ROLLED_BACK"]
      BY <1>4, <2>5 DEF MarkRolledBack, RestoreFails
    <3>. HIDE DEF v
    <3>3. verdict'[p] = v
      BY <3>2, Concluding
    <3>4. Closed(b, "ROLLED_BACK")
      BY <2>2, <2>3, <3>2, ClosedBackup
    <3>. QED  BY <2>1, <2>2, <2>5, <3>1, <3>3, <3>4 DEF MarkRolledBack, Marks
  <2>. QED  BY <1>4, <2>4, <2>5
<1>. QED  BY <1>2, <1>3, <1>4

LEMMA StepComes ==
  ASSUME TypeInv, LockInv, NEW p \in Proc, StepOf(p)
  PROVE  Comes(p)
<1>1. CASE \/ \E j \in Job : Run(p, j)
           \/ \E i \in Id : RollBack(p, i)
           \/ Answer(p) \/ GiveUp(p) \/ MakePlan(p)
  BY <1>1, OutsideComes DEF Comes
<1>2. CASE Resolve(p) \/ Decline(p) \/ Execute(p)
  BY <1>2, DecisionComes DEF Comes
<1>3. CASE TransactionRefused(p) \/ NothingToDo(p) \/ BeginTransaction(p)
  BY <1>3, TransactionComes DEF Comes
<1>4. CASE Archive(p) \/ WriteLog(p) \/ Register(p) \/ RecordFails(p) \/ Crash(p)
  BY <1>4, RecordComes DEF Comes
<1>5. CASE \/ Preflight(p) \/ BeginRestore(p) \/ FinishRestore(p) \/ RestoreFails(p)
           \/ MarkRolledBack(p)
  BY <1>5, RollbackComes DEF Comes
<1>6. CASE Locate(p)
  BY <1>6, LocateComes DEF Comes
<1>7. CASE EndTransaction(p)
  BY <1>7, EndComes DEF Comes
<1>. QED  BY <1>1, <1>2, <1>3, <1>4, <1>5, <1>6, <1>7 DEF StepOf, Work

(* The lock keeps what a process inside reads from changing under it. *)
LEMMA OutsideStill ==
  ASSUME NEW p \in Proc, Comes(p), pc[p] \notin Critical
  PROVE  Aside(p) \/ Takes(p) \/ Locates(p)
  BY DEF Comes, Refuses, Settles, Begins, Ends, Records, Registers, Checks, Restores,
         Finishes, Breaks, Marks, Leaves, Critical

LEMMA OutsideReads ==
  ASSUME NEW p \in Proc, Comes(p), pc[p] \notin Critical
  PROVE  UNCHANGED <<registry, tree, backups>>
  BY OutsideStill DEF Aside, Takes, Locates

LEMMA OnlyPatchesTouch ==
  ASSUME NEW j \in Job, NEW t \in Tree, Touched(PlanOf(j, t)) # {}
  PROVE  j \in Patch
<1>1. j \notin Patch => PlanOf(j, t) = NoChange
  BY DEF PlanOf, NoChange
<1>. QED  BY <1>1, PlanType

LEMMA PlannedHere ==
  ASSUME NEW j \in Job, NEW t \in Tree, NEW q \in Touched(PlanOf(j, t))
  PROVE  PlanOf(j, t)[q].before = t[q]
<1>1. q \in Path /\ j \in Patch
  BY OnlyPatchesTouch DEF Touched
<1>2. Goal[j][t][q] # t[q]
  BY <1>1 DEF PlanOf, NoChange, Touched
<1>. QED  BY <1>1, <1>2 DEF PlanOf

-----------------------------------------------------------------------------
(* What a process inside is about *)

(* The rollback of a job that is registered as completed, and was. *)
Undoing(p) ==
  LET b == verdict[p].backup IN
  /\ job[p] \in Patch /\ Done(registry, job[p]) /\ registry[job[p].id].backup = b
  /\ b \in DOMAIN backups /\ backups[b].status = "COMPLETED"
  /\ ~verdict[p].completed /\ ~verdict[p].reset

ProcWork(p) ==
  /\ pc[p] \in {"transact", "applying"} => Open(registry, job[p])
  /\ pc[p] = "applying" =>
       /\ job[p] \in Patch /\ Len(backups) \in DOMAIN backups
       /\ backups[Len(backups)].status = "PREPARED"
       /\ Touched(backups[Len(backups)].entries) # {}
  /\ pc[p] \in {"preflight", "restoring", "undoing", "mark"} => Undoing(p)
  /\ pc[p] = "restoring" => Applied(verdict[p].backup)

(* A run that changes nothing has no backup that says COMPLETED. *)
ChangesKept ==
  \A b \in DOMAIN backups : backups[b].status = "COMPLETED" => Touched(backups[b].entries) # {}

WorkInv == ChangesKept /\ \A p \in Proc : ProcWork(p)

LEMMA WorkOthers ==
  ASSUME TypeInv, LockInv, NEW p \in Proc, Comes(p), Others(p),
         NEW q \in Proc, q # p, ProcWork(q)
  PROVE  ProcWork(q)'
<1>1. pc'[q] = pc[q] /\ job'[q] = job[q] /\ verdict'[q] = verdict[q]
  BY DEF Others
<1>2. CASE pc[q] \notin Critical
  BY <1>1, <1>2 DEF ProcWork, Critical
<1>3. CASE pc[q] \in Critical
  <2>1. UNCHANGED <<registry, tree, backups>>
    BY <1>3, AloneInside, OutsideReads
  <2>. QED  BY <1>1, <2>1 DEF ProcWork, Undoing, Open, Matches, Done, Known, Applied
<1>. QED  BY <1>2, <1>3

LEMMA WorkSelf ==
  ASSUME TypeInv, LockInv, RecordsInv, WorkInv, NEW p \in Proc, Comes(p)
  PROVE  ProcWork(p)'
<1>0. ProcWork(p)
  BY DEF WorkInv
<1>1. CASE pc'[p] \in {"archive", "log", "register"} \/ pc'[p] \notin Critical
  BY <1>1 DEF ProcWork, Critical
<1>2. CASE Aside(p) \/ Refuses(p) \/ Settles(p) \/ Ends(p) \/ Records(p) \/ Registers(p)
           \/ Breaks(p) \/ Marks(p) \/ Leaves(p)
  <2>1. Leave(p) => pc'[p] \notin Critical
    BY LeaveOthers DEF Critical
  <2>. QED  BY <1>1, <1>2, <2>1 DEF Aside, Refuses, Settles, Ends, Records, Registers,
                                    Breaks, Marks, Leaves
<1>3. CASE Takes(p)
  BY <1>1, <1>3 DEF Takes, ProcWork, Open, Matches, Done, Known
<1>4. CASE Locates(p)
  <2>1. PICK b : b = registry[job'[p].id].backup
    OBVIOUS
  <2>2. verdict'[p] = Report(FALSE, b) /\ pc'[p] = "preflight"
    BY <1>4, <2>1 DEF Locates
  <2>3. ~verdict'[p].completed /\ ~verdict'[p].reset /\ verdict'[p].backup = b
    BY <2>2 DEF Report
  <2>4. /\ job'[p] \in Patch /\ Done(registry', job'[p]) /\ registry'[job'[p].id].backup = b
        /\ b \in DOMAIN backups' /\ backups'[b].status = "COMPLETED"
    BY <1>4, <2>1 DEF Locates, Done, Known
  <2>. QED  BY <2>2, <2>3, <2>4 DEF ProcWork, Undoing
<1>5. CASE Begins(p)
  <2>1. job[p] \in Patch
    BY <1>5, TypedNow, OnlyPatchesTouch DEF Begins, Fresh
  <2>2. Open(registry', job'[p])
    BY <1>0, <1>5 DEF Begins, ProcWork, Open, Matches, Done, Known
  <2>3. /\ Len(backups') \in DOMAIN backups'
        /\ backups'[Len(backups')].status = "PREPARED"
        /\ backups'[Len(backups')].entries = planned[p]
    BY <1>5 DEF Begins, Added, Copy
  <2>. QED  BY <1>5, <2>1, <2>2, <2>3 DEF Begins, ProcWork
<1>6. CASE Checks(p) \/ Restores(p) \/ Finishes(p)
  <2>1. /\ pc[p] \in {"preflight", "restoring", "undoing"} /\ SameVerdict(p)
        /\ UNCHANGED <<registry, backups>> /\ job'[p] = job[p]
    BY <1>6 DEF Checks, Restores, Finishes
  <2>2. Undoing(p)'
    BY <1>0, <2>1 DEF ProcWork, Undoing, SameVerdict, Done, Known
  <2>3. pc'[p] \in {"log", "restoring", "undoing", "mark"}
    BY <1>6 DEF Checks, Restores, Finishes
  <2>4. pc'[p] = "restoring" => Applied(verdict[p].backup) /\ UNCHANGED tree
    BY <1>6 DEF Checks, Restores, Finishes
  <2>5. pc'[p] = "restoring" => Applied(verdict[p].backup)'
    BY <2>1, <2>4 DEF Applied, SameVerdict
  <2>. QED  BY <2>2, <2>3, <2>5 DEF ProcWork
<1>. QED  BY <1>2, <1>3, <1>4, <1>5, <1>6 DEF Comes

LEMMA NextWork == TypeInv /\ LockInv /\ RecordsInv /\ WorkInv /\ [Next]_vars => WorkInv'
<1>. SUFFICES ASSUME TypeInv, LockInv, RecordsInv, WorkInv, [Next]_vars PROVE WorkInv'
  OBVIOUS
<1>1. CASE UNCHANGED vars
  BY <1>1 DEF vars, shared, local, WorkInv, ChangesKept, ProcWork, Undoing, Open, Matches,
              Done, Known, Applied
<1>2. ASSUME NEW p \in Proc, StepOf(p) PROVE WorkInv'
  <2>1. Comes(p) /\ Others(p)
    BY <1>2, StepComes, StepOthers
  <2>2. \A q \in Proc : ProcWork(q)'
    BY <2>1, WorkOthers, WorkSelf DEF WorkInv
  <2>3. ChangesKept'
    <3>1. CASE UNCHANGED backups
      BY <3>1 DEF WorkInv, ChangesKept
    <3>2. ASSUME NEW s \in {"none", "PREPARED"}, Added(Copy(p, s)) PROVE ChangesKept'
      <4>1. Copy(p, s).status # "COMPLETED"
        BY DEF Copy
      <4>. QED  BY <3>2, <4>1 DEF WorkInv, ChangesKept, Added
    <3>3. CASE \E s \in {"ROLLED_BACK", "FAILED", "CHANGES_KEPT", "ROLLBACK_FAILED"} :
                 \E b \in DOMAIN backups : Closed(b, s)
      BY <3>3 DEF WorkInv, ChangesKept, Closed
    <3>4. CASE pc[p] = "applying" /\ Closed(Len(backups), "COMPLETED")
      BY <3>4 DEF WorkInv, ChangesKept, Closed, ProcWork
    <3>. QED
      BY <2>1, <3>1, <3>2, <3>3, <3>4
      DEF Comes, Aside, Takes, Locates, Refuses, Settles, Begins, Ends, Records, Registers,
          Checks, Restores, Finishes, Breaks, Marks, Leaves, Closed
  <2>. QED  BY <2>2, <2>3 DEF WorkInv
<1>. QED  BY <1>1, <1>2, NextSteps

LEMMA InitWork == Init => WorkInv
  BY DEF Init, WorkInv, ChangesKept, ProcWork

LEMMA WorkHolds == Spec => [](TypeInv /\ LockInv /\ RecordsInv /\ WorkInv)
<1>. QED  BY InitTypeInv, InitLockInv, InitRecords, InitWork, NextTypeInv, NextLockInv,
             NextRecords, NextWork, PTL DEF Spec

LEMMA EntriesType ==
  ASSUME TypeInv, NEW b \in DOMAIN backups
  PROVE  backups[b].entries \in Plan /\ backups[b].job \in Job
<1>1. backups[b] \in Backup
  BY DEF TypeInv, TypeOK
<1>. QED  BY <1>1 DEF Backup

(* A path changes only where the job inside has a backup that lists it: the   *)
(* jobs of other processes, and the ones run before, keep their files unless  *)
(* the plan was made for them as they are.                                    *)
THEOREM OtherJobsSurvive == Spec => OthersSurvive
<1>1. TypeInv /\ LockInv /\ RecordsInv /\ WorkInv /\ [Next]_vars
        => [\A q \in Path : tree'[q] # tree[q] => Overwrites(q)]_vars
  <2>. SUFFICES ASSUME TypeInv, LockInv, RecordsInv, WorkInv, NEW p \in Proc, StepOf(p),
                       NEW q \in Path, tree'[q] # tree[q]
                PROVE  Overwrites(q)
    BY NextSteps DEF vars
  <2>1. Comes(p) /\ ProcWork(p) /\ ProcRecords(p) /\ (pc[p] \in Critical => holder = p)
    BY StepComes DEF WorkInv, RecordsInv, LockInv, Exclusion
  <2>2. CASE Begins(p)
    <3>1. /\ Len(backups') \in DOMAIN backups' /\ backups'[Len(backups')].job = job[p]
          /\ backups'[Len(backups')].entries = planned[p] /\ pc[p] = "transact"
          /\ tree' \in Disturbed(tree, planned[p]) /\ planned[p] = PlanOf(job[p], tree)
      BY <2>2 DEF Begins, Added, Copy, Fresh
    <3>2. q \in Touched(planned[p])
      BY <3>1, TypedNow, FilesType
    <3>3. planned[p][q].before = tree[q]
      BY <3>1, <3>2, TypedNow, PlannedHere
    <3>. QED  BY <2>1, <3>1, <3>2, <3>3 DEF Critical, Overwrites
  <2>3. CASE Ends(p)
    <3>. DEFINE b == Len(backups)
    <3>1. /\ pc[p] = "applying" /\ b \in DOMAIN backups /\ backups[b].job = job[p]
      BY <2>1, <2>3 DEF Ends, ProcWork, ProcRecords
    <3>2. b \in DOMAIN backups' /\ backups'[b].job = job[p]
          /\ backups'[b].entries = backups[b].entries
      BY <2>3, <3>1 DEF Ends, Closed
    <3>3. backups[b].entries \in Plan
      BY <3>1, EntriesType
    <3>4. q \in Touched(backups[b].entries)
      <4>1. tree' \in {tree, Rewritten(tree, backups[b].entries),
                       Restored(tree, backups[b].entries)}
        BY <2>3 DEF Ends
      <4>. QED  BY <3>3, <4>1, TypedNow, FilesType
    <3>. QED  BY <2>1, <3>1, <3>2, <3>4 DEF Critical, Overwrites
  <2>4. CASE Restores(p) \/ Finishes(p)
    <3>. DEFINE b == verdict[p].backup
    <3>1. /\ pc[p] \in {"restoring", "undoing"} /\ b \in DOMAIN backups /\ UNCHANGED backups
      BY <2>1, <2>4 DEF Restores, Finishes, ProcWork, Undoing
    <3>2. backups[b].job = job[p] /\ backups[b].entries \in Plan
      <4>1. b # 0
        BY <3>1, TypedNow
      <4>. QED  BY <2>1, <3>1, <4>1, EntriesType DEF ProcRecords
    <3>3. \/ tree' \in Disturbed(tree, backups[b].entries)
          \/ tree' = Restored(tree, backups[b].entries)
      BY <2>4 DEF Restores, Finishes
    <3>4. q \in Touched(backups[b].entries)
      BY <3>2, <3>3, TypedNow, FilesType
    <3>5. pc[p] = "restoring" => tree[q] = backups[b].entries[q].after
      BY <2>1, <3>4 DEF ProcWork, Applied, InPlace
    <3>. QED  BY <2>1, <3>1, <3>2, <3>4, <3>5 DEF Critical, Overwrites
  <2>. QED
    BY <2>1, <2>2, <2>3, <2>4 DEF Comes, Aside, Takes, Locates, Refuses, Settles, Records,
       Registers, Checks, Breaks, Marks, Leaves
<1>. QED  BY <1>1, WorkHolds, PTL DEF OthersSurvive, Spec

-----------------------------------------------------------------------------
(* Without faults: what was applied is recorded *)

Busy == {"archive", "log", "register"}

(* A backup that says COMPLETED is the one the registry names for its job. *)
Names(reg, bs, b) ==
  LET e == reg[bs[b].job.id] IN
  e # NoRecord /\ e.hash = bs[b].job.hash /\ e.completed /\ e.backup = b
Registered(reg, bs) == \A b \in DOMAIN bs : bs[b].status = "COMPLETED" => Names(reg, bs, b)

(* The registry as p will leave it. *)
Concluded(p) == After(registry, job[p], verdict[p])

CleanInv ==
  Faults = FALSE =>
    /\ (\A p \in Proc : pc[p] \notin Busy) => Registered(registry, backups)
    /\ \A p \in Proc : pc[p] \in Busy => Registered(Concluded(p), backups)

LEMMA UpdatedAt ==
  ASSUME NEW reg \in Registry, NEW j \in Job, NEW v \in Verdict
  PROVE  /\ After(reg, j, v)[j.id] # NoRecord
         /\ After(reg, j, v)[j.id].hash = IF Known(reg, j.id) THEN reg[j.id].hash ELSE j.hash
         /\ After(reg, j, v)[j.id].completed
              <=> v.completed \/ (~v.reset /\ Known(reg, j.id) /\ reg[j.id].completed)
         /\ After(reg, j, v)[j.id].backup
              = IF v.backup # 0 \/ ~Known(reg, j.id) THEN v.backup ELSE reg[j.id].backup
         /\ After(reg, j, v)[j.id].runs = reg[j.id].runs + 1
         /\ \A i \in Id \ {j.id} : After(reg, j, v)[i] = reg[i]
         /\ After(reg, j, v) \in Registry
<1>. DEFINE u == Updated(reg, j, v)
<1>1. j.id \in Id /\ u \in Record /\ u.runs = reg[j.id].runs + 1
  BY UpdatedType DEF Job
<1>2. /\ u.hash = IF Known(reg, j.id) THEN reg[j.id].hash ELSE j.hash
      /\ u.backup = IF v.backup # 0 \/ ~Known(reg, j.id) THEN v.backup ELSE reg[j.id].backup
  BY DEF Updated
<1>3. u.completed <=> v.completed \/ (~v.reset /\ Known(reg, j.id) /\ reg[j.id].completed)
  BY Zenon DEF Updated
<1>4. u # NoRecord
  <2>1. u.runs # 0 /\ NoRecord.runs = 0
    BY <1>1 DEF Record, NoRecord
  <2>. QED  BY <2>1
<1>. HIDE DEF u
<1>5. After(reg, j, v) = [reg EXCEPT ![j.id] = u]
  BY DEF After, u
<1>6. /\ After(reg, j, v)[j.id] = u /\ \A i \in Id \ {j.id} : After(reg, j, v)[i] = reg[i]
      /\ After(reg, j, v) \in Registry
  BY <1>1, <1>5 DEF Registry
<1>. QED  BY <1>1, <1>2, <1>3, <1>4, <1>6

(* To record what p did, only the backups of its own ID matter. *)
LEMMA Conclusion ==
  ASSUME NEW reg \in Registry, NEW j \in Job, NEW v \in Verdict, NEW bs \in Seq(Backup),
         \A b \in DOMAIN bs : bs[b].status = "COMPLETED" =>
           IF bs[b].job.id = j.id
           THEN /\ bs[b].job.hash = IF Known(reg, j.id) THEN reg[j.id].hash ELSE j.hash
                /\ v.completed \/ (~v.reset /\ Known(reg, j.id) /\ reg[j.id].completed)
                /\ b = IF v.backup # 0 \/ ~Known(reg, j.id) THEN v.backup
                       ELSE reg[j.id].backup
           ELSE Names(reg, bs, b)
  PROVE  Registered(After(reg, j, v), bs)
<1>. SUFFICES ASSUME NEW b \in DOMAIN bs, bs[b].status = "COMPLETED"
              PROVE  Names(After(reg, j, v), bs, b)
  BY DEF Registered
<1>1. bs[b].job.id \in Id
  <2>1. bs[b] \in Backup
    OBVIOUS
  <2>. QED  BY <2>1 DEF Backup, Job
<1>2. CASE bs[b].job.id = j.id
  BY <1>2, UpdatedAt DEF Names
<1>3. CASE bs[b].job.id # j.id
  BY <1>1, <1>3, UpdatedAt DEF Names
<1>. QED  BY <1>2, <1>3

(* Nothing is in place of a job that may be run. *)
LEMMA OpenIsUnnamed ==
  ASSUME NEW reg, NEW bs, NEW j \in Job, Open(reg, j), Registered(reg, bs),
         NEW b \in DOMAIN bs, bs[b].status = "COMPLETED"
  PROVE  bs[b].job.id # j.id
  BY DEF Open, Matches, Done, Known, Registered, Names

LEMMA CleanStep ==
  ASSUME TypeInv, LockInv, RecordsInv, WorkInv, CleanInv, Faults = FALSE, TypeInv',
         NEW p \in Proc, Comes(p), Others(p),
         \A q \in Proc \ {p} : pc[q] \notin Busy,
         IF pc'[p] \in Busy THEN Registered(Concluded(p), backups)'
                            ELSE Registered(registry, backups)'
  PROVE  CleanInv'
<1>1. \A q \in Proc \ {p} : pc'[q] \notin Busy
  BY DEF Others
<1>2. CASE pc'[p] \in Busy
  BY <1>1, <1>2 DEF CleanInv
<1>3. CASE pc'[p] \notin Busy
  BY <1>1, <1>3 DEF CleanInv
<1>. QED  BY <1>2, <1>3

(* What p inside owes, and what it finds. *)
Found(p) == IF pc[p] \in Busy THEN Concluded(p) ELSE registry

LEMMA CleanSelf ==
  ASSUME TypeInv, LockInv, RecordsInv, WorkInv, Faults = FALSE, TypeInv',
         NEW p \in Proc, Comes(p), ~Aside(p), Registered(Found(p), backups)
  PROVE  Registered(Found(p), backups)'
<1>. USE DEF Found, Concluded
<1>0. /\ registry \in Registry /\ registry' \in Registry
      /\ backups \in Seq(Backup) /\ backups' \in Seq(Backup)
      /\ job'[p] \in Job /\ verdict'[p] \in Verdict
      /\ ProcWork(p) /\ ProcRecords(p)
  BY DEF TypeInv, TypeOK, WorkInv, RecordsInv
<1>1. CASE Takes(p)
  <2>1. Registered(registry, backups) /\ UNCHANGED <<registry, backups>> /\ job'[p] = job[p]
    BY <1>1 DEF Takes, Busy, Critical
  <2>2. CASE pc'[p] = "transact"
    BY <2>1, <2>2 DEF Busy, Registered, Names
  <2>3. CASE pc'[p] = "archive"
    <3>1. PICK c \in BOOLEAN : verdict'[p] = Report(c, 0) /\ (c => Done(registry, job[p]))
      BY <1>1, <2>3 DEF Takes
    <3>2. verdict'[p].completed = c /\ verdict'[p].backup = 0 /\ ~verdict'[p].reset
      BY <3>1 DEF Report
    <3>3. Registered(After(registry, job[p], verdict'[p]), backups)
      BY <1>0, <2>1, <3>2, Conclusion DEF Registered, Names, Known
    <3>. QED  BY <2>1, <2>3, <3>3 DEF Busy
  <2>. QED  BY <1>1, <2>2, <2>3 DEF Takes
<1>2. CASE Locates(p)
  BY <1>2 DEF Locates, Busy, Critical, Registered, Names
<1>3. CASE Refuses(p)
  <2>1. Registered(registry, backups) /\ Open(registry, job[p]) /\ pc'[p] = "archive"
    BY <1>0, <1>3 DEF Refuses, Busy, ProcWork
  <2>2. PICK n \in Nat : verdict'[p] = Report(FALSE, n)
    BY <1>3 DEF Refuses, Added
  <2>3. \A b \in DOMAIN backups' : backups'[b].status = "COMPLETED" =>
          b \in DOMAIN backups /\ backups'[b] = backups[b]
    <3>1. Copy(p, "none").status # "COMPLETED"
      BY DEF Copy
    <3>. QED  BY <1>3, <3>1 DEF Refuses, Added
  <2>4. \A b \in DOMAIN backups' : backups'[b].status = "COMPLETED" =>
          backups'[b].job.id # job[p].id /\ Names(registry, backups', b)
    BY <2>1, <2>3, TypedNow, OpenIsUnnamed DEF Registered, Names
  <2>5. Registered(After(registry, job'[p], verdict'[p]), backups')
    BY <1>0, <1>3, <2>4, Conclusion DEF Refuses
  <2>. QED  BY <1>3, <2>1, <2>5 DEF Refuses, Busy
<1>4. CASE Settles(p)
  <2>1. Registered(registry, backups) /\ Open(registry, job[p]) /\ pc'[p] = "archive"
    BY <1>0, <1>4 DEF Settles, Busy, ProcWork
  <2>2. \A b \in DOMAIN backups : backups[b].status = "COMPLETED" =>
          backups[b].job.id # job[p].id /\ Names(registry, backups, b)
    BY <2>1, TypedNow, OpenIsUnnamed DEF Registered
  <2>3. Registered(After(registry, job'[p], verdict'[p]), backups)
    BY <1>0, <1>4, <2>2, Conclusion, ZenonT(30) DEF Settles
  <2>. QED  BY <1>4, <2>1, <2>3 DEF Settles, Busy
<1>5. CASE Begins(p)
  <2>1. Copy(p, "PREPARED").status # "COMPLETED"
    BY DEF Copy
  <2>2. \A b \in DOMAIN backups' : backups'[b].status = "COMPLETED" =>
          b \in DOMAIN backups /\ backups'[b] = backups[b]
    BY <1>5, <2>1 DEF Begins, Added
  <2>3. Registered(registry, backups) /\ UNCHANGED registry /\ pc'[p] \notin Busy
    BY <1>5 DEF Begins, Busy
  <2>. QED  BY <2>2, <2>3 DEF Registered, Names
<1>6. CASE Ends(p)
  <2>. DEFINE n == Len(backups)
  <2>1. /\ Registered(registry, backups) /\ Open(registry, job[p]) /\ pc'[p] = "archive"
        /\ n \in DOMAIN backups /\ backups[n].job = job[p]
    BY <1>0, <1>6 DEF Ends, Busy, ProcWork, ProcRecords
  <2>2. PICK c \in BOOLEAN :
          /\ verdict'[p] = Report(c, n)
          /\ IF c THEN Closed(n, "COMPLETED")
                  ELSE \E s \in BackupStatuses \ {"COMPLETED"} : Closed(n, s)
    BY <1>6 DEF Ends, BackupStatuses
  <2>3. verdict'[p].completed = c /\ verdict'[p].backup = n /\ n # 0
    BY <2>1, <2>2, TypedNow DEF Report
  <2>4. \A b \in DOMAIN backups' : backups'[b].status = "COMPLETED" =>
          IF b = n THEN c /\ backups'[b].job = job[p]
          ELSE b \in DOMAIN backups /\ backups'[b] = backups[b]
    BY <2>1, <2>2 DEF Closed
  <2>5. \A b \in DOMAIN backups' : backups'[b].status = "COMPLETED" /\ b # n =>
          backups'[b].job.id # job[p].id /\ Names(registry, backups', b)
    BY <2>1, <2>4, TypedNow, OpenIsUnnamed DEF Registered, Names
  <2>6. Known(registry, job[p].id) => registry[job[p].id].hash = job[p].hash
    BY <2>1 DEF Open, Matches
  <2>. HIDE DEF n
  <2>7. Registered(After(registry, job'[p], verdict'[p]), backups')
    <3>1. job'[p] = job[p]
      BY <1>6 DEF Ends
    <3>. QED  BY <1>0, <2>3, <2>4, <2>5, <2>6, <3>1, Conclusion
  <2>. QED  BY <1>6, <2>1, <2>7 DEF Ends, Busy
<1>7. CASE Records(p)
  <2>1. After(registry, job[p], verdict'[p]) = After(registry, job[p], verdict[p])
    BY <1>7 DEF Records, SameVerdict, Updated, After
  <2>. QED  BY <1>7, <2>1 DEF Records, Busy
<1>8. CASE Registers(p)
  <2>1. pc'[p] \notin Busy
    BY <1>8, LeaveOthers DEF Registers, Busy
  <2>. QED  BY <1>8, <2>1 DEF Registers, Busy
<1>9. CASE Restores(p) \/ Finishes(p) \/ (Checks(p) /\ pc'[p] = "restoring")
  BY <1>9 DEF Restores, Finishes, Checks, Busy, Registered, Names
<1>10. CASE (Checks(p) /\ pc'[p] = "log") \/ Breaks(p) \/ Marks(p)
  <2>. DEFINE n == verdict[p].backup
  <2>1. /\ Registered(registry, backups) /\ pc'[p] = "log" /\ Undoing(p)
        /\ UNCHANGED registry /\ job'[p] = job[p]
    BY <1>0, <1>10 DEF Checks, Breaks, Marks, Busy, ProcWork
  <2>2. /\ n \in DOMAIN backups /\ Done(registry, job[p]) /\ registry[job[p].id].backup = n
    BY <2>1 DEF Undoing
  <2>3. /\ verdict'[p].backup = n /\ n # 0
    BY <1>10, <2>2, TypedNow DEF Checks, Breaks, Marks, SameVerdict
  <2>4. \A b \in DOMAIN backups' : backups'[b].status = "COMPLETED" =>
          /\ b \in DOMAIN backups /\ backups'[b] = backups[b]
          /\ b = n => Checks(p)
    BY <1>10 DEF Checks, Breaks, Marks, Closed
  <2>5. \A b \in DOMAIN backups' : backups'[b].status = "COMPLETED" =>
          Names(registry, backups', b)
    BY <2>1, <2>4 DEF Registered, Names
  <2>6. \A b \in DOMAIN backups' :
          backups'[b].status = "COMPLETED" /\ backups'[b].job.id = job[p].id => b = n
    BY <2>2, <2>5 DEF Names
  <2>7. Checks(p) => /\ ~verdict'[p].reset /\ Known(registry, job[p].id)
                     /\ registry[job[p].id].completed
    BY <2>1, <2>2 DEF Checks, SameVerdict, Undoing, Done
  <2>. HIDE DEF n
  <2>8. Registered(After(registry, job[p], verdict'[p]), backups')
    <3>. SUFFICES ASSUME NEW b \in DOMAIN backups', backups'[b].status = "COMPLETED",
                         backups'[b].job.id = job[p].id
                  PROVE  /\ backups'[b].job.hash = IF Known(registry, job[p].id)
                                                   THEN registry[job[p].id].hash
                                                   ELSE job[p].hash
                         /\ \/ verdict'[p].completed
                            \/ /\ ~verdict'[p].reset /\ Known(registry, job[p].id)
                               /\ registry[job[p].id].completed
                         /\ b = IF verdict'[p].backup # 0 \/ ~Known(registry, job[p].id)
                                THEN verdict'[p].backup ELSE registry[job[p].id].backup
      BY <1>0, <2>1, <2>5, Conclusion
    <3>1. b = n /\ Checks(p) /\ Names(registry, backups', b)
      BY <2>4, <2>5, <2>6
    <3>. QED  BY <2>3, <2>7, <3>1 DEF Names, Known
  <2>. QED  BY <2>1, <2>8 DEF Busy
<1>. QED  BY <1>1, <1>2, <1>3, <1>4, <1>5, <1>6, <1>7, <1>8, <1>9, <1>10
          DEF Comes, Leaves, Checks

LEMMA NextClean ==
  TypeInv /\ LockInv /\ RecordsInv /\ WorkInv /\ CleanInv /\ TypeInv' /\ [Next]_vars
    => CleanInv'
<1>. SUFFICES ASSUME TypeInv, LockInv, RecordsInv, WorkInv, CleanInv, TypeInv', [Next]_vars,
                     Faults = FALSE
              PROVE  CleanInv'
  BY DEF CleanInv
<1>1. CASE UNCHANGED vars
  BY <1>1 DEF vars, shared, local, CleanInv, Concluded
<1>2. ASSUME NEW p \in Proc, StepOf(p) PROVE CleanInv'
  <2>1. Comes(p) /\ Others(p)
    BY <1>2, StepComes, StepOthers
  <2>2. CASE \E q \in Proc \ {p} : pc[q] \in Busy
    <3>1. PICK q \in Proc \ {p} : pc[q] \in Busy
      BY <2>2
    <3>2. pc[p] \notin Critical /\ \A r \in Proc \ {q} : pc[r] \notin Busy
      BY <3>1, AloneInside DEF Busy, Critical
    <3>3. UNCHANGED <<registry, tree, backups>>
      BY <2>1, <3>2, OutsideReads
    <3>4. pc'[q] = pc[q] /\ Concluded(q)' = Concluded(q)
      BY <2>1, <3>1, <3>3 DEF Others, Concluded
    <3>5. \A r \in Proc \ {q} : pc'[r] \notin Busy
      <4>1. \A r \in Proc \ {p, q} : pc'[r] = pc[r]
        BY <2>1 DEF Others
      <4>2. pc'[p] \notin Critical
        <5>1. pc'[q] \in Critical
          BY <3>1, <3>4 DEF Busy, Critical
        <5>2. LockInv'
          BY <1>2, NextLockInv
        <5>. QED  BY <3>1, <5>1, <5>2 DEF LockInv, Exclusion
      <4>. QED  BY <3>2, <4>1, <4>2 DEF Busy, Critical
    <3>. QED  BY <3>1, <3>3, <3>4, <3>5 DEF CleanInv
  <2>3. CASE \A q \in Proc \ {p} : pc[q] \notin Busy
    <3>1. Registered(Found(p), backups)
      BY <2>3 DEF CleanInv, Found
    <3>2. Registered(Found(p), backups)'
      <4>1. CASE Aside(p)
        BY <3>1, <4>1 DEF Aside, Found, Busy, Critical
      <4>. QED  BY <2>1, <3>1, <4>1, CleanSelf
    <3>. QED  BY <2>1, <2>3, <3>2, CleanStep DEF Found
  <2>. QED  BY <2>2, <2>3
<1>. QED  BY <1>1, <1>2, NextSteps

LEMMA InitClean == Init => CleanInv
<1>. SUFFICES ASSUME Init PROVE CleanInv
  OBVIOUS
<1>1. DOMAIN backups = {}
  BY DEF Init
<1>. QED  BY <1>1 DEF Init, CleanInv, Registered, Busy

LEMMA CleanHolds == Spec => [](TypeInv /\ LockInv /\ RecordsInv /\ WorkInv /\ CleanInv)
<1>1. Init => CleanInv
  BY InitClean
<1>. QED  BY <1>1, NextClean, WorkHolds, PTL DEF Spec

(* Without faults no job is applied twice, however many processes run it at   *)
(* the same time.                                                             *)
THEOREM NoJobIsAppliedTwice == Spec => []AppliedOnce
<1>1. CleanInv => AppliedOnce
  <2>. SUFFICES ASSUME CleanInv, Faults = FALSE PROVE AppliedOnce
    BY LifecycleAssumption DEF AppliedOnce
  <2>1. PICK reg : Registered(reg, backups)
    BY DEF CleanInv
  <2>. QED  BY <2>1 DEF AppliedOnce, Registered, Names
<1>. QED  BY <1>1, CleanHolds, PTL

(* Without faults the registry knows of everything that was applied: between  *)
(* two commands each backup that says COMPLETED is the one it names.          *)
THEOREM WhatWasAppliedIsRecorded == Spec => []AppliedIsRecorded
<1>1. LockInv /\ CleanInv => AppliedIsRecorded
  <2>. SUFFICES ASSUME LockInv, CleanInv, Faults = FALSE, holder = NoProc
                PROVE  AppliedIsRecorded
    BY LifecycleAssumption DEF AppliedIsRecorded
  <2>1. \A p \in Proc : pc[p] \notin Busy
    BY LifecycleAssumption DEF LockInv, Exclusion, Critical, Busy
  <2>. QED  BY <2>1 DEF CleanInv, Registered, Names, AppliedIsRecorded
<1>. QED  BY <1>1, CleanHolds, PTL

(* Without faults the registry knows of each job that was applied, once, and  *)
(* of the backup with which it can be taken back.                             *)
THEOREM RegistryKeepsUp == Spec => []RegistryKnows
<1>1. AppliedOnce /\ AppliedIsRecorded => RegistryKnows
  BY DEF RegistryKnows
<1>. QED  BY <1>1, NoJobIsAppliedTwice, WhatWasAppliedIsRecorded, PTL

-----------------------------------------------------------------------------
(* Without faults: what was undone is back *)

(* The runs in bs each found on the path what the original, or another run of *)
(* bs, left there; so did c, what is there now; and no two found the same.    *)
Chained(bs, q, c, B) ==
  \E f \in [B \cup {0} -> B \cup {0}] :
    /\ \A m, n \in B \cup {0} : f[m] = f[n] => m = n
    /\ \A m \in B \cup {0} :
         (IF m = 0 THEN c ELSE bs[m].entries[q].before)
           = IF f[m] = 0 THEN Original[q] ELSE bs[f[m]].entries[q].after

LEMMA ChainEnds ==
  ASSUME NEW bs, NEW q, NEW c, Chained(bs, q, c, {})
  PROVE  c = Original[q]
<1>1. PICK f \in [{0} -> {0}] : c = IF f[0] = 0 THEN Original[q] ELSE bs[f[0]].entries[q].after
  BY DEF Chained
<1>. QED  BY <1>1

LEMMA ChainStarts ==
  ASSUME NEW bs, NEW q
  PROVE  Chained(bs, q, Original[q], {})
<1>. DEFINE f == [m \in {0} |-> 0]
<1>1. f \in [{0} -> {0}] /\ f[0] = 0
  OBVIOUS
<1>. QED  BY <1>1 DEF Chained

(* Only the entries matter. *)
LEMMA ChainSame ==
  ASSUME NEW bs, NEW bs2, NEW q, NEW c, NEW B, 0 \notin B, Chained(bs, q, c, B),
         \A b \in B : bs2[b].entries = bs[b].entries
  PROVE  Chained(bs2, q, c, B)
<1>1. PICK f \in [B \cup {0} -> B \cup {0}] :
        /\ \A m, n \in B \cup {0} : f[m] = f[n] => m = n
        /\ \A m \in B \cup {0} :
             (IF m = 0 THEN c ELSE bs[m].entries[q].before)
               = IF f[m] = 0 THEN Original[q] ELSE bs[f[m]].entries[q].after
  BY DEF Chained
<1>2. \A m \in B \cup {0} :
        (IF m = 0 THEN c ELSE bs2[m].entries[q].before)
          = IF f[m] = 0 THEN Original[q] ELSE bs2[f[m]].entries[q].after
  BY <1>1
<1>. QED  BY <1>1, <1>2 DEF Chained

(* A run that found c and left something else. *)
LEMMA ChainGrows ==
  ASSUME NEW bs, NEW q, NEW B, 0 \notin B, NEW b, b # 0, b \notin B,
         Chained(bs, q, bs[b].entries[q].before, B)
  PROVE  Chained(bs, q, bs[b].entries[q].after, B \cup {b})
<1>1. PICK f \in [B \cup {0} -> B \cup {0}] :
        /\ \A m, n \in B \cup {0} : f[m] = f[n] => m = n
        /\ \A m \in B \cup {0} :
             (IF m = 0 THEN bs[b].entries[q].before ELSE bs[m].entries[q].before)
               = IF f[m] = 0 THEN Original[q] ELSE bs[f[m]].entries[q].after
  BY DEF Chained
<1>. DEFINE S == (B \cup {b}) \cup {0}
<1>. DEFINE g == [m \in S |-> IF m = 0 THEN b ELSE IF m = b THEN f[0] ELSE f[m]]
<1>2. \A m \in S : g[m] = IF m = 0 THEN b ELSE IF m = b THEN f[0] ELSE f[m]
  OBVIOUS
<1>3. \A m \in B \cup {0} : f[m] \in B \cup {0} /\ f[m] # b
  BY <1>1
<1>4. g \in [S -> S]
  BY <1>3
<1>. HIDE DEF g
<1>5. \A m, n \in S : g[m] = g[n] => m = n
  BY <1>1, <1>2, <1>3
<1>6. \A m \in S :
        (IF m = 0 THEN bs[b].entries[q].after ELSE bs[m].entries[q].before)
          = IF g[m] = 0 THEN Original[q] ELSE bs[g[m]].entries[q].after
  BY <1>1, <1>2, <1>3
<1>. QED  BY <1>4, <1>5, <1>6 DEF Chained

(* A run whose work is there is taken back. *)
LEMMA ChainShrinks ==
  ASSUME NEW bs, NEW q, NEW B, 0 \notin B, NEW b \in B,
         bs[b].entries[q].before # bs[b].entries[q].after,
         Chained(bs, q, bs[b].entries[q].after, B)
  PROVE  Chained(bs, q, bs[b].entries[q].before, B \ {b})
<1>1. PICK f \in [B \cup {0} -> B \cup {0}] :
        /\ \A m, n \in B \cup {0} : f[m] = f[n] => m = n
        /\ \A m \in B \cup {0} :
             (IF m = 0 THEN bs[b].entries[q].after ELSE bs[m].entries[q].before)
               = IF f[m] = 0 THEN Original[q] ELSE bs[f[m]].entries[q].after
  BY DEF Chained
<1>. DEFINE S == (B \ {b}) \cup {0}
<1>. DEFINE g == [m \in S |-> IF m = 0 THEN f[b] ELSE IF f[m] = b THEN f[0] ELSE f[m]]
<1>2. \A m \in S : g[m] = IF m = 0 THEN f[b] ELSE IF f[m] = b THEN f[0] ELSE f[m]
  OBVIOUS
<1>3. f[b] # b /\ b # 0
  BY <1>1
<1>4. \A m \in B \cup {0} : f[m] \in B \cup {0}
  BY <1>1
<1>5. \A m \in S : g[m] \in S
  BY <1>1, <1>2, <1>3, <1>4
<1>6. g \in [S -> S]
  BY <1>5
<1>. HIDE DEF g
<1>7. \A m, n \in S : g[m] = g[n] => m = n
  BY <1>1, <1>2, <1>3, <1>4
<1>8. \A m \in S :
        (IF m = 0 THEN bs[b].entries[q].before ELSE bs[m].entries[q].before)
          = IF g[m] = 0 THEN Original[q] ELSE bs[g[m]].entries[q].after
  BY <1>1, <1>2, <1>3, <1>4
<1>. QED  BY <1>6, <1>7, <1>8 DEF Chained

Lasting(bs, q) ==
  {b \in DOMAIN bs : q \in Touched(bs[b].entries) /\ bs[b].status = "COMPLETED"}
Marred(bs, q) ==
  \E b \in DOMAIN bs :
    q \in Touched(bs[b].entries) /\ bs[b].status \in {"CHANGES_KEPT", "ROLLBACK_FAILED"}

(* What the paths hold is accounted for by the runs that last. *)
Balanced(t, bs, gone) ==
  \A q \in Path : Marred(bs, q) \/ Chained(bs, q, t[q], Lasting(bs, q) \ gone)

(* Halfway through a change the paths are taken as they were before it. *)
Halfway == {"applying", "undoing", "mark"}
ProcBalance(p) ==
  LET b == verdict[p].backup IN
  /\ pc[p] = "applying" =>
       Balanced(Restored(tree, backups[Len(backups)].entries), backups, {})
  /\ pc[p] = "undoing" => Balanced(Rewritten(tree, backups[b].entries), backups, {})
  /\ pc[p] = "mark" => Balanced(tree, backups, {b})
  /\ pc[p] \notin Halfway => Balanced(tree, backups, {})

BalanceInv ==
  Faults = FALSE =>
    /\ (\A p \in Proc : pc[p] \notin Halfway) => Balanced(tree, backups, {})
    /\ \A p \in Proc : pc[p] \in Halfway => ProcBalance(p)

LEMMA BalanceMoves ==
  ASSUME NEW t, NEW bs, NEW gone, NEW t2, NEW bs2, NEW gone2, Balanced(t, bs, gone),
         0 \notin DOMAIN bs,
         \A b \in DOMAIN bs : bs2[b].entries = bs[b].entries,
         \A q \in Path :
           \/ Marred(bs2, q)
           \/ /\ ~Marred(bs, q) /\ t2[q] = t[q]
              /\ Lasting(bs2, q) \ gone2 = Lasting(bs, q) \ gone
  PROVE  Balanced(t2, bs2, gone2)
<1>. SUFFICES ASSUME NEW q \in Path, ~Marred(bs2, q)
              PROVE  Chained(bs2, q, t2[q], Lasting(bs2, q) \ gone2)
  BY DEF Balanced
<1>. DEFINE B == Lasting(bs, q) \ gone
<1>1. Chained(bs, q, t[q], B)
  BY DEF Balanced
<1>2. 0 \notin B /\ \A b \in B : bs2[b].entries = bs[b].entries
  BY DEF Lasting
<1>. HIDE DEF B
<1>3. Chained(bs2, q, t[q], B)
  BY <1>1, <1>2, ChainSame
<1>. QED  BY <1>3 DEF B

LEMMA BackupAt ==
  ASSUME TypeInv
  PROVE  0 \notin DOMAIN backups
  BY DEF TypeInv, TypeOK

LEMMA AddedBalance ==
  ASSUME TypeInv, NEW e, NEW t, NEW t2, Added(e), e.status \in {"none", "PREPARED"},
         Balanced(t, backups, {}), \A q \in Path : t2[q] = t[q]
  PROVE  Balanced(t2, backups', {})
<1>1. \A b \in DOMAIN backups : backups'[b].entries = backups[b].entries
  BY DEF Added
<1>2. ASSUME NEW q \in Path
      PROVE  /\ Marred(backups, q) => Marred(backups', q)
             /\ Lasting(backups', q) = Lasting(backups, q)
  BY DEF Added, Marred, Lasting
<1>. QED  BY <1>1, <1>2, BackupAt, BalanceMoves

(* A backup that does not come to last. *)
LEMMA ClosedBalance ==
  ASSUME TypeInv, NEW b \in DOMAIN backups, NEW s, NEW t, NEW t2, NEW gone,
         Closed(b, s), s # "COMPLETED",
         backups[b].status \in {"PREPARED", "COMPLETED"},
         IF backups[b].status = "PREPARED" THEN gone = {} ELSE gone \subseteq {b},
         Balanced(t, backups, gone),
         \A q \in Path :
           IF q \in Touched(backups[b].entries)
           THEN \/ s \in {"CHANGES_KEPT", "ROLLBACK_FAILED"}
                \/ t2[q] = t[q] /\ (backups[b].status = "COMPLETED" => gone = {b})
           ELSE t2[q] = t[q]
  PROVE  Balanced(t2, backups', {})
<1>1. \A c \in DOMAIN backups : backups'[c].entries = backups[c].entries
  BY DEF Closed
<1>2. ASSUME NEW q \in Path, ~Marred(backups', q)
      PROVE  ~Marred(backups, q) /\ t2[q] = t[q]
  <2>1. ~(q \in Touched(backups[b].entries) /\ s \in {"CHANGES_KEPT", "ROLLBACK_FAILED"})
    BY <1>2 DEF Marred, Closed
  <2>2. ~Marred(backups, q)
    BY <1>2 DEF Marred, Closed
  <2>. QED  BY <2>1, <2>2
<1>3. ASSUME NEW q \in Path, ~Marred(backups', q)
      PROVE  Lasting(backups', q) \ {} = Lasting(backups, q) \ gone
  <2>1. ~(q \in Touched(backups[b].entries) /\ s \in {"CHANGES_KEPT", "ROLLBACK_FAILED"})
    BY <1>3 DEF Marred, Closed
  <2>2. Lasting(backups', q) = Lasting(backups, q) \ {b}
    BY DEF Lasting, Closed
  <2>3. b \in Lasting(backups, q) => gone = {b}
    BY <2>1 DEF Lasting
  <2>4. b \notin Lasting(backups, q) \/ gone = {b}
    BY <2>3
  <2>5. gone \subseteq {b}
    OBVIOUS
  <2>. QED  BY <2>2, <2>4, <2>5
<1>. QED  BY <1>1, <1>2, <1>3, BackupAt, BalanceMoves

LEMMA DisturbedSame ==
  ASSUME NEW t \in Tree, NEW e \in Plan, NEW u \in Disturbed(t, e), NEW q \in Path
  PROVE  /\ (q \in Touched(e) => t[q] = e[q].before) => Restored(u, e)[q] = t[q]
         /\ (q \in Touched(e) => t[q] = e[q].after) => Rewritten(u, e)[q] = t[q]
  BY FilesType

LEMMA BalanceSelf ==
  ASSUME TypeInv, LockInv, RecordsInv, WorkInv, Faults = FALSE,
         NEW p \in Proc, Comes(p), ProcBalance(p)
  PROVE  ProcBalance(p)'
<1>0. ProcWork(p) /\ tree \in Tree /\ 0 \notin DOMAIN backups
  BY TypedNow, BackupAt DEF WorkInv
<1>1. CASE \/ Aside(p) \/ Takes(p) \/ Locates(p) \/ Settles(p) \/ Records(p) \/ Checks(p)
           \/ Registers(p)
  <2>1. /\ UNCHANGED <<tree, backups>> /\ pc[p] \notin Halfway /\ pc'[p] \notin Halfway
    BY <1>1, LeaveOthers DEF Aside, Takes, Locates, Settles, Records, Checks, Registers,
                             Critical, Halfway
  <2>. QED  BY <2>1 DEF ProcBalance, Halfway
<1>2. CASE Refuses(p)
  <2>1. Balanced(tree, backups, {}) /\ UNCHANGED tree /\ pc'[p] = "archive"
    BY <1>2 DEF Refuses, ProcBalance, Halfway
  <2>2. Copy(p, "none").status = "none"
    BY DEF Copy
  <2>3. Balanced(tree', backups', {})
    BY <1>2, <2>1, <2>2, AddedBalance DEF Refuses
  <2>. QED  BY <2>1, <2>3 DEF ProcBalance, Halfway
<1>3. CASE Begins(p)
  <2>1. Balanced(tree, backups, {}) /\ pc'[p] = "applying"
    BY <1>3 DEF Begins, ProcBalance, Halfway
  <2>2. /\ Copy(p, "PREPARED").status = "PREPARED"
        /\ backups'[Len(backups')].entries = planned[p]
    BY <1>3 DEF Copy, Begins, Added
  <2>3. \A q \in Path : Restored(tree', planned[p])[q] = tree[q]
    BY <1>0, <1>3, TypedNow, DisturbedSame, PlannedHere DEF Begins, Fresh
  <2>4. Balanced(Restored(tree', planned[p]), backups', {})
    BY <1>3, <2>1, <2>2, <2>3, AddedBalance DEF Begins
  <2>. QED  BY <2>1, <2>2, <2>4 DEF ProcBalance, Halfway
<1>4. CASE Ends(p)
  <2>. DEFINE n == Len(backups)
  <2>. DEFINE e == backups[n].entries
  <2>. DEFINE t == Restored(tree, e)
  <2>1. /\ n \in DOMAIN backups /\ backups[n].status = "PREPARED" /\ e \in Plan
        /\ Balanced(t, backups, {}) /\ pc'[p] = "archive"
    BY <1>0, <1>4, EntriesType DEF Ends, ProcWork, ProcBalance
  <2>2. \A q \in Path : /\ q \in Touched(e) => t[q] = e[q].before
                        /\ q \notin Touched(e) => t[q] = tree[q]
                        /\ Rewritten(tree, e)[q]
                             = IF q \in Touched(e) THEN e[q].after ELSE tree[q]
    BY <1>0, <2>1, FilesType
  <2>3. CASE tree' = Rewritten(tree, e) /\ Closed(n, "COMPLETED")
    <3>. SUFFICES ASSUME NEW q \in Path, ~Marred(backups', q)
                  PROVE  Chained(backups', q, tree'[q], Lasting(backups', q) \ {})
      BY <2>1 DEF Balanced, ProcBalance, Halfway
    <3>. DEFINE B == Lasting(backups, q)
    <3>1. ~Marred(backups, q)
      BY <2>1, <2>3 DEF Marred, Closed
    <3>2. Chained(backups, q, t[q], B)
      BY <2>1, <3>1 DEF Balanced
    <3>3. n \notin B /\ 0 \notin B /\ B \subseteq DOMAIN backups /\ n # 0
      BY <1>0, <2>1 DEF Lasting
    <3>4. Lasting(backups', q) = IF q \in Touched(e) THEN B \cup {n} ELSE B
      BY <2>1, <2>3 DEF Lasting, Closed
    <3>5. \A b \in DOMAIN backups : backups'[b].entries = backups[b].entries
      BY <2>3 DEF Closed
    <3>. HIDE DEF B, n
    <3>6. CASE q \in Touched(e)
      <4>1. Chained(backups, q, e[q].after, B \cup {n})
        BY <2>2, <3>2, <3>3, <3>6, ChainGrows
      <4>2. Chained(backups', q, e[q].after, B \cup {n})
        BY <2>1, <3>3, <3>5, <4>1, ChainSame
      <4>3. tree'[q] = e[q].after /\ Lasting(backups', q) \ {} = B \cup {n}
        BY <2>2, <2>3, <3>4, <3>6
      <4>. QED  BY <4>2, <4>3
    <3>7. CASE q \notin Touched(e)
      <4>1. Chained(backups', q, t[q], B)
        BY <3>2, <3>3, <3>5, ChainSame
      <4>2. tree'[q] = t[q] /\ Lasting(backups', q) \ {} = B
        BY <2>2, <2>3, <3>4, <3>7
      <4>. QED  BY <4>1, <4>2
    <3>. QED  BY <3>6, <3>7
  <2>4. CASE tree' = t /\ (Closed(n, "ROLLED_BACK") \/ Closed(n, "FAILED"))
    <3>1. Balanced(tree', backups', {})
      BY <2>1, <2>4, ClosedBalance
    <3>. QED  BY <2>1, <3>1 DEF ProcBalance, Halfway
  <2>5. CASE UNCHANGED tree /\ (Closed(n, "CHANGES_KEPT") \/ Closed(n, "ROLLBACK_FAILED"))
    <3>1. \A q \in Path : q \notin Touched(e) => tree'[q] = t[q]
      BY <2>2, <2>5
    <3>2. PICK s \in {"CHANGES_KEPT", "ROLLBACK_FAILED"} : Closed(n, s)
      BY <2>5
    <3>3. Balanced(tree', backups', {})
      BY <2>1, <3>1, <3>2, ClosedBalance
    <3>. QED  BY <2>1, <3>3 DEF ProcBalance, Halfway
  <2>. QED  BY <1>4, <2>3, <2>4, <2>5 DEF Ends
<1>5. CASE Restores(p) \/ Finishes(p) \/ Breaks(p) \/ Marks(p)
  <2>. DEFINE b == verdict[p].backup
  <2>. DEFINE e == backups[b].entries
  <2>1. /\ b \in DOMAIN backups /\ backups[b].status = "COMPLETED"
    BY <1>0, <1>5 DEF Restores, Finishes, Breaks, Marks, ProcWork, Undoing
  <2>2. e \in Plan /\ verdict'[p].backup = b
    BY <1>5, <2>1, EntriesType DEF Restores, Finishes, Breaks, Marks, SameVerdict
  <2>3. CASE Restores(p)
    <3>1. Balanced(tree, backups, {}) /\ pc'[p] = "undoing" /\ UNCHANGED backups
      BY <2>3 DEF Restores, ProcBalance, Halfway
    <3>2. \A q \in Touched(e) : tree[q] = e[q].after
      BY <1>0, <2>3 DEF Restores, ProcWork, Applied, InPlace
    <3>3. \A q \in Path : Rewritten(tree', e)[q] = tree[q]
      BY <1>0, <2>2, <2>3, <3>2, DisturbedSame DEF Restores
    <3>4. Balanced(Rewritten(tree', e), backups, {})
      BY <3>1, <3>3 DEF Balanced
    <3>. QED  BY <2>2, <3>1, <3>4 DEF ProcBalance, Halfway
  <2>4. CASE Finishes(p)
    <3>. DEFINE t == Rewritten(tree, e)
    <3>1. /\ Balanced(t, backups, {}) /\ pc'[p] = "mark" /\ UNCHANGED backups
          /\ tree' = Restored(tree, e)
      BY <2>4 DEF Finishes, ProcBalance, Halfway
    <3>2. \A q \in Path :
            IF q \in Touched(e) THEN t[q] = e[q].after /\ tree'[q] = e[q].before
                                ELSE tree'[q] = t[q]
      BY <1>0, <2>2, <3>1, FilesType, SMTT(30)
    <3>. SUFFICES ASSUME NEW q \in Path, ~Marred(backups, q)
                  PROVE  Chained(backups, q, tree'[q], Lasting(backups, q) \ {b})
      BY <2>2, <3>1 DEF Balanced, ProcBalance, Halfway
    <3>. DEFINE B == Lasting(backups, q)
    <3>3. Chained(backups, q, t[q], B) /\ 0 \notin B
      BY <1>0, <3>1 DEF Balanced, Lasting
    <3>4. b \in B <=> q \in Touched(e)
      BY <2>1 DEF Lasting
    <3>. HIDE DEF B, b
    <3>5. CASE q \in Touched(e)
      <4>1. e[q].before # e[q].after
        BY <3>5 DEF Touched
      <4>2. Chained(backups, q, e[q].before, B \ {b})
        BY <3>2, <3>3, <3>4, <3>5, <4>1, ChainShrinks
      <4>. QED  BY <3>2, <3>5, <4>2 DEF B
    <3>6. CASE q \notin Touched(e)
      <4>1. B \ {b} = B
        BY <3>4, <3>6
      <4>. QED  BY <3>2, <3>3, <3>6, <4>1 DEF B
    <3>. QED  BY <3>5, <3>6
  <2>5. CASE Breaks(p)
    <3>. DEFINE t == Rewritten(tree, e)
    <3>1. /\ Balanced(t, backups, {}) /\ pc'[p] = "log" /\ Closed(b, "ROLLBACK_FAILED")
          /\ UNCHANGED tree
      BY <2>5 DEF Breaks, ProcBalance, Halfway
    <3>2. \A q \in Path : q \notin Touched(e) => tree'[q] = t[q]
      BY <1>0, <2>2, <3>1, FilesType
    <3>3. Balanced(tree', backups', {})
      BY <2>1, <3>1, <3>2, ClosedBalance
    <3>. QED  BY <3>1, <3>3 DEF ProcBalance, Halfway
  <2>6. CASE Marks(p)
    <3>1. /\ Balanced(tree, backups, {b}) /\ pc'[p] = "log" /\ Closed(b, "ROLLED_BACK")
          /\ UNCHANGED tree
      BY <2>6 DEF Marks, ProcBalance
    <3>2. Balanced(tree', backups', {})
      BY <2>1, <3>1, ClosedBalance
    <3>. QED  BY <3>1, <3>2 DEF ProcBalance, Halfway
  <2>. QED  BY <1>5, <2>3, <2>4, <2>5, <2>6
<1>. QED  BY <1>1, <1>2, <1>3, <1>4, <1>5 DEF Comes, Leaves

LEMMA NextBalance ==
  TypeInv /\ LockInv /\ RecordsInv /\ WorkInv /\ BalanceInv /\ [Next]_vars => BalanceInv'
<1>. SUFFICES ASSUME TypeInv, LockInv, RecordsInv, WorkInv, BalanceInv, [Next]_vars,
                     Faults = FALSE
              PROVE  BalanceInv'
  BY DEF BalanceInv
<1>1. CASE UNCHANGED vars
  BY <1>1 DEF vars, shared, local, BalanceInv, ProcBalance
<1>2. ASSUME NEW p \in Proc, StepOf(p) PROVE BalanceInv'
  <2>1. Comes(p) /\ Others(p) /\ LockInv'
    BY <1>2, StepComes, StepOthers, NextLockInv
  <2>2. CASE \E q \in Proc \ {p} : pc[q] \in Halfway
    <3>1. PICK q \in Proc \ {p} : pc[q] \in Halfway
      BY <2>2
    <3>2. pc[p] \notin Critical /\ \A r \in Proc \ {q} : pc[r] \notin Halfway
      BY <3>1, AloneInside DEF Halfway, Critical
    <3>3. UNCHANGED <<registry, tree, backups>>
      BY <2>1, <3>2, OutsideReads
    <3>4. pc'[q] = pc[q] /\ verdict'[q] = verdict[q]
      BY <2>1, <3>1 DEF Others
    <3>5. \A r \in Proc \ {q} : pc'[r] \notin Halfway
      <4>1. \A r \in Proc \ {p, q} : pc'[r] = pc[r]
        BY <2>1 DEF Others
      <4>2. pc'[p] \notin Critical
        <5>1. pc'[q] \in Critical
          BY <3>1, <3>4 DEF Halfway, Critical
        <5>. QED  BY <2>1, <3>1, <5>1 DEF LockInv, Exclusion
      <4>. QED  BY <3>2, <4>1, <4>2 DEF Halfway, Critical
    <3>6. ProcBalance(q)'
      BY <3>1, <3>3, <3>4 DEF BalanceInv, ProcBalance
    <3>. QED  BY <3>1, <3>4, <3>5, <3>6 DEF BalanceInv
  <2>3. CASE \A q \in Proc \ {p} : pc[q] \notin Halfway
    <3>1. ProcBalance(p)
      BY <2>3 DEF BalanceInv, ProcBalance, Halfway
    <3>2. ProcBalance(p)'
      BY <2>1, <3>1, BalanceSelf
    <3>3. \A q \in Proc \ {p} : pc'[q] \notin Halfway
      BY <2>1, <2>3 DEF Others
    <3>4. pc'[p] \notin Halfway => Balanced(tree, backups, {})'
      BY <3>2 DEF ProcBalance
    <3>. QED  BY <3>2, <3>3, <3>4 DEF BalanceInv
  <2>. QED  BY <2>2, <2>3
<1>. QED  BY <1>1, <1>2, NextSteps

LEMMA InitBalance == Init => BalanceInv
<1>. SUFFICES ASSUME Init PROVE BalanceInv
  OBVIOUS
<1>1. DOMAIN backups = {} /\ tree = Original
  BY DEF Init
<1>2. \A q \in Path : Lasting(backups, q) \ {} = {}
  BY <1>1 DEF Lasting
<1>3. Balanced(tree, backups, {})
  BY <1>1, <1>2, ChainStarts DEF Balanced
<1>. QED  BY <1>3 DEF Init, BalanceInv, Halfway

(* Without faults a path that every run on it failed to change, or changed and *)
(* was rolled back, is as it was before all of them.                           *)
THEOREM WhatWasUndoneIsBack == Spec => []UndoneIsBack
<1>1. LockInv /\ BalanceInv => UndoneIsBack
  <2>. SUFFICES ASSUME LockInv, BalanceInv, Faults = FALSE, holder = NoProc,
                       NEW q \in Path, Standing(q) = {}
                PROVE  tree[q] = Original[q]
    BY LifecycleAssumption DEF UndoneIsBack
  <2>1. \A p \in Proc : pc[p] \notin Halfway
    BY LifecycleAssumption DEF LockInv, Exclusion, Critical, Halfway
  <2>2. Marred(backups, q) \/ Chained(backups, q, tree[q], Lasting(backups, q) \ {})
    BY <2>1 DEF BalanceInv, Balanced
  <2>3. ~Marred(backups, q) /\ Lasting(backups, q) \ {} = {}
    BY DEF Standing, Marred, Lasting
  <2>. QED  BY <2>2, <2>3, ChainEnds
<1>2. TypeInv /\ LockInv /\ RecordsInv /\ WorkInv /\ BalanceInv /\ [Next]_vars => BalanceInv'
  BY NextBalance
<1>. QED  BY <1>1, <1>2, InitBalance, WorkHolds, PTL DEF Spec

-----------------------------------------------------------------------------
(* The terms of the ledger *)

(* One row of it. *)
Row(h, c, u, s, n) == [hash |-> h, completed |-> c, undo |-> u, stuck |-> s, runs |-> n]

LEMMA RowFields ==
  ASSUME NEW h, NEW c \in BOOLEAN, NEW u, NEW s \in BOOLEAN, NEW n
  PROVE  /\ Row(h, c, u, s, n).hash = h /\ Row(h, c, u, s, n).completed = c
         /\ Row(h, c, u, s, n).undo = u /\ Row(h, c, u, s, n).stuck = s
         /\ Row(h, c, u, s, n).runs = n
  BY DEF Row

(* The backup that is referred to is of no use. *)
StuckOf(reg, bs, i) == StatusOf(reg, bs, i) = "ROLLBACK_FAILED"

LEMMA LedgerRow ==
  ASSUME NEW reg \in Registry, NEW bs, NEW i \in Id
  PROVE  /\ Ledger(reg, bs)[i]
              = IF Known(reg, i)
                THEN Row(reg[i].hash, reg[i].completed, UndoOf(reg, bs, i),
                         StuckOf(reg, bs, i), reg[i].runs)
                ELSE NoRecord
         /\ StuckOf(reg, bs, i) \in BOOLEAN
         /\ Known(reg, i) => reg[i].completed \in BOOLEAN
<1>1. Known(reg, i) => reg[i].completed \in BOOLEAN
  BY KnownType DEF Record
<1>2. StuckOf(reg, bs, i) \in BOOLEAN
  BY DEF StuckOf
<1>3. Ledger(reg, bs)[i]
        = IF Known(reg, i)
          THEN Row(reg[i].hash, reg[i].completed, UndoOf(reg, bs, i),
                   StuckOf(reg, bs, i), reg[i].runs)
          ELSE NoRecord
  BY Zenon DEF Ledger, Row, StuckOf
<1>. QED  BY <1>1, <1>2, <1>3

LEMMA LedgerOf ==
  ASSUME NEW reg \in Registry, NEW bs, NEW i \in Id
  PROVE  /\ Known(reg, i) => /\ Ledger(reg, bs)[i].hash = reg[i].hash
                             /\ Ledger(reg, bs)[i].completed = reg[i].completed
                             /\ Ledger(reg, bs)[i].undo = UndoOf(reg, bs, i)
                             /\ Ledger(reg, bs)[i].stuck = StuckOf(reg, bs, i)
         /\ Ledger(reg, bs)[i].runs = reg[i].runs
         /\ Known(reg, i) <=> Ledger(reg, bs)[i] # [runs |-> 0]
<1>1. CASE Known(reg, i)
  <2>1. Ledger(reg, bs)[i] = Row(reg[i].hash, reg[i].completed, UndoOf(reg, bs, i),
                                 StuckOf(reg, bs, i), reg[i].runs)
    BY <1>1, LedgerRow
  <2>2. reg[i].runs # 0
    BY <1>1, KnownType
  <2>3. [runs |-> 0].runs = 0
    OBVIOUS
  <2>4. reg[i].completed \in BOOLEAN /\ StuckOf(reg, bs, i) \in BOOLEAN
    BY <1>1, LedgerRow
  <2>5. PICK h, c, u, s, n : /\ h = reg[i].hash /\ c = reg[i].completed
                             /\ u = UndoOf(reg, bs, i) /\ s = StuckOf(reg, bs, i)
                             /\ n = reg[i].runs
    OBVIOUS
  <2>6. /\ Row(h, c, u, s, n).hash = h /\ Row(h, c, u, s, n).completed = c
        /\ Row(h, c, u, s, n).undo = u /\ Row(h, c, u, s, n).stuck = s
        /\ Row(h, c, u, s, n).runs = n
    BY <2>4, <2>5, RowFields
  <2>. QED  BY <1>1, <2>1, <2>2, <2>3, <2>5, <2>6
<1>2. CASE ~Known(reg, i)
  <2>1. Ledger(reg, bs)[i] = NoRecord /\ reg[i] = NoRecord
    BY <1>2, LedgerRow DEF Known
  <2>. QED  BY <1>2, <2>1 DEF NoRecord
<1>. QED  BY <1>1, <1>2

LEMMA LedgerSame ==
  ASSUME NEW reg \in Registry, NEW bs, NEW bs2,
         \A i \in Id : Known(reg, i) /\ reg[i].backup # 0 =>
           /\ bs2[reg[i].backup].status = bs[reg[i].backup].status
           /\ bs2[reg[i].backup].entries = bs[reg[i].backup].entries
  PROVE  Ledger(reg, bs2) = Ledger(reg, bs)
<1>1. ASSUME NEW i \in Id PROVE Ledger(reg, bs2)[i] = Ledger(reg, bs)[i]
  <2>1. CASE Known(reg, i)
    <3>1. StatusOf(reg, bs2, i) = StatusOf(reg, bs, i)
      BY <2>1 DEF StatusOf
    <3>2. UndoOf(reg, bs2, i) = UndoOf(reg, bs, i)
      BY <2>1, <3>1 DEF UndoOf, StatusOf
    <3>. QED  BY <2>1, <3>1, <3>2, LedgerRow DEF StuckOf
  <2>2. CASE ~Known(reg, i)
    BY <2>2, LedgerRow
  <2>. QED  BY <2>1, <2>2
<1>. QED  BY <1>1 DEF Ledger

(* What the contract says of files is what the program's plans say. *)
LEMMA ContractFiles ==
  ASSUME NEW j, NEW t, NEW e
  PROVE  /\ Contract!Plannable(j, t) <=> Plannable(j, t)
         /\ Contract!PlanOf(j, t) = PlanOf(j, t) /\ Contract!NoChange = NoChange
         /\ Contract!Touched(e) = Touched(e)
         /\ Contract!Rewritten(t, e) = Rewritten(t, e)
         /\ Contract!Restored(t, e) = Restored(t, e)
         /\ Contract!Disturbed(t, e) = Disturbed(t, e)
         /\ Contract!InPlace(t, e) <=> InPlace(t, e)
<1>. USE DEF Contract!Touched, Touched, Contract!NoChange, NoChange
<1>1. Contract!Plannable(j, t) <=> Plannable(j, t)
  BY DEF Contract!Plannable, Plannable
<1>2. Contract!PlanOf(j, t) = PlanOf(j, t)
  BY Zenon DEF Contract!PlanOf, PlanOf
<1>3. Contract!Rewritten(t, e) = Rewritten(t, e) /\ Contract!Restored(t, e) = Restored(t, e)
  BY Zenon DEF Contract!Rewritten, Rewritten, Contract!Restored, Restored
<1>4. Contract!Disturbed(t, e) = Disturbed(t, e)
  BY Zenon DEF Contract!Disturbed, Disturbed
<1>5. Contract!InPlace(t, e) <=> InPlace(t, e)
  BY DEF Contract!InPlace, InPlace
<1>. QED  BY <1>1, <1>2, <1>3, <1>4, <1>5

(* What it says of a job is what the registry says. *)
LEMMA ContractTerms ==
  ASSUME NEW reg \in Registry, NEW bs, NEW j \in Job, before.record = Ledger(reg, bs)
  PROVE  /\ j \in Contract!Job
         /\ Contract!Known(j.id) <=> Known(reg, j.id)
         /\ Contract!Open(j) <=> Open(reg, j)
         /\ Contract!Done(j) <=> Done(reg, j)
         /\ Contract!Completed(j.id) <=> Known(reg, j.id) /\ reg[j.id].completed
         /\ Known(reg, j.id) => /\ Contract!Undo(j.id) = UndoOf(reg, bs, j.id)
                                /\ Contract!Stuck(j.id) <=> StuckOf(reg, bs, j.id)
         /\ ~Known(reg, j.id) => Contract!Undo(j.id) = NoChange /\ ~Contract!Stuck(j.id)
<1>1. j.id \in Id
  BY DEF Job
<1>2. j \in Contract!Job
  BY DEF Contract!Job, Job
<1>3. Contract!Known(j.id) <=> Known(reg, j.id)
  BY <1>1, LedgerOf DEF Contract!Known, Contract!Unknown
<1>4. PICK r : r = before.record[j.id]
  OBVIOUS
<1>5. Known(reg, j.id) =>
        /\ r.hash = reg[j.id].hash /\ r.completed = reg[j.id].completed
        /\ r.undo = UndoOf(reg, bs, j.id) /\ r.stuck = StuckOf(reg, bs, j.id)
  BY <1>1, <1>4, LedgerOf
<1>6. Contract!Open(j) <=> Open(reg, j)
  BY <1>3, <1>4, <1>5, Zenon DEF Contract!Open, Open, Matches, Done
<1>7. Contract!Done(j) <=> Done(reg, j)
  BY <1>3, <1>4, <1>5, Zenon DEF Contract!Done, Done
<1>8. Contract!Completed(j.id) <=> Known(reg, j.id) /\ reg[j.id].completed
  BY <1>3, <1>4, <1>5, Zenon DEF Contract!Completed
<1>9. Known(reg, j.id) => /\ Contract!Undo(j.id) = UndoOf(reg, bs, j.id)
                          /\ Contract!Stuck(j.id) <=> StuckOf(reg, bs, j.id)
  BY <1>3, <1>4, <1>5, Zenon DEF Contract!Undo, Contract!Stuck
<1>10. ~Known(reg, j.id) => Contract!Undo(j.id) = NoChange /\ ~Contract!Stuck(j.id)
  BY <1>3, Zenon DEF Contract!Undo, Contract!Stuck, Contract!NoChange, NoChange
<1>. QED  BY <1>2, <1>3, <1>6, <1>7, <1>8, <1>9, <1>10

(* An update of the registry counts the run of the job in the ledger.  The    *)
(* backup that j refers to may have changed meanwhile.                        *)
LEMMA Counted ==
  ASSUME NEW reg \in Registry, NEW bs, NEW bs0, NEW j \in Job, NEW v \in Verdict,
         before.record = Ledger(reg, bs0),
         before'.record = Ledger(After(reg, j, v), bs),
         \A i \in Id \ {j.id} : Known(reg, i) /\ reg[i].backup # 0 =>
           /\ bs[reg[i].backup].status = bs0[reg[i].backup].status
           /\ bs[reg[i].backup].entries = bs0[reg[i].backup].entries,
         NEW c \in BOOLEAN, NEW u, NEW s \in BOOLEAN,
         c <=> v.completed \/ (~v.reset /\ Known(reg, j.id) /\ reg[j.id].completed),
         u = UndoOf(After(reg, j, v), bs, j.id),
         s <=> StuckOf(After(reg, j, v), bs, j.id)
  PROVE  Contract!Count(j, c, u, s)
<1>. DEFINE new == After(reg, j, v)
<1>. DEFINE i == j.id
<1>1. i \in Id
  BY DEF Job
<1>2. /\ new \in Registry /\ new[i] # NoRecord
      /\ new[i].hash = IF Known(reg, i) THEN reg[i].hash ELSE j.hash
      /\ new[i].completed <=> c
      /\ new[i].runs = reg[i].runs + 1
      /\ \A k \in Id \ {i} : new[k] = reg[k]
  BY UpdatedAt
<1>3. PICK h : h = IF Known(reg, i) THEN reg[i].hash ELSE j.hash
  OBVIOUS
<1>. HIDE DEF new
<1>4. Ledger(new, bs)[i] = Row(h, c, u, s, reg[i].runs + 1)
  <2>1. Known(new, i)
    BY <1>2 DEF Known
  <2>2. new[i].completed \in BOOLEAN /\ StuckOf(new, bs, i) \in BOOLEAN
    BY <1>1, <1>2, <2>1, LedgerRow
  <2>3. new[i].completed = c /\ StuckOf(new, bs, i) = s
    BY <1>2, <2>2 DEF new
  <2>4. UndoOf(new, bs, i) = u
    BY DEF new
  <2>. QED  BY <1>1, <1>2, <1>3, <2>1, <2>3, <2>4, LedgerRow
<1>5. ASSUME NEW k \in Id \ {i} PROVE Ledger(new, bs)[k] = Ledger(reg, bs0)[k]
  <2>1. Known(new, k) <=> Known(reg, k)
    BY <1>2 DEF Known
  <2>2. Known(reg, k) => StatusOf(new, bs, k) = StatusOf(reg, bs0, k)
    BY <1>2 DEF StatusOf
  <2>3. Known(reg, k) => UndoOf(new, bs, k) = UndoOf(reg, bs0, k)
    BY <1>2, <2>2 DEF UndoOf, StatusOf
  <2>. QED  BY <1>2, <2>1, <2>2, <2>3, LedgerRow DEF StuckOf
<1>6. Ledger(new, bs) = [Ledger(reg, bs0) EXCEPT ![i] = Row(h, c, u, s, reg[i].runs + 1)]
  <2>1. DOMAIN Ledger(new, bs) = Id /\ DOMAIN Ledger(reg, bs0) = Id
    BY DEF Ledger
  <2>2. Ledger(new, bs) = [k \in Id |-> Ledger(new, bs)[k]]
    BY DEF Ledger
  <2>. QED  BY <1>1, <1>4, <1>5, <2>1, <2>2
<1>7. /\ h = IF Contract!Known(i) THEN before.record[i].hash ELSE j.hash
      /\ before.record[i].runs = reg[i].runs
  <2>1. Contract!Known(i) <=> Known(reg, i)
    BY ContractTerms
  <2>2. /\ Known(reg, i) => before.record[i].hash = reg[i].hash
        /\ before.record[i].runs = reg[i].runs
    BY <1>1, LedgerOf
  <2>. QED  BY <1>3, <2>1, <2>2
<1>8. before'.record = [before.record EXCEPT ![i] =
                          Row(IF Contract!Known(i) THEN before.record[i].hash ELSE j.hash,
                              c, u, s, before.record[i].runs + 1)]
  BY <1>6, <1>7 DEF new
<1>. QED  BY <1>8 DEF Contract!Count, Row

(* A job that leaves no trace is a stutter. *)
LEMMA TakenStep ==
  ASSUME NEW j \in Contract!Job, Contract!Take(j)
  PROVE  [Contract!Next]_<<before.tree, before.record>>
<1>1. CASE UNCHANGED <<before.tree, before.record>>
  BY <1>1
<1>2. CASE ~UNCHANGED <<before.tree, before.record>>
  <2>1. before'.tree # before.tree \/ before'.record # before.record
    BY <1>2
  <2>2. Contract!Next
    BY <2>1 DEF Contract!Next
  <2>. QED  BY <2>2
<1>. QED  BY <1>1, <1>2

-----------------------------------------------------------------------------
(* What a job has come to when its records are due: from the files t0 and the  *)
(* ledger r0 to the files t and the backups bs, with the verdict v             *)

(* Nothing has changed. *)
Idle(t0, r0, reg, t, bs, j, v) ==
  /\ t = t0 /\ r0 = Ledger(reg, bs) /\ ~v.reset
  /\ \/ /\ v.backup = 0
        /\ v.completed =>
             \/ Done(reg, j)
             \/ Open(reg, j) /\ (j \in Patch => Plannable(j, t) /\ Touched(PlanOf(j, t)) = {})
     \/ Done(reg, j) /\ ~v.completed /\ v.backup = reg[j.id].backup

(* The job was run, to its end or not. *)
Ran(t0, r0, reg, t, bs, j, v) ==
  LET e == PlanOf(j, t0) IN
  /\ r0 = Ledger(reg, bs) /\ ~v.reset /\ v.backup # 0
  /\ j \in Patch /\ Open(reg, j) /\ Plannable(j, t0) /\ Touched(e) # {}
  /\ IF v.completed
     THEN /\ t = Rewritten(t0, e)
          /\ bs[v.backup].entries = e /\ bs[v.backup].status = "COMPLETED"
     ELSE t \in Disturbed(t0, e) /\ bs[v.backup].status # "COMPLETED"

(* The job was rolled back, or not quite. *)
Undid(t0, r0, reg, t, bs, j, v) ==
  LET b == v.backup
      e == bs[b].entries
  IN
  /\ b # 0 /\ reg[j.id].backup = b /\ r0 = Ledger(reg, [bs EXCEPT ![b].status = "COMPLETED"])
  /\ j \in Patch /\ Done(reg, j) /\ Touched(e) # {} /\ InPlace(t0, e) /\ ~v.completed
  /\ IF v.reset
     THEN t = Restored(t0, e) /\ bs[b].status = "ROLLED_BACK"
     ELSE /\ t \in Disturbed(t0, e)
          /\ bs[b].status = "ROLLBACK_FAILED" \/ (Faults /\ bs[b].status = "COMPLETED")

(* No other ID refers to the backup. *)
OneId(reg, bs, j, b) ==
  \A i \in Id \ {j.id} :
    Known(reg, i) /\ reg[i].backup # 0 => reg[i].backup \in DOMAIN bs \ {b}

LEMMA Reopened ==
  ASSUME NEW bs \in Seq(Backup), NEW b \in DOMAIN bs
  PROVE  LET bs0 == [bs EXCEPT ![b].status = "COMPLETED"] IN
         /\ bs0[b].status = "COMPLETED" /\ bs0[b].entries = bs[b].entries
         /\ \A c \in DOMAIN bs \ {b} : bs0[c] = bs[c]
<1>. DEFINE x == [bs[b] EXCEPT !.status = "COMPLETED"]
<1>1. bs[b] \in Backup
  OBVIOUS
<1>2. x.status = "COMPLETED" /\ x.entries = bs[b].entries
  BY <1>1 DEF Backup
<1>3. [bs EXCEPT ![b].status = "COMPLETED"] = [bs EXCEPT ![b] = x]
  OBVIOUS
<1>. HIDE DEF x
<1>. QED  BY <1>2, <1>3

LEMMA AlreadyClosed ==
  ASSUME NEW bs \in Seq(Backup), NEW b \in DOMAIN bs, bs[b].status = "COMPLETED"
  PROVE  [bs EXCEPT ![b].status = "COMPLETED"] = bs
<1>. DEFINE x == [bs[b] EXCEPT !.status = "COMPLETED"]
<1>1. bs[b] \in Backup
  OBVIOUS
<1>2. x = bs[b]
  BY <1>1 DEF Backup
<1>3. [bs EXCEPT ![b].status = "COMPLETED"] = [bs EXCEPT ![b] = x]
  OBVIOUS
<1>. HIDE DEF x
<1>. QED  BY <1>2, <1>3

LEMMA IdleStep ==
  ASSUME NEW reg \in Registry, NEW bs, NEW j \in Job, NEW v \in Verdict,
         before'.tree = before.tree, before'.record = Ledger(After(reg, j, v), bs),
         Idle(before.tree, before.record, reg, before.tree, bs, j, v)
  PROVE  Contract!Take(j)
<1>. DEFINE i == j.id
<1>. DEFINE new == After(reg, j, v)
<1>1. /\ before.record = Ledger(reg, bs) /\ i \in Id
      /\ v.completed \in BOOLEAN /\ v.backup \in Nat /\ ~v.reset
  BY DEF Idle, Job, Verdict
<1>2. /\ Contract!Completed(i) <=> Known(reg, i) /\ reg[i].completed
      /\ Known(reg, i) => /\ Contract!Undo(i) = UndoOf(reg, bs, i)
                          /\ Contract!Stuck(i) <=> StuckOf(reg, bs, i)
      /\ ~Known(reg, i) => Contract!Undo(i) = NoChange /\ ~Contract!Stuck(i)
      /\ Contract!Open(j) <=> Open(reg, j)
  BY <1>1, ContractTerms
<1>3. /\ Contract!Completed(i) \in BOOLEAN /\ Contract!Stuck(i) \in BOOLEAN
  <2>1. Known(reg, i) => /\ before.record[i].completed \in BOOLEAN
                         /\ before.record[i].stuck \in BOOLEAN
    BY <1>1, LedgerOf, LedgerRow
  <2>2. Contract!Known(i) <=> Known(reg, i)
    BY <1>1, ContractTerms
  <2>. QED  BY <2>1, <2>2 DEF Contract!Completed, Contract!Stuck
<1>4. /\ new[i].backup = IF ~Known(reg, i) THEN v.backup ELSE reg[i].backup
      /\ ~Known(reg, i) => v.backup = 0
  <2>1. new[i].backup = IF v.backup # 0 \/ ~Known(reg, i) THEN v.backup ELSE reg[i].backup
    BY <1>1, UpdatedAt
  <2>2. v.backup # 0 => Known(reg, i) /\ v.backup = reg[i].backup
    BY DEF Idle, Done
  <2>. HIDE DEF new, i
  <2>. QED  BY <2>1, <2>2
<1>5. UndoOf(new, bs, i) = Contract!Undo(i) /\ (StuckOf(new, bs, i) <=> Contract!Stuck(i))
  <2>. HIDE DEF new, i
  <2>1. CASE Known(reg, i)
    <3>1. new[i].backup = reg[i].backup
      BY <1>4, <2>1
    <3>2. StatusOf(new, bs, i) = StatusOf(reg, bs, i)
      BY <3>1 DEF StatusOf
    <3>3. /\ UndoOf(new, bs, i) = UndoOf(reg, bs, i)
          /\ StuckOf(new, bs, i) <=> StuckOf(reg, bs, i)
      BY <3>1, <3>2 DEF UndoOf, StuckOf
    <3>. QED  BY <1>2, <2>1, <3>3
  <2>2. CASE ~Known(reg, i)
    <3>1. StatusOf(new, bs, i) = "none"
      BY <1>4, <2>2 DEF StatusOf
    <3>. QED  BY <1>2, <2>2, <3>1 DEF UndoOf, StuckOf
  <2>. QED  BY <2>1, <2>2
<1>6. ASSUME NEW c \in BOOLEAN, c <=> v.completed \/ (Known(reg, i) /\ reg[i].completed)
      PROVE  Contract!Count(j, c, Contract!Undo(i), Contract!Stuck(i))
  BY <1>1, <1>3, <1>5, <1>6, Counted
<1>7. CASE v.completed => Done(reg, j)
  <2>1. PICK c \in BOOLEAN : c = Contract!Completed(i)
    BY <1>3
  <2>2. c <=> v.completed \/ (Known(reg, i) /\ reg[i].completed)
    BY <1>2, <1>7, <2>1 DEF Done
  <2>3. Contract!Note(j)
    BY <1>6, <2>1, <2>2 DEF Contract!Note
  <2>. QED  BY <2>3 DEF Contract!Take
<1>8. CASE v.completed /\ ~Done(reg, j)
  <2>1. Contract!Count(j, TRUE, Contract!Undo(i), Contract!Stuck(i))
    BY <1>6, <1>8
  <2>2. Contract!Settled(j)
    BY <1>8, ContractFiles DEF Contract!Settled, Idle
  <2>3. Contract!Confirm(j)
    BY <1>2, <1>8, <2>1, <2>2 DEF Contract!Confirm, Idle
  <2>. QED  BY <2>3 DEF Contract!Take
<1>. QED  BY <1>7, <1>8

(* The changes of a run, and of a rollback, in the terms of the contract. *)
LEMMA RanFiles ==
  ASSUME NEW reg \in Registry, NEW bs, NEW j \in Job, NEW v, NEW t, before'.tree = t,
         Ran(before.tree, before.record, reg, t, bs, j, v)
  PROVE  IF v.completed THEN Contract!Apply(j) ELSE Contract!Break(j)
<1>1. Contract!Open(j) /\ Contract!Changes(j)
  BY ContractTerms, ContractFiles DEF Ran, Contract!Changes
<1>. QED  BY <1>1, ContractFiles DEF Ran, Contract!Apply, Contract!Break

LEMMA UndidFiles ==
  ASSUME NEW reg \in Registry, NEW bs \in Seq(Backup), NEW j \in Job, NEW v, NEW t,
         before'.tree = t, v.backup \in DOMAIN bs,
         Undid(before.tree, before.record, reg, t, bs, j, v)
  PROVE  /\ IF v.reset THEN Contract!TakeBack(j) ELSE Contract!BreakUndo(j)
         /\ Contract!Undo(j.id) = bs[v.backup].entries
<1>. DEFINE b == v.backup
<1>. DEFINE e == bs[b].entries
<1>. DEFINE bs0 == [bs EXCEPT ![b].status = "COMPLETED"]
<1>1. bs0[b].status = "COMPLETED" /\ bs0[b].entries = e
  BY Reopened
<1>2. /\ before.record = Ledger(reg, bs0) /\ Known(reg, j.id) /\ reg[j.id].backup = b
      /\ b # 0 /\ Done(reg, j) /\ Touched(e) # {} /\ InPlace(before.tree, e) /\ j \in Patch
  BY DEF Undid, Done
<1>. HIDE DEF bs0
<1>3. UndoOf(reg, bs0, j.id) = e
  BY <1>1, <1>2 DEF UndoOf, StatusOf
<1>4. Contract!Undo(j.id) = e /\ Contract!Done(j)
  BY <1>2, <1>3, ContractTerms
<1>5. Contract!Undoable(j)
  BY <1>2, <1>4, ContractFiles DEF Contract!Undoable
<1>6. IF v.reset THEN t = Restored(before.tree, e) ELSE t \in Disturbed(before.tree, e)
  BY DEF Undid
<1>. QED  BY <1>4, <1>5, <1>6, ContractFiles DEF Contract!TakeBack, Contract!BreakUndo

LEMMA RanStep ==
  ASSUME NEW reg \in Registry, NEW bs, NEW j \in Job, NEW v \in Verdict, NEW t,
         before'.tree = t, before'.record = Ledger(After(reg, j, v), bs),
         Ran(before.tree, before.record, reg, t, bs, j, v)
  PROVE  Contract!Take(j)
<1>. DEFINE i == j.id
<1>. DEFINE new == After(reg, j, v)
<1>. DEFINE b == v.backup
<1>1. /\ before.record = Ledger(reg, bs) /\ v.completed \in BOOLEAN /\ ~v.reset /\ b # 0
      /\ ~(Known(reg, i) /\ reg[i].completed)
  BY DEF Ran, Verdict, Open, Matches, Done
<1>2. new[i].backup = b
  BY <1>1, UpdatedAt
<1>. HIDE DEF new, i
<1>3. StatusOf(new, bs, i) = bs[b].status
  BY <1>1, <1>2 DEF StatusOf
<1>4. UndoOf(new, bs, i) = IF v.completed THEN PlanOf(j, before.tree) ELSE NoChange
  BY <1>1, <1>2, <1>3 DEF UndoOf, Ran
<1>5. StuckOf(new, bs, i) \in BOOLEAN /\ (v.completed => ~StuckOf(new, bs, i))
  BY <1>3 DEF StuckOf, Ran
<1>6. ASSUME NEW u, u = UndoOf(new, bs, i), NEW s \in BOOLEAN, s <=> StuckOf(new, bs, i)
      PROVE  Contract!Count(j, v.completed, u, s)
  BY <1>1, <1>6, Counted DEF new, i
<1>7. CASE v.completed
  <2>1. Contract!Count(j, TRUE, PlanOf(j, before.tree), FALSE)
    BY <1>1, <1>4, <1>5, <1>6, <1>7
  <2>2. Contract!Complete(j)
    BY <1>7, <2>1, RanFiles, ContractFiles DEF Contract!Complete
  <2>. QED  BY <2>2 DEF Contract!Take
<1>8. CASE ~v.completed
  <2>1. PICK s \in BOOLEAN : s <=> StuckOf(new, bs, i)
    BY <1>5
  <2>2. Contract!Count(j, FALSE, NoChange, s)
    BY <1>1, <1>4, <1>6, <1>8, <2>1
  <2>3. Contract!Fail(j)
    BY <1>8, <2>2, RanFiles, ContractFiles DEF Contract!Fail
  <2>. QED  BY <2>3 DEF Contract!Take
<1>. QED  BY <1>1, <1>7, <1>8

LEMMA UndidStep ==
  ASSUME NEW reg \in Registry, NEW bs \in Seq(Backup), NEW j \in Job, NEW v \in Verdict,
         NEW t, before'.tree = t, before'.record = Ledger(After(reg, j, v), bs),
         v.backup \in DOMAIN bs, OneId(reg, bs, j, v.backup),
         Undid(before.tree, before.record, reg, t, bs, j, v)
  PROVE  Contract!Take(j)
<1>. DEFINE i == j.id
<1>. DEFINE new == After(reg, j, v)
<1>. DEFINE b == v.backup
<1>. DEFINE bs0 == [bs EXCEPT ![b].status = "COMPLETED"]
<1>1. /\ before.record = Ledger(reg, bs0) /\ b # 0 /\ i \in Id /\ v.reset \in BOOLEAN
      /\ Known(reg, i) /\ reg[i].completed /\ reg[i].backup = b /\ ~v.completed
      /\ IF v.reset THEN bs[b].status = "ROLLED_BACK"
                    ELSE \/ bs[b].status = "ROLLBACK_FAILED"
                         \/ Faults /\ bs[b].status = "COMPLETED"
  BY DEF Undid, Done, Job, Verdict
<1>2. /\ bs0[b].status = "COMPLETED" /\ bs0[b].entries = bs[b].entries
      /\ \A c \in DOMAIN bs \ {b} : bs0[c] = bs[c]
  BY Reopened
<1>3. new[i].backup = b
  BY <1>1, UpdatedAt
<1>4. /\ IF v.reset THEN Contract!TakeBack(j) ELSE Contract!BreakUndo(j)
      /\ Contract!Undo(i) = bs[b].entries
  BY UndidFiles
<1>. HIDE DEF bs0, i
<1>5. /\ \A k \in Id \ {i} : Known(reg, k) /\ reg[k].backup # 0 =>
           /\ bs[reg[k].backup].status = bs0[reg[k].backup].status
           /\ bs[reg[k].backup].entries = bs0[reg[k].backup].entries
  BY <1>2 DEF OneId, i
<1>. HIDE DEF new
<1>6. StatusOf(new, bs, i) = bs[b].status
  BY <1>1, <1>3 DEF StatusOf
<1>7. /\ UndoOf(new, bs, i) = IF bs[b].status = "COMPLETED" THEN bs[b].entries ELSE NoChange
      /\ StuckOf(new, bs, i) <=> bs[b].status = "ROLLBACK_FAILED"
  BY <1>1, <1>3, <1>6 DEF UndoOf, StuckOf
<1>8. ASSUME NEW c \in BOOLEAN, c <=> ~v.reset, NEW u, u = UndoOf(new, bs, i),
             NEW s \in BOOLEAN, s <=> StuckOf(new, bs, i)
      PROVE  Contract!Count(j, c, u, s)
  <2>1. c <=> v.completed \/ (~v.reset /\ Known(reg, i) /\ reg[i].completed)
    BY <1>1, <1>8
  <2>. QED  BY <1>1, <1>5, <1>8, <2>1, Counted DEF new, i
<1>9. CASE v.reset
  <2>1. Contract!Count(j, FALSE, NoChange, FALSE)
    BY <1>1, <1>7, <1>8, <1>9
  <2>2. Contract!RollBack(j)
    BY <1>4, <1>9, <2>1, ContractFiles DEF Contract!RollBack
  <2>. QED  BY <2>2 DEF Contract!Take
<1>10. CASE ~v.reset /\ bs[b].status = "ROLLBACK_FAILED"
  <2>1. Contract!Count(j, TRUE, NoChange, TRUE)
    BY <1>7, <1>8, <1>10
  <2>2. Contract!Fail(j)
    BY <1>4, <1>10, <2>1, ContractFiles DEF Contract!Fail
  <2>. QED  BY <2>2 DEF Contract!Take
<1>11. CASE ~v.reset /\ Faults /\ bs[b].status = "COMPLETED"
  <2>1. StatusOf(reg, bs0, i) = "COMPLETED"
    BY <1>1, <1>2 DEF StatusOf
  <2>2. ~StuckOf(reg, bs0, i) /\ StuckOf(reg, bs0, i) \in BOOLEAN
    BY <2>1 DEF StuckOf
  <2>3. Contract!Stuck(i) <=> StuckOf(reg, bs0, i)
    BY <1>1, ContractTerms DEF i
  <2>4. Contract!Stuck(i) \in BOOLEAN
    <3>1. before.record[i].stuck = StuckOf(reg, bs0, i)
      BY <1>1, LedgerOf
    <3>. QED  BY <2>2, <3>1 DEF Contract!Stuck
  <2>5. Contract!Count(j, TRUE, Contract!Undo(i), Contract!Stuck(i))
    BY <1>4, <1>7, <1>8, <1>11, <2>2, <2>3, <2>4
  <2>6. Contract!Fail(j)
    BY <1>4, <1>11, <2>5 DEF Contract!Fail, i
  <2>. QED  BY <2>6 DEF Contract!Take
<1>. QED  BY <1>1, <1>9, <1>10, <1>11

(* A rollback that the registry does not know of, in the ledger. *)
LEMMA Spent ==
  ASSUME NEW reg \in Registry, NEW bs \in Seq(Backup), NEW j \in Job, NEW b \in DOMAIN bs,
         OneId(reg, bs, j, b), Known(reg, j.id), reg[j.id].backup = b, b # 0,
         before.record = Ledger(reg, [bs EXCEPT ![b].status = "COMPLETED"]),
         before'.record = Ledger(reg, bs),
         bs[b].status # "COMPLETED",
         NEW x \in BOOLEAN, x <=> bs[b].status = "ROLLBACK_FAILED"
  PROVE  Contract!Spend(j, x)
<1>. DEFINE i == j.id
<1>. DEFINE bs0 == [bs EXCEPT ![b].status = "COMPLETED"]
<1>1. \A c \in DOMAIN bs \ {b} : bs0[c] = bs[c]
  BY Reopened
<1>2. i \in Id
  BY DEF Job
<1>3. PICK h, c, n : h = reg[i].hash /\ c = reg[i].completed /\ n = reg[i].runs
  OBVIOUS
<1>. HIDE DEF bs0
<1>4. PICK u, s : u = UndoOf(reg, bs0, i) /\ s = StuckOf(reg, bs0, i)
  OBVIOUS
<1>5. Ledger(reg, bs0)[i] = Row(h, c, u, s, n)
  BY <1>2, <1>3, <1>4, LedgerRow
<1>6. Ledger(reg, bs)[i] = Row(h, c, NoChange, x, n)
  <2>1. StatusOf(reg, bs, i) = bs[b].status
    BY DEF StatusOf
  <2>2. UndoOf(reg, bs, i) = NoChange /\ StuckOf(reg, bs, i) = x
    BY <2>1 DEF UndoOf, StuckOf
  <2>. QED  BY <1>2, <1>3, <2>2, LedgerRow
<1>7. ASSUME NEW k \in Id \ {i} PROVE Ledger(reg, bs)[k] = Ledger(reg, bs0)[k]
  <2>1. Known(reg, k) => StatusOf(reg, bs, k) = StatusOf(reg, bs0, k)
    BY <1>1 DEF StatusOf, OneId
  <2>2. Known(reg, k) => UndoOf(reg, bs, k) = UndoOf(reg, bs0, k)
    BY <1>1, <2>1 DEF UndoOf, StatusOf, OneId
  <2>. QED  BY <2>1, <2>2, LedgerRow DEF StuckOf
<1>8. Ledger(reg, bs) = [Ledger(reg, bs0) EXCEPT ![i] = Row(h, c, NoChange, x, n)]
  <2>1. DOMAIN Ledger(reg, bs0) = Id /\ Ledger(reg, bs) = [k \in Id |-> Ledger(reg, bs)[k]]
    BY DEF Ledger
  <2>. QED  BY <1>2, <1>6, <1>7, <2>1
<1>9. [before.record[i] EXCEPT !.undo = NoChange, !.stuck = x] = Row(h, c, NoChange, x, n)
  <2>1. before.record[i] = Row(h, c, u, s, n)
    BY <1>5 DEF bs0
  <2>2. PICK r, w : r = before.record[i] /\ w = NoChange
    OBVIOUS
  <2>3. /\ [Row(h, c, u, s, n) EXCEPT !.undo = w] = Row(h, c, w, s, n)
        /\ [Row(h, c, w, s, n) EXCEPT !.stuck = x] = Row(h, c, w, x, n)
    BY DEF Row
  <2>4. [r EXCEPT !.undo = w, !.stuck = x] = [[r EXCEPT !.undo = w] EXCEPT !.stuck = x]
    OBVIOUS
  <2>. QED  BY <2>1, <2>2, <2>3, <2>4
<1>10. before'.record = [before.record EXCEPT ![i] =
                           [before.record[i] EXCEPT !.undo = NoChange, !.stuck = x]]
  BY <1>8, <1>9 DEF bs0
<1>. QED  BY <1>10, ContractFiles DEF Contract!Spend

(* Whoever dies leaves its change without a record. *)
LEMMA LostStep ==
  ASSUME NEW reg \in Registry, NEW bs \in Seq(Backup), NEW j \in Job, NEW v, NEW t,
         Faults, before'.tree = t, before'.record = Ledger(reg, bs),
         \/ Idle(before.tree, before.record, reg, t, bs, j, v)
         \/ Ran(before.tree, before.record, reg, t, bs, j, v)
         \/ /\ Undid(before.tree, before.record, reg, t, bs, j, v)
            /\ v.backup \in DOMAIN bs /\ OneId(reg, bs, j, v.backup)
  PROVE  UNCHANGED <<before.tree, before.record>> \/ Contract!Take(j)
<1>1. CASE Idle(before.tree, before.record, reg, t, bs, j, v)
  BY <1>1 DEF Idle
<1>2. CASE Ran(before.tree, before.record, reg, t, bs, j, v)
  <2>1. Contract!Apply(j) \/ Contract!Break(j)
    BY <1>2, RanFiles
  <2>2. Contract!Lose(j)
    BY <1>2, <2>1 DEF Ran, Contract!Lose
  <2>. QED  BY <2>2 DEF Contract!Take
<1>3. CASE /\ Undid(before.tree, before.record, reg, t, bs, j, v)
           /\ v.backup \in DOMAIN bs /\ OneId(reg, bs, j, v.backup)
  <2>. DEFINE b == v.backup
  <2>1. /\ before.record = Ledger(reg, [bs EXCEPT ![b].status = "COMPLETED"]) /\ b # 0
        /\ Known(reg, j.id) /\ reg[j.id].backup = b
        /\ IF v.reset THEN bs[b].status = "ROLLED_BACK"
                      ELSE bs[b].status \in {"ROLLBACK_FAILED", "COMPLETED"}
    BY <1>3 DEF Undid, Done
  <2>2. IF v.reset THEN Contract!TakeBack(j) ELSE Contract!BreakUndo(j)
    BY <1>3, UndidFiles
  <2>3. CASE bs[b].status = "COMPLETED"
    <3>1. before.record = Ledger(reg, bs)
      BY <1>3, <2>1, <2>3, AlreadyClosed
    <3>2. Contract!Lose(j)
      BY <2>1, <2>2, <2>3, <3>1 DEF Contract!Lose
    <3>. QED  BY <3>2 DEF Contract!Take
  <2>4. CASE bs[b].status # "COMPLETED"
    <3>1. PICK x \in BOOLEAN : x <=> bs[b].status = "ROLLBACK_FAILED"
      OBVIOUS
    <3>2. Contract!Spend(j, x)
      BY <1>3, <2>1, <2>4, <3>1, Spent
    <3>3. IF v.reset THEN x = FALSE ELSE x = TRUE
      BY <2>1, <2>4, <3>1
    <3>4. Contract!Lose(j)
      BY <2>2, <3>2, <3>3 DEF Contract!Lose
    <3>. QED  BY <3>4 DEF Contract!Take
  <2>. QED  BY <2>3, <2>4
<1>. QED  BY <1>1, <1>2, <1>3

-----------------------------------------------------------------------------
(* The ledger while a job is in hand *)

Follows == before' = IF holder' = NoProc THEN Seen' ELSE before

(* Nothing has changed since the lock was last free. *)
Pristine == before.tree = tree /\ before.record = Ledger(registry, backups)

(* What the job in hand has come to. *)
Came(p) ==
  \/ Idle(before.tree, before.record, registry, tree, backups, job[p], verdict[p])
  \/ Ran(before.tree, before.record, registry, tree, backups, job[p], verdict[p])
  \/ Undid(before.tree, before.record, registry, tree, backups, job[p], verdict[p])

ProcLedger(p) ==
  LET n == Len(backups)
      e == backups[n].entries
      u == backups[verdict[p].backup].entries
  IN
  /\ pc[p] \in Critical \ Busy => before.record = Ledger(registry, backups)
  /\ pc[p] \in {"transact", "preflight", "restoring"} => before.tree = tree
  /\ pc[p] = "applying" =>
       /\ Plannable(job[p], before.tree) /\ e = PlanOf(job[p], before.tree)
       /\ tree \in Disturbed(before.tree, e)
       /\ \A i \in Id : Known(registry, i) => registry[i].backup # n
  /\ pc[p] \in {"undoing", "mark"} => InPlace(before.tree, u)
  /\ pc[p] = "undoing" => tree \in Disturbed(before.tree, u)
  /\ pc[p] = "mark" => tree = Restored(before.tree, u)
  /\ pc[p] \in Busy => Came(p)

LedgerInv ==
  /\ before.tree \in Tree
  /\ (\A p \in Proc : pc[p] \notin Critical) => Pristine
  /\ \A p \in Proc : ProcLedger(p)

LEMMA DisturbedFiles ==
  ASSUME NEW t \in Tree, NEW e \in Plan
  PROVE  /\ t \in Disturbed(t, e) /\ Rewritten(t, e) \in Disturbed(t, e)
         /\ Restored(t, e) \in Disturbed(t, e)
         /\ \A u \in Disturbed(t, e) : /\ Rewritten(u, e) = Rewritten(t, e)
                                       /\ Restored(u, e) = Restored(t, e)
<1>1. \A q \in Path : e[q].before \in Content /\ e[q].after \in Content /\ t[q] \in Content
  BY DEF Plan, Entry, Tree
<1>2. Touched(e) \subseteq Path /\ t = [q \in Path |-> t[q]]
  BY DEF Touched, Tree
<1>3. ASSUME NEW f \in [Touched(e) -> Content], NEW u,
             u = [q \in Path |-> IF q \in Touched(e) THEN f[q] ELSE t[q]]
      PROVE  u \in Disturbed(t, e)
  BY <1>3 DEF Disturbed
<1>4. t \in Disturbed(t, e)
  <2>. DEFINE f == [q \in Touched(e) |-> t[q]]
  <2>1. f \in [Touched(e) -> Content]
    BY <1>1, <1>2
  <2>2. t = [q \in Path |-> IF q \in Touched(e) THEN f[q] ELSE t[q]]
    BY <1>2
  <2>. HIDE DEF f
  <2>. QED  BY <1>3, <2>1, <2>2
<1>5. Rewritten(t, e) \in Disturbed(t, e)
  <2>. DEFINE f == [q \in Touched(e) |-> e[q].after]
  <2>1. f \in [Touched(e) -> Content]
    BY <1>1, <1>2
  <2>2. Rewritten(t, e) = [q \in Path |-> IF q \in Touched(e) THEN f[q] ELSE t[q]]
    BY DEF Rewritten
  <2>. HIDE DEF f
  <2>. QED  BY <1>3, <2>1, <2>2
<1>6. Restored(t, e) \in Disturbed(t, e)
  <2>. DEFINE f == [q \in Touched(e) |-> e[q].before]
  <2>1. f \in [Touched(e) -> Content]
    BY <1>1, <1>2
  <2>2. Restored(t, e) = [q \in Path |-> IF q \in Touched(e) THEN f[q] ELSE t[q]]
    BY DEF Restored
  <2>. HIDE DEF f
  <2>. QED  BY <1>3, <2>1, <2>2
<1>7. ASSUME NEW u \in Disturbed(t, e)
      PROVE  Rewritten(u, e) = Rewritten(t, e) /\ Restored(u, e) = Restored(t, e)
  <2>1. \A q \in Path : q \notin Touched(e) => u[q] = t[q]
    BY FilesType
  <2>. QED  BY <2>1 DEF Rewritten, Restored
<1>. QED  BY <1>4, <1>5, <1>6, <1>7

(* While somebody is inside, what was seen last stands. *)
LEMMA Stands ==
  ASSUME LockInv', NEW p \in Proc, pc'[p] \in Critical, Follows
  PROVE  before' = before
<1>1. holder' = p /\ NoProc \notin Proc
  BY LifecycleAssumption DEF LockInv, Exclusion
<1>. QED  BY <1>1 DEF Follows

(* Whoever comes inside finds nobody there. *)
LEMMA Enters ==
  ASSUME LockInv', NEW p \in Proc, Others(p), pc[p] \notin Critical, pc'[p] \in Critical,
         LedgerInv
  PROVE  Pristine
<1>1. ASSUME NEW q \in Proc, pc[q] \in Critical PROVE FALSE
  <2>1. q # p /\ pc'[q] = pc[q]
    BY <1>1 DEF Others
  <2>. QED  BY <1>1, <2>1 DEF LockInv, Exclusion
<1>. QED  BY <1>1 DEF LedgerInv

(* References to backups, when one is added or closed. *)
LEMMA RefersTo ==
  ASSUME TypeInv, NEW i \in Id, Known(registry, i), registry[i].backup # 0
  PROVE  registry[i].backup \in DOMAIN backups
<1>1. registry[i].backup \in Nat /\ registry[i].backup <= Len(backups)
  BY KnownType DEF TypeInv, TypeOK, ReferencesOK, Record
<1>2. backups \in Seq(Backup)
  BY DEF TypeInv, TypeOK
<1>. QED  BY <1>1, <1>2

LEMMA AddedLedger ==
  ASSUME TypeInv, NEW e, Added(e)
  PROVE  Ledger(registry, backups') = Ledger(registry, backups)
<1>1. registry \in Registry
  BY DEF TypeInv, TypeOK
<1>2. \A i \in Id : Known(registry, i) /\ registry[i].backup # 0 =>
        /\ backups'[registry[i].backup].status = backups[registry[i].backup].status
        /\ backups'[registry[i].backup].entries = backups[registry[i].backup].entries
  BY RefersTo DEF Added
<1>. QED  BY <1>1, <1>2, LedgerSame

(* An unreferenced backup is closed. *)
LEMMA ClosedLedger ==
  ASSUME TypeInv, NEW b, NEW s, Closed(b, s),
         \A i \in Id : Known(registry, i) => registry[i].backup # b
  PROVE  Ledger(registry, backups') = Ledger(registry, backups)
<1>1. registry \in Registry
  BY DEF TypeInv, TypeOK
<1>2. \A i \in Id : Known(registry, i) /\ registry[i].backup # 0 =>
        /\ backups'[registry[i].backup].status = backups[registry[i].backup].status
        /\ backups'[registry[i].backup].entries = backups[registry[i].backup].entries
  BY RefersTo DEF Closed
<1>. QED  BY <1>1, <1>2, LedgerSame

(* The backup of a completed job is closed. *)
LEMMA SpentLedger ==
  ASSUME TypeInv, TypeInv', NEW b, NEW s,
         Closed(b, s) \/ (UNCHANGED backups /\ b \in DOMAIN backups),
         backups[b].status = "COMPLETED"
  PROVE  Ledger(registry, [backups' EXCEPT ![b].status = "COMPLETED"])
           = Ledger(registry, backups)
<1>. DEFINE bs0 == [backups' EXCEPT ![b].status = "COMPLETED"]
<1>1. registry \in Registry /\ backups' \in Seq(Backup) /\ b \in DOMAIN backups'
      /\ DOMAIN backups' = DOMAIN backups
      /\ backups'[b].entries = backups[b].entries
      /\ \A c \in DOMAIN backups \ {b} : backups'[c] = backups[c]
  BY DEF TypeInv, TypeOK, Closed
<1>2. /\ bs0[b].status = "COMPLETED" /\ bs0[b].entries = backups'[b].entries
      /\ \A c \in DOMAIN backups' \ {b} : bs0[c] = backups'[c]
  BY <1>1, Reopened
<1>. HIDE DEF bs0
<1>3. ASSUME NEW c \in DOMAIN backups
      PROVE  bs0[c].status = backups[c].status /\ bs0[c].entries = backups[c].entries
  BY <1>1, <1>2
<1>4. Ledger(registry, bs0) = Ledger(registry, backups)
  BY <1>1, <1>3, RefersTo, LedgerSame, ZenonT(30)
<1>. QED  BY <1>4 DEF bs0

LEMMA Exits ==
  ASSUME LockInv, NEW p \in Proc, Comes(p), pc[p] \in Critical, pc'[p] \notin Critical
  PROVE  (Registers(p) \/ Leaves(p)) /\ holder' = NoProc
<1>1. Registers(p) \/ Leaves(p)
  BY DEF Comes, Aside, Takes, Locates, Refuses, Settles, Begins, Ends, Records, Checks,
         Restores, Finishes, Breaks, Marks, Critical
<1>2. Leave(p) /\ holder = p
  BY <1>1 DEF Registers, Leaves, LockInv, Exclusion
<1>. QED  BY <1>1, <1>2 DEF Leave

LEMMA LedgerOthers ==
  ASSUME TypeInv, LockInv, LockInv', NEW p \in Proc, Comes(p), Others(p), Follows,
         NEW q \in Proc \ {p}, ProcLedger(q)
  PROVE  ProcLedger(q)'
<1>1. pc'[q] = pc[q] /\ job'[q] = job[q] /\ verdict'[q] = verdict[q]
  BY DEF Others
<1>2. CASE pc[q] \notin Critical
  BY <1>1, <1>2 DEF ProcLedger, Critical, Busy
<1>3. CASE pc[q] \in Critical
  <2>1. UNCHANGED <<registry, tree, backups>>
    BY <1>3, AloneInside, OutsideReads
  <2>2. before' = before
    BY <1>1, <1>3, Stands
  <2>. QED
    BY <1>1, <2>1, <2>2 DEF ProcLedger, Came, Idle, Ran, Undid, Open, Matches, Done, Known
<1>. QED  BY <1>2, <1>3

LEMMA LedgerTakes ==
  ASSUME TypeInv, LockInv', LedgerInv, NEW p \in Proc, Others(p), before' = before,
         Takes(p) \/ Locates(p)
  PROVE  ProcLedger(p)'
<1>1. pc[p] \notin Critical /\ pc'[p] \in {"transact", "archive", "preflight"}
      /\ UNCHANGED <<registry, tree, backups>>
  BY DEF Takes, Locates
<1>2. Pristine
  BY <1>1, Enters DEF Critical
<1>3. before'.tree = tree' /\ before'.record = Ledger(registry', backups')
  BY <1>1, <1>2 DEF Pristine
<1>4. CASE pc'[p] \in {"transact", "preflight"}
  BY <1>3, <1>4 DEF ProcLedger, Busy
<1>5. CASE pc'[p] = "archive"
  <2>1. Takes(p)
    BY <1>5 DEF Locates
  <2>2. PICK c \in BOOLEAN :
          verdict'[p] = Report(c, 0) /\ (c => Done(registry, job[p])) /\ job'[p] = job[p]
    BY <1>5, <2>1 DEF Takes
  <2>3. ~verdict'[p].reset /\ verdict'[p].backup = 0 /\ verdict'[p].completed = c
    BY <2>2 DEF Report
  <2>4. c => Done(registry', job'[p])
    BY <1>1, <2>2 DEF Done, Known
  <2>5. Came(p)'
    BY <1>3, <2>3, <2>4 DEF Came, Idle
  <2>. QED  BY <1>5, <2>5 DEF ProcLedger, Busy
<1>. QED  BY <1>1, <1>4, <1>5

LEMMA LedgerTransacts ==
  ASSUME TypeInv, TypeInv', LockInv, RecordsInv, WorkInv, LedgerInv, NEW p \in Proc,
         before' = before, Refuses(p) \/ Settles(p) \/ Begins(p) \/ Ends(p)
  PROVE  ProcLedger(p)'
<1>0. /\ ProcLedger(p) /\ ProcWork(p) /\ before.tree \in Tree /\ tree \in Tree
      /\ job[p] \in Job /\ planned[p] \in Plan
  BY TypedNow DEF LedgerInv, WorkInv
<1>1. /\ pc[p] \in {"transact", "applying"} /\ UNCHANGED registry /\ job'[p] = job[p]
      /\ pc[p] = "transact" <=> ~Ends(p)
  BY DEF Refuses, Settles, Begins, Ends
<1>2. /\ Open(registry, job[p]) /\ Open(registry', job'[p])
      /\ before.record = Ledger(registry, backups)
  BY <1>0, <1>1 DEF ProcWork, ProcLedger, Critical, Busy, Open, Matches, Done, Known
<1>3. CASE Refuses(p) /\ UNCHANGED backups /\ verdict'[p] = Report(FALSE, 0)
  <2>1. pc[p] = "transact" /\ pc'[p] = "archive" /\ UNCHANGED tree
    BY <1>3 DEF Refuses
  <2>2. ~verdict'[p].reset /\ verdict'[p].backup = 0 /\ ~verdict'[p].completed
    BY <1>3 DEF Report
  <2>3. before'.tree = tree' /\ before'.record = Ledger(registry', backups')
    BY <1>0, <1>1, <1>2, <1>3, <2>1 DEF ProcLedger
  <2>4. Came(p)'
    BY <2>2, <2>3 DEF Came, Idle
  <2>. QED  BY <2>1, <2>4 DEF ProcLedger, Busy
<1>4. CASE /\ Refuses(p) /\ Fresh(p) /\ Touched(planned[p]) # {}
           /\ Added(Copy(p, "none")) /\ verdict'[p] = Report(FALSE, Len(backups'))
  <2>1. pc[p] = "transact" /\ pc'[p] = "archive" /\ UNCHANGED tree /\ before.tree = tree
    BY <1>0, <1>4 DEF Refuses, ProcLedger
  <2>2. ~verdict'[p].reset /\ verdict'[p].backup = Len(backups') /\ ~verdict'[p].completed
    BY <1>4 DEF Report
  <2>3. Len(backups') # 0 /\ backups'[Len(backups')].status = "none"
    BY <1>4 DEF Added, Copy
  <2>4. before'.record = Ledger(registry', backups')
    BY <1>1, <1>2, <1>4, AddedLedger
  <2>5. /\ Plannable(job[p], before.tree) /\ Touched(PlanOf(job[p], before.tree)) # {}
        /\ job[p] \in Patch
        /\ tree \in Disturbed(before.tree, PlanOf(job[p], before.tree))
    BY <1>0, <1>4, <2>1, OnlyPatchesTouch, DisturbedFiles DEF Fresh
  <2>6. Came(p)'
    BY <1>1, <1>2, <2>1, <2>2, <2>3, <2>4, <2>5 DEF Came, Ran
  <2>. QED  BY <2>1, <2>6 DEF ProcLedger, Busy
<1>5. CASE Settles(p)
  <2>1. /\ pc[p] = "transact" /\ pc'[p] = "archive" /\ UNCHANGED <<tree, backups>>
        /\ verdict'[p] = Report(TRUE, 0)
        /\ job[p] \in Patch => Plannable(job[p], tree) /\ Touched(PlanOf(job[p], tree)) = {}
    BY <1>5 DEF Settles, Fresh
  <2>2. ~verdict'[p].reset /\ verdict'[p].backup = 0
    BY <2>1 DEF Report
  <2>3. before'.tree = tree' /\ before'.record = Ledger(registry', backups')
    BY <1>0, <1>1, <1>2, <2>1 DEF ProcLedger
  <2>4. Came(p)'
    BY <1>1, <1>2, <2>1, <2>2, <2>3 DEF Came, Idle
  <2>. QED  BY <2>1, <2>4 DEF ProcLedger, Busy
<1>6. CASE Begins(p)
  <2>1. /\ pc[p] = "transact" /\ pc'[p] = "applying" /\ Fresh(p)
        /\ Added(Copy(p, "PREPARED")) /\ tree' \in Disturbed(tree, planned[p])
    BY <1>6 DEF Begins
  <2>2. before.tree = tree /\ backups'[Len(backups')].entries = planned[p]
    BY <1>0, <2>1 DEF ProcLedger, Added, Copy
  <2>3. before'.record = Ledger(registry', backups')
    BY <1>1, <1>2, <2>1, AddedLedger
  <2>4. \A i \in Id : Known(registry, i) => registry[i].backup # Len(backups')
    BY <2>1, RefersTo DEF Added
  <2>. QED
    BY <1>1, <2>1, <2>2, <2>3, <2>4 DEF ProcLedger, Critical, Busy, Fresh, Known
<1>7. CASE Ends(p)
  <2>. DEFINE n == Len(backups)
  <2>. DEFINE e == PlanOf(job[p], before.tree)
  <2>1. /\ pc[p] = "applying" /\ pc'[p] = "archive" /\ Plannable(job[p], before.tree)
        /\ backups[n].entries = e /\ tree \in Disturbed(before.tree, e)
        /\ job[p] \in Patch /\ n \in DOMAIN backups /\ backups[n].status = "PREPARED"
        /\ Touched(e) # {} /\ \A i \in Id : Known(registry, i) => registry[i].backup # n
    BY <1>0, <1>7 DEF Ends, ProcLedger, ProcWork
  <2>2. e \in Plan /\ n # 0
    BY <1>0, <2>1, PlanType, BackupAt
  <2>3. /\ Rewritten(tree, e) = Rewritten(before.tree, e)
        /\ Restored(tree, e) \in Disturbed(before.tree, e)
    BY <1>0, <2>1, <2>2, DisturbedFiles
  <2>4. PICK c \in BOOLEAN :
          /\ verdict'[p] = Report(c, n)
          /\ IF c THEN tree' = Rewritten(before.tree, e) /\ Closed(n, "COMPLETED")
             ELSE /\ tree' \in Disturbed(before.tree, e)
                  /\ \/ UNCHANGED backups
                     \/ \E s \in {"ROLLED_BACK", "FAILED", "CHANGES_KEPT", "ROLLBACK_FAILED"} :
                          Closed(n, s)
    BY <1>7, <2>1, <2>3 DEF Ends
  <2>5. verdict'[p].completed = c /\ ~verdict'[p].reset /\ verdict'[p].backup = n
    BY <2>4 DEF Report
  <2>6. before'.record = Ledger(registry', backups')
    <3>1. UNCHANGED backups \/ \E s \in BackupStatuses : Closed(n, s)
      BY <2>4 DEF BackupStatuses
    <3>. QED  BY <1>1, <1>2, <2>1, <3>1, ClosedLedger
  <2>7. IF c THEN backups'[n].entries = e /\ backups'[n].status = "COMPLETED"
        ELSE backups'[n].status # "COMPLETED"
    BY <2>1, <2>4 DEF Closed
  <2>. HIDE DEF n
  <2>8. Came(p)'
    BY <1>1, <1>2, <2>1, <2>2, <2>4, <2>5, <2>6, <2>7 DEF Came, Ran
  <2>. QED  BY <2>1, <2>8 DEF ProcLedger, Busy
<1>. QED  BY <1>3, <1>4, <1>5, <1>6, <1>7 DEF Refuses

LEMMA LedgerRecords ==
  ASSUME LedgerInv, NEW p \in Proc, before' = before, Records(p)
  PROVE  ProcLedger(p)'
<1>1. /\ Came(p) /\ pc'[p] \in Busy /\ SameVerdict(p)
      /\ UNCHANGED <<registry, tree, backups>> /\ job'[p] = job[p]
  BY DEF Records, LedgerInv, ProcLedger, Busy
<1>2. Came(p)'
  BY <1>1 DEF Came, Idle, Ran, Undid, SameVerdict, Open, Matches, Done, Known
<1>. QED  BY <1>1, <1>2 DEF ProcLedger, Busy

LEMMA LedgerRollsBack ==
  ASSUME TypeInv, TypeInv', LockInv, RecordsInv, WorkInv, LedgerInv, NEW p \in Proc,
         before' = before,
         Checks(p) \/ Restores(p) \/ Finishes(p) \/ Breaks(p) \/ Marks(p)
  PROVE  ProcLedger(p)'
<1>. DEFINE b == verdict[p].backup
<1>. DEFINE u == backups[b].entries
<1>0. ProcLedger(p) /\ ProcWork(p) /\ before.tree \in Tree /\ tree \in Tree
  BY TypedNow DEF LedgerInv, WorkInv
<1>1. /\ pc[p] \in {"preflight", "restoring", "undoing", "mark"} /\ job'[p] = job[p]
      /\ UNCHANGED registry /\ verdict'[p].backup = b
      /\ verdict'[p].completed = verdict[p].completed
      /\ ~Marks(p) => verdict'[p].reset = verdict[p].reset
  BY DEF Checks, Restores, Finishes, Breaks, Marks, SameVerdict
<1>2. Undoing(p) /\ before.record = Ledger(registry, backups)
  BY <1>0, <1>1 DEF ProcWork, ProcLedger, Critical, Busy
<1>3. /\ job[p] \in Patch /\ Done(registry, job[p]) /\ registry[job[p].id].backup = b
      /\ b \in DOMAIN backups /\ backups[b].status = "COMPLETED" /\ b # 0
      /\ ~verdict[p].completed /\ ~verdict[p].reset
      /\ Touched(u) # {} /\ u \in Plan
  BY <1>2, BackupAt, EntriesType DEF Undoing, WorkInv, ChangesKept
<1>4. Done(registry', job'[p])
  BY <1>1, <1>3 DEF Done, Known
<1>5. CASE Checks(p)
  <2>1. /\ pc[p] = "preflight" /\ UNCHANGED <<tree, backups>> /\ before.tree = tree
        /\ pc'[p] \in {"log", "restoring"}
    BY <1>0, <1>5 DEF Checks, ProcLedger
  <2>2. before'.tree = tree' /\ before'.record = Ledger(registry', backups')
    BY <1>1, <1>2, <2>1
  <2>3. Came(p)'
    BY <1>1, <1>3, <1>4, <1>5, <2>1, <2>2 DEF Came, Idle, Marks
  <2>. QED  BY <2>1, <2>2, <2>3 DEF ProcLedger, Busy
<1>6. CASE Restores(p)
  <2>1. /\ pc[p] = "restoring" /\ pc'[p] = "undoing" /\ UNCHANGED backups
        /\ before.tree = tree /\ tree' \in Disturbed(tree, u) /\ InPlace(tree, u)
    BY <1>0, <1>6 DEF Restores, ProcLedger, ProcWork, Applied
  <2>2. before'.record = Ledger(registry', backups')
    BY <1>1, <1>2, <2>1
  <2>. QED  BY <1>1, <2>1, <2>2 DEF ProcLedger, Busy
<1>7. CASE Finishes(p)
  <2>1. /\ pc[p] = "undoing" /\ pc'[p] = "mark" /\ UNCHANGED backups
        /\ InPlace(before.tree, u) /\ tree \in Disturbed(before.tree, u)
        /\ tree' = Restored(tree, u)
    BY <1>0, <1>7 DEF Finishes, ProcLedger
  <2>2. tree' = Restored(before.tree, u)
    BY <1>0, <1>3, <2>1, DisturbedFiles
  <2>3. before'.record = Ledger(registry', backups')
    BY <1>1, <1>2, <2>1
  <2>. QED  BY <1>1, <2>1, <2>2, <2>3 DEF ProcLedger, Busy
<1>8. CASE Breaks(p) \/ Marks(p)
  <2>1. /\ pc[p] \in {"undoing", "mark"} /\ pc'[p] = "log" /\ UNCHANGED tree
        /\ InPlace(before.tree, u)
    BY <1>0, <1>8 DEF Breaks, Marks, ProcLedger
  <2>2. \/ UNCHANGED backups /\ b \in DOMAIN backups
        \/ \E s \in BackupStatuses : Closed(b, s)
    BY <1>3, <1>8 DEF Breaks, Marks, BackupStatuses
  <2>3. before'.record = Ledger(registry', [backups' EXCEPT ![b].status = "COMPLETED"])
    <3>1. Ledger(registry, [backups' EXCEPT ![b].status = "COMPLETED"])
            = Ledger(registry, backups)
      BY <1>3, <2>2, SpentLedger
    <3>. QED  BY <1>1, <1>2, <3>1
  <2>4. backups'[b].entries = u
    BY <2>2 DEF Closed
  <2>5. IF verdict'[p].reset
        THEN tree' = Restored(before.tree, u) /\ backups'[b].status = "ROLLED_BACK"
        ELSE /\ tree' \in Disturbed(before.tree, u)
             /\ \/ backups'[b].status = "ROLLBACK_FAILED"
                \/ Faults /\ backups'[b].status = "COMPLETED"
    <3>1. CASE Breaks(p)
      <4>1. tree \in Disturbed(before.tree, u) /\ ~verdict'[p].reset
        BY <1>0, <1>1, <1>3, <3>1 DEF Breaks, Marks, ProcLedger
      <4>. QED  BY <1>3, <2>1, <3>1, <4>1 DEF Breaks, Closed
    <3>2. CASE Marks(p)
      <4>1. tree = Restored(before.tree, u) /\ verdict'[p].reset
        BY <1>0, <3>2 DEF Marks, ProcLedger
      <4>. QED  BY <2>1, <3>2, <4>1 DEF Marks, Closed
    <3>. QED  BY <1>8, <3>1, <3>2
  <2>. HIDE DEF b, u
  <2>6. Undid(before'.tree, before'.record, registry', tree', backups', job'[p], verdict'[p])
    BY <1>1, <1>3, <1>4, <2>1, <2>3, <2>4, <2>5 DEF Undid, b
  <2>7. Came(p)'
    BY <2>6 DEF Came
  <2>. QED  BY <2>1, <2>7 DEF ProcLedger, Busy
<1>. QED  BY <1>5, <1>6, <1>7, <1>8

LEMMA NextLedger ==
  ASSUME TypeInv, TypeInv', LockInv, LockInv', RecordsInv, WorkInv, LedgerInv,
         [AtomicNext]_<<vars, before>>
  PROVE  LedgerInv'
<1>1. CASE UNCHANGED <<vars, before>>
  BY <1>1, SMTT(30) DEF vars, shared, local, LedgerInv, Pristine, ProcLedger, Came, Idle, Ran,
                        Undid, Open, Matches, Done, Known
<1>2. CASE AtomicNext /\ UNCHANGED vars
  <2>1. holder = NoProc => Pristine
    BY LifecycleAssumption DEF LockInv, Exclusion, LedgerInv
  <2>2. before' = before \/ (Pristine /\ before' = Seen')
    BY <1>2, <2>1 DEF AtomicNext, vars
  <2>3. UNCHANGED <<registry, tree, backups, pc, job, verdict>>
    BY <1>2 DEF vars, shared, local
  <2>4. before'.tree = before.tree /\ before'.record = before.record
    BY <2>2, <2>3 DEF Seen, Pristine
  <2>. QED
    BY <2>3, <2>4, SMTT(30) DEF LedgerInv, Pristine, ProcLedger, Came, Idle, Ran, Undid, Open,
                                Matches, Done, Known
<1>3. ASSUME Follows, NEW p \in Proc, StepOf(p) PROVE LedgerInv'
  <2>1. Comes(p) /\ Others(p) /\ ProcLedger(p)
    BY <1>3, StepComes, StepOthers DEF LedgerInv
  <2>2. \A q \in Proc \ {p} : ProcLedger(q)'
    BY <1>3, <2>1, LedgerOthers DEF LedgerInv
  <2>3. before'.tree \in Tree
    BY <1>3 DEF Follows, Seen, LedgerInv, TypeInv, TypeOK
  <2>4. ProcLedger(p)'
    <3>1. CASE pc'[p] \notin Critical
      BY <3>1 DEF ProcLedger, Critical, Busy
    <3>2. CASE pc'[p] \in Critical
      <4>1. before' = before
        BY <1>3, <3>2, Stands
      <4>2. ~Aside(p) /\ ~Registers(p) /\ ~Leaves(p)
        BY <3>2, LeaveOthers DEF Aside, Registers, Leaves, Critical
      <4>. QED
        BY <2>1, <4>1, <4>2, LedgerTakes, LedgerTransacts, LedgerRecords, LedgerRollsBack
        DEF Comes
    <3>. QED  BY <3>1, <3>2
  <2>5. ASSUME \A q \in Proc : pc'[q] \notin Critical PROVE Pristine'
    <3>1. CASE before' = Seen'
      BY <3>1 DEF Seen, Pristine
    <3>2. CASE before' # Seen'
      <4>1. holder' # NoProc /\ before' = before
        BY <1>3, <3>2 DEF Follows
      <4>2. pc[p] \notin Critical
        BY <2>1, <2>5, <4>1, Exits
      <4>3. Pristine
        BY <2>1, <2>5, <4>2 DEF Others, LedgerInv
      <4>. QED  BY <2>1, <4>1, <4>2, <4>3, OutsideReads DEF Pristine
    <3>. QED  BY <3>1, <3>2
  <2>. QED  BY <2>2, <2>3, <2>4, <2>5 DEF LedgerInv
<1>4. CASE AtomicNext /\ ~UNCHANGED vars
  <2>1. Follows /\ \E p \in Proc : StepOf(p)
    BY <1>4, NextSteps DEF AtomicNext, Follows
  <2>. QED  BY <1>3, <2>1
<1>. QED  BY <1>1, <1>2, <1>4

LEMMA InitLedger == TypeInv /\ AtomicInit => LedgerInv
<1>. SUFFICES ASSUME TypeInv, AtomicInit PROVE LedgerInv
  OBVIOUS
<1>1. before = Seen /\ \A p \in Proc : pc[p] = "idle"
  BY DEF AtomicInit, Init
<1>2. Pristine /\ before.tree \in Tree
  BY <1>1 DEF Seen, Pristine, TypeInv, TypeOK
<1>. QED  BY <1>1, <1>2 DEF LedgerInv, ProcLedger, Critical, Busy

-----------------------------------------------------------------------------
(* The refinement *)

(* The backup of the job in hand is not that of another ID. *)
LEMMA OneIdHere ==
  ASSUME TypeInv, RecordsInv, NEW p \in Proc, verdict[p].backup # 0
  PROVE  /\ verdict[p].backup \in DOMAIN backups
         /\ OneId(registry, backups, job[p], verdict[p].backup)
<1>1. backups[verdict[p].backup].job = job[p] /\ job[p] \in Job
  BY TypedNow DEF RecordsInv, ProcRecords
<1>2. verdict[p].backup \in DOMAIN backups
  BY TypedNow
<1>3. ASSUME NEW i \in Id \ {job[p].id}, Known(registry, i), registry[i].backup # 0
      PROVE  registry[i].backup \in DOMAIN backups \ {verdict[p].backup}
  <2>1. backups[registry[i].backup].job = [id |-> i, hash |-> registry[i].hash]
    BY <1>3 DEF RecordsInv, RecordedIsDocumented
  <2>2. backups[registry[i].backup].job.id = i
    BY <2>1
  <2>. QED  BY <1>1, <1>3, <2>2, RefersTo
<1>. QED  BY <1>2, <1>3 DEF OneId

(* Wherever a process inside is, its job has come to one of these ends, or     *)
(* will have if the process dies here.                                         *)
LEMMA InsideCame ==
  ASSUME TypeInv, LockInv, RecordsInv, WorkInv, LedgerInv, NEW p \in Proc, pc[p] \in Critical
  PROVE  \E v : \/ Idle(before.tree, before.record, registry, tree, backups, job[p], v)
                \/ Ran(before.tree, before.record, registry, tree, backups, job[p], v)
                \/ /\ Faults =>
                        Undid(before.tree, before.record, registry, tree, backups, job[p], v)
                   /\ v.backup \in DOMAIN backups
                   /\ OneId(registry, backups, job[p], v.backup)
<1>0. ProcLedger(p) /\ ProcWork(p) /\ before.tree \in Tree /\ job[p] \in Job
  BY TypedNow DEF LedgerInv, WorkInv
<1>1. CASE pc[p] \in {"transact", "preflight", "restoring"}
  <2>1. before.tree = tree /\ before.record = Ledger(registry, backups)
    BY <1>0, <1>1 DEF ProcLedger, Critical, Busy
  <2>2. PICK v : v = Report(FALSE, 0)
    OBVIOUS
  <2>3. ~v.reset /\ ~v.completed /\ v.backup = 0
    BY <2>2 DEF Report
  <2>4. Idle(before.tree, before.record, registry, tree, backups, job[p], v)
    BY <2>1, <2>3 DEF Idle
  <2>. QED  BY <2>4
<1>2. CASE pc[p] = "applying"
  <2>. DEFINE n == Len(backups)
  <2>. DEFINE e == PlanOf(job[p], before.tree)
  <2>1. /\ before.record = Ledger(registry, backups) /\ Plannable(job[p], before.tree)
        /\ backups[n].entries = e /\ tree \in Disturbed(before.tree, e) /\ n \in DOMAIN backups
        /\ job[p] \in Patch /\ Open(registry, job[p]) /\ backups[n].status = "PREPARED"
        /\ Touched(e) # {}
    BY <1>0, <1>2 DEF ProcLedger, ProcWork, Critical, Busy
  <2>2. PICK v : v = Report(FALSE, n)
    OBVIOUS
  <2>3. ~v.reset /\ ~v.completed /\ v.backup = n /\ n # 0
    BY <2>1, <2>2, BackupAt DEF Report
  <2>4. Ran(before.tree, before.record, registry, tree, backups, job[p], v)
    BY <2>1, <2>3 DEF Ran
  <2>. QED  BY <2>4
<1>3. CASE pc[p] \in {"undoing", "mark"}
  <2>. DEFINE b == verdict[p].backup
  <2>. DEFINE u == backups[b].entries
  <2>1. /\ job[p] \in Patch /\ Done(registry, job[p]) /\ registry[job[p].id].backup = b
        /\ b \in DOMAIN backups /\ backups[b].status = "COMPLETED" /\ b # 0
        /\ ~verdict[p].completed /\ ~verdict[p].reset
        /\ Touched(u) # {} /\ u \in Plan
    BY <1>0, <1>3, BackupAt, EntriesType DEF ProcWork, Undoing, WorkInv, ChangesKept
  <2>2. InPlace(before.tree, u) /\ tree \in Disturbed(before.tree, u)
    BY <1>0, <1>3, <2>1, DisturbedFiles DEF ProcLedger
  <2>3. before.record = Ledger(registry, [backups EXCEPT ![b].status = "COMPLETED"])
    BY <1>0, <1>3, <2>1, AlreadyClosed DEF ProcLedger, Critical, Busy, TypeInv, TypeOK
  <2>4. Faults => Undid(before.tree, before.record, registry, tree, backups, job[p], verdict[p])
    BY <2>1, <2>2, <2>3 DEF Undid
  <2>. QED  BY <2>1, <2>4, OneIdHere
<1>4. CASE pc[p] \in Busy
  <2>1. Came(p)
    BY <1>0, <1>4 DEF ProcLedger
  <2>. QED  BY <2>1, OneIdHere DEF Came, Undid
<1>. QED  BY <1>1, <1>2, <1>3, <1>4 DEF Critical, Busy

LEMMA NextContract ==
  ASSUME TypeInv, TypeInv', LockInv, LockInv', RecordsInv, WorkInv, LedgerInv,
         [AtomicNext]_<<vars, before>>
  PROVE  [Contract!Next]_<<before.tree, before.record>>
<1>. DEFINE Step == [Contract!Next]_<<before.tree, before.record>>
<1>1. CASE UNCHANGED <<before.tree, before.record>>
  BY <1>1
<1>2. CASE AtomicNext /\ UNCHANGED vars
  <2>1. holder = NoProc => Pristine
    BY LifecycleAssumption DEF LockInv, Exclusion, LedgerInv
  <2>2. before' = before \/ (Pristine /\ before' = Seen')
    BY <1>2, <2>1 DEF AtomicNext, vars
  <2>3. UNCHANGED <<registry, tree, backups>>
    BY <1>2 DEF vars, shared
  <2>4. UNCHANGED <<before.tree, before.record>>
    BY <2>2, <2>3 DEF Seen, Pristine
  <2>. QED  BY <1>1, <2>4
<1>3. ASSUME Follows, NEW p \in Proc, StepOf(p) PROVE Step
  <2>1. Comes(p) /\ Others(p)
    BY <1>3, StepComes, StepOthers
  <2>2. CASE pc'[p] \in Critical
    <3>1. before' = before
      BY <1>3, <2>2, Stands
    <3>. QED  BY <1>1, <3>1
  <2>3. CASE pc[p] \notin Critical /\ pc'[p] \notin Critical
    <3>1. UNCHANGED <<registry, tree, backups>>
      BY <2>1, <2>3, OutsideReads
    <3>2. CASE \A q \in Proc : pc[q] \notin Critical
      <4>1. before' = before \/ (Pristine /\ before' = Seen')
        BY <1>3, <3>2 DEF Follows, LedgerInv
      <4>2. UNCHANGED <<before.tree, before.record>>
        BY <3>1, <4>1 DEF Seen, Pristine
      <4>. QED  BY <1>1, <4>2
    <3>3. ASSUME NEW q \in Proc, pc[q] \in Critical PROVE Step
      <4>1. pc'[q] \in Critical
        BY <2>1, <2>3, <3>3 DEF Others
      <4>2. before' = before
        BY <1>3, <4>1, Stands
      <4>. QED  BY <1>1, <4>2
    <3>. QED  BY <3>2, <3>3
  <2>4. CASE pc[p] \in Critical /\ pc'[p] \notin Critical
    <3>1. (Registers(p) \/ Leaves(p)) /\ before' = Seen'
      BY <1>3, <2>1, <2>4, Exits DEF Follows
    <3>2. /\ before'.tree = tree' /\ before'.record = Ledger(registry', backups')
          /\ UNCHANGED <<tree, backups>>
      BY <3>1 DEF Seen, Registers, Leaves
    <3>3. /\ registry \in Registry /\ backups \in Seq(Backup) /\ job[p] \in Job
          /\ verdict[p] \in Verdict /\ job[p] \in Contract!Job
      BY TypedNow DEF TypeInv, TypeOK, Contract!Job, Job
    <3>4. CASE Registers(p)
      <4>1. /\ before'.tree = tree
            /\ before'.record = Ledger(After(registry, job[p], verdict[p]), backups)
        BY <3>2, <3>4 DEF Registers
      <4>2. Came(p)
        BY <3>4 DEF Registers, LedgerInv, ProcLedger, Busy
      <4>3. CASE Idle(before.tree, before.record, registry, tree, backups, job[p], verdict[p])
        <5>1. tree = before.tree
          BY <4>3 DEF Idle
        <5>2. Contract!Take(job[p])
          BY <3>3, <4>1, <4>3, <5>1, IdleStep
        <5>. QED  BY <3>3, <5>2, TakenStep
      <4>4. CASE Ran(before.tree, before.record, registry, tree, backups, job[p], verdict[p])
        <5>1. Contract!Take(job[p])
          BY <3>3, <4>1, <4>4, RanStep
        <5>. QED  BY <3>3, <5>1, TakenStep
      <4>5. CASE Undid(before.tree, before.record, registry, tree, backups, job[p], verdict[p])
        <5>1. /\ verdict[p].backup \in DOMAIN backups
              /\ OneId(registry, backups, job[p], verdict[p].backup)
          BY <4>5, OneIdHere DEF Undid
        <5>2. Contract!Take(job[p])
          BY <3>3, <4>1, <4>5, <5>1, UndidStep
        <5>. QED  BY <3>3, <5>2, TakenStep
      <4>. QED  BY <4>2, <4>3, <4>4, <4>5 DEF Came
    <3>5. CASE Leaves(p)
      <4>1. Faults /\ before'.tree = tree /\ before'.record = Ledger(registry, backups)
        BY <3>2, <3>5 DEF Leaves
      <4>2. UNCHANGED <<before.tree, before.record>> \/ Contract!Take(job[p])
        BY <2>4, <3>3, <4>1, InsideCame, LostStep
      <4>. QED  BY <1>1, <3>3, <4>2, TakenStep
    <3>. QED  BY <3>1, <3>4, <3>5
  <2>. QED  BY <2>2, <2>3, <2>4
<1>4. CASE AtomicNext /\ ~UNCHANGED vars
  <2>1. Follows /\ \E p \in Proc : StepOf(p)
    BY <1>4, NextSteps DEF AtomicNext, Follows
  <2>. QED  BY <1>3, <2>1
<1>. QED  BY <1>1, <1>2, <1>4

LEMMA InitContract == AtomicInit => Contract!Init
<1>. SUFFICES ASSUME AtomicInit PROVE Contract!Init
  OBVIOUS
<1>1. before.tree = Original /\ before.record = Ledger(NoSnapshot, backups)
  BY DEF AtomicInit, Init, Seen
<1>2. Ledger(NoSnapshot, backups) = [i \in Id |-> NoRecord]
  BY Blank DEF Ledger
<1>. QED  BY <1>1, <1>2 DEF Contract!Init, Contract!Unknown, NoRecord

LEMMA AtomicSteps == [AtomicNext]_<<vars, before>> => [Next]_vars
  BY DEF AtomicNext

(* Seen when the lock is free, a workspace with any number of processes does   *)
(* one job after the other: each is one step of JobLedger, for the files, the  *)
(* registry and the backups together, whatever order jobs are run and rolled   *)
(* back in.  The death of a process or a failed record loses the record of     *)
(* that one step; without faults nothing is lost.                              *)
THEOREM JobsAreAtomic == AtomicSpec => KeepsLedger
<1>1. AtomicInit => Init
  BY DEF AtomicInit
<1>2. AtomicSpec => Spec
  BY <1>1, AtomicSteps, PTL DEF AtomicSpec, Spec
<1>3. TypeInv /\ TypeInv' /\ LockInv /\ LockInv' /\ RecordsInv /\ WorkInv /\ LedgerInv
        /\ [AtomicNext]_<<vars, before>> => LedgerInv'
  BY NextLedger
<1>4. TypeInv /\ TypeInv' /\ LockInv /\ LockInv' /\ RecordsInv /\ WorkInv /\ LedgerInv
        /\ [AtomicNext]_<<vars, before>> => [Contract!Next]_<<before.tree, before.record>>
  BY NextContract
<1>. QED
  BY <1>2, <1>3, <1>4, InitLedger, InitContract, WorkHolds, PTL
     DEF AtomicSpec, KeepsLedger, Contract!Spec
=============================================================================
