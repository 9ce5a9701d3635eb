------------------------- MODULE JobLifecycleProofs -------------------------
(***************************************************************************)
(* Proofs about JobLifecycle, for any number of processes, IDs and jobs,   *)
(* and commands: who may write the registry, and what its updates keep.    *)
(***************************************************************************)
EXTENDS JobLifecycle, SequenceTheorems, TLAPS

(* References to backups are to backups that exist. *)
ReferencesOK ==
  /\ \A i \in Id : Known(registry, i) => registry[i].backup <= Len(backups)
  /\ \A p \in Proc :
       /\ verdict[p].backup <= Len(backups)
       /\ pc[p] \in {"preflight", "restoring", "undoing", "mark"} => verdict[p].backup # 0
       /\ pc[p] = "applying" => Len(backups) # 0

TypeInv == TypeOK /\ ReferencesOK

(* Whoever is between taking and leaving the lock holds it, and so is alone  *)
(* there; and the registry it loaded is still the one on the disk.           *)
Exclusion == \A p \in Proc : pc[p] \in Critical => holder = p
FreshSnapshot == \A p \in Proc : pc[p] \in Critical => snapshot[p] = registry
LockInv == Exclusion /\ FreshSnapshot

-----------------------------------------------------------------------------
(* Lemmas about records *)

LEMMA AnyJobType == AnyJob \in Job
<1>1. \E j \in Job : TRUE
  <2>1. PICK i \in Id, h \in Hash : TRUE
    BY FilesAssumption
  <2>2. [id |-> i, hash |-> h] \in Job
    BY DEF Job
  <2>. QED  BY <2>2
<1>. QED  BY <1>1 DEF AnyJob

LEMMA Blank ==
  /\ AnyJob \in Job /\ NoSnapshot \in Registry
  /\ Report(FALSE, 0) \in Verdict /\ Report(FALSE, 0).backup = 0
  /\ \A i \in Id : ~Known(NoSnapshot, i)
<1>1. NoSnapshot \in Registry
  BY DEF NoSnapshot, Registry
<1>2. Report(FALSE, 0) \in Verdict /\ Report(FALSE, 0).backup = 0
  BY DEF Report, Verdict
<1>3. \A i \in Id : ~Known(NoSnapshot, i)
  BY DEF NoSnapshot, Known
<1>. QED  BY <1>1, <1>2, <1>3, AnyJobType

(* Plans, and what they make of files. *)
LEMMA PlanType ==
  /\ NoChange \in Plan /\ Touched(NoChange) = {}
  /\ \A j \in Job : \A t \in Tree : Plannable(j, t) => PlanOf(j, t) \in Plan
<1>1. NoChange \in Plan /\ Touched(NoChange) = {}
  BY FilesAssumption DEF NoChange, Plan, Entry, Touched
<1>2. ASSUME NEW j \in Job, NEW t \in Tree, Plannable(j, t)
      PROVE  PlanOf(j, t) \in Plan
  <2>1. ASSUME NEW q \in Path, j \in Patch
        PROVE  [before |-> t[q], after |-> Goal[j][t][q]] \in Entry
    <3>1. Goal[j][t] \in Tree
      BY <1>2, <2>1, FilesAssumption DEF Plannable
    <3>. QED  BY <3>1 DEF Tree, Entry
  <2>2. \A q \in Path : NoChange[q] \in Entry
    BY <1>1 DEF Plan
  <2>. QED  BY <2>1, <2>2 DEF PlanOf, Plan
<1>. QED  BY <1>1, <1>2

LEMMA FilesType ==
  ASSUME NEW t \in Tree, NEW e \in Plan
  PROVE  /\ Touched(e) \subseteq Path
         /\ Rewritten(t, e) \in Tree /\ Restored(t, e) \in Tree
         /\ \A u \in Disturbed(t, e) :
              u \in Tree /\ \A q \in Path \ Touched(e) : u[q] = t[q]
         /\ \A q \in Path : Rewritten(t, e)[q] = IF q \in Touched(e) THEN e[q].after ELSE t[q]
         /\ \A q \in Path : Restored(t, e)[q] = IF q \in Touched(e) THEN e[q].before ELSE t[q]
<1>1. \A q \in Path : e[q].before \in Content /\ e[q].after \in Content /\ t[q] \in Content
  BY DEF Plan, Entry, Tree
<1>2. Rewritten(t, e) \in Tree /\ Restored(t, e) \in Tree /\ Touched(e) \subseteq Path
  BY <1>1 DEF Rewritten, Restored, Tree, Touched
<1>3. ASSUME NEW u \in Disturbed(t, e)
      PROVE  u \in Tree /\ \A q \in Path \ Touched(e) : u[q] = t[q]
  <2>1. PICK f \in [Touched(e) -> Content] :
          u = [q \in Path |-> IF q \in Touched(e) THEN f[q] ELSE t[q]]
    BY <1>3 DEF Disturbed
  <2>2. \A q \in Touched(e) : f[q] \in Content
    OBVIOUS
  <2>. QED  BY <1>1, <2>1, <2>2 DEF Tree
<1>. QED  BY <1>2, <1>3 DEF Rewritten, Restored

LEMMA ReportType ==
  ASSUME NEW c \in BOOLEAN, NEW b \in Nat
  PROVE  Report(c, b) \in Verdict /\ Report(c, b).backup = b
  BY DEF Report, Verdict

(* What is known has a record with a hash, and what is not has run 0 times. *)
LEMMA KnownType ==
  ASSUME NEW reg \in Registry, NEW i \in Id
  PROVE  /\ Known(reg, i) => reg[i] \in Record
         /\ ~Known(reg, i) => reg[i] = NoRecord
         /\ reg[i].runs \in Nat
         /\ Known(reg, i) <=> reg[i].runs # 0
<1>1. reg[i] \in Record \/ reg[i] = NoRecord
  BY DEF Registry
<1>2. reg[i] \in Record => reg[i].runs \in Nat \ {0}
  BY DEF Record
<1>3. NoRecord.runs = 0
  BY DEF NoRecord
<1>. QED  BY <1>1, <1>2, <1>3 DEF Known

(* An update is a record, counts one run more, and keeps a known hash. *)
LEMMA UpdatedType ==
  ASSUME NEW reg \in Registry, NEW j \in Job, NEW v \in Verdict
  PROVE  /\ Updated(reg, j, v) \in Record
         /\ Updated(reg, j, v).runs = reg[j.id].runs + 1
         /\ Known(reg, j.id) => Updated(reg, j, v).hash = reg[j.id].hash
         /\ \/ Updated(reg, j, v).backup = v.backup
            \/ Known(reg, j.id) /\ Updated(reg, j, v).backup = reg[j.id].backup
<1>1. /\ j.id \in Id /\ j.hash \in Hash
      /\ v.completed \in BOOLEAN /\ v.backup \in Nat /\ v.reset \in BOOLEAN
  BY DEF Job, Verdict
<1>2. reg[j.id].runs \in Nat /\ (Known(reg, j.id) => reg[j.id] \in Record)
  BY <1>1, KnownType
<1>3. Known(reg, j.id) => /\ reg[j.id].hash \in Hash /\ reg[j.id].completed \in BOOLEAN
                          /\ reg[j.id].backup \in Nat
  BY <1>2 DEF Record
<1>. DEFINE u == Updated(reg, j, v)
<1>4. /\ u.runs = reg[j.id].runs + 1
      /\ u.hash = IF Known(reg, j.id) THEN reg[j.id].hash ELSE j.hash
      /\ u.archive = j.hash
      /\ u.backup = IF v.backup # 0 \/ ~Known(reg, j.id) THEN v.backup
                    ELSE reg[j.id].backup
  BY DEF Updated
<1>5. u.completed \in BOOLEAN
  BY <1>1, <1>3, Zenon DEF Updated
<1>6. u = [hash |-> u.hash, completed |-> u.completed, backup |-> u.backup,
           archive |-> u.archive, runs |-> u.runs]
  BY DEF Updated
<1>. HIDE DEF u
<1>7. /\ u.hash \in Hash /\ u.backup \in Nat /\ u.archive \in Hash
      /\ u.runs \in Nat \ {0}
  BY <1>1, <1>2, <1>3, <1>4
<1>8. u \in Record
  BY <1>5, <1>6, <1>7 DEF Record
<1>9. Known(reg, j.id) => u.hash = reg[j.id].hash
  BY <1>4
<1>10. \/ u.backup = v.backup
       \/ Known(reg, j.id) /\ u.backup = reg[j.id].backup
  BY <1>4
<1>. QED  BY <1>4, <1>8, <1>9, <1>10 DEF u

-----------------------------------------------------------------------------
(* Type correctness *)

(* The end of a command. *)
LEMMA LeaveType ==
  ASSUME TypeInv, NEW p \in Proc, Leave(p)
  PROVE  /\ holder' \in Proc \cup {NoProc}
         /\ pc' \in [Proc -> Unlocked \cup Critical] /\ job' \in [Proc -> Job]
         /\ planned' \in [Proc -> Plan] /\ snapshot' \in [Proc -> Registry]
         /\ verdict' \in [Proc -> Verdict]
         /\ pc'[p] = "idle" /\ verdict'[p].backup = 0
         /\ \A q \in Proc \ {p} : pc'[q] = pc[q] /\ verdict'[q] = verdict[q]
<1>1. NoChange \in Plan
  BY PlanType
<1>. QED
  BY <1>1, Blank DEF Leave, Goto, TypeInv, TypeOK, Unlocked

LEMMA InitTypeInv == Init => TypeInv
<1>. SUFFICES ASSUME Init PROVE TypeInv
  OBVIOUS
<1>1. /\ tree \in Tree /\ backups \in Seq(Backup) /\ Len(backups) = 0
      /\ planned \in [Proc -> Plan]
  BY PlanType, LifecycleAssumption DEF Init
<1>2. TypeOK
  BY <1>1, Blank DEF Init, TypeOK, Unlocked
<1>3. ReferencesOK
  <2>1. \A i \in Id : ~Known(registry, i)
    BY Blank DEF Init
  <2>2. \A p \in Proc : verdict[p].backup = 0 /\ pc[p] = "idle"
    BY Blank DEF Init
  <2>. QED  BY <1>1, <2>1, <2>2 DEF ReferencesOK
<1>. QED  BY <1>2, <1>3 DEF TypeInv

(* A step of one process that leaves the registry alone, drops no backup, and *)
(* refers to one that exists, keeps the references.                          *)
LEMMA ReferencesGrow ==
  ASSUME TypeInv, NEW p \in Proc, UNCHANGED registry,
         Len(backups) \in Nat, Len(backups') \in Nat, Len(backups) <= Len(backups'),
         verdict' \in [Proc -> Verdict],
         \A q \in Proc \ {p} : pc'[q] = pc[q] /\ verdict'[q] = verdict[q],
         verdict'[p].backup <= Len(backups'),
         pc'[p] \in {"preflight", "restoring", "undoing", "mark"} => verdict'[p].backup # 0,
         pc'[p] = "applying" => Len(backups') # 0
  PROVE  ReferencesOK'
<1>1. ASSUME NEW i \in Id, Known(registry', i) PROVE registry'[i].backup <= Len(backups')
  <2>1. registry[i] \in Record /\ registry[i].backup <= Len(backups)
    BY <1>1, KnownType DEF TypeInv, TypeOK, ReferencesOK
  <2>2. registry[i].backup \in Nat
    BY <2>1 DEF Record
  <2>. QED  BY <2>1, <2>2
<1>2. ASSUME NEW q \in Proc \ {p}
      PROVE  /\ verdict'[q].backup <= Len(backups')
             /\ pc'[q] \in {"preflight", "restoring", "undoing", "mark"} => verdict'[q].backup # 0
             /\ pc'[q] = "applying" => Len(backups') # 0
  <2>1. verdict[q].backup \in Nat
    BY DEF TypeInv, TypeOK, Verdict
  <2>. QED  BY <1>2, <2>1 DEF TypeInv, ReferencesOK
<1>. QED  BY <1>1, <1>2 DEF ReferencesOK

LEMMA ReferencesKept ==
  ASSUME TypeInv, NEW p \in Proc, UNCHANGED <<registry, backups>>,
         \A q \in Proc \ {p} : pc'[q] = pc[q] /\ verdict'[q] = verdict[q],
         verdict'[p].backup <= Len(backups),
         pc'[p] \in {"preflight", "restoring", "undoing", "mark"} => verdict'[p].backup # 0,
         pc'[p] = "applying" => Len(backups) # 0
  PROVE  ReferencesOK'
  BY DEF TypeInv, ReferencesOK, Known

(* A command that ends without having changed anything shared. *)
LEMMA LeaveTypeInv ==
  ASSUME TypeInv, NEW p \in Proc, Leave(p), UNCHANGED <<shared, history>>
  PROVE  TypeInv'
<1>1. TypeOK'
  BY LeaveType DEF TypeInv, TypeOK, shared, history
<1>2. Len(backups) \in Nat
  BY DEF TypeInv, TypeOK
<1>3. ReferencesOK'
  BY <1>2, LeaveType, ReferencesKept DEF shared
<1>. QED  BY <1>1, <1>3 DEF TypeInv

LEMMA GotoType ==
  ASSUME TypeInv, NEW p \in Proc, NEW l \in Unlocked \cup Critical, Goto(p, l)
  PROVE  /\ pc' \in [Proc -> Unlocked \cup Critical] /\ pc'[p] = l
         /\ \A q \in Proc \ {p} : pc'[q] = pc[q]
<1>1. pc \in [Proc -> Unlocked \cup Critical] /\ pc' = [pc EXCEPT ![p] = l]
  BY DEF TypeInv, TypeOK, Goto
<1>. QED  BY <1>1

(* A verdict for one process. *)
LEMMA VerdictType ==
  ASSUME TypeInv, NEW p \in Proc, NEW v \in Verdict,
         verdict' = [verdict EXCEPT ![p] = v]
  PROVE  /\ verdict' \in [Proc -> Verdict] /\ verdict'[p] = v
         /\ \A q \in Proc \ {p} : verdict'[q] = verdict[q]
<1>1. verdict \in [Proc -> Verdict]
  BY DEF TypeInv, TypeOK
<1>. QED  BY <1>1

LEMMA CommandTypeInv ==
  ASSUME TypeInv, NEW p \in Proc,
         \/ \E j \in Job : Run(p, j)
         \/ \E i \in Id : RollBack(p, i)
         \/ Answer(p)
  PROVE  TypeInv'
<1>1. job' \in [Proc -> Job]
  <2>1. CASE \E j \in Job : Run(p, j)
    BY <2>1 DEF Run, TypeInv, TypeOK
  <2>2. CASE \E i \in Id : RollBack(p, i)
    <3>1. PICK i \in Id : job' = [job EXCEPT ![p] = [id |-> i, hash |-> job[p].hash]]
      BY <2>2 DEF RollBack
    <3>2. job[p] \in Job
      BY DEF TypeInv, TypeOK
    <3>3. job[p].hash \in Hash
      BY <3>2 DEF Job
    <3>4. [id |-> i, hash |-> job[p].hash] \in Job
      BY <3>3 DEF Job
    <3>. QED  BY <3>1, <3>4 DEF TypeInv, TypeOK
  <2>3. CASE Answer(p)
    BY <2>3 DEF Answer, local, TypeInv, TypeOK
  <2>. QED  BY <2>1, <2>2, <2>3
<1>2. /\ UNCHANGED <<holder, shared, planned, snapshot, verdict, recorded>>
      /\ commands' \in Nat
      /\ pc' \in [Proc -> Unlocked \cup Critical]
      /\ \A q \in Proc \ {p} : pc'[q] = pc[q]
      /\ pc'[p] \in Unlocked
  <2>1. CASE (\E j \in Job : Run(p, j)) \/ (\E i \in Id : RollBack(p, i))
    <3>1. Start(p, "resolve") \/ Start(p, "locate")
      BY <2>1 DEF Run, RollBack
    <3>2. /\ UNCHANGED <<holder, shared, planned, snapshot, verdict, recorded>>
          /\ commands' = commands + 1
          /\ Goto(p, "resolve") \/ Goto(p, "locate")
      BY <3>1 DEF Start
    <3>3. "resolve" \in Unlocked /\ "locate" \in Unlocked
      BY DEF Unlocked
    <3>4. commands \in Nat
      BY DEF TypeInv, TypeOK
    <3>5. /\ pc' \in [Proc -> Unlocked \cup Critical]
          /\ \A q \in Proc \ {p} : pc'[q] = pc[q]
          /\ pc'[p] \in Unlocked
      BY <3>2, <3>3, GotoType
    <3>. QED  BY <3>2, <3>4, <3>5
  <2>2. CASE Answer(p)
    BY <2>2 DEF Answer, Goto, Unlocked, local, history, TypeInv, TypeOK
  <2>. QED  BY <2>1, <2>2
<1>3. TypeOK'
  BY <1>1, <1>2 DEF TypeInv, TypeOK, shared
<1>4. ReferencesOK'
  BY <1>2, ReferencesKept DEF TypeInv, ReferencesOK, shared, Unlocked
<1>. QED  BY <1>3, <1>4 DEF TypeInv

(* Taking the lock with a decision to record. *)
LEMMA RecordDecisionType ==
  ASSUME TypeInv, NEW p \in Proc, RecordDecision(p)
  PROVE  /\ holder' \in Proc \cup {NoProc}
         /\ pc' \in [Proc -> Unlocked \cup Critical]
         /\ snapshot' \in [Proc -> Registry] /\ verdict' \in [Proc -> Verdict]
         /\ pc'[p] = "archive" /\ verdict'[p].backup = 0
         /\ \A q \in Proc \ {p} : pc'[q] = pc[q] /\ verdict'[q] = verdict[q]
<1>. DEFINE v == Report(Decision(registry, job[p]) = "ALREADY_APPLIED", 0)
<1>1. v \in Verdict /\ v.backup = 0
  BY ReportType
<1>. HIDE DEF v
<1>2. verdict' = [verdict EXCEPT ![p] = v]
  BY DEF RecordDecision, v
<1>. QED
  BY <1>1, <1>2 DEF RecordDecision, Acquire, Goto, Critical, TypeInv, TypeOK

LEMMA DecisionTypeInv ==
  ASSUME TypeInv, NEW p \in Proc,
         GiveUp(p) \/ Resolve(p) \/ MakePlan(p) \/ Decline(p) \/ Execute(p)
  PROVE  TypeInv'
<1>. USE DEF shared, local, history
<1>1. CASE GiveUp(p)
  <2>1. UNCHANGED <<shared, history>> /\ Leave(p)
    BY <1>1 DEF GiveUp
  <2>. QED  BY <2>1, LeaveTypeInv
<1>2. CASE (Resolve(p) \/ Execute(p)) /\ RecordDecision(p)
  <2>1. UNCHANGED <<shared, job, planned, history>>
    BY <1>2 DEF Resolve, Execute
  <2>2. TypeOK'
    BY <1>2, <2>1, RecordDecisionType DEF TypeInv, TypeOK
  <2>3. Len(backups) \in Nat
    BY DEF TypeInv, TypeOK
  <2>4. ReferencesOK'
    BY <1>2, <2>1, <2>3, RecordDecisionType, ReferencesKept
  <2>. QED  BY <2>2, <2>4 DEF TypeInv
<1>3. CASE (Resolve(p) \/ Execute(p)) /\ ~RecordDecision(p)
  <2>1. /\ UNCHANGED <<shared, job, planned, verdict, history>>
        /\ holder' \in Proc \cup {NoProc} /\ snapshot' \in [Proc -> Registry]
        /\ pc' \in [Proc -> Unlocked \cup Critical]
        /\ pc'[p] \in {"plan", "transact"}
        /\ \A q \in Proc \ {p} : pc'[q] = pc[q]
    BY <1>3 DEF Resolve, Execute, Acquire, Goto, Unlocked, Critical, TypeInv, TypeOK
  <2>2. TypeOK'
    BY <2>1 DEF TypeInv, TypeOK
  <2>3. ReferencesOK'
    BY <2>1, ReferencesKept DEF TypeInv, ReferencesOK
  <2>. QED  BY <2>2, <2>3 DEF TypeInv
<1>4. CASE MakePlan(p)
  <2>1. CASE Leave(p)
    BY <1>4, <2>1, LeaveTypeInv DEF MakePlan
  <2>2. CASE ~Leave(p)
    <3>0. PlanOf(job[p], tree) \in Plan
      BY <1>4, <2>2, PlanType DEF MakePlan, TypeInv, TypeOK
    <3>1. /\ UNCHANGED <<holder, shared, job, snapshot, verdict, history>>
          /\ planned' \in [Proc -> Plan]
          /\ pc' \in [Proc -> Unlocked \cup Critical] /\ pc'[p] = "confirm"
          /\ \A q \in Proc \ {p} : pc'[q] = pc[q]
      BY <1>4, <2>2, <3>0 DEF MakePlan, Goto, Unlocked, TypeInv, TypeOK
    <3>2. ReferencesOK'
      BY <3>1, ReferencesKept DEF TypeInv, ReferencesOK
    <3>. QED  BY <3>1, <3>2 DEF TypeInv, TypeOK
  <2>. QED  BY <2>1, <2>2
<1>5. CASE Decline(p)
  <2>1. Report(FALSE, 0) \in Verdict /\ Report(FALSE, 0).backup = 0
    BY ReportType
  <2>2. TypeOK'
    BY <1>5, <2>1 DEF Decline, Acquire, Goto, Critical, TypeInv, TypeOK
  <2>3. /\ UNCHANGED <<registry, backups>> /\ pc'[p] = "archive"
        /\ verdict'[p].backup = 0 /\ Len(backups) \in Nat
        /\ \A q \in Proc \ {p} : pc'[q] = pc[q] /\ verdict'[q] = verdict[q]
    <3>1. /\ UNCHANGED <<registry, backups>> /\ Goto(p, "archive")
          /\ verdict' = [verdict EXCEPT ![p] = Report(FALSE, 0)]
      BY <1>5 DEF Decline
    <3>2. "archive" \in Critical /\ Len(backups) \in Nat
      BY DEF Critical, TypeInv, TypeOK
    <3>. QED  BY <2>1, <3>1, <3>2, GotoType, VerdictType
  <2>4. ReferencesOK'
    BY <2>3, ReferencesKept
  <2>. QED  BY <2>2, <2>4 DEF TypeInv
<1>. QED  BY <1>1, <1>2, <1>3, <1>4, <1>5

(* A new backup, and a new status of an old one. *)
LEMMA BackupType ==
  ASSUME TypeInv, NEW j \in Job, NEW t \in Plan, NEW s \in BackupStatuses
  PROVE  /\ [job |-> j, entries |-> t, status |-> s] \in Backup
         /\ Append(backups, [job |-> j, entries |-> t, status |-> s]) \in Seq(Backup)
         /\ Len(Append(backups, [job |-> j, entries |-> t, status |-> s]))
              = Len(backups) + 1
         /\ Len(backups) \in Nat
<1>. DEFINE b == [job |-> j, entries |-> t, status |-> s]
<1>1. b \in Backup
  BY DEF Backup
<1>2. backups \in Seq(Backup)
  BY DEF TypeInv, TypeOK
<1>. HIDE DEF b
<1>3. /\ Append(backups, b) \in Seq(Backup) /\ Len(Append(backups, b)) = Len(backups) + 1
      /\ Len(backups) \in Nat
  BY <1>1, <1>2, AppendProperties
<1>. QED  BY <1>1, <1>3 DEF b

LEMMA CloseType ==
  ASSUME TypeInv, NEW b \in DOMAIN backups, NEW s \in BackupStatuses
  PROVE  /\ [backups EXCEPT ![b].status = s] \in Seq(Backup)
         /\ Len([backups EXCEPT ![b].status = s]) = Len(backups)
<1>1. backups \in Seq(Backup) /\ backups[b] \in Backup
  BY DEF TypeInv, TypeOK
<1>2. [backups[b] EXCEPT !.status = s] \in Backup
  BY <1>1 DEF Backup
<1>3. [backups EXCEPT ![b].status = s] = [backups EXCEPT ![b] = [backups[b] EXCEPT !.status = s]]
  OBVIOUS
<1>. QED  BY <1>1, <1>2, <1>3

(* What a process with the lock does without taking or leaving it: it goes to *)
(* l with the verdict v, and the backups grow from bs to bs2.                *)
Refers(l, v, bs, bs2) ==
  /\ bs2 \in Seq(Backup) /\ Len(bs) <= Len(bs2)
  /\ l \in Critical /\ v \in Verdict
  /\ v.backup <= Len(bs2)
  /\ l \in {"preflight", "restoring", "undoing", "mark"} => v.backup # 0
  /\ l = "applying" => Len(bs2) # 0

LEMMA WorkTypeInv ==
  ASSUME TypeInv, NEW p \in Proc, NEW l, NEW v, Refers(l, v, backups, backups'),
         Goto(p, l), verdict' = [verdict EXCEPT ![p] = v],
         UNCHANGED <<holder, registry, job, planned, snapshot, history>>,
         tree' \in Tree, archives' \subseteq Job, logs' \in [Id -> Nat]
  PROVE  TypeInv'
<1>0. /\ l \in Unlocked \cup Critical /\ v \in Verdict
      /\ backups' \in Seq(Backup) /\ Len(backups) <= Len(backups')
      /\ v.backup <= Len(backups')
      /\ l \in {"preflight", "restoring", "undoing", "mark"} => v.backup # 0
      /\ l = "applying" => Len(backups') # 0
  BY DEF Refers
<1>1. TypeOK'
  BY <1>0, GotoType, VerdictType DEF TypeInv, TypeOK, history
<1>2. Len(backups) \in Nat /\ Len(backups') \in Nat
  BY <1>0 DEF TypeInv, TypeOK
<1>3. /\ pc'[p] = l /\ verdict'[p] = v /\ verdict' \in [Proc -> Verdict]
      /\ \A q \in Proc \ {p} : pc'[q] = pc[q] /\ verdict'[q] = verdict[q]
  BY <1>0, GotoType, VerdictType
<1>4. ReferencesOK'
  BY <1>0, <1>2, <1>3, ReferencesGrow
<1>. QED  BY <1>1, <1>4 DEF TypeInv

(* Going on to write the records. *)
LEMMA RecordRefers ==
  ASSUME TypeInv, NEW l \in {"archive", "log", "register"},
         NEW v \in Verdict, NEW bs \in Seq(Backup),
         Len(backups) <= Len(bs), v.backup <= Len(bs)
  PROVE  Refers(l, v, backups, bs)
<1>1. l \in Critical /\ l \notin {"preflight", "restoring", "undoing", "mark"} /\ l # "applying"
  BY DEF Critical
<1>. QED  BY <1>1 DEF Refers

LEMMA TypedNow ==
  ASSUME TypeInv, NEW p \in Proc
  PROVE  /\ job[p] \in Job /\ job[p].id \in Id /\ verdict[p] \in Verdict
         /\ tree \in Tree /\ planned[p] \in Plan
         /\ archives \subseteq Job /\ logs \in [Id -> Nat]
         /\ backups \in Seq(Backup) /\ Len(backups) \in Nat
         /\ verdict[p].backup \in Nat /\ verdict[p].backup <= Len(backups)
         /\ Len(backups) <= Len(backups)
         /\ verdict = [verdict EXCEPT ![p] = verdict[p]]
<1>1. /\ job[p] \in Job /\ verdict[p] \in Verdict
      /\ tree \in Tree /\ planned[p] \in Plan /\ archives \subseteq Job /\ logs \in [Id -> Nat]
      /\ backups \in Seq(Backup) /\ verdict \in [Proc -> Verdict]
  BY DEF TypeInv, TypeOK
<1>2. job[p].id \in Id /\ verdict[p].backup \in Nat
  BY <1>1 DEF Job, Verdict
<1>3. Len(backups) \in Nat
  BY <1>1
<1>4. Len(backups) <= Len(backups)
  BY <1>3
<1>5. verdict[p].backup <= Len(backups)
  BY DEF TypeInv, ReferencesOK
<1>6. verdict = [verdict EXCEPT ![p] = verdict[p]]
  BY <1>1
<1>. QED  BY <1>1, <1>2, <1>3, <1>4, <1>5, <1>6

LEMMA TransactionTypeInv ==
  ASSUME TypeInv, NEW p \in Proc,
         \/ TransactionRefused(p) \/ NothingToDo(p)
         \/ BeginTransaction(p) \/ EndTransaction(p)
  PROVE  TypeInv'
<1>1. CASE (TransactionRefused(p) \/ NothingToDo(p)) /\ UNCHANGED backups
  <2>1. PICK c \in BOOLEAN, b \in {0, Len(backups)} : Conclude(p, c, b)
    BY <1>1 DEF TransactionRefused, NothingToDo
  <2>. DEFINE v == Report(c, b)
  <2>2. b \in Nat
    BY TypedNow
  <2>3. b <= Len(backups)
    BY TypedNow
  <2>4. v \in Verdict /\ v.backup = b
    BY <2>2, ReportType
  <2>5. verdict' = [verdict EXCEPT ![p] = v] /\ Goto(p, "archive")
    BY <2>1 DEF Conclude
  <2>6. UNCHANGED <<holder, registry, job, planned, snapshot, history>>
    BY <1>1 DEF TransactionRefused, NothingToDo, shared
  <2>7. UNCHANGED <<backups, tree, archives, logs>>
    BY <1>1 DEF TransactionRefused, NothingToDo, shared
  <2>. HIDE DEF v
  <2>8. Refers("archive", v, backups, backups')
    BY <2>3, <2>4, <2>7, TypedNow, RecordRefers
  <2>. QED  BY <2>5, <2>6, <2>7, <2>8, TypedNow, WorkTypeInv
<1>2. CASE TransactionRefused(p) /\ ~UNCHANGED backups
  <2>1. /\ Conclude(p, FALSE, Len(backups'))
        /\ backups' = Append(backups, [job |-> job[p], entries |-> planned[p],
                                       status |-> "none"])
    BY <1>2 DEF TransactionRefused
  <2>2. backups' \in Seq(Backup) /\ Len(backups') = Len(backups) + 1
    <3>1. "none" \in BackupStatuses
      BY DEF BackupStatuses
    <3>. QED  BY <2>1, <3>1, TypedNow, BackupType
  <2>. DEFINE n == Len(backups')
  <2>. DEFINE v == Report(FALSE, n)
  <2>3. n \in Nat
    BY <2>2
  <2>4. Len(backups) <= n /\ n <= n
    BY <2>2, <2>3, TypedNow
  <2>5. verdict' = [verdict EXCEPT ![p] = v] /\ Goto(p, "archive")
    BY <2>1 DEF Conclude
  <2>. HIDE DEF n
  <2>6. v \in Verdict /\ v.backup = n
    BY <2>3, ReportType
  <2>7. UNCHANGED <<holder, registry, job, planned, snapshot, history>>
    BY <1>2 DEF TransactionRefused
  <2>8. UNCHANGED <<tree, archives, logs>>
    BY <1>2 DEF TransactionRefused
  <2>. HIDE DEF v
  <2>9. Refers("archive", v, backups, backups')
    BY <2>2, <2>4, <2>6, RecordRefers DEF n
  <2>. QED  BY <2>5, <2>7, <2>8, <2>9, TypedNow, WorkTypeInv
<1>3. CASE NothingToDo(p) /\ ~UNCHANGED backups
  BY <1>3 DEF NothingToDo, shared
<1>4. CASE BeginTransaction(p)
  <2>1. backups' \in Seq(Backup) /\ Len(backups') = Len(backups) + 1
    <3>1. backups' = Append(backups, [job |-> job[p], entries |-> planned[p],
                                      status |-> "PREPARED"])
      BY <1>4 DEF BeginTransaction
    <3>2. "PREPARED" \in BackupStatuses
      BY DEF BackupStatuses
    <3>. QED  BY <3>1, <3>2, TypedNow, BackupType
  <2>2. tree' \in Tree
    <3>1. tree' \in Disturbed(tree, planned[p])
      BY <1>4 DEF BeginTransaction
    <3>. QED  BY <3>1, TypedNow, FilesType
  <2>3. /\ Goto(p, "applying") /\ verdict' = verdict
        /\ UNCHANGED <<holder, registry, job, planned, snapshot, history>>
    BY <1>4 DEF BeginTransaction, local
  <2>4. UNCHANGED <<archives, logs>>
    BY <1>4 DEF BeginTransaction
  <2>5. Len(backups) <= Len(backups') /\ Len(backups') # 0
    BY <2>1, TypedNow
  <2>6. verdict[p].backup <= Len(backups')
    BY <2>1, TypedNow
  <2>7. Refers("applying", verdict[p], backups, backups')
    BY <2>1, <2>5, <2>6, TypedNow DEF Refers, Critical
  <2>. QED  BY <2>2, <2>3, <2>4, <2>7, TypedNow, WorkTypeInv
<1>5. CASE EndTransaction(p)
  <2>1. Len(backups) \in DOMAIN backups
    <3>1. Len(backups) # 0
      BY <1>5 DEF EndTransaction, TypeInv, ReferencesOK
    <3>2. Len(backups) \in 1..Len(backups)
      BY <3>1, TypedNow
    <3>. QED  BY <3>2, TypedNow
  <2>2. backups[Len(backups)].entries \in Plan
    <3>1. backups[Len(backups)] \in Backup
      BY <2>1, TypedNow
    <3>. QED  BY <3>1 DEF Backup
  <2>3. tree' \in Tree
    <3>. DEFINE e == backups[Len(backups)].entries
    <3>1. tree' = Rewritten(tree, e) \/ tree' = Restored(tree, e) \/ tree' = tree
      BY <1>5 DEF EndTransaction
    <3>2. e \in Plan
      BY <2>2
    <3>. HIDE DEF e
    <3>3. Rewritten(tree, e) \in Tree /\ Restored(tree, e) \in Tree /\ tree \in Tree
      BY <3>2, TypedNow, FilesType
    <3>. QED  BY <3>1, <3>3
  <2>4. backups' \in Seq(Backup) /\ Len(backups') = Len(backups)
    <3>1. \/ backups' = backups
          \/ \E s \in BackupStatuses :
               backups' = [backups EXCEPT ![Len(backups)].status = s]
      BY <1>5 DEF EndTransaction, BackupStatuses
    <3>2. CASE backups' = backups
      BY <3>2, TypedNow
    <3>3. ASSUME NEW s \in BackupStatuses,
                 backups' = [backups EXCEPT ![Len(backups)].status = s]
          PROVE  backups' \in Seq(Backup) /\ Len(backups') = Len(backups)
      BY <2>1, <3>3, CloseType
    <3>. QED  BY <3>1, <3>2, <3>3
  <2>5. PICK c \in BOOLEAN : Conclude(p, c, Len(backups))
    BY <1>5 DEF EndTransaction
  <2>. DEFINE v == Report(c, Len(backups))
  <2>6. v \in Verdict /\ v.backup = Len(backups)
    BY TypedNow, ReportType
  <2>7. verdict' = [verdict EXCEPT ![p] = v] /\ Goto(p, "archive")
    BY <2>5 DEF Conclude
  <2>8. UNCHANGED <<holder, registry, job, planned, snapshot, history>>
    BY <1>5 DEF EndTransaction
  <2>9. UNCHANGED <<archives, logs>>
    BY <1>5 DEF EndTransaction
  <2>. HIDE DEF v
  <2>10. Refers("archive", v, backups, backups')
    BY <2>4, <2>6, TypedNow, RecordRefers
  <2>. QED  BY <2>3, <2>7, <2>8, <2>9, <2>10, TypedNow, WorkTypeInv
<1>. QED  BY <1>1, <1>2, <1>3, <1>4, <1>5

(* The registry is written from the snapshot, which is what is there. *)
LEMMA RegisterType ==
  ASSUME TypeInv, LockInv, NEW p \in Proc, Register(p)
  PROVE  /\ registry' = [registry EXCEPT ![job[p].id] = Updated(registry, job[p], verdict[p])]
         /\ job[p] \in Job /\ job[p].id \in Id /\ verdict[p] \in Verdict
         /\ registry \in Registry /\ registry' \in Registry
<1>1. snapshot[p] = registry
  BY DEF Register, LockInv, FreshSnapshot, Critical
<1>2. job[p] \in Job /\ verdict[p] \in Verdict /\ registry \in Registry
  BY DEF TypeInv, TypeOK
<1>3. job[p].id \in Id
  BY <1>2 DEF Job
<1>4. Updated(registry, job[p], verdict[p]) \in Record
  BY <1>2, UpdatedType
<1>5. registry' = [registry EXCEPT ![job[p].id] = Updated(registry, job[p], verdict[p])]
  BY <1>1 DEF Register
<1>. QED  BY <1>2, <1>3, <1>4, <1>5 DEF Registry

LEMMA RecordTypeInv ==
  ASSUME TypeInv, LockInv, NEW p \in Proc,
         Archive(p) \/ WriteLog(p) \/ Register(p) \/ RecordFails(p) \/ Crash(p)
  PROVE  TypeInv'
<1>0. /\ job[p] \in Job /\ verdict[p] \in Verdict /\ tree \in Tree
      /\ job[p].id \in Id
      /\ backups \in Seq(Backup) /\ Len(backups) \in Nat
      /\ archives \subseteq Job /\ logs \in [Id -> Nat]
      /\ verdict \in [Proc -> Verdict] /\ verdict[p].backup <= Len(backups)
      /\ "log" \in Critical /\ "register" \in Critical
  BY DEF TypeInv, TypeOK, ReferencesOK, Critical, Job
<1>1. CASE Archive(p) \/ WriteLog(p)
  <2>1. archives' \subseteq Job /\ logs' \in [Id -> Nat]
    <3>1. CASE Archive(p)
      BY <1>0, <3>1 DEF Archive
    <3>2. CASE WriteLog(p)
      <4>1. logs' = [logs EXCEPT ![job[p].id] = logs[job[p].id] + 1] /\ UNCHANGED archives
        BY <3>2 DEF WriteLog
      <4>2. logs[job[p].id] + 1 \in Nat
        BY <1>0
      <4>. QED  BY <1>0, <4>1, <4>2
    <3>. QED  BY <1>1, <3>1, <3>2
  <2>2. PICK l \in {"log", "register"} : Goto(p, l)
    BY <1>1 DEF Archive, WriteLog
  <2>3. /\ UNCHANGED <<holder, registry, job, planned, snapshot, history>>
        /\ verdict' = verdict
    BY <1>1 DEF Archive, WriteLog, local
  <2>4. UNCHANGED <<tree, backups>>
    BY <1>1 DEF Archive, WriteLog
  <2>5. Refers(l, verdict[p], backups, backups')
    BY <2>4, TypedNow, RecordRefers
  <2>. QED  BY <2>1, <2>2, <2>3, <2>4, <2>5, TypedNow, WorkTypeInv
<1>2. CASE Register(p)
  <2>1. /\ Leave(p) /\ UNCHANGED <<tree, backups, archives, logs, commands>>
        /\ recorded' = [recorded EXCEPT ![job[p].id] = @ + 1]
    BY <1>2 DEF Register
  <2>2. recorded' \in [Id -> Nat]
    <3>1. recorded \in [Id -> Nat] /\ recorded[job[p].id] + 1 \in Nat
      BY <1>0 DEF TypeInv, TypeOK
    <3>2. recorded' = [recorded EXCEPT ![job[p].id] = recorded[job[p].id] + 1]
      BY <2>1
    <3>. QED  BY <3>1, <3>2
  <2>3. TypeOK'
    BY <1>2, <2>1, <2>2, RegisterType, LeaveType DEF TypeInv, TypeOK
  <2>4. ASSUME NEW i \in Id, Known(registry', i)
        PROVE  registry'[i].backup <= Len(backups)
    <3>1. CASE i = job[p].id
      <4>. DEFINE u == Updated(registry, job[p], verdict[p])
      <4>1. registry'[i] = u
        BY <1>2, <3>1, RegisterType DEF Registry
      <4>2. \/ u.backup = verdict[p].backup
            \/ Known(registry, i) /\ u.backup = registry[i].backup
        BY <1>2, <3>1, RegisterType, UpdatedType
      <4>. HIDE DEF u
      <4>. QED  BY <1>0, <4>1, <4>2 DEF TypeInv, ReferencesOK
    <3>2. CASE i # job[p].id
      <4>1. registry'[i] = registry[i]
        BY <1>2, <3>2, RegisterType DEF Registry
      <4>. QED  BY <2>4, <4>1 DEF TypeInv, ReferencesOK, Known
    <3>. QED  BY <3>1, <3>2
  <2>5. ASSUME NEW q \in Proc
        PROVE  /\ verdict'[q].backup <= Len(backups')
               /\ pc'[q] \in {"preflight", "restoring", "undoing", "mark"} => verdict'[q].backup # 0
               /\ pc'[q] = "applying" => Len(backups') # 0
    <3>1. Len(backups') = Len(backups)
      BY <2>1
    <3>2. CASE q = p
      BY <1>0, <2>1, <3>1, <3>2, LeaveType
    <3>3. CASE q # p
      <4>1. pc'[q] = pc[q] /\ verdict'[q] = verdict[q]
        BY <2>1, <3>3, LeaveType
      <4>. QED  BY <3>1, <4>1 DEF TypeInv, ReferencesOK
    <3>. QED  BY <3>2, <3>3
  <2>6. ReferencesOK'
    <3>1. Len(backups') = Len(backups)
      BY <2>1
    <3>. QED  BY <2>4, <2>5, <3>1 DEF ReferencesOK
  <2>. QED  BY <2>3, <2>6 DEF TypeInv
<1>3. CASE (RecordFails(p) \/ Crash(p)) /\ Leave(p)
  BY <1>3, LeaveTypeInv DEF RecordFails, Crash
<1>4. CASE RecordFails(p) /\ ~Leave(p)
  <2>. DEFINE v == [verdict[p] EXCEPT !.retry = FALSE]
  <2>1. v \in Verdict /\ v.backup = verdict[p].backup
    BY TypedNow DEF Verdict
  <2>2. /\ verdict' = [verdict EXCEPT ![p] = v] /\ Goto(p, "log")
        /\ UNCHANGED <<holder, registry, job, planned, snapshot, history>>
    BY <1>4 DEF RecordFails, shared
  <2>3. UNCHANGED <<backups, tree, archives, logs>>
    BY <1>4 DEF RecordFails, shared
  <2>. HIDE DEF v
  <2>4. Refers("log", v, backups, backups')
    BY <2>1, <2>3, TypedNow, RecordRefers
  <2>. QED  BY <2>2, <2>3, <2>4, TypedNow, WorkTypeInv
<1>. QED  BY <1>1, <1>2, <1>3, <1>4 DEF Crash

LEMMA RollbackTypeInv ==
  ASSUME TypeInv, NEW p \in Proc,
         \/ Locate(p) \/ Preflight(p) \/ BeginRestore(p)
         \/ FinishRestore(p) \/ RestoreFails(p) \/ MarkRolledBack(p)
  PROVE  TypeInv'
<1>0. /\ job[p] \in Job /\ verdict[p] \in Verdict /\ tree \in Tree
      /\ job[p].id \in Id /\ verdict[p].backup \in Nat
      /\ backups \in Seq(Backup) /\ Len(backups) \in Nat
      /\ archives \subseteq Job /\ logs \in [Id -> Nat]
      /\ verdict \in [Proc -> Verdict] /\ verdict[p].backup <= Len(backups)
      /\ {"preflight", "restoring", "undoing", "mark", "log"} \subseteq Critical
  BY DEF TypeInv, TypeOK, ReferencesOK, Critical, Job, Verdict
<1>1. CASE Locate(p) /\ Leave(p)
  BY <1>1, LeaveTypeInv DEF Locate
<1>2. CASE Locate(p) /\ ~Leave(p)
  <2>. DEFINE e == registry[job[p].id]
  <2>1. /\ Reversible(registry, job[p].id) /\ Acquire(p) /\ Goto(p, "preflight")
        /\ job' = [job EXCEPT ![p].hash = e.hash]
        /\ verdict' = [verdict EXCEPT ![p] = Report(FALSE, e.backup)]
        /\ UNCHANGED <<planned, shared, history>>
    BY <1>2 DEF Locate
  <2>2. Known(registry, job[p].id) /\ e.backup # 0
    BY <2>1 DEF Reversible
  <2>3. e \in Record /\ e.backup <= Len(backups)
    BY <1>0, <2>2, KnownType DEF TypeInv, TypeOK, ReferencesOK
  <2>4. e.hash \in Hash /\ e.backup \in Nat
    BY <2>3 DEF Record
  <2>5. job' \in [Proc -> Job]
    <3>1. [job[p] EXCEPT !.hash = e.hash] \in Job
      BY <1>0, <2>4 DEF Job
    <3>2. job' = [job EXCEPT ![p] = [job[p] EXCEPT !.hash = e.hash]]
      BY <2>1
    <3>. HIDE DEF e
    <3>. QED  BY <3>1, <3>2 DEF TypeInv, TypeOK
  <2>. HIDE DEF e
  <2>6. Report(FALSE, e.backup) \in Verdict /\ Report(FALSE, e.backup).backup = e.backup
    BY <2>4, ReportType
  <2>7. holder' \in Proc \cup {NoProc} /\ snapshot' \in [Proc -> Registry]
    BY <2>1 DEF Acquire, TypeInv, TypeOK
  <2>8. TypeOK'
    BY <1>0, <2>1, <2>5, <2>6, <2>7, GotoType, VerdictType
       DEF TypeInv, TypeOK, shared, history
  <2>9. UNCHANGED <<registry, backups>>
    BY <2>1 DEF shared
  <2>10. /\ verdict'[p].backup = e.backup /\ pc'[p] = "preflight"
         /\ \A q \in Proc \ {p} : pc'[q] = pc[q] /\ verdict'[q] = verdict[q]
    BY <1>0, <2>1, <2>6, GotoType, VerdictType
  <2>11. ReferencesOK'
    BY <1>0, <2>2, <2>3, <2>9, <2>10, ReferencesKept
  <2>. QED  BY <2>8, <2>11 DEF TypeInv
<1>3. CASE Preflight(p)
  <2>1. PICK l \in {"restoring", "log"} : Goto(p, l)
    BY <1>3 DEF Preflight
  <2>2. /\ verdict' = verdict
        /\ UNCHANGED <<holder, registry, job, planned, snapshot, history>>
    BY <1>3 DEF Preflight, shared, local
  <2>3. UNCHANGED <<tree, backups, archives, logs>>
    BY <1>3 DEF Preflight, shared
  <2>4. verdict[p].backup # 0
    BY <1>3 DEF Preflight, TypeInv, ReferencesOK
  <2>5. Refers(l, verdict[p], backups, backups')
    BY <2>3, <2>4, TypedNow DEF Refers, Critical
  <2>. QED  BY <2>1, <2>2, <2>3, <2>5, TypedNow, WorkTypeInv
<1>4. ASSUME pc[p] \in {"restoring", "undoing", "mark"}
      PROVE  /\ verdict[p].backup # 0 /\ verdict[p].backup \in DOMAIN backups
             /\ backups[verdict[p].backup].entries \in Plan
  <2>1. verdict[p].backup # 0
    BY <1>4 DEF TypeInv, ReferencesOK
  <2>2. verdict[p].backup \in 1..Len(backups)
    BY <2>1, TypedNow
  <2>3. verdict[p].backup \in DOMAIN backups /\ backups[verdict[p].backup] \in Backup
    BY <2>2, TypedNow
  <2>. QED  BY <2>1, <2>3 DEF Backup
<1>5. CASE BeginRestore(p) \/ FinishRestore(p)
  <2>. DEFINE e == backups[verdict[p].backup].entries
  <2>1. e \in Plan /\ verdict[p].backup # 0
    BY <1>4, <1>5 DEF BeginRestore, FinishRestore
  <2>2. tree' \in Disturbed(tree, e) \/ tree' = Restored(tree, e)
    BY <1>5 DEF BeginRestore, FinishRestore
  <2>. HIDE DEF e
  <2>3. tree' \in Tree
    BY <2>1, <2>2, TypedNow, FilesType
  <2>4. PICK l \in {"mark", "undoing"} : Goto(p, l)
    BY <1>5 DEF BeginRestore, FinishRestore
  <2>5. /\ verdict' = verdict
        /\ UNCHANGED <<holder, registry, job, planned, snapshot, history>>
    BY <1>5 DEF BeginRestore, FinishRestore, local
  <2>6. UNCHANGED <<backups, archives, logs>>
    BY <1>5 DEF BeginRestore, FinishRestore
  <2>7. Refers(l, verdict[p], backups, backups')
    BY <2>1, <2>6, TypedNow DEF Refers, Critical
  <2>. QED  BY <2>3, <2>4, <2>5, <2>6, <2>7, TypedNow, WorkTypeInv
<1>6. CASE RestoreFails(p)
  <2>. DEFINE b == verdict[p].backup
  <2>1. b \in DOMAIN backups
    BY <1>4, <1>6 DEF RestoreFails
  <2>2. UNCHANGED tree
    BY <1>6 DEF RestoreFails
  <2>3. backups' \in Seq(Backup) /\ Len(backups') = Len(backups)
    <3>1. "ROLLBACK_FAILED" \in BackupStatuses
      BY DEF BackupStatuses
    <3>2. backups' = backups \/ backups' = [backups EXCEPT ![b].status = "ROLLBACK_FAILED"]
      BY <1>6 DEF RestoreFails
    <3>3. CASE backups' = backups
      BY <3>3, TypedNow
    <3>4. CASE backups' = [backups EXCEPT ![b].status = "ROLLBACK_FAILED"]
      BY <2>1, <3>1, <3>4, CloseType
    <3>. QED  BY <3>2, <3>3, <3>4
  <2>4. PICK v \in Verdict :
          v.backup = verdict[p].backup /\ verdict' = [verdict EXCEPT ![p] = v]
    <3>. DEFINE w == [verdict[p] EXCEPT !.retry = TRUE]
    <3>1. w \in Verdict /\ w.backup = verdict[p].backup
      BY TypedNow DEF Verdict
    <3>2. verdict' = [verdict EXCEPT ![p] = w] \/ verdict' = verdict
      BY <1>6 DEF RestoreFails
    <3>. HIDE DEF w
    <3>. QED  BY <3>1, <3>2, TypedNow
  <2>5. /\ Goto(p, "log")
        /\ UNCHANGED <<holder, registry, job, planned, snapshot, history>>
    BY <1>6 DEF RestoreFails
  <2>6. UNCHANGED <<archives, logs>>
    BY <1>6 DEF RestoreFails
  <2>7. Refers("log", v, backups, backups')
    BY <2>3, <2>4, TypedNow, RecordRefers
  <2>. QED  BY <2>2, <2>4, <2>5, <2>6, <2>7, TypedNow, WorkTypeInv
<1>7. CASE MarkRolledBack(p) /\ Leave(p) /\ UNCHANGED backups
  BY <1>7, LeaveTypeInv DEF MarkRolledBack, shared
<1>8. CASE MarkRolledBack(p) /\ ~(Leave(p) /\ UNCHANGED backups)
  <2>. DEFINE v == [verdict[p] EXCEPT !.reset = TRUE]
  <2>1. v \in Verdict /\ v.backup = verdict[p].backup
    BY TypedNow DEF Verdict
  <2>2. /\ verdict' = [verdict EXCEPT ![p] = v] /\ Goto(p, "log")
        /\ UNCHANGED <<holder, registry, job, planned, snapshot, history>>
    BY <1>8 DEF MarkRolledBack
  <2>3. /\ backups' = [backups EXCEPT ![verdict[p].backup].status = "ROLLED_BACK"]
        /\ UNCHANGED <<tree, archives, logs>>
    BY <1>8 DEF MarkRolledBack
  <2>4. backups' \in Seq(Backup) /\ Len(backups') = Len(backups)
    <3>1. "ROLLED_BACK" \in BackupStatuses
      BY DEF BackupStatuses
    <3>2. verdict[p].backup \in DOMAIN backups
      BY <1>4, <1>8 DEF MarkRolledBack
    <3>. QED  BY <2>3, <3>1, <3>2, CloseType
  <2>. HIDE DEF v
  <2>5. Refers("log", v, backups, backups')
    BY <2>1, <2>4, TypedNow, RecordRefers
  <2>. QED  BY <2>2, <2>3, <2>5, TypedNow, WorkTypeInv
<1>. QED  BY <1>1, <1>2, <1>3, <1>5, <1>6, <1>7, <1>8

LEMMA NextTypeInv == TypeInv /\ LockInv /\ [Next]_vars => TypeInv'
<1>. SUFFICES ASSUME TypeInv, LockInv, [Next]_vars PROVE TypeInv'
  OBVIOUS
<1>1. ASSUME NEW p \in Proc, Work(p) PROVE TypeInv'
  BY <1>1, DecisionTypeInv, TransactionTypeInv, RecordTypeInv, RollbackTypeInv DEF Work
<1>2. ASSUME UNCHANGED vars PROVE TypeInv'
  BY <1>2 DEF vars, shared, local, history, TypeInv, TypeOK, ReferencesOK, Known
<1>. QED
  BY <1>1, <1>2, CommandTypeInv, RecordTypeInv DEF Next, Quiet

-----------------------------------------------------------------------------
(* The lock *)

LEMMA Apart ==
  /\ \A l \in Unlocked : l \notin Critical
  /\ "idle" \notin Critical
  BY DEF Unlocked, Critical

(* Whoever holds the lock is the only process inside. *)
LEMMA Alone ==
  ASSUME LockInv, NEW p \in Proc, NEW q \in Proc, pc[q] \in Critical,
         holder = p \/ holder = NoProc
  PROVE  q = p /\ holder = p
<1>1. holder = q /\ NoProc \notin Proc
  BY LifecycleAssumption DEF LockInv, Exclusion
<1>. QED  BY <1>1

(* Leaving, possibly with an update of the registry by the one who is inside. *)
LEMMA LeaveLock ==
  ASSUME TypeInv, LockInv, NEW p \in Proc, Leave(p),
         UNCHANGED registry \/ pc[p] \in Critical
  PROVE  LockInv'
<1>1. /\ pc'[p] = "idle"
      /\ \A q \in Proc \ {p} : pc'[q] = pc[q] /\ snapshot'[q] = snapshot[q]
      /\ holder' = IF holder = p THEN NoProc ELSE holder
  BY DEF Leave, Goto, TypeInv, TypeOK
<1>2. ASSUME NEW q \in Proc, pc'[q] \in Critical
      PROVE  holder' = q /\ snapshot'[q] = registry'
  <2>1. q # p /\ pc[q] \in Critical /\ snapshot'[q] = snapshot[q]
    BY <1>1, <1>2, Apart
  <2>2. holder = q /\ snapshot[q] = registry
    BY <2>1 DEF LockInv, Exclusion, FreshSnapshot
  <2>3. pc[p] \notin Critical
    BY <2>1, <2>2 DEF LockInv, Exclusion
  <2>. QED  BY <1>1, <2>1, <2>2, <2>3
<1>. QED  BY <1>2 DEF LockInv, Exclusion, FreshSnapshot

(* Taking the lock when it is free. *)
LEMMA AcquireLock ==
  ASSUME TypeInv, LockInv, NEW p \in Proc, NEW l, Acquire(p), Goto(p, l),
         UNCHANGED registry
  PROVE  LockInv'
<1>1. /\ holder = NoProc /\ holder' = p /\ snapshot'[p] = registry
      /\ \A q \in Proc \ {p} : pc'[q] = pc[q]
  BY DEF Acquire, Goto, TypeInv, TypeOK
<1>2. ASSUME NEW q \in Proc, pc'[q] \in Critical PROVE q = p
  <2>1. CASE q # p
    BY <1>1, <1>2, <2>1, Alone
  <2>. QED  BY <2>1
<1>. QED  BY <1>1, <1>2 DEF LockInv, Exclusion, FreshSnapshot

(* Going on inside, or outside. *)
LEMMA GoOnLock ==
  ASSUME TypeInv, LockInv, NEW p \in Proc, NEW l, Goto(p, l),
         pc[p] \in Critical \/ l \in Unlocked,
         UNCHANGED <<holder, registry, snapshot>>
  PROVE  LockInv'
<1>1. pc'[p] = l /\ \A q \in Proc \ {p} : pc'[q] = pc[q]
  BY DEF Goto, TypeInv, TypeOK
<1>2. ASSUME NEW q \in Proc, pc'[q] \in Critical PROVE pc[q] \in Critical
  BY <1>1, <1>2, Apart
<1>. QED  BY <1>2 DEF LockInv, Exclusion, FreshSnapshot

LEMMA InitLockInv == Init => LockInv
<1>. SUFFICES ASSUME Init PROVE LockInv
  OBVIOUS
<1>1. \A p \in Proc : pc[p] = "idle"
  BY DEF Init
<1>. QED  BY <1>1, Apart DEF LockInv, Exclusion, FreshSnapshot

(* What each step of a process does to the lock. *)
LEMMA StepKinds ==
  ASSUME TypeInv, NEW p \in Proc,
         \/ \E j \in Job : Run(p, j)
         \/ \E i \in Id : RollBack(p, i)
         \/ Answer(p) \/ Work(p) \/ Crash(p)
  PROVE  \/ Leave(p) /\ (UNCHANGED registry \/ pc[p] \in Critical)
         \/ Acquire(p) /\ UNCHANGED registry /\ \E l \in Critical : Goto(p, l)
         \/ /\ \E l \in Unlocked \cup Critical :
                 Goto(p, l) /\ (pc[p] \in Critical \/ l \in Unlocked)
            /\ UNCHANGED <<holder, registry, snapshot>>
<1>. USE DEF shared, local, Critical, Unlocked
<1>1. CASE (\E j \in Job : Run(p, j)) \/ (\E i \in Id : RollBack(p, i))
  BY <1>1 DEF Run, RollBack, Start
<1>2. CASE Answer(p)
  BY <1>2 DEF Answer
<1>3. CASE Crash(p)
  BY <1>3 DEF Crash
<1>4. CASE Work(p)
  <2>1. CASE GiveUp(p) \/ MakePlan(p) \/ Decline(p)
    BY <2>1 DEF GiveUp, MakePlan, Decline
  <2>2. CASE Resolve(p) \/ Execute(p)
    BY <2>2 DEF Resolve, Execute, RecordDecision
  <2>3. CASE TransactionRefused(p) \/ NothingToDo(p) \/ BeginTransaction(p)
    BY <2>3 DEF TransactionRefused, NothingToDo, BeginTransaction, Conclude
  <2>4. CASE EndTransaction(p)
    <3>1. Goto(p, "archive") /\ pc[p] = "applying" /\ UNCHANGED <<holder, registry, snapshot>>
      BY <2>4 DEF EndTransaction, Conclude
    <3>. QED  BY <3>1
  <2>5. CASE Archive(p) \/ WriteLog(p) \/ Register(p) \/ RecordFails(p)
    BY <2>5 DEF Archive, WriteLog, Register, RecordFails
  <2>6. CASE Locate(p) \/ Preflight(p) \/ RestoreFails(p) \/ MarkRolledBack(p)
    BY <2>6 DEF Locate, Preflight, RestoreFails, MarkRolledBack
  <2>7. CASE BeginRestore(p) \/ FinishRestore(p)
    BY <2>7 DEF BeginRestore, FinishRestore
  <2>. QED  BY <1>4, <2>1, <2>2, <2>3, <2>4, <2>5, <2>6, <2>7 DEF Work
<1>. QED  BY <1>1, <1>2, <1>3, <1>4

LEMMA NextLockInv == TypeInv /\ LockInv /\ [Next]_vars => LockInv'
<1>. SUFFICES ASSUME TypeInv, LockInv, [Next]_vars PROVE LockInv'
  OBVIOUS
<1>1. CASE UNCHANGED vars
  BY <1>1 DEF vars, shared, local, LockInv, Exclusion, FreshSnapshot
<1>2. ASSUME NEW p \in Proc,
             \/ \E j \in Job : Run(p, j)
             \/ \E i \in Id : RollBack(p, i)
             \/ Answer(p) \/ Work(p) \/ Crash(p)
      PROVE  LockInv'
  BY <1>2, StepKinds, LeaveLock, AcquireLock, GoOnLock
<1>. QED  BY <1>1, <1>2 DEF Next, Quiet

LEMMA InvHolds == Spec => [](TypeInv /\ LockInv)
<1>1. Init => TypeInv /\ LockInv
  BY InitTypeInv, InitLockInv
<1>2. TypeInv /\ LockInv /\ [Next]_vars => (TypeInv /\ LockInv)'
  BY NextTypeInv, NextLockInv
<1>. QED  BY <1>1, <1>2, PTL DEF Spec

(* Every variable keeps its type, in every workspace with any number of jobs *)
(* and processes: the registry stays well formed and refers to backups.      *)
THEOREM TypeCorrect == Spec => []TypeOK
<1>1. TypeInv /\ LockInv => TypeOK
  BY DEF TypeInv
<1>. QED  BY <1>1, InvHolds, PTL

(* Two processes are never between taking and leaving the workspace lock at  *)
(* the same time, and the registry a process loaded there is still the file. *)
THEOREM LockExcludes == Spec => []LockInv
<1>1. TypeInv /\ LockInv => LockInv
  OBVIOUS
<1>. QED  BY <1>1, InvHolds, PTL

-----------------------------------------------------------------------------
(* The registry *)

LEMMA OnlyRegisterWrites ==
  ASSUME [Next]_vars
  PROVE  UNCHANGED <<registry, recorded>> \/ \E p \in Proc : Register(p)
<1>. USE DEF shared, local, history
<1>1. CASE UNCHANGED vars
  BY <1>1 DEF vars
<1>2. ASSUME NEW p \in Proc,
             \/ \E j \in Job : Run(p, j)
             \/ \E i \in Id : RollBack(p, i)
             \/ Answer(p) \/ Crash(p)
      PROVE  UNCHANGED <<registry, recorded>>
  BY <1>2 DEF Run, RollBack, Start, Answer, Crash
<1>3. ASSUME NEW p \in Proc, Work(p), ~Register(p)
      PROVE  UNCHANGED <<registry, recorded>>
  <2>1. CASE GiveUp(p) \/ MakePlan(p) \/ Decline(p) \/ Resolve(p) \/ Execute(p)
    BY <2>1 DEF GiveUp, MakePlan, Decline, Resolve, Execute
  <2>2. CASE \/ TransactionRefused(p) \/ NothingToDo(p) \/ BeginTransaction(p)
             \/ EndTransaction(p)
    BY <2>2 DEF TransactionRefused, NothingToDo, BeginTransaction, EndTransaction
  <2>3. CASE Archive(p) \/ WriteLog(p) \/ RecordFails(p)
    BY <2>3 DEF Archive, WriteLog, RecordFails
  <2>4. CASE \/ Locate(p) \/ Preflight(p) \/ BeginRestore(p) \/ FinishRestore(p)
             \/ RestoreFails(p) \/ MarkRolledBack(p)
    BY <2>4 DEF Locate, Preflight, BeginRestore, FinishRestore, RestoreFails, MarkRolledBack
  <2>. QED  BY <1>3, <2>1, <2>2, <2>3, <2>4 DEF Work
<1>. QED  BY <1>1, <1>2, <1>3 DEF Next, Quiet

(* No update of the registry is lost: although each process writes back the  *)
(* whole file it loaded before it worked, every recording of a job is one    *)
(* more run in its record.                                                   *)
THEOREM NoUpdateIsLost == Spec => []EveryRecordCounts
<1>1. Init => EveryRecordCounts
  <2>. SUFFICES ASSUME Init, NEW i \in Id PROVE registry[i].runs = recorded[i]
    BY DEF EveryRecordCounts
  <2>. QED  BY DEF Init, NoSnapshot, NoRecord
<1>2. TypeInv /\ LockInv /\ EveryRecordCounts /\ [Next]_vars => EveryRecordCounts'
  <2>. SUFFICES ASSUME TypeInv, LockInv, EveryRecordCounts, [Next]_vars, NEW i \in Id
                PROVE  registry'[i].runs = recorded'[i]
    BY DEF EveryRecordCounts
  <2>1. registry[i].runs = recorded[i] /\ recorded \in [Id -> Nat]
    BY DEF EveryRecordCounts, TypeInv, TypeOK
  <2>2. CASE UNCHANGED <<registry, recorded>>
    BY <2>1, <2>2
  <2>3. ASSUME NEW p \in Proc, Register(p)
        PROVE  registry'[i].runs = recorded'[i]
    <3>. DEFINE u == Updated(registry, job[p], verdict[p])
    <3>1. /\ registry' = [registry EXCEPT ![job[p].id] = u]
          /\ u.runs = registry[job[p].id].runs + 1
          /\ registry \in [Id -> Record \cup {NoRecord}]
      BY <2>3, RegisterType, UpdatedType DEF Registry
    <3>2. recorded' = [recorded EXCEPT ![job[p].id] = recorded[job[p].id] + 1]
      BY <2>3 DEF Register
    <3>. HIDE DEF u
    <3>3. CASE i = job[p].id
      <4>1. registry'[i] = u /\ recorded'[i] = recorded[i] + 1
        BY <2>1, <3>1, <3>2, <3>3
      <4>. QED  BY <2>1, <3>1, <3>3, <4>1
    <3>4. CASE i # job[p].id
      BY <2>1, <3>1, <3>2, <3>4
    <3>. QED  BY <3>3, <3>4
  <2>. QED  BY <2>2, <2>3, OnlyRegisterWrites
<1>. QED  BY <1>1, <1>2, InvHolds, PTL DEF Spec

(* An ID never changes its content: whatever conflicting job is run under    *)
(* it, declined or archived, the hash it was first recorded with stays.      *)
THEOREM IdentityNeverChanges == Spec => IdentityIsStable
<1>. DEFINE Stable == \A i \in Id : Known(registry, i) =>
                        Known(registry', i) /\ registry'[i].hash = registry[i].hash
<1>1. TypeInv /\ LockInv /\ [Next]_vars => [Stable]_vars
  <2>. SUFFICES ASSUME TypeInv, LockInv, [Next]_vars, NEW i \in Id, Known(registry, i)
                PROVE  Known(registry', i) /\ registry'[i].hash = registry[i].hash
    OBVIOUS
  <2>1. CASE UNCHANGED <<registry, recorded>>
    BY <2>1 DEF Known
  <2>2. ASSUME NEW p \in Proc, Register(p)
        PROVE  Known(registry', i) /\ registry'[i].hash = registry[i].hash
    <3>. DEFINE u == Updated(registry, job[p], verdict[p])
    <3>1. /\ registry' = [registry EXCEPT ![job[p].id] = u]
          /\ registry \in [Id -> Record \cup {NoRecord}]
          /\ registry' \in Registry
      BY <2>2, RegisterType DEF Registry
    <3>2. u \in Record /\ (Known(registry, job[p].id) => u.hash = registry[job[p].id].hash)
      BY <2>2, RegisterType, UpdatedType
    <3>. HIDE DEF u
    <3>3. CASE i = job[p].id
      <4>1. registry'[i] = u
        BY <3>1, <3>3
      <4>2. u.runs # 0
        BY <3>2 DEF Record
      <4>3. Known(registry', i)
        BY <3>1, <4>1, <4>2, KnownType
      <4>. QED  BY <3>2, <3>3, <4>1, <4>3
    <3>4. CASE i # job[p].id
      <4>1. registry'[i] = registry[i]
        BY <3>1, <3>4
      <4>. QED  BY <4>1 DEF Known
    <3>. QED  BY <3>3, <3>4
  <2>. QED  BY <2>1, <2>2, OnlyRegisterWrites
<1>. QED  BY <1>1, InvHolds, PTL DEF Spec, IdentityIsStable
=============================================================================
