------------------------- MODULE HousekeepingProofs -------------------------
(***************************************************************************)
(* Proofs about Housekeeping, for any number of processes, edits, updates  *)
(* and crashes: the managed files belong to one project, what is finished  *)
(* stays, and no guide is replaced whose bytes are not in a backup.        *)
(***************************************************************************)
EXTENDS Housekeeping, TLAPS

-----------------------------------------------------------------------------
(* The inductive invariant *)

State == {"missing", "torn", "whole"}
File == [state : State, project : Project \cup {NoProject}, text : Text]

(* Labels of a command that holds the lock, and of one that has read its     *)
(* project from the configuration.                                           *)
Held == {"replanning", "backing up", "filling backup", "staging", "replacing",
         "updating", "writing", "recording", "filling record", "unlocking"}
Knowing == Held \cup {"scaffolding", "filling", "reviewed"}
Label == Knowing \cup {"idle", "configuring", "filling config", "loading"}
Refreshing == {"reviewed", "replanning", "backing up", "filling backup", "staging",
               "replacing"}

TypeOK ==
  /\ file \in [Name -> File]
  /\ backup \in [Text -> State] /\ history \in [Slot -> State]
  /\ lock \in Proc \cup {NoProc}
  /\ pc \in [Proc -> Label] /\ at \in [Proc -> Nat]
  /\ project \in [Proc -> Project \cup {NoProject}]
  /\ seen \in [Proc -> Text] /\ late \in [Proc -> BOOLEAN]
  /\ bounds \in [edits : 0..MaxEdits, started : 0..MaxUpdates, crashes : Nat]

(* The notes in the guide are the owner's edits, those in the baseline the   *)
(* updates: this keeps both within Text.                                     *)
NotesOK ==
  /\ file["guide"].text.notes <= bounds.edits
  /\ file["baseline"].text.notes <= bounds.started
  /\ \A p \in Proc :
       /\ pc[p] \in Refreshing => seen[p].notes <= bounds.edits
       /\ pc[p] = "updating" => file["baseline"].text.notes < bounds.started
       /\ pc[p] = "writing" => seen[p].notes < bounds.started

LockOK == \A p \in Proc : pc[p] \in Held => lock = p

TypeInv == TypeOK /\ NotesOK /\ LockOK

(* The configuration is created by one process, and final once it is whole. *)
ConfigOK ==
  \A p \in Proc :
    /\ pc[p] = "filling config" =>
         /\ file["config"].state = "torn"
         /\ \A q \in Proc : pc[q] = "filling config" => q = p
    /\ pc[p] \in Knowing =>
         file["config"].state = "whole" /\ project[p] = file["config"].project

(* Init works through the generated files. *)
Starting == {"idle", "configuring", "filling config", "loading"}
ScaffoldOK ==
  \A p \in Proc :
    /\ pc[p] \in Starting => at[p] = 1
    /\ pc[p] = "scaffolding" => at[p] \in 1..(Len(Generated) + 1)
    /\ pc[p] = "filling" => at[p] \in 1..Len(Generated)

(* A record in the making is its writer's own. *)
RecordOK ==
  \A p \in Proc : pc[p] = "filling record" => at[p] \in Slot /\ history[at[p]] = "torn"

(* A guide of an older version is whole from the start: no init is about to  *)
(* write it, or to take it away after a failing write.                       *)
LegacyOK ==
  \A p \in Proc :
    pc[p] = "filling" /\ Generated[at[p]] = "guide" => file["guide"].text.template # "legacy"

(* What a refresh knows of the guide it is about to replace. *)
GuideOK ==
  \A p \in Proc :
    /\ pc[p] \in {"backing up", "filling backup", "staging", "replacing"} =>
         seen[p].template = "legacy"
    /\ pc[p] \in {"staging", "replacing"} => backup[seen[p]] = "whole"
    /\ pc[p] = "replacing" /\ late[p] = FALSE =>
         file["guide"].state = "whole" /\ file["guide"].text = seen[p]

-----------------------------------------------------------------------------
(* Type correctness *)

LEMMA FileTypes ==
  /\ Fresh \in Text /\ Missing \in File /\ Torn \in File
  /\ \A q \in Project, t \in Text : Whole(q, t) \in File
<1>1. 0 \in 0..(MaxEdits + MaxUpdates)
  BY HousekeepingAssumption
<1>2. Fresh \in Text
  BY <1>1 DEF Fresh, Text
<1>. QED  BY <1>2 DEF Missing, Torn, Whole, File, State

LEMMA GeneratedNames ==
  /\ Len(Generated) = 3
  /\ Generated[1] = "guide" /\ Generated[2] = "registry" /\ Generated[3] = "baseline"
  /\ Name = {"config", "guide", "registry", "baseline"}
  /\ \A k \in 1..3 : Generated[k] \in Name /\ Generated[k] # "config"
<1>1. /\ Len(Generated) = 3 /\ Generated[1] = "guide" /\ Generated[2] = "registry"
      /\ Generated[3] = "baseline" /\ DOMAIN Generated = 1..3
  BY DEF Generated
<1>2. Range(Generated) = {"guide", "registry", "baseline"}
  BY <1>1 DEF Range
<1>. QED  BY <1>1, <1>2 DEF Name

LEMMA Scaffolding ==
  ASSUME ScaffoldOK, NEW p \in Proc,
         pc[p] = "filling" \/ (pc[p] = "scaffolding" /\ at[p] <= Len(Generated))
  PROVE  /\ at[p] \in 1..3 /\ Generated[at[p]] \in Name
         /\ Generated[at[p]] # "config"
<1>1. Len(Generated) = 3
  BY GeneratedNames
<1>2. at[p] \in 1..3
  BY <1>1 DEF ScaffoldOK
<1>. QED  BY <1>2, GeneratedNames

LEMMA InitTypeInv == Init => TypeInv
<1>. SUFFICES ASSUME Init PROVE TypeInv
  OBVIOUS
<1>1. /\ MaxEdits \in Nat /\ MaxUpdates \in Nat /\ NoProject \notin Project
      /\ OldProject \in Project
  BY HousekeepingAssumption DEF Project
<1>2. [Fresh EXCEPT !.template = "legacy"] \in Text
      /\ [Fresh EXCEPT !.template = "legacy"].notes = 0
  BY FileTypes DEF Text, Fresh
<1>3. /\ file \in [Name -> File]
      /\ file["guide"].text.notes = 0 /\ file["baseline"].text.notes = 0
  <2>1. CASE file = [n \in Name |-> Missing]
    BY <2>1, FileTypes, GeneratedNames DEF Missing, Fresh
  <2>2. CASE file = [n \in Name |-> Whole(OldProject,
               IF n = "guide" THEN [Fresh EXCEPT !.template = "legacy"] ELSE Fresh)]
    BY <1>1, <1>2, <2>2, FileTypes, GeneratedNames DEF Whole, Fresh
  <2>. QED  BY <2>1, <2>2 DEF Init
<1>4. TypeOK
  BY <1>1, <1>3, FileTypes DEF Init, TypeOK, Label, Knowing, Held, State
<1>5. NotesOK
  BY <1>1, <1>3 DEF Init, NotesOK, Refreshing
<1>. QED  BY <1>4, <1>5 DEF TypeInv, LockOK, Init, Held

(* What leaving a command does to the variables of the processes. *)
LEMMA LeaveType ==
  ASSUME TypeOK, NEW p \in Proc, Leave(p)
  PROVE  /\ lock' \in Proc \cup {NoProc}
         /\ pc' \in [Proc -> Label] /\ at' \in [Proc -> Nat]
         /\ project' \in [Proc -> Project \cup {NoProject}]
         /\ seen' \in [Proc -> Text] /\ late' \in [Proc -> BOOLEAN]
  BY FileTypes DEF TypeOK, Leave, Goto, Label

LEMMA EndsType ==
  ASSUME TypeInv, NEW p \in Proc, UNCHANGED disk,
         \/ LoadConfigFails(p) \/ InitDone(p) \/ Locked(p) \/ ReplanEnds(p) \/ BackupFails(p)
         \/ StagingFails(p) \/ UpdateFails(p) \/ Unlock(p) \/ Crash(p)
  PROVE  TypeOK'
<1>1. Leave(p) /\ UNCHANGED <<file, backup, history>>
  BY DEF LoadConfigFails, InitDone, Locked, ReplanEnds, BackupFails, StagingFails,
         UpdateFails, Unlock, Crash, disk
<1>2. bounds' \in [edits : 0..MaxEdits, started : 0..MaxUpdates, crashes : Nat]
  <2>1. CASE Crash(p)
    BY <2>1 DEF TypeInv, TypeOK, Crash
  <2>2. CASE ~Crash(p)
    BY <2>2 DEF TypeInv, TypeOK, LoadConfigFails, InitDone, Locked, ReplanEnds, BackupFails,
                StagingFails, UpdateFails, Unlock
  <2>. QED  BY <2>1, <2>2
<1>. QED  BY <1>1, <1>2, LeaveType DEF TypeInv, TypeOK

LEMMA InitialiseType ==
  ASSUME TypeInv, ScaffoldOK, NEW p \in Proc, Initialise(p)
  PROVE  TypeOK'
<1>. USE FileTypes DEF TypeInv, disk, memory, Goto, Put
<1>0. "config" \in Name /\ "guide" \in Name
  BY GeneratedNames
<1>1. CASE InitBegin(p)
  BY <1>1 DEF InitBegin, TypeOK, Label
<1>2. CASE OpenConfig(p)
  BY <1>0, <1>2 DEF OpenConfig, TypeOK, Label
<1>3. CASE FillConfig(p)
  <2>1. Whole(FreshProject[p], Fresh) \in File
    BY HousekeepingAssumption
  <2>. QED  BY <1>0, <1>3, <2>1 DEF FillConfig, TypeOK, Label
<1>4. CASE LoadConfig(p)
  <2>1. file["config"].project \in Project \cup {NoProject}
    BY <1>0 DEF TypeOK, File
  <2>. QED  BY <1>0, <1>4, <2>1 DEF LoadConfig, TypeOK, Label, Knowing
<1>5. CASE CreateNext(p)
  <2>1. pc[p] = "scaffolding" /\ at[p] <= Len(Generated)
    BY <1>5 DEF CreateNext
  <2>2. at[p] \in 1..3 /\ Generated[at[p]] \in Name
    BY <2>1, Scaffolding
  <2>3. Generated[at[p]] \in Name
    BY <2>2
  <2>4. file' \in [Name -> File]
    BY <1>0, <1>5, <2>3 DEF CreateNext, TypeOK
  <2>5. pc' \in [Proc -> Label]
    BY <1>5 DEF CreateNext, TypeOK, Label, Knowing
  <2>6. at' \in [Proc -> Nat]
    BY <1>5, <2>2 DEF CreateNext, TypeOK
  <2>. QED  BY <1>5, <2>4, <2>5, <2>6 DEF CreateNext, TypeOK
<1>6. CASE FillNext(p)
  <2>0. pc[p] = "filling"
    BY <1>6 DEF FillNext
  <2>1. at[p] \in 1..3 /\ Generated[at[p]] \in Name
    BY <2>0, Scaffolding
  <2>2. project[p] \in Project \cup {NoProject} /\ Whole(project[p], Fresh) \in File
    BY DEF TypeOK, Whole, File, State
  <2>3. file' \in [Name -> File]
    BY <1>0, <1>6, <2>1, <2>2 DEF FillNext, TypeOK
  <2>4. pc' \in [Proc -> Label]
    BY <1>6 DEF FillNext, TypeOK, Label, Knowing
  <2>5. at' \in [Proc -> Nat]
    BY <1>6, <2>1 DEF FillNext, TypeOK
  <2>. QED  BY <1>6, <2>3, <2>4, <2>5 DEF FillNext, TypeOK
<1>7. CASE FillFails(p)
  <2>1. ASSUME pc[p] = "filling" PROVE Generated[at[p]] \in Name
    BY <2>1, Scaffolding
  <2>2. file' \in [Name -> File]
    BY <1>0, <1>7, <2>1 DEF FillFails, TypeOK
  <2>. QED  BY <1>7, <2>2, LeaveType DEF FillFails, TypeOK
<1>8. CASE LoadConfigFails(p) \/ InitDone(p)
  BY <1>8, EndsType DEF LoadConfigFails, InitDone
<1>. QED  BY <1>1, <1>2, <1>3, <1>4, <1>5, <1>6, <1>7, <1>8 DEF Initialise

LEMMA RefreshType ==
  ASSUME TypeInv, NEW p \in Proc, Refresh(p)
  PROVE  TypeOK'
<1>. USE FileTypes DEF TypeInv, disk, memory, Goto
<1>0. "config" \in Name /\ "guide" \in Name
  BY GeneratedNames
<1>1. CASE ReviewGuide(p)
  <2>1. file["guide"].text \in Text /\ file["config"].project \in Project \cup {NoProject}
    BY <1>0 DEF TypeOK, File
  <2>. QED  BY <1>1, <2>1 DEF ReviewGuide, TypeOK, Label, Knowing
<1>2. CASE LockForGuide(p)
  BY <1>2 DEF LockForGuide, Lock, TypeOK, Label, Knowing, Held
<1>3. CASE Replan(p) \/ Recheck(p)
  BY <1>3 DEF Replan, Recheck, TypeOK, Label, Knowing, Held
<1>4. CASE OpenBackup(p) \/ FillBackup(p)
  BY <1>4 DEF OpenBackup, FillBackup, TypeOK, Label, Knowing, Held, State
<1>5. CASE ReplaceGuide(p)
  <2>1. [seen[p] EXCEPT !.template = "current"] \in Text
    BY DEF TypeOK, Text
  <2>2. project[p] \in Project \cup {NoProject}
    BY DEF TypeOK
  <2>3. Whole(project[p], [seen[p] EXCEPT !.template = "current"]) \in File
    BY <2>1, <2>2 DEF Whole, File, State
  <2>. QED  BY <1>0, <1>5, <2>3 DEF ReplaceGuide, Put, TypeOK, Label, Knowing, Held
<1>6. CASE Locked(p) \/ ReplanEnds(p) \/ BackupFails(p) \/ StagingFails(p)
  BY <1>6, EndsType DEF Locked, ReplanEnds, BackupFails, StagingFails
<1>. QED  BY <1>1, <1>2, <1>3, <1>4, <1>5, <1>6 DEF Refresh

LEMMA UpdateType ==
  ASSUME TypeInv, NEW p \in Proc, Update(p)
  PROVE  TypeOK'
<1>. USE FileTypes DEF TypeInv, disk, memory, Goto
<1>0. /\ "config" \in Name /\ "baseline" \in Name
      /\ MaxUpdates \in Nat /\ MaxEdits \in Nat
  BY GeneratedNames, HousekeepingAssumption
<1>1. CASE BeginUpdate(p)
  <2>1. file["config"].project \in Project \cup {NoProject}
    BY <1>0 DEF TypeOK, File
  <2>2. bounds' \in [edits : 0..MaxEdits, started : 0..MaxUpdates, crashes : Nat]
    BY <1>0, <1>1 DEF BeginUpdate, Start, TypeOK
  <2>3. pc' \in [Proc -> Label]
    BY <1>1 DEF BeginUpdate, Start, TypeOK, Label, Knowing, Held
  <2>. QED  BY <1>1, <2>1, <2>2, <2>3 DEF BeginUpdate, Start, TypeOK
<1>2. CASE LoadBaseline(p)
  <2>1. file["baseline"].text \in Text
    BY <1>0 DEF TypeOK, File
  <2>. QED  BY <1>2, <2>1 DEF LoadBaseline, TypeOK, Label, Knowing, Held
<1>3. CASE ReplaceBaseline(p)
  <2>1. seen[p] \in Text /\ seen[p].notes < bounds.started /\ bounds.started \in 0..MaxUpdates
    BY <1>3 DEF ReplaceBaseline, TypeOK, NotesOK
  <2>2. seen[p].notes + 1 \in 0..(MaxEdits + MaxUpdates)
    <3>1. seen[p].notes \in 0..(MaxEdits + MaxUpdates)
      BY <2>1 DEF Text
    <3>. QED  BY <1>0, <2>1, <3>1
  <2>3. [seen[p] EXCEPT !.notes = @ + 1] \in Text
    BY <2>1, <2>2 DEF Text
  <2>4. project[p] \in Project \cup {NoProject}
    BY DEF TypeOK
  <2>5. Whole(project[p], [seen[p] EXCEPT !.notes = @ + 1]) \in File
    BY <2>3, <2>4 DEF Whole, File, State
  <2>. QED  BY <1>0, <1>3, <2>5 DEF ReplaceBaseline, Put, TypeOK, Label, Knowing, Held
<1>4. CASE UpdateFails(p)
  BY <1>4, EndsType DEF UpdateFails
<1>. QED  BY <1>1, <1>2, <1>3, <1>4 DEF Update

LEMMA RecordType ==
  ASSUME TypeInv, NEW p \in Proc, Record(p)
  PROVE  TypeOK'
<1>. USE FileTypes DEF TypeInv, disk, memory, Goto
<1>0. "config" \in Name /\ MaxUpdates \in Nat
  BY GeneratedNames, HousekeepingAssumption
<1>1. CASE BeginRecord(p)
  <2>1. file["config"].project \in Project \cup {NoProject}
    BY <1>0 DEF TypeOK, File
  <2>2. bounds' \in [edits : 0..MaxEdits, started : 0..MaxUpdates, crashes : Nat]
    BY <1>0, <1>1 DEF BeginRecord, Start, TypeOK
  <2>3. pc' \in [Proc -> Label]
    BY <1>1 DEF BeginRecord, Start, TypeOK, Label, Knowing, Held
  <2>. QED  BY <1>1, <2>1, <2>2, <2>3 DEF BeginRecord, Start, TypeOK
<1>2. CASE OpenRecord(p)
  <2>1. PICK k \in Slot : at' = [at EXCEPT ![p] = k] /\ history' = [history EXCEPT ![k] = "torn"]
    BY <1>2 DEF OpenRecord
  <2>2. at' \in [Proc -> Nat]
    BY <1>0, <2>1 DEF Slot, TypeOK
  <2>3. history' \in [Slot -> State] /\ pc' \in [Proc -> Label]
    BY <1>2, <2>1 DEF OpenRecord, TypeOK, State, Label, Knowing, Held
  <2>. QED  BY <1>2, <2>2, <2>3 DEF OpenRecord, TypeOK
<1>3. CASE FillRecord(p)
  BY <1>3 DEF FillRecord, TypeOK, State, Label, Knowing, Held
<1>4. CASE RecordFails(p)
  <2>1. history' \in [Slot -> State]
    BY <1>4 DEF RecordFails, TypeOK, State
  <2>. QED  BY <1>4, <2>1, LeaveType DEF RecordFails, TypeOK
<1>. QED  BY <1>1, <1>2, <1>3, <1>4 DEF Record

LEMMA EditGuideType ==
  ASSUME TypeInv, EditGuide
  PROVE  TypeOK'
<1>0. /\ MaxUpdates \in Nat /\ MaxEdits \in Nat /\ "guide" \in Name
      /\ bounds \in [edits : 0..MaxEdits, started : 0..MaxUpdates, crashes : Nat]
  BY GeneratedNames, HousekeepingAssumption DEF TypeInv, TypeOK
<1>1. bounds' \in [edits : 0..MaxEdits, started : 0..MaxUpdates, crashes : Nat]
  BY <1>0 DEF EditGuide
<1>2. /\ file["guide"] \in File /\ file["guide"].text \in Text
      /\ file["guide"].text.notes <= bounds.edits
  BY <1>0 DEF TypeInv, TypeOK, NotesOK, File
<1>3. file' \in [Name -> File]
  <2>1. [file["guide"] EXCEPT !.text.notes = @ + 1] \in File
    <3>1. file["guide"].text.notes + 1 \in 0..(MaxEdits + MaxUpdates)
      <4>1. file["guide"].text.notes \in 0..(MaxEdits + MaxUpdates)
        BY <1>2 DEF Text
      <4>2. bounds.edits < MaxEdits /\ bounds.edits \in Nat
        BY <1>0 DEF EditGuide
      <4>. QED  BY <1>0, <1>2, <4>1, <4>2
    <3>2. [file["guide"].text EXCEPT !.notes = @ + 1] \in Text
      BY <1>2, <3>1 DEF Text
    <3>. QED  BY <1>2, <3>2 DEF File
  <2>2. [file["guide"] EXCEPT !.text.template = "edited"] \in File
    <3>1. [file["guide"].text EXCEPT !.template = "edited"] \in Text
      BY <1>2 DEF Text
    <3>. QED  BY <1>2, <3>1 DEF File
  <2>. QED  BY <1>0, <2>1, <2>2, FileTypes DEF EditGuide, Put, TypeInv, TypeOK
<1>. QED  BY <1>1, <1>3 DEF EditGuide, TypeInv, TypeOK

(* One step of one process. *)
Step(p) == Initialise(p) \/ Refresh(p) \/ Update(p) \/ Record(p) \/ Unlock(p) \/ Crash(p)

LEMMA NextType ==
  ASSUME TypeInv, ScaffoldOK, [Next]_vars
  PROVE  TypeOK'
<1>1. ASSUME NEW p \in Proc, Step(p) PROVE TypeOK'
  <2>1. CASE Unlock(p) \/ Crash(p)
    BY <2>1, EndsType DEF Unlock, Crash
  <2>. QED
    BY <1>1, <2>1, InitialiseType, RefreshType, UpdateType, RecordType DEF Step
<1>2. CASE UNCHANGED vars
  BY <1>2 DEF vars, TypeInv, TypeOK
<1>. QED  BY <1>1, <1>2, EditGuideType DEF Next, Step

-----------------------------------------------------------------------------
(* What a step changes *)

(* The ways a command ends. *)
Ends(p) ==
  \/ LoadConfigFails(p) \/ FillFails(p) \/ InitDone(p) \/ Locked(p) \/ ReplanEnds(p)
  \/ BackupFails(p) \/ StagingFails(p) \/ UpdateFails(p) \/ RecordFails(p)
  \/ Unlock(p) \/ Crash(p)
Continues(p) ==
  \/ InitBegin(p) \/ OpenConfig(p) \/ FillConfig(p) \/ LoadConfig(p) \/ CreateNext(p)
  \/ FillNext(p) \/ ReviewGuide(p) \/ LockForGuide(p) \/ Replan(p) \/ OpenBackup(p)
  \/ FillBackup(p) \/ Recheck(p) \/ ReplaceGuide(p) \/ BeginUpdate(p) \/ LoadBaseline(p)
  \/ ReplaceBaseline(p) \/ BeginRecord(p) \/ OpenRecord(p) \/ FillRecord(p)

LEMMA StepCases ==
  ASSUME NEW p \in Proc, Step(p)
  PROVE  (Ends(p) /\ Leave(p)) \/ Continues(p)
  BY DEF Step, Initialise, Refresh, Update, Record, Ends, Continues, LoadConfigFails,
         FillFails, InitDone, Locked, ReplanEnds, BackupFails, StagingFails, UpdateFails,
         RecordFails, Unlock, Crash

(* The label of the process that takes the step. *)
LEMMA ContinuesTo ==
  ASSUME TypeOK, NEW p \in Proc, Continues(p)
  PROVE  \/ InitBegin(p) /\ pc'[p] \in {"configuring", "loading"}
         \/ OpenConfig(p) /\ pc'[p] \in {"filling config", "loading"}
         \/ FillConfig(p) /\ pc'[p] = "loading"
         \/ LoadConfig(p) /\ pc'[p] = "scaffolding"
         \/ CreateNext(p) /\ pc'[p] \in {"scaffolding", "filling"}
         \/ FillNext(p) /\ pc'[p] = "scaffolding"
         \/ ReviewGuide(p) /\ pc'[p] = "reviewed"
         \/ LockForGuide(p) /\ pc'[p] = "replanning"
         \/ Replan(p) /\ pc'[p] = "backing up"
         \/ OpenBackup(p) /\ pc'[p] \in {"filling backup", "staging"}
         \/ FillBackup(p) /\ pc'[p] = "staging"
         \/ Recheck(p) /\ pc'[p] = "replacing"
         \/ ReplaceGuide(p) /\ pc'[p] = "unlocking"
         \/ BeginUpdate(p) /\ pc'[p] = "updating"
         \/ LoadBaseline(p) /\ pc'[p] = "writing"
         \/ ReplaceBaseline(p) /\ pc'[p] = "unlocking"
         \/ BeginRecord(p) /\ pc'[p] = "recording"
         \/ OpenRecord(p) /\ pc'[p] = "filling record"
         \/ FillRecord(p) /\ pc'[p] = "unlocking"
<1>. USE DEF TypeOK, Goto
<1>1. CASE InitBegin(p) \/ OpenConfig(p) \/ FillConfig(p) \/ LoadConfig(p)
  BY <1>1 DEF InitBegin, OpenConfig, FillConfig, LoadConfig
<1>2. CASE CreateNext(p) \/ FillNext(p)
  BY <1>2 DEF CreateNext, FillNext
<1>3. CASE ReviewGuide(p) \/ LockForGuide(p) \/ Replan(p)
  BY <1>3 DEF ReviewGuide, LockForGuide, Lock, Replan
<1>4. CASE OpenBackup(p) \/ FillBackup(p) \/ Recheck(p) \/ ReplaceGuide(p)
  BY <1>4 DEF OpenBackup, FillBackup, Recheck, ReplaceGuide
<1>5. CASE BeginUpdate(p) \/ LoadBaseline(p) \/ ReplaceBaseline(p)
  BY <1>5 DEF BeginUpdate, Start, LoadBaseline, ReplaceBaseline
<1>6. CASE BeginRecord(p) \/ OpenRecord(p) \/ FillRecord(p)
  BY <1>6 DEF BeginRecord, Start, OpenRecord, FillRecord
<1>. QED  BY <1>1, <1>2, <1>3, <1>4, <1>5, <1>6 DEF Continues

LEMMA Leaves ==
  ASSUME TypeOK, NEW p \in Proc, Leave(p)
  PROVE  /\ pc'[p] = "idle" /\ lock' = (IF lock = p THEN NoProc ELSE lock)
         /\ project'[p] = NoProject /\ at'[p] = 1
  BY DEF TypeOK, Leave, Goto

LEMMA OthersStay ==
  ASSUME TypeOK, NEW p \in Proc, Step(p), NEW q \in Proc, q # p
  PROVE  /\ pc'[q] = pc[q] /\ at'[q] = at[q] /\ project'[q] = project[q]
         /\ seen'[q] = seen[q] /\ late'[q] = late[q]
<1>. USE DEF TypeOK, Goto, memory
<1>1. CASE Leave(p)
  BY <1>1 DEF Leave
<1>2. CASE InitBegin(p) \/ OpenConfig(p) \/ FillConfig(p) \/ LoadConfig(p)
  BY <1>2 DEF InitBegin, OpenConfig, FillConfig, LoadConfig
<1>3. CASE CreateNext(p) \/ FillNext(p)
  BY <1>3 DEF CreateNext, FillNext
<1>4. CASE ReviewGuide(p) \/ LockForGuide(p) \/ Replan(p)
  BY <1>4 DEF ReviewGuide, LockForGuide, Lock, Replan
<1>5. CASE OpenBackup(p) \/ FillBackup(p) \/ Recheck(p) \/ ReplaceGuide(p)
  BY <1>5 DEF OpenBackup, FillBackup, Recheck, ReplaceGuide
<1>6. CASE BeginUpdate(p) \/ LoadBaseline(p) \/ ReplaceBaseline(p)
  BY <1>6 DEF BeginUpdate, Start, LoadBaseline, ReplaceBaseline
<1>7. CASE BeginRecord(p) \/ OpenRecord(p) \/ FillRecord(p)
  BY <1>7 DEF BeginRecord, Start, OpenRecord, FillRecord
<1>. QED  BY <1>1, <1>2, <1>3, <1>4, <1>5, <1>6, <1>7, StepCases DEF Continues

(* The steps that change a managed file, a backup or a record. *)
LEMMA FileChanges ==
  ASSUME NEW p \in Proc, Step(p)
  PROVE  \/ UNCHANGED file
         \/ OpenConfig(p) \/ FillConfig(p) \/ CreateNext(p) \/ FillNext(p) \/ FillFails(p)
         \/ ReplaceGuide(p) \/ ReplaceBaseline(p)
  BY StepCases DEF Ends, Continues, LoadConfigFails, InitDone, Locked, ReplanEnds, BackupFails,
     StagingFails, UpdateFails, RecordFails, Unlock, Crash, InitBegin, LoadConfig, ReviewGuide,
     LockForGuide, Lock, Replan, OpenBackup, FillBackup, Recheck, BeginUpdate, LoadBaseline,
     BeginRecord, OpenRecord, FillRecord, disk

LEMMA BackupChanges ==
  ASSUME NEW p \in Proc, Step(p)
  PROVE  UNCHANGED backup \/ OpenBackup(p) \/ FillBackup(p)
  BY StepCases DEF Ends, Continues, LoadConfigFails, InitDone, Locked, ReplanEnds, BackupFails,
     StagingFails, UpdateFails, RecordFails, Unlock, Crash, InitBegin, LoadConfig, ReviewGuide,
     LockForGuide, Lock, Replan, Recheck, BeginUpdate, LoadBaseline, BeginRecord, OpenRecord,
     FillRecord, OpenConfig, FillConfig, CreateNext, FillNext, FillFails, ReplaceGuide,
     ReplaceBaseline, disk

LEMMA HistoryChanges ==
  ASSUME NEW p \in Proc, Step(p)
  PROVE  UNCHANGED history \/ OpenRecord(p) \/ FillRecord(p) \/ RecordFails(p)
  BY StepCases DEF Ends, Continues, LoadConfigFails, InitDone, Locked, ReplanEnds, BackupFails,
     StagingFails, UpdateFails, Unlock, Crash, InitBegin, LoadConfig, ReviewGuide,
     LockForGuide, Lock, Replan, OpenBackup, FillBackup, Recheck, BeginUpdate, LoadBaseline,
     BeginRecord, OpenConfig, FillConfig, CreateNext, FillNext, FillFails, ReplaceGuide,
     ReplaceBaseline, disk

LEMMA BoundsGrow ==
  ASSUME TypeOK, NEW p \in Proc, Step(p)
  PROVE  bounds'.edits = bounds.edits /\ bounds'.started >= bounds.started
<1>0. bounds \in [edits : 0..MaxEdits, started : 0..MaxUpdates, crashes : Nat]
  BY DEF TypeOK
<1>1. UNCHANGED bounds \/ Crash(p) \/ Start(p, "updating") \/ Start(p, "recording")
  BY StepCases DEF Ends, Continues, LoadConfigFails, InitDone, Locked, ReplanEnds, BackupFails,
     StagingFails, UpdateFails, RecordFails, Unlock, InitBegin, LoadConfig, ReviewGuide,
     LockForGuide, Lock, Replan, OpenBackup, FillBackup, Recheck, BeginUpdate, LoadBaseline,
     BeginRecord, OpenConfig, FillConfig, CreateNext, FillNext, FillFails, ReplaceGuide,
     ReplaceBaseline, OpenRecord, FillRecord
<1>. QED  BY <1>0, <1>1, HousekeepingAssumption DEF Crash, Start

-----------------------------------------------------------------------------
(* Locks and labels *)

LEMMA LockStep ==
  ASSUME TypeOK, NEW p \in Proc, Step(p)
  PROVE  \/ Leave(p) /\ pc'[p] = "idle"
         \/ lock = NoProc /\ lock' = p
         \/ lock' = lock /\ (pc'[p] \in Held => pc[p] \in Held)
<1>1. CASE Leave(p)
  BY <1>1, Leaves
<1>2. CASE Continues(p)
  <2>. USE DEF Held
  <2>1. CASE InitBegin(p) \/ OpenConfig(p) \/ FillConfig(p) \/ LoadConfig(p)
               \/ CreateNext(p) \/ FillNext(p) \/ ReviewGuide(p)
    <3>1. lock' = lock
      BY <2>1 DEF InitBegin, OpenConfig, FillConfig, LoadConfig, CreateNext, FillNext, ReviewGuide
    <3>2. pc'[p] \notin Held
      BY <2>1 DEF InitBegin, OpenConfig, FillConfig, LoadConfig, CreateNext, FillNext,
         ReviewGuide, Goto, TypeOK
    <3>. QED  BY <3>1, <3>2
  <2>2. CASE LockForGuide(p) \/ BeginUpdate(p) \/ BeginRecord(p)
    BY <2>2 DEF LockForGuide, Lock, BeginUpdate, BeginRecord, Start
  <2>3. CASE Replan(p) \/ OpenBackup(p) \/ FillBackup(p) \/ Recheck(p) \/ ReplaceGuide(p)
               \/ LoadBaseline(p) \/ ReplaceBaseline(p) \/ OpenRecord(p) \/ FillRecord(p)
    BY <2>3 DEF Replan, OpenBackup, FillBackup, Recheck, ReplaceGuide, LoadBaseline,
                ReplaceBaseline, OpenRecord, FillRecord
  <2>. QED  BY <1>2, <2>1, <2>2, <2>3 DEF Continues
<1>. QED  BY <1>1, <1>2, StepCases

LEMMA NextLock ==
  ASSUME TypeInv, [Next]_vars
  PROVE  LockOK'
<1>1. ASSUME NEW p \in Proc, Step(p), NEW q \in Proc, pc'[q] \in Held PROVE lock' = q
  <2>0. TypeOK /\ (\A r \in Proc : pc[r] \in Held => lock = r) /\ NoProc \notin Proc
    BY HousekeepingAssumption DEF TypeInv, LockOK
  <2>1. CASE q = p
    <3>1. pc'[p] # "idle"
      BY <1>1, <2>1 DEF Held
    <3>. QED  BY <1>1, <2>0, <2>1, <3>1, LockStep
  <2>2. CASE q # p
    <3>1. lock = q
      BY <1>1, <2>0, <2>2, OthersStay
    <3>2. ASSUME Leave(p) PROVE lock' = lock
      BY <2>0, <2>2, <3>1, <3>2, Leaves
    <3>. QED  BY <1>1, <2>0, <2>2, <3>1, <3>2, LockStep
  <2>. QED  BY <2>1, <2>2
<1>2. CASE EditGuide \/ UNCHANGED vars
  BY <1>2 DEF EditGuide, vars, TypeInv, LockOK
<1>. QED  BY <1>1, <1>2 DEF Next, Step, LockOK

-----------------------------------------------------------------------------
(* What happens to one file *)

LEMMA FileAfter ==
  ASSUME TypeOK, ScaffoldOK, NEW p \in Proc, Step(p), NEW n \in Name, file'[n] # file[n]
  PROVE  \/ /\ n = "config" /\ OpenConfig(p)
            /\ file[n].state = "missing" /\ file'[n] = Torn
         \/ /\ n = "config" /\ FillConfig(p) /\ pc[p] = "filling config"
            /\ file'[n] = Whole(FreshProject[p], Fresh)
         \/ /\ n = "config" /\ FillFails(p) /\ pc[p] = "filling config"
            /\ file'[n] = Missing
         \/ /\ n # "config" /\ CreateNext(p) /\ pc[p] = "scaffolding"
            /\ file[n].state = "missing" /\ file'[n] = Torn
         \/ /\ n # "config" /\ FillNext(p) /\ pc[p] = "filling"
            /\ file[n].state = "torn" /\ file'[n] = Whole(project[p], Fresh)
         \/ /\ n = Generated[at[p]] /\ n # "config" /\ FillFails(p) /\ pc[p] = "filling"
            /\ file'[n] = Missing /\ pc'[p] = "idle"
         \/ /\ n = "guide" /\ ReplaceGuide(p) /\ pc[p] = "replacing"
            /\ file'[n] = Whole(project[p], [seen[p] EXCEPT !.template = "current"])
         \/ /\ n = "baseline" /\ ReplaceBaseline(p) /\ pc[p] = "writing"
            /\ file'[n] = Whole(project[p], [seen[p] EXCEPT !.notes = @ + 1])
<1>0. DOMAIN file = Name
  BY DEF TypeOK
<1>1. CASE OpenConfig(p)
  BY <1>0, <1>1 DEF OpenConfig, Put
<1>2. CASE FillConfig(p)
  BY <1>0, <1>2 DEF FillConfig, Put
<1>3. CASE CreateNext(p)
  <2>1. pc[p] = "scaffolding" /\ at[p] <= Len(Generated)
    BY <1>3 DEF CreateNext
  <2>2. Generated[at[p]] \in Name /\ Generated[at[p]] # "config"
    BY <2>1, Scaffolding
  <2>. QED  BY <1>0, <1>3, <2>1, <2>2 DEF CreateNext, Put
<1>4. CASE FillNext(p)
  <2>1. pc[p] = "filling"
    BY <1>4 DEF FillNext
  <2>2. Generated[at[p]] \in Name /\ Generated[at[p]] # "config"
    BY <2>1, Scaffolding
  <2>. QED  BY <1>0, <1>4, <2>1, <2>2 DEF FillNext, Put
<1>5. CASE FillFails(p)
  <2>1. Leave(p) /\ pc'[p] = "idle"
    BY <1>5, Leaves DEF FillFails
  <2>2. CASE pc[p] = "filling config" /\ Put("config", Missing)
    BY <1>0, <1>5, <2>2 DEF Put
  <2>3. CASE pc[p] = "filling" /\ Put(Generated[at[p]], Missing)
    <3>1. Generated[at[p]] \in Name /\ Generated[at[p]] # "config"
      BY <2>3, Scaffolding
    <3>. QED  BY <1>0, <1>5, <2>1, <2>3, <3>1 DEF Put
  <2>. QED  BY <1>5, <2>2, <2>3 DEF FillFails
<1>6. CASE ReplaceGuide(p)
  BY <1>0, <1>6 DEF ReplaceGuide, Put
<1>7. CASE ReplaceBaseline(p)
  BY <1>0, <1>7 DEF ReplaceBaseline, Put
<1>8. ~UNCHANGED file
  OBVIOUS
<1>. QED  BY <1>1, <1>2, <1>3, <1>4, <1>5, <1>6, <1>7, <1>8, FileChanges

LEMMA NextScaffold ==
  ASSUME TypeOK, ScaffoldOK, [Next]_vars
  PROVE  ScaffoldOK'
<1>1. ASSUME NEW p \in Proc, Step(p)
      PROVE  /\ pc'[p] \in Starting => at'[p] = 1
             /\ pc'[p] = "scaffolding" => at'[p] \in 1..(Len(Generated) + 1)
             /\ pc'[p] = "filling" => at'[p] \in 1..Len(Generated)
  <2>0. Len(Generated) = 3 /\ at[p] \in Nat /\ DOMAIN at = Proc
    BY GeneratedNames DEF TypeOK
  <2>. USE DEF Starting
  <2>1. CASE LoadConfig(p)
    <3>1. pc[p] = "loading" /\ pc'[p] = "scaffolding" /\ at'[p] = at[p]
      BY <2>1 DEF LoadConfig, TypeOK, Goto
    <3>2. at[p] = 1
      BY <3>1 DEF ScaffoldOK
    <3>. QED  BY <2>0, <3>1, <3>2
  <2>2. CASE CreateNext(p)
    <3>1. pc[p] = "scaffolding" /\ at[p] <= Len(Generated)
      BY <2>2 DEF CreateNext
    <3>2. at[p] \in 1..3
      BY <3>1, Scaffolding
    <3>3. \/ at'[p] = at[p] /\ pc'[p] = "filling"
          \/ at'[p] = at[p] + 1 /\ pc' = pc
      BY <2>0, <2>2 DEF CreateNext, TypeOK, Goto
    <3>4. CASE at'[p] = at[p] /\ pc'[p] = "filling"
      BY <2>0, <3>2, <3>4
    <3>5. CASE at'[p] = at[p] + 1 /\ pc' = pc
      <4>1. pc'[p] = "scaffolding"
        BY <3>1, <3>5
      <4>2. at'[p] \in 1..4
        BY <3>2, <3>5
      <4>. QED  BY <2>0, <4>1, <4>2
    <3>. QED  BY <3>3, <3>4, <3>5
  <2>3. CASE FillNext(p)
    <3>1. pc[p] = "filling" /\ pc'[p] = "scaffolding" /\ at'[p] = at[p] + 1
      BY <2>0, <2>3 DEF FillNext, Goto, TypeOK
    <3>2. at[p] \in 1..3
      BY <3>1, Scaffolding
    <3>. QED  BY <2>0, <3>1, <3>2
  <2>4. CASE InitBegin(p) \/ OpenConfig(p) \/ FillConfig(p)
    <3>1. pc[p] \in Starting /\ at'[p] = at[p] /\ pc'[p] \in Starting
      BY <2>4 DEF InitBegin, OpenConfig, FillConfig, memory, Goto, TypeOK
    <3>2. at[p] = 1
      BY <3>1 DEF ScaffoldOK
    <3>. QED  BY <3>1, <3>2
  <2>5. CASE Leave(p)
    BY <2>5, Leaves
  <2>6. CASE Continues(p) /\ ~(LoadConfig(p) \/ CreateNext(p) \/ FillNext(p)
                \/ InitBegin(p) \/ OpenConfig(p) \/ FillConfig(p))
    <3>1. pc'[p] \notin Starting \cup {"scaffolding", "filling"}
      BY <2>6, ContinuesTo
    <3>. QED  BY <3>1
  <2>. QED  BY <1>1, <2>1, <2>2, <2>3, <2>4, <2>5, <2>6, StepCases
<1>2. ASSUME NEW p \in Proc, Step(p), NEW q \in Proc, q # p
      PROVE  pc'[q] = pc[q] /\ at'[q] = at[q]
  BY <1>2, OthersStay
<1>3. CASE EditGuide \/ UNCHANGED vars
  BY <1>3 DEF EditGuide, vars, ScaffoldOK
<1>4. ASSUME NEW p \in Proc, Step(p) PROVE ScaffoldOK'
  BY <1>1, <1>2, <1>4 DEF ScaffoldOK
<1>. QED  BY <1>3, <1>4 DEF Next, Step

-----------------------------------------------------------------------------
(* The notes fit their type *)

LEMMA NotesNatural ==
  ASSUME TypeOK
  PROVE  /\ \A n \in Name : file[n].text.notes \in Nat
         /\ \A q \in Proc : seen[q].notes \in Nat
         /\ bounds.edits \in Nat /\ bounds.started \in Nat
<1>1. MaxEdits \in Nat /\ MaxUpdates \in Nat
  BY HousekeepingAssumption
<1>2. \A t \in Text : t.notes \in Nat
  BY <1>1 DEF Text
<1>3. bounds.edits \in Nat /\ bounds.started \in Nat
  BY <1>1 DEF TypeOK
<1>. QED  BY <1>2, <1>3 DEF TypeOK, File

LEMMA NotesAfter ==
  ASSUME TypeOK, ScaffoldOK, NEW p \in Proc, Step(p), NEW n \in Name, n # "config"
  PROVE  \/ file'[n] = file[n]
         \/ file'[n].text.notes = 0
         \/ n = "guide" /\ pc[p] = "replacing" /\ file'[n].text.notes = seen[p].notes
         \/ n = "baseline" /\ pc[p] = "writing" /\ file'[n].text.notes = seen[p].notes + 1
<1>1. Fresh.notes = 0 /\ Missing.text = Fresh /\ Torn.text = Fresh
  BY DEF Fresh, Missing, Torn
<1>2. \A q, t : Whole(q, t).text = t
  BY DEF Whole
<1>3. PICK t : t = [seen[p] EXCEPT !.template = "current"]
  OBVIOUS
<1>4. PICK u : u = [seen[p] EXCEPT !.notes = @ + 1]
  OBVIOUS
<1>5. t.notes = seen[p].notes /\ u.notes = seen[p].notes + 1
  BY <1>3, <1>4 DEF TypeOK, Text
<1>6. \/ file'[n] = file[n] \/ file'[n] = Torn \/ file'[n] = Missing
      \/ file'[n] = Whole(project[p], Fresh)
      \/ n = "guide" /\ pc[p] = "replacing" /\ file'[n] = Whole(project[p], t)
      \/ n = "baseline" /\ pc[p] = "writing" /\ file'[n] = Whole(project[p], u)
  <2>1. \/ file'[n] = file[n] \/ file'[n] = Torn \/ file'[n] = Missing
        \/ file'[n] = Whole(project[p], Fresh)
        \/ n = "guide" /\ pc[p] = "replacing"
           /\ file'[n] = Whole(project[p], [seen[p] EXCEPT !.template = "current"])
        \/ n = "baseline" /\ pc[p] = "writing"
           /\ file'[n] = Whole(project[p], [seen[p] EXCEPT !.notes = @ + 1])
    BY FileAfter, Zenon
  <2>. QED  BY <1>3, <1>4, <2>1, Zenon
<1>. QED  BY <1>1, <1>2, <1>5, <1>6

LEMMA StepNotes ==
  ASSUME TypeInv, TypeOK', ScaffoldOK, NEW p \in Proc, Step(p)
  PROVE  NotesOK'
<1>0. /\ TypeOK /\ "guide" \in Name /\ "baseline" \in Name
      /\ bounds'.edits = bounds.edits /\ bounds'.started >= bounds.started
      /\ bounds.started \in Nat /\ bounds.edits \in Nat /\ bounds'.started \in Nat
      /\ file["guide"].text.notes \in Nat /\ file["baseline"].text.notes \in Nat
      /\ \A q \in Proc : seen[q].notes \in Nat
  <2>1. TypeOK
    BY DEF TypeInv
  <2>2. bounds'.started \in Nat
    BY HousekeepingAssumption DEF TypeOK
  <2>. QED  BY <2>1, <2>2, GeneratedNames, BoundsGrow, NotesNatural
<1>1. \A q \in Proc : pc[q] \in Held => lock = q
  BY DEF TypeInv, LockOK
<1>2. file'["guide"].text.notes <= bounds'.edits
  <2>1. file["guide"].text.notes <= bounds.edits
    BY DEF TypeInv, NotesOK
  <2>2. pc[p] = "replacing" => seen[p].notes <= bounds.edits
    BY DEF TypeInv, NotesOK, Refreshing
  <2>3. \/ file'["guide"] = file["guide"] \/ file'["guide"].text.notes = 0
        \/ pc[p] = "replacing" /\ file'["guide"].text.notes = seen[p].notes
    BY <1>0, NotesAfter
  <2>. QED  BY <1>0, <2>1, <2>2, <2>3
<1>3. file'["baseline"].text.notes <= bounds'.started
  <2>1. file["baseline"].text.notes <= bounds.started
    BY DEF TypeInv, NotesOK
  <2>2. pc[p] = "writing" => seen[p].notes < bounds.started
    BY DEF TypeInv, NotesOK
  <2>3. \/ file'["baseline"] = file["baseline"] \/ file'["baseline"].text.notes = 0
        \/ pc[p] = "writing" /\ file'["baseline"].text.notes = seen[p].notes + 1
    BY <1>0, NotesAfter
  <2>4. CASE file'["baseline"] = file["baseline"]
    BY <1>0, <2>1, <2>4
  <2>5. CASE file'["baseline"].text.notes = 0
    BY <1>0, <2>5
  <2>6. CASE pc[p] = "writing" /\ file'["baseline"].text.notes = seen[p].notes + 1
    BY <1>0, <2>2, <2>6
  <2>. QED  BY <2>3, <2>4, <2>5, <2>6
<1>4. ASSUME NEW q \in Proc, pc'[q] \in Refreshing PROVE seen'[q].notes <= bounds'.edits
  <2>1. CASE q # p
    <3>1. pc[q] \in Refreshing /\ seen'[q] = seen[q]
      BY <1>0, <1>4, <2>1, OthersStay
    <3>. QED  BY <1>0, <3>1 DEF TypeInv, NotesOK
  <2>2. CASE q = p /\ ReviewGuide(p)
    <3>1. seen'[p] = file["guide"].text
      BY <1>0, <2>2 DEF ReviewGuide, TypeOK
    <3>. QED  BY <1>0, <2>2, <3>1 DEF TypeInv, NotesOK
  <2>3. CASE q = p /\ ~ReviewGuide(p)
    <3>1. LockForGuide(p) \/ Replan(p) \/ OpenBackup(p) \/ FillBackup(p) \/ Recheck(p)
      BY <1>0, <1>4, <2>3, StepCases, ContinuesTo, Leaves DEF Refreshing
    <3>2. pc[p] \in Refreshing /\ seen' = seen
      BY <3>1 DEF LockForGuide, Lock, Replan, OpenBackup, FillBackup, Recheck, Refreshing, memory
    <3>. QED  BY <1>0, <2>3, <3>2 DEF TypeInv, NotesOK
  <2>. QED  BY <2>1, <2>2, <2>3
<1>5. ASSUME NEW q \in Proc, pc'[q] = "updating"
      PROVE  file'["baseline"].text.notes < bounds'.started
  <2>1. CASE q # p
    <3>1. pc[q] = "updating"
      BY <1>0, <1>5, <2>1, OthersStay
    <3>2. file["baseline"].text.notes < bounds.started /\ lock = q
      BY <3>1 DEF TypeInv, NotesOK, LockOK, Held
    <3>3. pc[p] # "writing"
      BY <1>1, <2>1, <3>2 DEF Held
    <3>4. file'["baseline"] = file["baseline"] \/ file'["baseline"].text.notes = 0
      BY <1>0, <3>3, NotesAfter
    <3>5. CASE file'["baseline"] = file["baseline"]
      BY <1>0, <3>2, <3>5
    <3>6. CASE file'["baseline"].text.notes = 0
      BY <1>0, <3>2, <3>6
    <3>. QED  BY <3>4, <3>5, <3>6
  <2>2. CASE q = p
    <3>1. BeginUpdate(p)
      BY <1>0, <1>5, <2>2, StepCases, ContinuesTo, Leaves
    <3>2. UNCHANGED file
      BY <3>1 DEF BeginUpdate, disk
    <3>3. bounds'.started = bounds.started + 1
      BY <3>1 DEF BeginUpdate, Start, TypeInv, TypeOK
    <3>4. file["baseline"].text.notes <= bounds.started
      BY DEF TypeInv, NotesOK
    <3>. QED  BY <1>0, <3>2, <3>3, <3>4
  <2>. QED  BY <2>1, <2>2
<1>6. ASSUME NEW q \in Proc, pc'[q] = "writing" PROVE seen'[q].notes < bounds'.started
  <2>1. CASE q # p
    <3>1. pc[q] = "writing" /\ seen'[q] = seen[q]
      BY <1>0, <1>6, <2>1, OthersStay
    <3>2. seen[q].notes < bounds.started
      BY <3>1 DEF TypeInv, NotesOK
    <3>. QED  BY <1>0, <3>1, <3>2
  <2>2. CASE q = p
    <3>1. LoadBaseline(p)
      BY <1>0, <1>6, <2>2, StepCases, ContinuesTo, Leaves
    <3>2. seen'[p] = file["baseline"].text /\ pc[p] = "updating"
      BY <1>0, <3>1 DEF LoadBaseline, TypeOK
    <3>3. file["baseline"].text.notes < bounds.started
      BY <3>2 DEF TypeInv, NotesOK
    <3>. QED  BY <1>0, <2>2, <3>2, <3>3
  <2>. QED  BY <2>1, <2>2
<1>. QED  BY <1>2, <1>3, <1>4, <1>5, <1>6 DEF NotesOK

LEMMA EditNotes ==
  ASSUME TypeInv, EditGuide
  PROVE  NotesOK'
<1>0. /\ TypeOK /\ "guide" \in Name /\ "baseline" \in Name
      /\ bounds.started \in Nat /\ bounds.edits \in Nat
      /\ \A n \in Name : file[n].text.notes \in Nat
      /\ \A q \in Proc : seen[q].notes \in Nat
  BY GeneratedNames, NotesNatural DEF TypeInv
<1>1. bounds'.edits = bounds.edits + 1 /\ bounds'.started = bounds.started
  BY <1>0 DEF EditGuide, TypeOK
<1>2. UNCHANGED <<pc, seen>> /\ file'["baseline"] = file["baseline"]
  BY <1>0 DEF EditGuide, Put, TypeOK
<1>3. file'["guide"].text.notes <= file["guide"].text.notes + 1
  <2>1. file["guide"] \in File /\ file["guide"].text \in Text
    BY <1>0 DEF TypeOK, File
  <2>2. [file["guide"] EXCEPT !.text.notes = @ + 1].text.notes = file["guide"].text.notes + 1
    BY <2>1 DEF File, Text
  <2>3. [file["guide"] EXCEPT !.text.template = "edited"].text.notes = file["guide"].text.notes
    BY <2>1 DEF File, Text
  <2>4. Missing.text.notes = 0
    BY DEF Missing, Fresh
  <2>5. \/ file'["guide"] = [file["guide"] EXCEPT !.text.notes = @ + 1]
        \/ file'["guide"] = [file["guide"] EXCEPT !.text.template = "edited"]
        \/ file'["guide"] = Missing
    BY <1>0 DEF EditGuide, Put, TypeOK
  <2>6. CASE file'["guide"] = [file["guide"] EXCEPT !.text.notes = @ + 1]
    BY <1>0, <2>2, <2>6
  <2>7. CASE file'["guide"] = [file["guide"] EXCEPT !.text.template = "edited"]
    BY <1>0, <2>3, <2>7
  <2>8. CASE file'["guide"] = Missing
    BY <1>0, <2>4, <2>8
  <2>. QED  BY <2>5, <2>6, <2>7, <2>8
<1>4. file'["guide"].text.notes <= bounds'.edits
  <2>1. file["guide"].text.notes <= bounds.edits
    BY DEF TypeInv, NotesOK
  <2>2. file'["guide"].text.notes \in Nat
    BY <1>0, EditGuideType, NotesNatural, HousekeepingAssumption DEF TypeOK, File, Text
  <2>. QED  BY <1>0, <1>1, <1>3, <2>1, <2>2
<1>5. ASSUME NEW q \in Proc
      PROVE  /\ pc'[q] \in Refreshing => seen'[q].notes <= bounds'.edits
             /\ pc'[q] = "updating" => file'["baseline"].text.notes < bounds'.started
             /\ pc'[q] = "writing" => seen'[q].notes < bounds'.started
  <2>1. /\ pc[q] \in Refreshing => seen[q].notes <= bounds.edits
        /\ pc[q] = "updating" => file["baseline"].text.notes < bounds.started
        /\ pc[q] = "writing" => seen[q].notes < bounds.started
    BY DEF TypeInv, NotesOK
  <2>2. pc'[q] = pc[q] /\ seen'[q] = seen[q]
    BY <1>2
  <2>3. ASSUME pc[q] \in Refreshing PROVE seen[q].notes <= bounds.edits + 1
    BY <1>0, <2>1, <2>3
  <2>. QED  BY <1>1, <1>2, <2>1, <2>2, <2>3
<1>6. file'["baseline"].text.notes <= bounds'.started
  BY <1>1, <1>2 DEF TypeInv, NotesOK
<1>. QED  BY <1>4, <1>5, <1>6 DEF NotesOK

LEMMA NextTypeInv ==
  TypeInv /\ ScaffoldOK /\ [Next]_vars => TypeInv' /\ ScaffoldOK'
<1>. SUFFICES ASSUME TypeInv, ScaffoldOK, [Next]_vars PROVE TypeInv' /\ ScaffoldOK'
  OBVIOUS
<1>1. TypeOK'
  BY NextType
<1>2. ASSUME NEW p \in Proc, Step(p) PROVE NotesOK'
  BY <1>1, <1>2, StepNotes
<1>3. ASSUME UNCHANGED vars PROVE NotesOK'
  BY <1>3 DEF vars, TypeInv, NotesOK
<1>4. NotesOK'
  BY <1>2, <1>3, EditNotes DEF Next, Step
<1>. QED  BY <1>1, <1>4, NextLock, NextScaffold DEF TypeInv

-----------------------------------------------------------------------------
(* One project *)

(* A whole configuration is final, and one that is being written is left to  *)
(* its writer. *)
LEMMA ConfigStays ==
  ASSUME TypeOK, ScaffoldOK, ConfigOK, NEW p \in Proc, Step(p),
         \/ file["config"].state = "whole"
         \/ \E q \in Proc : q # p /\ pc[q] = "filling config"
  PROVE  file'["config"] = file["config"] /\ ~(pc'[p] = "filling config")
<1>0. "config" \in Name /\ "config" # "guide" /\ "config" # "baseline"
  BY GeneratedNames
<1>1. file["config"].state # "missing" /\ pc[p] # "filling config"
  BY DEF ConfigOK
<1>2. file'["config"] = file["config"]
  BY <1>0, <1>1, FileAfter
<1>3. ASSUME pc'[p] = "filling config" PROVE FALSE
  <2>1. OpenConfig(p)
    BY <1>3, StepCases, ContinuesTo, Leaves
  <2>. QED  BY <1>1, <1>3, <2>1 DEF OpenConfig, Goto, TypeOK
<1>. QED  BY <1>2, <1>3

LEMMA StepConfig ==
  ASSUME TypeOK, ScaffoldOK, ConfigOK, NEW p \in Proc, Step(p)
  PROVE  ConfigOK'
<1>0. "config" \in Name
  BY GeneratedNames
<1>1. ASSUME NEW q \in Proc, pc'[q] = "filling config"
      PROVE  /\ file'["config"].state = "torn"
             /\ \A r \in Proc : pc'[r] = "filling config" => r = q
  <2>1. CASE q # p
    <3>1. pc[q] = "filling config"
      BY <1>1, <2>1, OthersStay
    <3>2. file'["config"] = file["config"] /\ ~(pc'[p] = "filling config")
      BY <2>1, <3>1, ConfigStays
    <3>3. \A r \in Proc : r # p => pc'[r] = pc[r]
      BY OthersStay
    <3>. QED  BY <3>1, <3>2, <3>3 DEF ConfigOK
  <2>2. CASE q = p
    <3>1. OpenConfig(p)
      BY <1>1, <2>2, StepCases, ContinuesTo, Leaves
    <3>2. file["config"].state = "missing" /\ file'["config"] = Torn
      BY <1>0, <1>1, <2>2, <3>1 DEF OpenConfig, Put, Goto, TypeOK
    <3>3. \A r \in Proc : pc[r] # "filling config"
      BY <3>2 DEF ConfigOK
    <3>4. \A r \in Proc : r # p => pc'[r] = pc[r]
      BY OthersStay
    <3>5. \A r \in Proc : pc'[r] = "filling config" => r = p
      BY <3>3, <3>4
    <3>6. file'["config"].state = "torn"
      BY <3>2 DEF Torn
    <3>. QED  BY <2>2, <3>5, <3>6
  <2>. QED  BY <2>1, <2>2
<1>2. ASSUME NEW q \in Proc, pc'[q] \in Knowing
      PROVE  file'["config"].state = "whole" /\ project'[q] = file'["config"].project
  <2>1. CASE q # p
    <3>1. pc[q] \in Knowing /\ project'[q] = project[q]
      BY <1>2, <2>1, OthersStay
    <3>2. file["config"].state = "whole" /\ project[q] = file["config"].project
      BY <3>1 DEF ConfigOK
    <3>. QED  BY <3>1, <3>2, ConfigStays
  <2>2. CASE q = p
    <3>1. ~Leave(p) /\ Continues(p)
      BY <1>2, <2>2, StepCases, Leaves DEF Knowing, Held
    <3>2. CASE LoadConfig(p) \/ ReviewGuide(p) \/ BeginUpdate(p) \/ BeginRecord(p)
      <4>1. file["config"].state = "whole"
        BY <3>2 DEF LoadConfig, ReviewGuide, Refreshable, BeginUpdate, BeginRecord, Start
      <4>2. project' = [project EXCEPT ![p] = file["config"].project] /\ DOMAIN project = Proc
        BY <3>2 DEF LoadConfig, ReviewGuide, BeginUpdate, BeginRecord, Start, TypeOK
      <4>. QED  BY <2>2, <4>1, <4>2, ConfigStays
    <3>3. CASE CreateNext(p) \/ FillNext(p) \/ LockForGuide(p) \/ Replan(p) \/ OpenBackup(p)
                 \/ FillBackup(p) \/ Recheck(p) \/ ReplaceGuide(p) \/ LoadBaseline(p)
                 \/ ReplaceBaseline(p) \/ OpenRecord(p) \/ FillRecord(p)
      <4>1. pc[p] \in Knowing
        BY <3>3 DEF CreateNext, FillNext, LockForGuide, Lock, Replan, OpenBackup, FillBackup,
           Recheck, ReplaceGuide, LoadBaseline, ReplaceBaseline, OpenRecord, FillRecord,
           Knowing, Held
      <4>2. project' = project
        BY <3>3 DEF CreateNext, FillNext, LockForGuide, Lock, Replan, OpenBackup, FillBackup,
           Recheck, ReplaceGuide, LoadBaseline, ReplaceBaseline, OpenRecord, FillRecord, memory
      <4>3. file["config"].state = "whole" /\ project[p] = file["config"].project
        BY <4>1 DEF ConfigOK
      <4>. QED  BY <2>2, <4>2, <4>3, ConfigStays
    <3>4. CASE InitBegin(p) \/ OpenConfig(p) \/ FillConfig(p)
      <4>1. pc'[p] \notin Knowing
        BY <3>4 DEF InitBegin, OpenConfig, FillConfig, Goto, TypeOK, Knowing, Held
      <4>. QED  BY <1>2, <2>2, <4>1
    <3>. QED  BY <3>1, <3>2, <3>3, <3>4 DEF Continues
  <2>. QED  BY <2>1, <2>2
<1>. QED  BY <1>1, <1>2 DEF ConfigOK

LEMMA StepProject ==
  ASSUME TypeOK, ScaffoldOK, ConfigOK, OneProject, NEW p \in Proc, Step(p)
  PROVE  OneProject'
<1>. SUFFICES ASSUME NEW n \in Name, file'[n].state = "whole"
              PROVE  /\ file'["config"].state = "whole"
                     /\ file'[n].project = file'["config"].project
  BY DEF OneProject
<1>1. CASE n = "config"
  BY <1>1
<1>2. CASE n # "config" /\ file'[n] = file[n]
  <2>1. file["config"].state = "whole" /\ file[n].project = file["config"].project
    BY <1>2 DEF OneProject
  <2>. QED  BY <1>2, <2>1, ConfigStays
<1>3. CASE n # "config" /\ file'[n] # file[n]
  <2>1. Torn.state # "whole" /\ Missing.state # "whole" /\ \A q, t : Whole(q, t).project = q
    BY DEF Torn, Missing, Whole
  <2>2. PICK t : t = [seen[p] EXCEPT !.template = "current"]
    OBVIOUS
  <2>3. PICK u : u = [seen[p] EXCEPT !.notes = @ + 1]
    OBVIOUS
  <2>4. /\ pc[p] \in {"filling", "replacing", "writing"}
        /\ file'[n] \in {Whole(project[p], Fresh), Whole(project[p], t), Whole(project[p], u)}
    <3>1. \/ file'[n] = Torn \/ file'[n] = Missing
          \/ pc[p] = "filling" /\ file'[n] = Whole(project[p], Fresh)
          \/ pc[p] = "replacing"
             /\ file'[n] = Whole(project[p], [seen[p] EXCEPT !.template = "current"])
          \/ pc[p] = "writing" /\ file'[n] = Whole(project[p], [seen[p] EXCEPT !.notes = @ + 1])
      BY <1>3, FileAfter, Zenon
    <3>2. file'[n] # Torn /\ file'[n] # Missing
      BY <2>1
    <3>. QED  BY <2>2, <2>3, <3>1, <3>2, Zenon
  <2>5. file["config"].state = "whole" /\ project[p] = file["config"].project
    BY <2>4 DEF ConfigOK, Knowing, Held
  <2>6. file'["config"] = file["config"]
    BY <2>5, ConfigStays
  <2>. QED  BY <2>1, <2>4, <2>5, <2>6
<1>. QED  BY <1>1, <1>2, <1>3

LEMMA EditProject ==
  ASSUME TypeOK, ConfigOK, OneProject, EditGuide
  PROVE  ConfigOK' /\ OneProject'
<1>0. "guide" \in Name /\ "config" \in Name /\ file["guide"] \in File
  BY GeneratedNames DEF TypeOK
<1>1. /\ UNCHANGED <<pc, project>> /\ \A n \in Name : n # "guide" => file'[n] = file[n]
      /\ file["guide"].state = "whole"
  BY DEF EditGuide, Put, TypeOK
<1>2. file'["guide"].state = "whole" => file'["guide"].project = file["guide"].project
  <2>1. \/ file'["guide"] = [file["guide"] EXCEPT !.text.notes = @ + 1]
        \/ file'["guide"] = [file["guide"] EXCEPT !.text.template = "edited"]
        \/ file'["guide"] = Missing
    BY <1>0 DEF EditGuide, Put, TypeOK
  <2>2. /\ [file["guide"] EXCEPT !.text.notes = @ + 1].project = file["guide"].project
        /\ [file["guide"] EXCEPT !.text.template = "edited"].project = file["guide"].project
    BY <1>0 DEF File
  <2>3. CASE file'["guide"] = Missing
    BY <2>3 DEF Missing
  <2>4. CASE file'["guide"] = [file["guide"] EXCEPT !.text.notes = @ + 1]
    BY <2>2, <2>4
  <2>5. CASE file'["guide"] = [file["guide"] EXCEPT !.text.template = "edited"]
    BY <2>2, <2>5
  <2>. QED  BY <2>1, <2>3, <2>4, <2>5
<1>3. file'["config"] = file["config"]
  BY <1>0, <1>1
<1>4. ConfigOK'
  BY <1>1, <1>3 DEF ConfigOK
<1>5. OneProject'
  BY <1>0, <1>1, <1>2, <1>3 DEF OneProject
<1>. QED  BY <1>4, <1>5

LEMMA NextProject ==
  ASSUME TypeOK, ScaffoldOK, ConfigOK, OneProject, [Next]_vars
  PROVE  ConfigOK' /\ OneProject'
<1>1. ASSUME UNCHANGED vars PROVE ConfigOK' /\ OneProject'
  <2>1. UNCHANGED <<pc, project, file>>
    BY <1>1 DEF vars
  <2>. QED  BY <2>1 DEF ConfigOK, OneProject
<1>. QED  BY <1>1, StepConfig, StepProject, EditProject DEF Next, Step

LEMMA InitProject == Init => ScaffoldOK /\ ConfigOK /\ OneProject
<1>. SUFFICES ASSUME Init PROVE ScaffoldOK /\ ConfigOK /\ OneProject
  OBVIOUS
<1>1. \A p \in Proc : pc[p] = "idle" /\ at[p] = 1
  BY DEF Init
<1>2. ScaffoldOK
  BY <1>1, GeneratedNames DEF ScaffoldOK
<1>3. ConfigOK
  BY <1>1 DEF ConfigOK, Knowing, Held
<1>4. CASE file = [n \in Name |-> Missing]
  BY <1>2, <1>3, <1>4 DEF OneProject, Missing
<1>5. CASE file = [n \in Name |-> Whole(OldProject,
             IF n = "guide" THEN [Fresh EXCEPT !.template = "legacy"] ELSE Fresh)]
  <2>1. \A q, t : Whole(q, t).project = q /\ Whole(q, t).state = "whole"
    BY DEF Whole
  <2>2. \A n \in Name : file[n].project = OldProject /\ file[n].state = "whole"
    BY <1>5, <2>1
  <2>3. OneProject
    BY <2>2, GeneratedNames DEF OneProject
  <2>. QED  BY <1>2, <1>3, <2>3
<1>. QED  BY <1>4, <1>5 DEF Init

LEMMA FilesHold == Spec => [](TypeInv /\ ScaffoldOK /\ ConfigOK /\ OneProject)
<1>1. TypeInv /\ ScaffoldOK /\ ConfigOK /\ OneProject /\ [Next]_vars
        => ConfigOK' /\ OneProject'
  BY NextProject DEF TypeInv
<1>. QED
  BY <1>1, InitTypeInv, InitProject, NextTypeInv, PTL DEF Spec

(* However many processes initialise a directory at once, and wherever they  *)
(* stop or fail, every whole file is of the project in the configuration.    *)
THEOREM FilesAreOfOneProject == Spec => []OneProject
<1>. QED  BY FilesHold, PTL

-----------------------------------------------------------------------------
(* What is finished stays *)

LEMMA NextRecord ==
  ASSUME TypeOK, LockOK, RecordOK, [Next]_vars
  PROVE  RecordOK'
<1>1. ASSUME NEW p \in Proc, Step(p), NEW q \in Proc, pc'[q] = "filling record"
      PROVE  at'[q] \in Slot /\ history'[at'[q]] = "torn"
  <2>1. CASE q # p
    <3>1. pc[q] = "filling record" /\ at'[q] = at[q]
      BY <1>1, <2>1, OthersStay
    <3>2. pc[p] \notin {"recording", "filling record"}
      BY <2>1, <3>1 DEF LockOK, Held
    <3>3. UNCHANGED history
      BY <1>1, <3>2, HistoryChanges DEF OpenRecord, FillRecord, RecordFails
    <3>. QED  BY <3>1, <3>3 DEF RecordOK
  <2>2. CASE q = p
    <3>1. OpenRecord(p)
      BY <1>1, <2>2, StepCases, ContinuesTo, Leaves
    <3>2. PICK k \in Slot : /\ at' = [at EXCEPT ![p] = k]
                            /\ history' = [history EXCEPT ![k] = "torn"]
      BY <3>1 DEF OpenRecord
    <3>3. at'[p] = k /\ history'[k] = "torn"
      BY <3>2 DEF TypeOK
    <3>. QED  BY <2>2, <3>3
  <2>. QED  BY <2>1, <2>2
<1>2. ASSUME EditGuide \/ UNCHANGED vars PROVE RecordOK'
  BY <1>2 DEF EditGuide, vars, RecordOK
<1>. QED  BY <1>1, <1>2 DEF Next, Step, RecordOK

LEMMA RecordsHold == Spec => []RecordOK
<1>1. Init => RecordOK
  BY DEF Init, RecordOK
<1>2. TypeInv /\ RecordOK /\ [Next]_vars => RecordOK'
  BY NextRecord DEF TypeInv
<1>. QED  BY <1>1, <1>2, FilesHold, PTL DEF Spec

LEMMA WholeFileAfter ==
  ASSUME TypeOK, ScaffoldOK, NEW p \in Proc, Step(p), NEW n \in Name \ {"config"},
         file[n].state = "whole", file'[n] # file[n]
  PROVE  \/ n = Generated[at[p]] /\ pc[p] = "filling" /\ pc'[p] = "idle"
         \/ n = "guide" /\ pc[p] = "replacing"
            /\ file'[n].state = "whole" /\ file'[n].project = project[p]
         \/ n = "baseline" /\ pc[p] = "writing"
            /\ file'[n].state = "whole" /\ file'[n].project = project[p]
<1>1. PICK t : t = [seen[p] EXCEPT !.template = "current"]
  OBVIOUS
<1>2. PICK u : u = [seen[p] EXCEPT !.notes = @ + 1]
  OBVIOUS
<1>3. \A q, x : Whole(q, x).state = "whole" /\ Whole(q, x).project = q
  BY DEF Whole
<1>4. \/ pc[p] = "filling"
      \/ n = "guide" /\ pc[p] = "replacing" /\ file'[n] = Whole(project[p], t)
      \/ n = "baseline" /\ pc[p] = "writing" /\ file'[n] = Whole(project[p], u)
  <2>1. n \in Name /\ n # "config"
    OBVIOUS
  <2>2. \/ /\ n = "config" /\ OpenConfig(p)
           /\ file[n].state = "missing" /\ file'[n] = Torn
        \/ /\ n = "config" /\ FillConfig(p) /\ pc[p] = "filling config"
           /\ file'[n] = Whole(FreshProject[p], Fresh)
        \/ /\ n = "config" /\ FillFails(p) /\ pc[p] = "filling config"
           /\ file'[n] = Missing
        \/ /\ n # "config" /\ CreateNext(p) /\ pc[p] = "scaffolding"
           /\ file[n].state = "missing" /\ file'[n] = Torn
        \/ /\ n # "config" /\ FillNext(p) /\ pc[p] = "filling"
           /\ file[n].state = "torn" /\ file'[n] = Whole(project[p], Fresh)
        \/ /\ n = Generated[at[p]] /\ n # "config" /\ FillFails(p) /\ pc[p] = "filling"
           /\ file'[n] = Missing /\ pc'[p] = "idle"
        \/ /\ n = "guide" /\ ReplaceGuide(p) /\ pc[p] = "replacing"
           /\ file'[n] = Whole(project[p], [seen[p] EXCEPT !.template = "current"])
        \/ /\ n = "baseline" /\ ReplaceBaseline(p) /\ pc[p] = "writing"
           /\ file'[n] = Whole(project[p], [seen[p] EXCEPT !.notes = @ + 1])
    BY <2>1, FileAfter
  <2>3. file[n].state # "missing"
    OBVIOUS
  <2>. QED  BY <1>1, <1>2, <2>1, <2>2, <2>3
<1>5. ASSUME pc[p] = "filling" PROVE n = Generated[at[p]] /\ pc'[p] = "idle"
  <2>1. file[n].state # "torn" /\ file[n].state # "missing"
    OBVIOUS
  <2>2. pc[p] # "filling config" /\ pc[p] # "scaffolding" /\ pc[p] # "replacing"
        /\ pc[p] # "writing"
    BY <1>5
  <2>3. n # "config"
    OBVIOUS
  <2>. QED  BY <2>1, <2>2, <2>3, FileAfter
<1>. QED  BY <1>3, <1>4, <1>5

(* What a step may do to a whole file, and to a record that is there. *)
LEMMA WholeFileStep ==
  ASSUME TypeInv, ScaffoldOK, ConfigOK, OneProject, [Next]_vars,
         bounds'.edits = bounds.edits, NEW n \in Name,
         file[n].state = "whole", file'[n] # file[n]
  PROVE  \/ /\ file'[n].state = "whole" /\ file'[n].project = file[n].project
            /\ lock \in Proc /\ pc[lock] \in {"replacing", "writing"}
            /\ n \in {"guide", "baseline"}
         \/ \E p \in Proc : pc[p] = "filling" /\ pc'[p] = "idle" /\ Generated[at[p]] = n
<1>1. TypeOK /\ LockOK
  BY DEF TypeInv
<1>2. ~EditGuide
  <2>1. bounds.edits \in Nat
    BY <1>1, NotesNatural
  <2>. QED  BY <1>1, <2>1 DEF EditGuide, TypeOK
<1>3. PICK p \in Proc : Step(p)
  BY <1>2 DEF Next, Step, vars
<1>4. n # "config"
  <2>. SUFFICES ASSUME n = "config" PROVE FALSE
    OBVIOUS
  <2>. QED  BY <1>1, <1>3, ConfigStays
<1>5. CASE pc[p] = "filling" /\ pc'[p] = "idle" /\ Generated[at[p]] = n
  BY <1>5
<1>6. CASE /\ n \in {"guide", "baseline"} /\ pc[p] \in {"replacing", "writing"}
           /\ file'[n].state = "whole" /\ file'[n].project = project[p]
  <2>1. project[p] = file["config"].project /\ lock = p
    BY <1>1, <1>6 DEF ConfigOK, LockOK, Knowing, Held
  <2>2. file[n].project = file["config"].project
    BY DEF OneProject
  <2>. QED  BY <1>6, <2>1, <2>2
<1>. QED  BY <1>1, <1>3, <1>4, <1>5, <1>6, WholeFileAfter

LEMMA RecordStep ==
  ASSUME TypeOK, RecordOK, [Next]_vars, NEW k \in Slot,
         history[k] # "missing", history'[k] # history[k]
  PROVE  \E p \in Proc : pc[p] = "filling record" /\ at[p] = k /\ history[k] = "torn"
<1>1. PICK p \in Proc : Step(p)
  BY DEF Next, Step, vars, EditGuide
<1>2. ~OpenRecord(p)
  <2>. SUFFICES ASSUME OpenRecord(p) PROVE FALSE
    OBVIOUS
  <2>1. PICK j \in Slot : Free(j) /\ history' = [history EXCEPT ![j] = "torn"]
    BY DEF OpenRecord
  <2>2. j = k
    BY <2>1 DEF TypeOK
  <2>. QED  BY <2>1, <2>2 DEF Free
<1>3. FillRecord(p) \/ RecordFails(p)
  BY <1>1, <1>2, HistoryChanges
<1>4. pc[p] = "filling record"
  BY <1>3 DEF FillRecord, RecordFails
<1>5. at[p] = k
  BY <1>3 DEF FillRecord, RecordFails, TypeOK
<1>. QED  BY <1>4, <1>5 DEF RecordOK

(* A whole file is only replaced by a whole one of the same project, under   *)
(* the lock, or taken away by an init whose write of it fails, and a record  *)
(* is only touched by its writer before it is whole, for any processes.      *)
THEOREM WhatIsFinishedStays == Spec => FinishedFilesStay
<1>. DEFINE Stays ==
       /\ bounds'.edits = bounds.edits =>
            \A n \in Name :
              (file[n].state = "whole" /\ file'[n] # file[n]) =>
                \/ /\ file'[n].state = "whole" /\ file'[n].project = file[n].project
                   /\ lock \in Proc /\ pc[lock] \in {"replacing", "writing"}
                   /\ n \in {"guide", "baseline"}
                \/ \E p \in Proc : pc[p] = "filling" /\ pc'[p] = "idle" /\ Generated[at[p]] = n
       /\ \A k \in Slot :
            (history[k] # "missing" /\ history'[k] # history[k]) =>
              \E p \in Proc : pc[p] = "filling record" /\ at[p] = k /\ history[k] = "torn"
<1>1. TypeInv /\ ScaffoldOK /\ ConfigOK /\ OneProject /\ RecordOK /\ [Next]_vars
        => [Stays]_vars
  BY WholeFileStep, RecordStep DEF TypeInv
<1>2. Spec => [][Stays]_vars
  BY <1>1, FilesHold, RecordsHold, PTL DEF Spec
<1>. QED  BY <1>2 DEF FinishedFilesStay

-----------------------------------------------------------------------------
(* A replaced guide is in a backup *)

LEMMA TemplateAfter ==
  ASSUME TypeOK, ScaffoldOK, NEW p \in Proc, Step(p), file["guide"].text.template # "legacy"
  PROVE  file'["guide"].text.template # "legacy"
<1>0. "guide" \in Name /\ "guide" # "config"
  BY GeneratedNames
<1>1. Fresh.template = "current" /\ Missing.text = Fresh /\ Torn.text = Fresh
  BY DEF Fresh, Missing, Torn
<1>2. \A q, t : Whole(q, t).text = t
  BY DEF Whole
<1>3. PICK t : t = [seen[p] EXCEPT !.template = "current"]
  OBVIOUS
<1>4. t.template = "current"
  BY <1>3 DEF TypeOK, Text
<1>5. \/ file'["guide"] = file["guide"] \/ file'["guide"] = Torn \/ file'["guide"] = Missing
      \/ file'["guide"] = Whole(project[p], Fresh) \/ file'["guide"] = Whole(project[p], t)
  BY <1>0, <1>3, FileAfter
<1>. QED  BY <1>1, <1>2, <1>4, <1>5

LEMMA NextLegacy ==
  ASSUME TypeOK, ScaffoldOK, LegacyOK, [Next]_vars
  PROVE  LegacyOK'
<1>0. "guide" \in Name /\ file["guide"] \in File
  BY GeneratedNames DEF TypeOK
<1>1. ASSUME NEW p \in Proc, Step(p), NEW q \in Proc,
             pc'[q] = "filling", Generated[at'[q]] = "guide"
      PROVE  file'["guide"].text.template # "legacy"
  <2>1. CASE q # p
    <3>1. pc[q] = "filling" /\ at'[q] = at[q]
      BY <1>1, <2>1, OthersStay
    <3>2. file["guide"].text.template # "legacy"
      BY <1>1, <3>1 DEF LegacyOK
    <3>. QED  BY <1>1, <3>2, TemplateAfter
  <2>2. CASE q = p
    <3>1. CreateNext(p)
      BY <1>1, <2>2, StepCases, ContinuesTo, Leaves
    <3>2. pc[p] = "scaffolding" /\ DOMAIN at = Proc
      BY <3>1 DEF CreateNext, TypeOK
    <3>3. Put(Generated[at[p]], Torn) /\ UNCHANGED at
      BY <1>1, <2>2, <3>1, <3>2 DEF CreateNext
    <3>4. file'["guide"] = Torn
      BY <1>0, <1>1, <2>2, <3>3 DEF Put, TypeOK
    <3>. QED  BY <3>4 DEF Torn, Fresh
  <2>. QED  BY <2>1, <2>2
<1>2. ASSUME EditGuide, file["guide"].text.template # "legacy"
      PROVE  file'["guide"].text.template # "legacy"
  <2>1. \/ file'["guide"] = [file["guide"] EXCEPT !.text.notes = @ + 1]
        \/ file'["guide"] = [file["guide"] EXCEPT !.text.template = "edited"]
        \/ file'["guide"] = Missing
    BY <1>0, <1>2 DEF EditGuide, Put, TypeOK
  <2>2. /\ [file["guide"] EXCEPT !.text.notes = @ + 1].text.template = file["guide"].text.template
        /\ [file["guide"] EXCEPT !.text.template = "edited"].text.template = "edited"
        /\ Missing.text.template = "current"
    BY <1>0 DEF File, Text, Missing, Fresh
  <2>. QED  BY <1>2, <2>1, <2>2
<1>3. ASSUME EditGuide PROVE LegacyOK'
  <2>1. UNCHANGED <<pc, at>>
    BY <1>3 DEF EditGuide
  <2>. QED  BY <1>2, <1>3, <2>1 DEF LegacyOK
<1>4. ASSUME UNCHANGED vars PROVE LegacyOK'
  <2>1. UNCHANGED <<pc, at, file>>
    BY <1>4 DEF vars
  <2>. QED  BY <2>1 DEF LegacyOK
<1>. QED  BY <1>1, <1>3, <1>4 DEF Next, Step, LegacyOK

(* A whole guide of an older version is changed by its owner and by the one  *)
(* who replaces it. *)
LEMMA LegacyStays ==
  ASSUME TypeOK, ScaffoldOK, LegacyOK, NEW p \in Proc, Step(p), ~ReplaceGuide(p),
         file["guide"].state = "whole", file["guide"].text.template = "legacy"
  PROVE  file'["guide"] = file["guide"]
<1>1. "guide" \in Name /\ "guide" # "config" /\ "guide" # "baseline"
  BY GeneratedNames
<1>2. ~(pc[p] = "filling" /\ Generated[at[p]] = "guide")
  BY DEF LegacyOK
<1>. QED  BY <1>1, <1>2, FileAfter

LEMMA StepGuide ==
  ASSUME TypeOK, LockOK, ScaffoldOK, LegacyOK, GuideOK, NEW p \in Proc, Step(p)
  PROVE  GuideOK'
<1>. DEFINE Legacy == {"backing up", "filling backup", "staging", "replacing"}
<1>0. \A q \in Proc : pc[q] \in Held => lock = q
  BY DEF LockOK
<1>1. ASSUME NEW q \in Proc, q # p, pc[q] \in Legacy
      PROVE  UNCHANGED backup /\ ~ReplaceGuide(p)
  <2>1. pc[p] \notin Held
    BY <1>0, <1>1 DEF Held
  <2>. QED  BY <2>1, BackupChanges DEF OpenBackup, FillBackup, ReplaceGuide, Held
<1>2. ASSUME NEW q \in Proc, pc'[q] \in Legacy PROVE seen'[q].template = "legacy"
  <2>1. CASE q # p
    BY <1>2, <2>1, OthersStay DEF GuideOK
  <2>2. CASE q = p
    <3>1. Replan(p) \/ OpenBackup(p) \/ FillBackup(p) \/ Recheck(p)
      BY <1>2, <2>2, StepCases, ContinuesTo, Leaves
    <3>2. UNCHANGED seen
      BY <3>1 DEF Replan, OpenBackup, FillBackup, Recheck, memory
    <3>3. seen[p].template = "legacy"
      BY <3>1 DEF Replan, OpenBackup, FillBackup, Recheck, GuideOK
    <3>. QED  BY <2>2, <3>2, <3>3
  <2>. QED  BY <2>1, <2>2
<1>3. ASSUME NEW q \in Proc, pc'[q] \in {"staging", "replacing"}
      PROVE  backup'[seen'[q]] = "whole"
  <2>1. CASE q # p
    <3>1. pc[q] \in {"staging", "replacing"} /\ seen'[q] = seen[q]
      BY <1>3, <2>1, OthersStay
    <3>2. UNCHANGED backup
      BY <1>1, <2>1, <3>1
    <3>. QED  BY <3>1, <3>2 DEF GuideOK
  <2>2. CASE q = p
    <3>1. OpenBackup(p) \/ FillBackup(p) \/ Recheck(p)
      BY <1>3, <2>2, StepCases, ContinuesTo, Leaves
    <3>2. UNCHANGED seen /\ seen[p] \in Text
      BY <3>1 DEF OpenBackup, FillBackup, Recheck, memory, TypeOK
    <3>3. CASE OpenBackup(p)
      <4>1. backup[seen[p]] = "whole" /\ UNCHANGED backup
        BY <1>3, <2>2, <3>3 DEF OpenBackup, Goto, TypeOK
      <4>. QED  BY <2>2, <3>2, <4>1
    <3>4. CASE FillBackup(p)
      BY <2>2, <3>2, <3>4 DEF FillBackup, TypeOK
    <3>5. CASE Recheck(p)
      BY <2>2, <3>2, <3>5 DEF Recheck, GuideOK, disk
    <3>. QED  BY <3>1, <3>3, <3>4, <3>5
  <2>. QED  BY <2>1, <2>2
<1>4. ASSUME NEW q \in Proc, pc'[q] = "replacing", late'[q] = FALSE
      PROVE  file'["guide"].state = "whole" /\ file'["guide"].text = seen'[q]
  <2>1. CASE q # p
    <3>1. pc[q] = "replacing" /\ late[q] = FALSE /\ seen'[q] = seen[q]
      BY <1>4, <2>1, OthersStay
    <3>2. /\ file["guide"].state = "whole" /\ file["guide"].text = seen[q]
          /\ seen[q].template = "legacy"
      BY <3>1 DEF GuideOK
    <3>3. file'["guide"] = file["guide"]
      BY <1>1, <2>1, <3>1, <3>2, LegacyStays
    <3>. QED  BY <3>1, <3>2, <3>3
  <2>2. CASE q = p
    <3>1. Recheck(p)
      BY <1>4, <2>2, StepCases, ContinuesTo, Leaves
    <3>. QED  BY <2>2, <3>1 DEF Recheck, SameGuide, Refreshable, disk, memory
  <2>. QED  BY <2>1, <2>2
<1>. QED  BY <1>2, <1>3, <1>4 DEF GuideOK

LEMMA NextGuide ==
  ASSUME TypeOK, LockOK, ScaffoldOK, LegacyOK, GuideOK, [Next]_vars
  PROVE  GuideOK'
<1>1. ASSUME EditGuide PROVE GuideOK'
  <2>1. UNCHANGED <<pc, seen, backup>>
    BY <1>1 DEF EditGuide
  <2>2. \A q \in Proc : pc[q] = "replacing" => late'[q] # FALSE
    BY <1>1 DEF EditGuide
  <2>. QED  BY <2>1, <2>2 DEF GuideOK
<1>2. ASSUME UNCHANGED vars PROVE GuideOK'
  BY <1>2 DEF vars, GuideOK
<1>. QED  BY <1>1, <1>2, StepGuide DEF Next, Step

LEMMA GuidesHold == Spec => [](LegacyOK /\ GuideOK)
<1>1. Init => LegacyOK /\ GuideOK
  BY DEF Init, LegacyOK, GuideOK
<1>2. TypeInv /\ ScaffoldOK /\ LegacyOK /\ GuideOK /\ [Next]_vars => LegacyOK' /\ GuideOK'
  BY NextLegacy, NextGuide DEF TypeInv
<1>. QED  BY <1>1, <1>2, FilesHold, PTL DEF Spec

(* The guide a refresh replaces is, byte for byte, the one it reviewed and   *)
(* backed up, whatever other processes do meanwhile: only its owner can get  *)
(* between the last check and the replacement.                               *)
THEOREM ReplacedGuidesAreBackedUp == Spec => ReplacedGuideIsBackedUp
<1>. DEFINE BackedUp ==
       \A p \in Proc :
         (pc[p] = "replacing" /\ pc'[p] = "unlocking") =>
           late[p] \/ (file["guide"].state = "whole" /\ backup[file["guide"].text] = "whole")
<1>1. TypeInv /\ GuideOK => BackedUp
  <2>. SUFFICES ASSUME TypeInv, GuideOK, NEW p \in Proc, pc[p] = "replacing", ~late[p]
                PROVE  file["guide"].state = "whole" /\ backup[file["guide"].text] = "whole"
    OBVIOUS
  <2>1. late[p] = FALSE
    BY DEF TypeInv, TypeOK
  <2>. QED  BY <2>1 DEF GuideOK
<1>2. TypeInv /\ GuideOK /\ [Next]_vars => [BackedUp]_vars
  BY <1>1
<1>3. Spec => [][BackedUp]_vars
  BY <1>2, FilesHold, GuidesHold, PTL DEF Spec
<1>. QED  BY <1>3 DEF ReplacedGuideIsBackedUp
=============================================================================
