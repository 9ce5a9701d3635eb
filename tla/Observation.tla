---------------------------- MODULE Observation ----------------------------
(***************************************************************************)
(* What a job sees of the workspace around the tools it runs.  It lists and *)
(* hashes every file that is not ignored, works, and lists and hashes them  *)
(* again: a difference nobody declared fails the job (inventory.py,         *)
(* verification.py, audit.py, the end of runner._execute_locked).  A patch  *)
(* also notes the bytecode caches after its changes and takes back what the *)
(* tools added there (runtime_cache.py).  Nothing is locked meanwhile: the  *)
(* tools, what they leave running, and the user change files at any moment, *)
(* the listing itself included.                                             *)
(*                                                                          *)
(* The effects of a patch and their rollback are one step here; they are    *)
(* the subject of Transaction.                                              *)
(***************************************************************************)
EXTENDS Tools

CONSTANTS
  Root,        \* the workspace
  Children,    \* what a directory may hold
  Ignored,     \* paths local policy keeps out of inventories
  Caches,      \* __pycache__ of each directory above a changed .py file
  Bytecode,    \* the names that end in .pyc
  InitialTrees,
  MaxChanges   \* bound: changes by others during a job of each kind

Parent(path) == CHOOSE above \in DOMAIN Children : path \in Children[above]

Kinds == {"absent", "file", "directory", "link"}
Node(type, version) == [type |-> type, version |-> version]
Absent == Node("absent", 0)
Directory == Node("directory", 0)

(* The declared paths of a patch: the files its formatters and linters see. *)
Declared == Range(Python) \cup Range(Html)

(* Whatever is somewhere is in a directory, only a path that may hold       *)
(* something is one, and nothing is inside itself.                          *)
IsTree(t) ==
  \A path \in Path :
    /\ t[path].type # "absent" =>
         Parent(path) = Root \/ t[Parent(path)].type = "directory"
    /\ t[path].type = "directory" => path \in DOMAIN Children

ASSUME ObservationAssumption ==
  /\ Root \notin Path
  /\ Root \in DOMAIN Children /\ DOMAIN Children \subseteq Path \cup {Root}
  /\ Children \in [DOMAIN Children -> SUBSET Path]
  /\ \A path \in Path : \E above \in DOMAIN Children : path \in Children[above]
  /\ \A above \in DOMAIN Children : \A path \in Children[above] : Parent(path) = above
  /\ \A group \in (SUBSET Path) \ {{}} : \E path \in group : Parent(path) \notin group
  /\ Declared \cup Ignored \subseteq Path
  /\ Caches \in Seq(Path)
  /\ \A path \in Path : Parent(path) \in Ignored => path \in Ignored
  /\ Range(Caches) \subseteq DOMAIN Children /\ Range(Caches) \cap Bytecode = {}
  /\ \A cache \in Range(Caches) : Children[cache] \cap Range(Caches) = {}
  /\ InitialTrees \subseteq [Path -> [type : Kinds, version : {0}]]
  /\ \A t \in InitialTrees : IsTree(t)
  /\ MaxChanges \in [Kind -> Nat]

-----------------------------------------------------------------------------
VARIABLES
  phase,
  tree,        \* what is at each path; every change makes a new version
  walk,        \* capture_inventory: directories to list, names to look at,
               \* the file being read, the entries so far
  baseline,    \* entries before the work
  reads,       \* what the audit read
  ledger,      \* bytecode caches after the changes
  sweep,       \* cleanup_runtime_caches: caches left, entries to remove
  failing,     \* the job has failed and is cleaning up, or comparing
  before,      \* history: the tree when the baseline was complete
  touched,     \* history: changed while the job was looking or cleaning
  kept,        \* history: caches, and what they held, before the tools
  changes      \* by others

observed == <<baseline, reads, ledger, failing>>
history == <<before, touched, kept, changes>>
vars == <<tools, phase, tree, walk, sweep, observed, history>>

NotReading == [stage |-> "none"]
Start == [pending |-> <<Root>>, children |-> {}, subdirs |-> <<>>,
          reading |-> NotReading, entries |-> {}]
EmptyLedger == [known |-> 0, directories |-> {}, others |-> {}, entries |-> {}]
Sweep == [left |-> Len(Caches), open |-> FALSE, items |-> {}, unresolved |-> FALSE]
Ended == {"passed", "failed"}

Exists(path) == tree[path].type # "absent"
IsDirectory(path) == IF path = Root THEN TRUE ELSE tree[path].type = "directory"
Present(directory) == {path \in Children[directory] : Exists(path)}

(* Names are taken in their order; which one that is plays no part here. *)
First(names) == CHOOSE path \in names : TRUE

Init ==
  /\ ToolsInit
  /\ phase = "preflight"
  /\ tree \in InitialTrees
  /\ walk = Start /\ sweep = Sweep
  /\ baseline = {} /\ reads = <<>> /\ ledger = EmptyLedger /\ failing = FALSE
  /\ before = tree /\ touched = {} /\ kept = {} /\ changes = 0

(* An error raised in the middle: a patch that has a ledger cleans up once  *)
(* more before it is undone.                                                *)
Fail ==
  /\ IF kind = "patch" /\ phase \in {"tools", "cleaning", "final"} /\ ~failing
       THEN phase' = "cleaning" /\ failing' = TRUE /\ sweep' = Sweep
       ELSE phase' = "failed" /\ UNCHANGED <<failing, sweep>>
  /\ walk' = Start

-----------------------------------------------------------------------------
(* The tools *)

InPreflight ==
  \/ pc \in {"waiting", "asked", "killed"}
  \/ pc = "next" /\ position <= Len(Commands) /\ Commands[position].stage = "preflight"

UseTools ==
  /\ phase = "tools" \/ (phase = "preflight" /\ InPreflight)
  /\ Run
  /\ UNCHANGED <<phase, tree, walk, sweep, observed, history>>

PreflightEnds ==
  /\ phase = "preflight" /\ ~InPreflight
  /\ phase' = IF pc = "next" THEN "baseline" ELSE "failed"
  /\ UNCHANGED <<tools, tree, walk, sweep, observed, history>>

(* A verification whose checks fail is compared all the same. *)
ToolsDone ==
  /\ phase = "tools"
  /\ \/ /\ pc = "done"
        /\ phase' = IF kind = "patch" THEN "cleaning" ELSE "final"
        /\ UNCHANGED <<failing, sweep, walk>>
     \/ /\ pc = "failed" /\ kind = "verify"
        /\ phase' = "final" /\ failing' = TRUE /\ UNCHANGED <<sweep, walk>>
     \/ /\ pc = "raised" \/ (pc = "failed" /\ kind # "verify")
        /\ Fail
  /\ UNCHANGED <<tools, tree, baseline, reads, ledger, history>>

-----------------------------------------------------------------------------
(* capture_inventory *)

Capturing == phase \in {"baseline", "final"}
Idle == walk.reading.stage = "none"
Entry(path, node, digest) == [path |-> path, node |-> node, digest |-> digest]
Stack == walk.pending \o Reverse(walk.subdirs)

(* List the directory on top; one that is gone or replaced is an error. *)
Scan ==
  /\ Capturing /\ Idle /\ walk.children = {} /\ Stack # <<>>
  /\ IsDirectory(Last(Stack))
  /\ walk' = [walk EXCEPT
       !.pending = Front(Stack), !.subdirs = <<>>,
       !.children = Present(Last(Stack)) \ Ignored]
  /\ UNCHANGED <<tools, phase, tree, sweep, observed, history>>

(* Look at the next name; one that is gone is an error. *)
Visit ==
  /\ Capturing /\ Idle /\ walk.children # {}
  /\ LET path == First(walk.children) IN
     /\ Exists(path)
     /\ walk' =
          IF tree[path].type = "file"
            THEN [walk EXCEPT !.children = @ \ {path},
                              !.reading = [stage |-> "seen", path |-> path, seen |-> tree[path]]]
            ELSE [walk EXCEPT !.children = @ \ {path},
                              !.entries = @ \cup {Entry(path, tree[path], <<>>)},
                              !.subdirs = IF IsDirectory(path) THEN Append(@, path) ELSE @]
  /\ UNCHANGED <<tools, phase, tree, sweep, observed, history>>

(* Open a file for hashing: a regular file in the state that was seen.  An  *)
(* audit opens whatever it finds.                                           *)
Opens(reading) ==
  IF phase = "actions"
    THEN tree[reading.path].type \in {"file", "link"}
    ELSE tree[reading.path] = reading.seen

OpenFile ==
  /\ walk.reading.stage = "seen" /\ Opens(walk.reading)
  /\ walk' = [walk EXCEPT !.reading =
       LET node == tree[@.path]
       IN [stage |-> "open", path |-> @.path, seen |-> @.seen,
           opened |-> node, handle |-> node, first |-> node.version]]
  /\ UNCHANGED <<tools, phase, tree, sweep, observed, history>>

(* Mutant: what was opened as it was seen is not looked at again. *)
MutUnchanged(reading) ==
  phase = "actions" => tree[reading.path] = reading.seen

(* After the last read: an inventory asks the open file, an audit the path. *)
Unchanged(reading) ==
  IF phase = "actions"
    THEN tree[reading.path] = reading.seen
    ELSE reading.handle = reading.opened

CloseFile ==
  /\ walk.reading.stage = "open" /\ Unchanged(walk.reading)
  /\ LET reading == walk.reading
         entry == Entry(reading.path, reading.seen,
                        <<reading.first, reading.handle.version>>)
     IN IF phase = "actions"
          THEN /\ walk' = Start
               /\ reads' = Append(reads, entry)
               /\ phase' = "tools"
               /\ ReadEnds
          ELSE /\ walk' = [walk EXCEPT !.reading = NotReading, !.entries = @ \cup {entry}]
               /\ UNCHANGED <<tools, phase, reads>>
  /\ UNCHANGED <<tree, sweep, baseline, ledger, failing, history>>

(* A limit, an entry that cannot be read, or a change noticed on the way. *)
ObservationFails ==
  /\ phase \in {"baseline", "final", "actions"}
  /\ Fail
  /\ UNCHANGED <<tools, tree, baseline, reads, ledger, history>>

Captured == Capturing /\ Idle /\ walk.children = {} /\ Stack = <<>>

BaselineDone ==
  /\ phase = "baseline" /\ Captured
  /\ baseline' = walk.entries
  /\ before' = tree
  /\ walk' = Start
  /\ phase' = CASE kind = "patch"  -> "effects"
                [] OTHER           -> "tools"
  /\ UNCHANGED <<tools, tree, sweep, reads, ledger, failing, touched, kept, changes>>

(* Mutant: only what is there at the end is compared. *)
MutChanged(earlier, later) == {entry.path : entry \in later \ earlier}

(* compare_inventories: added, removed, changed in kind or content. *)
Changed(earlier, later) ==
  {entry.path : entry \in (earlier \ later) \cup (later \ earlier)}

Expected == IF kind = "patch" THEN Declared ELSE {}

Compare ==
  /\ phase = "final" /\ Captured
  /\ IF failing \/ ~(Changed(baseline, walk.entries) \subseteq Expected)
       THEN Fail
       ELSE phase' = "passed" /\ UNCHANGED <<failing, sweep, walk>>
  /\ UNCHANGED <<tools, tree, baseline, reads, ledger, history>>

-----------------------------------------------------------------------------
(* An audit *)

(* An action that reads is next. *)
TakeRead ==
  /\ phase = "tools" /\ IsNext("audit", "read")
  /\ phase' = "actions"
  /\ UNCHANGED <<tools, tree, walk, sweep, observed, history>>

(* _read_regular_file looks at the path, reads, and looks again. *)
ReadNext ==
  /\ phase = "actions" /\ Idle /\ IsNext("audit", "read")
  /\ \E path \in Path :
       /\ Commands[position] = Reading(path)
       /\ tree[path].type = "file"
       /\ walk' = [walk EXCEPT !.reading = [stage |-> "seen", path |-> path, seen |-> tree[path]]]
  /\ UNCHANGED <<tools, phase, tree, sweep, observed, history>>

-----------------------------------------------------------------------------
(* A patch *)

Apply ==
  /\ phase = "effects"
  /\ \A path \in Declared :
       /\ tree[path].type \in {"absent", "file"}
       /\ Parent(path) = Root \/ IsDirectory(Parent(path))
  /\ tree' = [path \in Path |-> IF path \in Declared THEN Node("file", 1) ELSE tree[path]]
  /\ phase' = "ledger"
  /\ UNCHANGED <<tools, walk, sweep, observed, history>>

ApplyFails ==
  /\ phase \in {"effects", "ledger"}
  /\ phase' = "failed"
  /\ UNCHANGED <<tools, tree, walk, sweep, observed, history>>

(* Mutant: the caches that exist are noted, not what they hold. *)
MutNoted(cache) == {}

Noted(cache) == Present(cache)

(* capture_runtime_cache_ledger, one cache. *)
NoteCache ==
  /\ phase = "ledger" /\ ledger.known < Len(Caches)
  /\ LET cache == Caches[ledger.known + 1] IN
     \/ /\ ~Exists(cache)
        /\ ledger' = [ledger EXCEPT !.known = @ + 1]
        /\ UNCHANGED kept
     \/ /\ Exists(cache) /\ ~IsDirectory(cache)
        /\ ledger' = [ledger EXCEPT !.known = @ + 1, !.others = @ \cup {cache}]
        /\ kept' = kept \cup {cache}
     \/ /\ IsDirectory(cache)
        /\ ledger' = [ledger EXCEPT !.known = @ + 1, !.directories = @ \cup {cache},
                                    !.entries = @ \cup Noted(cache)]
        /\ kept' = kept \cup {cache} \cup Present(cache)
  /\ UNCHANGED <<tools, phase, tree, walk, sweep, baseline, reads, failing,
                 before, touched, changes>>

LedgerDone ==
  /\ phase = "ledger" /\ ledger.known = Len(Caches)
  /\ phase' = "tools"
  /\ UNCHANGED <<tools, tree, walk, sweep, observed, history>>

(* cleanup_runtime_caches: the next cache, from the deepest. *)
Cache == Caches[sweep.left]
NextCache(unresolved) ==
  [left |-> sweep.left - 1, open |-> FALSE, items |-> {},
   unresolved |-> sweep.unresolved \/ unresolved]

OpenCache ==
  /\ phase = "cleaning" /\ sweep.left > 0 /\ ~sweep.open
  /\ \/ /\ ~Exists(Cache)
        /\ sweep' = NextCache(Cache \in ledger.directories \cup ledger.others)
     \/ /\ Exists(Cache) /\ ~IsDirectory(Cache)
        /\ sweep' = NextCache(Cache \notin ledger.others)
     \/ /\ IsDirectory(Cache) /\ Cache \in ledger.others
        /\ sweep' = NextCache(TRUE)
     \/ /\ IsDirectory(Cache) /\ Cache \notin ledger.others
        /\ sweep' = [sweep EXCEPT !.open = TRUE, !.items = Present(Cache) \ ledger.entries]
  /\ UNCHANGED <<tools, phase, tree, walk, observed, history>>

Removed(path) == tree' = [tree EXCEPT ![path] = Absent]

RemoveEntry ==
  /\ phase = "cleaning" /\ sweep.open /\ sweep.items # {}
  /\ LET path == First(sweep.items) IN
     \/ /\ tree[path].type = "file" /\ path \in Bytecode
        /\ Removed(path)
        /\ sweep' = [sweep EXCEPT !.items = @ \ {path}]
     \/ /\ sweep' = [sweep EXCEPT !.items = @ \ {path}, !.unresolved = TRUE]
        /\ UNCHANGED tree
  /\ UNCHANGED <<tools, phase, walk, observed, history>>

RemoveCache ==
  /\ phase = "cleaning" /\ sweep.open /\ sweep.items = {}
  /\ \/ /\ Cache \in ledger.directories
        /\ sweep' = NextCache(FALSE)
        /\ UNCHANGED tree
     \/ /\ Cache \notin ledger.directories
        /\ IsDirectory(Cache) /\ Present(Cache) = {}
        /\ Removed(Cache)
        /\ sweep' = NextCache(FALSE)
     \/ /\ Cache \notin ledger.directories
        /\ sweep' = NextCache(TRUE)
        /\ UNCHANGED tree
  /\ UNCHANGED <<tools, phase, walk, observed, history>>

CleaningDone ==
  /\ phase = "cleaning" /\ sweep.left = 0
  /\ IF failing \/ sweep.unresolved
       THEN Fail
       ELSE phase' = "final" /\ UNCHANGED <<failing, sweep, walk>>
  /\ UNCHANGED <<tools, tree, baseline, reads, ledger, history>>

-----------------------------------------------------------------------------
(* Others *)

(* Ctrl-C: the tools have their own way with it; elsewhere it goes through. *)
Interrupted ==
  \/ /\ phase = "tools" \/ (phase = "preflight" /\ InPreflight)
     /\ Interrupt
     /\ UNCHANGED <<phase, walk, sweep, failing>>
  \/ /\ phase \notin Ended \cup {"preflight", "tools"}
     /\ interrupts < MaxInterrupts
     /\ interrupts' = interrupts + 1
     /\ Fail
     /\ UNCHANGED <<kind, pc, position, results, leader, exit, raising>>

InterruptJob ==
  /\ Interrupted
  /\ UNCHANGED <<tree, baseline, reads, ledger, history>>

(* A tool, a process it left behind or the user: a file is written in       *)
(* place, or something takes the place of what was there.                   *)
Change ==
  /\ changes < MaxChanges[kind]
  /\ phase \notin Ended \cup {"preflight"}
  /\ \E path \in Path :
       /\ Parent(path) = Root \/ IsDirectory(Parent(path))
       /\ \/ /\ tree[path].type = "file"
             /\ tree' = [tree EXCEPT ![path] = Node("file", changes + 2)]
             /\ walk' = IF /\ walk.reading.stage = "open" /\ walk.reading.path = path
                           /\ walk.reading.handle = tree[path]
                          THEN [walk EXCEPT !.reading.handle = Node("file", changes + 2)]
                          ELSE walk
          \/ /\ \E node \in {Absent, Directory, Node("file", changes + 2),
                             Node("link", changes + 2)} :
                  /\ node # tree[path]
                  /\ IsDirectory(path) => path \notin DOMAIN Children \/ Present(path) = {}
                  /\ node = Directory => path \in DOMAIN Children
                  /\ tree' = [tree EXCEPT ![path] = node]
             /\ UNCHANGED walk
       /\ touched' = IF phase \in {"baseline", "cleaning", "final"}
                       THEN touched \cup {path} ELSE touched
  /\ changes' = changes + 1
  /\ UNCHANGED <<tools, phase, sweep, observed, before, kept>>

ToolExits ==
  /\ phase \notin Ended /\ Exit
  /\ UNCHANGED <<phase, tree, walk, sweep, observed, history>>

Work ==
  \/ UseTools \/ PreflightEnds \/ ToolsDone
  \/ Scan \/ Visit \/ OpenFile \/ CloseFile \/ ObservationFails
  \/ BaselineDone \/ Compare \/ TakeRead \/ ReadNext
  \/ Apply \/ ApplyFails \/ NoteCache \/ LedgerDone
  \/ OpenCache \/ RemoveEntry \/ RemoveCache \/ CleaningDone

Next == Work \/ InterruptJob \/ Change \/ ToolExits

Spec == Init /\ [][Next]_vars

(* The job goes on; the tools need not end, nobody needs to interrupt. *)
FairSpec == Spec /\ WF_vars(Work)

-----------------------------------------------------------------------------
(* Properties *)

(* A job that succeeds found the workspace at its end as at its beginning,  *)
(* but for the paths a patch declared, those policy ignores, and changes    *)
(* made under its eyes: while it was listing, hashing or cleaning.          *)
WorkspaceIsAsFound ==
  phase = "passed" =>
    \A path \in Path \ (Ignored \cup touched) :
      tree[path] = before[path] \/ (kind = "patch" /\ path \in Declared)

(* What an inventory hashed and what an audit read is one content the file  *)
(* had, the one its metadata belongs to, whatever happened meanwhile.       *)
ReadsAreOfOneMoment ==
  \A entry \in walk.entries \cup baseline \cup Range(reads) :
    entry.node.type = "file" =>
      entry.digest = <<entry.node.version, entry.node.version>>

(* The job itself never removes anything but new bytecode and a new cache   *)
(* directory, and a patch that succeeds left neither behind.                *)
CleanupTakesBackWhatRunsLeft ==
  [][/\ phase = "cleaning" /\ changes' = changes =>
          \A path \in Path : tree'[path] # tree[path] =>
            /\ path \notin kept
            /\ path \in Range(Caches) \cup Bytecode
     /\ phase' = "passed" /\ kind = "patch" =>
          \A cache \in Range(Caches) :
            Present(cache) \cup {cache} \subseteq
              {path \in Path : ~Exists(path)} \cup kept \cup touched]_vars

(* Every job comes to an end, though a tool never does, ignores its signals *)
(* or outlives them.                                                        *)
JobEnds == <>(phase \in Ended)
=============================================================================
