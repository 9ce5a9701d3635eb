------------------------------ MODULE JobFiles ------------------------------
(***************************************************************************)
(* What jobs do to the files of a workspace: a patch is planned against    *)
(* the files, and its plan says of each path what it holds before and what *)
(* it is to hold after.  The same entries, kept in the backup, say what a  *)
(* rollback restores.                                                      *)
(***************************************************************************)
EXTENDS Naturals, Sequences

CONSTANTS
  Id,           \* job IDs
  Hash,         \* normalized job hashes
  Patch,        \* the jobs that are patches; the others audit or verify
  Path,         \* the files and directories the jobs work on
  Content,      \* what a path may hold: bytes and mode of a file, a directory
  Absent,       \* the content of a path that does not exist
  Within,       \* per path, what lies inside it if it is a directory
  Goal          \* per patch, what it makes of a workspace, formatters included;
                \* a workspace it cannot be planned for is not in its domain

Job == [id : Id, hash : Hash]
Tree == [Path -> Content]

ASSUME FilesAssumption ==
  /\ Id # {} /\ Hash # {}
  /\ Patch \subseteq Job
  /\ Absent \in Content
  /\ Within \in [Path -> SUBSET Path]
  /\ \A j \in Patch : \A t \in DOMAIN Goal[j] : t \in Tree /\ Goal[j][t] \in Tree

(* A path that a plan leaves alone has no entry in the program; here it is   *)
(* absent before and after.                                                  *)
Entry == [before : Content, after : Content]
Plan == [Path -> Entry]
Touched(e) == {q \in Path : e[q].before # e[q].after}
NoChange == [q \in Path |-> [before |-> Absent, after |-> Absent]]

(* plan_job; an audit or a verification changes nothing. *)
Plannable(j, t) == j \in Patch => t \in DOMAIN Goal[j]
PlanOf(j, t) ==
  [q \in Path |-> IF j \in Patch /\ Goal[j][t][q] # t[q]
                  THEN [before |-> t[q], after |-> Goal[j][t][q]]
                  ELSE NoChange[q]]

(* The touched paths, and no others, hold what they are to hold after the    *)
(* plan, what they held before it, or anything on the way.                   *)
Rewritten(t, e) == [q \in Path |-> IF q \in Touched(e) THEN e[q].after ELSE t[q]]
Restored(t, e) == [q \in Path |-> IF q \in Touched(e) THEN e[q].before ELSE t[q]]
Disturbed(t, e) ==
  {[q \in Path |-> IF q \in Touched(e) THEN f[q] ELSE t[q]] : f \in [Touched(e) -> Content]}

(* Mutant: the files are not looked at. *)
MutInPlace(t, e) == Touched(e) \subseteq DOMAIN t

(* Every path is as the plan left it, and a directory the plan created holds *)
(* nothing else.                                                             *)
InPlace(t, e) ==
  \A q \in Touched(e) :
    /\ t[q] = e[q].after
    /\ e[q].before = Absent => \A r \in Within[q] : t[r] # Absent => r \in Touched(e)
=============================================================================
