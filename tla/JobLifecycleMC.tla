--------------------------- MODULE JobLifecycleMC ---------------------------
(* Two processes and two IDs, each with two contents: three patches and a   *)
(* job that changes nothing (an audit or a verification).  A directory, a   *)
(* file in it, and a text that is there from the beginning.                 *)
EXTENDS JobLifecycle, TLC

CONSTANTS p1, p2, fix, port, h1, h2, dir, file, text, v1

MCPatch ==
  {[id |-> fix, hash |-> h1], [id |-> fix, hash |-> h2], [id |-> port, hash |-> h1]}
    \cap Job

MCWithin == [q \in Path |-> IF q = dir THEN {file} ELSE {}]
MCOriginal == [q \in Path |-> IF q = text THEN v1 ELSE Absent]

(* fix deletes the text; under its other content it creates the directory   *)
(* and a text that was deleted; port creates the file in it as well.        *)
(* So jobs overlap, keep apart, work inside what another created, or find   *)
(* their work done by another.                                              *)
MCGoal ==
  [j \in Patch |->
     CASE j = [id |-> fix, hash |-> h1] ->
            [t \in {u \in Tree : u[text] # Absent} |-> [t EXCEPT ![text] = Absent]]
       [] j = [id |-> fix, hash |-> h2] ->
            [t \in Tree |-> [t EXCEPT ![dir] = v1, ![text] = v1]]
       [] j = [id |-> port, hash |-> h1] ->
            [t \in Tree |-> [t EXCEPT ![dir] = v1, ![file] = v1, ![text] = v1]]]

MCSymmetry == Permutations({p1, p2})
=============================================================================
