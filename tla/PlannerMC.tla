----------------------------- MODULE PlannerMC -----------------------------
(* A small project: two modules at the top, and a package that is missing,  *)
(* or there with a file in it; a protected file.  Texts have three versions *)
(* that one edit steps through and another sets back.                       *)
EXTENDS Planner

CONSTANTS app, lib, pkg, mod, sub, leaf, key, v0, v1, v2

MCPath == {app, lib, pkg, mod, sub, leaf, key}
MCParents ==
  [p \in MCPath |-> CASE p \in {mod, sub} -> <<pkg>>
                      [] p = leaf         -> <<pkg, sub>>
                      [] OTHER            -> <<>>]
MCProtected == {key}
MCPython == {app, lib, mod, leaf}
MCText == {v0, v1, v2}

MCEdits == {"step", "reset"}
MCEdit(e, t) ==
  CASE e = "reset" -> {v0}
    [] t = v0      -> {v1}
    [] t = v1      -> {v2}
    [] OTHER       -> {}
MCTransfer(e, s, d) == IF s = v0 THEN {} ELSE {[source |-> v0, destination |-> v2]}

MCTrees ==
  LET bare == [p \in MCPath |-> CASE p = app -> v0 [] p \in {lib, key} -> v1
                                  [] OTHER -> MISSING]
  IN {bare, [bare EXCEPT ![pkg] = DIRECTORY, ![mod] = v1]}

MCActions ==
  {[op |-> "create_directory", path |-> p] : p \in {pkg, sub, app}}
    \cup {[op |-> "create_file", path |-> p, text |-> v1] : p \in {mod, leaf, app, key}}
    \cup {[op |-> "edit", path |-> p, edit |-> "step"] : p \in {app, mod, leaf}}
    \cup {[op |-> "edit", path |-> app, edit |-> "reset"]}
    \cup {[op |-> "apply_diff", first |-> app, second |-> p, edit |-> "step"] : p \in {lib, mod}}
    \cup {[op |-> "transfer", path |-> lib, destination |-> app, edit |-> "step", guard |-> v0],
          [op |-> "transfer", path |-> mod, destination |-> lib, edit |-> "step", guard |-> v1]}
    \cup {[op |-> "move_file", path |-> app, destination |-> p, guard |-> v0] : p \in {leaf, pkg}}
    \cup {[op |-> "move_file", path |-> lib, destination |-> mod, guard |-> v1]}

MCChecks == {[name |-> "ruff"], [name |-> "paths", path |-> lib], [name |-> "paths", path |-> pkg]}
=============================================================================
