--------------------------- MODULE TransactionMC ---------------------------
(* A small project for Transaction: a package directory with a nested one, *)
(* created files in both, a modified and a deleted file, an undeclared     *)
(* source file, and an undeclared ignored entry inside the new package.    *)
EXTENDS Transaction

CONSTANTS pkg, sub, mod, leaf, app, old, readme, stray

MCPath == {pkg, sub, mod, leaf, app, old, readme, stray}
MCKind ==
  [p \in MCPath |->
     CASE p \in {pkg, sub} -> "directory"
       [] p \in {mod, leaf} -> "create"
       [] p = app -> "modify"
       [] p = old -> "delete"
       [] OTHER -> "undeclared"]
MCAncestors ==
  [p \in MCPath |->
     CASE p = leaf -> {pkg, sub}
       [] p \in {sub, mod, stray} -> {pkg}
       [] OTHER -> {}]
MCExisting == {readme}
MCIgnored == {stray}

PlanOf(steps, dirs, formatted, lint, rerun, retain) ==
  [steps |-> steps, dirs |-> dirs, formatted |-> formatted,
   lint |-> lint, rerun |-> rerun, retain |-> retain]

(* Creates in both directories, a change and a removal, with and without   *)
(* rollback; a plan with every validation stage; an empty plan.            *)
MCPlans ==
  {PlanOf(<<>>, <<>>, {}, FALSE, FALSE, FALSE)}
    \cup {PlanOf(<<app, leaf, old>>, <<pkg, sub>>, {}, FALSE, FALSE, r) : r \in BOOLEAN}
    \cup {PlanOf(<<pkg, app, mod>>, <<pkg>>, {app, mod}, FALSE, TRUE, FALSE)}
    \cup {PlanOf(<<app, old>>, <<>>, {app}, TRUE, TRUE, FALSE)}

(* Disturbed runs: one plan with every kind of effect, kept or rolled back. *)
MCDisturbedPlans ==
  {PlanOf(<<app, leaf, old>>, <<pkg, sub>>, {}, FALSE, FALSE, r) : r \in BOOLEAN}
=============================================================================
