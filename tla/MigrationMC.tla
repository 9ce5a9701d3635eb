---------------------------- MODULE MigrationMC ----------------------------
(* One database behind two workspaces, an app that is migrated by reviewed  *)
(* plans and another one; forward to the end, half way, and back.           *)
EXTENDS Migration

CONSTANTS p1, p2, w1, w2, main, orders, users

MCAsk(w, target, reverse, reconcile) ==
  [workspace |-> w, database |-> main, app |-> orders, target |-> target,
   reverse |-> reverse, reconcile |-> reconcile]
MCTop == [a \in {orders, users} |-> IF a = orders THEN 2 ELSE 1]
MCReviewable ==
  [p \in {p1, p2} |->
     IF p = p1 THEN {MCAsk(w1, 2, FALSE, 0), MCAsk(w2, 0, TRUE, 0)}
     ELSE {MCAsk(w1, 2, FALSE, 0), MCAsk(w1, 2, FALSE, 1)}]
MCIrreversible == {<<orders, 2>>}
MCNonAtomic == {}
=============================================================================
