--------------------------- MODULE PatchContract ---------------------------
(***************************************************************************)
(* What a patch transaction promises to somebody who reads only its        *)
(* manifest: while the verdict is open the declared paths may be in any    *)
(* state; a verdict of success is reached only from the accepted result, a *)
(* verdict of no effect only from the original state, and nothing is       *)
(* touched under a verdict, unless a success is reopened to be undone.     *)
(***************************************************************************)
VARIABLES
  tree,     \* the declared paths, as a whole
  verdict   \* what the manifest lets a reader conclude

Trees == {"original", "accepted", "other"}
Verdicts == {"open", "applied", "undone", "flagged"}

ContractTypeOK == tree \in Trees /\ verdict \in Verdicts

Init == tree = "original" /\ verdict = "open"

Work ==
  /\ verdict = "open"
  /\ tree' \in Trees
  /\ UNCHANGED verdict

Commit ==
  /\ verdict = "open" /\ tree = "accepted"
  /\ verdict' = "applied"
  /\ UNCHANGED tree

Undo ==
  /\ verdict = "open" /\ tree = "original"
  /\ verdict' = "undone"
  /\ UNCHANGED tree

(* CHANGES_KEPT or ROLLBACK_FAILED: the reader is told to look. *)
Surrender ==
  /\ verdict = "open"
  /\ verdict' = "flagged"
  /\ UNCHANGED tree

Reopen ==
  /\ verdict = "applied"
  /\ verdict' = "open"
  /\ UNCHANGED tree

Next == Work \/ Commit \/ Undo \/ Surrender \/ Reopen

Spec == Init /\ [][Next]_<<tree, verdict>>
=============================================================================
