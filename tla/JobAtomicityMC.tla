--------------------------- MODULE JobAtomicityMC ---------------------------
(* The processes and jobs of JobLifecycleMC. *)
EXTENDS JobAtomicity, JobLifecycleMC
=============================================================================
