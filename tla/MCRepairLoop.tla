----------------------------- MODULE MCRepairLoop ----------------------------
(* Two findings for the repair loop. *)
EXTENDS RepairLoopRefinement

CONSTANTS f1, f2
=============================================================================
