--------------------------- MODULE MCPlanApproval ---------------------------
(* Two editing threads, a submission that may be sent again and one file. *)
EXTENDS PlanApproval, TLC

CONSTANTS e1, e2, c1, file, none

\* The editing threads are interchangeable.
Interchangeable == Permutations({e1, e2})
=============================================================================
