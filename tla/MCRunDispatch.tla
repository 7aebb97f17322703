--------------------------- MODULE MCRunDispatch ---------------------------
(* A run that is planned first and one whose Skill needs input, asked for in *)
(* the same chat thread or in two, with capacity for one run at a time.      *)
EXTENDS RunDispatch, TLC

CONSTANTS p, i, t1, t2, none
=============================================================================
