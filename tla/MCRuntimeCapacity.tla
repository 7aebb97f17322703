------------------------- MODULE MCRuntimeCapacity -------------------------
(* Four background attempts, two of them of one turn, and three resumes,   *)
(* two of them of one run.  u1 has three keys for a user limit of 2, the   *)
(* two users together have five for a process limit of 3.                  *)
EXTENDS RuntimeCapacity, TLC

CONSTANTS u1, u2, kTurn, kOther, kOther2, kResume, kResume2, t1, t2, t3, t4, r1, r2, r3

MCUsers == {u1, u2}
MCKeys == {kTurn, kOther, kOther2, kResume, kResume2}
MCTasks == {t1, t2, t3, t4}
MCResumes == {r1, r2, r3}
MCKeyOf == t1 :> kTurn @@ t2 :> kTurn @@ t3 :> kOther @@ t4 :> kOther2
           @@ r1 :> kResume @@ r2 :> kResume @@ r3 :> kResume2
MCUserOf == t1 :> u1 @@ t2 :> u1 @@ t3 :> u2 @@ t4 :> u2 @@ r1 :> u1 @@ r2 :> u1 @@ r3 :> u1

=============================================================================
