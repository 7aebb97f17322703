------------------------ MODULE MCSkillPlanExecution ------------------------
(***************************************************************************)
(* Small plans for SkillPlanExecution.                                     *)
(***************************************************************************)
EXTENDS SkillPlanExecution

\* 1, 2 and 4 are independent, 3 needs 1 and 2: a batch can be over-full, a
\* dependency can fail while its siblings go on.
JoinDeps == <<{}, {}, {1, 2}, {}>>

\* 1 and 2 run side by side and may both ask, 3 needs 1.
ForkDeps == <<{}, {}, {1}>>

\* 2 needs 1: a resumed node 1 is followed by another batch.
ChainDeps == <<{}, {1}>>

\* A report, a synthesis and recent evidence from two sources of two hosts: what
\* finalization counts as evidence, a plan that ends early does not.
ForkOwed == [atoms |-> {"report"}, criteria |-> {}, synthesis |-> TRUE,
             evidence |-> TRUE, fresh |-> TRUE, sources |-> 2, origins |-> 2]
ForkGives == <<{"s1"}, {"s2"}, {"report"}>>
ForkOrigin == [s1 |-> "host", s2 |-> "other"]

\* A plan without a candidate snapshot owes nothing.
NothingGiven == [n \in Nodes |-> {}]
NothingOwed == [atoms |-> {}, criteria |-> {}, synthesis |-> FALSE, evidence |-> FALSE,
                fresh |-> FALSE, sources |-> 1, origins |-> 1]
=============================================================================
