-------------------------- MODULE DeepSearchProofs --------------------------
(***************************************************************************)
(* Proofs about DeepSearch, for any number of coroutines, nodes and        *)
(* clarifications and for any limits.                                      *)
(***************************************************************************)
EXTENDS DeepSearch, FiniteSetTheorems, TLAPS

-----------------------------------------------------------------------------
(* The inductive invariant.                                                *)

AllSettled == \A n \in Nodes : node[n] \in Settled

\* A plan stands on the last version of a requirement that asks nothing any more.
Grounded ==
    /\ plan.status # "none" =>
          /\ plan.requirement = requirement.version /\ requirement.version >= 1
          /\ ~requirement.open /\ run # "clarify"
    /\ run = "planning" => ~requirement.open
    /\ appended # {} => requirement.version >= 1

\* Finalization begins when the nodes are settled, and no approval waits then.
Finalizing ==
    /\ plan.stage # "none" => AllSettled /\ run \in {"running"} \cup Over
    /\ run = "waiting_approval" => paused \in Nodes

\* What a coroutine knows from the position it is at.
Placed(x, version, settled, stage) ==
    /\ x.at = "refine" /\ x.kind = "start" => x.from = 0
    /\ x.at = "analyse" => version >= 1
    /\ x.at = "final" => settled
    /\ x.at \in {"model", "build", "publish"} => x.stage \notin {"none", "terminal"} /\ stage # "none"
    /\ x.at = "model" \/ (x.at = "build" /\ ~x.report) => x.stage # "review1"

Positions == \A t \in Tasks : Placed(task[t], requirement.version, AllSettled, plan.stage)

\* A ledger whose open reservations are finitely many, and one within its limits.
Sound(b) == b \in Ledger /\ IsFiniteSet(b.open)
Within(b) == Sound(b) /\ \A s \in Scopes : Charged(b, s) <= Limit(s)

StoreTyped ==
    /\ run \in {"planning", "clarify", "waiting_plan", "running", "waiting_approval"} \cup Over
    /\ requirement \in [version : 0 .. MaxRequirement, open : BOOLEAN]
    /\ appended \subseteq Commands
    /\ plan \in PlanRecord
    /\ node \in [Nodes -> {"pending", "running", "paused"} \cup Settled]
    /\ tried \subseteq Nodes /\ paused \in Nodes \cup {NoNode}
    /\ report \in {"none", "staging", "sealed", "failed"}
    /\ attempts \in 0 .. MaxAttempts

StoreInv ==
    /\ StoreTyped /\ Within(budget) /\ Grounded /\ Finalizing /\ ReportEarned
    /\ run \in Over => budget.open = {}

WorkTyped ==
    /\ task \in [Tasks -> {Idle} \cup Work]
    /\ registered \in Tasks \cup {NoTask} /\ crashes \in 0 .. MaxCrashes

IInv == StoreInv /\ WorkTyped /\ Positions

\* What no step may do, with what the positions need of it.
Frozen ==
    /\ plan.stage # "none" => node' = node /\ plan'.stage # "none"
    /\ run \in Over => UNCHANGED <<run, plan, node, budget, requirement>>
    /\ requirement'.version >= requirement.version

Good == StoreInv' /\ Frozen

LEMMA Meaning == IInv => TypeOK /\ BudgetKept /\ ReportEarned
<1> SUFFICES ASSUME IInv PROVE TypeOK /\ BudgetKept
  BY DEF IInv, StoreInv
<1>1. TypeOK
  BY DEF IInv, StoreInv, StoreTyped, WorkTyped, Within, Sound, TypeOK
<1>2. attempts <= MaxAttempts
  BY Bounds DEF IInv, StoreInv, StoreTyped
<1> QED BY <1>1, <1>2 DEF IInv, StoreInv, Within, BudgetKept

-----------------------------------------------------------------------------
(* The budget.                                                             *)

In(S, s) == {r \in S : r.scope = s}

LEMMA LedgerFields ==
  ASSUME NEW b, Sound(b), NEW s \in Scopes
  PROVE  /\ b.standard \in Nat /\ b.finalization \in Nat /\ b[s] \in Nat
         /\ b.open \in SUBSET Reservation /\ IsFiniteSet(In(b.open, s)) /\ Cardinality(In(b.open, s)) \in Nat
<1>1. b.standard \in Nat /\ b.finalization \in Nat /\ b.open \in SUBSET Reservation
  BY DEF Sound, Ledger
<1>2. b[s] \in Nat
  BY <1>1 DEF Scopes
<1>3. In(b.open, s) \subseteq b.open
  BY DEF In
<1>4. IsFiniteSet(In(b.open, s)) /\ Cardinality(In(b.open, s)) \in Nat
  BY <1>3, FS_Subset, FS_CardinalityType DEF Sound
<1> QED BY <1>1, <1>2, <1>4

LEMMA ChargedIs ==
  ASSUME NEW b, NEW s
  PROVE  Charged(b, s) = b[s] + Cardinality(In(b.open, s))
  BY DEF Charged, In

\* How many units of a scope a settlement covers.
Covered(b, R, s) == Cardinality({r \in R \cap b.open : r.scope = s})

\* Settling reservations at what was used, one unit at most, charges no scope more.
LEMMA SettleSound ==
  ASSUME NEW b, Sound(b), NEW R, NEW actual \in 0 .. 1
  PROVE  /\ Sound(Settle(b, R, actual))
         /\ Settle(b, R, actual).open = b.open \ R
         /\ \A s \in Scopes : Charged(Settle(b, R, actual), s) <= Charged(b, s)
<1> DEFINE c == Settle(b, R, actual)
<1>1. ASSUME NEW s \in Scopes
      PROVE  /\ Covered(b, R, s) \in Nat
             /\ Cardinality(In(b.open \ R, s)) \in Nat
             /\ Cardinality(In(b.open, s)) = Cardinality(In(b.open \ R, s)) + Covered(b, R, s)
  <2> DEFINE out == In(b.open \ R, s)
             kept == {r \in R \cap b.open : r.scope = s}
  <2>1. IsFiniteSet(In(b.open, s)) /\ out \subseteq In(b.open, s) /\ kept \subseteq In(b.open, s)
    BY LedgerFields DEF In
  <2>2. IsFiniteSet(out) /\ IsFiniteSet(kept)
    BY <2>1, FS_Subset
  <2>3. out \cap kept = {} /\ out \cup kept = In(b.open, s)
    BY DEF In
  <2>4. Cardinality(out) \in Nat /\ Cardinality(kept) \in Nat
    BY <2>2, FS_CardinalityType
  <2>5. Cardinality(out \cup kept) = Cardinality(out) + Cardinality(kept) - Cardinality(out \cap kept)
    BY <2>2, FS_Union
  <2>6. Cardinality(out \cap kept) = 0
    BY <2>3, FS_EmptySet
  <2>7. Cardinality(In(b.open, s)) = Cardinality(out) + Cardinality(kept) - 0
    BY <2>3, <2>5, <2>6
  <2>8. Cardinality(In(b.open, s)) = Cardinality(out) + Cardinality(kept)
    BY <2>4, <2>7
  <2> QED BY <2>4, <2>8 DEF Covered
<1>2. /\ c.open = b.open \ R
      /\ c.standard = b.standard + actual * Covered(b, R, "standard")
      /\ c.finalization = b.finalization + actual * Covered(b, R, "finalization")
  BY DEF Settle, Covered, Sound, Ledger
<1>3. ASSUME NEW s \in Scopes PROVE actual * Covered(b, R, s) \in Nat /\ actual * Covered(b, R, s) <= Covered(b, R, s)
  <2>1. CASE actual = 0
    BY <1>1, <2>1
  <2>2. CASE actual = 1
    BY <1>1, <2>2
  <2> QED BY <2>1, <2>2
<1>4. c \in Ledger
  <2>1. b.standard + actual * Covered(b, R, "standard") \in Nat /\ b.finalization + actual * Covered(b, R, "finalization") \in Nat
    BY <1>3, LedgerFields DEF Scopes
  <2> QED BY <2>1 DEF Settle, Covered, Sound, Ledger
<1>5. IsFiniteSet(c.open)
  BY <1>2, FS_Subset DEF Sound
<1>6. ASSUME NEW s \in Scopes PROVE Charged(c, s) <= Charged(b, s)
  <2>1. c[s] = b[s] + actual * Covered(b, R, s)
    BY <1>2 DEF Scopes
  <2>2. b[s] \in Nat
    BY LedgerFields
  <2> HIDE DEF c
  <2>3. Charged(c, s) = b[s] + actual * Covered(b, R, s) + Cardinality(In(b.open \ R, s))
    BY <1>2, <2>1, ChargedIs
  <2>4. Charged(b, s) = b[s] + Cardinality(In(b.open \ R, s)) + Covered(b, R, s)
    <3>1. Charged(b, s) = b[s] + Cardinality(In(b.open, s))
      BY ChargedIs
    <3> QED BY <1>1, <2>2, <3>1
  <2> DEFINE a == actual * Covered(b, R, s)
             k == Cardinality(In(b.open \ R, s))
             w == Covered(b, R, s)
  <2>5. a \in Nat /\ k \in Nat /\ w \in Nat /\ a <= w
    BY <1>1, <1>3
  <2> HIDE DEF a, k, w
  <2>6. b[s] + a + k <= b[s] + k + w
    BY <2>2, <2>5
  <2> QED BY <2>3, <2>4, <2>6 DEF a, k, w
<1> QED BY <1>2, <1>4, <1>5, <1>6 DEF Sound

\* A new reservation charges its scope one unit at most and no other scope.
LEMMA ReserveSound ==
  ASSUME NEW b, Sound(b), NEW r \in Reservation
  PROVE  LET c == [b EXCEPT !.open = @ \cup {r}] IN
         /\ Sound(c) /\ c.open = b.open \cup {r}
         /\ \A s \in Scopes : Charged(c, s) <= Charged(b, s) + IF r.scope = s THEN 1 ELSE 0
<1> DEFINE c == [b EXCEPT !.open = @ \cup {r}]
<1>1. c.open = b.open \cup {r} /\ c.standard = b.standard /\ c.finalization = b.finalization /\ c \in Ledger
  BY DEF Sound, Ledger
<1>2. IsFiniteSet(c.open)
  BY <1>1, FS_AddElement DEF Sound
<1>3. ASSUME NEW s \in Scopes PROVE Charged(c, s) <= Charged(b, s) + IF r.scope = s THEN 1 ELSE 0
  <2>1. c[s] = b[s] /\ b[s] \in Nat /\ IsFiniteSet(In(b.open, s)) /\ Cardinality(In(b.open, s)) \in Nat
    BY <1>1, LedgerFields DEF Scopes
  <2>2. CASE r.scope = s
    <3>1. In(c.open, s) = In(b.open, s) \cup {r}
      BY <1>1, <2>2 DEF In
    <3>2. Cardinality(In(c.open, s)) \in {Cardinality(In(b.open, s)), Cardinality(In(b.open, s)) + 1}
      BY <2>1, <3>1, FS_AddElement
    <3>3. Charged(c, s) = b[s] + Cardinality(In(c.open, s)) /\ Charged(b, s) = b[s] + Cardinality(In(b.open, s))
      BY <2>1, ChargedIs
    <3> HIDE DEF c
    <3>4. Charged(c, s) <= Charged(b, s) + 1
      BY <2>1, <3>2, <3>3
    <3> QED BY <2>2, <3>4
  <2>3. CASE r.scope # s
    <3>1. In(c.open, s) = In(b.open, s)
      BY <1>1, <2>3 DEF In
    <3>2. /\ Charged(c, s) = c[s] + Cardinality(In(c.open, s))
          /\ Charged(b, s) = b[s] + Cardinality(In(b.open, s))
      BY ChargedIs
    <3> HIDE DEF c
    <3>3. Charged(c, s) <= Charged(b, s) + 0
      BY <2>1, <3>1, <3>2
    <3> QED BY <2>3, <3>3
  <2> QED BY <2>2, <2>3
<1> QED BY <1>1, <1>2, <1>3 DEF Sound

LEMMA ChargedNat ==
  ASSUME NEW b, Sound(b), NEW s \in Scopes
  PROVE  Charged(b, s) \in Nat /\ Limit(s) \in Nat
  BY LedgerFields, ChargedIs, Bounds DEF Limit

LEMMA SettleWithin ==
  ASSUME NEW b, Within(b), NEW R, NEW actual \in 0 .. 1
  PROVE  Within(Settle(b, R, actual)) /\ Settle(b, R, actual).open = b.open \ R
<1>1. Sound(b) /\ Sound(Settle(b, R, actual)) /\ Settle(b, R, actual).open = b.open \ R
  BY SettleSound DEF Within
<1>2. ASSUME NEW s \in Scopes PROVE Charged(Settle(b, R, actual), s) <= Limit(s)
  <2>1. Charged(Settle(b, R, actual), s) <= Charged(b, s) /\ Charged(b, s) <= Limit(s)
    BY <1>1, SettleSound DEF Within
  <2> QED BY <1>1, <2>1, ChargedNat
<1> QED BY <1>1, <1>2 DEF Within

LEMMA CloseWithin ==
  ASSUME NEW b, Within(b)
  PROVE  Within(Close(b)) /\ Close(b).open = {}
  BY SettleWithin DEF Close

LEMMA ReserveWithin ==
  ASSUME NEW b, Within(b), NEW r \in Reservation, Room(b, r.scope)
  PROVE  Within([b EXCEPT !.open = @ \cup {r}])
<1> DEFINE c == [b EXCEPT !.open = @ \cup {r}]
<1>1. Sound(b) /\ Sound(c)
  BY ReserveSound DEF Within
<1>2. ASSUME NEW s \in Scopes PROVE Charged(c, s) <= Limit(s)
  <2>1. Charged(c, s) <= Charged(b, s) + IF r.scope = s THEN 1 ELSE 0
    BY <1>1, ReserveSound
  <2>2. Charged(b, s) <= Limit(s) /\ (r.scope = s => Charged(b, s) < Limit(s))
    BY DEF Within, Room
  <2>3. Charged(c, s) \in Nat /\ Charged(b, s) \in Nat /\ Limit(s) \in Nat
    BY <1>1, ChargedNat
  <2> HIDE DEF c
  <2> QED BY <2>1, <2>2, <2>3
<1> QED BY <1>1, <1>2 DEF Within

LEMMA SpendWithin ==
  ASSUME NEW b, Within(b), Room(b, "standard")
  PROVE  Within(Spend(b)) /\ Spend(b).open = b.open
<1>1. /\ Spend(b).open = b.open /\ Spend(b).standard = b.standard + 1
      /\ Spend(b).finalization = b.finalization
  BY DEF Spend, Within, Sound, Ledger
<1>2. b.standard \in Nat /\ b.finalization \in Nat
  BY DEF Within, Sound, Ledger
<1>3. Sound(Spend(b))
  <2>1. b.standard + 1 \in Nat
    BY <1>2
  <2>2. Spend(b) \in Ledger
    BY <2>1 DEF Spend, Within, Sound, Ledger
  <2> QED BY <1>1, <2>2 DEF Within, Sound
<1>4. ASSUME NEW s \in Scopes PROVE Charged(Spend(b), s) <= Limit(s)
  <2>1. Cardinality(In(b.open, s)) \in Nat /\ Limit(s) \in Nat /\ b[s] \in Nat
    BY LedgerFields, ChargedNat DEF Within
  <2>2. CASE s = "standard"
    <3>1. Charged(b, s) < Limit(s)
      BY <2>2 DEF Room
    <3>2. Spend(b)[s] = b[s] + 1
      BY <1>1, <2>2
    <3> QED BY <1>1, <2>1, <3>1, <3>2, ChargedIs
  <2>3. CASE s = "finalization"
    <3>1. Spend(b)[s] = b[s]
      BY <1>1, <2>3
    <3> QED BY <1>1, <3>1, ChargedIs DEF Within
  <2> QED BY <2>2, <2>3 DEF Scopes
<1> QED BY <1>1, <1>3, <1>4 DEF Within

-----------------------------------------------------------------------------
(* The records of the store.                                               *)

LEMMA StagesAre ==
  /\ Stages = {"none", "nodes", "manifest", "synthesis0", "coverage0", "review0", "synthesis1",
               "coverage1", "review1", "terminal"}
  /\ \A s \in Stages \ {"review1", "terminal"} : Next1[s] \in Stages \ {"none"}
<1>1. DOMAIN Next1 = {"none", "nodes", "manifest", "synthesis0", "coverage0", "review0", "synthesis1",
                      "coverage1"}
  BY DEF Next1
<1>2. Stages = {"none", "nodes", "manifest", "synthesis0", "coverage0", "review0", "synthesis1",
                "coverage1", "review1", "terminal"}
  BY <1>1 DEF Stages
<1>3. \A s \in Stages \ {"review1", "terminal"} : Next1[s] \in Stages \ {"none"}
  BY <1>2 DEF Next1
<1> QED BY <1>2, <1>3

PlanStatuses == {"none", "planning", "waiting", "approved", "running"} \cup Over
Reviews == {"none", "pass", "revise", "other"}

LEMMA PlanEnded ==
  ASSUME NEW p \in PlanRecord, NEW s \in PlanStatuses, NEW g \in Stages
  PROVE  [p EXCEPT !.status = s, !.stage = g] \in PlanRecord
  BY DEF PlanRecord, PlanStatuses

LEMMA PlanMoved ==
  ASSUME NEW p \in PlanRecord, NEW s \in PlanStatuses
  PROVE  [p EXCEPT !.status = s] \in PlanRecord
  BY DEF PlanRecord, PlanStatuses

LEMMA PlanSkeleton ==
  ASSUME NEW p \in PlanRecord, NEW s \in PlanStatuses, NEW v \in 0 .. MaxRequirement
  PROVE  [p EXCEPT !.status = s, !.requirement = v] \in PlanRecord
  BY DEF PlanRecord, PlanStatuses

LEMMA PlanAdvanced ==
  ASSUME NEW p \in PlanRecord, NEW g \in Stages, NEW r \in Reviews, NEW d \in BOOLEAN
  PROVE  [p EXCEPT !.stage = g, !.review = r, !.digest = d] \in PlanRecord
  BY DEF PlanRecord, Reviews

-----------------------------------------------------------------------------
(* Changes of the store that several actions make.                         *)

LEMMA StoreSame == ASSUME StoreInv, UNCHANGED store PROVE Good
<1> USE DEF store
<1>1. requirement.version >= requirement.version
  BY Bounds DEF StoreInv, StoreTyped
<1> QED BY <1>1 DEF Good, Frozen, StoreInv, StoreTyped, Within, Sound, Grounded, Finalizing, AllSettled,
        ReportEarned, Charged

LEMMA KeepGood ==
  ASSUME StoreInv, NEW b, Keep(b), Within(b), run \in Over => b = budget
  PROVE  Good
<1>1. requirement.version >= requirement.version
  BY Bounds DEF StoreInv, StoreTyped
<1>2. Within(budget')
  BY DEF Keep, Within, Sound, Charged
<1> QED BY <1>1, <1>2 DEF Keep, Good, Frozen, StoreInv, StoreTyped, Within, Sound, Grounded, Finalizing,
        AllSettled, ReportEarned, Charged

LEMMA EndGood ==
  ASSUME StoreInv, run \notin Over, NEW s \in {"failed", "cancelled"}, NEW b, Within(b), End(s, b)
  PROVE  Good /\ AllSettled'
<1>1. requirement' = requirement /\ requirement.version >= requirement.version /\ run' = s
  BY Bounds DEF StoreInv, StoreTyped, End
<1>2. Within(budget') /\ budget'.open = {}
  <2>1. budget' = Close(b)
    BY DEF End
  <2> QED BY <2>1, CloseWithin DEF Within, Sound, Charged
<1>3. /\ plan' \in PlanRecord /\ (plan.stage # "none" => plan'.stage # "none")
      /\ (plan'.status # "none" => plan.status # "none") /\ plan'.requirement = plan.requirement
  <2>1. plan \in PlanRecord
    BY DEF StoreInv, StoreTyped
  <2>2. plan' \in PlanRecord
    BY <2>1, PlanEnded, StagesAre DEF End, PlanStatuses, Over
  <2> QED BY <2>1, <2>2 DEF End, PlanRecord
<1>4. AllSettled'
  BY DEF End, AllSettled, Settled
<1>5. node' \in [Nodes -> {"pending", "running", "paused"} \cup Settled]
      /\ (plan.stage # "none" => node' = node)
  BY DEF End, StoreInv, StoreTyped, Settled, Finalizing, AllSettled
<1>6. report # "sealed" /\ report' # "sealed" /\ report' \in {"none", "staging", "sealed", "failed"}
  BY DEF End, StoreInv, ReportEarned, StoreTyped, Over
<1>7. StoreTyped'
  BY <1>1, <1>3, <1>5, <1>6, Bounds DEF StoreTyped, StoreInv, End, Over
<1>8. Grounded'
  BY <1>1, <1>3 DEF Grounded, StoreInv, End
<1>9. Finalizing'
  BY <1>1, <1>4 DEF Finalizing, Over
<1>10. ReportEarned'
  BY <1>1, <1>6 DEF ReportEarned
<1> QED BY <1>1, <1>2, <1>3, <1>4, <1>5, <1>7, <1>8, <1>9, <1>10 DEF Good, Frozen, StoreInv

LEMMA BudgetWithin == StoreInv => Within(budget)
  BY DEF StoreInv

LEMMA GiveUpGood ==
  ASSUME StoreInv, NEW t, NEW b, GiveUp(t, b), Within(b), run \in Over => b = budget
  PROVE  Good
  BY EndGood, KeepGood DEF GiveUp, Terminable, Over

LEMMA FailRecoveryGood ==
  ASSUME StoreInv, NEW t, FailRecovery(t)
  PROVE  Good
  BY EndGood, KeepGood, BudgetWithin DEF FailRecovery

LEMMA FailPlanningGood ==
  ASSUME StoreInv, FailPlanning
  PROVE  Good
<1>1. CASE run \in {"planning", "clarify"} /\ plan.status \in {"none", "planning"}
  <2>1. /\ run' = "failed" /\ UNCHANGED <<requirement, appended, node, tried, paused, report, attempts>>
        /\ plan' = (IF plan.status = "none" THEN plan ELSE [plan EXCEPT !.status = "failed"])
        /\ budget' = Close(budget)
    BY <1>1 DEF FailPlanning
  <2>2. Within(budget') /\ budget'.open = {}
    BY <2>1, BudgetWithin, CloseWithin DEF Within, Sound, Charged
  <2>3. /\ plan' \in PlanRecord /\ plan'.stage = plan.stage
        /\ (plan'.status # "none" => plan.status # "none") /\ plan'.requirement = plan.requirement
    <3>1. plan \in PlanRecord
      BY DEF StoreInv, StoreTyped
    <3>2. plan' \in PlanRecord
      BY <2>1, <3>1, PlanMoved DEF PlanStatuses, Over
    <3> QED BY <2>1, <3>1, <3>2 DEF PlanRecord
  <2>4. requirement.version >= requirement.version
    BY Bounds DEF StoreInv, StoreTyped
  <2>5. ReportEarned'
    BY <1>1, <2>1 DEF StoreInv, ReportEarned
  <2>6. Finalizing' /\ Grounded'
    BY <1>1, <2>1, <2>3 DEF StoreInv, Finalizing, Grounded, AllSettled, Over
  <2> QED BY <1>1, <2>1, <2>2, <2>3, <2>4, <2>5, <2>6 DEF Good, Frozen, StoreInv, StoreTyped, Over
<1>2. CASE ~(run \in {"planning", "clarify"} /\ plan.status \in {"none", "planning"})
  BY <1>2, KeepGood, BudgetWithin DEF FailPlanning
<1> QED BY <1>1, <1>2

LEMMA PlanningErrorGood ==
  ASSUME StoreInv, NEW t, NEW conflict, PlanningError(t, conflict)
  PROVE  Good
<1>1. FailPlanning \/ FailRecovery(t) \/ Keep(budget)
  BY DEF PlanningError
<1> QED BY <1>1, FailPlanningGood, FailRecoveryGood, KeepGood, BudgetWithin

\* A checkpoint of the finalization.
LEMMA AdvanceGood ==
  ASSUME StoreInv, run = "running", AllSettled, NEW g \in Stages \ {"none"}, NEW r \in Reviews,
         NEW d \in BOOLEAN, NEW b, Within(b), Advance(g, r, d, b)
  PROVE  Good
<1>1. /\ attempts' = 0 /\ budget' = b
      /\ plan' = [plan EXCEPT !.stage = g, !.review = r, !.digest = d]
      /\ UNCHANGED <<run, requirement, appended, node, tried, paused, report>>
  BY DEF Advance
<1>2. Within(budget')
  BY <1>1 DEF Within, Sound, Charged
<1>3. /\ plan' \in PlanRecord /\ plan'.stage # "none" /\ plan'.status = plan.status
      /\ plan'.requirement = plan.requirement
  <2>1. plan \in PlanRecord
    BY DEF StoreInv, StoreTyped
  <2>2. plan' \in PlanRecord
    BY <1>1, <2>1, PlanAdvanced
  <2> QED BY <1>1, <2>1, <2>2 DEF PlanRecord
<1>4. requirement.version >= requirement.version
  BY Bounds DEF StoreInv, StoreTyped
<1>5. ReportEarned'
  BY <1>1 DEF StoreInv, ReportEarned
<1>6. Finalizing' /\ Grounded'
  BY <1>1, <1>3 DEF StoreInv, Finalizing, Grounded, AllSettled
<1> QED BY <1>1, <1>2, <1>3, <1>4, <1>5, <1>6, Bounds DEF Good, Frozen, StoreInv, StoreTyped, Over

\* A change of a run that stays alive: nodes, approvals, the plan before finalization.
LEMMA AliveGood ==
  ASSUME StoreInv, run \notin Over, UNCHANGED <<requirement, appended, report, attempts>>,
         run' \in {run, "waiting_plan", "running", "waiting_approval"},
         plan' \in PlanRecord, plan'.stage = plan.stage, plan'.requirement = plan.requirement,
         plan'.status # "none" => plan.status # "none",
         node' \in [Nodes -> {"pending", "running", "paused"} \cup Settled], tried' \subseteq Nodes,
         paused' \in Nodes \cup {NoNode}, run' = "waiting_approval" => paused' \in Nodes,
         plan.stage # "none" => node' = node /\ run' = run,
         Within(budget)'
  PROVE  Good
<1>1. run' \notin Over /\ requirement.version >= requirement.version
  BY Bounds DEF Over, StoreInv, StoreTyped
<1>2. ReportEarned'
  BY <1>1 DEF StoreInv, ReportEarned, Over
<1>3. Grounded'
  BY DEF StoreInv, Grounded
<1>4. Finalizing'
  BY DEF StoreInv, Finalizing, AllSettled
<1>5. StoreTyped'
  BY DEF StoreInv, StoreTyped
<1> QED BY <1>1, <1>2, <1>3, <1>4, <1>5 DEF Good, Frozen, StoreInv

LEMMA FailStagingGood ==
  ASSUME StoreInv, NEW t, NEW b, FailStaging(t, b), Within(b), run \in Over => b = budget
  PROVE  Good
<1>1. CASE report = "staging" /\ run = "running" /\ plan.stage = task[t].stage
  BY <1>1, EndGood DEF FailStaging, Over
<1>2. CASE ~(report = "staging" /\ run = "running" /\ plan.stage = task[t].stage)
  BY <1>2, GiveUpGood, KeepGood DEF FailStaging
<1> QED BY <1>1, <1>2

LEMMA ReserveGood ==
  ASSUME StoreInv, run = "running", plan.stage # "none", NEW t, NEW mine, NEW staged,
         Reserve(t, mine, staged)
  PROVE  Good
<1>1. Within(budget) /\ Within(Afresh) /\ Within(Settle(budget, mine, 1)) /\ run \notin Over
  BY BudgetWithin, SettleWithin DEF Afresh, Over
<1>2. CASE Open(budget) \ mine # {} /\ ~task[t].resume
  BY <1>1, <1>2, KeepGood DEF Reserve
<1>3. CASE ~(Open(budget) \ mine # {} /\ ~task[t].resume) /\ RoomForAttempt
  <2> DEFINE r == Attempt(plan.stage, attempts + 1)
             c == [Afresh EXCEPT !.open = @ \cup {r}]
  <2>1. /\ attempts' = attempts + 1 /\ budget' = c
        /\ UNCHANGED <<run, requirement, appended, plan, node, tried, paused, report>>
    BY <1>3 DEF Reserve
  <2>2. attempts + 1 \in 0 .. MaxAttempts /\ attempts + 1 \in Nat /\ plan.stage \in Stages
    BY <1>3, Bounds DEF RoomForAttempt, StoreInv, StoreTyped, PlanRecord
  <2>3. r \in Reservation /\ r.scope = "finalization"
    BY <2>2 DEF Attempt, Reservation, Scopes
  <2>4. Within(c)
    BY <1>1, <1>3, <2>3, ReserveWithin DEF RoomForAttempt
  <2> HIDE DEF c
  <2>5. Within(budget)'
    BY <2>1, <2>4 DEF Within, Sound, Charged
  <2>6. requirement.version >= requirement.version
    BY Bounds DEF StoreInv, StoreTyped
  <2> QED BY <1>1, <2>1, <2>2, <2>5, <2>6 DEF Good, Frozen, StoreInv, StoreTyped, Grounded, Finalizing,
            AllSettled, ReportEarned
<1>4. CASE ~(Open(budget) \ mine # {} /\ ~task[t].resume) /\ ~RoomForAttempt
  <2>1. FailStaging(t, Afresh) \/ GiveUp(t, Afresh)
    BY <1>4 DEF Reserve
  <2> QED BY <1>1, <2>1, FailStagingGood, GiveUpGood
<1> QED BY <1>2, <1>3, <1>4

-----------------------------------------------------------------------------
(* What is known of the work of a coroutine.                               *)

LEMMA WorkIs ==
  ASSUME WorkTyped, NEW t \in Tasks
  PROVE  /\ task[t].at = "refine" =>
               task[t].kind \in {"start", "clarify"} /\ task[t].command \in Commands \cup {NoTask}
         /\ task[t].at \in {"analyse", "fill"} =>
               LET x == [task[t] EXCEPT !.at = "fill"] IN x \in Work /\ x.at = "fill"
         /\ task[t].at \in {"claim", "loop", "final", "nodes", "model", "build", "publish"} =>
               task[t].resume \in BOOLEAN
         /\ task[t].at = "claim" =>
               LET x == [task[t] EXCEPT !.at = "loop"] IN x \in Work /\ x.at = "loop"
         /\ task[t].at = "nodes" => task[t].batch \in SUBSET Nodes
         /\ task[t].at = "stream" => task[t].node \in Nodes
         /\ task[t].at \in {"model", "build", "publish"} => task[t].stage \in Stages
         /\ task[t].at \in {"build", "publish"} => task[t].attempt \in 0 .. MaxAttempts
         /\ task[t].at = "build" =>
               LET x == [task[t] EXCEPT !.at = "publish"] IN
               x \in Work /\ x.at = "publish" /\ x.stage = task[t].stage
<1> DEFINE x == task[t]
<1>1. x \in {Idle} \cup Work
  BY DEF WorkTyped
<1> HIDE DEF x
<1>2. CASE x = Idle
  BY <1>2 DEF Idle, x
<1>3. CASE x \in [at : {"refine"}, kind : {"start", "clarify"}, command : Commands \cup {NoTask}, from : Nat]
  BY <1>3 DEF x
<1>4. CASE x \in [at : {"analyse", "fill"}, kind : {"start", "clarify", "recovery"}, on : Nat]
  <2>1. [x EXCEPT !.at = "fill"] \in Work /\ [x EXCEPT !.at = "fill"].at = "fill"
    BY <1>4 DEF Work
  <2> QED BY <1>4, <2>1 DEF x
<1>5. CASE x \in [at : {"claim", "loop", "final"}, resume : BOOLEAN]
  <2>1. [x EXCEPT !.at = "loop"] \in Work /\ [x EXCEPT !.at = "loop"].at = "loop"
    BY <1>5 DEF Work
  <2> QED BY <1>5, <2>1 DEF x
<1>6. CASE x \in [at : {"nodes"}, resume : BOOLEAN, batch : SUBSET Nodes]
  BY <1>6 DEF x
<1>7. CASE x \in [at : {"stream"}, node : Nodes]
  BY <1>7 DEF x
<1>8. CASE x \in [at : {"model"}, resume : BOOLEAN, stage : Stages]
  BY <1>8 DEF x
<1>9. CASE x \in [at : {"build", "publish"}, resume : BOOLEAN, stage : Stages, attempt : 0 .. MaxAttempts,
                  report : BOOLEAN]
  <2>1. /\ [x EXCEPT !.at = "publish"] \in Work /\ [x EXCEPT !.at = "publish"].at = "publish"
        /\ [x EXCEPT !.at = "publish"].stage = x.stage
    BY <1>9 DEF Work
  <2> QED BY <1>9, <2>1 DEF x
<1> QED BY <1>1, <1>2, <1>3, <1>4, <1>5, <1>6, <1>7, <1>8, <1>9 DEF Work

-----------------------------------------------------------------------------
(* The store under each action: the plan.                                  *)

LEMMA AppendGood ==
  ASSUME IInv, NEW t \in Tasks, task[t].at = "refine", Appendable(t), requirement.version < MaxRequirement,
         \/ Append(t, TRUE, "clarify")
         \/ Append(t, TRUE, "failed")
         \/ Append(t, FALSE, "planning")
  PROVE  Good /\ requirement'.version = requirement.version + 1
<1>1. plan.status = "none" /\ plan.stage = "none" /\ run \notin Over
  <2>1. run \in {"planning", "clarify"} /\ (run = "planning" => requirement.version = 0)
    BY WorkIs DEF Appendable, IInv, Positions, Placed
  <2> QED BY <2>1 DEF IInv, StoreInv, Grounded, Finalizing, Over
<1>2. /\ requirement.version + 1 \in 0 .. MaxRequirement /\ requirement.version + 1 >= 1
      /\ requirement.version + 1 >= requirement.version
  BY Bounds DEF IInv, StoreInv, StoreTyped
<1>3. PICK open \in BOOLEAN, s \in {"clarify", "failed", "planning"} :
        Append(t, open, s) /\ (s = "planning" => ~open)
  OBVIOUS
<1>4. /\ requirement' = [version |-> requirement.version + 1, open |-> open] /\ run' = s
      /\ appended' = (appended \cup {task[t].command}) \ {NoTask}
      /\ budget' = (IF s = "failed" THEN Close(budget) ELSE budget)
      /\ UNCHANGED <<plan, node, tried, paused, report, attempts>>
  BY <1>3 DEF Append
<1>5. Within(budget') /\ (s = "failed" => budget'.open = {})
  BY <1>4, BudgetWithin, CloseWithin DEF IInv, Within, Sound, Charged
<1>6. appended' \subseteq Commands
  BY <1>4, WorkIs DEF IInv, StoreInv, StoreTyped
<1>7. StoreTyped'
  BY <1>2, <1>4, <1>6 DEF IInv, StoreInv, StoreTyped, Over
<1>8. Grounded' /\ Finalizing'
  BY <1>1, <1>2, <1>3, <1>4 DEF Grounded, Finalizing
<1>9. ReportEarned'
  BY <1>1, <1>4 DEF IInv, StoreInv, ReportEarned, Over
<1> QED BY <1>1, <1>2, <1>4, <1>5, <1>7, <1>8, <1>9 DEF Good, Frozen, StoreInv, Over

LEMMA RefinedGood == ASSUME IInv, NEW t \in Tasks, Refined(t) PROVE Good
<1>1. CASE Appendable(t) /\ requirement.version < MaxRequirement
  BY <1>1, AppendGood DEF Refined, At
<1>2. CASE ~(Appendable(t) /\ requirement.version < MaxRequirement)
  <2>1. UNCHANGED store \/ PlanningError(t, TRUE)
    BY <1>2 DEF Refined
  <2> QED BY <2>1, StoreSame, PlanningErrorGood DEF IInv
<1> QED BY <1>1, <1>2

LEMMA SkeletonGood == ASSUME IInv, NEW t \in Tasks, Skeleton(t) PROVE Good
<1>1. CASE run = "planning" /\ plan.status = "none" /\ requirement.version = task[t].on
  <2>1. /\ plan' = [plan EXCEPT !.status = "planning", !.requirement = requirement.version]
        /\ UNCHANGED <<run, requirement, appended, node, tried, paused, report, budget, attempts>>
    BY <1>1 DEF Skeleton
  <2>2. requirement.version >= 1
    BY DEF Skeleton, At, IInv, Positions, Placed
  <2>3. /\ plan' \in PlanRecord /\ plan'.stage = plan.stage /\ plan'.requirement = requirement.version
    <3>1. plan \in PlanRecord /\ requirement.version \in 0 .. MaxRequirement
      BY DEF IInv, StoreInv, StoreTyped
    <3>2. plan' \in PlanRecord
      BY <2>1, <3>1, PlanSkeleton DEF PlanStatuses
    <3> QED BY <2>1, <3>1, <3>2 DEF PlanRecord
  <2>4. plan.stage = "none" /\ run \notin Over /\ ~requirement.open
    BY <1>1 DEF IInv, StoreInv, Finalizing, Grounded, Over
  <2>5. requirement.version >= requirement.version
    BY <2>2, Bounds DEF IInv, StoreInv, StoreTyped
  <2>6. Grounded' /\ Finalizing'
    BY <1>1, <2>1, <2>2, <2>3, <2>4 DEF IInv, StoreInv, Grounded, Finalizing
  <2>7. ReportEarned' /\ Within(budget)'
    BY <2>1, <2>4 DEF IInv, StoreInv, ReportEarned, Over, Within, Sound, Charged
  <2> QED BY <2>1, <2>3, <2>4, <2>5, <2>6, <2>7 DEF Good, Frozen, IInv, StoreInv, StoreTyped
<1>2. CASE ~(run = "planning" /\ plan.status = "none" /\ requirement.version = task[t].on)
  BY <1>2, PlanningErrorGood DEF Skeleton, IInv
<1> QED BY <1>1, <1>2

LEMMA PlanReadyGood == ASSUME IInv, NEW t \in Tasks, PlanReady(t) PROVE Good
<1>1. CASE Savable(t) /\ Room(budget, "standard")
  <2>1. /\ plan' = [plan EXCEPT !.status = "waiting"] /\ run' = "waiting_plan" /\ budget' = Spend(budget)
        /\ UNCHANGED <<requirement, appended, node, tried, paused, report, attempts>>
        /\ run = "planning" /\ plan.status = "planning"
    BY <1>1 DEF PlanReady, Savable
  <2>2. Within(budget)'
    BY <1>1, <2>1, BudgetWithin, SpendWithin DEF IInv, Within, Sound, Charged
  <2>3. plan' \in PlanRecord /\ plan'.stage = plan.stage /\ plan'.requirement = plan.requirement
    BY <2>1, PlanMoved DEF IInv, StoreInv, StoreTyped, PlanRecord, PlanStatuses
  <2>4. run \notin Over /\ plan.stage = "none"
    BY <2>1 DEF IInv, StoreInv, Finalizing, Over
  <2> QED BY <2>1, <2>2, <2>3, <2>4, AliveGood DEF IInv, StoreInv, StoreTyped
<1>2. CASE ~(Savable(t) /\ Room(budget, "standard"))
  <2>1. UNCHANGED store \/ PlanningError(t, TRUE)
    BY <1>2 DEF PlanReady
  <2> QED BY <2>1, StoreSame, PlanningErrorGood DEF IInv
<1> QED BY <1>1, <1>2

LEMMA EditGood == ASSUME IInv, Edit PROVE Good
<1>1. /\ run = "waiting_plan" /\ Room(budget, "standard") /\ budget' = Spend(budget)
      /\ UNCHANGED <<run, requirement, appended, plan, node, tried, paused, report, attempts>>
  BY DEF Edit
<1>2. Within(budget)'
  BY <1>1, BudgetWithin, SpendWithin DEF IInv, Within, Sound, Charged
<1>3. run \notin Over
  BY <1>1 DEF Over
<1> QED BY <1>1, <1>2, <1>3, AliveGood DEF IInv, StoreInv, StoreTyped

LEMMA RejectGood == ASSUME IInv, Reject PROVE Good
<1>1. /\ run = "waiting_plan" /\ plan.status = "waiting" /\ run' = "rejected"
      /\ plan' = [plan EXCEPT !.status = "rejected"] /\ budget' = Close(budget)
      /\ UNCHANGED <<requirement, appended, node, tried, paused, report, attempts>>
  BY DEF Reject
<1>2. Within(budget)' /\ budget'.open = {}
  BY <1>1, BudgetWithin, CloseWithin DEF IInv, Within, Sound, Charged
<1>3. plan' \in PlanRecord /\ plan'.stage = plan.stage /\ plan'.requirement = plan.requirement
  BY <1>1, PlanMoved DEF IInv, StoreInv, StoreTyped, PlanRecord, PlanStatuses, Over
<1>4. run \notin Over /\ plan.stage = "none"
  BY <1>1 DEF IInv, StoreInv, Finalizing, Over
<1>5. Grounded' /\ Finalizing' /\ ReportEarned'
  BY <1>1, <1>3, <1>4 DEF IInv, StoreInv, Grounded, Finalizing, ReportEarned, Over
<1>6. requirement.version >= requirement.version
  BY Bounds DEF IInv, StoreInv, StoreTyped
<1> QED BY <1>1, <1>2, <1>3, <1>4, <1>5, <1>6 DEF Good, Frozen, IInv, StoreInv, StoreTyped, Over

LEMMA ApproveGood == ASSUME IInv, NEW t \in Tasks, Approve(t) PROVE Good
<1>1. /\ run = "waiting_plan" /\ plan.status = "waiting" /\ run' = "running"
      /\ plan' = [plan EXCEPT !.status = "approved"] /\ budget' = Spend(budget) /\ Room(budget, "standard")
      /\ UNCHANGED <<requirement, appended, node, tried, paused, report, attempts>>
  BY DEF Approve
<1>2. Within(budget)'
  BY <1>1, BudgetWithin, SpendWithin DEF IInv, Within, Sound, Charged
<1>3. plan' \in PlanRecord /\ plan'.stage = plan.stage /\ plan'.requirement = plan.requirement
  BY <1>1, PlanMoved DEF IInv, StoreInv, StoreTyped, PlanRecord, PlanStatuses
<1>4. run \notin Over /\ plan.stage = "none"
  BY <1>1 DEF IInv, StoreInv, Finalizing, Over
<1> QED BY <1>1, <1>2, <1>3, <1>4, AliveGood DEF IInv, StoreInv, StoreTyped

-----------------------------------------------------------------------------
(* The store under each action: recovery and the nodes.                    *)

LEMMA RecoverGood == ASSUME IInv, NEW t \in Tasks, Recover(t) PROVE Good
<1>1. CASE UNCHANGED store
  BY <1>1, StoreSame DEF IInv
<1>2. CASE run \in {"planning", "running"} /\ End("failed", budget)
  BY <1>2, EndGood, BudgetWithin DEF IInv, Over
<1>3. CASE /\ run = "running"
           /\ node' = [n \in Nodes |-> IF node[n] = "running" THEN "failed" ELSE node[n]]
           /\ UNCHANGED <<run, requirement, appended, plan, tried, paused, report, budget, attempts>>
  <2>1. plan.stage # "none" => node' = node
    BY <1>3 DEF IInv, StoreInv, StoreTyped, Finalizing, AllSettled, Settled
  <2>2. node' \in [Nodes -> {"pending", "running", "paused"} \cup Settled]
    BY <1>3 DEF IInv, StoreInv, StoreTyped, Settled
  <2>3. Within(budget)'
    BY <1>3 DEF IInv, StoreInv, Within, Sound, Charged
  <2> QED BY <1>3, <2>1, <2>2, <2>3, AliveGood DEF IInv, StoreInv, StoreTyped, Over
<1> QED BY <1>1, <1>2, <1>3 DEF Recover

LEMMA ClaimGood == ASSUME IInv, NEW t \in Tasks, Claim(t) PROVE Good
<1>1. UNCHANGED <<run, requirement, appended, node, tried, paused, report, budget, attempts>>
  BY DEF Claim
<1>2. CASE run = "running" /\ plan.status \in {"running", "approved"} /\ plan' = [plan EXCEPT !.status = "running"]
  <2>1. plan' \in PlanRecord /\ plan'.stage = plan.stage /\ plan'.requirement = plan.requirement
    BY <1>2, PlanMoved DEF IInv, StoreInv, StoreTyped, PlanRecord, PlanStatuses
  <2>2. Within(budget)'
    BY <1>1 DEF IInv, StoreInv, Within, Sound, Charged
  <2> QED BY <1>1, <1>2, <2>1, <2>2, AliveGood DEF IInv, StoreInv, StoreTyped, Over
<1>3. CASE UNCHANGED plan
  BY <1>1, <1>3, StoreSame DEF IInv, store
<1> QED BY <1>2, <1>3 DEF Claim

\* Reserving for a batch of nodes.
LEMMA BatchReserved ==
  ASSUME NEW b, Within(b), NEW B \in SUBSET Nodes,
         Charged([b EXCEPT !.open = @ \cup {NodeCharge(n) : n \in B}], "standard") <= StandardLimit
  PROVE  Within([b EXCEPT !.open = @ \cup {NodeCharge(n) : n \in B}])
<1> DEFINE R == {NodeCharge(n) : n \in B}
           c == [b EXCEPT !.open = @ \cup R]
<1>1. IsFiniteSet(B)
  BY FewNodes, FS_Subset
<1>2. IsFiniteSet(R)
  <2> DEFINE f == [n \in B |-> NodeCharge(n)]
  <2>1. f \in Surjection(B, R)
    BY DEF Surjection
  <2> QED BY <1>1, <2>1, FS_Surjection
<1>3. R \subseteq Reservation
  BY Bounds DEF NodeCharge, Reservation, Scopes
<1>4. c.open = b.open \cup R /\ c.standard = b.standard /\ c.finalization = b.finalization
  BY DEF Within, Sound, Ledger
<1>5. c \in Ledger
  BY <1>3 DEF Within, Sound, Ledger
<1>6. IsFiniteSet(c.open)
  BY <1>2, <1>4, FS_Union DEF Within, Sound
<1>7. In(c.open, "finalization") = In(b.open, "finalization")
  BY <1>4 DEF In, NodeCharge
<1>8. Charged(c, "finalization") = Charged(b, "finalization")
  <2> HIDE DEF c
  <2> QED BY <1>4, <1>7, ChargedIs
<1> HIDE DEF c
<1>9. Charged(c, "finalization") <= Limit("finalization")
  BY <1>8 DEF Within, Scopes
<1>10. Charged(c, "standard") <= Limit("standard")
  BY DEF c, Limit
<1> QED BY <1>5, <1>6, <1>9, <1>10 DEF c, Within, Sound, Scopes

LEMMA ChooseGood == ASSUME IInv, NEW t \in Tasks, Choose(t) PROVE Good
<1>1. CASE UNCHANGED store
  BY <1>1, StoreSame DEF IInv
<1>2. CASE GiveUp(t, budget)
  BY <1>2, GiveUpGood, BudgetWithin DEF IInv
<1>3. CASE run = "running" /\ plan.status = "running" /\ Pending # {}
  <2>1. PICK B \in SUBSET Pending :
          /\ Charged([budget EXCEPT !.open = @ \cup {NodeCharge(n) : n \in B}], "standard") <= StandardLimit
          /\ node' = [n \in Nodes |-> IF n \in B THEN "running"
                                      ELSE IF n \in Pending THEN "failed" ELSE node[n]]
          /\ budget' = [budget EXCEPT !.open = @ \cup {NodeCharge(n) : n \in B}]
          /\ UNCHANGED <<run, requirement, appended, plan, tried, paused, report, attempts>>
    BY <1>3 DEF Choose
  <2>2. B \in SUBSET Nodes
    BY DEF Pending
  <2>3. Within([budget EXCEPT !.open = @ \cup {NodeCharge(n) : n \in B}])
    BY <2>1, <2>2, BudgetWithin, BatchReserved DEF IInv
  <2>4. Within(budget)'
    BY <2>1, <2>3 DEF Within, Sound, Charged
  <2>5. plan.stage = "none"
    BY <1>3 DEF Pending, IInv, StoreInv, Finalizing, AllSettled, Settled
  <2>6. node' \in [Nodes -> {"pending", "running", "paused"} \cup Settled]
    BY <2>1 DEF IInv, StoreInv, StoreTyped, Settled
  <2> QED BY <1>3, <2>1, <2>4, <2>5, <2>6, AliveGood DEF IInv, StoreInv, StoreTyped, Over
<1>4. \/ UNCHANGED store
      \/ GiveUp(t, budget)
      \/ run = "running" /\ plan.status = "running" /\ Pending # {}
  BY DEF Choose
<1> QED BY <1>1, <1>2, <1>3, <1>4

LEMMA BatchEndsGood == ASSUME IInv, NEW t \in Tasks, BatchEnds(t) PROVE Good
<1> DEFINE B == task[t].batch
<1>1. CASE UNCHANGED store
  BY <1>1, StoreSame DEF IInv
<1>2. CASE GiveUp(t, budget)
  BY <1>2, GiveUpGood, BudgetWithin DEF IInv
<1>3. CASE ~(run # "running" \/ \E n \in B : node[n] # "running")
  <2>1. B \subseteq Nodes
    BY WorkIs DEF BatchEnds, At, IInv
  <2>2. PICK o \in [B -> Outcomes], retried \in SUBSET B, actual \in 0 .. 1 :
          /\ node' = [n \in Nodes |-> IF n \in B THEN o[n] ELSE node[n]]
          /\ tried' = tried \cup retried
          /\ budget' = Settle(budget, {NodeCharge(n) : n \in B}, actual)
          /\ \/ UNCHANGED <<run, paused>>
             \/ /\ {n \in B : o[n] = "paused"} # {}
                /\ run' = "waiting_approval" /\ paused' = CHOOSE n \in {k \in B : o[k] = "paused"} : TRUE
          /\ UNCHANGED <<requirement, appended, plan, report, attempts>>
    BY <1>3 DEF BatchEnds
  <2>3. Within(budget)'
    BY <2>2, BudgetWithin, SettleWithin DEF IInv, Within, Sound, Charged
  <2>4. node' \in [Nodes -> {"pending", "running", "paused"} \cup Settled] /\ tried' \subseteq Nodes
    BY <2>1, <2>2 DEF IInv, StoreInv, StoreTyped, Outcomes, Settled
  <2>5. /\ paused' \in Nodes \cup {NoNode} /\ run' \in {run, "waiting_approval"}
        /\ (run' = "waiting_approval" => paused' \in Nodes)
    BY <1>3, <2>1, <2>2 DEF IInv, StoreInv, StoreTyped
  <2>6. plan.stage # "none" => node' = node /\ run' = run
    <3>1. plan.stage # "none" => B = {}
      BY <1>3, <2>1 DEF IInv, StoreInv, Finalizing, AllSettled, Settled
    <3>2. B = {} => node' = node /\ run' = run
      BY <2>2 DEF IInv, StoreInv, StoreTyped
    <3> QED BY <3>1, <3>2
  <2> QED BY <1>3, <2>2, <2>3, <2>4, <2>5, <2>6, AliveGood DEF IInv, StoreInv, StoreTyped, Over
<1>4. CASE run # "running" \/ \E n \in B : node[n] # "running"
  <2>1. UNCHANGED store \/ GiveUp(t, budget)
    BY <1>4 DEF BatchEnds
  <2> QED BY <1>1, <1>2, <2>1
<1> QED BY <1>3, <1>4

LEMMA ResumeNodeGood == ASSUME IInv, NEW t \in Tasks, ResumeNode(t) PROVE Good
<1>1. run = "waiting_approval" /\ run' = "running" /\ plan.stage = "none" /\ paused \in Nodes
  BY DEF ResumeNode, IInv, StoreInv, Finalizing, Over
<1>2. /\ UNCHANGED <<requirement, appended, plan, tried, report, budget, attempts>>
      /\ node' \in {[node EXCEPT ![paused] = "running"], [node EXCEPT ![paused] = "failed"]}
      /\ paused' \in {paused, NoNode}
  BY DEF ResumeNode
<1>3. node' \in [Nodes -> {"pending", "running", "paused"} \cup Settled]
  BY <1>1, <1>2 DEF IInv, StoreInv, StoreTyped, Settled
<1>4. Within(budget)'
  BY <1>2 DEF IInv, StoreInv, Within, Sound, Charged
<1> QED BY <1>1, <1>2, <1>3, <1>4, AliveGood DEF IInv, StoreInv, StoreTyped, Over

LEMMA StreamedGood == ASSUME IInv, NEW t \in Tasks, Streamed(t) PROVE Good
<1> DEFINE n == task[t].node
<1>1. n \in Nodes
  BY WorkIs DEF Streamed, At, IInv
<1>2. UNCHANGED <<requirement, appended, plan, tried, report, budget, attempts>>
  BY DEF Streamed
<1>3. CASE run = "running" /\ node[n] = "running"
  <2>1. /\ node' \in {[node EXCEPT ![n] = "completed"], [node EXCEPT ![n] = "paused"]}
        /\ run' \in {run, "waiting_approval"} /\ paused' \in {n, NoNode}
        /\ (run' = "waiting_approval" => paused' = n)
    BY <1>3 DEF Streamed
  <2>2. node' \in [Nodes -> {"pending", "running", "paused"} \cup Settled]
    BY <1>1, <2>1 DEF IInv, StoreInv, StoreTyped, Settled
  <2>3. plan.stage = "none"
    BY <1>1, <1>3 DEF IInv, StoreInv, Finalizing, AllSettled, Settled
  <2>4. Within(budget)'
    BY <1>2 DEF IInv, StoreInv, Within, Sound, Charged
  <2> QED BY <1>1, <1>2, <1>3, <2>1, <2>2, <2>3, <2>4, AliveGood DEF IInv, StoreInv, StoreTyped, Over
<1>4. CASE ~(run = "running" /\ node[n] = "running")
  <2>1. UNCHANGED store
    BY <1>2, <1>4 DEF Streamed, store
  <2> QED BY <2>1, StoreSame DEF IInv
<1> QED BY <1>3, <1>4

-----------------------------------------------------------------------------
(* The store under each action: the finalization.                          *)

LEMMA CurrentIs ==
  ASSUME IInv, NEW t \in Tasks, Current(t), task[t].at \in {"model", "build", "publish"}
  PROVE  run = "running" /\ run \notin Over /\ plan.stage # "none" /\ AllSettled
  BY DEF Current, IInv, Positions, Placed, StoreInv, Finalizing, Over

LEMMA FinalizeGood == ASSUME IInv, NEW t \in Tasks, Finalize(t) PROVE Good
<1>1. CASE UNCHANGED store
  BY <1>1, StoreSame DEF IInv
<1>2. CASE GiveUp(t, budget)
  BY <1>2, GiveUpGood, BudgetWithin DEF IInv
<1>3. CASE run = "running" /\ plan.stage = "none" /\ Advance("nodes", "none", FALSE, budget)
  <2>1. AllSettled
    BY DEF Finalize, At, IInv, Positions, Placed
  <2>2. "nodes" \in Stages \ {"none"} /\ "none" \in Reviews
    BY StagesAre DEF Reviews
  <2> QED BY <1>3, <2>1, <2>2, AdvanceGood, BudgetWithin DEF IInv
<1>4. CASE run = "running" /\ plan.stage # "none" /\ Reserve(t, {}, FALSE)
  BY <1>4, ReserveGood DEF IInv
<1>5. \/ UNCHANGED store
      \/ GiveUp(t, budget)
      \/ run = "running" /\ plan.stage = "none" /\ Advance("nodes", "none", FALSE, budget)
      \/ run = "running" /\ plan.stage # "none" /\ Reserve(t, {}, FALSE)
  <2>1. CASE plan.stage = "terminal"
    BY <2>1 DEF Finalize
  <2>2. CASE plan.stage # "terminal" /\ (run # "running" \/ plan.status # "running")
    BY <2>2 DEF Finalize
  <2>3. CASE plan.stage = "none" /\ run = "running" /\ plan.status = "running"
    BY <2>3 DEF Finalize
  <2>4. CASE plan.stage \notin {"none", "terminal"} /\ run = "running" /\ plan.status = "running"
    BY <2>4 DEF Finalize
  <2> QED BY <2>1, <2>2, <2>3, <2>4
<1> QED BY <1>1, <1>2, <1>3, <1>4, <1>5

\* The next stage of a stage that is not the last.
LEMMA NextStage ==
  ASSUME StoreInv, plan.stage \notin {"review1", "terminal"}
  PROVE  Next1[plan.stage] \in Stages \ {"none"}
  BY StagesAre DEF StoreInv, StoreTyped, PlanRecord

LEMMA ModelAnswersGood == ASSUME IInv, NEW t \in Tasks, ModelAnswers(t) PROVE Good
<1>1. CASE ~Current(t)
  BY <1>1, StoreSame DEF ModelAnswers, IInv
<1>2. CASE Current(t)
  <2>1. run = "running" /\ AllSettled
    BY <1>2, CurrentIs DEF ModelAnswers, At
  <2>2. PICK r \in Reviews, d \in BOOLEAN : Advance(Next1[plan.stage], r, d, budget)
    BY <1>2 DEF ModelAnswers, Reviews, IInv, StoreInv, StoreTyped, PlanRecord
  <2>3. Next1[plan.stage] \in Stages \ {"none"}
    BY <1>2, NextStage DEF ModelAnswers, At, Current, IInv, Positions, Placed
  <2> QED BY <2>1, <2>2, <2>3, AdvanceGood, BudgetWithin DEF IInv
<1> QED BY <1>1, <1>2

LEMMA ModelFailsGood == ASSUME IInv, NEW t \in Tasks, ModelFails(t) PROVE Good
<1>1. CASE Current(t)
  <2>1. run = "running" /\ plan.stage # "none"
    BY <1>1, CurrentIs DEF ModelFails, At
  <2> QED BY <1>1, <2>1, ReserveGood DEF ModelFails, IInv
<1>2. CASE ~Current(t) /\ run = "running" /\ Room(budget, "finalization")
  <2> DEFINE r == Attempt(task[t].stage, 0)
  <2>1. Keep([budget EXCEPT !.open = @ \cup {r}])
    BY <1>2 DEF ModelFails
  <2>2. r \in Reservation /\ r.scope = "finalization"
    <3>1. task[t].stage \in Stages
      BY WorkIs DEF ModelFails, At, IInv
    <3>2. 0 \in 0 .. MaxAttempts
      BY Bounds
    <3> QED BY <3>1, <3>2 DEF Attempt, Reservation, Scopes
  <2>3. Within([budget EXCEPT !.open = @ \cup {r}])
    BY <1>2, <2>2, ReserveWithin, BudgetWithin DEF IInv
  <2> QED BY <1>2, <2>1, <2>3, KeepGood DEF IInv, Over
<1>3. CASE ~Current(t) /\ ~(run = "running" /\ Room(budget, "finalization"))
  BY <1>3, StoreSame DEF ModelFails, IInv
<1> QED BY <1>1, <1>2, <1>3

LEMMA BuiltGood == ASSUME IInv, NEW t \in Tasks, Built(t) PROVE Good
<1>1. CASE UNCHANGED store
  BY <1>1, StoreSame DEF IInv
<1>2. CASE GiveUp(t, budget)
  BY <1>2, GiveUpGood, BudgetWithin DEF IInv
<1>3. CASE /\ Current(t)
           /\ \E actual \in 0 .. 1 : Advance(Next1[plan.stage], plan.review, Synthesizing \/ plan.digest,
                                             Settle(budget, {Mine(t)}, actual))
  <2>1. run = "running" /\ AllSettled
    BY <1>3, CurrentIs DEF Built, At
  <2>2. PICK actual \in 0 .. 1 : Advance(Next1[plan.stage], plan.review, Synthesizing \/ plan.digest,
                                         Settle(budget, {Mine(t)}, actual))
    BY <1>3
  <2>3. plan.review \in Reviews /\ (Synthesizing \/ plan.digest) \in BOOLEAN
    BY DEF Synthesizing, Reviews, IInv, StoreInv, StoreTyped, PlanRecord
  <2>4. Next1[plan.stage] \in Stages \ {"none"}
    BY <1>3, NextStage DEF Built, At, Current, IInv, Positions, Placed
  <2>5. Within(Settle(budget, {Mine(t)}, actual))
    BY BudgetWithin, SettleWithin DEF IInv
  <2> QED BY <2>1, <2>2, <2>3, <2>4, <2>5, AdvanceGood DEF IInv
<1> QED BY <1>1, <1>2, <1>3 DEF Built

LEMMA ManifestLostGood == ASSUME IInv, NEW t \in Tasks, ManifestLost(t) PROVE Good
<1>1. CASE Current(t)
  <2>1. run = "running" /\ plan.stage # "none"
    BY <1>1, CurrentIs DEF ManifestLost, At
  <2> QED BY <1>1, <2>1, ReserveGood DEF ManifestLost, IInv
<1>2. CASE ~Current(t)
  <2>1. Keep(IF run = "running" THEN Settle(budget, {Mine(t)}, 1) ELSE budget)
    BY <1>2 DEF ManifestLost
  <2> QED BY <2>1, KeepGood, BudgetWithin, SettleWithin DEF IInv, Over
<1> QED BY <1>1, <1>2

LEMMA ReportBuiltGood == ASSUME IInv, NEW t \in Tasks, ReportBuilt(t) PROVE Good
<1>1. /\ UNCHANGED <<run, requirement, appended, plan, node, tried, paused, budget, attempts>>
      /\ report' = report \/ (report \in {"none", "staging"} /\ report' = "staging")
  BY DEF ReportBuilt
<1>2. ReportEarned'
  BY <1>1 DEF IInv, StoreInv, ReportEarned
<1>3. requirement.version >= requirement.version
  BY Bounds DEF IInv, StoreInv, StoreTyped
<1>4. Within(budget)'
  BY <1>1 DEF IInv, StoreInv, Within, Sound, Charged
<1> QED BY <1>1, <1>2, <1>3, <1>4 DEF Good, Frozen, IInv, StoreInv, StoreTyped, Grounded, Finalizing, AllSettled

LEMMA PublishGood == ASSUME IInv, NEW t \in Tasks, Publish(t) PROVE Good
<1>1. CASE UNCHANGED store
  BY <1>1, StoreSame DEF IInv
<1>2. CASE GiveUp(t, budget)
  BY <1>2, GiveUpGood, BudgetWithin DEF IInv
<1>3. CASE /\ Current(t) /\ run' = Verdict /\ report' = "sealed" /\ attempts' = 0
           /\ plan' = [plan EXCEPT !.status = Verdict, !.stage = "terminal"]
           /\ \E actual \in 0 .. 1 : budget' = Close(Settle(budget, {Mine(t)}, actual))
           /\ UNCHANGED <<requirement, appended, node, tried, paused>>
  <2>1. run \notin Over /\ AllSettled /\ plan.status = "running"
    BY <1>3, CurrentIs DEF Publish, At, Current
  <2>2. Verdict \in {"completed", "partial"}
    BY DEF Verdict
  <2>3. /\ plan' \in PlanRecord /\ plan'.stage = "terminal" /\ plan'.status = Verdict
        /\ plan'.requirement = plan.requirement /\ plan'.review = plan.review /\ plan'.digest = plan.digest
    <3>1. plan \in PlanRecord
      BY DEF IInv, StoreInv, StoreTyped
    <3>2. "terminal" \in Stages /\ Verdict \in PlanStatuses
      BY <2>2, StagesAre DEF PlanStatuses, Over
    <3>3. plan' \in PlanRecord
      BY <1>3, <3>1, <3>2, PlanEnded
    <3> QED BY <1>3, <3>1, <3>3 DEF PlanRecord
  <2>4. PICK actual \in 0 .. 1 : budget' = Close(Settle(budget, {Mine(t)}, actual))
    BY <1>3
  <2>5. Within(Settle(budget, {Mine(t)}, actual))
    BY BudgetWithin, SettleWithin DEF IInv
  <2>6. Within(budget)' /\ budget'.open = {}
    BY <2>4, <2>5, CloseWithin DEF Within, Sound, Charged
  <2>7. requirement.version >= requirement.version
    BY Bounds DEF IInv, StoreInv, StoreTyped
  <2>8. Grounded' /\ plan.requirement = requirement.version /\ ~requirement.open
    BY <1>3, <2>1, <2>2, <2>3 DEF IInv, StoreInv, Grounded
  <2>9. Finalizing'
    BY <1>3, <2>1, <2>2 DEF Finalizing, AllSettled, Over
  <2>10. run' = "completed" => plan.review = "pass" /\ ~plan.digest /\ \A n \in Nodes : node[n] = "completed"
    BY <1>3 DEF Verdict
  <2>11. ReportEarned'
    BY <1>3, <2>2, <2>3, <2>8, <2>10 DEF ReportEarned
  <2>12. StoreTyped'
    BY <1>3, <2>2, <2>3, Bounds DEF IInv, StoreInv, StoreTyped, Over
  <2> QED BY <1>3, <2>1, <2>3, <2>6, <2>7, <2>8, <2>9, <2>11, <2>12 DEF Good, Frozen, StoreInv
<1>4. \/ UNCHANGED store
      \/ GiveUp(t, budget)
      \/ /\ Current(t) /\ run' = Verdict /\ report' = "sealed" /\ attempts' = 0
         /\ plan' = [plan EXCEPT !.status = Verdict, !.stage = "terminal"]
         /\ \E actual \in 0 .. 1 : budget' = Close(Settle(budget, {Mine(t)}, actual))
         /\ UNCHANGED <<requirement, appended, node, tried, paused>>
  BY DEF Publish
<1> QED BY <1>1, <1>2, <1>3, <1>4

LEMMA PublishFailsGood == ASSUME IInv, NEW t \in Tasks, PublishFails(t) PROVE Good
<1>1. CASE FailStaging(t, budget)
  BY <1>1, FailStagingGood, BudgetWithin DEF IInv
<1>2. CASE Current(t) /\ Reserve(t, {Mine(t)}, TRUE)
  <2>1. run = "running" /\ plan.stage # "none"
    BY <1>2, CurrentIs DEF PublishFails, At
  <2> QED BY <1>2, <2>1, ReserveGood DEF IInv
<1>3. CASE Keep(IF run = "running" THEN Settle(budget, {Mine(t)}, 1) ELSE budget)
  BY <1>3, KeepGood, BudgetWithin, SettleWithin DEF IInv, Over
<1> QED BY <1>1, <1>2, <1>3 DEF PublishFails

-----------------------------------------------------------------------------
(* The coroutines under each action.                                       *)

\* The coroutine t goes on with work x, and what x relies on holds.
Ready(x) ==
    /\ x \in {Idle} \cup Work
    /\ Placed(x, requirement'.version, AllSettled', plan'.stage)

Moves(t) ==
    /\ \E x : Ready(x) /\ task' = [task EXCEPT ![t] = x]
    /\ registered' \in Tasks \cup {NoTask}

LEMMA Later == ASSUME IInv, Good PROVE requirement.version >= 1 => requirement'.version >= 1
<1>1. requirement'.version >= requirement.version /\ requirement'.version \in Nat
  BY Bounds DEF Good, Frozen, StoreInv, StoreTyped
<1>2. requirement.version \in Nat
  BY Bounds DEF IInv, StoreInv, StoreTyped
<1> QED BY <1>1, <1>2

LEMMA LeavesMoves == ASSUME IInv, NEW t \in Tasks, Leaves(t) PROVE Moves(t)
<1>1. Ready(Idle)
  BY DEF Ready, Placed, Idle
<1>2. task' = [task EXCEPT ![t] = Idle] /\ registered' \in Tasks \cup {NoTask}
  BY DEF Leaves, Becomes, Release, IInv, WorkTyped
<1> QED BY <1>1, <1>2 DEF Moves

LEMMA GoesMoves == ASSUME IInv, NEW t \in Tasks, NEW x, Ready(x), Goes(t, x) PROVE Moves(t)
  BY DEF Goes, Becomes, Moves, IInv, WorkTyped

LEMMA BecomesMoves ==
  ASSUME NEW t \in Tasks, NEW x, Ready(x), Becomes(t, x), registered' \in Tasks \cup {NoTask}
  PROVE  Moves(t)
  BY DEF Becomes, Moves

LEMMA StaysMoves ==
  ASSUME IInv, NEW t \in Tasks, Good, task[t].at # "final" \/ AllSettled', UNCHANGED <<task, registered>>
  PROVE  Moves(t)
<1>1. task' = [task EXCEPT ![t] = task[t]] /\ registered' \in Tasks \cup {NoTask}
  BY DEF IInv, WorkTyped
<1>2. task[t] \in {Idle} \cup Work /\ Placed(task[t], requirement.version, AllSettled, plan.stage)
  BY DEF IInv, WorkTyped, Positions
<1>3. Ready(task[t])
  BY <1>2, Later DEF Ready, Placed, Good, Frozen
<1> QED BY <1>1, <1>3 DEF Moves

\* The others stay where they are.
LEMMA MovesKeep ==
  ASSUME IInv, Good, NEW t \in Tasks, Turn(t), Moves(t), crashes' \in 0 .. MaxCrashes
  PROVE  WorkTyped' /\ Positions'
<1>1. PICK x : Ready(x) /\ task' = [task EXCEPT ![t] = x]
  BY DEF Moves
<1>2. WorkTyped'
  BY <1>1 DEF Moves, Ready, IInv, WorkTyped
<1>3. ASSUME NEW u \in Tasks PROVE Placed(task'[u], requirement'.version, AllSettled', plan'.stage)
  <2>1. CASE u = t
    BY <1>1, <2>1 DEF Ready, IInv, WorkTyped
  <2>2. CASE u # t
    <3>1. task'[u] = task[u] /\ task[u].at # "final"
      BY <1>1, <2>2 DEF Turn, Held
    <3>2. Placed(task[u], requirement.version, AllSettled, plan.stage)
      BY DEF IInv, Positions
    <3> QED BY <3>1, <3>2, Later DEF Placed, Good, Frozen
  <2> QED BY <2>1, <2>2
<1> QED BY <1>2, <1>3 DEF Positions

\* No coroutine moves, and none of them is in the finalization or the nodes are settled.
LEMMA StillKeep ==
  ASSUME IInv, Good, AllSettled' \/ (\A t \in Tasks : task[t].at \notin Held) \/ node' = node,
         UNCHANGED <<task, registered, crashes>>
  PROVE  WorkTyped' /\ Positions'
<1>1. WorkTyped'
  BY DEF IInv, WorkTyped
<1>2. (\A t \in Tasks : task[t].at # "final") \/ (AllSettled => AllSettled')
  BY DEF Held, AllSettled
<1>3. ASSUME NEW u \in Tasks PROVE Placed(task'[u], requirement'.version, AllSettled', plan'.stage)
  BY <1>2, Later DEF IInv, Positions, Placed, Good, Frozen
<1> QED BY <1>1, <1>3 DEF Positions

LEMMA GiveUpMoves == ASSUME IInv, NEW t \in Tasks, NEW b, GiveUp(t, b) PROVE Moves(t)
  BY LeavesMoves DEF GiveUp

LEMMA PlanningErrorMoves ==
  ASSUME IInv, NEW t \in Tasks, NEW c, PlanningError(t, c) PROVE Moves(t)
  BY LeavesMoves DEF PlanningError, FailRecovery

\* Where the finalization goes next, once the nodes are settled.
LEMMA FinalMoves ==
  ASSUME IInv, NEW t \in Tasks, task[t].resume \in BOOLEAN, Final(t), AllSettled, node' = node
  PROVE  Moves(t)
<1>1. [at |-> "final", resume |-> task[t].resume] \in Work
  BY DEF Work
<1>2. AllSettled'
  BY DEF AllSettled
<1>3. Ready([at |-> "final", resume |-> task[t].resume])
  BY <1>1, <1>2 DEF Ready, Placed
<1> QED BY <1>3, GoesMoves DEF Final

LEMMA FailStagingMoves ==
  ASSUME IInv, NEW t \in Tasks, task[t].resume \in BOOLEAN, AllSettled, NEW b, FailStaging(t, b)
  PROVE  Moves(t)
<1>1. CASE Leaves(t) \/ GiveUp(t, b)
  BY <1>1, LeavesMoves, GiveUpMoves
<1>2. CASE Final(t) /\ Keep(b)
  BY <1>2, FinalMoves DEF Keep
<1> QED BY <1>1, <1>2 DEF FailStaging

LEMMA ReserveMoves ==
  ASSUME IInv, NEW t \in Tasks, task[t].resume \in BOOLEAN, AllSettled, NEW mine, NEW staged,
         plan.stage \notin {"none", "terminal"}, Reserve(t, mine, staged)
  PROVE  Moves(t)
<1>1. CASE Final(t) /\ \E b : Keep(b)
  BY <1>1, FinalMoves DEF Keep
<1>2. CASE FailStaging(t, Afresh) \/ GiveUp(t, Afresh)
  BY <1>2, FailStagingMoves, GiveUpMoves
<1>3. CASE /\ RoomForAttempt /\ UNCHANGED plan
           /\ Goes(t, [at |-> "build", resume |-> task[t].resume, stage |-> plan.stage,
                       attempt |-> attempts + 1, report |-> Reporting])
  <2> DEFINE x == [at |-> "build", resume |-> task[t].resume, stage |-> plan.stage,
                   attempt |-> attempts + 1, report |-> Reporting]
  <2>1. attempts + 1 \in 0 .. MaxAttempts /\ plan.stage \in Stages
    BY <1>3, Bounds DEF RoomForAttempt, IInv, StoreInv, StoreTyped, PlanRecord
  <2>2. Reporting \in BOOLEAN /\ (~Reporting => plan.stage # "review1")
    BY DEF Reporting, Revises
  <2>3. x \in Work
    BY <2>1, <2>2 DEF Work
  <2>4. Ready(x)
    BY <1>3, <2>2, <2>3 DEF Ready, Placed
  <2> QED BY <1>3, <2>4, GoesMoves
<1> QED BY <1>1, <1>2, <1>3 DEF Reserve

LEMMA PlannerReady ==
  ASSUME IInv, requirement.version >= 1, UNCHANGED store, NEW k \in {"clarify", "recovery"}
  PROVE  Ready(Planner(k))
<1>1. Planner(k) \in Work
  BY Bounds DEF Planner, Work, IInv, StoreInv, StoreTyped
<1> QED BY <1>1 DEF Ready, Placed, Planner, store

LEMMA PlansMove == ASSUME IInv, Good, NEW t \in Tasks, Plans(t) PROVE Moves(t)
<1>1. ASSUME NEW c \in Commands, Clarify(t, c) PROVE Moves(t)
  <2>1. CASE c \in appended
    <3>1. requirement.version >= 1
      BY <2>1 DEF IInv, StoreInv, Grounded
    <3> QED BY <1>1, <2>1, <3>1, PlannerReady, GoesMoves DEF Clarify
  <2>2. CASE c \notin appended
    <3> DEFINE x == [at |-> "refine", kind |-> "clarify", command |-> c, from |-> requirement.version]
    <3>1. requirement.version \in Nat
      BY Bounds DEF IInv, StoreInv, StoreTyped
    <3>2. x \in Work
      BY <3>1 DEF Work
    <3>3. Ready(x)
      BY <3>2 DEF Ready, Placed
    <3> QED BY <1>1, <2>2, <3>3, GoesMoves DEF Clarify
  <2> QED BY <2>1, <2>2
<1>2. CASE Refined(t)
  <2> DEFINE x == [at |-> "analyse", kind |-> task[t].kind, on |-> requirement.version + 1]
  <2>1. CASE Leaves(t)
    BY <2>1, LeavesMoves
  <2>2. CASE PlanningError(t, TRUE)
    BY <2>2, PlanningErrorMoves
  <2>3. CASE Append(t, FALSE, "planning") /\ Goes(t, x)
    <3>1. task[t].kind \in {"start", "clarify"}
      BY <1>2, WorkIs DEF Refined, At, IInv
    <3>2. requirement.version + 1 \in Nat /\ requirement.version + 1 >= 1
      BY Bounds DEF IInv, StoreInv, StoreTyped
    <3>3. x \in Work
      BY <3>1, <3>2 DEF Work
    <3>4. requirement'.version >= 1
      BY <2>3, <3>2 DEF Append
    <3>5. Ready(x)
      BY <3>3, <3>4 DEF Ready, Placed
    <3> QED BY <2>3, <3>5, GoesMoves
  <2>4. CASE task[t].command \in appended /\ Goes(t, Planner("clarify")) /\ UNCHANGED store
    <3>1. requirement.version >= 1
      BY <2>4 DEF IInv, StoreInv, Grounded
    <3> QED BY <2>4, <3>1, PlannerReady, GoesMoves
  <2> QED BY <1>2, <2>1, <2>2, <2>3, <2>4 DEF Refined
<1>3. CASE RefineFails(t) \/ PlannerFails(t)
  BY <1>3, PlanningErrorMoves DEF RefineFails, PlannerFails
<1>4. CASE Skeleton(t)
  <2>1. CASE PlanningError(t, FALSE)
    BY <2>1, PlanningErrorMoves
  <2>2. CASE Goes(t, [task[t] EXCEPT !.at = "fill"])
    <3>1. Ready([task[t] EXCEPT !.at = "fill"])
      BY <1>4, WorkIs DEF Skeleton, At, IInv, Ready, Placed
    <3> QED BY <2>2, <3>1, GoesMoves
  <2> QED BY <1>4, <2>1, <2>2 DEF Skeleton
<1>5. CASE PlanReady(t)
  BY <1>5, LeavesMoves, PlanningErrorMoves DEF PlanReady
<1>6. CASE Approve(t)
  <2> DEFINE x == [at |-> "claim", resume |-> FALSE]
  <2>1. CASE registered' = t /\ Becomes(t, x)
    <3>1. x \in Work
      BY DEF Work
    <3>2. Ready(x)
      BY <3>1 DEF Ready, Placed
    <3> QED BY <2>1, <3>2, BecomesMoves
  <2>2. CASE UNCHANGED <<task, registered>>
    BY <1>6, <2>2, StaysMoves DEF Approve, At
  <2> QED BY <1>6, <2>1, <2>2 DEF Approve
<1> QED BY <1>1, <1>2, <1>3, <1>4, <1>5, <1>6 DEF Plans

LEMMA RecoverMoves == ASSUME IInv, Good, NEW t \in Tasks, Recover(t) PROVE Moves(t)
<1>1. CASE UNCHANGED <<task, registered>>
  BY <1>1, StaysMoves DEF Recover, At
<1>2. CASE /\ requirement.version > 0 /\ UNCHANGED store
           /\ registered' = t /\ Becomes(t, Planner("recovery"))
  <2>1. requirement.version >= 1
    BY <1>2, Bounds DEF IInv, StoreInv, StoreTyped
  <2> QED BY <1>2, <2>1, PlannerReady, BecomesMoves
<1>3. CASE registered' = t /\ Becomes(t, [at |-> "claim", resume |-> plan.status = "running"])
  <2> DEFINE x == [at |-> "claim", resume |-> plan.status = "running"]
  <2>1. x \in Work
    BY DEF Work
  <2>2. Ready(x)
    BY <2>1 DEF Ready, Placed
  <2> QED BY <1>3, <2>2, BecomesMoves
<1> QED BY <1>1, <1>2, <1>3 DEF Recover

LEMMA ExecutesMove == ASSUME IInv, Good, NEW t \in Tasks, Executes(t) PROVE Moves(t)
<1>1. CASE Claim(t)
  <2>1. Ready([task[t] EXCEPT !.at = "loop"])
    BY <1>1, WorkIs DEF Claim, At, IInv, Ready, Placed
  <2> QED BY <1>1, <2>1, GoesMoves, LeavesMoves DEF Claim
<1>2. CASE EngineFails(t) \/ StreamFails(t)
  BY <1>2, GiveUpMoves DEF EngineFails, StreamFails
<1>3. CASE Choose(t)
  <2>1. task[t].at = "loop" /\ task[t].resume \in BOOLEAN
    BY <1>3, WorkIs DEF Choose, At, IInv
  <2>2. CASE Leaves(t) \/ GiveUp(t, budget)
    BY <2>2, LeavesMoves, GiveUpMoves
  <2>3. CASE UNCHANGED <<task, registered>>
    BY <2>1, <2>3, StaysMoves
  <2>4. CASE \E B \in SUBSET Pending : Goes(t, [at |-> "nodes", resume |-> task[t].resume, batch |-> B])
    <3>1. PICK B \in SUBSET Pending : Goes(t, [at |-> "nodes", resume |-> task[t].resume, batch |-> B])
      BY <2>4
    <3>2. [at |-> "nodes", resume |-> task[t].resume, batch |-> B] \in Work
      BY <2>1 DEF Pending, Work
    <3>3. Ready([at |-> "nodes", resume |-> task[t].resume, batch |-> B])
      BY <3>2 DEF Ready, Placed
    <3> QED BY <3>1, <3>3, GoesMoves
  <2>5. CASE AllSettled /\ Goes(t, [at |-> "final", resume |-> task[t].resume]) /\ UNCHANGED store
    BY <2>1, <2>5, FinalMoves DEF Final, store
  <2>6. \/ Leaves(t) \/ GiveUp(t, budget) \/ UNCHANGED <<task, registered>>
        \/ \E B \in SUBSET Pending : Goes(t, [at |-> "nodes", resume |-> task[t].resume, batch |-> B])
        \/ (AllSettled /\ Goes(t, [at |-> "final", resume |-> task[t].resume]) /\ UNCHANGED store)
    BY <1>3 DEF Choose, AllSettled
  <2> QED BY <2>2, <2>3, <2>4, <2>5, <2>6
<1>4. CASE BatchEnds(t)
  <2> DEFINE x == [at |-> "loop", resume |-> task[t].resume]
  <2>1. task[t].resume \in BOOLEAN
    BY <1>4, WorkIs DEF BatchEnds, At, IInv
  <2>2. x \in Work
    BY <2>1 DEF Work
  <2>3. Ready(x)
    BY <2>2 DEF Ready, Placed
  <2>4. Leaves(t) \/ GiveUp(t, budget) \/ Goes(t, x)
    BY <1>4 DEF BatchEnds
  <2> QED BY <2>3, <2>4, LeavesMoves, GiveUpMoves, GoesMoves
<1>5. CASE ResumeNode(t)
  <2>1. paused \in Nodes
    BY <1>5 DEF ResumeNode, IInv, StoreInv, Finalizing
  <2>2. [at |-> "stream", node |-> paused] \in Work /\ [at |-> "claim", resume |-> TRUE] \in Work
    BY <2>1 DEF Work
  <2>3. Ready([at |-> "stream", node |-> paused]) /\ Ready([at |-> "claim", resume |-> TRUE])
    BY <2>2 DEF Ready, Placed
  <2> QED BY <1>5, <2>3, BecomesMoves, GoesMoves DEF ResumeNode
<1>6. CASE Streamed(t)
  <2>1. [at |-> "claim", resume |-> TRUE] \in Work
    BY DEF Work
  <2>2. Ready([at |-> "claim", resume |-> TRUE])
    BY <2>1 DEF Ready, Placed
  <2>3. Release(t) => registered' \in Tasks \cup {NoTask}
    BY DEF Release, IInv, WorkTyped
  <2> QED BY <1>6, <2>2, <2>3, LeavesMoves, BecomesMoves DEF Streamed
<1> QED BY <1>1, <1>2, <1>3, <1>4, <1>5, <1>6 DEF Executes

LEMMA FinalizesMove == ASSUME IInv, Good, NEW t \in Tasks, Finalizes(t) PROVE Moves(t)
<1>1. /\ task[t].at \in {"final", "model", "build", "publish"} /\ AllSettled /\ task[t].resume \in BOOLEAN
      /\ Placed(task[t], requirement.version, AllSettled, plan.stage)
  BY WorkIs DEF Finalizes, Finalize, ModelAnswers, ModelFails, Built, ManifestLost, ReportBuilt, Publish,
     PublishFails, At, IInv, Positions, Placed, StoreInv, Finalizing
<1>2. ASSUME NEW b, GiveUp(t, b) \/ Leaves(t) PROVE Moves(t)
  BY <1>2, LeavesMoves, GiveUpMoves
<1>3. ASSUME Final(t), node' = node PROVE Moves(t)
  BY <1>1, <1>3, FinalMoves
<1>4. ASSUME NEW mine, NEW staged, plan.stage \notin {"none", "terminal"}, Reserve(t, mine, staged)
      PROVE  Moves(t)
  BY <1>1, <1>4, ReserveMoves
<1>5. CASE Finalize(t)
  <2> DEFINE x == [at |-> "model", resume |-> task[t].resume, stage |-> plan.stage]
  <2>1. CASE plan.stage = "terminal" \/ run # "running" \/ plan.status # "running"
    BY <1>2, <1>5, <2>1 DEF Finalize
  <2>2. CASE plan.stage = "none" /\ run = "running" /\ plan.status = "running"
    <3>1. Advance("nodes", "none", FALSE, budget) /\ UNCHANGED <<task, registered>>
      BY <1>5, <2>2 DEF Finalize
    <3>2. AllSettled'
      BY <1>1, <3>1 DEF Advance, AllSettled
    <3> QED BY <3>1, <3>2, StaysMoves
  <2>3. CASE plan.stage \notin {"none", "terminal"} /\ run = "running" /\ plan.status = "running"
    <3>1. CASE Reserve(t, {}, FALSE)
      BY <1>4, <2>3, <3>1
    <3>2. CASE /\ Synthesizing \/ plan.stage \in {"coverage0", "coverage1"}
               /\ Goes(t, x) /\ UNCHANGED store
      <4>1. plan.stage \in Stages /\ plan.stage # "review1"
        BY <3>2 DEF Synthesizing, Revises, IInv, StoreInv, StoreTyped, PlanRecord
      <4>2. x \in Work
        BY <1>1, <4>1 DEF Work
      <4>3. Ready(x)
        BY <2>3, <3>2, <4>1, <4>2 DEF Ready, Placed, store
      <4> QED BY <3>2, <4>3, GoesMoves
    <3> QED BY <1>5, <2>3, <3>1, <3>2 DEF Finalize
  <2> QED BY <2>1, <2>2, <2>3
<1>6. CASE ModelAnswers(t)
  BY <1>3, <1>6 DEF ModelAnswers, store, Advance
<1>7. CASE ModelFails(t)
  <2> DEFINE x == [at |-> "build", resume |-> task[t].resume, stage |-> task[t].stage,
                   attempt |-> 0, report |-> FALSE]
  <2>1. CASE Current(t)
    BY <1>1, <1>4, <1>7, <2>1 DEF ModelFails, Current, At, Placed
  <2>2. CASE Final(t) /\ UNCHANGED store
    BY <1>3, <2>2 DEF store
  <2>3. CASE Goes(t, x) /\ UNCHANGED plan
    <3>1. task[t].stage \in {"manifest", "review0"} /\ task[t].stage \in Stages
      BY <1>7, WorkIs DEF ModelFails, At, IInv
    <3>2. 0 \in 0 .. MaxAttempts
      BY Bounds
    <3>3. x \in Work
      BY <1>1, <3>1, <3>2 DEF Work
    <3>4. Ready(x)
      BY <1>1, <1>7, <2>3, <3>1, <3>3 DEF Ready, Placed, ModelFails, At
    <3> QED BY <2>3, <3>4, GoesMoves
  <2> QED BY <1>7, <2>1, <2>2, <2>3 DEF ModelFails, Keep
<1>8. CASE Built(t)
  BY <1>2, <1>3, <1>8 DEF Built, store, Advance
<1>9. CASE ManifestLost(t)
  <2>1. CASE Current(t)
    BY <1>4, <1>9, <2>1 DEF ManifestLost, Current
  <2>2. CASE ~Current(t)
    BY <1>3, <1>9, <2>2 DEF ManifestLost, Keep
  <2> QED BY <2>1, <2>2
<1>10. CASE ReportBuilt(t)
  <2>1. CASE Final(t)
    BY <1>3, <1>10, <2>1 DEF ReportBuilt
  <2>2. CASE Goes(t, [task[t] EXCEPT !.at = "publish"])
    <3>1. Ready([task[t] EXCEPT !.at = "publish"])
      BY <1>1, <1>10, WorkIs DEF ReportBuilt, At, IInv, Ready, Placed
    <3> QED BY <2>2, <3>1, GoesMoves
  <2> QED BY <1>10, <2>1, <2>2 DEF ReportBuilt
<1>11. CASE Publish(t)
  BY <1>2, <1>3, <1>11 DEF Publish, store
<1>12. CASE PublishFails(t)
  <2>1. CASE FailStaging(t, budget)
    BY <1>1, <2>1, FailStagingMoves
  <2>2. CASE Current(t) /\ Reserve(t, {Mine(t)}, TRUE)
    BY <1>1, <1>4, <1>12, <2>2 DEF PublishFails, Current, At, Placed
  <2>3. CASE Final(t) /\ \E b : Keep(b)
    BY <1>3, <2>3 DEF Keep
  <2> QED BY <1>12, <2>1, <2>2, <2>3 DEF PublishFails
<1> QED BY <1>5, <1>6, <1>7, <1>8, <1>9, <1>10, <1>11, <1>12 DEF Finalizes

-----------------------------------------------------------------------------
(* The invariant holds.                                                    *)

LEMMA TurnOf ==
  ASSUME NEW t \in Tasks, Plans(t) \/ Recover(t) \/ Executes(t) \/ Finalizes(t)
  PROVE  Turn(t) /\ UNCHANGED crashes
<1>1. CASE Plans(t)
  BY <1>1 DEF Plans, Clarify, Refined, RefineFails, Skeleton, PlannerFails, PlanReady, Approve, At
<1>2. CASE Recover(t)
  BY <1>2 DEF Recover, At
<1>3. CASE Executes(t)
  BY <1>3 DEF Executes, Claim, EngineFails, Choose, BatchEnds, ResumeNode, Streamed, StreamFails, At
<1>4. CASE Finalizes(t)
  BY <1>4 DEF Finalizes, Finalize, ModelAnswers, ModelFails, Built, ManifestLost, ReportBuilt, Publish,
     PublishFails, At
<1> QED BY <1>1, <1>2, <1>3, <1>4

LEMMA TaskGood ==
  ASSUME IInv, NEW t \in Tasks, Plans(t) \/ Recover(t) \/ Executes(t) \/ Finalizes(t)
  PROVE  Good
<1>1. CASE Plans(t)
  <2>1. ASSUME NEW c, Clarify(t, c) PROVE Good
    BY <2>1, StoreSame DEF Clarify, IInv
  <2>2. CASE RefineFails(t) \/ PlannerFails(t)
    BY <2>2, PlanningErrorGood DEF RefineFails, PlannerFails, IInv
  <2> QED BY <1>1, <2>1, <2>2, RefinedGood, SkeletonGood, PlanReadyGood, ApproveGood DEF Plans
<1>2. CASE Recover(t)
  BY <1>2, RecoverGood
<1>3. CASE Executes(t)
  <2>1. CASE EngineFails(t) \/ StreamFails(t)
    BY <2>1, GiveUpGood, BudgetWithin DEF EngineFails, StreamFails, IInv
  <2> QED BY <1>3, <2>1, ClaimGood, ChooseGood, BatchEndsGood, ResumeNodeGood, StreamedGood DEF Executes
<1>4. CASE Finalizes(t)
  BY <1>4, FinalizeGood, ModelAnswersGood, ModelFailsGood, BuiltGood, ManifestLostGood, ReportBuiltGood,
     PublishGood, PublishFailsGood DEF Finalizes
<1> QED BY <1>1, <1>2, <1>3, <1>4

LEMMA InitHolds == ASSUME Init PROVE IInv
<1>1. Within(budget)
  <2>1. budget = [standard |-> 0, finalization |-> 0, open |-> {}]
    BY DEF Init
  <2>2. budget \in Ledger /\ IsFiniteSet(budget.open)
    BY <2>1, FS_EmptySet DEF Ledger
  <2>3. ASSUME NEW s \in Scopes PROVE Charged(budget, s) <= Limit(s)
    <3>1. In(budget.open, s) = {} /\ budget[s] = 0
      BY <2>1 DEF In, Scopes
    <3>2. Charged(budget, s) = 0
      BY <3>1, ChargedIs, FS_EmptySet
    <3> QED BY <3>2, Bounds DEF Limit
  <2> QED BY <2>2, <2>3 DEF Within, Sound
<1>2. StoreInv
  BY <1>1, StagesAre, Bounds DEF Init, StoreInv, StoreTyped, Grounded, Finalizing, ReportEarned, NoPlan, PlanRecord, Over
<1>3. PICK t \in Tasks :
        /\ registered = t
        /\ task = [u \in Tasks |-> IF u = t THEN [at |-> "refine", kind |-> "start",
                                                  command |-> NoTask, from |-> 0] ELSE Idle]
  BY DEF Init
<1>4. [at |-> "refine", kind |-> "start", command |-> NoTask, from |-> 0] \in Work
  BY DEF Work
<1>5. WorkTyped
  BY <1>3, <1>4, Bounds DEF Init, WorkTyped
<1>6. Positions
  BY <1>3 DEF Positions, Placed, Idle
<1> QED BY <1>2, <1>5, <1>6 DEF IInv

LEMMA StepHolds == ASSUME IInv, [Next]_vars PROVE IInv' /\ Frozen
<1> SUFFICES Good /\ WorkTyped' /\ Positions'
  BY DEF IInv, Good
<1>0. ASSUME Good, AllSettled' \/ (\A t \in Tasks : task[t].at \notin Held) \/ node' = node,
             UNCHANGED <<task, registered, crashes>>
      PROVE  Good /\ WorkTyped' /\ Positions'
  BY <1>0, StillKeep
<1>1. ASSUME NEW t \in Tasks, Plans(t) \/ Recover(t) \/ Executes(t) \/ Finalizes(t)
      PROVE  Good /\ WorkTyped' /\ Positions'
  <2>1. Good /\ Turn(t) /\ crashes' \in 0 .. MaxCrashes
    BY <1>1, TaskGood, TurnOf DEF IInv, WorkTyped
  <2>2. Moves(t)
    BY <1>1, <2>1, PlansMove, RecoverMoves, ExecutesMove, FinalizesMove
  <2> QED BY <2>1, <2>2, MovesKeep
<1>2. CASE Edit
  BY <1>0, <1>2, EditGood DEF Edit
<1>3. CASE Reject
  BY <1>0, <1>3, RejectGood DEF Reject
<1>4. CASE ResumeRefused
  BY <1>0, <1>4, EndGood, BudgetWithin DEF ResumeRefused, IInv, Over
<1>5. CASE Expire
  BY <1>0, <1>5, EndGood, BudgetWithin DEF Expire, IInv
<1>6. CASE Cancel
  <2>1. Good
    BY <1>6, EndGood, BudgetWithin DEF Cancel, IInv
  <2>2. /\ task' = [t \in Tasks |-> IF t = registered THEN Idle ELSE task[t]]
        /\ registered' = NoTask /\ UNCHANGED crashes /\ \A t \in Tasks : task[t].at # "final"
    BY <1>6 DEF Cancel, Held
  <2>3. WorkTyped'
    BY <2>2 DEF IInv, WorkTyped
  <2>4. ASSUME NEW u \in Tasks PROVE Placed(task'[u], requirement'.version, AllSettled', plan'.stage)
    <3>1. task'[u] = Idle \/ task'[u] = task[u]
      BY <2>2
    <3> QED BY <2>1, <2>2, <3>1, Later DEF Placed, Idle, IInv, Positions, Good, Frozen
  <2> QED BY <2>1, <2>3, <2>4 DEF Positions
<1>7. CASE Crash
  <2>1. Good
    BY <1>7, StoreSame DEF Crash, IInv
  <2>2. WorkTyped'
    BY <1>7, Bounds DEF Crash, IInv, WorkTyped
  <2>3. Positions'
    BY <1>7 DEF Crash, Positions, Placed, Idle
  <2> QED BY <2>1, <2>2, <2>3
<1>8. CASE UNCHANGED vars
  <2>1. Good
    BY <1>8, StoreSame DEF vars, IInv
  <2> QED BY <1>0, <1>8, <2>1 DEF vars, store
<1> QED BY <1>1, <1>2, <1>3, <1>4, <1>5, <1>6, <1>7, <1>8 DEF Next

LEMMA Invariance == Spec => []IInv
<1>1. Init => IInv
  BY InitHolds
<1>2. IInv /\ [Next]_vars => IInv'
  BY StepHolds
<1> QED BY <1>1, <1>2, PTL DEF Spec

\* Whatever drivers, crashes and late answers do, no scope of the budget is charged above
\* its limit, no stage is tried too often and a run that is over has settled everything
\* (_validate_deepsearch_budget_ledger, _close_deepsearch_budget_for_terminal).
THEOREM BudgetIsKept == Spec => []BudgetKept
<1>1. IInv => BudgetKept
  BY Meaning
<1> QED BY <1>1, Invariance, PTL

\* A report is sealed exactly with a run that completed or is partial, for the last version
\* of its requirement, and "complete" is said only with a model's review passed and every
\* node completed (commit_deepsearch_terminal_with_report).
THEOREM ReportsAreEarned == Spec => []ReportEarned
<1>1. IInv => ReportEarned
  BY Meaning
<1> QED BY <1>1, Invariance, PTL

\* From the first checkpoint of the finalization no step of anybody touches a node, and
\* none touches a run that is over (compare_and_swap_deepsearch_finalization,
\* transition_skill_plan_node).
THEOREM EvidenceStaysFrozen == Spec => EvidenceFrozen
<1>1. IInv /\ [Next]_vars =>
        [/\ plan.stage # "none" => node' = node
         /\ run \in Over => UNCHANGED <<run, plan, node, budget, requirement>>]_vars
  BY StepHolds DEF Frozen
<1> QED BY <1>1, Invariance, PTL DEF Spec, EvidenceFrozen

=============================================================================
