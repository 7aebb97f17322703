----------------------------- MODULE DeepSearch -----------------------------
(***************************************************************************)
(* A DeepSearch run from its requirement to its report: clarification,     *)
(* planning, approval, the nodes, and the finalization that climbs a       *)
(* ladder of checkpoints (agentmesh/deepsearch/*.py, the deepsearch        *)
(* transactions of agentmesh/store.py) under a budget of reservations.     *)
(*                                                                         *)
(* Tasks are coroutines of one event loop.  A task at a position of Held   *)
(* has not reached an await yet, so that no other task moves before it;    *)
(* requests on threads (edit, reject) and expiry come between any two of   *)
(* its transactions.  A crash loses the tasks and keeps the store.         *)
(***************************************************************************)
EXTENDS Integers, FiniteSets

CONSTANTS
    Tasks,              \* coroutines working for the run at one time
    Commands,           \* client_turn_ids of clarifications
    Nodes,
    NoTask,
    NoNode,
    MaxRequirement,     \* MAX_CLARIFICATION_ROUNDS + 1
    MaxAttempts,        \* _REPORT_PERSISTENCE_ATTEMPTS
    StandardLimit,      \* units of the budget outside finalization
    ReserveLimit,       \* units kept for finalization
    MaxCrashes          \* bound on crashes

ASSUME Bounds == {MaxRequirement, MaxAttempts, StandardLimit, ReserveLimit, MaxCrashes} \subseteq Nat
ASSUME Absent == NoTask \notin Tasks /\ NoNode \notin Nodes
ASSUME FewNodes == IsFiniteSet(Nodes)

VARIABLES
    run,            \* agent_runs.status
    requirement,    \* latest version; open: it asks questions
    appended,       \* clarifications that appended a version
    plan,           \* status, the requirement it is built on, stage of the finalization,
                    \*   last review, digest: a synthesis without model
    node,           \* skill_plan_nodes.status
    tried,          \* nodes that have used their retry
    paused,         \* node named by agent_runs.paused_state
    report,         \* the report artifact: none, staging, sealed or failed
    budget,         \* open reservations and what is spent of each scope
    attempts,       \* physical attempts of the operation of the current stage
    task,           \* what each coroutine is doing
    registered,     \* the task service._tasks names for the run
    crashes

store == <<run, requirement, appended, plan, node, tried, paused, report, budget, attempts>>
vars == <<store, task, registered, crashes>>

Over == {"completed", "partial", "failed", "cancelled", "rejected"}
Settled == {"completed", "failed", "cancelled"}
Scopes == {"standard", "finalization"}
Next1 == [none |-> "nodes", nodes |-> "manifest", manifest |-> "synthesis0",
          synthesis0 |-> "coverage0", coverage0 |-> "review0", review0 |-> "synthesis1",
          synthesis1 |-> "coverage1", coverage1 |-> "review1"]
Stages == (DOMAIN Next1) \cup {"review1", "terminal"}

Idle == [at |-> "idle"]
NoPlan == [status |-> "none", requirement |-> 0, stage |-> "none", review |-> "none", digest |-> FALSE]

Reservation == [scope : Scopes, of : Nodes \cup Stages, attempt : 0 .. MaxAttempts]
Ledger == [standard : Nat, finalization : Nat, open : SUBSET Reservation]
PlanRecord ==
    [status : {"none", "planning", "waiting", "approved", "running"} \cup Over,
     requirement : 0 .. MaxRequirement, stage : Stages,
     review : {"none", "pass", "revise", "other"}, digest : BOOLEAN]
Work ==
    [at : {"refine"}, kind : {"start", "clarify"}, command : Commands \cup {NoTask}, from : Nat]
    \cup [at : {"analyse", "fill"}, kind : {"start", "clarify", "recovery"}, on : Nat]
    \cup [at : {"claim", "loop", "final"}, resume : BOOLEAN]
    \cup [at : {"nodes"}, resume : BOOLEAN, batch : SUBSET Nodes]
    \cup [at : {"stream"}, node : Nodes]
    \cup [at : {"model"}, resume : BOOLEAN, stage : Stages]
    \cup [at : {"build", "publish"}, resume : BOOLEAN, stage : Stages, attempt : 0 .. MaxAttempts,
          report : BOOLEAN]

TypeOK ==
    /\ run \in {"planning", "clarify", "waiting_plan", "running", "waiting_approval"} \cup Over
    /\ requirement \in [version : 0 .. MaxRequirement, open : BOOLEAN]
    /\ appended \subseteq Commands
    /\ plan \in PlanRecord
    /\ node \in [Nodes -> {"pending", "running", "paused"} \cup Settled]
    /\ tried \subseteq Nodes /\ paused \in Nodes \cup {NoNode}
    /\ report \in {"none", "staging", "sealed", "failed"}
    /\ budget \in Ledger /\ IsFiniteSet(budget.open)
    /\ attempts \in 0 .. MaxAttempts
    /\ task \in [Tasks -> {Idle} \cup Work]
    /\ registered \in Tasks \cup {NoTask} /\ crashes \in 0 .. MaxCrashes

-----------------------------------------------------------------------------
(* The budget: a reservation charges its maximum (one unit) before the     *)
(* operation starts and is replaced by what was used when it is settled.   *)

Charged(b, scope) == b[scope] + Cardinality({r \in b.open : r.scope = scope})
Limit(scope) == IF scope = "standard" THEN StandardLimit ELSE ReserveLimit

\* _validate_deepsearch_budget_ledger: a ledger above its limit is not written.
Room(b, scope) == Charged(b, scope) < Limit(scope)

\* save and edit and approval store a snapshot of the plan and charge it.
Spend(b) == [b EXCEPT !.standard = @ + 1]

Settle(b, R, actual) ==
    [b EXCEPT !.open = @ \ R,
              !.standard = @ + actual * Cardinality({r \in R \cap b.open : r.scope = "standard"}),
              !.finalization = @ + actual * Cardinality({r \in R \cap b.open : r.scope = "finalization"})]

\* _close_deepsearch_budget_for_terminal: what is open is settled at its maximum.
\* Variant: what is open stays open.
LeaveOpen(b) == b
Close(b) == Settle(b, b.open, 1)

NodeCharge(n) == [scope |-> "standard", of |-> n, attempt |-> 0]

-----------------------------------------------------------------------------
(* Ends of the run.                                                        *)

\* _cancel_agent_run_tree_in_transaction, commit_deepsearch_terminal_without_report and
\* fail_deepsearch_recovery_state change the same things.
End(s, b) ==
    /\ run' = s
    /\ plan' = IF plan.status = "none" THEN plan ELSE [plan EXCEPT !.status = s, !.stage = "terminal"]
    /\ node' = [n \in Nodes |-> IF node[n] \in Settled THEN node[n] ELSE "cancelled"]
    /\ paused' = NoNode
    /\ report' = IF report = "staging" THEN "failed" ELSE report
    /\ budget' = Close(b)
    /\ attempts' = 0
    /\ UNCHANGED <<requirement, appended, tried>>

Keep(b) == budget' = b /\ UNCHANGED <<run, requirement, appended, plan, node, tried, paused, report, attempts>>

\* terminate_deepsearch_without_report: a report that is STAGING makes it raise.
Terminable ==
    /\ <<plan.status, run>> \in {<<"approved", "running">>, <<"running", "running">>,
                                 <<"running", "waiting_approval">>}
    /\ report # "staging"

Release(t) == registered' = IF registered = t THEN NoTask ELSE registered
Becomes(t, s) == task' = [task EXCEPT ![t] = s]
Leaves(t) == Becomes(t, Idle) /\ Release(t)
Goes(t, s) == Becomes(t, s) /\ UNCHANGED registered

\* The task ends with an exception that its caller answers by ending the run.
GiveUp(t, b) == Leaves(t) /\ IF Terminable THEN End("failed", b) ELSE Keep(b)

\* fail_deepsearch_recovery_state ends whatever is not over yet.
\* Variant: without looking whether it is.
FailAnyway(t) == Leaves(t) /\ End("failed", budget)
FailRecovery(t) == Leaves(t) /\ IF run \in Over THEN Keep(budget) ELSE End("failed", budget)

\* fail_deepsearch_planning: nothing once the plan is ready or the run is over.
FailPlanning ==
    IF run \in {"planning", "clarify"} /\ plan.status \in {"none", "planning"}
    THEN /\ run' = "failed"
         /\ plan' = IF plan.status = "none" THEN plan ELSE [plan EXCEPT !.status = "failed"]
         /\ budget' = Close(budget)
         /\ UNCHANGED <<requirement, appended, node, tried, paused, report, attempts>>
    ELSE Keep(budget)

\* How a planning error ends: the start of the run fails it, a clarification only
\* answers its request, and recovery tells a conflict from a planner that is away.
PlanningError(t, conflict) ==
    CASE task[t].kind = "start" -> Leaves(t) /\ FailPlanning
      [] task[t].kind = "recovery" /\ conflict -> FailRecovery(t)
      [] OTHER -> Leaves(t) /\ Keep(budget)

-----------------------------------------------------------------------------
(* The requirement and the plan.                                           *)

Held == {"loop", "final", "publish"}
Turn(t) == \A u \in Tasks \ {t} : task[u].at \notin Held
At(t, p) == Turn(t) /\ task[t].at = p

\* _continue_planning_if_ready: a skeleton seen now is completed, otherwise the problem
\* is analysed first.
Planner(k) == [at |-> IF plan.status = "none" THEN "analyse" ELSE "fill",
               kind |-> k, on |-> requirement.version]

\* prepare_deepsearch_requirement_append: a repeated command goes on with the planning.
Clarify(t, c) ==
    /\ At(t, "idle")
    /\ IF c \in appended
       THEN run = "planning" /\ ~requirement.open /\ Goes(t, Planner("clarify"))
       ELSE /\ run = "clarify"
            /\ Goes(t, [at |-> "refine", kind |-> "clarify", command |-> c, from |-> requirement.version])
    /\ UNCHANGED <<store, crashes>>

\* append_deepsearch_requirement_and_transition: compare and swap of version and status.
Appendable(t) ==
    /\ requirement.version = task[t].from
    /\ run = IF task[t].kind = "start" THEN "planning" ELSE "clarify"

Append(t, open, status) ==
    /\ requirement' = [version |-> requirement.version + 1, open |-> open]
    /\ appended' = (appended \cup {task[t].command}) \ {NoTask}
    /\ run' = status
    /\ budget' = IF status = "failed" THEN Close(budget) ELSE budget
    /\ UNCHANGED <<plan, node, tried, paused, report, attempts>>

\* The model has refined the requirement: it asks, is complete or is blocked.
Refined(t) ==
    /\ At(t, "refine")
    /\ IF Appendable(t) /\ requirement.version < MaxRequirement
       THEN \/ /\ requirement.version + 1 < MaxRequirement
               /\ Append(t, TRUE, "clarify") /\ Leaves(t)
            \/ Append(t, TRUE, "failed") /\ Leaves(t)
            \/ /\ Append(t, FALSE, "planning")
               /\ Goes(t, [at |-> "analyse", kind |-> task[t].kind, on |-> requirement.version + 1])
       ELSE IF task[t].command \in appended /\ run = "planning" /\ ~requirement.open
       THEN Goes(t, Planner("clarify")) /\ UNCHANGED store
       ELSE PlanningError(t, TRUE)
    /\ UNCHANGED crashes

RefineFails(t) == At(t, "refine") /\ PlanningError(t, FALSE) /\ UNCHANGED crashes

\* create_deepsearch_planning_skeleton: only the first planner of a run creates it.
Skeleton(t) ==
    /\ At(t, "analyse")
    /\ IF run = "planning" /\ plan.status = "none" /\ requirement.version = task[t].on
       THEN /\ plan' = [plan EXCEPT !.status = "planning", !.requirement = requirement.version]
            /\ Goes(t, [task[t] EXCEPT !.at = "fill"])
            /\ UNCHANGED <<run, requirement, appended, node, tried, paused, report, budget, attempts>>
       ELSE PlanningError(t, FALSE)
    /\ UNCHANGED crashes

PlannerFails(t) ==
    /\ Turn(t) /\ task[t].at \in {"analyse", "fill"}
    /\ \E invalid \in BOOLEAN : PlanningError(t, invalid)
    /\ UNCHANGED crashes

\* save_deepsearch_plan_and_transition.  The loser is content with a plan that waits.
Savable(t) ==
    /\ run = "planning" /\ plan.status = "planning"
    /\ requirement.version = task[t].on /\ ~requirement.open

PlanReady(t) ==
    /\ At(t, "fill")
    /\ IF Savable(t) /\ Room(budget, "standard")
       THEN /\ plan' = [plan EXCEPT !.status = "waiting"]
            /\ run' = "waiting_plan"
            /\ budget' = Spend(budget)
            /\ Leaves(t)
            /\ UNCHANGED <<requirement, appended, node, tried, paused, report, attempts>>
       ELSE IF run = "waiting_plan" THEN Leaves(t) /\ UNCHANGED store
       ELSE PlanningError(t, TRUE)
    /\ UNCHANGED crashes

\* edit_deepsearch_plan: on a thread.  Each snapshot is charged, which bounds the edits.
Edit ==
    /\ run = "waiting_plan" /\ plan.status = "waiting" /\ Room(budget, "standard")
    /\ budget' = Spend(budget)
    /\ UNCHANGED <<run, requirement, appended, plan, node, tried, paused, report, attempts, task, registered, crashes>>

\* transition_skill_plan_and_run
Reject ==
    /\ run = "waiting_plan" /\ plan.status = "waiting"
    /\ run' = "rejected"
    /\ plan' = [plan EXCEPT !.status = "rejected"]
    /\ budget' = Close(budget)
    /\ UNCHANGED <<requirement, appended, node, tried, paused, report, attempts, task, registered, crashes>>

\* approve_deepsearch_plan_and_transition and start_approved_skill_plan: a task that is
\* registered keeps the run to itself.
Approve(t) ==
    /\ At(t, "idle") /\ run = "waiting_plan" /\ plan.status = "waiting"
    /\ Room(budget, "standard")
    /\ run' = "running"
    /\ plan' = [plan EXCEPT !.status = "approved"]
    /\ budget' = Spend(budget)
    /\ IF registered = NoTask
       THEN registered' = t /\ Becomes(t, [at |-> "claim", resume |-> FALSE])
       ELSE UNCHANGED <<task, registered>>
    /\ UNCHANGED <<requirement, appended, node, tried, paused, report, attempts, crashes>>

-----------------------------------------------------------------------------
(* Recovery.                                                               *)

\* prepare_deepsearch_execution_recovery refuses what no crash leaves behind.
Preparable ==
    \/ plan.status = "approved" /\ plan.stage = "none"
    \/ /\ plan.status = "running" /\ plan.stage # "terminal"
       /\ \A n \in Nodes : node[n] # "paused"
       /\ paused = NoNode
       /\ plan.stage # "none" => \A n \in Nodes : node[n] \in Settled

\* recover_deepsearch_run: a node whose task is lost has an unknown outcome.
Recover(t) ==
    /\ At(t, "idle") /\ registered = NoTask
    /\ \/ /\ run = "planning" /\ requirement.version > 0
          /\ registered' = t /\ Becomes(t, Planner("recovery"))
          /\ UNCHANGED store
       \/ /\ run = "planning" /\ requirement.version = 0
          /\ End("failed", budget)
          /\ UNCHANGED <<task, registered>>
       \/ /\ run = "running" /\ Preparable
          /\ node' = [n \in Nodes |-> IF node[n] = "running" THEN "failed" ELSE node[n]]
          /\ registered' = t /\ Becomes(t, [at |-> "claim", resume |-> plan.status = "running"])
          /\ UNCHANGED <<run, requirement, appended, plan, tried, paused, report, budget, attempts>>
       \/ /\ run = "running" /\ ~Preparable
          /\ End("failed", budget)
          /\ UNCHANGED <<task, registered>>
    /\ UNCHANGED crashes

-----------------------------------------------------------------------------
(* The executor: claim, batches of nodes, approvals.                       *)

\* BoundedDAGExecutor.run.  Another engine that was first leaves a conflict, which is
\* no failure.
Claim(t) ==
    /\ At(t, "claim")
    /\ IF run = "running" /\ plan.status = (IF task[t].resume THEN "running" ELSE "approved")
       THEN /\ plan' = [plan EXCEPT !.status = "running"]
            /\ Goes(t, [task[t] EXCEPT !.at = "loop"])
       ELSE Leaves(t) /\ UNCHANGED plan
    /\ UNCHANGED <<run, requirement, appended, node, tried, paused, report, budget, attempts, crashes>>

\* No model, or the time of the run is up while the task waits.
EngineFails(t) ==
    /\ Turn(t) /\ task[t].at \in {"claim", "nodes", "model", "build"}
    /\ GiveUp(t, budget)
    /\ UNCHANGED crashes

Pending == {n \in Nodes : node[n] = "pending"}

\* One turn of the loop: claim the nodes that wait, or leave it.  A node whose
\* reservation has no room fails.
Choose(t) ==
    /\ At(t, "loop")
    /\ CASE run = "cancelled" -> Leaves(t) /\ UNCHANGED store
         [] run # "cancelled" /\ (run # "running" \/ plan.status # "running") -> GiveUp(t, budget)
         [] run = "running" /\ plan.status = "running" /\ Pending # {} ->
              \E B \in SUBSET Pending :
                 LET paid == [budget EXCEPT !.open = @ \cup {NodeCharge(n) : n \in B}] IN
                 /\ Charged(paid, "standard") <= StandardLimit
                 /\ \A n \in Pending \ B : ~Room(paid, "standard")
                 /\ node' = [n \in Nodes |-> IF n \in B THEN "running"
                                             ELSE IF n \in Pending THEN "failed" ELSE node[n]]
                 /\ budget' = paid
                 /\ IF B = {} THEN UNCHANGED <<task, registered>>
                    ELSE Goes(t, [at |-> "nodes", resume |-> task[t].resume, batch |-> B])
                 /\ UNCHANGED <<run, requirement, appended, plan, tried, paused, report, attempts>>
         [] OTHER ->
              IF \A n \in Nodes : node[n] \in Settled
              THEN Goes(t, [at |-> "final", resume |-> task[t].resume]) /\ UNCHANGED store
              ELSE GiveUp(t, budget)
    /\ UNCHANGED crashes

Outcomes == {"completed", "failed", "pending", "paused"}

\* A batch ends.  One pause is kept, the other nodes that pause are claimed again; a
\* transient error of a first attempt is tried again.
BatchEnds(t) ==
    /\ At(t, "nodes")
    /\ LET B == task[t].batch IN
       IF run # "running" \/ \E n \in B : node[n] # "running"
       THEN IF run = "cancelled" THEN Leaves(t) /\ UNCHANGED store ELSE GiveUp(t, budget)
       ELSE \E o \in [B -> Outcomes], retried \in SUBSET B, actual \in 0 .. 1 :
            LET pausing == {n \in B : o[n] = "paused"} IN
            /\ Cardinality(pausing) <= 1
            /\ retried \subseteq {n \in B : o[n] = "pending"} \ tried
            /\ pausing = {} => retried = {n \in B : o[n] = "pending"}
            /\ node' = [n \in Nodes |-> IF n \in B THEN o[n] ELSE node[n]]
            /\ tried' = tried \cup retried
            /\ budget' = Settle(budget, {NodeCharge(n) : n \in B}, actual)
            /\ IF pausing = {}
               THEN /\ Goes(t, [at |-> "loop", resume |-> task[t].resume])
                    /\ UNCHANGED <<run, paused>>
               ELSE /\ Leaves(t)
                    /\ run' = "waiting_approval" /\ paused' = CHOOSE n \in pausing : TRUE
            /\ UNCHANGED <<requirement, appended, plan, report, attempts>>
    /\ UNCHANGED crashes

\* _resume_skill_plan_node: the decision claims the run and registers the request,
\* whoever was registered before.  A grant that is gone fails an optional node.
ResumeNode(t) ==
    /\ At(t, "idle") /\ run = "waiting_approval"
    /\ run' = "running"
    /\ \/ /\ node' = [node EXCEPT ![paused] = "running"]
          /\ registered' = t /\ Becomes(t, [at |-> "stream", node |-> paused])
          /\ UNCHANGED paused
       \/ /\ node' = [node EXCEPT ![paused] = "failed"] /\ paused' = NoNode
          /\ Goes(t, [at |-> "claim", resume |-> TRUE])
    /\ UNCHANGED <<requirement, appended, plan, tried, report, budget, attempts, crashes>>

\* _fail_waiting_skill_plan: the skill or a required grant changed meanwhile.
ResumeRefused ==
    /\ \A t \in Tasks : task[t].at \notin Held
    /\ run = "waiting_approval" /\ Terminable
    /\ End("failed", budget)
    /\ UNCHANGED <<task, registered, crashes>>

\* The request is no longer registered when its stream ends, and goes on to execute
\* the plan.  A conflict means that somebody else has moved the node.
Streamed(t) ==
    /\ At(t, "stream")
    /\ LET n == task[t].node IN
       IF run = "running" /\ node[n] = "running"
       THEN \/ /\ node' = [node EXCEPT ![n] = "completed"] /\ paused' = NoNode
               /\ Release(t) /\ Becomes(t, [at |-> "claim", resume |-> TRUE])
               /\ UNCHANGED run
            \/ /\ node' = [node EXCEPT ![n] = "paused"] /\ paused' = n
               /\ run' = "waiting_approval"
               /\ Leaves(t)
       ELSE Leaves(t) /\ UNCHANGED <<run, node, paused>>
    /\ UNCHANGED <<requirement, appended, plan, tried, report, budget, attempts, crashes>>

\* _fail_active_skill_plan
StreamFails(t) == At(t, "stream") /\ GiveUp(t, budget) /\ UNCHANGED crashes

-----------------------------------------------------------------------------
(* DeepSearchFinalizer.finalize: the ladder of checkpoints.                *)

Revises == plan.stage = "review0" /\ plan.review = "revise" /\ ~plan.digest
Reporting == plan.stage = "review1" \/ (plan.stage = "review0" /\ ~Revises)
Synthesizing == plan.stage = "manifest" \/ Revises

\* compare_and_swap_deepsearch_finalization writes the next stage in one transaction
\* with the settlement of its operation.
Advance(next, review, digest, b) ==
    /\ plan' = [plan EXCEPT !.stage = next, !.review = review, !.digest = digest]
    /\ attempts' = 0
    /\ budget' = b
    /\ UNCHANGED <<run, requirement, appended, node, tried, paused, report>>

\* _reserve_finalization_operation: an open attempt belongs to another driver, or to
\* one that a resumed driver takes for lost and settles at its maximum.
Open(b) == {r \in b.open : r.scope = "finalization" /\ r.of = plan.stage}
Afresh == Settle(budget, Open(budget), 1)
RoomForAttempt == attempts < MaxAttempts /\ Room(Afresh, "finalization")

Final(t) == Goes(t, [at |-> "final", resume |-> task[t].resume])
Attempt(n, a) == [scope |-> "finalization", of |-> n, attempt |-> a]

\* _fail_staging_report: the report and the run fail in one transaction.
FailStaging(t, b) ==
    IF report = "staging" /\ run = "running" /\ plan.stage = task[t].stage
    THEN Leaves(t) /\ End("failed", b)
    ELSE IF report = "none" THEN GiveUp(t, b) ELSE Final(t) /\ Keep(b)

\* Reserve the next attempt after those in mine have failed, look again when another
\* driver works on one (_FinalizationOperationBusy), or end for want of attempts or room.
Reserve(t, mine, staged) ==
    IF Open(budget) \ mine # {} /\ ~task[t].resume
    THEN Final(t) /\ Keep(Settle(budget, mine, 1))
    ELSE IF RoomForAttempt
    THEN /\ attempts' = attempts + 1
         /\ budget' = [Afresh EXCEPT !.open = @ \cup {Attempt(plan.stage, attempts + 1)}]
         /\ Goes(t, [at |-> "build", resume |-> task[t].resume, stage |-> plan.stage,
                      attempt |-> attempts + 1, report |-> Reporting])
         /\ UNCHANGED <<run, requirement, appended, plan, node, tried, paused, report>>
    ELSE IF staged THEN FailStaging(t, Afresh) ELSE GiveUp(t, Afresh)

\* One turn of finalize up to its next await.
Finalize(t) ==
    /\ At(t, "final")
    /\ CASE plan.stage = "terminal" -> Leaves(t) /\ UNCHANGED store
         [] plan.stage # "terminal" /\ (run # "running" \/ plan.status # "running") -> GiveUp(t, budget)
         [] plan.stage = "none" /\ run = "running" /\ plan.status = "running" ->
              Advance("nodes", "none", FALSE, budget) /\ UNCHANGED <<task, registered>>
         [] OTHER ->
              IF Synthesizing \/ plan.stage \in {"coverage0", "coverage1"}
              THEN /\ Goes(t, [at |-> "model", resume |-> task[t].resume, stage |-> plan.stage])
                   /\ UNCHANGED store
              ELSE Reserve(t, {}, FALSE)
    /\ UNCHANGED crashes

\* The checkpoint is written only on the state its maker read.
Current(t) == run = "running" /\ plan.status = "running" /\ plan.stage = task[t].stage

\* A synthesis or a review of the model, which has no reservation of the reserve.
ModelAnswers(t) ==
    /\ At(t, "model")
    /\ IF ~Current(t) THEN Final(t) /\ UNCHANGED store
       ELSE \/ Synthesizing /\ Advance(Next1[plan.stage], plan.review, FALSE, budget) /\ Final(t)
            \/ ~Synthesizing /\ Final(t)
               /\ \E r \in IF plan.digest THEN {"other"} ELSE {"pass", "revise", "other"} :
                     Advance(Next1[plan.stage], r, plan.digest, budget)
    /\ UNCHANGED crashes

\* A synthesis the model does not deliver is replaced by a digest, under reservation;
\* one for a stage that is over is charged and built in vain (attempt 0).
ModelFails(t) ==
    /\ At(t, "model") /\ task[t].stage \in {"manifest", "review0"}
    /\ IF Current(t) THEN Reserve(t, {}, FALSE)
       ELSE IF run = "running" /\ Room(budget, "finalization")
       THEN /\ Keep([budget EXCEPT !.open = @ \cup {Attempt(task[t].stage, 0)}])
            /\ Goes(t, [at |-> "build", resume |-> task[t].resume, stage |-> task[t].stage,
                         attempt |-> 0, report |-> FALSE])
       ELSE Final(t) /\ UNCHANGED store
    /\ UNCHANGED crashes

Mine(t) == Attempt(task[t].stage, task[t].attempt)

\* A built manifest, digest or coverage is committed.  Somebody who settled the
\* reservation at its maximum meanwhile makes a smaller usage a conflict.
Built(t) ==
    /\ At(t, "build") /\ ~task[t].report
    /\ IF ~Current(t) THEN Final(t) /\ UNCHANGED store
       ELSE \E actual \in 0 .. 1 :
            IF Mine(t) \notin budget.open /\ actual = 0 THEN GiveUp(t, budget)
            ELSE /\ Final(t)
                 /\ Advance(Next1[plan.stage], plan.review, Synthesizing \/ plan.digest,
                            Settle(budget, {Mine(t)}, actual))
    /\ UNCHANGED crashes

\* The manifest could not be written: settle the attempt and make another.
ManifestLost(t) ==
    /\ At(t, "build") /\ task[t].stage = "nodes"
    /\ IF Current(t) THEN Reserve(t, {Mine(t)}, FALSE)
       ELSE Final(t) /\ Keep(IF run = "running" THEN Settle(budget, {Mine(t)}, 1) ELSE budget)
    /\ UNCHANGED crashes

\* create_staging_report does not look at the run: the report of a run that ended
\* meanwhile is left STAGING.
ReportBuilt(t) ==
    /\ At(t, "build") /\ task[t].report
    /\ IF report \in {"none", "staging"}
       THEN report' = "staging" /\ Goes(t, [task[t] EXCEPT !.at = "publish"])
       ELSE UNCHANGED report /\ Final(t)
    /\ UNCHANGED <<run, requirement, appended, plan, node, tried, paused, budget, attempts, crashes>>

\* commit_deepsearch_terminal_with_report
\* Variant: the verdict does not look at the nodes.
VerdictOfReview == IF plan.review = "pass" /\ ~plan.digest THEN "completed" ELSE "partial"
Verdict ==
    IF plan.review = "pass" /\ ~plan.digest /\ \A n \in Nodes : node[n] = "completed"
    THEN "completed" ELSE "partial"

Publish(t) ==
    /\ At(t, "publish")
    /\ IF ~Current(t) THEN Final(t) /\ UNCHANGED store
       ELSE \E actual \in 0 .. 1 :
            IF Mine(t) \notin budget.open /\ actual = 0 THEN GiveUp(t, budget)
            ELSE /\ run' = Verdict
                 /\ plan' = [plan EXCEPT !.status = Verdict, !.stage = "terminal"]
                 /\ report' = "sealed"
                 /\ budget' = Close(Settle(budget, {Mine(t)}, actual))
                 /\ attempts' = 0
                 /\ Leaves(t)
                 /\ UNCHANGED <<requirement, appended, node, tried, paused>>
    /\ UNCHANGED crashes

\* The commit is too late, or cannot be written and is tried again with a new attempt.
PublishFails(t) ==
    /\ At(t, "publish")
    /\ \/ FailStaging(t, budget)
       \/ IF Current(t) THEN Reserve(t, {Mine(t)}, TRUE)
          ELSE Final(t) /\ Keep(IF run = "running" THEN Settle(budget, {Mine(t)}, 1) ELSE budget)
    /\ UNCHANGED crashes

-----------------------------------------------------------------------------
(* Expiry, cancellation, crash.                                            *)

\* expire_deepsearch_run_if_needed, on a thread of its own.
Expire ==
    /\ run \notin Over
    /\ End("cancelled", budget)
    /\ UNCHANGED <<task, registered, crashes>>

\* Cancellation also stops the task that is registered.
Cancel ==
    /\ \A t \in Tasks : task[t].at \notin Held
    /\ run \notin Over
    /\ End("cancelled", budget)
    /\ task' = [t \in Tasks |-> IF t = registered THEN Idle ELSE task[t]]
    /\ registered' = NoTask
    /\ UNCHANGED crashes

Crash ==
    /\ crashes < MaxCrashes /\ crashes' = crashes + 1
    /\ task' = [t \in Tasks |-> Idle] /\ registered' = NoTask
    /\ UNCHANGED store

-----------------------------------------------------------------------------
Init ==
    /\ run = "planning" /\ requirement = [version |-> 0, open |-> FALSE] /\ appended = {}
    /\ plan = NoPlan /\ node = [n \in Nodes |-> "pending"] /\ tried = {} /\ paused = NoNode
    /\ report = "none" /\ budget = [standard |-> 0, finalization |-> 0, open |-> {}] /\ attempts = 0
    /\ \E t \in Tasks :
          /\ registered = t
          /\ task = [u \in Tasks |-> IF u = t THEN [at |-> "refine", kind |-> "start",
                                                    command |-> NoTask, from |-> 0] ELSE Idle]
    /\ crashes = 0

Plans(t) ==
    \/ \E c \in Commands : Clarify(t, c)
    \/ Refined(t) \/ RefineFails(t) \/ Skeleton(t) \/ PlannerFails(t) \/ PlanReady(t)
    \/ Approve(t)

Executes(t) ==
    \/ Claim(t) \/ EngineFails(t) \/ Choose(t) \/ BatchEnds(t)
    \/ ResumeNode(t) \/ Streamed(t) \/ StreamFails(t)

Finalizes(t) ==
    \/ Finalize(t) \/ ModelAnswers(t) \/ ModelFails(t) \/ Built(t)
    \/ ManifestLost(t) \/ ReportBuilt(t) \/ Publish(t) \/ PublishFails(t)

Next ==
    \/ \E t \in Tasks : Plans(t) \/ Recover(t) \/ Executes(t) \/ Finalizes(t)
    \/ Edit \/ Reject \/ ResumeRefused \/ Expire \/ Cancel \/ Crash

Spec == Init /\ [][Next]_vars

-----------------------------------------------------------------------------
(* What a DeepSearch run promises.                                         *)

\* No scope of the budget is ever charged above its limit, open reservations of crashed
\* or parallel drivers included, no stage is tried too
\* often, and a run that is over has settled all of its reservations
\* (_validate_deepsearch_budget_ledger, _close_deepsearch_budget_for_terminal).
BudgetKept ==
    /\ attempts <= MaxAttempts
    /\ \A s \in Scopes : Charged(budget, s) <= Limit(s)
    /\ run \in Over => budget.open = {}

\* A report is published exactly with the run and the plan it completes; it was planned
\* for the last version of a requirement without questions, and says "complete" only when
\* all nodes completed and a review by a model passed
\* (commit_deepsearch_terminal_with_report, decide_deepsearch_terminal).
ReportEarned ==
    /\ report = "sealed" <=> run \in {"completed", "partial"}
    /\ report = "sealed" =>
          /\ plan.status = run /\ plan.stage = "terminal"
          /\ plan.requirement = requirement.version /\ ~requirement.open
    /\ run = "completed" => plan.review = "pass" /\ ~plan.digest /\ \A n \in Nodes : node[n] = "completed"

\* Once finalization has begun the nodes are history, whichever driver or approval
\* still runs, and once the run is over nothing of it changes but a report built in
\* vain (compare_and_swap_deepsearch_finalization, transition_skill_plan_node).
EvidenceFrozen ==
    [][/\ plan.stage # "none" => node' = node
       /\ run \in Over => UNCHANGED <<run, plan, node, budget, requirement>>]_vars

=============================================================================
