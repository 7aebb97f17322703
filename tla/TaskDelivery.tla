---------------------------- MODULE TaskDelivery ----------------------------
(***************************************************************************)
(* Managed tasks, their runs and the review of what they deliver           *)
(* (agentmesh/task_management, agentmesh/task_review and the task commands *)
(* of agentmesh/store.py).                                                 *)
(*                                                                         *)
(* A command is served on a thread in two steps: the service reads the     *)
(* task, refuses what it can and computes the task it wants (Read), then   *)
(* one transaction checks again what may have changed and writes (Commit). *)
(* Whatever commits between the two is either such a command too, or one   *)
(* whose own steps nothing came between (Prompt).  Who may give a command  *)
(* is decided from users and rules that no command here changes: every     *)
(* command is taken to come from someone who may give it.                  *)
(***************************************************************************)
EXTENDS Integers, FiniteSets

CONSTANTS
    Tasks,
    Runs,
    Requests,       \* threads that are between their read and their transaction
    Idle,           \* a thread without a command
    NoTask,         \* task of a run of a private thread
    Budgets,        \* bound: commands of each kind that commit, and citations
    Delivered       \* [task, run]: deliveries accepted before the model starts

ASSUME Counts == Budgets \subseteq [delivery : Nat, memory : Nat, cites : Nat]
ASSUME Absent == NoTask \notin Tasks
ASSUME Accepted ==
    /\ Delivered \subseteq [task : Tasks, run : Runs] /\ IsFiniteSet(Delivered)
    /\ \A d, e \in Delivered : d.task = e.task \/ d.run = e.run => d = e

VARIABLES
    task,           \* Task.management of each task
    run,            \* the agent runs: task and status
    reviews,        \* task_reviews, with their inbox item (open until decided)
    request,        \* what each thread is about to commit
    left            \* what is left of the budget

delivery == <<task, run, reviews>>

Stages == {"none", "backlog", "planned", "in_progress", "review", "done", "cancelled"}
Ended == {"done", "cancelled"}
Actions == {"plan", "start", "submit_review", "complete", "cancel", "reopen", "block", "unblock"}

\* _TRANSITIONS
Moves ==
    {<<"backlog", "plan", "planned">>, <<"planned", "start", "in_progress">>,
     <<"in_progress", "submit_review", "review">>, <<"review", "start", "in_progress">>,
     <<"review", "complete", "done">>, <<"done", "reopen", "in_progress">>,
     <<"cancelled", "reopen", "backlog">>}
    \cup {<<s, "cancel", "cancelled">> : s \in {"backlog", "planned", "in_progress", "review"}}

Uncreated == [stage |-> "none", blocked |-> FALSE, archived |-> FALSE, version |-> 0, deps |-> {}]
Reviewed == [stage |-> "done", blocked |-> FALSE, archived |-> FALSE, version |-> 5, deps |-> {}]
Created(D) == [stage |-> "backlog", blocked |-> FALSE, archived |-> FALSE, version |-> 1, deps |-> D]
Submitted(m, version) == [m EXCEPT !.stage = "review", !.version = version]
Decided(m, stage) == [m EXCEPT !.stage = stage, !.blocked = FALSE, !.version = @ + 1]
Unused == [task |-> NoTask, status |-> "none"]

DeliveredTasks == {d.task : d \in Delivered}

InitDelivery ==
    /\ task = [t \in Tasks |-> IF t \in DeliveredTasks THEN Reviewed ELSE Uncreated]
    /\ run = [r \in Runs |-> IF \E d \in Delivered : d.run = r
                             THEN [task |-> (CHOOSE d \in Delivered : d.run = r).task, status |-> "delivered"]
                             ELSE Unused]
    /\ reviews = {[task |-> d.task, run |-> d.run, round |-> 1, version |-> 4, status |-> "accepted"]
                  : d \in Delivered}
    /\ left \in Budgets
    /\ request = [q \in Requests |-> Idle]

-----------------------------------------------------------------------------
(* What the transactions check.                                            *)

PendingOf(t) == {v \in reviews : v.task = t /\ v.status = "pending"}
LinkedRuns(t) == {r \in Runs : run[r].task = t}
ActiveRuns(t) == {r \in LinkedRuns(t) : run[r].status = "active"}
Exists(t) == task[t].stage # "none"
DependenciesDone(t) == \A d \in task[t].deps : task[d].stage = "done"

\* _authorize_task_command, with require_no_pending_review as by default.
\* Variant: a pending review does not matter.
Unreserved(t) == Exists(t) /\ ~task[t].archived
Authorized(t) == Exists(t) /\ ~task[t].archived /\ PendingOf(t) = {}

\* TaskGraph: in every set of tasks one depends on none of the others.
Acyclic(deps) == \A S \in (SUBSET Tasks) \ {{}} : \E t \in S : deps[t] \cap S = {}

\* _validate_task_relationships_in_transaction.
\* Variant: only the targets are looked at.
Targets(t, D) == \A d \in D : Exists(d) /\ ~task[d].archived
Related(t, D) ==
    /\ Targets(t, D)
    /\ Acyclic([x \in Tasks |-> IF x = t THEN D ELSE task[x].deps])

\* Flags of TaskCommandAuthorizationV1 that a command sets.
\* Variant: the runs of the task are not looked at.
AnyRuns(c) ==
    /\ "ready" \in c.needs => DependenciesDone(c.task)
    /\ "idle" \in c.needs => ActiveRuns(c.task) = {}
    /\ "graph" \in c.needs => Related(c.task, c.next.deps)
Met(c) ==
    /\ "ready" \in c.needs => DependenciesDone(c.task)
    /\ "unlinked" \in c.needs => LinkedRuns(c.task) = {}
    /\ "idle" \in c.needs => ActiveRuns(c.task) = {}
    /\ "graph" \in c.needs => Related(c.task, c.next.deps)

\* _validate_task_review_artifacts: a sealed artifact keeps its content, so that only
\* the run can be wrong.
Reviewable(v) == run[v.run].task = v.task /\ run[v.run].status = "delivered"

NextRound(t) == 1 + Cardinality({v \in reviews : v.task = t})

-----------------------------------------------------------------------------
(* The commands the services let through in the present state.             *)

Creations ==
    {[op |-> "create", task |-> t, deps |-> D] : t \in {t \in Tasks : ~Exists(t)}, D \in SUBSET Tasks}

Saves(t, changes, needs) ==
    {[op |-> "save", task |-> t, next |-> [m EXCEPT !.version = @ + 1], needs |-> needs]
     : m \in IF Exists(t) /\ ~task[t].archived THEN changes ELSE {}}

\* The management after a transition; none where it is refused.
Moved(m, a) ==
    CASE a = "block" -> {[m EXCEPT !.blocked = TRUE] : x \in {m.stage} \ Ended}
      [] a = "unblock" -> {[m EXCEPT !.blocked = FALSE] : x \in {m.blocked} \ {FALSE}}
      [] OTHER -> {[m EXCEPT !.stage = s, !.blocked = @ /\ s \notin Ended]
                   : s \in {s \in Stages : <<m.stage, a, s>> \in Moves /\ (m.blocked => a = "cancel")}}

TransitionNeeds(m, a) ==
    {f \in {"ready"} : a = "start" \/ (a = "reopen" /\ m.stage = "done")}
    \cup {f \in {"unlinked"} : a \in {"submit_review", "complete"}}

Transitions(t) ==
    UNION {Saves(t, Moved(task[t], a), TransitionNeeds(task[t], a))
           : a \in {a \in Actions : "ready" \in TransitionNeeds(task[t], a) => DependenciesDone(t)}}

\* A change of the dependencies; an edit of the other fields leaves them alone.
Updates(t) ==
    Saves(t, {task[t]}, {})
    \cup Saves(t, {[task[t] EXCEPT !.deps = D] : D \in SUBSET (Tasks \ {t})}, {"idle", "graph"})

Archivings(t) == Saves(t, {[task[t] EXCEPT !.archived = TRUE] : x \in {task[t].stage} \cap Ended}, {})

Submissions ==
    {[op |-> "submit",
      review |-> [task |-> run[r].task, run |-> r, round |-> NextRound(run[r].task),
                  version |-> task[run[r].task].version + 1, status |-> "pending"]]
     : r \in {r \in Runs : /\ run[r].status = "delivered" /\ run[r].task # NoTask
                           /\ task[run[r].task].stage = "in_progress"
                           /\ ~task[run[r].task].blocked /\ ~task[run[r].task].archived}}

Decisions ==
    {[op |-> "decide", review |-> v, status |-> s]
     : v \in {v \in reviews : /\ v.status = "pending"
                              /\ task[v.task].version = v.version /\ task[v.task].stage = "review"},
       s \in {"accepted", "changes_requested"}}

TaskCommands ==
    Creations \cup Submissions \cup Decisions
    \cup UNION {Transitions(t) \cup Updates(t) \cup Archivings(t) : t \in Tasks}

-----------------------------------------------------------------------------
(* Their transactions.                                                     *)

Create(c) ==
    /\ c.op = "create"
    /\ ~Exists(c.task)
    /\ c.deps # {} => Related(c.task, c.deps)
    /\ task' = [task EXCEPT ![c.task] = Created(c.deps)]
    /\ UNCHANGED <<run, reviews>>

\* save_managed_task_command
Save(c) ==
    /\ c.op = "save"
    /\ Authorized(c.task) /\ Met(c)
    /\ task[c.task].version = c.next.version - 1
    /\ task' = [task EXCEPT ![c.task] = c.next]
    /\ UNCHANGED <<run, reviews>>

\* submit_task_review_command
Submit(c) ==
    /\ c.op = "submit"
    /\ LET v == c.review  t == c.review.task
       IN /\ Authorized(t)
          /\ task[t].version = v.version - 1
          /\ task[t].stage = "in_progress" /\ ~task[t].blocked
          /\ v.round = NextRound(t) /\ Reviewable(v)
          /\ task' = [task EXCEPT ![t] = Submitted(task[t], v.version)]
          /\ reviews' = reviews \cup {v}
    /\ UNCHANGED run

\* decide_task_review_command: the task is as it was submitted, and the inbox open.
Decidable(v) ==
    /\ v \in reviews /\ v.status = "pending"
    /\ task[v.task].version = v.version /\ task[v.task].stage = "review" /\ ~task[v.task].archived
    /\ Reviewable(v)

Decide(c) ==
    /\ c.op = "decide"
    /\ Decidable(c.review)
    /\ task' = [task EXCEPT ![c.review.task] =
                   Decided(task[c.review.task], IF c.status = "accepted" THEN "done" ELSE "in_progress")]
    /\ reviews' = (reviews \ {c.review}) \cup {[c.review EXCEPT !.status = c.status]}
    /\ UNCHANGED run

Perform(c) ==
    /\ left.delivery > 0
    /\ left' = [left EXCEPT !.delivery = @ - 1]
    /\ Create(c) \/ Save(c) \/ Submit(c) \/ Decide(c)

Read(q, C) ==
    /\ request[q] = Idle
    /\ \E c \in C : request' = [request EXCEPT ![q] = c]
    /\ UNCHANGED <<delivery, left>>

Answers(q) == request[q] # Idle /\ request' = [request EXCEPT ![q] = Idle]
Commit(q) == Answers(q) /\ Perform(request[q])
Prompt == UNCHANGED request /\ \E c \in TaskCommands : Perform(c)

\* The transaction raises: what it checks has changed, or what the giver may do.
Dismiss(q) == Answers(q) /\ UNCHANGED <<delivery, left>>

-----------------------------------------------------------------------------
(* Runs.                                                                   *)

\* _require_agent_run_task_available
RunAllowed(t) ==
    /\ Authorized(t) /\ task[t].stage = "in_progress" /\ ~task[t].blocked
    /\ DependenciesDone(t) /\ ActiveRuns(t) = {}

CreateRun(r) ==
    /\ run[r].status = "none"
    /\ \E t \in Tasks \cup {NoTask} :
           /\ t # NoTask => RunAllowed(t)
           /\ run' = [run EXCEPT ![r] = [task |-> t, status |-> "active"]]
    /\ UNCHANGED <<task, reviews, request, left>>

\* The run is COMPLETED or PARTIAL with sealed artifacts, or it ended without.
RunEnds(r) ==
    /\ run[r].status = "active"
    /\ \E s \in {"delivered", "failed"} : run' = [run EXCEPT ![r].status = s]
    /\ UNCHANGED <<task, reviews, request, left>>

NextDelivery ==
    \/ \E q \in Requests : (left.delivery > 0 /\ Read(q, TaskCommands)) \/ Commit(q) \/ Dismiss(q)
    \/ Prompt
    \/ \E r \in Runs : CreateRun(r) \/ RunEnds(r)

=============================================================================
