---------------------------- MODULE RunDispatch ----------------------------
(***************************************************************************)
(* Durable dispatch of Standard runs: the transactions of the store that   *)
(* create a run with its dispatch receipt, claim, hand off and settle the  *)
(* receipt and project the ending of the run (agentmesh/store.py), and the *)
(* code that calls them: the request handlers, the background tasks with   *)
(* their done-callback and the dispatch pump, all on one event loop, and   *)
(* the inbox and rejection requests, each on a thread of its own           *)
(* (agentmesh/agent_runtime/service.py, agentmesh/routes/agent_runs.py).   *)
(*                                                                         *)
(* One action is one transaction, so a thread or a crash may come between  *)
(* two transactions of one handler.  Code on the loop does not await       *)
(* between its transactions: "loop" says what it is in the middle of.      *)
(***************************************************************************)
EXTENDS Integers, FiniteSets

CONSTANTS
    Runs,           \* identities of the runs that will be requested
    Planned,        \* those that are planned first (the others are direct)
    AsksInput,      \* direct runs whose Skill needs input before it starts
    Threads,        \* chat threads
    NoThread,
    RunLimit,       \* process_run_limit of the capacity controller
    MaxCrashes      \* bound: how often the process may be lost

ASSUME RunsSorted == /\ Planned \subseteq Runs
                     /\ AsksInput \subseteq Runs \ Planned
                     /\ IsFiniteSet(Runs)
                     /\ NoThread \notin Threads
ASSUME LimitPositive == RunLimit \in Nat \ {0} /\ MaxCrashes \in Nat

\* "first" is standard_direct or standard_plan, "approved" is approved_plan.
Kinds == {"first", "approved"}

Ended == {"completed", "failed", "rejected", "cancelled"}
Waiting == {"waiting_input", "waiting_plan", "waiting_approval"}
Driven == {"planning", "running"}
Active == Waiting \cup Driven

VARIABLES
    status,         \* agent_runs.status ("absent": not requested yet)
    chat,           \* agent_runs.thread_id: the thread a run answers in
    receipts,       \* run_dispatch_receipts.state; "orphaned" is a started
                    \*   receipt of an earlier process epoch
    projection,     \* the terminal status its projection receipt records
    messages,       \* how many assistant messages the run has put in its thread
    expired,        \* runs whose wait has passed its deadline
    task,           \* the background task of each run
    thread,         \* the request thread that works on each run
    reserved,       \* operation keys that hold run capacity
    loop,           \* what the event loop is in the middle of
    phase,          \* where the process is in its life
    crashes,
    executions,     \* history: how often a receipt's work was launched
    outside         \* history: runs that went on or ended outside a dispatch

stored == <<status, chat, receipts, projection, messages>>
memory == <<task, thread, reserved, loop>>
vars == <<stored, expired, memory, phase, crashes, executions, outside>>

NoTask == [at |-> "none", kind |-> "first"]
Idle == [op |-> "idle"]
Busy(op, r, k) == [op |-> op, run |-> r, kind |-> k]
Statuses == {"absent"} \cup Active \cup Ended
ReceiptStates == {"none", "pending", "started", "orphaned", "settled"}
Work == [at : {"none", "working", "cancelling", "done", "cancelled"}, kind : Kinds]
Requests == {"idle", "claimed", "driving", "cancelling", "projecting"}
Turns == {Idle} \cup [op : {"launch", "refuse", "preview", "drop", "settle", "project", "finish"},
                      run : Runs, kind : Kinds]

TypeOK ==
    /\ status \in [Runs -> Statuses]
    /\ chat \in [Runs -> Threads \cup {NoThread}]
    /\ receipts \in [Runs -> [Kinds -> ReceiptStates]]
    /\ projection \in [Runs -> {"none"} \cup Ended]
    /\ messages \in [Runs -> Nat]
    /\ expired \subseteq Runs
    /\ task \in [Runs -> Work]
    /\ thread \in [Runs -> Requests]
    /\ reserved \subseteq Runs \X Kinds
    /\ loop \in Turns
    /\ phase \in {"down", "orphans", "draining", "serving"}
    /\ crashes \in 0 .. MaxCrashes
    /\ executions \in [Runs -> [Kinds -> Nat]]
    /\ outside \subseteq Runs

Init ==
    /\ status = [r \in Runs |-> "absent"]
    /\ chat = [r \in Runs |-> NoThread]
    /\ receipts = [r \in Runs |-> [k \in Kinds |-> "none"]]
    /\ projection = [r \in Runs |-> "none"]
    /\ messages = [r \in Runs |-> 0]
    /\ expired = {}
    /\ task = [r \in Runs |-> NoTask]
    /\ thread = [r \in Runs |-> "idle"]
    /\ reserved = {}
    /\ loop = Idle
    /\ phase = "serving"
    /\ crashes = 0
    /\ executions = [r \in Runs |-> [k \in Kinds |-> 0]]
    /\ outside = {}

-----------------------------------------------------------------------------
(* What the transactions of the store do to a run and its receipts.        *)

IsOpen(state) == state \in {"pending", "started", "orphaned"}

SetStatus(r, s) == status' = [status EXCEPT ![r] = s]
SetReceipt(r, k, state) == receipts' = [receipts EXCEPT ![r][k] = state]

\* A new receipt: the others of the run that are still open are settled in the
\* same transaction (a second open receipt would break a unique index).
HandOff(r, k) ==
    receipts' = [receipts EXCEPT ![r] =
        [j \in Kinds |-> IF j = k THEN "pending"
                         ELSE IF IsOpen(@[j]) THEN "settled" ELSE @[j]]]

\* claim_run_dispatch: what the caller is told, and what is stored.
Claimable(r, k) == receipts[r][k] \in {"pending", "started"}
Claim(r, k) == IF Claimable(r, k) THEN SetReceipt(r, k, "started") ELSE UNCHANGED receipts

\* settle_run_dispatch: only a receipt this process has started.
Settle(r, k) ==
    IF receipts[r][k] = "started" THEN SetReceipt(r, k, "settled") ELSE UNCHANGED receipts

\* project_terminal_run_output and project_terminal_run_status: the receipt id is
\* derived from the run, a second projection finds the first one.
\* Variant: the projection does not look for an earlier receipt.
ProjectAgain(r) ==
    /\ projection' = [projection EXCEPT ![r] = status[r]]
    /\ messages' = [messages EXCEPT ![r] =
                       @ + (IF status[r] \in {"completed", "rejected"} THEN 1 ELSE 0)]

Project(r) ==
    IF projection[r] # "none" THEN UNCHANGED <<projection, messages>>
    ELSE /\ projection' = [projection EXCEPT ![r] = status[r]]
         /\ messages' = [messages EXCEPT ![r] =
                            @ + (IF status[r] \in {"completed", "rejected"} THEN 1 ELSE 0)]

\* _require_agent_run_thread_available: what is active in the thread of a new run
\* either has waited too long and is cancelled with the claim, or refuses it.
\* Variant: an expired wait is skipped but not cancelled.
SkipsExpired(t) == {}

InTheWay(t) == {q \in Runs : chat[q] = t /\ status[q] \in Active}
MakesWay(t) == InTheWay(t)

HasRoom == Cardinality(reserved) < RunLimit

-----------------------------------------------------------------------------
(* Request handlers on the event loop.                                     *)

Serving == phase = "serving" /\ loop = Idle

FirstStatus(r) == IF r \in AsksInput THEN "waiting_input"
                  ELSE IF r \in Planned THEN "planning" ELSE "running"

\* _new_run with claim_new_agent_run: the run and its pending receipt are one
\* transaction; a run that waits for input has no receipt and keeps no capacity.
StartRun(r, t) ==
    /\ Serving /\ HasRoom /\ status[r] = "absent"
    /\ InTheWay(t) \subseteq expired
    /\ chat' = [chat EXCEPT ![r] = t]
    /\ status' = [q \in Runs |-> IF q = r THEN FirstStatus(r)
                                 ELSE IF q \in MakesWay(t) THEN "cancelled" ELSE status[q]]
    /\ outside' = outside \cup MakesWay(t)
    /\ expired' = expired \ MakesWay(t)
    /\ IF r \in AsksInput
       THEN UNCHANGED <<receipts, reserved, loop>>
       ELSE /\ SetReceipt(r, "first", "pending")
            /\ reserved' = reserved \cup {<<r, "first">>}
            /\ loop' = Busy("launch", r, "first")
    /\ UNCHANGED <<projection, messages, task, thread, phase, crashes, executions>>

\* A live task of the run: registered in _tasks and not done.
HasLiveTask(r) == task[r].at \in {"working", "cancelling"} \/ thread[r] \in {"driving", "cancelling"}

\* The handler goes on to launch the work, when there is room for it.
GoesToLaunch(r, k) ==
    /\ HasRoom /\ ~HasLiveTask(r)
    /\ reserved' = reserved \cup {<<r, k>>}
    /\ loop' = Busy("launch", r, k)

\* submit_agent_run_inputs completes the request.  The input was the last thing the
\* run waited for: RUNNING and a receipt together, then resume_after_input, which
\* leaves the receipt to the pump without capacity, while the planner still ends,
\* or when it refuses to start the work itself.
KindAfterInput(r) == IF r \in Planned THEN "approved" ELSE "first"

AnswerInput(r) ==
    LET k == KindAfterInput(r) IN
    /\ Serving /\ status[r] = "waiting_input" /\ r \notin expired
    /\ SetStatus(r, "running")
    /\ HandOff(r, k)
    /\ GoesToLaunch(r, k) \/ UNCHANGED <<reserved, loop>>
    /\ UNCHANGED <<chat, projection, messages, expired, task, thread, phase, crashes, executions,
                   outside>>

\* The plan is still to be approved: the handler goes on to the approval at once,
\* unless the process is lost or a rejection comes first.
AnswerThenApprove(r) ==
    /\ Serving /\ r \in Planned /\ status[r] = "waiting_input" /\ r \notin expired
    /\ SetStatus(r, "waiting_plan")
    /\ UNCHANGED <<chat, receipts, projection, messages, expired, memory, phase, crashes,
                   executions, outside>>

\* approve_agent_run_plan and start_approved_skill_plan: while the planning task
\* has not ended, without capacity, or in a process that begins to quiesce, the
\* receipt is left to the pump.  The start may be refused: the run may not be seen
\* or executed by this user any more, or execution was switched off.
ApprovePlan(r) ==
    /\ Serving /\ status[r] = "waiting_plan" /\ r \notin expired
    /\ SetStatus(r, "running")
    /\ HandOff(r, "approved")
    /\ \/ GoesToLaunch(r, "approved")
       \/ UNCHANGED <<reserved, loop>>
       \/ loop' = Busy("refuse", r, "approved") /\ UNCHANGED reserved
    /\ UNCHANGED <<chat, projection, messages, expired, task, thread, phase, crashes,
                   executions, outside>>

\* The handler takes a refused start back; the receipt is left to the pump.
StartRefused(r) ==
    /\ loop = Busy("refuse", r, "approved")
    /\ SetStatus(r, "cancelled")
    /\ loop' = Idle
    /\ UNCHANGED <<chat, receipts, projection, messages, expired, task, thread, reserved,
                   phase, crashes, executions, outside>>

\* In preview mode the approval only confirms the plan: the run is completed without a
\* dispatch, and the handler goes on to put its message in the thread.
ApprovePreview(r) ==
    /\ Serving /\ status[r] = "waiting_plan" /\ r \notin expired
    /\ SetStatus(r, "completed")
    /\ outside' = outside \cup {r}
    /\ loop' = Busy("preview", r, "approved")
    /\ UNCHANGED <<chat, receipts, projection, messages, expired, task, thread, reserved,
                   phase, crashes, executions>>

PreviewProjects(r) ==
    /\ loop = Busy("preview", r, "approved")
    /\ Project(r)
    /\ loop' = Idle
    /\ UNCHANGED <<chat, status, receipts, expired, task, thread, reserved, phase, crashes,
                   executions, outside>>

\* The handler goes on: claim the receipt and create the task, or give up.
Launch(r, k) ==
    /\ loop = Busy("launch", r, k)
    /\ loop' = Idle
    /\ Claim(r, k)
    /\ IF Claimable(r, k)
       THEN /\ task' = [task EXCEPT ![r] = [at |-> "working", kind |-> k]]
            /\ executions' = [executions EXCEPT ![r][k] = @ + 1]
            /\ UNCHANGED reserved
       ELSE /\ reserved' = reserved \ {<<r, k>>}
            /\ UNCHANGED <<task, executions>>
    /\ UNCHANGED <<chat, status, projection, messages, expired, thread, phase, crashes,
                   outside>>

\* AgentRuntimeService.cancel, and the handlers that find a wait expired.
Cancel(r) ==
    /\ Serving /\ status[r] \in Active
    /\ SetStatus(r, "cancelled")
    /\ expired' = expired \ {r}
    /\ outside' = IF status[r] \in Waiting \/ thread[r] # "idle"
                  THEN outside \cup {r} ELSE outside
    /\ task' = IF task[r].at = "working" THEN [task EXCEPT ![r].at = "cancelling"] ELSE task
    /\ thread' = IF thread[r] = "driving" THEN [thread EXCEPT ![r] = "cancelling"] ELSE thread
    /\ UNCHANGED <<chat, receipts, projection, messages, reserved, loop, phase, crashes,
                   executions>>

\* The deadline of a wait passes.
Expire(r) ==
    /\ status[r] \in Waiting /\ r \notin expired
    /\ expired' = expired \cup {r}
    /\ UNCHANGED <<stored, memory, phase, crashes, executions, outside>>

-----------------------------------------------------------------------------
(* The background task of a run and its done-callback.                     *)

TaskEnds(r, at) == task' = [task EXCEPT ![r].at = at]

Working(r) == Serving /\ task[r].at = "working"

\* The planner has a plan: it waits for input or approval, or the task goes on.
TaskPlans(r) ==
    /\ Working(r) /\ status[r] = "planning"
    /\ \/ SetStatus(r, "waiting_input") /\ TaskEnds(r, "done")
       \/ SetStatus(r, "waiting_plan") /\ TaskEnds(r, "done")
       \/ SetStatus(r, "running") /\ UNCHANGED task
    /\ UNCHANGED <<chat, receipts, projection, messages, expired, thread, reserved, loop,
                   phase,
                   crashes, executions, outside>>

\* A tool call needs approval: the paused run and its inbox item are stored.
TaskPauses(r) ==
    /\ Working(r) /\ status[r] = "running"
    /\ SetStatus(r, "waiting_approval") /\ TaskEnds(r, "done")
    /\ UNCHANGED <<chat, receipts, projection, messages, expired, thread, reserved, loop,
                   phase,
                   crashes, executions, outside>>

\* The work fails, in planning or in execution; nothing is projected here.
TaskFails(r) ==
    /\ Working(r) /\ status[r] \in Driven
    /\ SetStatus(r, "failed") /\ TaskEnds(r, "done")
    /\ UNCHANGED <<chat, receipts, projection, messages, expired, thread, reserved, loop,
                   phase,
                   crashes, executions, outside>>

\* The work is done: the output is stored, then projected.
TaskCompletes(r) ==
    /\ Working(r) /\ status[r] = "running"
    /\ SetStatus(r, "completed")
    /\ loop' = Busy("project", r, task[r].kind)
    /\ UNCHANGED <<chat, receipts, projection, messages, expired, task, thread, reserved,
                   phase,
                   crashes, executions, outside>>

TaskProjects(r) ==
    /\ loop = Busy("project", r, task[r].kind)
    /\ Project(r) /\ TaskEnds(r, "done")
    /\ loop' = Idle
    /\ UNCHANGED <<chat, status, receipts, expired, thread, reserved, phase, crashes,
                   executions, outside>>

\* CancelledError reaches the task of a run that is cancelled already.
TaskCancelled(r) ==
    /\ Serving /\ task[r].at = "cancelling"
    /\ TaskEnds(r, "cancelled")
    /\ UNCHANGED <<stored, expired, thread, reserved, loop, phase, crashes, executions,
                   outside>>

\* _finish_background_task reads the run, projects an ending nothing projected
\* yet, and goes on to settle if what it read is an ending or a wait.
\* Variant: the callback leaves the projection to others and settles.
FinishOnly(r) ==
    /\ Serving /\ task[r].at \in {"done", "cancelled"}
    /\ loop' = Busy("finish", r, task[r].kind)
    /\ UNCHANGED <<stored, expired, task, thread, reserved, phase, crashes, executions,
                   outside>>

FinishProjects(r) ==
    /\ Serving /\ task[r].at \in {"done", "cancelled"}
    /\ IF status[r] \in Ended THEN Project(r) ELSE UNCHANGED <<projection, messages>>
    /\ IF status[r] \in Ended \/ (task[r].at = "done" /\ status[r] \in Waiting)
       THEN /\ loop' = Busy("finish", r, task[r].kind)
            /\ UNCHANGED <<task, reserved>>
       ELSE /\ task' = [task EXCEPT ![r] = NoTask]
            /\ reserved' = reserved \ {<<r, task[r].kind>>}
            /\ UNCHANGED loop
    /\ UNCHANGED <<chat, status, receipts, expired, thread, phase, crashes, executions,
                   outside>>

\* Variant: the capacity of the run is not released with its task.
FinishKeepsRoom(r) ==
    /\ loop = Busy("finish", r, task[r].kind)
    /\ Settle(r, task[r].kind)
    /\ task' = [task EXCEPT ![r] = NoTask]
    /\ loop' = Idle
    /\ UNCHANGED <<chat, status, projection, messages, expired, thread, reserved, phase,
                   crashes, executions,
                   outside>>

FinishSettles(r) ==
    /\ loop = Busy("finish", r, task[r].kind)
    /\ Settle(r, task[r].kind)
    /\ task' = [task EXCEPT ![r] = NoTask]
    /\ reserved' = reserved \ {<<r, task[r].kind>>}
    /\ loop' = Idle
    /\ UNCHANGED <<chat, status, projection, messages, expired, thread, phase, crashes,
                   executions, outside>>

-----------------------------------------------------------------------------
(* The dispatch pump: recover_pending_dispatches, one receipt at a time.   *)

Pumping(r, k) == phase \in {"draining", "serving"} /\ loop = Idle /\ receipts[r][k] = "pending"

\* An ended run: its projection is completed before the receipt is let go.
PumpProjects(r, k) ==
    /\ Pumping(r, k) /\ status[r] \in Ended
    /\ Project(r)
    /\ loop' = Busy("drop", r, k)
    /\ UNCHANGED <<chat, status, receipts, expired, task, thread, reserved, phase, crashes,
                   executions,
                   outside>>

PumpSkipsWaiting(r, k) ==
    /\ Pumping(r, k) /\ status[r] \in Waiting
    /\ loop' = Busy("drop", r, k)
    /\ UNCHANGED <<stored, expired, task, thread, reserved, phase, crashes, executions,
                   outside>>

\* The pump's own claim and settle of a receipt that has no work left.
PumpClaims(r, k) ==
    /\ loop = Busy("drop", r, k)
    /\ Claim(r, k)
    /\ loop' = IF Claimable(r, k) THEN Busy("settle", r, k) ELSE Idle
    /\ UNCHANGED <<chat, status, projection, messages, expired, task, thread, reserved,
                   phase, crashes,
                   executions, outside>>

PumpSettles(r, k) ==
    /\ loop = Busy("settle", r, k)
    /\ Settle(r, k)
    /\ loop' = Idle
    /\ UNCHANGED <<chat, status, projection, messages, expired, task, thread, reserved,
                   phase, crashes,
                   executions, outside>>

\* Work nobody has started: capacity is reserved, then the claim and the task.
PumpLaunches(r, k) ==
    /\ Pumping(r, k) /\ status[r] \in Driven /\ ~HasLiveTask(r) /\ HasRoom
    /\ reserved' = reserved \cup {<<r, k>>}
    /\ loop' = Busy("launch", r, k)
    /\ UNCHANGED <<stored, expired, task, thread, phase, crashes, executions, outside>>

-----------------------------------------------------------------------------
(* Request threads: the resume of an approval and the rejection of a plan. *)

ThreadStep(r, s, at) ==
    /\ SetStatus(r, s)
    /\ thread' = [thread EXCEPT ![r] = at]
    /\ UNCHANGED <<chat, receipts, projection, messages, expired, task, reserved, loop,
                   phase, crashes,
                   executions>>

\* claim_agent_run_for_resume.
ResumeClaims(r) ==
    /\ phase = "serving" /\ thread[r] = "idle"
    /\ status[r] = "waiting_approval" /\ r \notin expired
    /\ ThreadStep(r, "running", "claimed")
    /\ outside' = outside \cup {r}

\* The thread enters its task in _tasks, where a cancellation can find it.
ResumeRegisters(r) ==
    /\ thread[r] = "claimed"
    /\ ThreadStep(r, status[r], "driving") /\ UNCHANGED outside

ResumeEnds(r) ==
    /\ thread[r] = "driving" /\ UNCHANGED outside
    /\ \/ /\ status[r] = "running"
          /\ \/ ThreadStep(r, "completed", "projecting")
             \/ ThreadStep(r, "waiting_approval", "idle")
             \/ ThreadStep(r, "failed", "idle")
       \/ /\ status[r] # "running"       \* it lost to a cancellation
          /\ ThreadStep(r, status[r], "idle")

ResumeCancelled(r) ==
    /\ thread[r] = "cancelling"
    /\ ThreadStep(r, status[r], "idle") /\ UNCHANGED outside

\* reject_agent_run_plan: the transition, then the projection of its message.
RejectPlan(r) ==
    /\ phase = "serving" /\ thread[r] = "idle"
    /\ status[r] = "waiting_plan" /\ r \notin expired
    /\ ThreadStep(r, "rejected", "projecting")
    /\ outside' = outside \cup {r}

ThreadProjects(r) ==
    /\ thread[r] = "projecting"
    /\ Project(r)
    /\ thread' = [thread EXCEPT ![r] = "idle"]
    /\ UNCHANGED <<chat, status, receipts, expired, task, reserved, loop, phase, crashes,
                   executions,
                   outside>>

-----------------------------------------------------------------------------
(* The loss of the process and the next start.                             *)

Crash ==
    /\ crashes < MaxCrashes
    /\ crashes' = crashes + 1
    /\ phase' = "down"
    /\ receipts' = [r \in Runs |-> [k \in Kinds |->
                       IF receipts[r][k] = "started" THEN "orphaned" ELSE receipts[r][k]]]
    /\ task' = [r \in Runs |-> NoTask]
    /\ thread' = [r \in Runs |-> "idle"]
    /\ reserved' = {}
    /\ loop' = Idle
    /\ UNCHANGED <<chat, status, projection, messages, expired, executions, outside>>

\* reconcile_run_dispatches_for_startup
\* Variant: every started receipt is offered again, whatever its run was doing.
ResetEveryDispatch ==
    /\ phase = "down"
    /\ phase' = "orphans"
    /\ receipts' = [r \in Runs |-> [k \in Kinds |->
                       IF receipts[r][k] = "orphaned" THEN "pending" ELSE receipts[r][k]]]
    /\ UNCHANGED <<chat, status, projection, messages, expired, memory, crashes,
                   executions, outside>>

ReconcileDispatches ==
    /\ phase = "down"
    /\ phase' = "orphans"
    /\ receipts' = [r \in Runs |-> [k \in Kinds |->
                       IF receipts[r][k] = "orphaned" /\ status[r] \in Ended \cup Waiting
                       THEN "pending" ELSE receipts[r][k]]]
    /\ UNCHANGED <<chat, status, projection, messages, expired, memory, crashes,
                   executions, outside>>

\* reconcile_orphaned_agent_runs: a run with a pending receipt is left to the pump.
Unclaimed(r) == \E k \in Kinds : receipts[r][k] = "pending"
Orphans == {r \in Runs : status[r] \in Driven /\ ~Unclaimed(r)}
Overdue == {r \in expired : status[r] \in {"waiting_plan", "waiting_approval"} /\ ~Unclaimed(r)}

\* Variant: the failed run keeps its old started receipt.
ReconcileRunsOnly ==
    /\ phase = "orphans"
    /\ phase' = "draining"
    /\ status' = [r \in Runs |-> IF r \in Orphans THEN "failed"
                                 ELSE IF r \in Overdue THEN "cancelled" ELSE status[r]]
    /\ UNCHANGED receipts
    /\ expired' = expired \ Overdue
    /\ outside' = outside \cup Overdue
    /\ UNCHANGED <<chat, projection, messages, memory, crashes, executions>>

ReconcileOrphans ==
    /\ phase = "orphans"
    /\ phase' = "draining"
    /\ status' = [r \in Runs |-> IF r \in Orphans THEN "failed"
                                 ELSE IF r \in Overdue THEN "cancelled" ELSE status[r]]
    /\ receipts' = [r \in Runs |-> [k \in Kinds |->
                       IF r \in Orphans /\ receipts[r][k] = "orphaned"
                       THEN "pending" ELSE receipts[r][k]]]
    /\ expired' = expired \ Overdue
    /\ outside' = outside \cup Overdue
    /\ UNCHANGED <<chat, projection, messages, memory, crashes, executions>>

\* Variant: requests are served while the pump still makes its first pass.
ServeAtOnce ==
    /\ phase = "draining"
    /\ phase' = "serving"
    /\ UNCHANGED <<stored, expired, memory, crashes, executions, outside>>

\* The first pass of the pump ends before a request is served: it has passed over
\* every receipt, and left those it has no capacity for.
Serve ==
    /\ phase = "draining" /\ loop = Idle
    /\ \A r \in Runs, k \in Kinds :
          receipts[r][k] = "pending" => status[r] \in Driven /\ (HasLiveTask(r) \/ ~HasRoom)
    /\ phase' = "serving"
    /\ UNCHANGED <<stored, expired, memory, crashes, executions, outside>>

-----------------------------------------------------------------------------
AllEnded ==
    /\ \A r \in Runs : status[r] \in Ended \cup Waiting /\ ~HasLiveTask(r)
    /\ UNCHANGED vars

LoopStep(r) ==
    \/ TaskPlans(r) \/ TaskFails(r) \/ TaskCompletes(r) \/ TaskProjects(r) \/ TaskCancelled(r)
    \/ TaskPauses(r)
    \/ FinishProjects(r) \/ FinishSettles(r)
    \/ StartRefused(r) \/ PreviewProjects(r)
    \/ \E k \in Kinds : Launch(r, k)

PumpStep(r, k) ==
    \/ PumpProjects(r, k) \/ PumpSkipsWaiting(r, k) \/ PumpLaunches(r, k)
    \/ PumpClaims(r, k) \/ PumpSettles(r, k)

Request(r) ==
    \/ \E t \in Threads : StartRun(r, t)
    \/ AnswerInput(r) \/ AnswerThenApprove(r) \/ ApprovePlan(r) \/ ApprovePreview(r)
    \/ Cancel(r)

ThreadMove(r) ==
    \/ ResumeRegisters(r) \/ ResumeEnds(r) \/ ResumeCancelled(r) \/ ThreadProjects(r)

Startup == ReconcileDispatches \/ ReconcileOrphans \/ Serve

Next ==
    \/ \E r \in Runs : \/ Request(r) \/ Expire(r) \/ LoopStep(r)
                       \/ ResumeClaims(r) \/ RejectPlan(r) \/ ThreadMove(r)
                       \/ \E k \in Kinds : PumpStep(r, k)
    \/ Crash \/ Startup
    \/ AllEnded

\* The loop and the threads keep running, model calls end or time out, the pump
\* wakes every half second and a lost process is started again.  Nobody has to
\* send a request.
Spec ==
    /\ Init /\ [][Next]_vars
    /\ \A r \in Runs : WF_vars(LoopStep(r)) /\ WF_vars(ThreadMove(r))
    /\ \A r \in Runs, k \in Kinds : WF_vars(PumpStep(r, k))
    /\ WF_vars(Startup)

-----------------------------------------------------------------------------
\* The work behind a receipt is launched at most once, however often the receipt
\* is claimed, handed to the pump or met again after a restart: a Standard
\* dispatch that had been started fails closed.
ExecutedOnce == \A r \in Runs, k \in Kinds : executions[r][k] =< 1

\* Whoever takes a run over, a new task or the thread of an approval, finds nobody
\* else working on it.
DriverAlone ==
    [][\A r \in Runs :
          \/ executions'[r] # executions[r]
          \/ thread[r] = "idle" /\ thread'[r] = "claimed"
          => task[r].at # "working" /\ thread[r] = "idle"]_vars

\* A chat thread has one active run at a time; a wait that made way is over.
OneActiveRun ==
    \A q, r \in Runs :
        q # r /\ chat[q] = chat[r] => ~(status[q] \in Active /\ status[r] \in Active)

\* The projection says how the run ended, and stays true; an answer or a rejection
\* reaches the thread exactly once, whoever of task, callback, pump and request
\* thread projects it first and wherever the process is lost in between.
ProjectionTrue ==
    \A r \in Runs :
        /\ projection[r] # "none" => projection[r] = status[r]
        /\ messages[r] = IF projection[r] \in {"completed", "rejected"} THEN 1 ELSE 0

\* An ending reached under a dispatch stays recoverable: until it is projected a
\* receipt is open from which the pump will complete it.
EndingRecoverable ==
    \A r \in Runs \ outside :
        status[r] \in Ended /\ projection[r] = "none"
            => \E k \in Kinds : IsOpen(receipts[r][k])

\* A pending receipt is always taken up in the end: no handler that stopped half
\* way, no full capacity and no lost process strands it.
PendingServed ==
    \A r \in Runs, k \in Kinds : receipts[r][k] = "pending" ~> receipts[r][k] # "pending"

\* An ending reached under a dispatch is projected in the end.
EndingDelivered ==
    \A r \in Runs : status[r] \in Ended /\ r \notin outside
                        ~> projection[r] # "none" \/ r \in outside
-----------------------------------------------------------------------------
\* What whoever asked for a run sees of its status.
Stages == [r \in Runs |-> CASE status[r] \in Waiting -> "waiting"
                            [] status[r] \in Driven -> "driven"
                            [] OTHER -> status[r]]
Promise == INSTANCE DeliveryPromise WITH
    Works <- Kinds, Execution <- "approved", stage <- Stages, begun <- executions, told <- projection, said <- messages

\* However planner, tasks, callbacks, pump, request threads, lost processes and starts
\* come between one another's transactions, a run is what DeliveryPromise says: it ends
\* once, its work begins once and not after the end, a run completes only by work that
\* was begun or, planned first, as a preview of which nothing was executed, and its
\* ending is told once and as it is (claim_run_dispatch, approve_agent_run_plan,
\* project_terminal_run_output, reconcile_orphaned_agent_runs).
KeepsDelivery == Promise!Spec
=============================================================================
