------------------------- MODULE SkillPlanExecution -------------------------
(***************************************************************************)
(* Execution of one approved Skill plan: the executor task the dispatch    *)
(* pump starts (agentmesh/skill_runtime/executor.py, finalization.py and   *)
(* _execute_approved_skill_plan), the approval requests that resume it     *)
(* (_resume_skill_plan_node and routes/inbox.py), cancellation, expiry,    *)
(* quiescing, crash and start-up.                                          *)
(*                                                                         *)
(* The actors share nothing but the store: each action below is one store  *)
(* transaction, or one step between two of them, of one actor.  A resume   *)
(* that wins goes on as the plan's executor.                               *)
(***************************************************************************)
EXTENDS SkillPlanStore

CONSTANTS
    Executor,       \* the background task of the dispatch receipt
    Resumers,       \* resolve-tool-approval requests
    BatchLimit,     \* nodes run at once (3 in the code)
    RequiredNodes,  \* nodes with required = True
    ContractNodes,  \* nodes whose outputs the plan's output contract asks for
    MayFail,        \* set-up of a resume may fail (MCP server, changed Skill or grant)
    MayLoseModel,   \* the model may be unconfigured when execution starts or goes on
    MayTimeOut,     \* the run deadline may pass while nodes or synthesis run
    MayCrash,       \* bound: the process may stop once
    MayQuiesce,     \* the admission latch may close
    MayCancel       \* the user may cancel, an approval may expire

Actors == {Executor} \cup Resumers

ASSUME ActorsDistinct == Executor \notin Resumers
ASSUME BatchLimitPositive == BatchLimit \in Nat \ {0}
ASSUME NodeRoles == RequiredNodes \subseteq Nodes /\ ContractNodes \subseteq Nodes
ASSUME Switches == {MayFail, MayLoseModel, MayTimeOut, MayCrash, MayQuiesce, MayCancel} \subseteq BOOLEAN

VARIABLES
    pc,         \* where each actor is
    batch,      \* nodes of the current batch still to mark, run or settle
    out,        \* outcome of each node of the batch
    att,        \* attempt each node of the batch was claimed at
    pauses,     \* nodes of the batch that asked for approval
    row,        \* each actor's copy of plan and run, as it last read them
    item,       \* each request's copy of the inbox item
    call,       \* the call id each request decides
    approve,    \* its decision
    won,        \* resume_claimed
    ask,        \* interruptions an actor is about to persist or report
    asked,      \* call ids raised so far (fresh ids are never reused)
    quiescing,  \* the orchestration admission latch
    life        \* of the process: it stops at most once

work == <<batch, out, att, pauses>>
request == <<item, call, approve, won>>
process == <<quiescing, life>>
vars == <<store, pc, work, row, request, ask, asked, process>>

Outcome == {"idle", "queued", "running", "completed", "no_result", "transient",
            "error", "pause", "conflict"}

Label == {"idle", "done",
          "begin", "loop", "marking", "batch", "settle", "pause",
          "synthesis", "finish", "sealed", "cancel_read", "cancel_write",
          "fail_run_read", "fail_run_write", "fail_node_read", "fail_node_write",
          "resuming", "revoked", "revoked_fail", "setup", "stream", "tool", "tool_over", "complete",
          "converge", "route_paused", "route_done", "route_error"}

ActorTypeOK ==
    /\ pc \in [Actors -> Label]
    /\ batch \in [Actors -> SUBSET Nodes]
    /\ out \in [Actors -> [Nodes -> Outcome]]
    /\ att \in [Actors -> [Nodes -> 0..MaxAttempt]]
    /\ pauses \in [Actors -> SUBSET Nodes]
    /\ row \in [Actors -> RowType]
    /\ item \in [Resumers -> [status : {"none", "open", "resolved"}, calls : SUBSET Calls]]
    /\ call \in [Resumers -> Calls]
    /\ approve \in [Resumers -> BOOLEAN]
    /\ won \in [Resumers -> BOOLEAN]
    /\ ask \in [Actors -> SUBSET Calls]
    /\ asked \subseteq Calls
    /\ quiescing \in BOOLEAN
    /\ life \in {"up", "down", "restarted"}

TypeOK == StoreTypeOK /\ ActorTypeOK

NoOutcome == [n \in Nodes |-> "idle"]
NoAttempt == [n \in Nodes |-> 0]
NoItem == [status |-> "none", calls |-> {}]
NoRow == [run |-> "running", plan |-> "approved", node |-> [n \in Nodes |-> "pending"],
          attempt |-> NoAttempt, nerr |-> [n \in Nodes |-> "none"],
          paused |-> NoPause]

Init ==
    /\ StoreInit
    /\ pc = [a \in Actors |-> "idle"]
    /\ batch = [a \in Actors |-> {}]
    /\ out = [a \in Actors |-> NoOutcome]
    /\ att = [a \in Actors |-> NoAttempt]
    /\ pauses = [a \in Actors |-> {}]
    /\ row = [a \in Actors |-> NoRow]
    /\ item = [r \in Resumers |-> NoItem]
    /\ call = [r \in Resumers |-> <<1, 1>>]
    /\ approve = [r \in Resumers |-> FALSE]
    /\ won = [r \in Resumers |-> FALSE]
    /\ ask = [a \in Actors |-> {}]
    /\ asked = {}
    /\ quiescing = FALSE
    /\ life = "up"

-----------------------------------------------------------------------------
(* Helpers.                                                                *)

Go(a, label) == pc' = [pc EXCEPT ![a] = label]
\* A caller's copy of plan and run lasts from its read to its write.
Read(a) == row' = [row EXCEPT ![a] = Row]
Forget(a) == row' = [row EXCEPT ![a] = NoRow]

\* The executor returns: the task ends, or the request has its answer.
Over(a) == Go(a, IF a = Executor THEN "done" ELSE "route_done")

\* An exception leaves the executor: the task ends, or the route handles it.
Raised(a) == Go(a, IF a = Executor THEN "done" ELSE "route_error")

\* A node transition that lost its compare-and-set: CancelledError when the run
\* was cancelled, RuntimeError otherwise.
TransitionConflict(a) == Go(a, IF run = "cancelled" THEN "done" ELSE "fail_run_read")

Unasked(n) == {c \in Calls : c[1] = n} \ asked
FreshCalls(n) == (SUBSET Unasked(n)) \ {{}}

SkippableIfOptional(n) ==
    node[n] = "pending" /\ n \notin RequiredNodes /\ \E d \in Deps[n] : node[d] \in {"failed", "skipped"}
Skippable(n) == node[n] = "pending" /\ \E d \in Deps[n] : node[d] \in {"failed", "skipped"}
RunnableOnAny(n) == node[n] = "pending" /\ (Deps[n] = {} \/ \E d \in Deps[n] : node[d] = "completed")
Runnable(n) == node[n] = "pending" /\ \A d \in Deps[n] : node[d] = "completed"
NodesIn(status) == {n \in Nodes : node[n] = status}
AllTerminal == \A n \in Nodes : node[n] \in TerminalNode

\* In plan order: n is the first node of S, and the first BatchLimit nodes of S.
IsFirst(n, S) == n \in S /\ \A m \in S : n =< m
FirstOf(S) == {n \in S : Cardinality({m \in S : m < n}) < BatchLimit}

-----------------------------------------------------------------------------
(* The executor starts.                                                    *)

\* recover_pending_dispatches or start_approved_skill_plan.
StartDispatch ==
    /\ pc[Executor] = "idle" /\ life # "down" /\ ~quiescing
    /\ run = "running" /\ plan = "approved"
    /\ ClaimDispatch
    /\ Go(Executor, "begin")
    /\ UNCHANGED <<work, row, request, ask, asked, process>>

\* The plan is claimed inside the admission permit.
BeginExecution ==
    /\ pc[Executor] = "begin"
    /\ \/ ~quiescing /\ ClaimPlan /\ Go(Executor, "loop")
       \/ ~quiescing /\ ~(run = "running" /\ plan = "approved")
          /\ Go(Executor, "done") /\ UNCHANGED store
       \/ quiescing /\ Go(Executor, "fail_run_read") /\ UNCHANGED store
    /\ UNCHANGED <<work, row, request, ask, asked, process>>

\* A resume that completed (or gave up) its node continues the running plan.
ContinueExecution(r) ==
    /\ pc[r] = "begin"
    /\ Go(r, IF Active THEN "loop" ELSE "route_error")
    /\ pauses' = [pauses EXCEPT ![r] = {}]
    /\ UNCHANGED <<store, batch, out, att, row, request, ask, asked, process>>

\* No model is configured any more.  The plan is failed only if it is still
\* approved, which it is not for a resume.
ModelMissing(a) ==
    /\ pc[a] = "begin" /\ MayLoseModel
    /\ IF run = "running" /\ plan = "approved"
         THEN Finish(Row, "failed", node, nerr, paused)
         ELSE UNCHANGED store
    /\ Raised(a)
    /\ UNCHANGED <<work, row, request, ask, asked, process>>

-----------------------------------------------------------------------------
(* One turn of the scheduling loop.                                        *)

LoopStops(a) ==
    /\ pc[a] = "loop" /\ ~Active
    /\ TransitionConflict(a)
    /\ UNCHANGED <<store, work, row, request, ask, asked, process>>

SkipNode(a) ==
    /\ pc[a] = "loop"
    /\ \E n \in Nodes : /\ Skippable(n)
                        /\ Transition(n, "pending", attempt[n], "skipped", "other", attempt[n])
    /\ UNCHANGED <<paused, pc, work, row, request, ask, asked, process>>

NothingSkippable == \A n \in Nodes : ~Skippable(n)

\* Nodes left READY come first and are run as they are; otherwise pending nodes
\* whose dependencies are completed are marked READY, one by one.
ChooseBatch(a) ==
    /\ pc[a] = "loop" /\ Active /\ NothingSkippable
    /\ \/ /\ NodesIn("ready") # {}
          /\ batch' = [batch EXCEPT ![a] = FirstOf(NodesIn("ready"))]
          /\ out' = [out EXCEPT ![a] = [n \in Nodes |-> IF n \in batch'[a] THEN "queued" ELSE "idle"]]
          /\ Go(a, "batch")
       \/ /\ NodesIn("ready") = {}
          /\ {n \in Nodes : Runnable(n)} # {}
          /\ batch' = [batch EXCEPT ![a] = FirstOf({n \in Nodes : Runnable(n)})]
          /\ out' = [out EXCEPT ![a] = NoOutcome]
          /\ Go(a, "marking")
    /\ UNCHANGED <<store, att, pauses, row, request, ask, asked, process>>

MarkReady(a) ==
    /\ pc[a] = "marking"
    /\ \E n \in Nodes : LET unmarked == {m \in batch[a] : out[a][m] = "idle"} IN
        /\ IsFirst(n, unmarked)
        /\ \/ /\ Transition(n, "pending", attempt[n], "ready", nerr[n], attempt[n])
              /\ UNCHANGED paused
              /\ out' = [out EXCEPT ![a][n] = "queued"]
              /\ Go(a, IF unmarked = {n} THEN "batch" ELSE "marking")
           \/ /\ ~CanTransition(n, "pending", attempt[n])
              /\ TransitionConflict(a)
              /\ UNCHANGED <<store, out>>
    /\ UNCHANGED <<batch, att, pauses, row, request, ask, asked, process>>

\* (The errors dag_has_no_runnable_node and dag_has_nonterminal_node have no
\* action: SchedulerNeverStuck shows that they are never raised.)
LoopEnds(a) ==
    /\ pc[a] = "loop" /\ Active /\ AllTerminal
    /\ Go(a, "synthesis")
    /\ UNCHANGED <<store, work, row, request, ask, asked, process>>

-----------------------------------------------------------------------------
(* The batch: one task per node under a task group.                        *)

ClaimBatchNode(a) ==
    /\ pc[a] = "batch" /\ ~quiescing
    /\ \E n \in Nodes :
        /\ out[a][n] = "queued"
        /\ \/ /\ ClaimNode(n)
              /\ out' = [out EXCEPT ![a][n] = "running"]
              /\ att' = [att EXCEPT ![a][n] = attempt[n] + 1]
           \/ /\ ~CanClaimNode(n)
              /\ out' = [out EXCEPT ![a][n] = "conflict"]
              /\ UNCHANGED <<store, att>>
    /\ UNCHANGED <<pc, batch, pauses, row, request, ask, asked, process>>

\* A refused permit cancels the whole group, whatever its nodes were doing.
QuiesceStopsBatch(a) ==
    /\ pc[a] = "batch" /\ quiescing
    /\ \E n \in Nodes : out[a][n] = "queued"
    /\ Go(a, "fail_run_read")
    /\ UNCHANGED <<store, work, row, request, ask, asked, process>>

\* needs_approval: the call is neither routine nor decided yet.
MayAsk(n) == n \in AskNodes /\ Unasked(n) # {}

\* The node's agent answers, fails, or asks for a tool that needs approval.
NodeOutcome(a) ==
    /\ pc[a] = "batch"
    /\ \E n \in Nodes :
        /\ out[a][n] = "running"
        /\ \E o \in {"completed", "no_result", "error", "transient", "pause"} :
            /\ o = "pause" => MayAsk(n)
            /\ out' = [out EXCEPT ![a][n] = o]
    /\ UNCHANGED <<store, pc, batch, att, pauses, row, request, ask, asked, process>>

JoinBatch(a) ==
    /\ pc[a] = "batch"
    /\ \A n \in Nodes : out[a][n] \notin {"queued", "running"}
    /\ Go(a, "settle")
    /\ UNCHANGED <<store, work, row, request, ask, asked, process>>

-----------------------------------------------------------------------------
(* Settling the batch, in plan order.                                      *)

\* Read and draft nodes get a second attempt after a transient error.
Retried(a, n) == out[a][n] = "transient" /\ n \notin WriteNodes /\ att[a][n] < MaxAttempt

NodeError(n) == IF n \in WriteNodes /\ HasUnknownWrite(n)
                THEN "external_outcome_unknown" ELSE "other"

SettleNode(a) ==
    /\ pc[a] = "settle" /\ batch[a] # {}
    /\ \E n \in Nodes : LET o == out[a][n]
                           t == att[a][n] IN
        /\ IsFirst(n, batch[a])
        /\ \/ \* node_claim_conflict is raised, later outcomes are lost
              /\ o = "conflict"
              /\ Go(a, "fail_run_read")
              /\ UNCHANGED <<store, batch, pauses>>
           \/ /\ o = "pause"
              /\ pauses' = [pauses EXCEPT ![a] = @ \cup {n}]
              /\ batch' = [batch EXCEPT ![a] = @ \ {n}]
              /\ UNCHANGED <<store, pc>>
           \/ /\ o = "completed"
              /\ Complete(n, t)
              /\ batch' = [batch EXCEPT ![a] = @ \ {n}]
              /\ UNCHANGED <<paused, pc, pauses>>
           \/ /\ o \in {"no_result", "error", "transient"}
              /\ Transition(n, "running", t, IF Retried(a, n) THEN "pending" ELSE "failed",
                            IF o = "no_result" THEN "other" ELSE NodeError(n), t)
              /\ batch' = [batch EXCEPT ![a] = @ \ {n}]
              /\ UNCHANGED <<paused, pc, pauses>>
           \/ /\ \/ o = "completed" /\ ~CanComplete(n, t)
                 \/ o \in {"no_result", "error", "transient"} /\ ~CanTransition(n, "running", t)
              /\ TransitionConflict(a)
              /\ UNCHANGED <<store, batch, pauses>>
    /\ UNCHANGED <<out, att, row, request, ask, asked, process>>

\* Only one node may wait for the user: the others that asked are put back, and
\* the attempt they used is given back.
RescheduleExtra(a) ==
    /\ pc[a] = "settle" /\ batch[a] = {}
    /\ \E n, kept \in Nodes :
        /\ IsFirst(kept, pauses[a]) /\ IsFirst(n, pauses[a] \ {kept})
        /\ \/ /\ Transition(n, "running", att[a][n], "pending", "none", att[a][n] - 1)
              /\ pauses' = [pauses EXCEPT ![a] = @ \ {n}]
              /\ UNCHANGED <<paused, pc>>
           \/ /\ ~CanTransition(n, "running", att[a][n])
              /\ TransitionConflict(a)
              /\ UNCHANGED <<store, pauses>>
    /\ UNCHANGED <<batch, out, att, row, request, ask, asked, process>>

SettleEnds(a) ==
    /\ pc[a] = "settle" /\ batch[a] = {}
    /\ \/ /\ pauses[a] = {}
          /\ Go(a, "loop")
          /\ UNCHANGED ask
       \/ \E n \in Nodes :
            /\ pauses[a] = {n}
            /\ \E cs \in FreshCalls(n) : ask' = [ask EXCEPT ![a] = cs]
            /\ Go(a, "pause")
    /\ out' = [out EXCEPT ![a] = NoOutcome]
    /\ UNCHANGED <<store, batch, att, pauses, row, request, asked, process>>

\* _persist_skill_plan_pause, for a new pause and for one that goes on.
PersistPause(a) ==
    /\ pc[a] = "pause"
    /\ \E n \in pauses[a] :
        \/ /\ PauseNodeAndRun(n, att[a][n], ask[a])
           /\ asked' = asked \cup ask[a]
           /\ Go(a, IF a = Executor THEN "done" ELSE "route_paused")
        \/ /\ ~CanPause(n, att[a][n])
           /\ Go(a, "fail_node_read")
           /\ UNCHANGED <<store, asked>>
    /\ UNCHANGED <<work, row, request, ask, process>>

-----------------------------------------------------------------------------
(* Finalization (StandardPlanFinalizer).                                   *)

Completed == {n \in Nodes : \E t \in 1..MaxAttempt : <<n, t>> \in result}
Usable == IF Universal THEN result # {}
          ELSE RequiredNodes \cap Completed # {} /\ ContractNodes \subseteq Completed

Degraded(r) == \E n \in Nodes : r.node[n] \in {"failed", "skipped"}

\* The plan is loaded once more and either ends here or is handed to synthesis.
BeginSynthesis(a) ==
    /\ pc[a] = "synthesis"
    /\ \/ /\ Active /\ AllTerminal /\ Usable
          /\ Read(a)
          /\ Go(a, "finish")
          /\ UNCHANGED store
       \/ /\ Active /\ AllTerminal /\ ~Usable
          /\ Finish(Row, "failed", node, nerr, paused)
          /\ Over(a)
          /\ UNCHANGED row
       \/ /\ ~(Active /\ AllTerminal)
          /\ Go(a, "fail_run_read")
          /\ UNCHANGED <<store, row>>
    /\ UNCHANGED <<work, request, ask, asked, process>>

\* Synthesis has answered.  Of a universal plan the answer is sealed first, in a
\* transaction of its own: a crash in between leaves it to the start-up.
SealSynthesis(a) ==
    /\ pc[a] = "finish" /\ Universal
    /\ SealArtifact
    /\ Go(a, "sealed")
    /\ UNCHANGED <<work, row, request, ask, asked, process>>

\* A universal plan is judged by what it owes; otherwise a fallback answer or a
\* gap found by the completion check degrades the outcome.
UniversalComplete(r) ==
    /\ NothingMissing
    /\ RequiredNodes # {} /\ \A n \in RequiredNodes : r.node[n] = "completed"

Endings(r) ==
    IF Universal /\ ~UniversalComplete(r)
      THEN {IF PartialDelivery THEN "partial" ELSE "failed"}
      ELSE {"partial"} \cup (IF Degraded(r) THEN {} ELSE {"completed"})

FinishPlan(a) ==
    /\ pc[a] = IF Universal THEN "sealed" ELSE "finish"
    /\ \/ /\ Active
          /\ \E end \in Endings(row[a]) :
                Finish(row[a], end, row[a].node, row[a].nerr, NoPause)
          /\ Over(a)
       \/ /\ ~Active
          /\ Go(a, "fail_run_read")
          /\ UNCHANGED store
    /\ Forget(a)
    /\ UNCHANGED <<work, request, ask, asked, process>>

SynthesisFails(a) ==
    /\ pc[a] = "finish"
    /\ Go(a, "fail_run_read")
    /\ Forget(a)
    /\ UNCHANGED <<store, work, request, ask, asked, process>>
-----------------------------------------------------------------------------
(* Endings other than success.                                             *)

\* The run deadline cancels the executor's task at an await.
RunTimeout(a) ==
    /\ MayTimeOut
    /\ \/ pc[a] = "batch" /\ \E n \in Nodes : out[a][n] = "running"
       \/ pc[a] = "finish"
    /\ Go(a, "cancel_read")
    /\ Forget(a)
    /\ UNCHANGED <<store, work, request, ask, asked, process>>

\* The CancelledError handler of BoundedDAGExecutor.run.
ReadCancelled(a) ==
    /\ pc[a] = "cancel_read"
    /\ \/ run # "running" /\ Go(a, "fail_run_read") /\ UNCHANGED row
       \/ run = "running" /\ Read(a) /\ Go(a, "cancel_write")
    /\ UNCHANGED <<store, work, request, ask, asked, process>>

CancelExecution(a) ==
    /\ pc[a] = "cancel_write"
    /\ LET running == {n \in Nodes : row[a].node[n] = "running"}
           unknown == running \cap WriteNodes \cap UnknownNodes
           to == [n \in Nodes |->
                    IF row[a].node[n] \in TerminalNode THEN row[a].node[n]
                    ELSE IF n \in unknown THEN "failed" ELSE "cancelled"]
           err == [n \in Nodes |->
                     IF n \in unknown THEN "external_outcome_unknown"
                     ELSE IF n \in running THEN "none" ELSE row[a].nerr[n]]
       IN  \/ /\ Active
              /\ \E end \in (IF Universal \/ unknown # {} THEN EarlyEnd ELSE {"cancelled"}) :
                    Finish(row[a], end, to, err, row[a].paused)
           \/ ~Active /\ UNCHANGED store
    /\ Go(a, "fail_run_read")
    /\ Forget(a)
    /\ UNCHANGED <<work, request, ask, asked, process>>

\* The last handler of _execute_approved_skill_plan: the nodes stay as they are.
ReadFailure(a) ==
    /\ pc[a] = "fail_run_read"
    /\ \/ run \in TerminalRun /\ Raised(a) /\ UNCHANGED row
       \/ run \notin TerminalRun /\ Read(a) /\ Go(a, "fail_run_write")
    /\ UNCHANGED <<store, work, request, ask, asked, process>>

FailRun(a) ==
    /\ pc[a] = "fail_run_write"
    /\ IF run = "running" /\ plan \in {"approved", "running"}
         THEN \E end \in EarlyEnd :
                Finish(row[a], end, row[a].node, row[a].nerr, row[a].paused)
         ELSE UNCHANGED store
    /\ Raised(a)
    /\ Forget(a)
    /\ UNCHANGED <<work, request, ask, asked, process>>

\* _fail_active_skill_plan ...
ReadWaitingFailure(a) ==
    /\ pc[a] = "fail_node_read"
    /\ IF plan = "running" /\ run = "waiting_approval"
         THEN Read(a) /\ Go(a, "fail_node_write")
         ELSE Raised(a) /\ UNCHANGED row
    /\ UNCHANGED <<store, work, request, ask, asked, process>>

ReadNodeFailure(a) ==
    /\ pc[a] = "fail_node_read"
    /\ IF plan = "running" /\ run \in {"running", "waiting_approval"}
         THEN Read(a) /\ Go(a, "fail_node_write")
         ELSE Raised(a) /\ UNCHANGED row
    /\ UNCHANGED <<store, work, request, ask, asked, process>>

\* ... and _fail_waiting_skill_plan: the run is compared with the caller's copy.
FailNode(a) ==
    /\ pc[a] = "fail_node_write"
    /\ \E failed \in pauses[a] :
       LET to == [n \in Nodes |-> IF n = failed THEN "failed"
                                  ELSE IF row[a].node[n] \in TerminalNode THEN row[a].node[n]
                                  ELSE "cancelled"]
       IN  IF plan = "running" /\ run = row[a].run
             THEN Finish(row[a], "failed", to, [row[a].nerr EXCEPT ![failed] = "other"], NoPause)
             ELSE UNCHANGED store
    /\ Raised(a)
    /\ Forget(a)
    /\ UNCHANGED <<work, request, ask, asked, process>>

-----------------------------------------------------------------------------
(* A resolve-tool-approval request: routes/inbox.py around                 *)
(* _resume_skill_plan_node.                                                *)

\* The route reads the inbox item and keeps it until its last write.
RouteRead(r) ==
    /\ pc[r] = "idle" /\ life # "down"
    /\ inbox.status = "open"
    /\ item' = [item EXCEPT ![r] = inbox]
    /\ \E c \in inbox.calls : call' = [call EXCEPT ![r] = c]
    /\ \E yes \in BOOLEAN : approve' = [approve EXCEPT ![r] = yes]
    /\ Go(r, "resuming")
    /\ UNCHANGED <<store, work, row, won, ask, asked, process>>

\* Run and plan are read; the paused node is the one of this copy from here on.
\* A Skill, grant or model that has changed fails the waiting plan at once, a
\* revoked grant of an optional node only that node.
ResumeBegin(r) ==
    /\ pc[r] = "resuming"
    /\ IF /\ run = "waiting_approval" /\ paused # NoPause
          /\ plan = "running" /\ node[paused.node] = "waiting_tool_approval"
         THEN /\ Read(r)
              /\ pauses' = [pauses EXCEPT ![r] = {paused.node}]
              /\ att' = [att EXCEPT ![r] = attempt]
              /\ \/ Go(r, "setup")
                 \/ MayFail /\ paused.node \notin RequiredNodes /\ Go(r, "revoked")
                 \/ MayFail /\ Go(r, "fail_node_write")
         ELSE Go(r, "route_error") /\ UNCHANGED <<row, pauses, att>>
    /\ UNCHANGED <<store, batch, out, request, ask, asked, process>>

Claimed(r) ==
    /\ ClaimRunForResume(call[r])
    /\ won' = [won EXCEPT ![r] = TRUE]

\* The set-up (MCP servers, agent, SDK state) ends in the claim.
ResumeClaim(r) ==
    /\ pc[r] = "setup"
    /\ \/ /\ call[r] \in row[r].paused.calls /\ ~quiescing
          /\ Claimed(r)
          /\ ask' = [ask EXCEPT ![r] = row[r].paused.calls \ {call[r]}]
          /\ Go(r, "stream")
       \/ /\ \/ call[r] \notin row[r].paused.calls
             \/ ~quiescing /\ ~CanResume(call[r])
          /\ Go(r, "route_error")
          /\ UNCHANGED <<store, won, ask>>
       \/ /\ MayFail \/ (quiescing /\ call[r] \in row[r].paused.calls)
          /\ Go(r, "fail_node_read")
          /\ UNCHANGED <<store, won, ask>>
    /\ Forget(r)
    /\ UNCHANGED <<work, item, call, approve, asked, process>>

\* _continue_after_optional_grant_revocation: claim, then fail the node.
ClaimRevoked(r) ==
    /\ pc[r] = "revoked"
    /\ \/ ~quiescing /\ Claimed(r) /\ Go(r, "revoked_fail")
       \/ /\ IF quiescing THEN Go(r, "done") ELSE ~CanResume(call[r]) /\ Go(r, "route_error")
          /\ UNCHANGED <<store, won>>
    /\ Forget(r)
    /\ UNCHANGED <<work, item, call, approve, ask, asked, process>>

FailRevokedNode(r) ==
    /\ pc[r] = "revoked_fail"
    /\ \E n \in pauses[r] :
        \/ /\ Transition(n, "running", att[r][n], "failed", "other", att[r][n])
           /\ paused' = NoPause
           /\ Go(r, "begin")
        \/ /\ ~CanTransition(n, "running", att[r][n])
           /\ Go(r, "converge")
           /\ UNCHANGED store
    /\ UNCHANGED <<work, row, request, ask, asked, process>>

\* The resumed agent runs.  An approved call goes to the tool once, through its
\* claim; a refused claim, like any other error, fails the node.
RunRegardless(r) ==
    /\ pc[r] = "stream"
    /\ ~quiescing
    /\ ClaimToolCall(call[r])
    /\ Go(r, "tool")
    /\ UNCHANGED <<work, row, request, ask, asked, process>>

RunResumed(r) ==
    /\ pc[r] = "stream"
    /\ \/ /\ approve[r] /\ ~quiescing
          /\ ClaimToolCall(call[r])
          /\ Go(r, "tool")
       \/ /\ ~approve[r]
          /\ Go(r, "tool_over")
          /\ UNCHANGED store
       \/ /\ Go(r, "fail_node_read")
          /\ UNCHANGED store
    /\ UNCHANGED <<work, row, request, ask, asked, process>>

\* A tool that times out is an answer to the agent; one that is cancelled is not.
ToolAnswers(r) ==
    /\ pc[r] = "tool"
    /\ \/ FinishToolCall(call[r], "settled") /\ Go(r, "tool_over")
       \/ FinishToolCall(call[r], Lost(call[r])) /\ Go(r, "tool_over")
       \/ FinishToolCall(call[r], Lost(call[r])) /\ Go(r, "fail_node_read")
    /\ UNCHANGED <<work, row, request, ask, asked, process>>

\* Undecided calls keep the node waiting; otherwise the agent answers, asks
\* again or fails.
ResumedOutcome(r) ==
    /\ pc[r] = "tool_over"
    /\ \E n \in pauses[r] :
        \/ ask[r] # {} /\ Go(r, "pause") /\ UNCHANGED ask
        \/ ask[r] = {} /\ Go(r, "complete") /\ UNCHANGED ask
        \/ /\ ask[r] = {}
           /\ \E cs \in FreshCalls(n) : ask' = [ask EXCEPT ![r] = cs]
           /\ Go(r, "pause")
        \/ Go(r, "fail_node_read") /\ UNCHANGED ask
    /\ UNCHANGED <<store, work, row, request, asked, process>>

CompleteResumedNode(r) ==
    /\ pc[r] = "complete"
    /\ \E n \in pauses[r] :
        \/ Complete(n, att[r][n]) /\ paused' = NoPause /\ Go(r, "begin")
        \/ ~CanComplete(n, att[r][n]) /\ Go(r, "converge") /\ UNCHANGED store
    /\ UNCHANGED <<work, row, request, ask, asked, process>>

\* _converge_claimed_node_transition_conflict.
Converge(r) ==
    /\ pc[r] = "converge"
    /\ \E n \in pauses[r] :
        IF Active /\ node[n] = "running" /\ attempt[n] = att[r][n]
          THEN Read(r) /\ Go(r, "fail_node_write")
          ELSE Go(r, "route_error") /\ UNCHANGED row
    /\ UNCHANGED <<store, work, request, ask, asked, process>>

\* The request is over; which call it decided and how is kept for the properties.
Answered(r) ==
    /\ Go(r, "done")
    /\ item' = [item EXCEPT ![r] = NoItem]
    /\ att' = [att EXCEPT ![r] = NoAttempt]
    /\ pauses' = [pauses EXCEPT ![r] = {}]
    /\ ask' = [ask EXCEPT ![r] = {}]
    /\ UNCHANGED <<batch, out, row, call, approve, won, asked, process>>

SaveInbox(saved) ==
    /\ inbox' = saved
    /\ UNCHANGED <<run, plan, node, attempt, nerr, results, paused, ledger, dispatch>>

\* The route answers: it writes back the item it read at the start.
RouteSavesPaused(r) ==
    /\ pc[r] = "route_paused"
    /\ SaveInbox([item[r] EXCEPT !.calls = ask[r]])
    /\ Answered(r)

RouteDone(r) ==
    /\ pc[r] = "route_done"
    /\ SaveInbox([item[r] EXCEPT !.status = "resolved"])
    /\ Answered(r)

\* The route's exception handlers, by the class of what was raised: a refused
\* permit changes nothing, a RuntimeError resolves the item read afresh, any
\* other exception writes back the item read at the start.
RouteError(r) ==
    /\ pc[r] = "route_error"
    /\ \/ quiescing /\ UNCHANGED store
       \/ run \notin TerminalRun /\ UNCHANGED store
       \/ run \in TerminalRun /\ ResolveOpenInbox
          /\ UNCHANGED <<run, plan, node, attempt, nerr, results, paused, ledger, dispatch>>
       \/ run \in TerminalRun /\ run # "failed" /\ UNCHANGED store
       \/ run = "failed" /\ SaveInbox([item[r] EXCEPT !.status = "resolved"])
    /\ Answered(r)

-----------------------------------------------------------------------------
(* The user, the clock and the process.                                    *)

Cancel ==
    /\ MayCancel /\ life # "down" /\ CancelTree
    /\ UNCHANGED <<pc, work, row, request, ask, asked, process>>

Expire ==
    /\ MayCancel /\ life # "down" /\ ExpireApproval
    /\ UNCHANGED <<pc, work, row, request, ask, asked, process>>

Quiesce ==
    /\ MayQuiesce /\ life # "down" /\ ~quiescing
    /\ quiescing' = TRUE
    /\ UNCHANGED <<store, pc, work, row, request, ask, asked, life>>

Crash ==
    /\ MayCrash /\ life = "up"
    /\ life' = "down"
    /\ quiescing' = FALSE
    /\ pc' = [a \in Actors |-> IF pc[a] = "idle" THEN "idle" ELSE "done"]
    /\ batch' = [a \in Actors |-> {}]
    /\ out' = [a \in Actors |-> NoOutcome]
    /\ att' = [a \in Actors |-> NoAttempt]
    /\ pauses' = [a \in Actors |-> {}]
    /\ row' = [a \in Actors |-> NoRow]
    /\ item' = [r \in Resumers |-> NoItem]
    /\ ask' = [a \in Actors |-> {}]
    /\ UNCHANGED <<store, call, approve, won, asked>>

Startup ==
    /\ life = "down"
    /\ Reconcile
    /\ life' = "restarted"
    /\ UNCHANGED <<pc, work, row, request, ask, asked, quiescing>>

\* scripts/quiesce_skill_orchestration.py --apply takes the writer lock, so no
\* process is up, and checks in its transaction that what the two approvers
\* signed is still what the inventory lists.
QuiesceOffline ==
    /\ MayQuiesce /\ life = "down" /\ dispatch # "settled"
    /\ QuiesceRun \/ QuiesceEndedRun
    /\ UNCHANGED <<pc, work, row, request, ask, asked, process>>

\* Everybody has finished.
Rest ==
    /\ life # "down"
    /\ \A a \in Actors : pc[a] \in {"idle", "done"}
    /\ UNCHANGED vars

-----------------------------------------------------------------------------
(* Scheduling, finalization and failure handling: the executor's task, and *)
(* a resume that has become the executor.                                  *)
ExecutionStep(a) ==
    \/ ModelMissing(a) \/ LoopStops(a) \/ SkipNode(a) \/ ChooseBatch(a) \/ MarkReady(a)
    \/ LoopEnds(a) \/ ClaimBatchNode(a) \/ QuiesceStopsBatch(a) \/ NodeOutcome(a) \/ JoinBatch(a)
    \/ SettleNode(a) \/ RescheduleExtra(a) \/ SettleEnds(a) \/ PersistPause(a)
    \/ BeginSynthesis(a) \/ SealSynthesis(a) \/ FinishPlan(a) \/ SynthesisFails(a)
    \/ ReadCancelled(a) \/ CancelExecution(a) \/ ReadFailure(a) \/ FailRun(a)
    \/ ReadNodeFailure(a) \/ FailNode(a)

ResumeStep(r) ==
    \/ ContinueExecution(r) \/ ResumeBegin(r) \/ ResumeClaim(r) \/ ClaimRevoked(r)
    \/ FailRevokedNode(r) \/ RunResumed(r) \/ ToolAnswers(r) \/ ResumedOutcome(r)
    \/ CompleteResumedNode(r) \/ Converge(r)
    \/ RouteSavesPaused(r) \/ RouteDone(r) \/ RouteError(r)

StartStep == StartDispatch \/ BeginExecution

Environment == Cancel \/ Expire \/ Quiesce \/ Crash \/ Startup \/ QuiesceOffline \/ Rest

Next ==
    \/ StartStep
    \/ \E a \in Actors : ExecutionStep(a) \/ RunTimeout(a)
    \/ \E r \in Resumers : RouteRead(r) \/ ResumeStep(r)
    \/ Environment

Spec == Init /\ [][Next]_vars

\* The pump polls for pending receipts, an actor's task is scheduled by its
\* event loop, every node, synthesis and tool call has a timeout, and a stopped
\* process is started again.  Nobody has to decide an approval.
Fairness ==
    /\ WF_vars(StartStep)
    /\ \A a \in Actors : WF_vars(ExecutionStep(a))
    /\ \A r \in Resumers : WF_vars(ResumeStep(r))
    /\ WF_vars(Startup)

FairSpec == Spec /\ Fairness
-----------------------------------------------------------------------------
(* Properties.                                                             *)

\* Once the run is terminal no late writer (an executor that was overtaken, a
\* losing resume, start-up reconciliation) changes the run, its plan, a terminal
\* node or the stored results.
TerminalAbsorbing ==
    [][/\ run \in TerminalRun => run' = run /\ plan' = plan
       /\ \A n \in Nodes : node[n] \in TerminalNode => node'[n] = node[n] /\ nerr'[n] = nerr[n]
       /\ run \in TerminalRun => result' = result]_vars

\* The run and its plan never disagree about how the work ended or whether it
\* goes on, whichever of the eight writers ended them.
PlanRunAgree == IF run \in TerminalRun THEN plan = run
                ELSE plan = "running" \/ (run = "running" /\ plan = "approved")

\* The pause is one fact in four tables: the run waits exactly when one node
\* waits, and then the stored SDK state is that node's.
WaitingConsistent ==
    IF run = "waiting_approval"
      THEN NodesIn("waiting_tool_approval") = {paused.node}
      ELSE run \in TerminalRun \/ NodesIn("waiting_tool_approval") = {}

\* A waiting run can be answered: its inbox item is open and lists every pending
\* call of the stored SDK state.
WaitingAnswerable ==
    run = "waiting_approval" => inbox.status = "open" /\ paused.calls \subseteq inbox.calls

\* A node starts only on the completed results of everything it depends on.
DependencyOrder ==
    \A n \in Nodes : node[n] \in {"ready", "running", "waiting_tool_approval", "completed"}
                       => Deps[n] \subseteq Completed

\* The scheduling loop always finds something to do until every node is terminal:
\* dag_has_no_runnable_node and dag_has_nonterminal_node are never raised, also
\* after a pause, a resume and a node that gave its attempt back.
SchedulerNeverStuck ==
    \A a \in Actors : pc[a] = "loop" /\ Active /\ ~AllTerminal
        => \E n \in Nodes : Skippable(n) \/ Runnable(n) \/ node[n] = "ready"

\* A node is completed exactly when its current attempt stored the one result.
CompletedBacked ==
    \A n \in Nodes : /\ node[n] = "completed" <=> <<n, attempt[n]>> \in result
                      /\ Cardinality({t \in 1..MaxAttempt : <<n, t>> \in result}) =< 1

\* No tool call reaches its provider without the user's approval of that call.
CallsWereApproved ==
    \A c \in Calls : ledger[c] # "none" =>
        \E r \in Resumers : call[r] = c /\ approve[r] /\ won[r]

\* The run is driven by one actor at a time.
Driving(a) == pc[a] \in {"loop", "marking", "batch", "settle", "pause", "synthesis", "finish",
                         "sealed", "stream", "tool", "tool_over", "complete", "revoked_fail"}
OneDriver == Active => Cardinality({a \in Actors : Driving(a)}) =< 1

\* A run is completed or partial only on a usable delivery, and completed only if
\* no node failed or was skipped.  Of a universal plan, by whichever writer it ends
\* and whatever is sealed later: completed means that nothing it owes is missing,
\* partial that something of it is delivered.
EndEarned ==
    /\ run \in {"completed", "partial"} => Usable
    /\ run = "completed" => \A n \in Nodes : node[n] = "completed"
    /\ Universal /\ run = "completed" => NothingMissing
    /\ Universal /\ run = "partial" => PartialDelivery \/ PartialEarly

\* A universal run that has a delivery is failed by nobody but an actor that
\* gives a paused node up (_fail_waiting_skill_plan, which does not look at the
\* delivery).
FailureEarned ==
    Universal /\ run # "failed" /\ run' = "failed" =>
        \/ ~(PartialDelivery /\ PartialEarly)
        \/ \E a \in Actors : pc[a] = "fail_node_write" /\ pc'[a] # pc[a]

\* Runs end as their results deserve: finalization, deadline, failure handler,
\* cancellation, start-up and offline quiesce each judge them on their own.
OutcomeEarned == []EndEarned /\ [][FailureEarned]_vars

\* The promise of PlanPromise is kept by every interleaving of the writers.
Promise == INSTANCE PlanPromise WITH Work <- Nodes, status <- run, delivered <- Completed
KeepsPromise == Promise!Spec

\* A run whose start was recorded ends or comes back to the user.
RunsEnd == (dispatch = "started" /\ run = "running") ~> (run # "running")

\* _converge_claimed_node_transition_conflict: "Fail only a claim that is still
\* ours; never terminate a concurrently advanced winner".
LoserHarmless ==
    [][\A r \in Resumers :
        run = "running" /\ pc[r] = "fail_node_write" /\ pc'[r] # pc[r] /\ ~won[r]
            => run' = "running"]_vars

\* ADR 0004: cancellation resolves open approvals.
CancelledHasNoOpenApproval == run = "cancelled" => inbox.status # "open"

\* A write node whose call may or may not have happened ends as failed with
\* external_outcome_unknown.
UnknownWriteKeptAsUnknown ==
    \A n \in WriteNodes : node[n] \in TerminalNode /\ HasUnknownWrite(n)
        => node[n] = "failed" /\ nerr[n] = "external_outcome_unknown"
=============================================================================
