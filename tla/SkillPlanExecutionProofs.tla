---------------------- MODULE SkillPlanExecutionProofs ----------------------
(***************************************************************************)
(* For every plan, every set of requests and every interleaving: run and   *)
(* plan agree, and endings are final.                                      *)
(***************************************************************************)
EXTENDS SkillPlanExecution, TLAPS

USE DEF results

(* What every transaction must leave true for endings to be final.         *)
EndingsFinal ==
    /\ run \in TerminalRun => run' = run /\ plan' = plan
    /\ \A n \in Nodes : node[n] \in TerminalNode => node'[n] = node[n] /\ nerr'[n] = nerr[n]
    /\ run \in TerminalRun => result' = result

Keeps == PlanRunAgree' /\ EndingsFinal

-----------------------------------------------------------------------------
(* The transactions of the store, one lemma each.                          *)

(* A transaction that does not touch the flow keeps everything, so do all  *)
(* steps between two transactions, the ledger and the receipt.             *)
LEMMA SameFlowKeeps ==
    ASSUME PlanRunAgree, UNCHANGED <<run, plan, node, nerr, result>>
    PROVE  Keeps
BY DEF Keeps, PlanRunAgree, EndingsFinal

(* claim_skill_plan_for_execution.                                         *)
LEMMA ClaimPlanKeeps ==
    ASSUME PlanRunAgree, ClaimPlan
    PROVE  Keeps
BY DEF Keeps, PlanRunAgree, EndingsFinal, ClaimPlan, TerminalRun

(* claim_skill_plan_node: only a ready node of an active plan.             *)
LEMMA ClaimNodeKeeps ==
    ASSUME PlanRunAgree, TypeOK, NEW n \in Nodes, ClaimNode(n)
    PROVE  Keeps
<1>1. /\ run = "running" /\ plan = "running" /\ node[n] = "ready"
      /\ UNCHANGED <<run, plan, nerr, result>>
      /\ \A m \in Nodes : m # n => node'[m] = node[m]
  BY DEF ClaimNode, CanClaimNode, Active, TypeOK, StoreTypeOK
<1> QED BY <1>1 DEF Keeps, PlanRunAgree, EndingsFinal, TerminalRun, TerminalNode

(* transition_skill_plan_node without a result: never from a terminal      *)
(* status.                                                                 *)
LEMMA TransitionKeeps ==
    ASSUME PlanRunAgree, TypeOK, NEW n \in Nodes, NEW from \in {"pending", "running"},
           NEW t, NEW to, NEW err, NEW new, Transition(n, from, t, to, err, new)
    PROVE  Keeps
<1>1. /\ run = "running" /\ plan = "running" /\ node[n] = from
      /\ UNCHANGED <<run, plan, result>>
      /\ \A m \in Nodes : m # n => node'[m] = node[m] /\ nerr'[m] = nerr[m]
  BY DEF Transition, CanTransition, Active, TypeOK, StoreTypeOK
<1> QED BY <1>1 DEF Keeps, PlanRunAgree, EndingsFinal, TerminalRun, TerminalNode

(* ... and with one: only while the run is running.                        *)
LEMMA CompleteKeeps ==
    ASSUME PlanRunAgree, TypeOK, NEW n \in Nodes, NEW t, Complete(n, t)
    PROVE  Keeps
<1>1. /\ run = "running" /\ plan = "running" /\ node[n] = "running"
      /\ UNCHANGED <<run, plan>>
      /\ \A m \in Nodes : m # n => node'[m] = node[m] /\ nerr'[m] = nerr[m]
  BY DEF Complete, CanComplete, CanTransition, Active, TypeOK, StoreTypeOK
<1> QED BY <1>1 DEF Keeps, PlanRunAgree, EndingsFinal, TerminalRun, TerminalNode

(* pause_skill_plan_node_and_run.                                          *)
LEMMA PauseKeeps ==
    ASSUME PlanRunAgree, TypeOK, NEW n \in Nodes, NEW t, NEW cs, PauseNodeAndRun(n, t, cs)
    PROVE  Keeps
<1>1. /\ run = "running" /\ plan = "running" /\ node[n] = "running"
      /\ run' = "waiting_approval" /\ UNCHANGED <<plan, nerr, result>>
      /\ \A m \in Nodes : m # n => node'[m] = node[m]
  BY DEF PauseNodeAndRun, CanPause, CanTransition, Active, TypeOK, StoreTypeOK
<1> QED BY <1>1 DEF Keeps, PlanRunAgree, EndingsFinal, TerminalRun, TerminalNode

(* claim_agent_run_for_resume.                                             *)
LEMMA ResumeKeeps ==
    ASSUME PlanRunAgree, TypeOK, NEW c, ClaimRunForResume(c)
    PROVE  Keeps
<1>1. /\ run = "waiting_approval" /\ plan = "running"
      /\ node[paused.node] = "waiting_tool_approval"
      /\ run' = "running" /\ UNCHANGED <<plan, nerr, result>>
      /\ \A m \in Nodes : m # paused.node => node'[m] = node[m]
  BY DEF ClaimRunForResume, CanResume, TypeOK, StoreTypeOK
<1> QED BY <1>1 DEF Keeps, PlanRunAgree, EndingsFinal, TerminalRun, TerminalNode

(* finish_skill_plan_and_run, called where the run was not terminal: run   *)
(* and plan end together and stored terminal nodes stay, whatever the      *)
(* caller's copy says.                                                     *)
LEMMA FinishKeeps ==
    ASSUME PlanRunAgree, run \notin TerminalRun, NEW copy, NEW end \in TerminalRun,
           NEW to, NEW err, NEW p, Finish(copy, end, to, err, p)
    PROVE  Keeps
<1>1. run' = end /\ plan' = end
  BY DEF Finish
<1>2. \A n \in Nodes : node[n] \in TerminalNode => node'[n] = node[n] /\ nerr'[n] = nerr[n]
  BY DEF Finish, KeepsStored
<1> QED BY <1>1, <1>2 DEF Keeps, PlanRunAgree, EndingsFinal

(* EarlyEnd only knows endings.                                            *)
LEMMA EarlyEndTerminal == EarlyEnd \subseteq TerminalRun
BY DEF EarlyEnd, TerminalRun

(* _cancel_agent_run_tree_in_transaction.                                  *)
LEMMA CancelKeeps ==
    ASSUME PlanRunAgree, CancelFlow
    PROVE  Keeps
<1>1. PICK end \in TerminalRun : run' = end /\ plan' = end
  BY EarlyEndTerminal DEF CancelFlow, TerminalRun
<1>2. /\ run \notin TerminalRun
      /\ \A n \in Nodes : node[n] \in TerminalNode => node'[n] = node[n] /\ nerr'[n] = nerr[n]
  BY DEF CancelFlow, TerminalRun
<1> QED BY <1>1, <1>2 DEF Keeps, PlanRunAgree, EndingsFinal

(* reconcile_orphaned_agent_runs.                                          *)
LEMMA ReconcileKeeps ==
    ASSUME PlanRunAgree, Reconcile
    PROVE  Keeps
<1>1. CASE ReconcilePending
  BY <1>1, SameFlowKeeps DEF ReconcilePending, store, flow
<1>2. CASE ReconcileWaiting
  BY <1>2, SameFlowKeeps DEF ReconcileWaiting, flow
<1>3. CASE ReconcileExpired
  BY <1>3, CancelKeeps DEF ReconcileExpired
<1>4. CASE ReconcileRunning
  <2>1. PICK end \in TerminalRun : run' = end /\ plan' = end
    BY <1>4, EarlyEndTerminal DEF ReconcileRunning
  <2>2. /\ run \notin TerminalRun
        /\ \A n \in Nodes : node[n] \in TerminalNode => node'[n] = node[n] /\ nerr'[n] = nerr[n]
    BY <1>4 DEF ReconcileRunning, TerminalRun, TerminalNode
  <2> QED BY <2>1, <2>2 DEF Keeps, PlanRunAgree, EndingsFinal
<1>5. CASE ReconcileSettled
  BY <1>5, SameFlowKeeps DEF ReconcileSettled, store, flow
<1> QED BY <1>1, <1>2, <1>3, <1>4, <1>5 DEF Reconcile

(* apply_universal_quiesce.                                                *)
LEMMA QuiesceKeeps ==
    ASSUME PlanRunAgree, QuiesceRun \/ QuiesceEndedRun
    PROVE  Keeps
<1>1. CASE QuiesceRun
  <2>1. PICK end \in TerminalRun : run' = end /\ plan' = end
    BY <1>1, EarlyEndTerminal DEF QuiesceRun
  <2>2. /\ run \notin TerminalRun
        /\ \A n \in Nodes : node[n] \in TerminalNode => node'[n] = node[n] /\ nerr'[n] = nerr[n]
    BY <1>1 DEF QuiesceRun, Quiescible, QuiesceEnds
  <2> QED BY <2>1, <2>2 DEF Keeps, PlanRunAgree, EndingsFinal
<1>2. CASE QuiesceEndedRun
  BY <1>2, SameFlowKeeps DEF QuiesceEndedRun, flow
<1> QED BY <1>1, <1>2

-----------------------------------------------------------------------------
(* Types.  Attempts are counted from one: a node that has been claimed, in *)
(* the store or in a caller's copy, has an attempt a result can be stored  *)
(* under.                                                                  *)

Counted(nodes, attempts) ==
    \A n \in Nodes : nodes[n] \in {"running", "waiting_tool_approval", "completed"}
                        => attempts[n] >= 1

StoreTyped == StoreTypeOK /\ Counted(node, attempt)
ActorTyped == ActorTypeOK /\ \A a \in Actors : Counted(row[a].node, row[a].attempt)
Typed == StoreTyped /\ ActorTyped

LEMMA TypedIsTypeOK == Typed => TypeOK
BY DEF Typed, StoreTyped, ActorTyped, TypeOK

LEMMA ClaimPlanTyped ==
    ASSUME StoreTyped, ClaimPlan PROVE StoreTyped'
BY DEF StoreTyped, StoreTypeOK, Counted, ClaimPlan, PlanStatus

LEMMA ClaimDispatchTyped ==
    ASSUME StoreTyped, ClaimDispatch PROVE StoreTyped'
BY DEF StoreTyped, StoreTypeOK, Counted, ClaimDispatch, flow

LEMMA SameStoreTyped ==
    ASSUME StoreTyped, UNCHANGED store PROVE StoreTyped'
BY DEF StoreTyped, StoreTypeOK, Counted, store, flow

LEMMA ClaimNodeTyped ==
    ASSUME StoreTyped, NEW n \in Nodes, ClaimNode(n) PROVE StoreTyped'
BY DEF StoreTyped, StoreTypeOK, Counted, ClaimNode, CanClaimNode, NodeStatus, MaxAttempt

LEMMA TransitionTyped ==
    ASSUME StoreTyped, NEW n \in Nodes, NEW from, NEW t,
           NEW to \in NodeStatus \ {"running", "waiting_tool_approval", "completed"},
           NEW err \in ErrorCode, NEW new \in 0..MaxAttempt,
           Transition(n, from, t, to, err, new), paused' \in {paused, NoPause}
    PROVE  StoreTyped'
BY DEF StoreTyped, StoreTypeOK, Counted, Transition, Pause

LEMMA CompleteTyped ==
    ASSUME StoreTyped, NEW n \in Nodes, NEW t, Complete(n, t), paused' \in {paused, NoPause}
    PROVE  StoreTyped'
<1>1. t = attempt[n] /\ t \in 1..MaxAttempt
  BY DEF StoreTyped, StoreTypeOK, Counted, Complete, CanComplete, CanTransition, MaxAttempt
<1>2. delivers' \in [Nodes -> SUBSET Items]
  BY DEF StoreTyped, StoreTypeOK, Complete, MayCarry, Items
<1> QED BY <1>1, <1>2 DEF StoreTyped, StoreTypeOK, Counted, Complete, Pause, NodeStatus, ErrorCode

(* insert_sealed of the synthesis.                                         *)
LEMMA SealTyped ==
    ASSUME StoreTyped, SealArtifact
    PROVE  StoreTyped'
BY DEF StoreTyped, StoreTypeOK, Counted, SealArtifact, Synthesis

LEMMA PauseTyped ==
    ASSUME StoreTyped, NEW n \in Nodes, NEW t, NEW cs \in SUBSET Calls, PauseNodeAndRun(n, t, cs)
    PROVE  StoreTyped'
BY DEF StoreTyped, StoreTypeOK, Counted, PauseNodeAndRun, CanPause, CanTransition, Pause,
       NodeStatus, RunStatus

LEMMA ResumeTyped ==
    ASSUME StoreTyped, NEW c, ClaimRunForResume(c) PROVE StoreTyped'
<1>1. paused.node \in Nodes
  BY DEF StoreTyped, StoreTypeOK, Pause, NoPause, ClaimRunForResume, CanResume
<1> QED BY <1>1 DEF StoreTyped, StoreTypeOK, Counted, ClaimRunForResume, CanResume,
                    NodeStatus, RunStatus

LEMMA InboxTyped ==
    ASSUME StoreTyped, ResolveOpenInbox
    PROVE  inbox' \in [status : {"none", "open", "resolved"}, calls : SUBSET Calls]
BY DEF StoreTyped, StoreTypeOK, ResolveOpenInbox

LEMMA FinishTyped ==
    ASSUME StoreTyped, NEW copy \in RowType, NEW end \in TerminalRun,
           NEW to \in [Nodes -> NodeStatus], NEW err \in [Nodes -> ErrorCode], NEW p \in Pause,
           Counted(to, copy.attempt), Finish(copy, end, to, err, p)
    PROVE  StoreTyped'
<1>1. inbox' \in [status : {"none", "open", "resolved"}, calls : SUBSET Calls]
  BY InboxTyped DEF Finish
<1>2. /\ node' \in [Nodes -> NodeStatus]
      /\ attempt' \in [Nodes -> 0..MaxAttempt]
      /\ nerr' \in [Nodes -> ErrorCode]
  BY DEF Finish, StoreTyped, StoreTypeOK, RowType
<1>3. Counted(node, attempt)'
  BY DEF Finish, StoreTyped, Counted
<1>4. run' \in RunStatus /\ plan' \in PlanStatus /\ paused' \in Pause
      /\ UNCHANGED <<results, ledger, dispatch>>
  BY DEF Finish, RunStatus, PlanStatus
<1> QED BY <1>1, <1>2, <1>3, <1>4 DEF StoreTyped, StoreTypeOK

LEMMA CancelFlowTyped ==
    ASSUME StoreTyped, CancelFlow,
           ledger' \in [Calls -> CallStatus],
           UNCHANGED dispatch
    PROVE  StoreTyped'
<1>1. inbox' \in [status : {"none", "open", "resolved"}, calls : SUBSET Calls]
  BY InboxTyped DEF CancelFlow
<1>2. /\ node' \in [Nodes -> NodeStatus]
      /\ nerr' \in [Nodes -> ErrorCode]
      /\ Counted(node, attempt)'
      /\ UNCHANGED <<attempt, results>>
  BY DEF CancelFlow, StoreTyped, StoreTypeOK, Counted, NodeStatus, ErrorCode
<1>3. run' \in RunStatus /\ plan' \in PlanStatus
  <2>1. PICK end \in TerminalRun : run' = end /\ plan' = end
    BY EarlyEndTerminal DEF CancelFlow, TerminalRun
  <2> QED BY <2>1 DEF RunStatus, PlanStatus
<1>4. paused' \in Pause
  BY DEF CancelFlow, Pause
<1> QED BY <1>1, <1>2, <1>3, <1>4 DEF StoreTyped, StoreTypeOK

LEMMA LedgerTyped ==
    ASSUME StoreTyped, NEW c \in Calls,
           \/ ClaimToolCall(c)
           \/ FinishToolCall(c, "settled")
           \/ FinishToolCall(c, Lost(c))
    PROVE  StoreTyped'
BY DEF StoreTyped, StoreTypeOK, Counted, ClaimToolCall, FinishToolCall, Lost, CallStatus, flow

LEMMA ReconcileTyped ==
    ASSUME StoreTyped, Reconcile PROVE StoreTyped'
<1>1. ReconciledLedger \in [Calls -> CallStatus]
  BY DEF ReconciledLedger, Lost, CallStatus, StoreTyped, StoreTypeOK
<1>2. CASE ReconcilePending
  BY <1>2, SameStoreTyped DEF ReconcilePending
<1>3. CASE ReconcileWaiting
  BY <1>1, <1>3 DEF ReconcileWaiting, StoreTyped, StoreTypeOK, Counted, flow
<1>4. CASE ReconcileExpired
  BY <1>1, <1>4, CancelFlowTyped DEF ReconcileExpired
<1>5. CASE ReconcileRunning
  <2>1. /\ node' \in [Nodes -> NodeStatus]
        /\ nerr' \in [Nodes -> ErrorCode]
        /\ Counted(node, attempt)'
    BY <1>5 DEF ReconcileRunning, StoreTyped, StoreTypeOK, Counted, NodeStatus, ErrorCode,
                TerminalNode
  <2>2. run' \in RunStatus /\ plan' \in PlanStatus
    <3>1. PICK end \in TerminalRun : run' = end /\ plan' = end
      BY <1>5, EarlyEndTerminal DEF ReconcileRunning
    <3> QED BY <3>1 DEF RunStatus, PlanStatus
  <2>3. UNCHANGED <<attempt, results, paused, inbox, dispatch>> /\ ledger' = ReconciledLedger
    BY <1>5 DEF ReconcileRunning
  <2> QED BY <1>1, <2>1, <2>2, <2>3 DEF StoreTyped, StoreTypeOK
<1>6. CASE ReconcileSettled
  BY <1>6, SameStoreTyped DEF ReconcileSettled
<1> QED BY <1>2, <1>3, <1>4, <1>5, <1>6 DEF Reconcile

LEMMA QuiesceTyped ==
    ASSUME StoreTyped, QuiesceRun \/ QuiesceEndedRun PROVE StoreTyped'
<1>1. ReconciledLedger \in [Calls -> CallStatus]
  BY DEF ReconciledLedger, Lost, CallStatus, StoreTyped, StoreTypeOK
<1>2. CASE QuiesceRun
  <2>1. /\ node' \in [Nodes -> NodeStatus]
        /\ nerr' \in [Nodes -> ErrorCode]
        /\ Counted(node, attempt)'
    BY <1>2 DEF QuiesceRun, QuiesceEnds, StoreTyped, StoreTypeOK, Counted, NodeStatus, ErrorCode,
                TerminalNode
  <2>2. run' \in RunStatus /\ plan' \in PlanStatus
    <3>1. PICK end \in TerminalRun : run' = end /\ plan' = end
      BY <1>2, EarlyEndTerminal DEF QuiesceRun
    <3> QED BY <3>1 DEF RunStatus, PlanStatus
  <2>3. UNCHANGED <<attempt, results, paused, inbox>> /\ ledger' = ReconciledLedger
        /\ dispatch' = "settled"
    BY <1>2 DEF QuiesceRun
  <2> QED BY <1>1, <2>1, <2>2, <2>3 DEF StoreTyped, StoreTypeOK
<1>3. CASE QuiesceEndedRun
  BY <1>1, <1>3 DEF QuiesceEndedRun, StoreTyped, StoreTypeOK, Counted, flow
<1> QED BY <1>2, <1>3

-----------------------------------------------------------------------------
(* What an actor's copy may be when it is written back.                    *)

LEMMA RowTyped ==
    ASSUME StoreTyped PROVE Row \in RowType /\ Counted(Row.node, Row.attempt)
BY DEF StoreTyped, StoreTypeOK, Row, RowType

LEMMA NoRowTyped == NoRow \in RowType /\ Counted(NoRow.node, NoRow.attempt)
BY DEF NoRow, NoAttempt, RowType, Counted, RunStatus, PlanStatus, NodeStatus, ErrorCode,
       NoPause, Pause, MaxAttempt

(* Reading and forgetting keep all copies well-typed.                      *)
LEMMA CopiesTyped ==
    ASSUME Typed, NEW a \in Actors, Read(a) \/ Forget(a) \/ UNCHANGED row
    PROVE  /\ row' \in [Actors -> RowType]
           /\ \A b \in Actors : Counted(row'[b].node, row'[b].attempt)
<1>1. \A b \in Actors : row'[b] \in {row[b], Row, NoRow}
  BY DEF Typed, ActorTyped, ActorTypeOK, Read, Forget
<1>2. row' \in [Actors -> RowType]
  BY RowTyped, NoRowTyped DEF Typed, ActorTyped, ActorTypeOK, Read, Forget
<1>3. ASSUME NEW b \in Actors PROVE Counted(row'[b].node, row'[b].attempt)
  BY <1>1, RowTyped, NoRowTyped DEF Typed, ActorTyped
<1> QED BY <1>2, <1>3

-----------------------------------------------------------------------------
(* Every action keeps everything well-typed.                               *)

LEMMA GoTyped ==
    ASSUME Typed, NEW a \in Actors, NEW label \in Label, Go(a, label)
    PROVE  pc' \in [Actors -> Label]
BY DEF Go, Typed, ActorTyped, ActorTypeOK

(* Most actions are one transaction and a move: the locals stay.           *)
LEMMA MoveTyped ==
    ASSUME Typed, StoreTyped', NEW a \in Actors, pc' \in [Actors -> Label],
           UNCHANGED <<work, request, ask, asked, process>>,
           Read(a) \/ Forget(a) \/ UNCHANGED row
    PROVE  Typed'
<1>1. /\ row' \in [Actors -> RowType]
      /\ \A b \in Actors : Counted(row'[b].node, row'[b].attempt)
  BY CopiesTyped
<1> QED BY <1>1 DEF Typed, ActorTyped, ActorTypeOK, work, request, process

(* Updating the outcomes of a batch, one node or all of them.              *)
LEMMA OutcomeTyped ==
    ASSUME ActorTyped, NEW a \in Actors,
           \/ \E n \in Nodes, o \in Outcome : out' = [out EXCEPT ![a][n] = o]
           \/ \E f \in [Nodes -> Outcome] : out' = [out EXCEPT ![a] = f]
           \/ UNCHANGED out
    PROVE  out' \in [Actors -> [Nodes -> Outcome]]
<1>0. out \in [Actors -> [Nodes -> Outcome]]
  BY DEF ActorTyped, ActorTypeOK
<1>1. ASSUME NEW n \in Nodes, NEW o \in Outcome, out' = [out EXCEPT ![a][n] = o]
      PROVE  out' \in [Actors -> [Nodes -> Outcome]]
  <2>1. [out[a] EXCEPT ![n] = o] \in [Nodes -> Outcome]
    BY <1>0
  <2>2. out' = [out EXCEPT ![a] = [out[a] EXCEPT ![n] = o]]
    BY <1>1
  <2> QED BY <1>0, <2>1, <2>2
<1>2. ASSUME NEW f \in [Nodes -> Outcome], out' = [out EXCEPT ![a] = f]
      PROVE  out' \in [Actors -> [Nodes -> Outcome]]
  BY <1>0, <1>2
<1> QED BY <1>0, <1>1, <1>2

LEMMA NoOutcomeTyped == NoOutcome \in [Nodes -> Outcome]
BY DEF NoOutcome, Outcome

(* The start of the executor.                                              *)
LEMMA StartTyped ==
    ASSUME Typed, StartStep, Executor \in Actors PROVE Typed'
<1>1. CASE StartDispatch
  <2>1. StoreTyped' /\ pc' \in [Actors -> Label] /\ UNCHANGED <<work, row, request, ask, asked, process>>
    BY <1>1, ClaimDispatchTyped, GoTyped DEF StartDispatch, Typed, Label
  <2> QED BY <2>1, MoveTyped
<1>2. CASE BeginExecution
  <2>1. StoreTyped' /\ pc' \in [Actors -> Label] /\ UNCHANGED <<work, row, request, ask, asked, process>>
    BY <1>2, ClaimPlanTyped, SameStoreTyped, GoTyped DEF BeginExecution, Typed, Label
  <2> QED BY <2>1, MoveTyped
<1> QED BY <1>1, <1>2 DEF StartStep

LEMMA RaisedTyped ==
    ASSUME Typed, NEW a \in Actors, Raised(a) \/ Over(a) \/ TransitionConflict(a)
    PROVE  pc' \in [Actors -> Label]
<1>1. \E label \in Label : Go(a, label)
  BY DEF Raised, Over, TransitionConflict, Label
<1> QED BY <1>1, GoTyped

(* The scheduling loop.                                                    *)
LEMMA SchedulingTyped ==
    ASSUME Typed, NEW a \in Actors,
           \/ LoopStops(a) \/ SkipNode(a) \/ ChooseBatch(a) \/ MarkReady(a) \/ LoopEnds(a)
    PROVE  Typed'
<1>1. CASE LoopStops(a)
  BY <1>1, SameStoreTyped, RaisedTyped, MoveTyped DEF LoopStops, Typed
<1>2. CASE SkipNode(a)
  <2>1. PICK n \in Nodes : Transition(n, "pending", attempt[n], "skipped", "other", attempt[n])
    BY <1>2 DEF SkipNode
  <2>2. StoreTyped'
    BY <1>2, <2>1, TransitionTyped DEF SkipNode, Typed, StoreTyped, StoreTypeOK, NodeStatus, ErrorCode
  <2>3. pc' \in [Actors -> Label]
    BY <1>2 DEF SkipNode, Typed, ActorTyped, ActorTypeOK
  <2> QED BY <1>2, <2>2, <2>3, MoveTyped DEF SkipNode
<1>3. CASE ChooseBatch(a)
  <2>1. StoreTyped'
    BY <1>3, SameStoreTyped DEF ChooseBatch, Typed
  <2>2. pc' \in [Actors -> Label]
    BY <1>3, GoTyped DEF ChooseBatch, Label
  <2>3. batch' \in [Actors -> SUBSET Nodes]
    <3>1. \E S \in SUBSET Nodes : batch' = [batch EXCEPT ![a] = S]
      <4>1. FirstOf(NodesIn("ready")) \in SUBSET Nodes
        BY DEF FirstOf, NodesIn
      <4>2. FirstOf({n \in Nodes : Runnable(n)}) \in SUBSET Nodes
        BY DEF FirstOf
      <4> QED BY <1>3, <4>1, <4>2 DEF ChooseBatch
    <3> QED BY <3>1 DEF Typed, ActorTyped, ActorTypeOK
  <2>4. out' \in [Actors -> [Nodes -> Outcome]]
    <3>1. \E f \in [Nodes -> Outcome] : out' = [out EXCEPT ![a] = f]
      <4>1. [n \in Nodes |-> IF n \in batch'[a] THEN "queued" ELSE "idle"] \in [Nodes -> Outcome]
        BY DEF Outcome
      <4>2. \/ out' = [out EXCEPT ![a] = [n \in Nodes |-> IF n \in batch'[a] THEN "queued" ELSE "idle"]]
            \/ out' = [out EXCEPT ![a] = NoOutcome]
        BY <1>3 DEF ChooseBatch
      <4> QED BY <4>1, <4>2, NoOutcomeTyped
    <3> QED BY <3>1, OutcomeTyped DEF Typed
  <2> QED BY <1>3, <2>1, <2>2, <2>3, <2>4
          DEF ChooseBatch, Typed, ActorTyped, ActorTypeOK, request, process
<1>4. CASE MarkReady(a)
  <2>1. PICK n \in Nodes :
          \/ /\ Transition(n, "pending", attempt[n], "ready", nerr[n], attempt[n])
             /\ UNCHANGED paused
          \/ UNCHANGED store
    BY <1>4 DEF MarkReady
  <2>2. StoreTyped'
    BY <2>1, SameStoreTyped, TransitionTyped DEF Typed, StoreTyped, StoreTypeOK, NodeStatus
  <2>3. out' \in [Actors -> [Nodes -> Outcome]]
    <3>1. UNCHANGED out \/ \E m \in Nodes : out' = [out EXCEPT ![a][m] = "queued"]
      BY <1>4 DEF MarkReady
    <3>2. "queued" \in Outcome
      BY DEF Outcome
    <3> QED BY <3>1, <3>2, OutcomeTyped DEF Typed
  <2>4. pc' \in [Actors -> Label]
    BY <1>4, GoTyped, RaisedTyped DEF MarkReady, Label
  <2> QED BY <1>4, <2>2, <2>3, <2>4
          DEF MarkReady, Typed, ActorTyped, ActorTypeOK, request, process
<1>5. CASE LoopEnds(a)
  <2>1. StoreTyped'
    BY <1>5, SameStoreTyped DEF LoopEnds, Typed
  <2>2. pc' \in [Actors -> Label]
    BY <1>5, GoTyped DEF LoopEnds, Label
  <2> QED BY <1>5, <2>1, <2>2, MoveTyped DEF LoopEnds
<1> QED BY <1>1, <1>2, <1>3, <1>4, <1>5

(* The batch and its settlement.                                           *)
LEMMA BatchTyped ==
    ASSUME Typed, NEW a \in Actors,
           \/ ClaimBatchNode(a) \/ QuiesceStopsBatch(a) \/ NodeOutcome(a) \/ JoinBatch(a)
           \/ SettleNode(a) \/ RescheduleExtra(a) \/ SettleEnds(a) \/ PersistPause(a)
    PROVE  Typed'
<1>1. CASE ClaimBatchNode(a)
  <2>1. StoreTyped'
    BY <1>1, ClaimNodeTyped, SameStoreTyped DEF ClaimBatchNode, Typed
  <2>2. out' \in [Actors -> [Nodes -> Outcome]]
    <3>1. \E n \in Nodes, o \in {"running", "conflict"} : out' = [out EXCEPT ![a][n] = o]
      BY <1>1 DEF ClaimBatchNode
    <3>2. {"running", "conflict"} \subseteq Outcome
      BY DEF Outcome
    <3> QED BY <3>1, <3>2, OutcomeTyped DEF Typed
  <2>3. att' \in [Actors -> [Nodes -> 0..MaxAttempt]]
    <3>1. UNCHANGED att \/ \E n \in Nodes : /\ attempt[n] < MaxAttempt
                                           /\ att' = [att EXCEPT ![a][n] = attempt[n] + 1]
      BY <1>1 DEF ClaimBatchNode, ClaimNode, CanClaimNode
    <3>2. att \in [Actors -> [Nodes -> 0..MaxAttempt]] /\ attempt \in [Nodes -> 0..MaxAttempt]
      BY DEF Typed, StoreTyped, StoreTypeOK, ActorTyped, ActorTypeOK
    <3>3. ASSUME NEW n \in Nodes, attempt[n] < MaxAttempt,
                 att' = [att EXCEPT ![a][n] = attempt[n] + 1]
          PROVE  att' \in [Actors -> [Nodes -> 0..MaxAttempt]]
      <4>1. attempt[n] + 1 \in 0..MaxAttempt
        BY <3>2, <3>3 DEF MaxAttempt
      <4>2. [att[a] EXCEPT ![n] = attempt[n] + 1] \in [Nodes -> 0..MaxAttempt]
        BY <3>2, <4>1
      <4>3. att' = [att EXCEPT ![a] = [att[a] EXCEPT ![n] = attempt[n] + 1]]
        BY <3>3
      <4> QED BY <3>2, <4>2, <4>3
    <3> QED BY <3>1, <3>2, <3>3
  <2> QED BY <1>1, <2>1, <2>2, <2>3
          DEF ClaimBatchNode, Typed, ActorTyped, ActorTypeOK, request, process
<1>2. CASE QuiesceStopsBatch(a)
  <2>1. StoreTyped'
    BY <1>2, SameStoreTyped DEF QuiesceStopsBatch, Typed
  <2>2. pc' \in [Actors -> Label]
    BY <1>2, GoTyped DEF QuiesceStopsBatch, Label
  <2> QED BY <1>2, <2>1, <2>2, MoveTyped DEF QuiesceStopsBatch
<1>3. CASE NodeOutcome(a)
  <2>1. StoreTyped'
    BY <1>3, SameStoreTyped DEF NodeOutcome, Typed
  <2>2. out' \in [Actors -> [Nodes -> Outcome]]
    <3>1. \E n \in Nodes, o \in {"completed", "no_result", "error", "transient", "pause"} :
             out' = [out EXCEPT ![a][n] = o]
      BY <1>3 DEF NodeOutcome
    <3>2. {"completed", "no_result", "error", "transient", "pause"} \subseteq Outcome
      BY DEF Outcome
    <3> QED BY <3>1, <3>2, OutcomeTyped DEF Typed
  <2> QED BY <1>3, <2>1, <2>2 DEF NodeOutcome, Typed, ActorTyped, ActorTypeOK, request, process
<1>4. CASE JoinBatch(a)
  <2>1. StoreTyped'
    BY <1>4, SameStoreTyped DEF JoinBatch, Typed
  <2>2. pc' \in [Actors -> Label]
    BY <1>4, GoTyped DEF JoinBatch, Label
  <2> QED BY <1>4, <2>1, <2>2, MoveTyped DEF JoinBatch
<1>5. CASE SettleNode(a)
  <2>1. StoreTyped'
    <3>1. PICK n \in Nodes :
            \/ UNCHANGED store
            \/ Complete(n, att[a][n]) /\ UNCHANGED paused
            \/ \E to \in {"pending", "failed"}, err \in ErrorCode :
                 Transition(n, "running", att[a][n], to, err, att[a][n]) /\ UNCHANGED paused
      BY <1>5 DEF SettleNode, NodeError, ErrorCode
    <3>2. att[a][n] \in 0..MaxAttempt
      BY DEF Typed, ActorTyped, ActorTypeOK
    <3> QED BY <3>1, <3>2, SameStoreTyped, CompleteTyped, TransitionTyped DEF Typed, NodeStatus
  <2>2. pc' \in [Actors -> Label]
    BY <1>5, GoTyped, RaisedTyped DEF SettleNode, Label, Typed, ActorTyped, ActorTypeOK
  <2>3. batch' \in [Actors -> SUBSET Nodes] /\ pauses' \in [Actors -> SUBSET Nodes]
    <3>1. \E n \in Nodes :
             /\ batch' = batch \/ batch' = [batch EXCEPT ![a] = batch[a] \ {n}]
             /\ pauses' = pauses \/ pauses' = [pauses EXCEPT ![a] = pauses[a] \cup {n}]
      BY <1>5 DEF SettleNode
    <3>2. batch \in [Actors -> SUBSET Nodes] /\ pauses \in [Actors -> SUBSET Nodes]
      BY DEF Typed, ActorTyped, ActorTypeOK
    <3> QED BY <3>1, <3>2
  <2> QED BY <1>5, <2>1, <2>2, <2>3
          DEF SettleNode, Typed, ActorTyped, ActorTypeOK, request, process
<1>6. CASE RescheduleExtra(a)
  <2>1. StoreTyped'
    <3>1. PICK n \in Nodes :
            \/ UNCHANGED store
            \/ /\ Transition(n, "running", att[a][n], "pending", "none", att[a][n] - 1)
               /\ UNCHANGED paused
      BY <1>6 DEF RescheduleExtra
    <3>2. CASE UNCHANGED store
      BY <3>2, SameStoreTyped DEF Typed
    <3>3. CASE /\ Transition(n, "running", att[a][n], "pending", "none", att[a][n] - 1)
               /\ UNCHANGED paused
      <4>1. att[a][n] - 1 \in 0..MaxAttempt
        BY <3>3 DEF Transition, CanTransition, Typed, StoreTyped, StoreTypeOK, Counted, MaxAttempt
      <4> QED BY <3>3, <4>1, TransitionTyped DEF Typed, NodeStatus, ErrorCode
    <3> QED BY <3>1, <3>2, <3>3
  <2>2. pc' \in [Actors -> Label]
    BY <1>6, RaisedTyped DEF RescheduleExtra, Typed, ActorTyped, ActorTypeOK
  <2>3. pauses' \in [Actors -> SUBSET Nodes]
    <3>1. \E n \in Nodes : pauses' = pauses \/ pauses' = [pauses EXCEPT ![a] = pauses[a] \ {n}]
      BY <1>6 DEF RescheduleExtra
    <3>2. pauses \in [Actors -> SUBSET Nodes]
      BY DEF Typed, ActorTyped, ActorTypeOK
    <3> QED BY <3>1, <3>2
  <2> QED BY <1>6, <2>1, <2>2, <2>3
          DEF RescheduleExtra, Typed, ActorTyped, ActorTypeOK, request, process
<1>7. CASE SettleEnds(a)
  <2>1. StoreTyped'
    BY <1>7, SameStoreTyped DEF SettleEnds, Typed
  <2>2. pc' \in [Actors -> Label]
    BY <1>7, GoTyped DEF SettleEnds, Label
  <2>3. ask' \in [Actors -> SUBSET Calls]
    <3>1. UNCHANGED ask \/ \E cs \in SUBSET Calls : ask' = [ask EXCEPT ![a] = cs]
      BY <1>7 DEF SettleEnds, FreshCalls, Unasked
    <3>2. ask \in [Actors -> SUBSET Calls]
      BY DEF Typed, ActorTyped, ActorTypeOK
    <3> QED BY <3>1, <3>2
  <2>4. out' \in [Actors -> [Nodes -> Outcome]]
    BY <1>7, NoOutcomeTyped, OutcomeTyped DEF SettleEnds, Typed
  <2> QED BY <1>7, <2>1, <2>2, <2>3, <2>4
          DEF SettleEnds, Typed, ActorTyped, ActorTypeOK, request, process
<1>8. CASE PersistPause(a)
  <2>1. StoreTyped'
    BY <1>8, PauseTyped, SameStoreTyped DEF PersistPause, Typed, ActorTyped, ActorTypeOK
  <2>2. pc' \in [Actors -> Label]
    <3>1. PICK label \in Label : Go(a, label)
      BY <1>8 DEF PersistPause, Label
    <3> QED BY <3>1, GoTyped
  <2>3. asked' \subseteq Calls
    BY <1>8 DEF PersistPause, Typed, ActorTyped, ActorTypeOK
  <2> QED BY <1>8, <2>1, <2>2, <2>3
          DEF PersistPause, Typed, ActorTyped, ActorTypeOK, work, request, process
<1> QED BY <1>1, <1>2, <1>3, <1>4, <1>5, <1>6, <1>7, <1>8

(* The end of a plan that has run: an ending is written from a copy whose  *)
(* statuses and attempts belong together.                                  *)
LEMMA RowOfTyped ==
    ASSUME ActorTyped, NEW a \in Actors
    PROVE  /\ row[a] \in RowType
           /\ row[a].node \in [Nodes -> NodeStatus]
           /\ row[a].nerr \in [Nodes -> ErrorCode]
           /\ row[a].paused \in Pause
           /\ Counted(row[a].node, row[a].attempt)
BY DEF ActorTyped, ActorTypeOK, RowType

LEMMA FinalizationTyped ==
    ASSUME Typed, NEW a \in Actors,
           \/ BeginSynthesis(a) \/ SealSynthesis(a) \/ FinishPlan(a)
           \/ SynthesisFails(a) \/ RunTimeout(a)
    PROVE  Typed'
<1>1. CASE BeginSynthesis(a)
  <2>1. UNCHANGED store \/ Finish(Row, "failed", node, nerr, paused)
    BY <1>1 DEF BeginSynthesis
  <2>2. "failed" \in TerminalRun /\ node = Row.node /\ nerr = Row.nerr /\ paused = Row.paused
    BY DEF TerminalRun, Row
  <2>3. StoreTyped'
    BY <2>1, <2>2, SameStoreTyped, FinishTyped, RowTyped DEF Typed, StoreTyped, StoreTypeOK
  <2>4. pc' \in [Actors -> Label]
    BY <1>1, GoTyped, RaisedTyped DEF BeginSynthesis, Label
  <2> QED BY <1>1, <2>3, <2>4, MoveTyped DEF BeginSynthesis
<1>2. CASE FinishPlan(a)
  <2>1. \/ UNCHANGED store
        \/ \E end \in TerminalRun :
             Finish(row[a], end, row[a].node, row[a].nerr, NoPause)
    <3>1. Endings(row[a]) \subseteq TerminalRun
      BY DEF Endings, TerminalRun
    <3> QED BY <1>2, <3>1 DEF FinishPlan
  <2>2. NoPause \in Pause
    BY DEF Pause
  <2>3. StoreTyped'
    BY <2>1, <2>2, SameStoreTyped, FinishTyped, RowOfTyped DEF Typed
  <2>4. pc' \in [Actors -> Label]
    BY <1>2, GoTyped, RaisedTyped DEF FinishPlan, Label
  <2> QED BY <1>2, <2>3, <2>4, MoveTyped DEF FinishPlan
<1>3. CASE SynthesisFails(a)
  <2>1. StoreTyped' /\ pc' \in [Actors -> Label]
    BY <1>3, SameStoreTyped, GoTyped DEF SynthesisFails, Typed, Label
  <2> QED BY <1>3, <2>1, MoveTyped DEF SynthesisFails
<1>4. CASE RunTimeout(a)
  <2>1. StoreTyped' /\ pc' \in [Actors -> Label]
    BY <1>4, SameStoreTyped, GoTyped DEF RunTimeout, Typed, Label
  <2> QED BY <1>4, <2>1, MoveTyped DEF RunTimeout
<1>5. CASE SealSynthesis(a)
  <2>1. StoreTyped' /\ pc' \in [Actors -> Label]
    BY <1>5, SealTyped, GoTyped DEF SealSynthesis, Typed, Label
  <2> QED BY <1>5, <2>1, MoveTyped DEF SealSynthesis
<1> QED BY <1>1, <1>2, <1>3, <1>4, <1>5

(* Cancelled, failed, or without a model.                                  *)
LEMMA EndingTyped ==
    ASSUME Typed, NEW a \in Actors,
           \/ ModelMissing(a) \/ ReadCancelled(a) \/ CancelExecution(a)
           \/ ReadFailure(a) \/ FailRun(a) \/ ReadNodeFailure(a) \/ FailNode(a)
    PROVE  Typed'
<1>1. CASE ModelMissing(a)
  <2>1. UNCHANGED store \/ Finish(Row, "failed", node, nerr, paused)
    BY <1>1 DEF ModelMissing
  <2>2. "failed" \in TerminalRun /\ node = Row.node
    BY DEF TerminalRun, Row
  <2>3. StoreTyped'
    BY <2>1, <2>2, SameStoreTyped, FinishTyped, RowTyped DEF Typed, StoreTyped, StoreTypeOK
  <2>4. pc' \in [Actors -> Label]
    BY <1>1, RaisedTyped DEF ModelMissing
  <2> QED BY <1>1, <2>3, <2>4, MoveTyped DEF ModelMissing
<1>2. CASE ReadCancelled(a)
  <2>1. StoreTyped' /\ pc' \in [Actors -> Label]
    BY <1>2, SameStoreTyped, GoTyped DEF ReadCancelled, Typed, Label
  <2> QED BY <1>2, <2>1, MoveTyped DEF ReadCancelled
<1>3. CASE CancelExecution(a)
  <2> DEFINE running == {n \in Nodes : row[a].node[n] = "running"}
             unknown == running \cap WriteNodes \cap UnknownNodes
             to == [n \in Nodes |->
                      IF row[a].node[n] \in TerminalNode THEN row[a].node[n]
                      ELSE IF n \in unknown THEN "failed" ELSE "cancelled"]
             err == [n \in Nodes |->
                       IF n \in unknown THEN "external_outcome_unknown"
                       ELSE IF n \in running THEN "none" ELSE row[a].nerr[n]]
  <2>1. PICK end \in TerminalRun :
          UNCHANGED store \/ Finish(row[a], end, to, err, row[a].paused)
    <3>1. "cancelled" \in TerminalRun /\ EarlyEnd \subseteq TerminalRun
      BY EarlyEndTerminal DEF TerminalRun
    <3> QED BY <1>3, <3>1 DEF CancelExecution
  <2>2. to \in [Nodes -> NodeStatus] /\ Counted(to, row[a].attempt)
    BY RowOfTyped DEF Typed, Counted, NodeStatus, TerminalNode
  <2>3. err \in [Nodes -> ErrorCode]
    BY RowOfTyped DEF Typed, ErrorCode
  <2> HIDE DEF to, err
  <2>4. StoreTyped'
    BY <2>1, <2>2, <2>3, SameStoreTyped, FinishTyped, RowOfTyped DEF Typed
  <2>5. pc' \in [Actors -> Label]
    BY <1>3, GoTyped DEF CancelExecution, Label
  <2> QED BY <1>3, <2>4, <2>5, MoveTyped DEF CancelExecution
<1>4. CASE ReadFailure(a)
  <2>1. StoreTyped' /\ pc' \in [Actors -> Label]
    BY <1>4, SameStoreTyped, GoTyped, RaisedTyped DEF ReadFailure, Typed, Label
  <2> QED BY <1>4, <2>1, MoveTyped DEF ReadFailure
<1>5. CASE FailRun(a)
  <2>1. PICK end \in TerminalRun :
          UNCHANGED store \/ Finish(row[a], end, row[a].node, row[a].nerr, row[a].paused)
    BY <1>5, EarlyEndTerminal DEF FailRun, TerminalRun
  <2>2. StoreTyped'
    BY <2>1, SameStoreTyped, FinishTyped, RowOfTyped DEF Typed
  <2>3. pc' \in [Actors -> Label]
    BY <1>5, RaisedTyped DEF FailRun
  <2> QED BY <1>5, <2>2, <2>3, MoveTyped DEF FailRun
<1>6. CASE ReadNodeFailure(a)
  <2>1. StoreTyped' /\ pc' \in [Actors -> Label]
    BY <1>6, SameStoreTyped, GoTyped, RaisedTyped DEF ReadNodeFailure, Typed, Label
  <2> QED BY <1>6, <2>1, MoveTyped DEF ReadNodeFailure
<1>7. CASE FailNode(a)
  <2>1. PICK failed \in pauses[a] :
          \/ UNCHANGED store
          \/ Finish(row[a], "failed",
                    [n \in Nodes |-> IF n = failed THEN "failed"
                                     ELSE IF row[a].node[n] \in TerminalNode THEN row[a].node[n]
                                     ELSE "cancelled"],
                    [row[a].nerr EXCEPT ![failed] = "other"], NoPause)
    BY <1>7 DEF FailNode
  <2> DEFINE to == [n \in Nodes |-> IF n = failed THEN "failed"
                                    ELSE IF row[a].node[n] \in TerminalNode THEN row[a].node[n]
                                    ELSE "cancelled"]
             err == [row[a].nerr EXCEPT ![failed] = "other"]
  <2>2. UNCHANGED store \/ Finish(row[a], "failed", to, err, NoPause)
    BY <2>1
  <2>3. to \in [Nodes -> NodeStatus] /\ Counted(to, row[a].attempt)
    BY RowOfTyped DEF Typed, Counted, NodeStatus, TerminalNode
  <2>4. err \in [Nodes -> ErrorCode]
    BY RowOfTyped DEF Typed, ErrorCode
  <2>5. NoPause \in Pause /\ "failed" \in TerminalRun
    BY DEF Pause, TerminalRun
  <2> HIDE DEF to, err
  <2>6. StoreTyped'
    BY <2>2, <2>3, <2>4, <2>5, SameStoreTyped, FinishTyped, RowOfTyped DEF Typed
  <2>7. pc' \in [Actors -> Label]
    BY <1>7, RaisedTyped DEF FailNode
  <2> QED BY <1>7, <2>6, <2>7, MoveTyped DEF FailNode
<1> QED BY <1>1, <1>2, <1>3, <1>4, <1>5, <1>6, <1>7

(* A request until it has decided its call.                                *)
LEMMA ResumerIsActor == Resumers \subseteq Actors /\ Executor \in Actors
BY DEF Actors

LEMMA RequestTyped ==
    ASSUME Typed, NEW r \in Resumers,
           \/ ContinueExecution(r) \/ RouteRead(r) \/ ResumeBegin(r)
           \/ ResumeClaim(r) \/ ClaimRevoked(r) \/ FailRevokedNode(r)
    PROVE  Typed'
<1> r \in Actors
  BY ResumerIsActor
<1>1. CASE ContinueExecution(r)
  <2>1. StoreTyped' /\ pc' \in [Actors -> Label]
    BY <1>1, SameStoreTyped, GoTyped DEF ContinueExecution, Typed, Label
  <2> QED BY <1>1, <2>1 DEF ContinueExecution, Typed, ActorTyped, ActorTypeOK, request, process
<1>2. CASE RouteRead(r)
  <2>1. StoreTyped' /\ pc' \in [Actors -> Label]
    BY <1>2, SameStoreTyped, GoTyped DEF RouteRead, Typed, Label
  <2>2. /\ item' \in [Resumers -> [status : {"none", "open", "resolved"}, calls : SUBSET Calls]]
        /\ call' \in [Resumers -> Calls]
        /\ approve' \in [Resumers -> BOOLEAN]
    BY <1>2 DEF RouteRead, Typed, StoreTyped, StoreTypeOK, ActorTyped, ActorTypeOK
  <2> QED BY <1>2, <2>1, <2>2 DEF RouteRead, Typed, ActorTyped, ActorTypeOK, work, process
<1>3. CASE ResumeBegin(r)
  <2>1. StoreTyped' /\ pc' \in [Actors -> Label]
    BY <1>3, SameStoreTyped, GoTyped DEF ResumeBegin, Typed, Label
  <2>2. UNCHANGED pauses \/ \E n \in Nodes : pauses' = [pauses EXCEPT ![r] = {n}]
    <3>1. paused # NoPause => paused.node \in Nodes
      BY DEF Typed, StoreTyped, StoreTypeOK, Pause
    <3> QED BY <1>3, <3>1 DEF ResumeBegin
  <2>3. pauses' \in [Actors -> SUBSET Nodes]
    <3>1. pauses \in [Actors -> SUBSET Nodes]
      BY DEF Typed, ActorTyped, ActorTypeOK
    <3>2. ASSUME NEW n \in Nodes, pauses' = [pauses EXCEPT ![r] = {n}]
          PROVE  pauses' \in [Actors -> SUBSET Nodes]
      BY <3>1, <3>2
    <3> QED BY <2>2, <3>1, <3>2
  <2>4. att' \in [Actors -> [Nodes -> 0..MaxAttempt]]
    <3>1. UNCHANGED att \/ att' = [att EXCEPT ![r] = attempt]
      BY <1>3 DEF ResumeBegin
    <3> QED BY <3>1 DEF Typed, StoreTyped, StoreTypeOK, ActorTyped, ActorTypeOK
  <2>5. /\ row' \in [Actors -> RowType]
        /\ \A b \in Actors : Counted(row'[b].node, row'[b].attempt)
    BY <1>3, CopiesTyped DEF ResumeBegin
  <2> QED BY <1>3, <2>1, <2>3, <2>4, <2>5
          DEF ResumeBegin, Typed, ActorTyped, ActorTypeOK, request, process
<1>4. CASE ResumeClaim(r)
  <2>1. StoreTyped'
    BY <1>4, SameStoreTyped, ResumeTyped DEF ResumeClaim, Claimed, Typed
  <2>2. pc' \in [Actors -> Label]
    BY <1>4, GoTyped DEF ResumeClaim, Label
  <2>3. won' \in [Resumers -> BOOLEAN]
    BY <1>4 DEF ResumeClaim, Claimed, Typed, ActorTyped, ActorTypeOK
  <2>4. ask' \in [Actors -> SUBSET Calls]
    <3>1. row[r].paused.calls \subseteq Calls
      BY RowOfTyped DEF Typed, Pause, NoPause
    <3>2. UNCHANGED ask \/ ask' = [ask EXCEPT ![r] = row[r].paused.calls \ {call[r]}]
      BY <1>4 DEF ResumeClaim
    <3>3. ask \in [Actors -> SUBSET Calls]
      BY DEF Typed, ActorTyped, ActorTypeOK
    <3>4. row[r].paused.calls \ {call[r]} \in SUBSET Calls
      BY <3>1
    <3> QED BY <3>2, <3>3, <3>4
  <2>5. /\ row' \in [Actors -> RowType]
        /\ \A b \in Actors : Counted(row'[b].node, row'[b].attempt)
    BY <1>4, CopiesTyped DEF ResumeClaim
  <2> QED BY <1>4, <2>1, <2>2, <2>3, <2>4, <2>5
          DEF ResumeClaim, Typed, ActorTyped, ActorTypeOK, work, process
<1>5. CASE ClaimRevoked(r)
  <2>1. StoreTyped'
    BY <1>5, SameStoreTyped, ResumeTyped DEF ClaimRevoked, Claimed, Typed
  <2>2. pc' \in [Actors -> Label]
    <3>1. PICK label \in Label : Go(r, label)
      BY <1>5 DEF ClaimRevoked, Label
    <3> QED BY <3>1, GoTyped
  <2>3. won' \in [Resumers -> BOOLEAN]
    BY <1>5 DEF ClaimRevoked, Claimed, Typed, ActorTyped, ActorTypeOK
  <2>4. /\ row' \in [Actors -> RowType]
        /\ \A b \in Actors : Counted(row'[b].node, row'[b].attempt)
    BY <1>5, CopiesTyped DEF ClaimRevoked
  <2> QED BY <1>5, <2>1, <2>2, <2>3, <2>4
          DEF ClaimRevoked, Typed, ActorTyped, ActorTypeOK, work, process
<1>6. CASE FailRevokedNode(r)
  <2>1. PICK n \in pauses[r] :
          \/ UNCHANGED store
          \/ /\ Transition(n, "running", att[r][n], "failed", "other", att[r][n])
             /\ paused' = NoPause
    BY <1>6 DEF FailRevokedNode
  <2>2. n \in Nodes /\ att[r][n] \in 0..MaxAttempt
    BY DEF Typed, ActorTyped, ActorTypeOK
  <2>3. StoreTyped'
    BY <2>1, <2>2, SameStoreTyped, TransitionTyped DEF Typed, NodeStatus, ErrorCode
  <2>4. pc' \in [Actors -> Label]
    BY <1>6, GoTyped DEF FailRevokedNode, Label
  <2> QED BY <1>6, <2>3, <2>4, MoveTyped DEF FailRevokedNode
<1> QED BY <1>1, <1>2, <1>3, <1>4, <1>5, <1>6

(* The resumed agent, its tool and what becomes of its node.               *)
LEMMA ResumedTyped ==
    ASSUME Typed, NEW r \in Resumers,
           \/ RunResumed(r) \/ ToolAnswers(r) \/ ResumedOutcome(r)
           \/ CompleteResumedNode(r) \/ Converge(r)
    PROVE  Typed'
<1> r \in Actors
  BY ResumerIsActor
<1> call[r] \in Calls
  BY DEF Typed, ActorTyped, ActorTypeOK
<1>1. CASE RunResumed(r)
  <2>1. StoreTyped' /\ pc' \in [Actors -> Label]
    BY <1>1, SameStoreTyped, LedgerTyped, GoTyped DEF RunResumed, Typed, Label
  <2> QED BY <1>1, <2>1, MoveTyped DEF RunResumed
<1>2. CASE ToolAnswers(r)
  <2>1. StoreTyped' /\ pc' \in [Actors -> Label]
    BY <1>2, LedgerTyped, GoTyped DEF ToolAnswers, Typed, Label
  <2> QED BY <1>2, <2>1, MoveTyped DEF ToolAnswers
<1>3. CASE ResumedOutcome(r)
  <2>1. StoreTyped' /\ pc' \in [Actors -> Label]
    BY <1>3, SameStoreTyped, GoTyped DEF ResumedOutcome, Typed, Label
  <2>2. ask' \in [Actors -> SUBSET Calls]
    <3>1. UNCHANGED ask \/ \E cs \in SUBSET Calls : ask' = [ask EXCEPT ![r] = cs]
      BY <1>3 DEF ResumedOutcome, FreshCalls, Unasked
    <3> QED BY <3>1 DEF Typed, ActorTyped, ActorTypeOK
  <2> QED BY <1>3, <2>1, <2>2
          DEF ResumedOutcome, Typed, ActorTyped, ActorTypeOK, work, request, process
<1>4. CASE CompleteResumedNode(r)
  <2>1. PICK n \in pauses[r] :
          UNCHANGED store \/ (Complete(n, att[r][n]) /\ paused' = NoPause)
    BY <1>4 DEF CompleteResumedNode
  <2>2. n \in Nodes
    BY DEF Typed, ActorTyped, ActorTypeOK
  <2>3. StoreTyped'
    BY <2>1, <2>2, SameStoreTyped, CompleteTyped DEF Typed
  <2>4. pc' \in [Actors -> Label]
    BY <1>4, GoTyped DEF CompleteResumedNode, Label
  <2> QED BY <1>4, <2>3, <2>4, MoveTyped DEF CompleteResumedNode
<1>5. CASE Converge(r)
  <2>1. StoreTyped' /\ pc' \in [Actors -> Label]
    BY <1>5, SameStoreTyped, GoTyped DEF Converge, Typed, Label
  <2>2. Read(r) \/ UNCHANGED row
    BY <1>5 DEF Converge
  <2> QED BY <1>5, <2>1, <2>2, MoveTyped DEF Converge
<1> QED BY <1>1, <1>2, <1>3, <1>4, <1>5

(* The answer of the route.                                                *)
LEMMA RouteTyped ==
    ASSUME Typed, NEW r \in Resumers, RouteSavesPaused(r) \/ RouteDone(r) \/ RouteError(r)
    PROVE  Typed'
<1> r \in Actors
  BY ResumerIsActor
<1> DEFINE InboxType == [status : {"none", "open", "resolved"}, calls : SUBSET Calls]
<1>1. Answered(r)
  BY DEF RouteSavesPaused, RouteDone, RouteError
<1>2. item[r] \in InboxType /\ ask[r] \subseteq Calls
  BY DEF Typed, ActorTyped, ActorTypeOK
<1>3. \/ UNCHANGED store
      \/ ResolveOpenInbox /\ UNCHANGED <<run, plan, node, attempt, nerr, results, paused, ledger, dispatch>>
      \/ \E saved \in InboxType : SaveInbox(saved)
  <2>1. [item[r] EXCEPT !.calls = ask[r]] \in InboxType
    BY <1>2
  <2>2. [item[r] EXCEPT !.status = "resolved"] \in InboxType
    BY <1>2
  <2> QED BY <2>1, <2>2 DEF RouteSavesPaused, RouteDone, RouteError
<1>4. StoreTyped'
  <2>1. CASE UNCHANGED store
    BY <2>1, SameStoreTyped DEF Typed
  <2>2. CASE ResolveOpenInbox /\ UNCHANGED <<run, plan, node, attempt, nerr, results, paused, ledger, dispatch>>
    BY <2>2, InboxTyped DEF Typed, StoreTyped, StoreTypeOK, Counted
  <2>3. CASE \E saved \in InboxType : SaveInbox(saved)
    BY <2>3 DEF Typed, StoreTyped, StoreTypeOK, Counted, SaveInbox
  <2> QED BY <1>3, <2>1, <2>2, <2>3
<1>5. pc' \in [Actors -> Label]
  BY <1>1, GoTyped DEF Answered, Label
<1>6. /\ item' \in [Resumers -> InboxType]
      /\ att' \in [Actors -> [Nodes -> 0..MaxAttempt]]
      /\ pauses' \in [Actors -> SUBSET Nodes]
      /\ ask' \in [Actors -> SUBSET Calls]
  BY <1>1 DEF Answered, NoItem, NoAttempt, MaxAttempt, Typed, ActorTyped, ActorTypeOK
<1> QED BY <1>1, <1>4, <1>5, <1>6 DEF Answered, Typed, ActorTyped, ActorTypeOK, process

-----------------------------------------------------------------------------
(* User, clock and process.                                                *)

LEMMA EnvironmentTyped ==
    ASSUME Typed, Environment
    PROVE  Typed'
<1>1. CASE Cancel \/ Expire
  <2>1. StoreTyped' /\ UNCHANGED <<pc, work, row, request, ask, asked, process>>
    BY <1>1, CancelFlowTyped DEF Cancel, Expire, ExpireApproval, CancelTree, Typed, StoreTyped, StoreTypeOK
  <2> QED BY <2>1 DEF Typed, ActorTyped, ActorTypeOK, work, request, process
<1>2. CASE Quiesce
  <2>1. StoreTyped'
    BY <1>2, SameStoreTyped DEF Quiesce, Typed
  <2> QED BY <1>2, <2>1 DEF Quiesce, Typed, ActorTyped, ActorTypeOK, work, request
<1>3. CASE Crash
  <2>1. StoreTyped'
    BY <1>3, SameStoreTyped DEF Crash, Typed
  <2>2. /\ pc' \in [Actors -> Label]
        /\ batch' \in [Actors -> SUBSET Nodes]
        /\ pauses' \in [Actors -> SUBSET Nodes]
        /\ ask' \in [Actors -> SUBSET Calls]
    BY <1>3 DEF Crash, Label, Typed, ActorTyped, ActorTypeOK
  <2>3. /\ out' \in [Actors -> [Nodes -> Outcome]]
        /\ att' \in [Actors -> [Nodes -> 0..MaxAttempt]]
    BY <1>3, NoOutcomeTyped DEF Crash, NoAttempt, MaxAttempt
  <2>4. item' \in [Resumers -> [status : {"none", "open", "resolved"}, calls : SUBSET Calls]]
    BY <1>3 DEF Crash, NoItem
  <2>5. /\ row' \in [Actors -> RowType]
        /\ \A b \in Actors : Counted(row'[b].node, row'[b].attempt)
    BY <1>3, NoRowTyped DEF Crash
  <2> QED BY <1>3, <2>1, <2>2, <2>3, <2>4, <2>5 DEF Crash, Typed, ActorTyped, ActorTypeOK
<1>4. CASE Startup
  <2>1. StoreTyped'
    BY <1>4, ReconcileTyped DEF Startup, Typed
  <2> QED BY <1>4, <2>1 DEF Startup, Typed, ActorTyped, ActorTypeOK, work, request
<1>5. CASE Rest
  <2>1. StoreTyped'
    BY <1>5, SameStoreTyped DEF Rest, vars, Typed
  <2> QED BY <1>5, <2>1 DEF Rest, vars, Typed, ActorTyped, ActorTypeOK, work, request, process
<1>6. CASE QuiesceOffline
  <2>1. StoreTyped'
    BY <1>6, QuiesceTyped DEF QuiesceOffline, Typed
  <2> QED BY <1>6, <2>1 DEF QuiesceOffline, Typed, ActorTyped, ActorTypeOK, work, request, process
<1> QED BY <1>1, <1>2, <1>3, <1>4, <1>5, <1>6 DEF Environment

LEMMA InitTyped == Init => Typed
<1> SUFFICES ASSUME Init PROVE Typed
  OBVIOUS
<1>1. StoreTyped
  BY DEF Init, StoreInit, StoreTyped, StoreTypeOK, Counted, RunStatus, PlanStatus, NodeStatus,
         ErrorCode, CallStatus, MaxAttempt, Pause, Synthesis
<1>2. /\ pc \in [Actors -> Label]
      /\ batch \in [Actors -> SUBSET Nodes]
      /\ out \in [Actors -> [Nodes -> Outcome]]
      /\ att \in [Actors -> [Nodes -> 0..MaxAttempt]]
      /\ pauses \in [Actors -> SUBSET Nodes]
      /\ ask \in [Actors -> SUBSET Calls]
  BY NoOutcomeTyped DEF Init, Label, NoAttempt, MaxAttempt
<1>3. row \in [Actors -> RowType] /\ \A a \in Actors : Counted(row[a].node, row[a].attempt)
  BY NoRowTyped DEF Init
<1>4. /\ item \in [Resumers -> [status : {"none", "open", "resolved"}, calls : SUBSET Calls]]
      /\ approve \in [Resumers -> BOOLEAN]
      /\ won \in [Resumers -> BOOLEAN]
  BY DEF Init, NoItem
<1>5. call \in [Resumers -> Calls]
  <2>1. <<1, 1>> \in Calls
    BY PlanShape DEF Calls, Nodes
  <2> QED BY <2>1 DEF Init
<1> QED BY <1>1, <1>2, <1>3, <1>4, <1>5 DEF Typed, ActorTyped, ActorTypeOK, Init

(* One step of anybody keeps everything well-typed.                        *)
LEMMA TypedInductive == Typed /\ [Next]_vars => Typed'
<1> SUFFICES ASSUME Typed, [Next]_vars PROVE Typed'
  OBVIOUS
<1>1. CASE StartStep
  BY <1>1, StartTyped, ResumerIsActor
<1>2. ASSUME NEW a \in Actors, ExecutionStep(a) \/ RunTimeout(a) PROVE Typed'
  BY <1>2, SchedulingTyped, BatchTyped, FinalizationTyped, EndingTyped DEF ExecutionStep
<1>3. ASSUME NEW r \in Resumers, RouteRead(r) \/ ResumeStep(r) PROVE Typed'
  BY <1>3, RequestTyped, ResumedTyped, RouteTyped DEF ResumeStep
<1>4. CASE Environment
  BY <1>4, EnvironmentTyped
<1>5. CASE UNCHANGED vars
  <2>1. StoreTyped'
    BY <1>5, SameStoreTyped DEF vars, Typed
  <2> QED BY <1>5, <2>1 DEF vars, Typed, ActorTyped, ActorTypeOK, work, request, process
<1> QED BY <1>1, <1>2, <1>3, <1>4, <1>5 DEF Next

(* Every state of a plan's execution is well-typed: for every DAG, every   *)
(* number of requests and any batch limit.                                 *)
THEOREM TypeCorrect == Spec => []TypeOK
<1>1. Init => Typed
  BY InitTyped
<1>2. Typed /\ [Next]_vars => Typed'
  BY TypedInductive
<1>3. Typed => TypeOK
  BY TypedIsTypeOK
<1> QED BY <1>1, <1>2, <1>3, PTL DEF Spec

-----------------------------------------------------------------------------
(* Run and plan agree, and endings are final.                              *)

(* The executor's task, and a resume that goes on as the executor.         *)
LEMMA ExecutionKeeps ==
    ASSUME PlanRunAgree, TypeOK, NEW a \in Actors, ExecutionStep(a) \/ RunTimeout(a)
    PROVE  Keeps
<1>1. CASE \/ LoopStops(a) \/ ChooseBatch(a) \/ LoopEnds(a) \/ QuiesceStopsBatch(a)
           \/ NodeOutcome(a) \/ JoinBatch(a) \/ SettleEnds(a) \/ SynthesisFails(a)
           \/ ReadCancelled(a) \/ ReadFailure(a) \/ ReadNodeFailure(a) \/ RunTimeout(a)
  <2>1. UNCHANGED store
    BY <1>1 DEF LoopStops, ChooseBatch, LoopEnds, QuiesceStopsBatch, NodeOutcome, JoinBatch,
                SettleEnds, SynthesisFails, ReadCancelled, ReadFailure, ReadNodeFailure, RunTimeout
  <2> QED BY <2>1, SameFlowKeeps DEF store, flow
<1>2. CASE SkipNode(a)
  BY <1>2, TransitionKeeps DEF SkipNode
<1>3. CASE MarkReady(a)
  <2>1. \/ UNCHANGED store
        \/ \E n \in Nodes : Transition(n, "pending", attempt[n], "ready", nerr[n], attempt[n])
    BY <1>3 DEF MarkReady
  <2> QED BY <2>1, SameFlowKeeps, TransitionKeeps DEF store, flow
<1>4. CASE ClaimBatchNode(a)
  <2>1. UNCHANGED store \/ \E n \in Nodes : ClaimNode(n)
    BY <1>4 DEF ClaimBatchNode
  <2> QED BY <2>1, SameFlowKeeps, ClaimNodeKeeps DEF store, flow
<1>5. CASE SettleNode(a) \/ RescheduleExtra(a)
  <2>1. \/ UNCHANGED store
        \/ \E n \in Nodes : Complete(n, att[a][n])
        \/ \E n \in Nodes : \E to, err, new : Transition(n, "running", att[a][n], to, err, new)
    BY <1>5 DEF SettleNode, RescheduleExtra
  <2> QED BY <2>1, SameFlowKeeps, CompleteKeeps, TransitionKeeps DEF store, flow
<1>6. CASE PersistPause(a)
  <2>1. UNCHANGED store \/ \E n \in Nodes : PauseNodeAndRun(n, att[a][n], ask[a])
    BY <1>6 DEF PersistPause, TypeOK, ActorTypeOK
  <2> QED BY <2>1, SameFlowKeeps, PauseKeeps DEF store, flow
<1>7. CASE ModelMissing(a) \/ BeginSynthesis(a) \/ FinishPlan(a) \/ CancelExecution(a) \/ FailRun(a)
  <2> DEFINE Ends == /\ run = "running"
                     /\ \E copy, to, err, p : \E end \in TerminalRun : Finish(copy, end, to, err, p)
  <2>0. {"completed", "partial", "failed", "cancelled"} \subseteq TerminalRun
    BY DEF TerminalRun
  <2>1. UNCHANGED store \/ Ends
    <3>1. CASE ModelMissing(a)
      BY <2>0, <3>1 DEF ModelMissing
    <3>2. CASE BeginSynthesis(a)
      BY <2>0, <3>2 DEF BeginSynthesis, Active
    <3>3. CASE FinishPlan(a)
      <4>1. Endings(row[a]) \subseteq TerminalRun
        BY DEF Endings, TerminalRun
      <4> QED BY <2>0, <3>3, <4>1 DEF FinishPlan, Active
    <3>4. CASE CancelExecution(a)
      BY <2>0, <3>4, EarlyEndTerminal DEF CancelExecution, Active
    <3>5. CASE FailRun(a)
      BY <2>0, <3>5, EarlyEndTerminal DEF FailRun
    <3> QED BY <1>7, <3>1, <3>2, <3>3, <3>4, <3>5
  <2>2. run = "running" => run \notin TerminalRun
    BY DEF TerminalRun
  <2> QED BY <2>1, <2>2, SameFlowKeeps, FinishKeeps DEF store, flow
<1>8. CASE FailNode(a)
  \* The guard looks only at the plan; that the run is open follows from the invariant.
  <2>1. \/ UNCHANGED store
        \/ /\ plan = "running"
           /\ \E copy, to, err, p : Finish(copy, "failed", to, err, p)
    BY <1>8 DEF FailNode
  <2>2. plan = "running" => run \notin TerminalRun
    BY DEF PlanRunAgree, TerminalRun
  <2>3. "failed" \in TerminalRun
    BY DEF TerminalRun
  <2> QED BY <2>1, <2>2, <2>3, SameFlowKeeps, FinishKeeps DEF store, flow
<1>9. CASE SealSynthesis(a)
  BY <1>9, SameFlowKeeps DEF SealSynthesis, SealArtifact
<1> QED BY <1>1, <1>2, <1>3, <1>4, <1>5, <1>6, <1>7, <1>8, <1>9 DEF ExecutionStep

(* The requests: only a claim, one transition or one result touch the flow,*)
(* the route itself writes nothing but the inbox item.                     *)
LEMMA ResumeStepKeeps ==
    ASSUME PlanRunAgree, TypeOK, NEW r \in Resumers, RouteRead(r) \/ ResumeStep(r)
    PROVE  Keeps
<1> pauses[r] \subseteq Nodes
  BY ResumerIsActor DEF TypeOK, ActorTypeOK
<1>1. CASE RouteRead(r) \/ ContinueExecution(r) \/ ResumeBegin(r) \/ ResumedOutcome(r) \/ Converge(r)
  <2>1. UNCHANGED store
    BY <1>1 DEF RouteRead, ContinueExecution, ResumeBegin, ResumedOutcome, Converge
  <2> QED BY <2>1, SameFlowKeeps DEF store, flow
<1>2. CASE ResumeClaim(r) \/ ClaimRevoked(r)
  <2>1. UNCHANGED store \/ ClaimRunForResume(call[r])
    BY <1>2 DEF ResumeClaim, ClaimRevoked, Claimed
  <2> QED BY <2>1, SameFlowKeeps, ResumeKeeps DEF store, flow
<1>3. CASE FailRevokedNode(r)
  <2>1. \/ UNCHANGED store
        \/ \E n \in Nodes : Transition(n, "running", att[r][n], "failed", "other", att[r][n])
    BY <1>3 DEF FailRevokedNode
  <2> QED BY <2>1, SameFlowKeeps, TransitionKeeps DEF store, flow
<1>4. CASE RunResumed(r) \/ ToolAnswers(r)
  <2>1. UNCHANGED flow
    BY <1>4 DEF RunResumed, ToolAnswers, ClaimToolCall, FinishToolCall, store
  <2> QED BY <2>1, SameFlowKeeps DEF flow
<1>5. CASE CompleteResumedNode(r)
  <2>1. UNCHANGED store \/ \E n \in Nodes : Complete(n, att[r][n])
    BY <1>5 DEF CompleteResumedNode
  <2> QED BY <2>1, SameFlowKeeps, CompleteKeeps DEF store, flow
<1>6. CASE RouteSavesPaused(r) \/ RouteDone(r) \/ RouteError(r)
  <2>1. UNCHANGED <<run, plan, node, nerr, result>>
    BY <1>6 DEF RouteSavesPaused, RouteDone, RouteError, SaveInbox, store, flow
  <2> QED BY <2>1, SameFlowKeeps
<1> QED BY <1>1, <1>2, <1>3, <1>4, <1>5, <1>6 DEF ResumeStep

(* User, clock and process.                                                *)
LEMMA EnvironmentKeeps ==
    ASSUME PlanRunAgree, Environment
    PROVE  Keeps
<1>1. CASE Cancel \/ Expire
  BY <1>1, CancelKeeps DEF Cancel, Expire, ExpireApproval, CancelTree
<1>2. CASE Quiesce \/ Crash \/ Rest
  <2>1. UNCHANGED store
    BY <1>2 DEF Quiesce, Crash, Rest, vars
  <2> QED BY <2>1, SameFlowKeeps DEF store, flow
<1>3. CASE Startup
  BY <1>3, ReconcileKeeps DEF Startup
<1>4. CASE QuiesceOffline
  BY <1>4, QuiesceKeeps DEF QuiesceOffline
<1> QED BY <1>1, <1>2, <1>3, <1>4 DEF Environment

LEMMA KeepsInductive == PlanRunAgree /\ TypeOK /\ [Next]_vars => Keeps
<1> SUFFICES ASSUME PlanRunAgree, TypeOK, [Next]_vars PROVE Keeps
  OBVIOUS
<1>1. CASE StartStep
  <2>1. UNCHANGED flow \/ ClaimPlan
    BY <1>1 DEF StartStep, StartDispatch, BeginExecution, ClaimDispatch, store
  <2> QED BY <2>1, SameFlowKeeps, ClaimPlanKeeps DEF flow
<1>2. ASSUME NEW a \in Actors, ExecutionStep(a) \/ RunTimeout(a) PROVE Keeps
  BY <1>2, ExecutionKeeps
<1>3. ASSUME NEW r \in Resumers, RouteRead(r) \/ ResumeStep(r) PROVE Keeps
  BY <1>3, ResumeStepKeeps
<1>4. CASE Environment
  BY <1>4, EnvironmentKeeps
<1>5. CASE UNCHANGED vars
  BY <1>5, SameFlowKeeps DEF vars, store, flow
<1> QED BY <1>1, <1>2, <1>3, <1>4, <1>5 DEF Next

(* agent_runs and skill_plans never disagree: whoever ends or pauses the   *)
(* run (executor, resume, cancellation, expiry, start-up) leaves the two   *)
(* rows in statuses that belong together.                                  *)
THEOREM PlanAndRunAgree == Spec => []PlanRunAgree
<1>1. Init => PlanRunAgree
  BY DEF Init, StoreInit, PlanRunAgree, TerminalRun
<1>2. PlanRunAgree /\ TypeOK /\ [Next]_vars => PlanRunAgree'
  BY KeepsInductive DEF Keeps
<1> QED BY <1>1, <1>2, TypeCorrect, PTL DEF Spec

(* An ending is final: no interleaving of late writers, with however stale *)
(* a copy, changes a terminal run, its plan, its results or a terminal     *)
(* node.                                                                   *)
THEOREM EndingsAreFinal == Spec => TerminalAbsorbing
<1>1. PlanRunAgree /\ TypeOK /\ [Next]_vars => [EndingsFinal]_vars
  BY KeepsInductive DEF Keeps
<1> QED BY <1>1, TypeCorrect, PlanAndRunAgree, PTL DEF Spec, TerminalAbsorbing, EndingsFinal
=============================================================================
