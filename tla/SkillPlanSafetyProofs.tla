------------------------ MODULE SkillPlanSafetyProofs ------------------------
(***************************************************************************)
(* For every plan, every set of requests and every interleaving: what a    *)
(* run shows and delivers is backed by what its nodes did, and one actor   *)
(* at a time drives it.                                                    *)
(*                                                                         *)
(* The invariant is built in layers, each proved on the ones before it:    *)
(* what the store's rows say of each other, what the copies of the callers *)
(* may still say, who drives, what the driver holds, and what finalization *)
(* has seen.  StoreSteps and OneMoves sum up the actions for all of them.  *)
(***************************************************************************)
EXTENDS SkillPlanExecutionProofs, FiniteSetTheorems, WellFoundedInduction

USE DEF results

-----------------------------------------------------------------------------
(* What a step may do to run, plan, nodes and results.                     *)

Quiet ==
    /\ UNCHANGED <<run, plan, node, attempt, nerr, result, delivers, paused>>
    /\ sealed' = sealed \/ (Universal /\ \E a \in Actors : pc[a] = "finish")

\* One node moves; it becomes ready only when its batch is being marked.
NodeMoves ==
    \E n \in Nodes, from \in {"pending", "running"}, to \in {"skipped", "ready", "pending", "failed"} :
        /\ \E t, err, new : Transition(n, from, t, to, err, new)
        /\ to = "ready" => \E a \in Actors : pc[a] = "marking" /\ n \in batch[a]

\* The run ends, from whatever copy: a node keeps its row, gets a status of the
\* copy or one that says that it was not completed.
NodeEnds(n) ==
    \/ node'[n] = node[n] /\ attempt'[n] = attempt[n]
    \/ /\ node[n] \notin TerminalNode
       /\ \/ node'[n] \in {"failed", "cancelled"}
          \/ \E a \in Actors : node'[n] = row[a].node[n]

Ends ==
    /\ run \notin TerminalRun
    /\ run' \in TerminalRun /\ plan' = run'
    /\ run' = "completed" => run = "running"
    /\ UNCHANGED results
    /\ \A n \in Nodes : NodeEnds(n)
    /\ node' \in [Nodes -> NodeStatus]

StoreStep ==
    \/ Quiet
    \/ ClaimPlan
    \/ \E n \in Nodes : ClaimNode(n)
    \/ NodeMoves
    \/ \E n \in Nodes, t \in Nat : Complete(n, t)
    \/ \E n \in Nodes : \E t, cs : PauseNodeAndRun(n, t, cs)
    \/ \E c : ClaimRunForResume(c)
    \/ Ends

LEMMA SameStoreStep ==
    ASSUME UNCHANGED store \/ UNCHANGED flow PROVE StoreStep
BY DEF StoreStep, Quiet, store, flow

LEMMA FinishEnds ==
    ASSUME Typed, run \notin TerminalRun, NEW copy, NEW end \in TerminalRun, NEW to, NEW err, NEW p,
           end = "completed" => run = "running",
           Finish(copy, end, to, err, p),
           \/ copy = Row /\ to = node
           \/ \E a \in Actors : \A n \in Nodes : to[n] \in {"failed", "cancelled", row[a].node[n]},
           StoreTyped'
    PROVE  StoreStep
<1>1. /\ run' \in TerminalRun /\ plan' = run' /\ UNCHANGED results
      /\ run' = "completed" => run = "running"
  BY DEF Finish
<1>2. ASSUME NEW n \in Nodes PROVE NodeEnds(n)
  <2>1. CASE KeepsStored(copy, n)
    BY <2>1 DEF Finish, NodeEnds
  <2>2. CASE ~KeepsStored(copy, n) /\ copy = Row /\ to = node
    BY <2>2 DEF Finish, NodeEnds, Row
  <2>3. CASE /\ ~KeepsStored(copy, n)
             /\ \E a \in Actors : \A m \in Nodes : to[m] \in {"failed", "cancelled", row[a].node[m]}
    BY <2>3 DEF Finish, NodeEnds, KeepsStored
  <2> QED BY <2>1, <2>2, <2>3
<1>3. node' \in [Nodes -> NodeStatus]
  BY DEF StoreTyped, StoreTypeOK
<1> QED BY <1>1, <1>2, <1>3 DEF StoreStep, Ends

(* A plan that ends early is never completed.                              *)
LEMMA EarlyEndIncomplete == EarlyEnd \subseteq {"partial", "failed"}
BY DEF EarlyEnd

LEMMA CancelEnds ==
    ASSUME StoreTyped, CancelFlow PROVE StoreStep
<1>1. PICK end \in TerminalRun \ {"completed"} : run' = end /\ plan' = end
  BY EarlyEndIncomplete DEF CancelFlow, TerminalRun
<1>2. /\ run \notin TerminalRun /\ UNCHANGED results
      /\ \A n \in Nodes : NodeEnds(n)
      /\ node' \in [Nodes -> NodeStatus]
  BY DEF CancelFlow, TerminalRun, NodeEnds, StoreTyped, StoreTypeOK, NodeStatus
<1> QED BY <1>1, <1>2 DEF StoreStep, Ends

LEMMA ReconcileStep ==
    ASSUME StoreTyped, Reconcile PROVE StoreStep
<1>1. CASE ReconcilePending \/ ReconcileSettled
  BY <1>1, SameStoreStep DEF ReconcilePending, ReconcileSettled
<1>2. CASE ReconcileWaiting
  BY <1>2, SameStoreStep DEF ReconcileWaiting
<1>3. CASE ReconcileExpired
  BY <1>3, CancelEnds DEF ReconcileExpired
<1>4. CASE ReconcileRunning
  <2>1. PICK end \in TerminalRun \ {"completed"} : run' = end /\ plan' = end
    BY <1>4, EarlyEndIncomplete DEF ReconcileRunning, TerminalRun
  <2>2. /\ run \notin TerminalRun /\ UNCHANGED results
        /\ \A n \in Nodes : NodeEnds(n)
        /\ node' \in [Nodes -> NodeStatus]
    BY <1>4 DEF ReconcileRunning, TerminalRun, TerminalNode, NodeEnds, StoreTyped, StoreTypeOK, NodeStatus
  <2> QED BY <2>1, <2>2 DEF StoreStep, Ends
<1> QED BY <1>1, <1>2, <1>3, <1>4 DEF Reconcile

LEMMA QuiesceStep ==
    ASSUME StoreTyped, QuiesceRun \/ QuiesceEndedRun PROVE StoreStep
<1>1. CASE QuiesceRun
  <2>1. PICK end \in TerminalRun \ {"completed"} : run' = end /\ plan' = end
    BY <1>1, EarlyEndIncomplete DEF QuiesceRun, TerminalRun
  <2>2. /\ run \notin TerminalRun /\ UNCHANGED results
        /\ \A n \in Nodes : NodeEnds(n)
        /\ node' \in [Nodes -> NodeStatus]
    BY <1>1 DEF QuiesceRun, Quiescible, QuiesceEnds, NodeEnds, StoreTyped, StoreTypeOK, NodeStatus
  <2> QED BY <2>1, <2>2 DEF StoreStep, Ends
<1>2. CASE QuiesceEndedRun
  BY <1>2, SameStoreStep DEF QuiesceEndedRun
<1> QED BY <1>1, <1>2

LEMMA AttemptsNatural ==
    ASSUME Typed, NEW a \in Actors, NEW n \in Nodes PROVE att[a][n] \in Nat
<1>1. att[a][n] \in 0..MaxAttempt
  BY DEF Typed, ActorTyped, ActorTypeOK
<1>2. 0..MaxAttempt \subseteq Nat
  BY DEF MaxAttempt
<1> QED BY <1>1, <1>2

(* The executor's task, and a resume that goes on as the executor.         *)
LEMMA ExecutionStoreStep ==
    ASSUME Typed, Typed', PlanRunAgree, NEW a \in Actors, ExecutionStep(a) \/ RunTimeout(a)
    PROVE  StoreStep
<1>1. CASE \/ LoopStops(a) \/ ChooseBatch(a) \/ LoopEnds(a) \/ QuiesceStopsBatch(a)
           \/ NodeOutcome(a) \/ JoinBatch(a) \/ SettleEnds(a) \/ SynthesisFails(a)
           \/ ReadCancelled(a) \/ ReadFailure(a) \/ ReadNodeFailure(a) \/ RunTimeout(a)
  <2>1. UNCHANGED store
    BY <1>1 DEF LoopStops, ChooseBatch, LoopEnds, QuiesceStopsBatch, NodeOutcome, JoinBatch,
                SettleEnds, SynthesisFails, ReadCancelled, ReadFailure, ReadNodeFailure, RunTimeout
  <2> QED BY <2>1, SameStoreStep
<1>2. CASE SkipNode(a)
  BY <1>2 DEF SkipNode, StoreStep, NodeMoves
<1>3. CASE MarkReady(a)
  <2>1. \/ UNCHANGED store
        \/ \E n \in Nodes : /\ Transition(n, "pending", attempt[n], "ready", nerr[n], attempt[n])
                            /\ pc[a] = "marking" /\ n \in batch[a]
    BY <1>3 DEF MarkReady, IsFirst
  <2> QED BY <2>1, SameStoreStep DEF StoreStep, NodeMoves
<1>4. CASE ClaimBatchNode(a)
  <2>1. UNCHANGED store \/ \E n \in Nodes : ClaimNode(n)
    BY <1>4 DEF ClaimBatchNode
  <2> QED BY <2>1, SameStoreStep DEF StoreStep
<1>5. CASE SettleNode(a) \/ RescheduleExtra(a)
  <2>1. \/ UNCHANGED store
        \/ \E n \in Nodes : Complete(n, att[a][n])
        \/ \E n \in Nodes, to \in {"pending", "failed"} :
              \E t, err, new : Transition(n, "running", t, to, err, new)
    BY <1>5 DEF SettleNode, RescheduleExtra
  <2>2. \A n \in Nodes : att[a][n] \in Nat
    BY AttemptsNatural
  <2>3. CASE \E n \in Nodes, to \in {"pending", "failed"} :
               \E t, err, new : Transition(n, "running", t, to, err, new)
    BY <2>3 DEF StoreStep, NodeMoves
  <2> QED BY <2>1, <2>2, <2>3, SameStoreStep DEF StoreStep
<1>6. CASE PersistPause(a)
  <2>1. UNCHANGED store \/ \E n \in Nodes : PauseNodeAndRun(n, att[a][n], ask[a])
    BY <1>6 DEF PersistPause, Typed, ActorTyped, ActorTypeOK
  <2> QED BY <2>1, SameStoreStep DEF StoreStep
<1>7. CASE SealSynthesis(a)
  BY <1>7 DEF SealSynthesis, SealArtifact, StoreStep, Quiet
<1>8. CASE ModelMissing(a) \/ BeginSynthesis(a)
  <2>1. UNCHANGED store \/ (run = "running" /\ Finish(Row, "failed", node, nerr, paused))
    BY <1>8 DEF ModelMissing, BeginSynthesis, Active
  <2> QED BY <2>1, SameStoreStep, FinishEnds DEF Typed, TerminalRun
<1>9. CASE FinishPlan(a) \/ FailRun(a)
  <2>1. UNCHANGED store \/ (run = "running" /\ \E end \in TerminalRun : \E err, p :
                              Finish(row[a], end, row[a].node, err, p))
    BY <1>9, EarlyEndTerminal DEF FinishPlan, FailRun, Active, Endings, TerminalRun
  <2> QED BY <2>1, SameStoreStep, FinishEnds DEF Typed, TerminalRun
<1>10. CASE CancelExecution(a)
  <2> DEFINE to(unknown) == [n \in Nodes |->
                      IF row[a].node[n] \in TerminalNode THEN row[a].node[n]
                      ELSE IF n \in unknown THEN "failed" ELSE "cancelled"]
  <2>1. UNCHANGED store \/ (run = "running" /\ \E end \in TerminalRun : \E unknown, err, p :
                              Finish(row[a], end, to(unknown), err, p))
    <3>1. "cancelled" \in TerminalRun /\ EarlyEnd \subseteq TerminalRun
      BY EarlyEndTerminal DEF TerminalRun
    <3> QED BY <1>10, <3>1 DEF CancelExecution, Active
  <2>2. \A unknown : \A n \in Nodes : to(unknown)[n] \in {"failed", "cancelled", row[a].node[n]}
    OBVIOUS
  <2> HIDE DEF to
  <2> QED BY <2>1, <2>2, SameStoreStep, FinishEnds DEF Typed, TerminalRun
<1>11. CASE FailNode(a)
  <2> DEFINE to(failed) == [n \in Nodes |-> IF n = failed THEN "failed"
                                  ELSE IF row[a].node[n] \in TerminalNode THEN row[a].node[n]
                                  ELSE "cancelled"]
  <2>1. UNCHANGED store \/ (plan = "running" /\ \E failed, err, p :
                              Finish(row[a], "failed", to(failed), err, p))
    BY <1>11 DEF FailNode
  <2>2. \A failed : \A n \in Nodes : to(failed)[n] \in {"failed", "cancelled", row[a].node[n]}
    OBVIOUS
  <2>3. plan = "running" => run \notin TerminalRun
    BY DEF PlanRunAgree, TerminalRun
  <2>4. "failed" \in TerminalRun
    BY DEF TerminalRun
  <2> HIDE DEF to
  <2> QED BY <2>1, <2>2, <2>3, <2>4, SameStoreStep, FinishEnds DEF Typed
<1> QED BY <1>1, <1>2, <1>3, <1>4, <1>5, <1>6, <1>7, <1>8, <1>9, <1>10, <1>11 DEF ExecutionStep

(* Requests: a claim, one transition or one result; the route itself saves *)
(* nothing but the inbox item.                                             *)
LEMMA ResumeStoreStep ==
    ASSUME Typed, NEW r \in Resumers, RouteRead(r) \/ ResumeStep(r)
    PROVE  StoreStep
<1> pauses[r] \subseteq Nodes
  BY ResumerIsActor DEF Typed, ActorTyped, ActorTypeOK
<1>1. CASE RouteRead(r) \/ ContinueExecution(r) \/ ResumeBegin(r) \/ ResumedOutcome(r) \/ Converge(r)
  <2>1. UNCHANGED store
    BY <1>1 DEF RouteRead, ContinueExecution, ResumeBegin, ResumedOutcome, Converge
  <2> QED BY <2>1, SameStoreStep
<1>2. CASE ResumeClaim(r) \/ ClaimRevoked(r)
  <2>1. UNCHANGED store \/ ClaimRunForResume(call[r])
    BY <1>2 DEF ResumeClaim, ClaimRevoked, Claimed
  <2> QED BY <2>1, SameStoreStep DEF StoreStep
<1>3. CASE FailRevokedNode(r)
  <2>1. \/ UNCHANGED store
        \/ \E n \in Nodes : Transition(n, "running", att[r][n], "failed", "other", att[r][n])
    BY <1>3 DEF FailRevokedNode
  <2> QED BY <2>1, SameStoreStep DEF StoreStep, NodeMoves
<1>4. CASE RunResumed(r) \/ ToolAnswers(r)
  <2>1. UNCHANGED flow
    BY <1>4 DEF RunResumed, ToolAnswers, ClaimToolCall, FinishToolCall, store
  <2> QED BY <2>1, SameStoreStep
<1>5. CASE CompleteResumedNode(r)
  <2>1. UNCHANGED store \/ \E n \in Nodes : Complete(n, att[r][n])
    BY <1>5 DEF CompleteResumedNode
  <2>2. \A n \in Nodes : att[r][n] \in Nat
    BY ResumerIsActor, AttemptsNatural
  <2> QED BY <2>1, <2>2, SameStoreStep DEF StoreStep
<1>6. CASE RouteSavesPaused(r) \/ RouteDone(r) \/ RouteError(r)
  <2>1. Quiet
    BY <1>6 DEF Quiet, RouteSavesPaused, RouteDone, RouteError, SaveInbox, store, flow
  <2> QED BY <2>1 DEF StoreStep
<1> QED BY <1>1, <1>2, <1>3, <1>4, <1>5, <1>6 DEF ResumeStep

LEMMA EnvironmentStoreStep ==
    ASSUME Typed, Environment PROVE StoreStep
<1>1. CASE Cancel \/ Expire
  BY <1>1, CancelEnds DEF Cancel, Expire, ExpireApproval, CancelTree, Typed
<1>2. CASE Quiesce \/ Crash \/ Rest
  <2>1. UNCHANGED store
    BY <1>2 DEF Quiesce, Crash, Rest, vars
  <2> QED BY <2>1, SameStoreStep
<1>3. CASE Startup
  BY <1>3, ReconcileStep DEF Startup, Typed
<1>4. CASE QuiesceOffline
  BY <1>4, QuiesceStep DEF QuiesceOffline, Typed
<1> QED BY <1>1, <1>2, <1>3, <1>4 DEF Environment

(* Every step is one of these.                                             *)
LEMMA StoreSteps ==
    ASSUME Typed, Typed', PlanRunAgree, [Next]_vars
    PROVE  StoreStep
<1>1. CASE StartStep
  <2>1. UNCHANGED flow \/ ClaimPlan
    BY <1>1 DEF StartStep, StartDispatch, BeginExecution, ClaimDispatch, store
  <2> QED BY <2>1, SameStoreStep DEF StoreStep
<1>2. ASSUME NEW a \in Actors, ExecutionStep(a) \/ RunTimeout(a) PROVE StoreStep
  BY <1>2, ExecutionStoreStep
<1>3. ASSUME NEW r \in Resumers, RouteRead(r) \/ ResumeStep(r) PROVE StoreStep
  BY <1>3, ResumeStoreStep
<1>4. CASE Environment
  BY <1>4, EnvironmentStoreStep
<1>5. CASE UNCHANGED vars
  BY <1>5, SameStoreStep DEF vars
<1> QED BY <1>1, <1>2, <1>3, <1>4, <1>5 DEF Next

(* A step of one actor leaves the place and the locals of the others.      *)
Mine(a) == <<pc[a], batch[a], out[a], pauses[a], row[a]>>
OthersStay(a) == \A b \in Actors \ {a} : UNCHANGED Mine(b)

LEMMA ExecutionOthers ==
    ASSUME Typed, NEW a \in Actors, ExecutionStep(a) \/ RunTimeout(a)
    PROVE  OthersStay(a) /\ (Read(a) \/ Forget(a) \/ UNCHANGED row)
<1> USE DEF OthersStay, Mine, Go, Over, Raised, TransitionConflict, work
<1>0. /\ pc \in [Actors -> Label]
      /\ batch \in [Actors -> SUBSET Nodes]
      /\ out \in [Actors -> [Nodes -> Outcome]]
      /\ pauses \in [Actors -> SUBSET Nodes]
      /\ row \in [Actors -> RowType]
  BY DEF Typed, ActorTyped, ActorTypeOK
<1>1. CASE \/ LoopStops(a) \/ SkipNode(a) \/ ChooseBatch(a) \/ MarkReady(a) \/ LoopEnds(a)
  BY <1>0, <1>1 DEF LoopStops, SkipNode, ChooseBatch, MarkReady, LoopEnds
<1>2. CASE \/ ClaimBatchNode(a) \/ QuiesceStopsBatch(a) \/ NodeOutcome(a) \/ JoinBatch(a)
  BY <1>0, <1>2 DEF ClaimBatchNode, QuiesceStopsBatch, NodeOutcome, JoinBatch
<1>3. CASE SettleNode(a) \/ RescheduleExtra(a)
  BY <1>0, <1>3 DEF SettleNode, RescheduleExtra
<1>4. CASE SettleEnds(a) \/ PersistPause(a)
  BY <1>0, <1>4 DEF SettleEnds, PersistPause
<1>5. CASE \/ BeginSynthesis(a) \/ SealSynthesis(a) \/ FinishPlan(a)
           \/ SynthesisFails(a) \/ RunTimeout(a) \/ ModelMissing(a)
  BY <1>0, <1>5 DEF BeginSynthesis, SealSynthesis, FinishPlan, SynthesisFails, RunTimeout,
                    ModelMissing, Read, Forget
<1>6. CASE ReadCancelled(a) \/ CancelExecution(a) \/ ReadFailure(a)
  BY <1>0, <1>6 DEF ReadCancelled, CancelExecution, ReadFailure, Read, Forget
<1>7. CASE FailRun(a) \/ ReadNodeFailure(a) \/ FailNode(a)
  BY <1>0, <1>7 DEF FailRun, ReadNodeFailure, FailNode, Read, Forget
<1> QED BY <1>1, <1>2, <1>3, <1>4, <1>5, <1>6, <1>7 DEF ExecutionStep

LEMMA ResumeOthers ==
    ASSUME Typed, NEW r \in Resumers, RouteRead(r) \/ ResumeStep(r)
    PROVE  OthersStay(r) /\ (Read(r) \/ Forget(r) \/ UNCHANGED row)
<1> USE DEF OthersStay, Mine, Go, Over, Raised, work
<1> r \in Actors
  BY ResumerIsActor
<1>0. /\ pc \in [Actors -> Label]
      /\ batch \in [Actors -> SUBSET Nodes]
      /\ out \in [Actors -> [Nodes -> Outcome]]
      /\ pauses \in [Actors -> SUBSET Nodes]
      /\ row \in [Actors -> RowType]
  BY DEF Typed, ActorTyped, ActorTypeOK
<1>1. CASE RouteRead(r) \/ ContinueExecution(r) \/ ResumeBegin(r)
  BY <1>0, <1>1 DEF RouteRead, ContinueExecution, ResumeBegin, Read
<1>2. CASE ResumeClaim(r) \/ ClaimRevoked(r) \/ FailRevokedNode(r)
  BY <1>0, <1>2 DEF ResumeClaim, ClaimRevoked, FailRevokedNode, Forget
<1>3. CASE RunResumed(r) \/ ToolAnswers(r) \/ ResumedOutcome(r)
  BY <1>0, <1>3 DEF RunResumed, ToolAnswers, ResumedOutcome
<1>4. CASE CompleteResumedNode(r) \/ Converge(r)
  BY <1>0, <1>4 DEF CompleteResumedNode, Converge, Read
<1>5. CASE RouteSavesPaused(r) \/ RouteDone(r) \/ RouteError(r)
  BY <1>0, <1>5 DEF RouteSavesPaused, RouteDone, RouteError, Answered
<1> QED BY <1>1, <1>2, <1>3, <1>4, <1>5 DEF ResumeStep

(* A copy is kept, read afresh or dropped.                                 *)
LEMMA CopiesFollow ==
    ASSUME Typed, [Next]_vars, NEW b \in Actors
    PROVE  row'[b] \in {row[b], Row, NoRow}
<1>0. row \in [Actors -> RowType]
  BY DEF Typed, ActorTyped, ActorTypeOK
<1>1. ASSUME NEW a \in Actors, Read(a) \/ Forget(a) \/ UNCHANGED row
      PROVE  row'[b] \in {row[b], Row, NoRow}
  BY <1>0, <1>1 DEF Read, Forget
<1>2. CASE Crash
  BY <1>2 DEF Crash
<1>3. CASE StartStep \/ (Environment /\ ~Crash) \/ UNCHANGED vars
  <2>1. UNCHANGED row
    BY <1>3 DEF StartStep, StartDispatch, BeginExecution, Environment, Cancel, Expire, Quiesce,
                Startup, QuiesceOffline, Rest, vars
  <2> QED BY <2>1
<1> QED BY <1>1, <1>2, <1>3, ExecutionOthers, ResumeOthers, ResumerIsActor DEF Next, Environment

-----------------------------------------------------------------------------
(* The pause.                                                              *)

(* The run waits exactly while one node waits: pausing and resuming change *)
(* both in one transaction, and every other end of the wait ends the run.  *)
LEMMA WaitingInductive ==
    ASSUME Typed, Typed', WaitingConsistent, StoreStep
    PROVE  WaitingConsistent'
<1> USE DEF WaitingConsistent, NodesIn
<1>0. node \in [Nodes -> NodeStatus] /\ node' \in [Nodes -> NodeStatus]
  BY DEF Typed, StoreTyped, StoreTypeOK
<1>1. CASE Quiet
  BY <1>1 DEF Quiet
<1>2. CASE ClaimPlan
  BY <1>2 DEF ClaimPlan
<1>3. ASSUME NEW n \in Nodes, ClaimNode(n) PROVE WaitingConsistent'
  BY <1>0, <1>3 DEF ClaimNode, CanClaimNode, Active, TerminalRun
<1>4. CASE NodeMoves
  BY <1>0, <1>4 DEF NodeMoves, Transition, CanTransition, Active, TerminalRun
<1>5. ASSUME NEW n \in Nodes, NEW t, Complete(n, t) PROVE WaitingConsistent'
  BY <1>0, <1>5 DEF Complete, CanComplete, CanTransition, Active, TerminalRun
<1>6. ASSUME NEW n \in Nodes, NEW t, NEW cs, PauseNodeAndRun(n, t, cs) PROVE WaitingConsistent'
  BY <1>0, <1>6 DEF PauseNodeAndRun, CanPause, CanTransition, Active, TerminalRun
<1>7. ASSUME NEW c, ClaimRunForResume(c) PROVE WaitingConsistent'
  BY <1>0, <1>7 DEF ClaimRunForResume, CanResume, TerminalRun
<1>8. CASE Ends
  BY <1>8 DEF Ends, TerminalRun
<1> QED BY <1>1, <1>2, <1>3, <1>4, <1>5, <1>6, <1>7, <1>8 DEF StoreStep

-----------------------------------------------------------------------------
(* What is behind a completed node.                                        *)

(* A result is stored by the transaction that completes its node, under    *)
(* the attempt the node has then; a completed node has no other.           *)
ResultsBacked ==
    \A n \in Nodes, t \in 1..MaxAttempt :
        <<n, t>> \in result <=> node[n] = "completed" /\ attempt[n] = t

(* No caller knows of a completion the store does not have.                *)
CopiesBehind ==
    \A a \in Actors, n \in Nodes : row[a].node[n] = "completed" => node[n] = "completed"

OpenNotCancelled == run \notin TerminalRun => \A n \in Nodes : node[n] # "cancelled"
Fresh == plan = "approved" => \A n \in Nodes : node[n] = "pending"
DeliversBacked == \A n \in Nodes : delivers[n] # {} => node[n] = "completed"

Backing == ResultsBacked /\ CopiesBehind /\ OpenNotCancelled /\ Fresh /\ DeliversBacked

(* A completed node stays so under its attempt, and no other becomes one   *)
(* but by Complete.                                                        *)
CompletionKept ==
    \A n \in Nodes : /\ node'[n] = "completed" <=> node[n] = "completed"
                     /\ node[n] = "completed" => attempt'[n] = attempt[n]

LEMMA MoveKeepsCompletions ==
    ASSUME Typed, CopiesBehind, StoreStep, \A n \in Nodes, t \in Nat : ~Complete(n, t)
    PROVE  CompletionKept /\ UNCHANGED <<result, delivers>>
<1> USE DEF CompletionKept
<1>0. node \in [Nodes -> NodeStatus] /\ attempt \in [Nodes -> 0..MaxAttempt]
  BY DEF Typed, StoreTyped, StoreTypeOK
<1>1. CASE Quiet \/ ClaimPlan
  BY <1>1 DEF Quiet, ClaimPlan
<1>3. ASSUME NEW n \in Nodes, ClaimNode(n) PROVE CompletionKept /\ UNCHANGED <<result, delivers>>
  BY <1>0, <1>3 DEF ClaimNode, CanClaimNode
<1>4. CASE NodeMoves
  BY <1>0, <1>4 DEF NodeMoves, Transition, CanTransition
<1>6. ASSUME NEW n \in Nodes, NEW t, NEW cs, PauseNodeAndRun(n, t, cs)
      PROVE  CompletionKept /\ UNCHANGED <<result, delivers>>
  BY <1>0, <1>6 DEF PauseNodeAndRun, CanPause, CanTransition
<1>7. ASSUME NEW c, ClaimRunForResume(c) PROVE CompletionKept /\ UNCHANGED <<result, delivers>>
  BY <1>0, <1>7 DEF ClaimRunForResume, CanResume
<1>8. CASE Ends
  <2>1. ASSUME NEW n \in Nodes
        PROVE  /\ node'[n] = "completed" <=> node[n] = "completed"
               /\ node[n] = "completed" => attempt'[n] = attempt[n]
    <3>1. NodeEnds(n)
      BY <1>8 DEF Ends
    <3> QED BY <3>1 DEF NodeEnds, CopiesBehind, TerminalNode
  <2> QED BY <1>8, <2>1 DEF Ends
<1> QED BY <1>1, <1>3, <1>4, <1>6, <1>7, <1>8 DEF StoreStep

LEMMA CompleteBacks ==
    ASSUME Typed, ResultsBacked, DeliversBacked, NEW n \in Nodes, NEW t \in Nat, Complete(n, t)
    PROVE  /\ ResultsBacked' /\ DeliversBacked'
           /\ \A m \in Nodes : node[m] = "completed" => node'[m] = "completed"
<1>0. /\ node \in [Nodes -> NodeStatus] /\ attempt \in [Nodes -> 0..MaxAttempt]
      /\ delivers \in [Nodes -> SUBSET Items]
  BY DEF Typed, StoreTyped, StoreTypeOK
<1>1. /\ node[n] = "running" /\ attempt[n] = t
      /\ node' = [node EXCEPT ![n] = "completed"] /\ UNCHANGED attempt
      /\ result' = result \cup {<<n, t>>}
      /\ \E given : delivers' = [delivers EXCEPT ![n] = given]
  BY DEF Complete, CanComplete, CanTransition
<1>2. ASSUME NEW m \in Nodes, NEW u \in 1..MaxAttempt
      PROVE  <<m, u>> \in result' <=> node'[m] = "completed" /\ attempt'[m] = u
  <2>1. <<m, u>> \in result <=> node[m] = "completed" /\ attempt[m] = u
    BY DEF ResultsBacked
  <2>2. CASE m = n
    BY <1>0, <1>1, <2>1, <2>2
  <2>3. CASE m # n
    BY <1>0, <1>1, <2>1, <2>3
  <2> QED BY <2>2, <2>3
<1>3. DeliversBacked'
  BY <1>0, <1>1 DEF DeliversBacked
<1>4. \A m \in Nodes : node[m] = "completed" => node'[m] = "completed"
  BY <1>0, <1>1
<1> QED BY <1>2, <1>3, <1>4 DEF ResultsBacked, MaxAttempt

LEMMA BackingInductive ==
    ASSUME Typed, Backing, StoreStep, [Next]_vars
    PROVE  /\ Backing'
           /\ \A n \in Nodes : node[n] = "completed" => node'[n] = "completed"
<1> USE DEF Backing
<1>1. /\ ResultsBacked' /\ DeliversBacked'
      /\ \A n \in Nodes : node[n] = "completed" => node'[n] = "completed"
  <2>1. CASE \E n \in Nodes, t \in Nat : Complete(n, t)
    BY <2>1, CompleteBacks
  <2>2. CASE \A n \in Nodes, t \in Nat : ~Complete(n, t)
    <3>1. CompletionKept /\ UNCHANGED <<result, delivers>>
      BY <2>2, MoveKeepsCompletions
    <3> QED BY <3>1 DEF CompletionKept, ResultsBacked, DeliversBacked, MaxAttempt
  <2> QED BY <2>1, <2>2
<1>2. CopiesBehind'
  <2>1. ASSUME NEW a \in Actors, NEW n \in Nodes, row'[a].node[n] = "completed"
        PROVE  node'[n] = "completed"
    <3>1. row'[a] \in {row[a], Row, NoRow}
      BY CopiesFollow
    <3>2. NoRow.node[n] = "pending" /\ Row.node[n] = node[n]
      BY DEF NoRow, Row
    <3> QED BY <1>1, <2>1, <3>1, <3>2 DEF CopiesBehind
  <2> QED BY <2>1 DEF CopiesBehind
<1>0. node \in [Nodes -> NodeStatus]
  BY DEF Typed, StoreTyped, StoreTypeOK
<1>3. OpenNotCancelled'
  <2> USE DEF OpenNotCancelled
  <2>1. CASE Quiet \/ ClaimPlan
    BY <2>1 DEF Quiet, ClaimPlan
  <2>2. ASSUME NEW n \in Nodes, \/ ClaimNode(n) \/ \E t \in Nat : Complete(n, t)
                                \/ \E t : \E cs : PauseNodeAndRun(n, t, cs)
        PROVE  OpenNotCancelled'
    BY <1>0, <2>2 DEF ClaimNode, CanClaimNode, Complete, CanComplete, PauseNodeAndRun, CanPause,
                      CanTransition, Active, TerminalRun
  <2>3. CASE NodeMoves
    BY <1>0, <2>3 DEF NodeMoves, Transition, CanTransition, Active, TerminalRun
  <2>4. ASSUME NEW c, ClaimRunForResume(c) PROVE OpenNotCancelled'
    BY <1>0, <2>4 DEF ClaimRunForResume, CanResume, TerminalRun
  <2>5. CASE Ends
    BY <2>5 DEF Ends
  <2> QED BY <2>1, <2>2, <2>3, <2>4, <2>5 DEF StoreStep
<1>4. Fresh'
  <2> USE DEF Fresh
  <2>1. CASE Quiet \/ ClaimPlan
    BY <2>1 DEF Quiet, ClaimPlan
  <2>2. ASSUME NEW n \in Nodes, \/ ClaimNode(n) \/ \E t \in Nat : Complete(n, t)
                                \/ \E t : \E cs : PauseNodeAndRun(n, t, cs)
        PROVE  Fresh'
    BY <2>2 DEF ClaimNode, CanClaimNode, Complete, CanComplete, PauseNodeAndRun, CanPause,
                CanTransition, Active
  <2>3. CASE NodeMoves
    BY <2>3 DEF NodeMoves, Transition, CanTransition, Active
  <2>4. ASSUME NEW c, ClaimRunForResume(c) PROVE Fresh'
    BY <2>4 DEF ClaimRunForResume, CanResume
  <2>5. CASE Ends
    BY <2>5 DEF Ends, TerminalRun
  <2> QED BY <2>1, <2>2, <2>3, <2>4, <2>5 DEF StoreStep
<1> QED BY <1>1, <1>2, <1>3, <1>4

(* What Completed means to the scheduler and to finalization.              *)
LEMMA CompletedNodes ==
    ASSUME Typed, ResultsBacked PROVE Completed = NodesIn("completed")
<1>1. \A n \in Nodes : node[n] = "completed" => attempt[n] \in 1..MaxAttempt
  BY DEF Typed, StoreTyped, StoreTypeOK, Counted, MaxAttempt
<1>2. \A n \in Nodes : node[n] = "completed" <=> \E t \in 1..MaxAttempt : <<n, t>> \in result
  BY <1>1 DEF ResultsBacked
<1> QED BY <1>2 DEF Completed, NodesIn

LEMMA BackedIsCompletedBacked ==
    ASSUME Typed, ResultsBacked PROVE CompletedBacked
<1> SUFFICES ASSUME NEW n \in Nodes
             PROVE  /\ node[n] = "completed" <=> <<n, attempt[n]>> \in result
                    /\ Cardinality({t \in 1..MaxAttempt : <<n, t>> \in result}) =< 1
  BY DEF CompletedBacked
<1>1. node[n] = "completed" => attempt[n] \in 1..MaxAttempt
  BY DEF Typed, StoreTyped, StoreTypeOK, Counted, MaxAttempt
<1>2. \A t \in 1..MaxAttempt : <<n, t>> \in result <=> node[n] = "completed" /\ attempt[n] = t
  BY DEF ResultsBacked
<1>3. node[n] = "completed" <=> <<n, attempt[n]>> \in result
  <2>1. <<n, attempt[n]>> \in result => attempt[n] \in 1..MaxAttempt
    BY DEF Typed, StoreTyped, StoreTypeOK
  <2> QED BY <1>1, <1>2, <2>1
<1>4. \/ {t \in 1..MaxAttempt : <<n, t>> \in result} = {}
      \/ {t \in 1..MaxAttempt : <<n, t>> \in result} = {attempt[n]}
  BY <1>1, <1>2
<1>5. Cardinality({}) = 0 /\ Cardinality({attempt[n]}) = 1
  BY FS_EmptySet, FS_Singleton
<1>6. Cardinality({t \in 1..MaxAttempt : <<n, t>> \in result}) \in {0, 1}
  BY <1>4, <1>5
<1> QED BY <1>3, <1>6

(* The store's half of the invariant.                                      *)
StoreSafe == Typed /\ PlanRunAgree /\ WaitingConsistent /\ Backing

LEMMA StoreSafeInit == Init => StoreSafe
<1> SUFFICES ASSUME Init PROVE StoreSafe
  OBVIOUS
<1>1. Typed
  BY InitTyped
<1>2. PlanRunAgree /\ WaitingConsistent
  BY DEF Init, StoreInit, PlanRunAgree, TerminalRun, WaitingConsistent, NodesIn
<1>3. ResultsBacked /\ OpenNotCancelled /\ Fresh /\ DeliversBacked
  BY DEF Init, StoreInit, ResultsBacked, OpenNotCancelled, Fresh, DeliversBacked
<1>4. CopiesBehind
  BY DEF Init, CopiesBehind, NoRow
<1> QED BY <1>1, <1>2, <1>3, <1>4 DEF StoreSafe, Backing

LEMMA StoreSafeInductive ==
    ASSUME StoreSafe, [Next]_vars
    PROVE  /\ StoreSafe' /\ StoreStep
           /\ \A n \in Nodes : node[n] = "completed" => node'[n] = "completed"
<1> USE DEF StoreSafe
<1>1. Typed' /\ PlanRunAgree'
  BY TypedInductive, TypedIsTypeOK, KeepsInductive DEF Keeps
<1>2. StoreStep
  BY <1>1, StoreSteps
<1> QED BY <1>1, <1>2, WaitingInductive, BackingInductive

LEMMA StoreSafeAlways == Spec => []StoreSafe
<1>1. Init => StoreSafe
  BY StoreSafeInit
<1>2. StoreSafe /\ [Next]_vars => StoreSafe'
  BY StoreSafeInductive
<1> QED BY <1>1, <1>2, PTL DEF Spec

(* The run waits exactly when one node waits, and then the SDK state in    *)
(* agent_runs.paused_state is that node's: node, run, state and inbox item *)
(* are paused and resumed in one transaction each.                         *)
THEOREM PauseIsOneFact == Spec => []WaitingConsistent
<1>1. StoreSafe => WaitingConsistent
  BY DEF StoreSafe
<1> QED BY <1>1, StoreSafeAlways, PTL

(* A node is completed exactly when its current attempt has stored its     *)
(* result in skill_node_results, and it has stored one only: a late        *)
(* attempt, or the node list of an old copy, cannot add or lose one.       *)
THEOREM CompletedNodesAreBacked == Spec => []CompletedBacked
<1>1. StoreSafe => CompletedBacked
  BY BackedIsCompletedBacked DEF StoreSafe, Backing
<1> QED BY <1>1, StoreSafeAlways, PTL

-----------------------------------------------------------------------------
(* Who drives.                                                             *)

(* A resume that has failed or completed its node drives on before it is   *)
(* back in the loop.                                                       *)
Drives(a) == Driving(a) \/ (a \in Resumers /\ pc[a] = "begin")

(* What a step of an actor means for the others: it drives after a claim   *)
(* of the plan or of the waiting run only, and stops when the run waits.   *)
Moves(a) ==
    /\ Drives(a)' => Drives(a) \/ ClaimPlan \/ \E c : ClaimRunForResume(c)
    /\ run' = "waiting_approval" => run = "waiting_approval" \/ (Drives(a) /\ ~Drives(a)')
    /\ a = Executor /\ pc'[a] \in {"idle", "begin"} => pc[a] \in {"idle", "begin"}
    /\ plan' = "running" => plan = "running" \/ (a = Executor /\ pc'[a] = "loop")
    /\ \A n \in Nodes : node'[n] = "running" =>
            \/ node[n] = "running"
            \/ pc[a] = "batch"
            \/ \E c : ClaimRunForResume(c)
            \/ run' \in TerminalRun
    /\ pc'[a] = "marking" =>
            \/ pc[a] = "marking" /\ batch'[a] = batch[a]
            \/ \A m \in batch'[a] : Runnable(m)
    /\ life = "down" /\ pc[a] \in {"idle", "done"} => pc'[a] \in {"idle", "done"}
    /\ life' = "down" => life = "down"

LEMMA FinishMoves ==
    ASSUME NEW copy, NEW end \in TerminalRun, NEW to, NEW err, NEW p, Finish(copy, end, to, err, p)
    PROVE  run' \in TerminalRun /\ plan' \in TerminalRun
BY DEF Finish

LEMMA EndingMoves ==
    ASSUME NEW a \in Actors, \/ ModelMissing(a) \/ BeginSynthesis(a) \/ FinishPlan(a)
                             \/ CancelExecution(a) \/ FailRun(a) \/ FailNode(a)
    PROVE  UNCHANGED store \/ (run' \in TerminalRun /\ plan' \in TerminalRun)
<1>1. \A r : Endings(r) \subseteq TerminalRun
  BY DEF Endings, TerminalRun
<1>2. "failed" \in TerminalRun /\ "cancelled" \in TerminalRun
  BY DEF TerminalRun
<1>3. CASE ModelMissing(a) \/ BeginSynthesis(a)
  BY <1>2, <1>3, FinishMoves DEF ModelMissing, BeginSynthesis
<1>4. CASE FinishPlan(a)
  BY <1>1, <1>4, FinishMoves DEF FinishPlan
<1>5. CASE CancelExecution(a)
  BY <1>2, <1>5, EarlyEndTerminal, FinishMoves DEF CancelExecution
<1>6. CASE FailRun(a)
  BY <1>6, EarlyEndTerminal, FinishMoves DEF FailRun
<1>7. CASE FailNode(a)
  BY <1>2, <1>7, FinishMoves DEF FailNode
<1> QED BY <1>3, <1>4, <1>5, <1>6, <1>7

LEMMA ExecutionMoves ==
    ASSUME Typed, NEW a \in Actors, ExecutionStep(a) \/ RunTimeout(a)
    PROVE  Moves(a)
<1> USE DEF Moves, Drives, Driving, Go, Over, Raised, TransitionConflict, work, process
<1>0. /\ pc \in [Actors -> Label]
      /\ batch \in [Actors -> SUBSET Nodes]
      /\ node \in [Nodes -> NodeStatus]
  BY DEF Typed, ActorTyped, ActorTypeOK, StoreTyped, StoreTypeOK
<1>1. CASE LoopStops(a) \/ ChooseBatch(a) \/ LoopEnds(a)
  BY <1>0, <1>1 DEF LoopStops, ChooseBatch, LoopEnds, FirstOf, store, flow
<1>2. CASE SkipNode(a) \/ MarkReady(a)
  BY <1>0, <1>2 DEF SkipNode, MarkReady, Transition, store, flow
<1>3. CASE ClaimBatchNode(a) \/ QuiesceStopsBatch(a) \/ NodeOutcome(a) \/ JoinBatch(a)
  BY <1>0, <1>3 DEF ClaimBatchNode, ClaimNode, QuiesceStopsBatch, NodeOutcome, JoinBatch, store, flow
<1>4. CASE SettleNode(a)
  BY <1>0, <1>4 DEF SettleNode, Transition, Complete, store, flow
<1>5. CASE RescheduleExtra(a) \/ SettleEnds(a)
  BY <1>0, <1>5 DEF RescheduleExtra, SettleEnds, Transition, store, flow
<1>6. CASE PersistPause(a)
  BY <1>0, <1>6 DEF PersistPause, PauseNodeAndRun, store, flow
<1>7. CASE SynthesisFails(a) \/ RunTimeout(a) \/ ReadCancelled(a) \/ ReadFailure(a) \/ ReadNodeFailure(a)
  BY <1>0, <1>7 DEF SynthesisFails, RunTimeout, ReadCancelled, ReadFailure, ReadNodeFailure, store, flow
<1>8. CASE SealSynthesis(a)
  BY <1>0, <1>8 DEF SealSynthesis, SealArtifact
<1>9. CASE \/ ModelMissing(a) \/ BeginSynthesis(a) \/ FinishPlan(a) \/ CancelExecution(a)
           \/ FailRun(a) \/ FailNode(a)
  <2>1. UNCHANGED store \/ (run' \in TerminalRun /\ plan' \in TerminalRun)
    BY <1>9, EndingMoves
  <2> QED BY <1>0, <1>9, <2>1 DEF ModelMissing, BeginSynthesis, FinishPlan, CancelExecution, FailRun,
                                  FailNode, store, flow, TerminalRun
<1> QED BY <1>1, <1>2, <1>3, <1>4, <1>5, <1>6, <1>7, <1>8, <1>9 DEF ExecutionStep

LEMMA ResumeMoves ==
    ASSUME Typed, NEW r \in Resumers, RouteRead(r) \/ ResumeStep(r)
    PROVE  Moves(r)
<1> USE DEF Moves, Drives, Driving, Go, Over, Raised, work, process
<1> r \in Actors /\ r # Executor
  BY ResumerIsActor, ActorsDistinct
<1>0. /\ pc \in [Actors -> Label]
      /\ node \in [Nodes -> NodeStatus]
      /\ pauses[r] \subseteq Nodes
  BY DEF Typed, ActorTyped, ActorTypeOK, StoreTyped, StoreTypeOK
<1>1. CASE RouteRead(r) \/ ContinueExecution(r) \/ ResumeBegin(r)
  BY <1>0, <1>1 DEF RouteRead, ContinueExecution, ResumeBegin, store, flow
<1>2. CASE ResumeClaim(r) \/ ClaimRevoked(r)
  BY <1>0, <1>2 DEF ResumeClaim, ClaimRevoked, Claimed, ClaimRunForResume, CanResume, store, flow
<1>3. CASE FailRevokedNode(r)
  BY <1>0, <1>3 DEF FailRevokedNode, Transition, store, flow
<1>4. CASE RunResumed(r) \/ ToolAnswers(r) \/ ResumedOutcome(r)
  BY <1>0, <1>4 DEF RunResumed, ToolAnswers, ResumedOutcome, ClaimToolCall, FinishToolCall, store, flow
<1>5. CASE CompleteResumedNode(r) \/ Converge(r)
  BY <1>0, <1>5 DEF CompleteResumedNode, Converge, Complete, store, flow
<1>6. CASE RouteSavesPaused(r) \/ RouteDone(r) \/ RouteError(r)
  BY <1>0, <1>6 DEF RouteSavesPaused, RouteDone, RouteError, Answered, SaveInbox, store, flow
<1> QED BY <1>1, <1>2, <1>3, <1>4, <1>5, <1>6 DEF ResumeStep

(* The starts of the executor's task.                                      *)
LEMMA StartMoves ==
    ASSUME Typed, StartStep PROVE OthersStay(Executor) /\ Moves(Executor)
<1>0. pc \in [Actors -> Label] /\ Executor \in Actors /\ Executor \notin Resumers
  BY ResumerIsActor, ActorsDistinct DEF Typed, ActorTyped, ActorTypeOK
<1>1. OthersStay(Executor)
  BY <1>0 DEF StartStep, StartDispatch, BeginExecution, OthersStay, Mine, Go, work
<1>2. /\ pc[Executor] \in {"idle", "begin"} /\ UNCHANGED <<run, node, life>>
      /\ \/ pc'[Executor] \in {"begin", "done", "fail_run_read"} /\ UNCHANGED plan
         \/ pc'[Executor] = "loop" /\ ClaimPlan
      /\ pc[Executor] = "idle" => life # "down"
  BY <1>0 DEF StartStep, StartDispatch, BeginExecution, ClaimDispatch, ClaimPlan, Go, process,
              store, flow
<1> QED BY <1>0, <1>1, <1>2 DEF Moves, Drives, Driving

(* Nobody moves when the user, the clock or an operator acts.              *)
LEMMA EnvironmentMoves ==
    ASSUME Typed, (Environment /\ ~Crash) \/ UNCHANGED vars
    PROVE  /\ OthersStay(Executor) /\ Moves(Executor) /\ UNCHANGED <<pc, batch, out, pauses, row>>
           /\ run' \in TerminalRun \/ UNCHANGED <<run, plan, node>>
<1>1. UNCHANGED <<pc, batch, out, pauses, row>> /\ (life' = "down" => life = "down")
  BY DEF Environment, Cancel, Expire, Quiesce, Startup, QuiesceOffline, Rest, vars, work, process
<1>2. \/ run' \in TerminalRun /\ plan' \in TerminalRun
      \/ UNCHANGED <<run, plan, node>>
  <2>1. EarlyEnd \subseteq TerminalRun /\ "cancelled" \in TerminalRun
    BY EarlyEndTerminal DEF TerminalRun
  <2>2. CancelFlow => run' \in TerminalRun /\ plan' \in TerminalRun
    BY <2>1 DEF CancelFlow
  <2>3. CASE Startup
    BY <2>1, <2>2, <2>3 DEF Startup, Reconcile, ReconcilePending, ReconcileWaiting, ReconcileExpired,
                  ReconcileRunning, ReconcileSettled, store, flow
  <2>4. CASE QuiesceOffline
    BY <2>1, <2>4 DEF QuiesceOffline, QuiesceRun, QuiesceEndedRun, flow
  <2>5. CASE Cancel \/ Expire
    BY <2>2, <2>5 DEF Cancel, Expire, ExpireApproval, CancelTree
  <2>6. CASE Quiesce \/ Rest \/ UNCHANGED vars
    BY <2>6 DEF Quiesce, Rest, vars, store, flow
  <2> QED BY <2>3, <2>4, <2>5, <2>6 DEF Environment
<1>3. Moves(Executor)
  BY <1>1, <1>2 DEF Moves, Drives, Driving, TerminalRun
<1> QED BY <1>1, <1>2, <1>3, ResumerIsActor DEF OthersStay, Mine

(* Nothing but a crash happens to all of them at once.                     *)
LEMMA OneMoves ==
    ASSUME Typed, [Next]_vars
    PROVE  \/ \E a \in Actors : OthersStay(a) /\ Moves(a)
           \/ Crash
BY ExecutionOthers, ResumeOthers, ExecutionMoves, ResumeMoves, StartMoves, EnvironmentMoves, ResumerIsActor
   DEF Next, Environment

-----------------------------------------------------------------------------
(* Dependencies.                                                           *)

Begun == {"ready", "running", "waiting_tool_approval", "completed"}
DepsMet(nodes) == \A n \in Nodes : nodes[n] \in Begun => Deps[n] \subseteq NodesIn("completed")

(* What has begun in the store, in a caller's copy, or in a batch being    *)
(* marked, has everything it depends on.                                   *)
Ordered ==
    /\ DepsMet(node)
    /\ \A a \in Actors : /\ DepsMet(row[a].node)
                         /\ pc[a] = "marking" => \A m \in batch[a] : Deps[m] \subseteq NodesIn("completed")

LEMMA OrderedInductive ==
    ASSUME StoreSafe, Ordered, [Next]_vars
    PROVE  Ordered'
<1>0. /\ Deps \in [Nodes -> SUBSET Nodes]
      /\ node \in [Nodes -> NodeStatus]
      /\ batch \in [Actors -> SUBSET Nodes]
  BY DepsAcyclic DEF StoreSafe, Typed, StoreTyped, StoreTypeOK, ActorTyped, ActorTypeOK
<1>1. StoreStep /\ NodesIn("completed") \subseteq NodesIn("completed")'
  BY StoreSafeInductive DEF NodesIn
<1>2. DepsMet(node)'
  <2>1. ASSUME NEW n \in Nodes, node'[n] \in Begun
        PROVE  \/ node[n] \in Begun
               \/ \E a \in Actors : row[a].node[n] \in Begun
               \/ \E a \in Actors : pc[a] = "marking" /\ n \in batch[a]
    <3> USE DEF Begun
    <3>1. CASE Quiet \/ ClaimPlan
      BY <2>1, <3>1 DEF Quiet, ClaimPlan
    <3>2. ASSUME NEW m \in Nodes, \/ ClaimNode(m) \/ \E t \in Nat : Complete(m, t)
                                  \/ \E t : \E cs : PauseNodeAndRun(m, t, cs)
          PROVE  node[n] \in Begun
      BY <1>0, <2>1, <3>2 DEF ClaimNode, CanClaimNode, Complete, CanComplete, PauseNodeAndRun,
                              CanPause, CanTransition
    <3>3. CASE NodeMoves
      BY <1>0, <2>1, <3>3 DEF NodeMoves, Transition, CanTransition
    <3>4. ASSUME NEW c, ClaimRunForResume(c) PROVE node[n] \in Begun
      BY <1>0, <2>1, <3>4 DEF ClaimRunForResume, CanResume
    <3>5. CASE Ends
      BY <2>1, <3>5 DEF Ends, NodeEnds
    <3> QED BY <1>1, <3>1, <3>2, <3>3, <3>4, <3>5 DEF StoreStep
  <2> QED BY <1>1, <2>1 DEF Ordered, DepsMet
<1>3. ASSUME NEW a \in Actors PROVE DepsMet(row[a].node)'
  <2>1. row'[a] \in {row[a], Row, NoRow}
    BY CopiesFollow DEF StoreSafe
  <2>2. \A n \in Nodes : NoRow.node[n] \notin Begun /\ Row.node[n] = node[n]
    BY DEF NoRow, Row, Begun
  <2> QED BY <1>1, <2>1, <2>2 DEF Ordered, DepsMet
<1>4. ASSUME NEW a \in Actors, pc'[a] = "marking", NEW m \in batch'[a]
      PROVE  Deps[m] \subseteq NodesIn("completed")'
  <2>1. CASE Crash
    BY <1>4, <2>1 DEF Crash
  <2>2. ASSUME NEW b \in Actors, OthersStay(b), Moves(b), a # b
        PROVE  pc[a] = "marking" /\ batch'[a] = batch[a]
    BY <1>4, <2>2 DEF OthersStay, Mine
  <2>3. CASE Moves(a)
    <3>1. CASE Runnable(m) /\ m \in Nodes
      BY <1>0, <1>1, <3>1 DEF Runnable, NodesIn
    <3>2. CASE pc[a] = "marking" /\ batch'[a] = batch[a]
      BY <1>1, <1>4, <3>2 DEF Ordered
    <3>3. m \in Nodes
      BY <1>4, StoreSafeInductive DEF StoreSafe, Typed, ActorTyped, ActorTypeOK
    <3> QED BY <1>4, <2>3, <3>1, <3>2, <3>3 DEF Moves
  <2> QED BY <1>1, <1>4, <2>1, <2>2, <2>3, OneMoves DEF Ordered, StoreSafe
<1> QED BY <1>2, <1>3, <1>4 DEF Ordered

LEMMA OrderedInit == Init => Ordered
<1> SUFFICES ASSUME Init PROVE Ordered
  OBVIOUS
<1>1. \A n \in Nodes : node[n] \notin Begun /\ NoRow.node[n] \notin Begun
  BY DEF Init, StoreInit, NoRow, Begun
<1> QED BY <1>1 DEF Init, Ordered, DepsMet

(* A node is made ready, and so runs, waits and completes, only on the     *)
(* completed results of all it depends on; neither a pause, a resume nor   *)
(* a stale copy written back at the end breaks the order.                  *)
THEOREM DependenciesFirst == Spec => []DependencyOrder
<1>1. Init => Ordered
  BY OrderedInit
<1>2. StoreSafe /\ Ordered /\ [Next]_vars => Ordered'
  BY OrderedInductive
<1>3. StoreSafe /\ Ordered => DependencyOrder
  BY CompletedNodes DEF StoreSafe, Backing, Ordered, DepsMet, DependencyOrder, Begun
<1> QED BY <1>1, <1>2, <1>3, StoreSafeAlways, PTL DEF Spec

-----------------------------------------------------------------------------
(* One driver.                                                             *)

(* Nobody drives a plan that has not started or waits, and one actor a     *)
(* plan that goes on; the executor's task starts it once.                  *)
Lone ==
    /\ pc[Executor] \in {"idle", "begin"} => plan # "running"
    /\ plan = "approved" \/ run = "waiting_approval" => \A a \in Actors : ~Drives(a)
    /\ Active => \A a, b \in Actors : Drives(a) /\ Drives(b) => a = b

(* What makes a run active or waiting.                                     *)
LEMMA RunFollows ==
    ASSUME StoreStep
    PROVE  /\ plan' = "approved" => plan = "approved" /\ run' = run
           /\ run' = "waiting_approval" => run = "waiting_approval" \/ Active
           /\ Active' => Active \/ run = "waiting_approval" \/ plan = "approved"
<1> USE DEF Active
<1>1. CASE Quiet \/ ClaimPlan
  BY <1>1 DEF Quiet, ClaimPlan
<1>2. ASSUME NEW n \in Nodes, \/ ClaimNode(n) \/ \E t \in Nat : Complete(n, t)
                              \/ \E t : \E cs : PauseNodeAndRun(n, t, cs)
      PROVE  Active /\ plan' = plan
  BY <1>2 DEF ClaimNode, CanClaimNode, Complete, CanComplete, PauseNodeAndRun, CanPause, CanTransition
<1>3. CASE NodeMoves
  BY <1>3 DEF NodeMoves, Transition, CanTransition
<1>4. ASSUME NEW c, ClaimRunForResume(c)
      PROVE  run = "waiting_approval" /\ plan = "running" /\ Active'
  BY <1>4 DEF ClaimRunForResume, CanResume
<1>5. CASE Ends
  BY <1>5 DEF Ends, TerminalRun
<1> QED BY <1>1, <1>2, <1>3, <1>4, <1>5 DEF StoreStep

LEMMA LoneInductive ==
    ASSUME StoreSafe, Lone, [Next]_vars
    PROVE  Lone'
<1>1. StoreStep
  BY StoreSafeInductive
<1>2. CASE Crash
  <2>1. \A a \in Actors : ~Drives(a)'
    BY <1>2 DEF Crash, Drives, Driving
  <2>2. UNCHANGED plan /\ (pc'[Executor] \in {"idle", "begin"} => pc[Executor] \in {"idle", "begin"})
    BY <1>2, ResumerIsActor DEF Crash, store, flow
  <2> QED BY <2>1, <2>2 DEF Lone
<1>3. ASSUME NEW a \in Actors, OthersStay(a), Moves(a)
      PROVE  Lone'
  <2>1. \A b \in Actors : b # a => pc'[b] = pc[b] /\ (Drives(b)' <=> Drives(b))
    BY <1>3 DEF OthersStay, Mine, Drives, Driving
  <2>2. Drives(a)' => \/ Drives(a)
                      \/ run = "running" /\ plan = "approved" /\ Active'
                      \/ run = "waiting_approval" /\ Active'
    BY <1>3 DEF Moves, ClaimPlan, ClaimRunForResume, CanResume, Active
  <2>3. pc'[Executor] \in {"idle", "begin"} => plan' # "running"
    BY <1>3, <2>1, ResumerIsActor DEF Moves, Lone
  <2>4. ASSUME plan' = "approved" \/ run' = "waiting_approval", NEW b \in Actors PROVE ~Drives(b)'
    <3>1. CASE plan = "approved" \/ run = "waiting_approval"
      BY <1>1, <2>1, <2>2, <2>4, <3>1, RunFollows DEF Lone, Active
    <3>2. CASE ~(plan = "approved" \/ run = "waiting_approval")
      <4>1. Active /\ Drives(a) /\ ~Drives(a)'
        BY <1>1, <1>3, <2>4, <3>2, RunFollows DEF Moves
      <4> QED BY <2>1, <4>1 DEF Lone
    <3> QED BY <3>1, <3>2
  <2>5. ASSUME Active', NEW b \in Actors, NEW c \in Actors, Drives(b)', Drives(c)' PROVE b = c
    <3>1. CASE Active
      BY <2>1, <2>2, <2>5, <3>1 DEF Lone, Active
    <3>2. CASE ~Active
      <4>1. \A d \in Actors : ~Drives(d)
        BY <1>1, <2>5, <3>2, RunFollows DEF Lone
      <4> QED BY <2>1, <2>5, <4>1
    <3> QED BY <3>1, <3>2
  <2> QED BY <2>3, <2>4, <2>5 DEF Lone
<1> QED BY <1>2, <1>3, OneMoves DEF StoreSafe

LEMMA LoneAlways == Spec => []Lone
<1>1. Init => Lone
  BY DEF Init, StoreInit, Lone, Drives, Driving, Active
<1>2. StoreSafe /\ Lone /\ [Next]_vars => Lone'
  BY LoneInductive
<1> QED BY <1>1, <1>2, StoreSafeAlways, PTL DEF Spec

(* One actor at a time drives an active run: the executor's task until it  *)
(* pauses, then the one request whose claim of the waiting run succeeded,  *)
(* however many requests answer the same pause.                            *)
THEOREM OneActorDrives == Spec => []OneDriver
<1>1. ASSUME Lone PROVE OneDriver
  <2> SUFFICES ASSUME Active PROVE Cardinality({a \in Actors : Driving(a)}) =< 1
    BY DEF OneDriver
  <2>1. CASE {a \in Actors : Driving(a)} = {}
    BY <2>1, FS_EmptySet
  <2>2. ASSUME NEW a \in Actors, Driving(a) PROVE Cardinality({b \in Actors : Driving(b)}) =< 1
    <3>1. {b \in Actors : Driving(b)} = {a}
      BY <1>1, <2>2 DEF Lone, Drives
    <3>2. Cardinality({a}) = 1
      BY FS_Singleton
    <3> QED BY <3>1, <3>2
  <2> QED BY <2>1, <2>2
<1> QED BY <1>1, LoneAlways, PTL

-----------------------------------------------------------------------------
(* Approved calls.                                                         *)

(* A request has won from its claim on, and not before it has read.        *)
Decided == \A r \in Resumers : /\ pc[r] = "idle" => ~won[r]
                               /\ pc[r] = "stream" => won[r]

(* What a step may do to the decision of each request and to the ledger:   *)
(* a decision is fixed when the item is read.                              *)
DecisionsKept ==
    /\ \A r \in Resumers :
          /\ \/ pc[r] = "idle" /\ won'[r] = won[r] /\ pc'[r] # "stream"
             \/ /\ call'[r] = call[r] /\ approve'[r] = approve[r]
                /\ won'[r] = won[r] \/ won'[r]
                /\ pc'[r] # "idle"
                /\ pc'[r] = "stream" => won'[r] \/ pc[r] = "stream"
    /\ \A c \in Calls : ledger'[c] # "none" =>
          \/ ledger[c] # "none"
          \/ \E r \in Resumers : pc[r] = "stream" /\ approve[r] /\ call[r] = c

LEMMA ExecutionDecisions ==
    ASSUME Typed, NEW a \in Actors, ExecutionStep(a) \/ RunTimeout(a)
    PROVE  UNCHANGED <<call, approve, won, ledger>> /\ pc'[a] \notin {"idle", "stream"}
<1> USE DEF Go, Over, Raised, TransitionConflict, request
<1>0. pc \in [Actors -> Label]
  BY DEF Typed, ActorTyped, ActorTypeOK
<1>1. CASE \/ LoopStops(a) \/ SkipNode(a) \/ ChooseBatch(a) \/ MarkReady(a) \/ LoopEnds(a)
  BY <1>0, <1>1 DEF LoopStops, SkipNode, ChooseBatch, MarkReady, LoopEnds, Transition, store
<1>2. CASE \/ ClaimBatchNode(a) \/ QuiesceStopsBatch(a) \/ NodeOutcome(a) \/ JoinBatch(a)
  BY <1>0, <1>2 DEF ClaimBatchNode, ClaimNode, QuiesceStopsBatch, NodeOutcome, JoinBatch, store
<1>3. CASE SettleNode(a) \/ RescheduleExtra(a)
  BY <1>0, <1>3 DEF SettleNode, RescheduleExtra, Transition, Complete, store
<1>4. CASE SettleEnds(a) \/ PersistPause(a)
  BY <1>0, <1>4 DEF SettleEnds, PersistPause, PauseNodeAndRun, store
<1>5. CASE \/ BeginSynthesis(a) \/ SealSynthesis(a) \/ FinishPlan(a)
           \/ SynthesisFails(a) \/ RunTimeout(a) \/ ModelMissing(a)
  BY <1>0, <1>5 DEF BeginSynthesis, SealSynthesis, SealArtifact, FinishPlan, SynthesisFails,
                    RunTimeout, ModelMissing, Finish, store
<1>6. CASE ReadCancelled(a) \/ CancelExecution(a) \/ ReadFailure(a)
  BY <1>0, <1>6 DEF ReadCancelled, CancelExecution, ReadFailure, Finish, store
<1>7. CASE FailRun(a) \/ ReadNodeFailure(a) \/ FailNode(a)
  BY <1>0, <1>7 DEF FailRun, ReadNodeFailure, FailNode, Finish, store
<1> QED BY <1>1, <1>2, <1>3, <1>4, <1>5, <1>6, <1>7 DEF ExecutionStep

LEMMA ResumeDecisions ==
    ASSUME Typed, NEW r \in Resumers, RouteRead(r) \/ ResumeStep(r)
    PROVE  DecisionsKept
<1> USE DEF DecisionsKept, Go, Over, Raised, request
<1>0. /\ pc \in [Actors -> Label] /\ Resumers \subseteq Actors
      /\ call \in [Resumers -> Calls]
      /\ approve \in [Resumers -> BOOLEAN]
      /\ won \in [Resumers -> BOOLEAN]
      /\ ledger \in [Calls -> CallStatus]
  BY ResumerIsActor DEF Typed, ActorTyped, ActorTypeOK, StoreTyped, StoreTypeOK
<1>1. CASE RouteRead(r)
  BY <1>0, <1>1 DEF RouteRead, store
<1>2. CASE ContinueExecution(r) \/ ResumeBegin(r)
  BY <1>0, <1>2 DEF ContinueExecution, ResumeBegin, store
<1>3. CASE ResumeClaim(r)
  BY <1>0, <1>3 DEF ResumeClaim, Claimed, ClaimRunForResume, store
<1>4. CASE ClaimRevoked(r)
  BY <1>0, <1>4 DEF ClaimRevoked, Claimed, ClaimRunForResume, store
<1>5. CASE FailRevokedNode(r)
  BY <1>0, <1>5 DEF FailRevokedNode, Transition, store
<1>6. CASE RunResumed(r)
  BY <1>0, <1>6 DEF RunResumed, ClaimToolCall, store
<1>7. CASE ToolAnswers(r) \/ ResumedOutcome(r)
  BY <1>0, <1>7 DEF ToolAnswers, ResumedOutcome, FinishToolCall, store
<1>8. CASE CompleteResumedNode(r) \/ Converge(r)
  BY <1>0, <1>8 DEF CompleteResumedNode, Converge, Complete, store
<1>9. CASE RouteSavesPaused(r) \/ RouteDone(r) \/ RouteError(r)
  BY <1>0, <1>9 DEF RouteSavesPaused, RouteDone, RouteError, Answered, SaveInbox, store
<1> QED BY <1>1, <1>2, <1>3, <1>4, <1>5, <1>6, <1>7, <1>8, <1>9 DEF ResumeStep

LEMMA DecisionsFollow ==
    ASSUME Typed, [Next]_vars PROVE DecisionsKept
<1>0. pc \in [Actors -> Label] /\ Resumers \subseteq Actors /\ Executor \notin Resumers
  BY ResumerIsActor, ActorsDistinct DEF Typed, ActorTyped, ActorTypeOK
<1> USE DEF DecisionsKept
<1>1. ASSUME NEW a \in Actors, ExecutionStep(a) \/ RunTimeout(a) PROVE DecisionsKept
  <2>1. OthersStay(a) /\ UNCHANGED <<call, approve, won, ledger>> /\ pc'[a] \notin {"idle", "stream"}
    BY <1>1, ExecutionOthers, ExecutionDecisions
  <2> QED BY <1>0, <2>1 DEF OthersStay, Mine
<1>2. CASE StartStep
  <2>1. UNCHANGED <<call, approve, won, ledger>> /\ \A r \in Resumers : pc'[r] = pc[r]
    BY <1>0, <1>2 DEF StartStep, StartDispatch, BeginExecution, ClaimDispatch, ClaimPlan, Go, request, store
  <2> QED BY <1>0, <2>1
<1>3. CASE Environment \/ UNCHANGED vars
  <2>1. UNCHANGED <<call, approve, won>>
    BY <1>3 DEF Environment, Cancel, Expire, Quiesce, Crash, Startup, QuiesceOffline, Rest, vars, request
  <2>2. \A r \in Resumers : pc'[r] = pc[r] \/ (pc[r] # "idle" /\ pc'[r] = "done")
    BY <1>0, <1>3 DEF Environment, Cancel, Expire, Quiesce, Crash, Startup, QuiesceOffline, Rest, vars
  <2>3. \A c \in Calls : ledger'[c] # "none" => ledger[c] # "none"
    BY <1>3 DEF Environment, Cancel, Expire, ExpireApproval, CancelTree, Quiesce, Crash, Startup,
                Reconcile, ReconcilePending, ReconcileWaiting, ReconcileExpired, ReconcileRunning,
                ReconcileSettled, ReconciledLedger, QuiesceOffline, QuiesceRun, QuiesceEndedRun,
                Rest, vars, store
  <2> QED BY <1>0, <2>1, <2>2, <2>3
<1> QED BY <1>1, <1>2, <1>3, ResumeDecisions DEF Next

(* A tool call reaches its provider (claim_runtime_tool_call) only in a    *)
(* request that approved this very call and whose claim of the run won.    *)
THEOREM OnlyApprovedCalls == Spec => []CallsWereApproved
<1>1. Init => Decided /\ CallsWereApproved
  <2> SUFFICES ASSUME Init PROVE Decided /\ CallsWereApproved
    OBVIOUS
  <2> QED BY ResumerIsActor DEF Init, StoreInit, Decided, CallsWereApproved
<1>2. ASSUME Typed, Decided, CallsWereApproved, [Next]_vars
      PROVE  Decided' /\ CallsWereApproved'
  <2>1. DecisionsKept
    BY <1>2, DecisionsFollow
  <2>2. Decided'
    BY <1>2, <2>1 DEF DecisionsKept, Decided
  <2>3. ASSUME NEW c \in Calls, ledger'[c] # "none"
        PROVE  \E r \in Resumers : call'[r] = c /\ approve'[r] /\ won'[r]
    <3>1. PICK r \in Resumers : call[r] = c /\ approve[r] /\ won[r]
      BY <1>2, <2>1, <2>3 DEF DecisionsKept, Decided, CallsWereApproved
    <3> QED BY <1>2, <2>1, <3>1 DEF DecisionsKept, Decided
  <2> QED BY <2>2, <2>3 DEF CallsWereApproved
<1>3. StoreSafe => Typed
  BY DEF StoreSafe
<1> QED BY <1>1, <1>2, <1>3, StoreSafeAlways, PTL DEF Spec

-----------------------------------------------------------------------------
(* Nothing runs behind the driver's back.                                  *)

Resumed == {"stream", "tool", "tool_over", "complete", "revoked_fail", "pause"}

\* The running nodes an actor may know of.
InHand(a) == {n \in Nodes : \/ pc[a] = "batch" /\ n \in batch[a] /\ out[a][n] \notin {"idle", "queued", "conflict"}
                            \/ pc[a] = "settle" /\ n \in batch[a] \cup pauses[a]
                            \/ pc[a] \in Resumed /\ n \in pauses[a]}

\* It knows of all; or it is a late request whose claim moved another node than
\* the one it read, and then its own is not running and it will not go on.
HoldsRunning(a) ==
    \/ NodesIn("running") \subseteq InHand(a)
    \/ pc[a] \in Resumed /\ NodesIn("running") \cap pauses[a] = {}

Hands(a) ==
    /\ pc[a] \in {"marking", "batch"} => \A n \in Nodes : out[a][n] # "idle" => n \in batch[a]
    /\ pc[a] \in {"loop", "marking", "batch"} => pauses[a] = {}
    /\ a = Executor /\ pc[a] \in {"idle", "begin"} => pauses[a] = {}
    /\ pc[a] \in Resumed \cup {"setup", "revoked"} => \E m \in Nodes : pauses[a] \subseteq {m}

Holds(a) ==
    /\ Active /\ Drives(a) => HoldsRunning(a)
    /\ run = "waiting_approval" => NodesIn("running") = {}

LEMMA ExecutionHands ==
    ASSUME Typed, NEW a \in Actors, Hands(a), ExecutionStep(a) \/ RunTimeout(a)
    PROVE  Hands(a)'
<1> USE DEF Hands, Resumed, Go, Over, Raised, TransitionConflict, work
<1>0. /\ pc \in [Actors -> Label]
      /\ batch \in [Actors -> SUBSET Nodes]
      /\ out \in [Actors -> [Nodes -> Outcome]]
      /\ pauses \in [Actors -> SUBSET Nodes]
  BY DEF Typed, ActorTyped, ActorTypeOK
<1>1. CASE \/ LoopStops(a) \/ SkipNode(a) \/ LoopEnds(a) \/ MarkReady(a)
  BY <1>0, <1>1 DEF LoopStops, SkipNode, LoopEnds, MarkReady, IsFirst
<1>2. CASE ChooseBatch(a)
  BY <1>0, <1>2 DEF ChooseBatch, NoOutcome
<1>3. CASE ClaimBatchNode(a) \/ QuiesceStopsBatch(a) \/ NodeOutcome(a) \/ JoinBatch(a)
  BY <1>0, <1>3 DEF ClaimBatchNode, QuiesceStopsBatch, NodeOutcome, JoinBatch
<1>4. CASE SettleNode(a) \/ RescheduleExtra(a)
  BY <1>0, <1>4 DEF SettleNode, RescheduleExtra
<1>5. CASE SettleEnds(a) \/ PersistPause(a)
  BY <1>0, <1>5 DEF SettleEnds, PersistPause
<1>6. CASE \/ BeginSynthesis(a) \/ SealSynthesis(a) \/ FinishPlan(a)
           \/ SynthesisFails(a) \/ RunTimeout(a) \/ ModelMissing(a)
  BY <1>0, <1>6 DEF BeginSynthesis, SealSynthesis, FinishPlan, SynthesisFails, RunTimeout, ModelMissing
<1>7. CASE \/ ReadCancelled(a) \/ CancelExecution(a) \/ ReadFailure(a)
           \/ FailRun(a) \/ ReadNodeFailure(a) \/ FailNode(a)
  BY <1>0, <1>7 DEF ReadCancelled, CancelExecution, ReadFailure, FailRun, ReadNodeFailure, FailNode
<1> QED BY <1>1, <1>2, <1>3, <1>4, <1>5, <1>6, <1>7 DEF ExecutionStep

LEMMA ResumeHands ==
    ASSUME Typed, NEW r \in Resumers, Hands(r), RouteRead(r) \/ ResumeStep(r)
    PROVE  Hands(r)'
<1> USE DEF Hands, Resumed, Go, Over, Raised, work
<1> r \in Actors /\ r # Executor
  BY ResumerIsActor, ActorsDistinct
<1>0. /\ pc \in [Actors -> Label]
      /\ pauses \in [Actors -> SUBSET Nodes]
      /\ paused # NoPause => paused.node \in Nodes
  BY DEF Typed, ActorTyped, ActorTypeOK, StoreTyped, StoreTypeOK, Pause
<1>1. CASE RouteRead(r) \/ ContinueExecution(r) \/ ResumeBegin(r)
  BY <1>0, <1>1 DEF RouteRead, ContinueExecution, ResumeBegin
<1>2. CASE ResumeClaim(r) \/ ClaimRevoked(r) \/ FailRevokedNode(r)
  BY <1>0, <1>2 DEF ResumeClaim, ClaimRevoked, FailRevokedNode
<1>3. CASE RunResumed(r) \/ ToolAnswers(r) \/ ResumedOutcome(r)
  BY <1>0, <1>3 DEF RunResumed, ToolAnswers, ResumedOutcome
<1>4. CASE CompleteResumedNode(r) \/ Converge(r)
  BY <1>0, <1>4 DEF CompleteResumedNode, Converge
<1>5. CASE RouteSavesPaused(r) \/ RouteDone(r) \/ RouteError(r)
  BY <1>0, <1>5 DEF RouteSavesPaused, RouteDone, RouteError, Answered
<1> QED BY <1>1, <1>2, <1>3, <1>4, <1>5 DEF ResumeStep

(* The actor that steps keeps hold of what runs; it lets the run wait only *)
(* when nothing does.                                                      *)
KeepsHold(a) ==
    /\ Active' /\ Drives(a)' => HoldsRunning(a)'
    /\ run' = "waiting_approval" => run = "waiting_approval" \/ NodesIn("running")' = {}

LEMMA ExecutionHolds ==
    ASSUME Typed, NEW a \in Actors, Hands(a), Holds(a), ExecutionStep(a) \/ RunTimeout(a)
    PROVE  KeepsHold(a)
<1> USE DEF KeepsHold, HoldsRunning, InHand, Resumed, NodesIn, Drives, Driving, Active,
            Go, Over, Raised, TransitionConflict, work
<1>0. /\ pc \in [Actors -> Label]
      /\ batch \in [Actors -> SUBSET Nodes]
      /\ out \in [Actors -> [Nodes -> Outcome]]
      /\ pauses \in [Actors -> SUBSET Nodes]
      /\ node \in [Nodes -> NodeStatus]
  BY DEF Typed, ActorTyped, ActorTypeOK, StoreTyped, StoreTypeOK
<1>1. CASE LoopStops(a) \/ LoopEnds(a)
  BY <1>0, <1>1 DEF Holds, LoopStops, LoopEnds, store, flow
<1>13. CASE ChooseBatch(a)
  <2>1. /\ pc[a] = "loop" /\ Active /\ UNCHANGED <<run, node>>
        /\ \/ pc'[a] = "marking"
           \/ pc'[a] = "batch" /\ \A n \in Nodes : out'[a][n] \in {"queued", "idle"}
    BY <1>0, <1>13 DEF ChooseBatch, store, flow
  <2>2. NodesIn("running") = {}
    BY <2>1 DEF Holds
  <2> QED BY <2>1, <2>2
<1>2. CASE SkipNode(a) \/ MarkReady(a)
  <2>1. /\ pc[a] \in {"loop", "marking"} /\ UNCHANGED run
        /\ \/ ~Drives(a)'
           \/ Active /\ \A n \in Nodes : node'[n] = "running" => node[n] = "running"
    BY <1>0, <1>2 DEF SkipNode, MarkReady, Transition, CanTransition, store, flow
  <2>2. NodesIn("running") = {} \/ ~Active
    BY <2>1 DEF Holds
  <2> QED BY <2>1, <2>2
<1>3. CASE ClaimBatchNode(a)
  BY <1>0, <1>3 DEF Holds, Hands, ClaimBatchNode, ClaimNode, CanClaimNode, store, flow
<1>4. CASE QuiesceStopsBatch(a) \/ NodeOutcome(a)
  BY <1>0, <1>4 DEF Holds, QuiesceStopsBatch, NodeOutcome, store, flow
<1>5. CASE JoinBatch(a)
  BY <1>0, <1>5 DEF Holds, JoinBatch, store, flow
<1>6. CASE SettleNode(a)
  BY <1>0, <1>6 DEF Holds, SettleNode, Transition, CanTransition, Complete, CanComplete, store, flow
<1>7. CASE RescheduleExtra(a)
  BY <1>0, <1>7 DEF Holds, RescheduleExtra, Transition, CanTransition, store, flow
<1>8. CASE SettleEnds(a)
  BY <1>0, <1>8 DEF Holds, SettleEnds, store, flow
<1>9. CASE PersistPause(a)
  BY <1>0, <1>9 DEF Holds, Hands, PersistPause, PauseNodeAndRun, CanPause, CanTransition, store, flow
<1>10. CASE SealSynthesis(a)
  BY <1>0, <1>10 DEF Holds, SealSynthesis, SealArtifact
<1>11. CASE BeginSynthesis(a) /\ UNCHANGED store
  BY <1>0, <1>11 DEF Holds, BeginSynthesis, store, flow
<1>12. CASE \/ FinishPlan(a) \/ ModelMissing(a) \/ CancelExecution(a) \/ FailRun(a) \/ FailNode(a)
            \/ BeginSynthesis(a) /\ ~UNCHANGED store
  <2>1. \/ run' \in TerminalRun
        \/ UNCHANGED run /\ (FinishPlan(a) \/ ModelMissing(a) \/ CancelExecution(a) \/ FailRun(a) \/ FailNode(a))
    BY <1>12, EndingMoves DEF store, flow
  <2>2. FinishPlan(a) \/ ModelMissing(a) \/ CancelExecution(a) \/ FailRun(a) \/ FailNode(a) => ~Drives(a)'
    BY <1>0 DEF FinishPlan, ModelMissing, CancelExecution, FailRun, FailNode
  <2> QED BY <2>1, <2>2 DEF TerminalRun
<1>14. CASE \/ SynthesisFails(a) \/ RunTimeout(a) \/ ReadCancelled(a) \/ ReadFailure(a) \/ ReadNodeFailure(a)
  BY <1>0, <1>14 DEF SynthesisFails, RunTimeout, ReadCancelled, ReadFailure, ReadNodeFailure, store, flow
<1> QED BY <1>1, <1>2, <1>3, <1>4, <1>5, <1>6, <1>7, <1>8, <1>9, <1>10, <1>11, <1>12, <1>13, <1>14
        DEF ExecutionStep

LEMMA ResumeHolds ==
    ASSUME Typed, NEW r \in Resumers, Hands(r), Holds(r), RouteRead(r) \/ ResumeStep(r)
    PROVE  KeepsHold(r)
<1> USE DEF KeepsHold, HoldsRunning, InHand, Resumed, NodesIn, Drives, Driving, Active,
            Go, Over, Raised, work
<1> r \in Actors
  BY ResumerIsActor
<1>0. /\ pc \in [Actors -> Label]
      /\ pauses \in [Actors -> SUBSET Nodes]
      /\ node \in [Nodes -> NodeStatus]
  BY DEF Typed, ActorTyped, ActorTypeOK, StoreTyped, StoreTypeOK
<1>1. CASE RouteRead(r) \/ ContinueExecution(r) \/ ResumeBegin(r)
  BY <1>0, <1>1 DEF Holds, RouteRead, ContinueExecution, ResumeBegin, store, flow
<1>2. CASE ResumeClaim(r) \/ ClaimRevoked(r)
  BY <1>0, <1>2 DEF Holds, Hands, ResumeClaim, ClaimRevoked, Claimed, ClaimRunForResume, CanResume,
                    store, flow
<1>3. CASE FailRevokedNode(r)
  BY <1>0, <1>3 DEF Holds, Hands, FailRevokedNode, Transition, CanTransition, store, flow
<1>4. CASE RunResumed(r) \/ ToolAnswers(r) \/ ResumedOutcome(r)
  BY <1>0, <1>4 DEF Holds, RunResumed, ToolAnswers, ResumedOutcome, ClaimToolCall, FinishToolCall,
                    store, flow
<1>5. CASE CompleteResumedNode(r)
  BY <1>0, <1>5 DEF Holds, Hands, CompleteResumedNode, Complete, CanComplete, CanTransition, store, flow
<1>6. CASE Converge(r) \/ RouteSavesPaused(r) \/ RouteDone(r) \/ RouteError(r)
  BY <1>0, <1>6 DEF Converge, RouteSavesPaused, RouteDone, RouteError, Answered, SaveInbox, store, flow
<1> QED BY <1>1, <1>2, <1>3, <1>4, <1>5, <1>6 DEF ResumeStep

Held == \A a \in Actors : Hands(a) /\ Holds(a)

(* The starts of the executor's task.                                      *)
LEMMA StartHolds ==
    ASSUME Typed, Fresh, Hands(Executor), Holds(Executor), StartStep
    PROVE  Hands(Executor)' /\ KeepsHold(Executor)
<1>0. pc \in [Actors -> Label] /\ Executor \in Actors /\ Executor \notin Resumers
  BY ResumerIsActor, ActorsDistinct DEF Typed, ActorTyped, ActorTypeOK
<1>1. /\ pc[Executor] \in {"idle", "begin"} /\ UNCHANGED <<run, node, batch, out, pauses>>
      /\ \/ pc'[Executor] \in {"begin", "done", "fail_run_read"}
         \/ pc'[Executor] = "loop" /\ plan = "approved"
  BY <1>0 DEF StartStep, StartDispatch, BeginExecution, ClaimDispatch, ClaimPlan, Go, work, store, flow
<1>2. Hands(Executor)'
  BY <1>1 DEF Hands, Resumed
<1>3. Drives(Executor)' => NodesIn("running")' = {}
  BY <1>0, <1>1 DEF Drives, Driving, Fresh, NodesIn
<1> QED BY <1>1, <1>2, <1>3 DEF KeepsHold, HoldsRunning

LEMMA HeldInductive ==
    ASSUME StoreSafe, Lone, Held, [Next]_vars
    PROVE  Held'
<1>0. Typed /\ StoreStep /\ Fresh
  BY StoreSafeInductive DEF StoreSafe, Backing
<1>1. ASSUME NEW a \in Actors, OthersStay(a), Moves(a), Hands(a)', KeepsHold(a)
      PROVE  Held'
  <2>2. run' = "waiting_approval" => NodesIn("running")' = {}
    <3> SUFFICES ASSUME run' = "waiting_approval", run = "waiting_approval" PROVE NodesIn("running")' = {}
      BY <1>1 DEF KeepsHold
    <3>1. ~Drives(a) /\ NodesIn("running") = {}
      BY DEF Lone, Held, Holds
    <3> QED BY <1>1, <3>1 DEF Moves, ClaimRunForResume, Drives, Driving, NodesIn, TerminalRun
  <2>3. ASSUME NEW b \in Actors, b # a, Active', Drives(b)'
        PROVE  HoldsRunning(b)'
    <3>1. /\ pc'[b] = pc[b] /\ Drives(b)
          /\ UNCHANGED <<batch[b], out[b], pauses[b]>>
      BY <1>1, <2>3 DEF OthersStay, Mine, Drives, Driving
    <3>2. Active /\ ~Drives(a)
      BY <1>0, <2>3, <3>1, RunFollows DEF Lone
    <3>3. HoldsRunning(b)
      BY <3>1, <3>2 DEF Held, Holds
    <3>4. NodesIn("running")' \subseteq NodesIn("running")
      BY <1>1, <2>3, <3>2 DEF Moves, ClaimRunForResume, CanResume, Drives, Driving, NodesIn, TerminalRun, Active
    <3>5. InHand(b)' = InHand(b)
      BY <3>1 DEF InHand
    <3> QED BY <3>1, <3>3, <3>4, <3>5 DEF HoldsRunning
  <2>4. ASSUME NEW b \in Actors, b # a PROVE Hands(b)'
    BY <1>1, <2>4 DEF OthersStay, Mine, Held, Hands
  <2> QED BY <1>1, <2>2, <2>3, <2>4 DEF Held, Holds, KeepsHold
<1>2. CASE Crash
  <2>1. \A a \in Actors : ~Drives(a)' /\ pc'[a] \in {"idle", "done"} /\ pauses'[a] = {}
    BY <1>2 DEF Crash, Drives, Driving
  <2>2. UNCHANGED <<run, node>>
    BY <1>2 DEF Crash, store, flow
  <2> QED BY <2>1, <2>2, ResumerIsActor DEF Held, Hands, Holds, Resumed, NodesIn
<1>3. CASE StartStep
  <2>1. OthersStay(Executor) /\ Moves(Executor)
    BY <1>0, <1>3, StartMoves
  <2> QED BY <1>0, <1>1, <1>3, <2>1, StartHolds, ResumerIsActor DEF Held
<1>4. ASSUME NEW a \in Actors, ExecutionStep(a) \/ RunTimeout(a) PROVE Held'
  BY <1>0, <1>1, <1>4, ExecutionOthers, ExecutionMoves, ExecutionHands, ExecutionHolds DEF Held
<1>5. ASSUME NEW r \in Resumers, RouteRead(r) \/ ResumeStep(r) PROVE Held'
  BY <1>0, <1>1, <1>5, ResumeOthers, ResumeMoves, ResumeHands, ResumeHolds, ResumerIsActor DEF Held
<1>6. CASE (Environment /\ ~Crash) \/ UNCHANGED vars
  <2>1. OthersStay(Executor) /\ Moves(Executor) /\ UNCHANGED <<pc, batch, out, pauses>>
        /\ (run' \in TerminalRun \/ UNCHANGED <<run, plan, node>>)
    BY <1>0, <1>6, EnvironmentMoves
  <2>2. Hands(Executor)' /\ KeepsHold(Executor)
    BY <2>1, ResumerIsActor DEF Held, Hands, Holds, KeepsHold, HoldsRunning, InHand, NodesIn, Drives,
                                Driving, Active, TerminalRun
  <2> QED BY <1>1, <2>1, <2>2, ResumerIsActor
<1> QED BY <1>2, <1>3, <1>4, <1>5, <1>6 DEF Next, Environment

LEMMA HeldAlways == Spec => []Held
<1>1. Init => Held
  <2> SUFFICES ASSUME Init PROVE Held
    OBVIOUS
  <2> QED BY DEF Init, StoreInit, Held, Hands, Holds, Resumed, Drives, Driving, NodesIn
<1>2. StoreSafe /\ Lone /\ Held /\ [Next]_vars => Held'
  BY HeldInductive
<1> QED BY <1>1, <1>2, StoreSafeAlways, LoneAlways, PTL DEF Spec

(* Of the nodes that have not ended one comes first in plan order.         *)
LEMMA Smallest ==
    ASSUME NEW S, S \subseteq Nat, S # {}
    PROVE  \E n \in S : \A m \in S : n =< m
<1> DEFINE R == OpToRel(<, Nat)
<1>1. IsWellFoundedOn(R, Nat)
  BY NatLessThanWellFounded
<1>2. \A m, n \in Nat : m < n => <<m, n>> \in R
  BY Zenon DEF OpToRel
<1> HIDE DEF R
<1>3. \E n \in S : \A m \in S : ~(<<m, n>> \in R)
  BY <1>1, WFMin
<1>4. \A m, n \in S : ~(<<m, n>> \in R) => n =< m
  BY <1>2
<1> QED BY <1>3, <1>4

(* The scheduling loop always finds a node to skip, to mark or to run      *)
(* until all have ended: the executor never raises                         *)
(* dag_has_no_runnable_node or dag_has_nonterminal_node, for any DAG,      *)
(* after any number of pauses, resumes and retries.                        *)
THEOREM SchedulerAlwaysFinds == Spec => []SchedulerNeverStuck
<1>1. ASSUME StoreSafe, Lone, Held PROVE SchedulerNeverStuck
  <2> SUFFICES ASSUME NEW a \in Actors, pc[a] = "loop", Active, ~AllTerminal
               PROVE  \E n \in Nodes : Skippable(n) \/ Runnable(n) \/ node[n] = "ready"
    BY DEF SchedulerNeverStuck
  <2>0. node \in [Nodes -> NodeStatus] /\ Nodes \subseteq Nat
    BY <1>1 DEF StoreSafe, Typed, StoreTyped, StoreTypeOK, Nodes
  <2> DEFINE Left == {n \in Nodes : node[n] \notin TerminalNode}
  <2>1. PICK n \in Left : \A m \in Left : n =< m
    <3>1. Left # {} /\ Left \subseteq Nat
      BY <2>0 DEF AllTerminal
    <3> HIDE DEF Left
    <3> QED BY <3>1, Smallest
  <2>2. node[n] # "running"
    <3>1. HoldsRunning(a)
      BY <1>1 DEF Held, Holds, Drives, Driving
    <3> QED BY <3>1 DEF HoldsRunning, InHand, Resumed, NodesIn
  <2>3. node[n] # "waiting_tool_approval"
    BY <1>1 DEF StoreSafe, WaitingConsistent, NodesIn, Active, TerminalRun
  <2>4. CASE node[n] = "pending"
    <3>1. \A d \in Deps[n] : d \in Nodes /\ d < n
      <4>1. n \in Nodes /\ N \in Nat
        BY PlanShape
      <4>2. Deps[n] \subseteq 1..(n - 1)
        BY <4>1, DepsAcyclic
      <4> QED BY <4>1, <4>2 DEF Nodes
    <3>2. ASSUME NEW d \in Deps[n], node[d] \notin TerminalNode PROVE FALSE
      <4>1. d \in Left
        BY <3>1, <3>2
      <4>2. n =< d /\ d < n /\ n \in Nat /\ d \in Nat
        BY <2>0, <2>1, <3>1, <4>1
      <4> QED BY <4>2
    <3>3. \A d \in Deps[n] : node[d] # "cancelled"
      BY <1>1, <3>1 DEF StoreSafe, Backing, OpenNotCancelled, Active, TerminalRun
    <3>4. CASE \E d \in Deps[n] : node[d] # "completed"
      BY <2>4, <3>2, <3>3, <3>4 DEF Skippable, TerminalNode
    <3>5. CASE \A d \in Deps[n] : node[d] = "completed"
      BY <2>4, <3>5 DEF Runnable
    <3> QED BY <3>4, <3>5
  <2>5. node[n] \in {"pending", "ready", "running", "waiting_tool_approval"}
    BY <2>0 DEF NodeStatus, TerminalNode
  <2> QED BY <2>2, <2>3, <2>4, <2>5
<1> QED BY <1>1, StoreSafeAlways, LoneAlways, HeldAlways, PTL

-----------------------------------------------------------------------------
(* Who is left when a run ends.                                            *)

\* A stopped process has no tasks.
Down == life = "down" => \A a \in Actors : pc[a] \in {"idle", "done"}

LEMMA DownInductive ==
    ASSUME Typed, Down, [Next]_vars PROVE Down'
<1>1. CASE Crash
  BY <1>1 DEF Crash, Down
<1>2. ASSUME NEW a \in Actors, OthersStay(a), Moves(a) PROVE Down'
  BY <1>2 DEF OthersStay, Mine, Moves, Down
<1> QED BY <1>1, <1>2, OneMoves

Leaves(a) == pc[a] \in {"cancel_read", "cancel_write", "fail_run_read", "fail_run_write"}

\* An executor on its way out of a run that has not ended was the last to drive it.
Closing ==
    \A a \in Actors : Leaves(a) /\ run \notin TerminalRun =>
        /\ run = "running"
        /\ plan = "approved" => a = Executor
        /\ \A b \in Actors : ~Drives(b)

\* Only a driver is on its way out, or the task of a plan it did not claim.
LeavingMoves(a) ==
    Leaves(a)' => /\ Leaves(a) \/ Drives(a) \/ (a = Executor /\ pc[a] = "begin")
                  /\ ~Drives(a)'
                  /\ run' = run \/ run' \in TerminalRun
                  /\ ~ClaimPlan

LEMMA ExecutionLeaving ==
    ASSUME Typed, NEW a \in Actors, ExecutionStep(a) \/ RunTimeout(a) PROVE LeavingMoves(a)
<1> USE DEF LeavingMoves, Leaves, Drives, Driving, Go, Over, Raised, TransitionConflict, ClaimPlan
<1>0. pc \in [Actors -> Label]
  BY DEF Typed, ActorTyped, ActorTypeOK
<1>1. CASE \/ LoopStops(a) \/ ChooseBatch(a) \/ LoopEnds(a)
  BY <1>0, <1>1 DEF LoopStops, ChooseBatch, LoopEnds, store, flow
<1>2. CASE SkipNode(a) \/ MarkReady(a)
  BY <1>0, <1>2 DEF SkipNode, MarkReady, Transition, store, flow
<1>3. CASE ClaimBatchNode(a) \/ QuiesceStopsBatch(a) \/ NodeOutcome(a) \/ JoinBatch(a)
  BY <1>0, <1>3 DEF ClaimBatchNode, ClaimNode, QuiesceStopsBatch, NodeOutcome, JoinBatch, store, flow
<1>4. CASE SettleNode(a)
  BY <1>0, <1>4 DEF SettleNode, Transition, Complete, store, flow
<1>5. CASE RescheduleExtra(a) \/ SettleEnds(a) \/ PersistPause(a)
  BY <1>0, <1>5 DEF RescheduleExtra, SettleEnds, PersistPause, Transition, store, flow
<1>6. CASE SynthesisFails(a) \/ RunTimeout(a) \/ ReadCancelled(a) \/ ReadFailure(a) \/ ReadNodeFailure(a)
  BY <1>0, <1>6 DEF SynthesisFails, RunTimeout, ReadCancelled, ReadFailure, ReadNodeFailure, store, flow
<1>7. CASE SealSynthesis(a)
  BY <1>0, <1>7 DEF SealSynthesis, SealArtifact
<1>8. CASE \/ ModelMissing(a) \/ BeginSynthesis(a) \/ FinishPlan(a) \/ CancelExecution(a)
           \/ FailRun(a) \/ FailNode(a)
  <2>1. UNCHANGED store \/ (run' \in TerminalRun /\ plan' \in TerminalRun)
    BY <1>8, EndingMoves
  <2> QED BY <1>0, <1>8, <2>1 DEF ModelMissing, BeginSynthesis, FinishPlan, CancelExecution, FailRun,
                                  FailNode, store, flow, TerminalRun
<1> QED BY <1>1, <1>2, <1>3, <1>4, <1>5, <1>6, <1>7, <1>8 DEF ExecutionStep

LEMMA ResumeLeaving ==
    ASSUME Typed, NEW r \in Resumers, RouteRead(r) \/ ResumeStep(r) PROVE LeavingMoves(r)
<1>0. pc \in [Actors -> Label] /\ r \in Actors
  BY ResumerIsActor DEF Typed, ActorTyped, ActorTypeOK
<1> QED BY <1>0 DEF LeavingMoves, Leaves, Go, Over, Raised, RouteRead, ResumeStep, ContinueExecution,
              ResumeBegin, ResumeClaim, ClaimRevoked, FailRevokedNode, RunResumed, ToolAnswers,
              ResumedOutcome, CompleteResumedNode, Converge, RouteSavesPaused, RouteDone, RouteError,
              Answered

(* A run ends once.                                                        *)
LEMMA RunEndsOnce ==
    ASSUME StoreStep, run \in TerminalRun PROVE run' = run
BY DEF StoreStep, Quiet, ClaimPlan, ClaimNode, NodeMoves, Transition, Complete, PauseNodeAndRun, CanPause,
       CanTransition, Active, ClaimRunForResume, CanResume, Ends, TerminalRun

LEMMA ClosingInductive ==
    ASSUME StoreSafe, Lone, Closing, [Next]_vars PROVE Closing'
<1>0. Typed /\ StoreStep /\ run' \in RunStatus
  BY StoreSafeInductive DEF StoreSafe, Typed, StoreTyped, StoreTypeOK
<1>1. ASSUME NEW c \in Actors, OthersStay(c), Moves(c), LeavingMoves(c) \/ UNCHANGED pc PROVE Closing'
  <2> SUFFICES ASSUME NEW a \in Actors, Leaves(a)', run' \notin TerminalRun
               PROVE  /\ run' = "running"
                      /\ plan' = "approved" => a = Executor
                      /\ \A b \in Actors : ~Drives(b)'
    BY DEF Closing
  <2>1. run \notin TerminalRun /\ (run = "running" \/ run = "waiting_approval")
    BY <1>0, RunEndsOnce DEF StoreSafe, Typed, StoreTyped, StoreTypeOK, RunStatus
  <2>2. \A b \in Actors : b # c => pc'[b] = pc[b] /\ (Drives(b)' <=> Drives(b)) /\ (Leaves(b)' <=> Leaves(b))
    BY <1>1 DEF OthersStay, Mine, Drives, Driving, Leaves
  <2>3. plan' = "approved" => plan = "approved"
    BY <1>0, RunFollows
  <2>4. CASE Leaves(a)
    <3>1. /\ run = "running" /\ (plan = "approved" => a = Executor)
          /\ \A b \in Actors : ~Drives(b)
      BY <2>1, <2>4 DEF Closing
    <3>2. run' = "running"
      BY <1>0, <1>1, <2>1, <3>1 DEF Moves, RunStatus
    <3>3. ~Drives(c)'
      <4>1. CASE c = a
        BY <1>1, <4>1 DEF Leaves, Drives, Driving
      <4>2. CASE c # a
        <5>1. ~ClaimPlan
          BY <1>1, <3>1, <4>2 DEF Moves, ClaimPlan
        <5> QED BY <1>1, <3>1, <5>1 DEF Moves, ClaimRunForResume, CanResume
      <4> QED BY <4>1, <4>2
    <3> QED BY <2>2, <2>3, <3>1, <3>2, <3>3
  <2>5. CASE ~Leaves(a)
    <3>1. a = c /\ LeavingMoves(c)
      BY <1>1, <2>2, <2>5 DEF Leaves
    <3>2. run' = run /\ ~Drives(c)'
      BY <3>1 DEF LeavingMoves
    <3>3. CASE Drives(c)
      <4>1. Active
        BY <2>1, <3>3 DEF Lone, Active, StoreSafe, PlanRunAgree
      <4>2. \A b \in Actors : b # c => ~Drives(b)
        BY <3>3, <4>1 DEF Lone
      <4> QED BY <2>2, <2>3, <3>2, <4>1, <4>2 DEF Active
    <3>4. CASE c = Executor /\ pc[c] = "begin"
      <4>1. plan = "approved" /\ run = "running"
        BY <2>1, <3>4 DEF Lone, StoreSafe, PlanRunAgree
      <4> QED BY <2>2, <3>1, <3>2, <3>4, <4>1 DEF Lone
    <3> QED BY <2>5, <3>1, <3>3, <3>4 DEF LeavingMoves
  <2> QED BY <2>4, <2>5
<1>2. CASE StartStep
  <2>1. LeavingMoves(Executor)
    BY <1>0, <1>2, ResumerIsActor, ActorsDistinct
       DEF StartStep, StartDispatch, BeginExecution, ClaimDispatch, ClaimPlan, LeavingMoves, Leaves,
           Drives, Driving, Go, Typed, ActorTyped, ActorTypeOK, store, flow
  <2> QED BY <1>0, <1>1, <1>2, <2>1, StartMoves, ResumerIsActor
<1>3. CASE (Environment /\ ~Crash) \/ UNCHANGED vars
  BY <1>0, <1>1, <1>3, EnvironmentMoves, ResumerIsActor
<1>4. CASE Crash
  BY <1>4 DEF Crash, Closing, Leaves
<1> QED BY <1>0, <1>1, <1>2, <1>3, <1>4, ExecutionOthers, ResumeOthers, ExecutionMoves, ResumeMoves,
           ExecutionLeaving, ResumeLeaving, ResumerIsActor DEF Next, Environment

-----------------------------------------------------------------------------
(* Endings are earned.                                                     *)

(* Only a stored result delivers.                                          *)
LEMMA NothingDelivered ==
    ASSUME Typed, ResultsBacked, DeliversBacked, result = {}
    PROVE  ~PartialDelivery /\ ~PartialEarly
<1>1. \A n \in Nodes : delivers[n] = {}
  <2>1. \A n \in Nodes : node[n] = "completed" => attempt[n] \in 1..MaxAttempt
    BY DEF Typed, StoreTyped, StoreTypeOK, Counted, MaxAttempt
  <2> QED BY <2>1 DEF ResultsBacked, DeliversBacked
<1>2. Given = {} /\ GivenSources = {}
  BY <1>1 DEF Given, GivenSources
<1>3. \A origins : ~Policy(origins)
  <2>1. Cardinality(GivenSources) = 0 /\ Owed.sources \in Nat \ {0}
    BY <1>2, FS_EmptySet, Obligations
  <2> QED BY <2>1 DEF Policy
<1> QED BY <1>2, <1>3 DEF PartialDelivery, PartialEarly, Covered, HasEvidence, HasEvidenceEarly,
                          SynthesisDelivers

(* A plan that ends early, by the executor, the user, the start-up or the  *)
(* quiesce.                                                                *)
LEMMA EarlyEndEarned ==
    ASSUME Typed, ResultsBacked, DeliversBacked, UNCHANGED results, run' \in EarlyEnd \cup {"cancelled"}
    PROVE  EndEarned' /\ (run' = "failed" => ~PartialEarly)
<1>1. CASE PartialEarly
  <2>1. Universal /\ result # {}
    BY <1>1, NothingDelivered DEF PartialEarly
  <2>2. run' \in {"partial", "cancelled"}
    BY <1>1 DEF EarlyEnd
  <2>3. PartialEarly' /\ Usable'
    BY <1>1, <2>1 DEF PartialEarly, Usable, Covered, HasEvidenceEarly, SynthesisDelivers, Given,
                      GivenSources, Policy
  <2> QED BY <2>2, <2>3 DEF EndEarned
<1>2. CASE ~PartialEarly
  <2>1. run' \in {"failed", "cancelled"}
    BY <1>2 DEF EarlyEnd
  <2>2. ~PartialEarly'
    BY <1>2 DEF PartialEarly, Covered, HasEvidenceEarly, SynthesisDelivers, Given, GivenSources, Policy
  <2> QED BY <1>2, <2>1, <2>2 DEF EndEarned
<1> QED BY <1>1, <1>2

(* What finalization has seen stays true until it writes: no result is     *)
(* lost, and its copy is of a plan whose nodes have ended.                 *)
Finalizing ==
    \A a \in Actors : pc[a] \in {"finish", "sealed"} =>
        /\ Usable
        /\ \A n \in Nodes : row[a].node[n] \in {"completed", "failed", "skipped"}

LEMMA ResultsGrow ==
    ASSUME StoreSafe, [Next]_vars PROVE result \subseteq result' /\ (Usable => Usable')
<1>1. result \subseteq result'
  <2>1. CASE \E n \in Nodes, t \in Nat : Complete(n, t)
    BY <2>1 DEF Complete
  <2>2. CASE \A n \in Nodes, t \in Nat : ~Complete(n, t)
    BY <2>2, StoreSafeInductive, MoveKeepsCompletions DEF StoreSafe, Backing
  <2> QED BY <2>1, <2>2
<1>2. Completed \subseteq Completed'
  BY <1>1 DEF Completed
<1> QED BY <1>1, <1>2 DEF Usable

\* Only BeginSynthesis brings an actor to the end.
FinalMoves(a) ==
    pc'[a] \in {"finish", "sealed"} =>
        /\ run' = run
        /\ \/ pc[a] \in {"finish", "sealed"} /\ row'[a] = row[a]
           \/ Active /\ AllTerminal /\ Usable /\ row'[a] = Row

LEMMA ExecutionFinalMoves ==
    ASSUME Typed, NEW a \in Actors, ExecutionStep(a) \/ RunTimeout(a) PROVE FinalMoves(a)
<1> USE DEF FinalMoves, Go, Over, Raised, TransitionConflict
<1>0. pc \in [Actors -> Label] /\ row \in [Actors -> RowType]
  BY DEF Typed, ActorTyped, ActorTypeOK
<1>1. CASE \/ LoopStops(a) \/ SkipNode(a) \/ ChooseBatch(a) \/ MarkReady(a) \/ LoopEnds(a)
  BY <1>0, <1>1 DEF LoopStops, SkipNode, ChooseBatch, MarkReady, LoopEnds
<1>2. CASE \/ ClaimBatchNode(a) \/ QuiesceStopsBatch(a) \/ NodeOutcome(a) \/ JoinBatch(a)
  BY <1>0, <1>2 DEF ClaimBatchNode, QuiesceStopsBatch, NodeOutcome, JoinBatch
<1>3. CASE SettleNode(a) \/ RescheduleExtra(a) \/ SettleEnds(a) \/ PersistPause(a)
  BY <1>0, <1>3 DEF SettleNode, RescheduleExtra, SettleEnds, PersistPause
<1>4. CASE \/ BeginSynthesis(a) \/ SealSynthesis(a) \/ FinishPlan(a)
           \/ SynthesisFails(a) \/ RunTimeout(a) \/ ModelMissing(a)
  BY <1>0, <1>4 DEF BeginSynthesis, SealSynthesis, SealArtifact, FinishPlan, SynthesisFails, RunTimeout,
                    ModelMissing, Read, store, flow
<1>5. CASE \/ ReadCancelled(a) \/ CancelExecution(a) \/ ReadFailure(a)
           \/ FailRun(a) \/ ReadNodeFailure(a) \/ FailNode(a)
  BY <1>0, <1>5 DEF ReadCancelled, CancelExecution, ReadFailure, FailRun, ReadNodeFailure, FailNode
<1> QED BY <1>1, <1>2, <1>3, <1>4, <1>5 DEF ExecutionStep

LEMMA ResumeFinalMoves ==
    ASSUME Typed, NEW r \in Resumers, RouteRead(r) \/ ResumeStep(r) PROVE FinalMoves(r)
<1>0. pc \in [Actors -> Label] /\ r \in Actors
  BY ResumerIsActor DEF Typed, ActorTyped, ActorTypeOK
<1> QED BY <1>0 DEF FinalMoves, Go, Over, Raised, RouteRead, ResumeStep, ContinueExecution, ResumeBegin,
              ResumeClaim, ClaimRevoked, FailRevokedNode, RunResumed, ToolAnswers, ResumedOutcome,
              CompleteResumedNode, Converge, RouteSavesPaused, RouteDone, RouteError, Answered

LEMMA FinalizingInductive ==
    ASSUME StoreSafe, Finalizing, [Next]_vars PROVE Finalizing'
<1>0. Typed /\ (Usable => Usable')
  BY ResultsGrow DEF StoreSafe
<1>1. ASSUME NEW a \in Actors, OthersStay(a), FinalMoves(a) PROVE Finalizing'
  <2>1. ASSUME NEW b \in Actors, pc'[b] \in {"finish", "sealed"}
        PROVE  /\ Usable
               /\ \A n \in Nodes : row'[b].node[n] \in {"completed", "failed", "skipped"}
    <3>1. CASE pc[b] \in {"finish", "sealed"} /\ row'[b] = row[b]
      BY <3>1 DEF Finalizing
    <3>2. CASE Active /\ AllTerminal /\ Usable /\ row'[b] = Row
      BY <3>2 DEF AllTerminal, TerminalNode, StoreSafe, Backing, OpenNotCancelled, Active, TerminalRun, Row
    <3> QED BY <1>1, <2>1, <3>1, <3>2 DEF FinalMoves, OthersStay, Mine
  <2> QED BY <1>0, <2>1 DEF Finalizing
<1>2. CASE StartStep
  <2>1. pc'[Executor] \notin {"finish", "sealed"}
    BY <1>0, <1>2, ResumerIsActor DEF StartStep, StartDispatch, BeginExecution, Go, Typed, ActorTyped, ActorTypeOK
  <2> QED BY <1>0, <1>1, <1>2, <2>1, StartMoves, ResumerIsActor DEF FinalMoves
<1>3. CASE (Environment /\ ~Crash) \/ UNCHANGED vars
  BY <1>0, <1>3, EnvironmentMoves DEF Finalizing
<1>4. CASE Crash
  BY <1>4 DEF Crash, Finalizing
<1> QED BY <1>0, <1>1, <1>2, <1>3, <1>4, ExecutionOthers, ResumeOthers, ExecutionFinalMoves,
           ResumeFinalMoves, ResumerIsActor DEF Next, Environment

LEMMA NothingMissingDelivers ==
    ASSUME Universal, NothingMissing, result # {} PROVE PartialDelivery
BY Obligations DEF NothingMissing, PartialDelivery, Covered, SynthesisDelivers

\* What the results are worth does not change with the run.
LEMMA SameResultsSameWorth ==
    ASSUME UNCHANGED results
    PROVE  /\ Usable' = Usable /\ NothingMissing' = NothingMissing
           /\ PartialDelivery' = PartialDelivery /\ PartialEarly' = PartialEarly
BY DEF Usable, Completed, NothingMissing, PartialDelivery, PartialEarly, Covered, HasEvidence,
       HasEvidenceEarly, SynthesisDelivers, Given, GivenSources, Policy

LEMMA FinishPlanEarned ==
    ASSUME StoreSafe, Finalizing, NEW a \in Actors, FinishPlan(a), run' # run
    PROVE  EndEarned' /\ FailureEarned
<1>1. PICK end \in Endings(row[a]) : Finish(row[a], end, row[a].node, row[a].nerr, NoPause)
  BY DEF FinishPlan, store, flow
<1>2. /\ Usable
      /\ \A n \in Nodes : row[a].node[n] \in {"completed", "failed", "skipped"}
  BY DEF FinishPlan, Finalizing
<1>3. UNCHANGED results /\ run' = end
  BY <1>1 DEF Finish
<1>4. end = "completed" => \A n \in Nodes : node'[n] = "completed"
  <2> SUFFICES ASSUME end = "completed", NEW n \in Nodes PROVE node'[n] = "completed"
    OBVIOUS
  <2>1. ~Degraded(row[a])
    BY DEF Endings
  <2>2. row[a].node[n] = "completed"
    BY <1>2, <2>1 DEF Degraded
  <2>3. node[n] = "completed"
    BY <2>2 DEF StoreSafe, Backing, CopiesBehind
  <2> QED BY <1>1, <2>2, <2>3 DEF Finish
<1>5. Universal /\ end = "completed" => NothingMissing
  BY DEF Endings, UniversalComplete
<1>6. Universal /\ end = "partial" => PartialDelivery
  <2>1. Universal => result # {}
    BY <1>2 DEF Usable
  <2>2. Universal /\ end = "partial" => PartialDelivery \/ NothingMissing
    BY DEF Endings, UniversalComplete
  <2> QED BY <2>1, <2>2, NothingMissingDelivers
<1>7. Universal /\ end = "failed" => ~PartialDelivery
  BY DEF Endings
<1> QED BY <1>2, <1>3, <1>4, <1>5, <1>6, <1>7, SameResultsSameWorth DEF EndEarned, FailureEarned

(* Only six steps of an actor and the environment end a run.               *)
LEMMA WhoEnds ==
    ASSUME Typed, [Next]_vars, run \notin TerminalRun, run' \in TerminalRun
    PROVE  \/ Environment
           \/ \E a \in Actors : \/ ModelMissing(a) \/ BeginSynthesis(a) \/ FinishPlan(a)
                                \/ CancelExecution(a) \/ FailRun(a) \/ FailNode(a)
<1>0. run' # run
  OBVIOUS
<1>1. ASSUME NEW a \in Actors, ExecutionStep(a) \/ RunTimeout(a)
      PROVE  \/ ModelMissing(a) \/ BeginSynthesis(a) \/ FinishPlan(a)
             \/ CancelExecution(a) \/ FailRun(a) \/ FailNode(a)
  <2>1. ~(LoopStops(a) \/ SkipNode(a) \/ ChooseBatch(a) \/ MarkReady(a) \/ LoopEnds(a))
    BY <1>0 DEF LoopStops, SkipNode, ChooseBatch, MarkReady, LoopEnds, Transition, store, flow
  <2>2. ~(\/ ClaimBatchNode(a) \/ QuiesceStopsBatch(a) \/ NodeOutcome(a) \/ JoinBatch(a) \/ SettleNode(a))
    BY <1>0 DEF ClaimBatchNode, ClaimNode, QuiesceStopsBatch, NodeOutcome, JoinBatch, SettleNode,
                Transition, Complete, store, flow
  <2>3. ~(RescheduleExtra(a) \/ SettleEnds(a) \/ PersistPause(a))
    BY <1>0 DEF RescheduleExtra, SettleEnds, PersistPause, Transition, PauseNodeAndRun, TerminalRun, store, flow
  <2>4. ~(\/ SealSynthesis(a) \/ SynthesisFails(a) \/ RunTimeout(a) \/ ReadCancelled(a) \/ ReadFailure(a)
          \/ ReadNodeFailure(a))
    BY <1>0 DEF SealSynthesis, SealArtifact, SynthesisFails, RunTimeout, ReadCancelled, ReadFailure,
                ReadNodeFailure, store, flow
  <2> QED BY <1>1, <2>1, <2>2, <2>3, <2>4 DEF ExecutionStep
<1>2. ASSUME NEW r \in Resumers PROVE ~(RouteRead(r) \/ ResumeStep(r))
  <2>1. ~(RouteRead(r) \/ ContinueExecution(r) \/ ResumeBegin(r) \/ ResumedOutcome(r) \/ Converge(r))
    BY <1>0 DEF RouteRead, ContinueExecution, ResumeBegin, ResumedOutcome, Converge, store, flow
  <2>2. ~(ResumeClaim(r) \/ ClaimRevoked(r) \/ FailRevokedNode(r) \/ RunResumed(r) \/ ToolAnswers(r))
    BY <1>0 DEF ResumeClaim, ClaimRevoked, Claimed, ClaimRunForResume, FailRevokedNode, Transition,
                RunResumed, ToolAnswers, ClaimToolCall, FinishToolCall, TerminalRun, store, flow
  <2>3. ~(CompleteResumedNode(r) \/ RouteSavesPaused(r) \/ RouteDone(r) \/ RouteError(r))
    BY <1>0 DEF CompleteResumedNode, Complete, RouteSavesPaused, RouteDone, RouteError, SaveInbox, store, flow
  <2> QED BY <2>1, <2>2, <2>3 DEF ResumeStep
<1>3. ~StartStep /\ ~UNCHANGED vars
  BY <1>0 DEF StartStep, StartDispatch, BeginExecution, ClaimDispatch, ClaimPlan, vars, store, flow
<1> QED BY <1>1, <1>2, <1>3 DEF Next

(* The environment ends a run on its own while a process is up as failed   *)
(* or cancelled: no write of a universal plan has an unknown outcome.      *)
LEMMA EnvironmentEnds ==
    ASSUME Environment, run \notin TerminalRun, run' \in TerminalRun
    PROVE  /\ run' \in EarlyEnd \cup {"cancelled"}
           /\ life = "down" \/ run' \notin {"completed", "partial"}
<1>1. CancelFlow => run' \in EarlyEnd \cup {"cancelled"} /\ run' \notin {"completed", "partial"}
  <2>1. Universal => UnknownNodes = {}
    BY UniversalReads DEF UnknownNodes, HasUnknownWrite
  <2>2. ~Universal => EarlyEnd = {"failed"}
    BY DEF EarlyEnd, PartialEarly
  <2> QED BY <2>1, <2>2 DEF CancelFlow
<1>2. CASE Cancel \/ Expire
  BY <1>1, <1>2 DEF Cancel, Expire, ExpireApproval, CancelTree
<1>3. CASE Startup
  BY <1>1, <1>3 DEF Startup, Reconcile, ReconcilePending, ReconcileWaiting, ReconcileExpired,
                    ReconcileRunning, ReconcileSettled, store, flow
<1>4. CASE QuiesceOffline
  BY <1>4 DEF QuiesceOffline, QuiesceRun, QuiesceEndedRun, flow
<1>5. ~(Quiesce \/ Crash \/ Rest)
  BY DEF Quiesce, Crash, Rest, vars, store, flow
<1> QED BY <1>2, <1>3, <1>4, <1>5 DEF Environment

(* Nobody who may still seal an answer is left when a run is completed or  *)
(* partial: of two who end a run the other one has lost it before.         *)
Sealing == \A a \in Actors : pc[a] \in {"finish", "sealed"} => run \notin {"completed", "partial"}

LEMMA SealingInductive ==
    ASSUME StoreSafe, Lone, Down, Closing, Sealing, [Next]_vars PROVE Sealing'
<1> SUFFICES ASSUME NEW a \in Actors, pc'[a] \in {"finish", "sealed"}, run' \in {"completed", "partial"}
             PROVE  FALSE
  BY DEF Sealing
<1>0. Typed /\ StoreStep
  BY StoreSafeInductive DEF StoreSafe
<1>1. ASSUME NEW c \in Actors, OthersStay(c), FinalMoves(c)
      PROVE  \/ run' = run /\ Active
             \/ pc[a] \in {"finish", "sealed"} /\ (a = c => run' = run)
  BY <1>1 DEF FinalMoves, OthersStay, Mine
<1>2. ASSUME StartStep \/ (Environment /\ ~Crash) \/ UNCHANGED vars PROVE pc[a] \in {"finish", "sealed"}
  <2>1. CASE StartStep
    <3>1. OthersStay(Executor) /\ pc'[Executor] \notin {"finish", "sealed"}
      BY <1>0, <2>1, StartMoves, ResumerIsActor DEF StartStep, StartDispatch, BeginExecution, Go, Typed,
         ActorTyped, ActorTypeOK
    <3> QED BY <3>1 DEF OthersStay, Mine
  <2> QED BY <1>0, <1>2, <2>1, EnvironmentMoves
<1>3. ~Crash
  BY DEF Crash
<1>4. CASE run \in TerminalRun
  <2>1. run' = run /\ ~Active
    BY <1>0, <1>4, RunEndsOnce DEF Active, TerminalRun
  <2>2. pc[a] \in {"finish", "sealed"}
    BY <1>0, <1>1, <1>2, <1>3, <2>1, ExecutionOthers, ResumeOthers, ExecutionFinalMoves, ResumeFinalMoves,
       ResumerIsActor DEF Next, Environment
  <2> QED BY <2>1, <2>2 DEF Sealing
<1>5. CASE run \notin TerminalRun
  <2>0. run' \in TerminalRun /\ run' # run
    BY <1>5 DEF TerminalRun
  <2>1. CASE Environment
    <3>1. life = "down" /\ pc[a] \in {"finish", "sealed"}
      BY <1>2, <1>3, <1>5, <2>0, <2>1, EnvironmentEnds
    <3> QED BY <3>1 DEF Down
  <2>2. ASSUME NEW c \in Actors, ExecutionStep(c) PROVE a # c /\ Drives(a)
    BY <1>0, <1>1, <2>0, <2>2, ExecutionOthers, ExecutionFinalMoves DEF Drives, Driving
  <2>3. ASSUME NEW c \in Actors, ModelMissing(c) \/ BeginSynthesis(c) \/ FailNode(c) PROVE FALSE
    BY <2>0, <2>3 DEF ModelMissing, BeginSynthesis, FailNode, Finish, store, flow
  <2>4. ASSUME NEW c \in Actors, FinishPlan(c) PROVE FALSE
    <3>1. Active /\ Drives(c)
      BY <2>0, <2>4 DEF FinishPlan, Drives, Driving, store, flow
    <3> QED BY <2>2, <2>4, <3>1 DEF ExecutionStep, Lone
  <2>5. ASSUME NEW c \in Actors, CancelExecution(c) \/ FailRun(c) PROVE FALSE
    <3>1. Leaves(c)
      BY <2>5 DEF CancelExecution, FailRun, Leaves
    <3> QED BY <1>5, <2>2, <2>5, <3>1 DEF ExecutionStep, Closing
  <2> QED BY <1>0, <1>5, <2>0, <2>1, <2>3, <2>4, <2>5, WhoEnds
<1> QED BY <1>4, <1>5

(* Whoever ends the run.                                                   *)
LEMMA EndingEarned ==
    ASSUME StoreSafe, Finalizing, [Next]_vars, run \notin TerminalRun, run' \in TerminalRun
    PROVE  EndEarned' /\ FailureEarned
<1>0. Typed /\ ResultsBacked /\ DeliversBacked /\ run' # run /\ UNCHANGED results
  <2>1. StoreStep /\ run' # run
    BY StoreSafeInductive
  <2> QED BY <2>1 DEF StoreSafe, Backing, StoreStep, Quiet, ClaimPlan, ClaimNode, NodeMoves, Transition,
              Complete, PauseNodeAndRun, ClaimRunForResume, Ends, TerminalRun
<1>1. CASE run' \in EarlyEnd \cup {"cancelled"}
  BY <1>0, <1>1, EarlyEndEarned DEF FailureEarned
<1>2. ASSUME NEW a \in Actors, ModelMissing(a) \/ BeginSynthesis(a) PROVE EndEarned' /\ FailureEarned
  <2>1. run' = "failed"
    BY <1>0, <1>2 DEF ModelMissing, BeginSynthesis, Finish, store, flow
  <2>2. Universal => result = {}
    <3>1. CASE ModelMissing(a)
      <4>1. \A n \in Nodes : node[n] = "pending"
        BY <1>0, <3>1 DEF ModelMissing, StoreSafe, Backing, Fresh, store, flow
      <4>2. \A n \in Nodes, t \in 1..MaxAttempt : <<n, t>> \notin result
        BY <1>0, <4>1 DEF ResultsBacked
      <4> QED BY <1>0, <4>2 DEF Typed, StoreTyped, StoreTypeOK
    <3>2. CASE BeginSynthesis(a)
      BY <1>0, <3>2 DEF BeginSynthesis, Usable, store, flow
    <3> QED BY <1>2, <3>1, <3>2
  <2>3. Universal => ~PartialDelivery
    BY <1>0, <2>2, NothingDelivered
  <2> QED BY <2>1, <2>3 DEF EndEarned, FailureEarned
<1>3. ASSUME NEW a \in Actors, FinishPlan(a) PROVE EndEarned' /\ FailureEarned
  BY <1>0, <1>3, FinishPlanEarned
<1>4. ASSUME NEW a \in Actors, CancelExecution(a) \/ FailRun(a)
      PROVE  run' \in EarlyEnd \cup {"cancelled"}
  BY <1>0, <1>4 DEF CancelExecution, FailRun, Finish, store, flow
<1>5. ASSUME NEW a \in Actors, FailNode(a) PROVE EndEarned' /\ FailureEarned
  <2>1. run' = "failed"
    BY <1>0, <1>5 DEF FailNode, Finish, store, flow
  <2>2. pc[a] = "fail_node_write" /\ pc'[a] # pc[a]
    BY <1>0, <1>5 DEF FailNode, Raised, Go, Typed, ActorTyped, ActorTypeOK
  <2> QED BY <2>1, <2>2 DEF EndEarned, FailureEarned
<1>6. CASE Environment
  BY <1>1, <1>6, EnvironmentEnds
<1> QED BY <1>0, <1>1, <1>2, <1>3, <1>4, <1>5, <1>6, WhoEnds

(* After the end nothing that counts changes: a late executor seals its    *)
(* answer only of a run that goes on, has failed or was cancelled.         *)
LEMMA EndStaysEarned ==
    ASSUME StoreSafe, Sealing, EndEarned, [Next]_vars, run \in TerminalRun
    PROVE  EndEarned' /\ FailureEarned
<1>1. StoreStep
  BY StoreSafeInductive
<1>2. /\ UNCHANGED <<run, node, result, delivers>>
      /\ UNCHANGED sealed \/ run \notin {"completed", "partial"}
  <2>1. Quiet
    BY <1>1 DEF StoreStep, ClaimPlan, ClaimNode, CanClaimNode, NodeMoves, Transition, Complete, CanComplete,
                PauseNodeAndRun, CanPause, CanTransition, ClaimRunForResume, CanResume, Ends, Active,
                TerminalRun
  <2> QED BY <2>1 DEF Quiet, Sealing
<1>3. CASE run \notin {"completed", "partial"}
  BY <1>2, <1>3 DEF EndEarned, FailureEarned
<1>4. CASE UNCHANGED sealed
  BY <1>2, <1>4, SameResultsSameWorth DEF EndEarned, FailureEarned
<1> QED BY <1>2, <1>3, <1>4

FinalSafe == Down /\ Closing /\ Sealing /\ Finalizing /\ EndEarned

LEMMA FinalStep ==
    ASSUME StoreSafe, Lone, FinalSafe, [Next]_vars PROVE FinalSafe' /\ FailureEarned
<1> USE DEF FinalSafe
<1>1. Down' /\ Closing' /\ Sealing' /\ Finalizing'
  BY DownInductive, ClosingInductive, SealingInductive, FinalizingInductive DEF StoreSafe
<1>2. CASE run' \notin TerminalRun
  BY <1>1, <1>2 DEF EndEarned, FailureEarned, TerminalRun
<1> QED BY <1>1, <1>2, EndingEarned, EndStaysEarned

LEMMA FinalSafeAlways == Spec => []FinalSafe
<1>1. Init => FinalSafe
  BY DEF Init, StoreInit, FinalSafe, Down, Closing, Leaves, Sealing, Finalizing, EndEarned
<1>2. StoreSafe /\ Lone /\ FinalSafe /\ [Next]_vars => FinalSafe'
  BY FinalStep
<1> QED BY <1>1, <1>2, StoreSafeAlways, LoneAlways, PTL DEF Spec

(* A run is shown as completed or partial only on a usable delivery, and a *)
(* universal plan as completed only when nothing it owes is missing: by    *)
(* whichever writer it ends, and for as long as it is looked at.  Nobody   *)
(* fails one that has something to deliver, other than by giving up a node *)
(* that waited for the user.                                               *)
THEOREM OutcomesAreEarned == Spec => OutcomeEarned
<1>1. FinalSafe => EndEarned
  BY DEF FinalSafe
<1>2. StoreSafe /\ Lone /\ FinalSafe /\ [Next]_vars => [FailureEarned]_vars
  BY FinalStep
<1> QED BY <1>1, <1>2, StoreSafeAlways, LoneAlways, FinalSafeAlways, PTL DEF Spec, OutcomeEarned

-----------------------------------------------------------------------------
(* The promise to the user.                                                *)

LEMMA CompleteDelivers ==
    ASSUME StoreSafe, NEW n \in Nodes, NEW t \in Nat, Complete(n, t)
    PROVE  Promise!Deliver
<1>1. /\ run = "running" /\ UNCHANGED run
      /\ node[n] = "running" /\ attempt[n] = t
      /\ result' = result \cup {<<n, t>>}
  BY DEF Complete, CanComplete, CanTransition, Active
<1>2. t \in 1..MaxAttempt
  BY <1>1 DEF StoreSafe, Typed, StoreTyped, StoreTypeOK, Counted, MaxAttempt
<1>3. Completed' = Completed \cup {n}
  BY <1>1, <1>2 DEF Completed
<1>4. n \notin Completed
  BY <1>1, CompletedNodes DEF StoreSafe, Backing, NodesIn
<1> QED BY <1>1, <1>3, <1>4 DEF Promise!Deliver

(* Every step of anybody is a step of the promise or none at all: results  *)
(* are delivered one by one, the run asks and is answered, and it ends     *)
(* once, as completed on all of the work and as partial on some.           *)
LEMMA StepKeepsPromise ==
    ASSUME StoreSafe, FinalSafe', [Next]_vars
    PROVE  [Promise!Next]_<<run, Completed>>
<1>0. StoreStep /\ StoreSafe'
  BY StoreSafeInductive
<1>1. CASE \E n \in Nodes, t \in Nat : Complete(n, t)
  BY <1>0, <1>1, CompleteDelivers DEF Promise!Next
<1>2. CASE \A n \in Nodes, t \in Nat : ~Complete(n, t)
  <2>1. UNCHANGED Completed
    <3>1. UNCHANGED result
      BY <1>0, <1>2, MoveKeepsCompletions DEF StoreSafe, Backing
    <3> QED BY <3>1 DEF Completed
  <2>2. CASE Quiet \/ ClaimPlan \/ NodeMoves \/ \E n \in Nodes : ClaimNode(n)
    <3>1. UNCHANGED run
      BY <2>2 DEF Quiet, ClaimPlan, NodeMoves, Transition, ClaimNode
    <3> QED BY <2>1, <3>1
  <2>3. ASSUME NEW n \in Nodes, NEW t, NEW cs, PauseNodeAndRun(n, t, cs) PROVE Promise!AskUser
    BY <2>1, <2>3 DEF PauseNodeAndRun, CanPause, CanTransition, Active, Promise!AskUser
  <2>4. ASSUME NEW c, ClaimRunForResume(c) PROVE Promise!UserAnswers
    BY <2>1, <2>4 DEF ClaimRunForResume, CanResume, Promise!UserAnswers
  <2>5. CASE Ends
    <3>1. run \notin TerminalRun /\ run' \in TerminalRun
      BY <2>5 DEF Ends
    <3>2. CASE run' \in {"failed", "cancelled"}
      BY <2>1, <3>1, <3>2 DEF Promise!Next, Promise!GiveUp, Promise!Ended, TerminalRun
    <3>3. run' \in {"completed", "partial"} => Usable'
      BY DEF FinalSafe, EndEarned
    <3>4. CASE run' = "partial"
      <4>1. Completed' # {}
        <5>1. result' \subseteq Nodes \X (1..MaxAttempt)
          BY <1>0 DEF StoreSafe, Typed, StoreTyped, StoreTypeOK
        <5> QED BY <3>3, <3>4, <5>1 DEF Usable, Completed
      <4> QED BY <2>1, <3>1, <3>4, <4>1 DEF Promise!Next, Promise!DeliverPart, Promise!Ended, TerminalRun
    <3>5. CASE run' = "completed"
      <4>1. Completed' = Nodes
        <5>1. \A n \in Nodes : node'[n] = "completed"
          BY <3>5 DEF FinalSafe, EndEarned
        <5>2. \A n \in Nodes : node[n] = "completed"
          BY <1>0, <1>2, <5>1, MoveKeepsCompletions DEF StoreSafe, Backing, CompletionKept
        <5>3. Completed = NodesIn("completed")
          BY CompletedNodes DEF StoreSafe, Backing
        <5> QED BY <2>1, <5>2, <5>3 DEF NodesIn
      <4>2. run = "running"
        BY <2>5, <3>5 DEF Ends
      <4> QED BY <2>1, <3>5, <4>1, <4>2 DEF Promise!Next, Promise!Complete
    <3> QED BY <3>1, <3>2, <3>4, <3>5 DEF TerminalRun
  <2> QED BY <1>0, <1>2, <2>2, <2>3, <2>4, <2>5 DEF StoreStep, Promise!Next
<1> QED BY <1>1, <1>2

(* The execution of every plan implements PlanPromise, through every pause *)
(* and resume, crash and start-up, cancellation and expiry: a delivered    *)
(* result is never lost, none is added after the end, and completed and    *)
(* partial mean what they say.                                             *)
THEOREM PromiseIsKept == Spec => KeepsPromise
<1>1. Init => Promise!Init
  BY DEF Init, StoreInit, Promise!Init, Completed
<1>2. StoreSafe /\ FinalSafe' /\ [Next]_vars => [Promise!Next]_<<run, Completed>>
  BY StepKeepsPromise
<1> QED BY <1>1, <1>2, StoreSafeAlways, FinalSafeAlways, PTL DEF Spec, KeepsPromise, Promise!Spec

-----------------------------------------------------------------------------
(* A waiting run can be answered.                                          *)

\* What a step does to the inbox item, and to the copy a request keeps of it.
InboxMoves(a) ==
    /\ \/ /\ inbox' = inbox
          /\ run' = "waiting_approval" => run = "waiting_approval" /\ paused' = paused
       \/ run' \in TerminalRun
       \/ run' = "waiting_approval" /\ inbox' = [status |-> "open", calls |-> paused'.calls]
       \/ /\ a \in Resumers /\ pc[a] = "route_paused" /\ UNCHANGED <<run, paused>>
          /\ inbox' = [item[a] EXCEPT !.calls = ask[a]]
       \/ a \in Resumers /\ pc[a] = "route_done" /\ UNCHANGED run
    /\ a \in Resumers =>
          /\ pc'[a] = "route_done" => run' \in TerminalRun
          /\ pc'[a] = "route_paused" => run' = "waiting_approval" /\ paused'.calls = ask'[a]
          /\ pc'[a] \notin {"idle", "done"} =>
                item'[a].status = "open" \/ (pc[a] \notin {"idle", "done"} /\ item'[a] = item[a])
    /\ run = "waiting_approval" /\ run' = "running" => a \in Resumers /\ pc[a] # "route_paused"
    /\ \A r \in Resumers \ {a} : item'[r] = item[r] /\ ask'[r] = ask[r]

LEMMA ExecutionInbox ==
    ASSUME Typed, NEW a \in Actors, ExecutionStep(a) \/ RunTimeout(a) PROVE InboxMoves(a)
<1> USE DEF InboxMoves, Go, Over, Raised, TransitionConflict, request
<1>0. /\ pc \in [Actors -> Label] /\ ask \in [Actors -> SUBSET Calls]
      /\ Resumers \subseteq Actors /\ Executor \notin Resumers
  BY ResumerIsActor, ActorsDistinct DEF Typed, ActorTyped, ActorTypeOK
<1>1. CASE \/ LoopStops(a) \/ SkipNode(a) \/ ChooseBatch(a) \/ MarkReady(a) \/ LoopEnds(a)
  BY <1>0, <1>1 DEF LoopStops, SkipNode, ChooseBatch, MarkReady, LoopEnds, Transition, CanTransition,
                    Active, store, flow
<1>2. CASE \/ ClaimBatchNode(a) \/ QuiesceStopsBatch(a) \/ NodeOutcome(a) \/ JoinBatch(a)
  BY <1>0, <1>2 DEF ClaimBatchNode, ClaimNode, QuiesceStopsBatch, NodeOutcome, JoinBatch, store, flow
<1>3. CASE SettleNode(a) \/ RescheduleExtra(a) \/ SettleEnds(a)
  BY <1>0, <1>3 DEF SettleNode, RescheduleExtra, SettleEnds, Transition, Complete, CanComplete,
                    CanTransition, Active, store, flow
<1>4. CASE PersistPause(a)
  BY <1>0, <1>4 DEF PersistPause, PauseNodeAndRun, CanPause, CanTransition, Active, store, flow
<1>5. CASE \/ SealSynthesis(a) \/ SynthesisFails(a) \/ RunTimeout(a)
           \/ ReadCancelled(a) \/ ReadFailure(a) \/ ReadNodeFailure(a)
  BY <1>0, <1>5 DEF SealSynthesis, SealArtifact, SynthesisFails, RunTimeout, ReadCancelled, ReadFailure,
                    ReadNodeFailure, store, flow
<1>6. CASE \/ ModelMissing(a) \/ BeginSynthesis(a) \/ FinishPlan(a) \/ CancelExecution(a)
           \/ FailRun(a) \/ FailNode(a)
  <2>1. UNCHANGED store \/ run' \in TerminalRun
    BY <1>6, EndingMoves
  <2>2. /\ pc'[a] \notin {"route_paused", "idle"}
        /\ a \in Resumers /\ pc'[a] = "route_done" => run' \in TerminalRun
        /\ pc[a] \notin {"idle", "done"}
        /\ UNCHANGED <<item, ask>>
    <3>1. CASE BeginSynthesis(a) \/ FinishPlan(a)
      <4>1. \A r : Endings(r) \subseteq TerminalRun
        BY DEF Endings, TerminalRun
      <4> QED BY <1>0, <3>1, <4>1 DEF BeginSynthesis, FinishPlan, Finish, TerminalRun
    <3>2. CASE ModelMissing(a) \/ CancelExecution(a) \/ FailRun(a) \/ FailNode(a)
      BY <1>0, <3>2 DEF ModelMissing, CancelExecution, FailRun, FailNode
    <3> QED BY <1>6, <3>1, <3>2
  <2> QED BY <1>0, <2>1, <2>2 DEF store, flow, TerminalRun
<1> QED BY <1>1, <1>2, <1>3, <1>4, <1>5, <1>6 DEF ExecutionStep

LEMMA ResumeInbox ==
    ASSUME Typed, NEW r \in Resumers, RouteRead(r) \/ ResumeStep(r) PROVE InboxMoves(r)
<1> USE DEF InboxMoves, Go, Over, Raised, request
<1>0. /\ pc \in [Actors -> Label] /\ ask \in [Actors -> SUBSET Calls]
      /\ item \in [Resumers -> [status : {"none", "open", "resolved"}, calls : SUBSET Calls]]
      /\ Resumers \subseteq Actors /\ Executor \notin Resumers
  BY ResumerIsActor, ActorsDistinct DEF Typed, ActorTyped, ActorTypeOK
<1>1. CASE RouteRead(r) \/ ContinueExecution(r) \/ ResumeBegin(r)
  BY <1>0, <1>1 DEF RouteRead, ContinueExecution, ResumeBegin, store, flow
<1>2. CASE ResumeClaim(r) \/ ClaimRevoked(r)
  BY <1>0, <1>2 DEF ResumeClaim, ClaimRevoked, Claimed, ClaimRunForResume, store, flow
<1>3. CASE FailRevokedNode(r) \/ CompleteResumedNode(r) \/ Converge(r)
  BY <1>0, <1>3 DEF FailRevokedNode, CompleteResumedNode, Converge, Transition, Complete, CanComplete,
                    CanTransition, Active, store, flow
<1>4. CASE RunResumed(r) \/ ToolAnswers(r) \/ ResumedOutcome(r)
  BY <1>0, <1>4 DEF RunResumed, ToolAnswers, ResumedOutcome, ClaimToolCall, FinishToolCall, store, flow
<1>5. CASE RouteSavesPaused(r)
  BY <1>0, <1>5 DEF RouteSavesPaused, Answered, SaveInbox
<1>6. CASE RouteDone(r)
  BY <1>0, <1>6 DEF RouteDone, Answered, SaveInbox
<1>7. CASE RouteError(r)
  <2>1. /\ pc'[r] = "done" /\ UNCHANGED <<run, paused>> /\ (inbox' = inbox \/ run' \in TerminalRun)
        /\ \A s \in Resumers \ {r} : item'[s] = item[s] /\ ask'[s] = ask[s]
    BY <1>0, <1>7 DEF RouteError, Answered, SaveInbox, TerminalRun, store, flow
  <2> QED BY <2>1
<1> QED BY <1>1, <1>2, <1>3, <1>4, <1>5, <1>6, <1>7 DEF ResumeStep

LEMMA EnvironmentInbox ==
    ASSUME Typed, StartStep \/ (Environment /\ ~Crash) \/ UNCHANGED vars PROVE InboxMoves(Executor)
<1>0. Executor \notin Resumers
  BY ActorsDistinct
<1>1. UNCHANGED <<item, ask>>
  BY DEF StartStep, StartDispatch, BeginExecution, Environment, Cancel, Expire, Quiesce, Startup,
         QuiesceOffline, Rest, vars, request
<1>2. \/ UNCHANGED <<run, paused, inbox>>
      \/ run' \in TerminalRun
  <2>1. CASE StartStep
    BY <2>1 DEF StartStep, StartDispatch, BeginExecution, ClaimDispatch, ClaimPlan, store, flow
  <2>2. CASE Environment /\ ~Crash /\ UNCHANGED run
    BY <2>2, EarlyEndIncomplete DEF Environment, Cancel, Expire, ExpireApproval, CancelTree, CancelFlow, Quiesce, Startup,
                Reconcile, ReconcilePending, ReconcileWaiting, ReconcileExpired, ReconcileRunning,
                ReconcileSettled, QuiesceOffline, QuiesceRun, QuiesceEndedRun, Rest, vars, store, flow,
                TerminalRun
  <2>3. CASE UNCHANGED vars
    BY <2>3 DEF vars, store, flow
  <2> QED BY <2>1, <2>2, <2>3, EnvironmentMoves
<1> QED BY <1>0, <1>1, <1>2 DEF InboxMoves, TerminalRun

(* The item stays open while the run waits, for any number of requests: a  *)
(* request that resolves it has seen the run end.                          *)
InboxSafe ==
    /\ run = "waiting_approval" => inbox.status = "open"
    /\ \A r \in Resumers : /\ pc[r] = "route_done" => run \in TerminalRun
                           /\ pc[r] \notin {"idle", "done"} => item[r].status = "open"

\* While a request is about to list the calls left, the pause is the one it made.
Listing ==
    /\ run = "waiting_approval" => paused.calls \subseteq inbox.calls
    /\ \A r \in Resumers : pc[r] = "route_paused" =>
          run \in TerminalRun \/ (run = "waiting_approval" /\ paused.calls = ask[r])

OneRequest == \A r, s \in Resumers : r = s

LEMMA InboxInductive ==
    ASSUME StoreSafe, InboxSafe, [Next]_vars
    PROVE  InboxSafe' /\ (OneRequest /\ Listing => Listing')
<1>0. /\ Typed
      /\ inbox \in [status : {"none", "open", "resolved"}, calls : SUBSET Calls]
      /\ item \in [Resumers -> [status : {"none", "open", "resolved"}, calls : SUBSET Calls]]
      /\ Resumers \subseteq Actors
  BY ResumerIsActor DEF StoreSafe, Typed, StoreTyped, StoreTypeOK, ActorTyped, ActorTypeOK
<1>1. run \in TerminalRun => run' = run
  BY <1>0, TypedIsTypeOK, KeepsInductive DEF StoreSafe, Keeps, EndingsFinal
<1>2. ASSUME NEW a \in Actors, OthersStay(a), InboxMoves(a)
      PROVE  InboxSafe' /\ (OneRequest /\ Listing => Listing')
  <2>1. \A r \in Resumers : r # a => pc'[r] = pc[r] /\ item'[r] = item[r] /\ ask'[r] = ask[r]
    BY <1>0, <1>2 DEF OthersStay, Mine, InboxMoves
  <2>2. ASSUME run' = "waiting_approval" PROVE inbox'.status = "open"
    <3>1. run \notin TerminalRun /\ run' \notin TerminalRun
      BY <1>1, <2>2 DEF TerminalRun
    <3> QED BY <1>0, <1>2, <2>2, <3>1 DEF InboxMoves, InboxSafe
  <2>3. \A r \in Resumers : /\ pc'[r] = "route_done" => run' \in TerminalRun
                            /\ pc'[r] \notin {"idle", "done"} => item'[r].status = "open"
    BY <1>1, <1>2, <2>1 DEF InboxMoves, InboxSafe
  <2>4. ASSUME OneRequest, Listing PROVE Listing'
    <3>1. ASSUME run' = "waiting_approval" PROVE paused'.calls \subseteq inbox'.calls
      <4>1. run \notin TerminalRun /\ run' \notin TerminalRun
        BY <1>1, <3>1 DEF TerminalRun
      <4> QED BY <1>0, <1>2, <2>4, <3>1, <4>1 DEF InboxMoves, InboxSafe, Listing
    <3>2. ASSUME NEW r \in Resumers, pc'[r] = "route_paused"
          PROVE  run' \in TerminalRun \/ (run' = "waiting_approval" /\ paused'.calls = ask'[r])
      <4>1. CASE a = r
        BY <1>2, <3>2, <4>1 DEF InboxMoves
      <4>2. CASE a # r /\ run \in TerminalRun
        BY <1>1, <4>2
      <4>3. CASE a # r /\ run \notin TerminalRun
        <5>1. a \notin Resumers /\ pc[r] = "route_paused" /\ ask'[r] = ask[r]
              /\ run = "waiting_approval" /\ paused.calls = ask[r]
          BY <2>1, <2>4, <3>2, <4>3 DEF OneRequest, Listing
        <5>2. run' \in TerminalRun \/ (run' = "waiting_approval" /\ paused' = paused)
          <6>1. StoreStep
            BY StoreSafeInductive
          <6> QED BY <1>2, <5>1, <6>1 DEF StoreStep, Quiet, ClaimPlan, ClaimNode, CanClaimNode, NodeMoves,
                  Transition, Complete, CanComplete, PauseNodeAndRun, CanPause, CanTransition, Active,
                  ClaimRunForResume, Ends, InboxMoves, TerminalRun
        <5> QED BY <5>1, <5>2
      <4> QED BY <4>1, <4>2, <4>3
    <3> QED BY <3>1, <3>2 DEF Listing
  <2> QED BY <2>2, <2>3, <2>4 DEF InboxSafe
<1>3. CASE Crash
  BY <1>0, <1>3 DEF Crash, InboxSafe, Listing, store, flow
<1>4. CASE StartStep \/ (Environment /\ ~Crash) \/ UNCHANGED vars
  BY <1>0, <1>2, <1>4, EnvironmentInbox, StartMoves, EnvironmentMoves, ResumerIsActor
<1> QED BY <1>0, <1>2, <1>3, <1>4, ExecutionOthers, ResumeOthers, ExecutionInbox, ResumeInbox
        DEF Next, Environment

LEMMA InboxSafeAlways == Spec => []InboxSafe
<1>1. Init => InboxSafe
  BY ResumerIsActor DEF Init, StoreInit, InboxSafe
<1>2. StoreSafe /\ InboxSafe /\ [Next]_vars => InboxSafe'
  BY InboxInductive
<1> QED BY <1>1, <1>2, StoreSafeAlways, PTL DEF Spec

(* While the run waits its inbox item is open, for any number of requests  *)
(* and whatever they read before: the user is never left without a button. *)
THEOREM WaitingIsOpen == Spec => [](run = "waiting_approval" => inbox.status = "open")
<1>1. InboxSafe => (run = "waiting_approval" => inbox.status = "open")
  BY DEF InboxSafe
<1> QED BY <1>1, InboxSafeAlways, PTL

(* A waiting run can be answered: its open item lists every call the       *)
(* stored SDK state waits for, as long as its answers come one request at  *)
(* a time.  (Of two, the later one may write back the list it read before  *)
(* the other paused the run again.)                                        *)
THEOREM OneRequestAnswerable ==
    ASSUME OneRequest PROVE Spec => []WaitingAnswerable
<1>1. Init => Listing
  BY ResumerIsActor DEF Init, StoreInit, Listing
<1>2. StoreSafe /\ InboxSafe /\ Listing /\ [Next]_vars => Listing'
  BY InboxInductive
<1>3. InboxSafe /\ Listing => WaitingAnswerable
  BY DEF InboxSafe, Listing, WaitingAnswerable
<1> QED BY <1>1, <1>2, <1>3, StoreSafeAlways, InboxSafeAlways, PTL DEF Spec

=============================================================================
