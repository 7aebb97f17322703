--------------------------- MODULE SkillPlanStore ---------------------------
(***************************************************************************)
(* The SQLite store seen by one Skill plan: the run, its plan and nodes,   *)
(* the node results, the paused SDK state, the approval inbox item, the    *)
(* tool-call ledger and the dispatch receipt.  Every operator below is one *)
(* BEGIN IMMEDIATE transaction of agentmesh/store.py, given by its compare-*)
(* and-set guard and its effect; SkillPlanExecution says who calls them    *)
(* and when.                                                               *)
(***************************************************************************)
EXTENDS Integers, FiniteSets

CONSTANTS
    N,          \* number of nodes; Nodes are numbered in plan order
    Deps,       \* depends_on of each node
    AskNodes,   \* nodes whose tools may need approval: a tool that is not a read
                \* tool always does, a read tool when its parameters are high-risk
    WriteNodes, \* nodes with a local_write or external_write side effect
    MaxCalls,   \* bound: approval calls one node may raise
    ReadCalls,  \* those of them that call a read tool
    Universal,  \* the plan carries a candidate snapshot (standard_universal_v1)
    Owed,       \* what such a plan owes: atoms, criteria, synthesis, evidence policy
    Gives,      \* what a result of each node may carry: atoms, criteria and sources
    Origin      \* host of each evidence source

Nodes == 1..N
Calls == Nodes \X (1..MaxCalls)
MaxAttempt == 2

ASSUME PlanShape == /\ N \in Nat \ {0}
                    /\ MaxCalls \in Nat \ {0}
                    /\ Universal \in BOOLEAN
                    /\ AskNodes \subseteq Nodes
                    /\ WriteNodes \subseteq Nodes
                    /\ ReadCalls \subseteq Calls
\* A universal plan is granted nothing but read tools.
ASSUME UniversalReads == Universal => ReadCalls = Calls
Items == UNION {Gives[n] : n \in Nodes}
\* CandidateSnapshotV1 and the evidence requirement of the routing result.
ASSUME Obligations ==
    /\ Owed \in [atoms : SUBSET Items,
                 criteria : SUBSET Items,
                 synthesis : BOOLEAN, evidence : BOOLEAN, fresh : BOOLEAN,
                 sources : Nat \ {0}, origins : Nat \ {0}]
    /\ \A n \in Nodes : IsFiniteSet(Gives[n])
    /\ Universal => Owed.atoms # {} \/ Owed.evidence \/ Owed.synthesis
\* A plan is a DAG; its nodes are listed in a topological order.
ASSUME DepsAcyclic == /\ Deps \in [Nodes -> SUBSET Nodes]
                      /\ \A n \in Nodes : Deps[n] \subseteq 1..(n - 1)

NodeStatus == {"pending", "ready", "running", "waiting_tool_approval",
               "completed", "failed", "skipped", "cancelled"}
TerminalNode == {"completed", "failed", "skipped", "cancelled"}
TerminalRun == {"completed", "partial", "failed", "cancelled"}
RunStatus == {"running", "waiting_approval"} \cup TerminalRun
PlanStatus == {"approved", "running"} \cup TerminalRun
CallStatus == {"none", "claimed", "settled", "abandoned", "outcome_unknown"}
ErrorCode == {"none", "external_outcome_unknown", "other"}
NoPause == [node |-> 0, calls |-> {}]
Synthesis == {"none", "other", "some", "all"}
Pause == {NoPause} \cup [node : Nodes, calls : SUBSET Calls]

VARIABLES
    run,        \* agent_runs.status
    plan,       \* skill_plans.status
    node,       \* status of each skill_plan_nodes row
    attempt,    \* attempt of each node
    nerr,       \* error_code of each node
    result,     \* skill_node_results: the (node, attempt) pairs stored
    delivers,   \* what the result of each node carries
    sealed,     \* universal_synthesis artifact: how many of the owed outputs it has
    paused,     \* agent_runs.paused_state: node and calls of the SDK state
    inbox,      \* inbox_tool_approval_<run>: status and listed call ids
    ledger,     \* tool_call_claimed / settled / abandoned / outcome_unknown events by call
    dispatch    \* run_dispatch_receipts.state; settled only by the offline quiesce

results == <<result, delivers, sealed>>
flow == <<run, plan, node, attempt, nerr, results, paused, inbox>>
store == <<flow, ledger, dispatch>>

StoreTypeOK ==
    /\ run \in RunStatus
    /\ plan \in PlanStatus
    /\ node \in [Nodes -> NodeStatus]
    /\ attempt \in [Nodes -> 0..MaxAttempt]
    /\ nerr \in [Nodes -> ErrorCode]
    /\ result \subseteq Nodes \X (1..MaxAttempt)
    /\ delivers \in [Nodes -> SUBSET Items]
    /\ sealed \in Synthesis
    /\ paused \in Pause
    /\ inbox \in [status : {"none", "open", "resolved"}, calls : SUBSET Calls]
    /\ ledger \in [Calls -> CallStatus]
    /\ dispatch \in {"pending", "started", "settled"}

\* The user has approved the plan: it waits for its executor.
StoreInit ==
    /\ run = "running"
    /\ plan = "approved"
    /\ node = [n \in Nodes |-> "pending"]
    /\ attempt = [n \in Nodes |-> 0]
    /\ nerr = [n \in Nodes |-> "none"]
    /\ result = {}
    /\ delivers = [n \in Nodes |-> {}]
    /\ sealed = "none"
    /\ paused = NoPause
    /\ inbox = [status |-> "none", calls |-> {}]
    /\ ledger = [c \in Calls |-> "none"]
    /\ dispatch = "pending"

-----------------------------------------------------------------------------
(* What a caller reads.                                                    *)

Active == run = "running" /\ plan = "running"

HasUnknownWrite(n) ==
    \E c \in Calls \ ReadCalls : c[1] = n /\ ledger[c] \in {"claimed", "outcome_unknown"}
UnknownNodes == {n \in Nodes : HasUnknownWrite(n)}

\* The plan and the run as one caller holds them between a read and a write.
Row == [run |-> run, plan |-> plan, node |-> node, attempt |-> attempt,
        nerr |-> nerr, paused |-> paused]
RowType == [run : RunStatus, plan : PlanStatus, node : [Nodes -> NodeStatus],
            attempt : [Nodes -> 0..MaxAttempt], nerr : [Nodes -> ErrorCode],
            paused : Pause]

\* What the results of a universal plan cover, given whether the evidence policy
\* is met; a sealed synthesis with an owed output is a delivery as well.
Given == UNION {delivers[n] : n \in Nodes}
GivenSources == Given \cap DOMAIN Origin
Policy(origins) == Cardinality(GivenSources) >= Owed.sources /\ Cardinality(origins) >= Owed.origins
Covered(held) == Given \cap Owed.atoms # {} \/ (Owed.evidence /\ held)
SynthesisDelivers == sealed \in {"some", "all"} /\ result # {}

\* Finalization counts the hosts of the sources and asks whether they are recent;
\* a plan that ends early counts the sources and takes none as recent.
HasEvidence == Policy({Origin[o] : o \in GivenSources})
HasEvidenceEarly == ~Owed.fresh /\ Policy(GivenSources)
PartialDelivery == Covered(HasEvidence) \/ SynthesisDelivers
PartialEarly == Universal /\ (Covered(HasEvidenceEarly) \/ SynthesisDelivers)

\* evaluate_universal_completion, but for the nodes.
NothingMissing ==
    /\ Owed.atoms \cup Owed.criteria \subseteq Given
    /\ Owed.evidence => HasEvidence
    /\ Owed.synthesis => sealed = "all"

\* Variant: the sealed synthesis is looked for in the plan, where only the end puts it.
EarlyEndWithoutSealed ==
    {IF Universal /\ Covered(HasEvidenceEarly) THEN "partial" ELSE "failed"}

\* A plan that ends early is partial when its stored results are a valid partial
\* delivery.
EarlyEnd == {IF PartialEarly THEN "partial" ELSE "failed"}

-----------------------------------------------------------------------------
(* Plan and node transactions.                                             *)

ClaimDispatch ==
    /\ dispatch = "pending"
    /\ dispatch' = "started"
    /\ UNCHANGED <<flow, ledger>>

ClaimPlan ==
    /\ run = "running" /\ plan = "approved"
    /\ plan' = "running"
    /\ UNCHANGED <<run, node, attempt, nerr, results, paused, inbox, ledger, dispatch>>

CanClaimNode(n) == Active /\ node[n] = "ready" /\ attempt[n] < MaxAttempt

ClaimNode(n) ==
    /\ CanClaimNode(n)
    /\ node' = [node EXCEPT ![n] = "running"]
    /\ attempt' = [attempt EXCEPT ![n] = @ + 1]
    /\ UNCHANGED <<run, plan, nerr, results, paused, inbox, ledger, dispatch>>

\* transition_skill_plan_node: the guard ...
CanTransition(n, from, a) == Active /\ node[n] = from /\ attempt[n] = a

\* ... and its effect, without a result,
Transition(n, from, a, to, err, newAttempt) ==
    /\ CanTransition(n, from, a)
    /\ node' = [node EXCEPT ![n] = to]
    /\ nerr' = [nerr EXCEPT ![n] = err]
    /\ attempt' = [attempt EXCEPT ![n] = newAttempt]
    /\ UNCHANGED <<run, plan, results, inbox, ledger, dispatch>>

\* ... and with the one result an attempt may ever store.
CanCompleteLate(n, a) == attempt[n] = a /\ <<n, a>> \notin result
CanComplete(n, a) == CanTransition(n, "running", a) /\ <<n, a>> \notin result

\* A result is accepted with any part of what the node may give.
MayCarry(n) == SUBSET Gives[n]

CompleteWithoutResult(n, a) ==
    /\ CanComplete(n, a)
    /\ node' = [node EXCEPT ![n] = "completed"]
    /\ nerr' = [nerr EXCEPT ![n] = "none"]
    /\ UNCHANGED <<run, plan, attempt, results, inbox, ledger, dispatch>>

Complete(n, a) ==
    /\ CanComplete(n, a)
    /\ node' = [node EXCEPT ![n] = "completed"]
    /\ nerr' = [nerr EXCEPT ![n] = "none"]
    /\ result' = result \cup {<<n, a>>}
    /\ \E given \in MayCarry(n) : delivers' = [delivers EXCEPT ![n] = given]
    /\ UNCHANGED <<run, plan, attempt, sealed, inbox, ledger, dispatch>>

\* pause_skill_plan_node_and_run: node, run, SDK state and inbox item together.
CanPause(n, a) == CanTransition(n, "running", a)

PauseKeepsInbox(n, a, cs) ==
    /\ CanPause(n, a)
    /\ node' = [node EXCEPT ![n] = "waiting_tool_approval"]
    /\ run' = "waiting_approval"
    /\ paused' = [node |-> n, calls |-> cs]
    /\ inbox' = IF inbox.status = "none" THEN [status |-> "open", calls |-> cs] ELSE inbox
    /\ UNCHANGED <<plan, attempt, nerr, results, ledger, dispatch>>

PauseNodeAndRun(n, a, cs) ==
    /\ CanPause(n, a)
    /\ node' = [node EXCEPT ![n] = "waiting_tool_approval"]
    /\ run' = "waiting_approval"
    /\ paused' = [node |-> n, calls |-> cs]
    /\ inbox' = [status |-> "open", calls |-> cs]
    /\ UNCHANGED <<plan, attempt, nerr, results, ledger, dispatch>>

\* claim_agent_run_for_resume: only the open inbox item and the call ids it
\* lists are compared; the node is the one the stored pause names.
CanResumeAgain(c) ==
    /\ paused # NoPause /\ plan = "running"
    /\ inbox.status = "open" /\ c \in inbox.calls

CanResume(c) ==
    /\ run = "waiting_approval" /\ paused # NoPause
    /\ inbox.status = "open" /\ c \in inbox.calls
    /\ plan = "running" /\ node[paused.node] = "waiting_tool_approval"

ClaimRunOnly(c) ==
    /\ CanResume(c)
    /\ run' = "running"
    /\ UNCHANGED <<plan, node, attempt, nerr, results, paused, inbox, ledger, dispatch>>

ClaimRunForResume(c) ==
    /\ CanResume(c)
    /\ node' = [node EXCEPT ![paused.node] = "running"]
    /\ run' = "running"
    /\ UNCHANGED <<plan, attempt, nerr, results, paused, inbox, ledger, dispatch>>

\* insert_sealed, of an artifact whose content the synthesis decides; nothing is
\* compared with the run.
SealArtifact ==
    /\ \E outputs \in IF Owed.synthesis THEN {"other", "some", "all"} ELSE {"other"} :
          sealed' = outputs
    /\ UNCHANGED <<run, plan, node, attempt, nerr, result, delivers, paused, inbox, ledger, dispatch>>

-----------------------------------------------------------------------------
(* Terminal transactions.                                                  *)

ResolveOpenInbox ==
    inbox' = IF inbox.status = "open" THEN [inbox EXCEPT !.status = "resolved"] ELSE inbox

\* A node of the caller's copy is replaced by the stored one where that one is
\* terminal or of a later attempt.
KeepsStoredNothing(copy, n) == FALSE
KeepsStored(copy, n) == node[n] \in TerminalNode \/ attempt[n] > copy.attempt[n]

\* finish_skill_plan_and_run, from the caller's copy, with the node
\* statuses and error codes in "to" and "err".
FinishRunOnly(copy, end, to, err, pausedTo) ==
    /\ run' = end
    /\ node' = [n \in Nodes |-> IF KeepsStored(copy, n) THEN node[n] ELSE to[n]]
    /\ paused' = pausedTo
    /\ ResolveOpenInbox
    /\ UNCHANGED <<plan, attempt, nerr, results, ledger, dispatch>>

Finish(copy, end, to, err, pausedTo) ==
    /\ run' = end
    /\ plan' = end
    /\ node' = [n \in Nodes |-> IF KeepsStored(copy, n) THEN node[n] ELSE to[n]]
    /\ attempt' = [n \in Nodes |-> IF KeepsStored(copy, n) THEN attempt[n] ELSE copy.attempt[n]]
    /\ nerr' = [n \in Nodes |-> IF KeepsStored(copy, n) THEN nerr[n] ELSE err[n]]
    /\ paused' = pausedTo
    /\ ResolveOpenInbox
    /\ UNCHANGED <<results, ledger, dispatch>>

\* _cancel_agent_run_tree_in_transaction: everything not terminal ends; a node
\* behind an unconfirmed write ends as failed, not as cancelled.
CancelFlow ==
    LET open == {n \in Nodes : node[n] \notin TerminalNode}
        unknown == UnknownNodes # {}
        ends == IF ~unknown THEN {"cancelled"} ELSE EarlyEnd
    IN  /\ run \in {"running", "waiting_approval"}
        /\ node' = [n \in Nodes |-> IF n \notin open THEN node[n]
                                    ELSE IF n \in UnknownNodes THEN "failed" ELSE "cancelled"]
        /\ nerr' = [n \in Nodes |-> IF n \in open /\ n \in UnknownNodes
                                    THEN "external_outcome_unknown" ELSE nerr[n]]
        /\ \E end \in ends : run' = end /\ plan' = end
        /\ paused' = NoPause
        /\ ResolveOpenInbox
        /\ UNCHANGED <<attempt, results>>

CancelTree == CancelFlow /\ UNCHANGED <<ledger, dispatch>>

\* expire_agent_run_approval, and the expiry branch of the resume claim.
ExpireApproval == /\ run = "waiting_approval" /\ inbox.status = "open"
                  /\ CancelTree

-----------------------------------------------------------------------------
(* Tool-call ledger.                                                       *)

\* claim_runtime_tool_call: an existing claim answers False.
CanClaimToolCall(c) == run = "running" /\ ledger[c] = "none"

ClaimToolCall(c) ==
    /\ CanClaimToolCall(c)
    /\ ledger' = [ledger EXCEPT ![c] = "claimed"]
    /\ UNCHANGED <<flow, dispatch>>

\* What is recorded of a call whose answer never came.
Lost(c) == IF c \in ReadCalls THEN "abandoned" ELSE "outcome_unknown"

FinishToolCall(c, outcome) ==
    /\ ledger[c] = "claimed"
    /\ ledger' = [ledger EXCEPT ![c] = outcome]
    /\ UNCHANGED <<flow, dispatch>>

-----------------------------------------------------------------------------
(* reconcile_orphaned_agent_runs, for this run, when the process starts.   *)

ReconciledLedger == [c \in Calls |-> IF ledger[c] = "claimed" THEN Lost(c) ELSE ledger[c]]

\* A receipt nobody has started: the pump will start it.
ReconcilePending == dispatch = "pending" /\ UNCHANGED store

\* A waiting run keeps waiting.  A finished one stays as it is; its open tool
\* calls are looked at only when its receipt is settled already, and not when
\* the receipt was just reset for the projection of its output.
ReconcileWaiting ==
    /\ dispatch = "started"
    /\ run # "running"
    /\ \/ ledger' = ReconciledLedger
       \/ run \in TerminalRun /\ UNCHANGED ledger
    /\ UNCHANGED <<flow, dispatch>>

\* An approval found expired is cancelled like any other.
ReconcileExpired ==
    /\ dispatch = "started"
    /\ run = "waiting_approval"
    /\ ledger' = ReconciledLedger
    /\ CancelFlow
    /\ UNCHANGED dispatch

\* The executor is gone: what was running has failed, the rest is cancelled.
\* The paused state and the inbox item stay as they are.
ReconcileNothingRunning == dispatch = "started" /\ run = "running" /\ UNCHANGED store
ReconcileRunning ==
    /\ dispatch = "started"
    /\ run = "running"
    /\ ledger' = ReconciledLedger
    /\ node' = [n \in Nodes |-> IF node[n] = "running" THEN "failed"
                                ELSE IF node[n] \in TerminalNode THEN node[n] ELSE "cancelled"]
    /\ nerr' = [n \in Nodes |-> IF node[n] # "running" THEN nerr[n]
                                ELSE IF n \in UnknownNodes THEN "external_outcome_unknown" ELSE "other"]
    /\ \E end \in EarlyEnd : run' = end /\ plan' = end
    /\ UNCHANGED <<attempt, results, paused, inbox, dispatch>>

\* Nothing is open any more: the offline quiesce has seen to it.
ReconcileSettled == dispatch = "settled" /\ UNCHANGED store

Reconcile == ReconcilePending \/ ReconcileWaiting \/ ReconcileExpired \/ ReconcileRunning
             \/ ReconcileSettled

-----------------------------------------------------------------------------
(* universal_quiesce_inventory and apply_universal_quiesce: before a       *)
(* rollback the operators end, in a stopped system, what would go on.      *)

\* The inventory lists a run that has not ended if it is universal, has an open
\* receipt (it never paused) or has called a tool; a run that ended is left alone,
\* and the operation is refused if one of these still lacks its projection.
Quiescible ==
    /\ run \notin TerminalRun
    /\ Universal \/ inbox.status = "none" \/ \E c \in Calls : ledger[c] # "none"

\* Everything not terminal ends, a write node that was running as failed.
QuiesceEnds(n) == node[n] \notin TerminalNode
InterruptedWrite(n) == node[n] = "running" /\ n \in WriteNodes

QuiesceRun ==
    /\ Quiescible
    /\ ledger' = ReconciledLedger
    /\ node' = [n \in Nodes |-> IF ~QuiesceEnds(n) THEN node[n]
                                ELSE IF InterruptedWrite(n) THEN "failed" ELSE "cancelled"]
    /\ nerr' = [n \in Nodes |-> IF ~QuiesceEnds(n) THEN nerr[n]
                                ELSE IF InterruptedWrite(n) THEN "external_outcome_unknown"
                                ELSE "other"]
    /\ \E end \in EarlyEnd : run' = end /\ plan' = end
    /\ dispatch' = "settled"
    /\ UNCHANGED <<attempt, results, paused, inbox>>

QuiesceEndedRun ==
    /\ run \in TerminalRun
    /\ ledger' = ReconciledLedger
    /\ dispatch' = "settled"
    /\ UNCHANGED flow
=============================================================================
