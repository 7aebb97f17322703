# A verification project for AgentMesh

AgentMesh (`src/agentmesh`) is a Python service in which users give work to agents: a chat turn
starts a *run*; a run may become a *Skill plan*, a DAG of nodes each executed by an LLM agent with
tools; tools that write ask the user for approval; results are finalized, delivered, reviewed and
turned into governed memory. One process holds the event loop, worker threads and a SQLite
database; every state change is a `BEGIN IMMEDIATE` transaction, so the hard part is not what one
transaction does but what happens *between* them: two writers with copies read at different times,
a crash after any of them, a cancellation that lands in the middle.

This directory models that: TLA+ modules translated from the source, TLC runs on small instances,
and TLAPS proofs for all instances. `PROJECT.json` maps every definition to the lines it models.

All paths below are relative to `src/`; `store.py`, `service.py`, `executor.py` stand for
`agentmesh/store.py`, `agentmesh/agent_runtime/service.py`, `agentmesh/skill_runtime/executor.py`.

## 1. Inventory

| Component | State it keeps | Operations | Interacts with | Hard behaviour | Correct when |
|---|---|---|---|---|---|
| Skill plan execution (`executor.py`, `skill_runtime/finalization.py`, `service.py`, `store.py`) | `agent_runs`, `skill_plans`, `skill_plan_nodes`, `skill_node_results` | claim plan, schedule batches, claim / settle / retry / skip node, synthesize, finish, cancel, fail | dispatch pump, resume, capacity, ledger | each handler works on a copy; deadline, cancel, quiesce and crash between any two transactions | run and plan agree, endings are final, no result is lost, nodes follow their dependencies, the run ends |
| Approval pause and resume (`service.py`, `routes/inbox.py`, `store.py`) | `agent_runs.paused_state`, inbox item | pause, claim for resume, answer, expire | executor, ledger | two requests for one approval; the route writes back what it read at the start | one driver, the pause is consistent in four tables, a waiting run is answerable |
| Tool-call ledger (`store.py`, `tool_runtime/`) | append-only events per call | claim, settle, outcome unknown, reconcile | resume, cancel, start-up | timeouts of calls whose effect is unknown | no unapproved call, at most one execution, unknown writes stay unknown |
| Start-up reconciliation (`store.py`, `app.py`, `runtime_admission.py`) | none of its own | reconcile receipts, runs, calls | everything persisted | the stop happened anywhere | nothing stays running without a driver |
| Run dispatch receipts and pump (`store.py`, `service.py`) | `run_dispatch_receipts`, live tasks | create, claim, settle, project output | runs, capacity | started receipts of one process, retries, projection before settle | every accepted run is started, its output projected once |
| Runtime capacity (`runtime_capacity.py`) | reservations by key, counter by user, semaphores | claim, release, slots | pump, chat, resume | shared keys, done callbacks after the task | counts agree, limits hold, nothing leaks |
| Quiesce latch (`skill_runtime/quiesce.py`) | latch, permits | permit, begin quiesce | every admission | permits racing the latch | nothing admitted after the latch closed |
| Plan creation and approval (`store.py`, `routes/chat.py`, `skill_runtime/planner.py`) | plan version, approval item | create skeleton, edit, approve, replan | input requests, dispatch | concurrent edits of one version | only the version the user saw runs |
| Skill input requests (`store.py`, `skill_runtime/input_preflight.py`) | `skill_input_requests` | open, answer, expire, cancel | plans, runs | answer racing expiry | one outcome per request |
| DeepSearch lifecycle (`deepsearch/`) | requirement, plan, finalization stages | confirm, plan, execute, seal, publish, recover | budget, artifacts | recovery of a stage that may have committed | stages advance once, a report is published once |
| DeepSearch budget (`deepsearch/budget.py`, `store.py`) | reservations and settlements per run | reserve, settle, close | every model and tool call | parallel reservations against one limit, crashes | spent + reserved within the limit, nothing counted twice |
| Task management and operations, review (`task_management/`, `task_operations/`, `task_review/`) | tasks, assignments, submissions, reviews | assign, submit, review, reopen | runs, inbox, memory | review racing reassignment and new submissions | a task is delivered only on the accepted submission |
| Memory governance (`memory_governance/`) | candidates, reviews, memories | capture, expire, decide, withdraw | reviews, retrieval | expiry racing a decision | only accepted memories are retrievable |
| Chat turns and direct runs (`service.py`, `routes/chat.py`) | turn receipts, SDK sessions | start, repeat, retry | dispatch, capacity | repeats of a turn | one run per turn |
| Documents and parsing (`ingestion.py`, `routes/documents.py`, `store.py`) | document versions, parse jobs, memory items of each version, a bounded pool | upload, run, fail, import by hand, edit, confirm a Brief, shut down | vector index, memory, inbox | an edit overtakes a worker between its check and its save; jobs refused or cancelled | no old text under a new version, search sees whole finished jobs only, accepted jobs end |
| Search and vector index (`vector_index.py`, `store.py`, `retrieval/`) | `vector_states`, `records_vec` | prepare in the transaction, process after it | every indexed record | the provider answers late | a usable vector was made of the present text |
| Others: Skill catalog and ranking, artifacts, blackboard and market, auth, external clients, retired research, schema and views | | | | little shared state or pure I/O | `PROJECT.json` says why each is left out |

## 2. Plan

Done, in this order:

1. **`RuntimeCapacity`**: run reservations; proved.
2. **`SkillPlanStore` / `SkillPlanExecution`**: the execution of one approved plan, with approval,
   resume, ledger, cancellation, quiescing, crash and start-up; proved, with the refinement of
   `PlanPromise`, its abstract specification.
3. **`RunDispatch`**: receipts with process epochs, the pump, projection and settling, for several
   runs in several chat threads; proved, with the refinement of `DeliveryPromise`, its abstract
   specification.
4. **`PlanApproval`**: plan versions, edits, approval and the input request before it; proved, with
   the refinement of `ApprovalPromise`, its abstract specification.
5. **`DeepSearch`**: requirement, plan, nodes, finalization ladder, recovery and publication, under
   the budget of reservations; proved.
6. **`TaskDelivery`**, extended by **`MemoryGovernance`**: task commands, reviews, memories, their
   revisions and citations; proved.
7. **`DocumentIngestion`**: parse jobs, versions, memory items and the vector of a document; proved.

Left:

8. `CapacitySlots`: node, LLM and tool slots, and the drain of permits in `begin_quiesce`.
9. Chat-turn receipts and SDK sessions in front of `RunDispatch`; the pause of direct runs.

## 3. The modules and the code

### RuntimeCapacity
One action per critical section of `RuntimeCapacityController` (`ClaimRun`, `ReleaseRun`) in the
context of the operations that call it: background tasks (claimed in `recover_pending_dispatches`
or a chat turn, released by the done callback `_finish_background_task`) and approval resumes
(`resume`, released in `finally` by the attempt that created the reservation). A task that is
`done()` but whose callback has not run yet is a state of its own (`finished`): repeats of the turn
can come in between. Keys are hashes of user, thread, turn and kind; the assumption `OpKeys` says
just that a task and a resume, or two users, never share one.

### SkillPlanStore
The database as one plan's writers see it. Each operator is one transaction: its guard is the
compare-and-set test, its effect the rows it writes. `run`, `plan`, `node`, `attempt`, `nerr` and
`paused` are columns, `result` the set of (node, attempt) pairs with a stored result, `inbox` the
approval item with the call ids it lists, `ledger` the tool-call events folded to a status per call,
`dispatch` the receipt. Contents of results, prompts and synthesis are abstracted. For a
universal plan they are abstracted to what its ending depends on (`skill_runtime/universal_plan.py`):
its tools are read tools (`UniversalReads`), which still ask for an approval when their parameters are
high-risk (`needs_approval` in `tool_runtime/factory.py`, `risk.py`); a call of `ReadCalls` that is lost is
`abandoned`, one that writes has an unknown outcome.
`Owed` has the coverage atoms, completion criteria and evidence policy of the candidate snapshot,
`Gives` what a result of each node may carry, `delivers` what it does carry (any part of that: the
agent decides), `Origin` the host of each evidence source and `sealed` how many of the owed outputs the
stored synthesis has. `NothingMissing` is the completion check but for the nodes, `PartialDelivery` the
judgement of finalization and `PartialEarly` that of every ending before it. Of other plans a result
is worth something or nothing.

`Quiescible`, `QuiesceRun` and `QuiesceEndedRun` are the offline operation that ends, in a stopped
system, every run that would go on (`apply_universal_quiesce`). It settles the receipt, so that the
start-up reconciliation leaves the run alone (`ReconcileSettled`). The backup and the signatures of the
two approvers are not modelled; `QuiesceOffline` takes them as given.

`Finish` is `finish_skill_plan_and_run`. It takes the *caller's copy* and keeps a stored node that is
terminal or of a later attempt, as the code does; `CancelFlow`, `Reconcile…` read in their own
transaction.

### SkillPlanExecution
Actors are the background `Executor` and the `Resumers` (one per resolve-tool-approval request); a
resume that wins goes on as the plan's executor, so both share the scheduling actions. `pc` says
where an actor is *between* transactions, `row` is its copy of plan and run, `batch`/`out`/`att`/
`pauses` the locals of the scheduling loop, `item`/`call`/`approve`/`won`/`ask` those of a request.

| Code | Actions |
|---|---|
| pump, `start_approved_skill_plan` | `StartDispatch` |
| `BoundedDAGExecutor.run` | `BeginExecution`, `ContinueExecution`, `LoopStops`, `SkipNode`, `ChooseBatch`, `MarkReady`, `LoopEnds`, `JoinBatch`, `SettleNode`, `RescheduleExtra`, `SettleEnds` |
| `_execute_one_reserved`, node runner | `ClaimBatchNode`, `QuiesceStopsBatch`, `NodeOutcome` |
| `_persist_skill_plan_pause` | `PersistPause` |
| `StandardPlanFinalizer.finalize` | `BeginSynthesis`, `SealSynthesis`, `FinishPlan`, `SynthesisFails` |
| deadline, cancellation and failure handlers | `RunTimeout`, `ReadCancelled`, `CancelExecution`, `ReadFailure`, `FailRun`, `ReadNodeFailure`, `FailNode`, `ModelMissing` |
| `_resume_skill_plan_node` and helpers | `ResumeBegin`, `ResumeClaim`, `ClaimRevoked`, `FailRevokedNode`, `ResumedOutcome`, `CompleteResumedNode`, `Converge` |
| tool invocation | `RunResumed`, `ToolAnswers` |
| `routes/inbox.py` | `RouteRead`, `RouteSavesPaused`, `RouteDone`, `RouteError` |
| user, clock, process | `Cancel`, `Expire`, `Quiesce`, `Crash`, `Startup` |
| `scripts/quiesce_skill_orchestration.py` | `QuiesceOffline` |

Where steps are merged: the run and the plan are read by two queries but in one step of the model
(each is immutable once terminal, and what is written from the copy is compared again); the node
outcomes of a batch are chosen in one step each, whatever their agents did before; finalization that
finds nothing usable reads and finishes in one step, since there is no await in between. A user's
cancellation also cancels the asyncio task; the model lets the task run on, which only adds
behaviours: its transactions lose their compare-and-set. The task's own `CancelledError` handler is
entered by `RunTimeout`, at the awaits where the executor spends its time. `RouteError` chooses among
the route's exception handlers by the class of what was raised, which the model does not track.
`ChooseBatch` reads a plan that no longer changes under it except by an ending, because one actor
drives the run (`OneDriver`).

### PlanPromise
What the user may rely on (ADR 0004): the run works, may stop to ask, ends once, loses no delivered
result, adds none after the end; *completed* means all of the work, *partial* some of it.
`SkillPlanExecution` implements it under `status <- run`, `delivered <- Completed`.

### RunDispatch
The runs of several users in several chat threads, seen from the tables `agent_runs`,
`run_dispatch_receipts`, `run_projection_receipts` and from the process that works on them. One
action is one transaction. Request handlers, background tasks with their done-callback and the pump
share one event loop and do not await between their transactions; `loop` says which of them is in the
middle of what, so that only a crash or a request thread comes between. An approval's resume and a
rejection run on threads (`thread`), which interleave with everything.

| Code | Actions |
|---|---|
| `_new_run`, `claim_new_agent_run`, `_require_agent_run_thread_available` | `StartRun`, `Launch` |
| `submit_agent_run_inputs`, `approve_agent_run_plan`, `start_approved_skill_plan` | `AnswerInput`, `AnswerThenApprove`, `ApprovePlan`, `StartRefused`, `Launch` |
| the same approval in preview mode | `ApprovePreview`, `PreviewProjects` |
| `cancel`, the deadline of a wait | `Cancel`, `Expire` |
| background task | `TaskPlans`, `TaskPauses`, `TaskFails`, `TaskCompletes`, `TaskProjects`, `TaskCancelled` |
| `_finish_background_task` | `FinishProjects`, `FinishSettles` |
| `recover_pending_dispatches` | `PumpProjects`, `PumpSkipsWaiting`, `PumpClaims`, `PumpSettles`, `PumpLaunches` |
| `claim_agent_run_for_resume` and what follows | `ResumeClaims`, `ResumeRegisters`, `ResumeEnds`, `ResumeCancelled`, `ThreadProjects` |
| `reject_agent_run_plan` | `RejectPlan`, `ThreadProjects` |
| process, start-up | `Crash`, `ReconcileDispatches`, `ReconcileOrphans`, `Serve` |

A receipt of kind `first` is `standard_direct` or `standard_plan`, `approved` is `approved_plan`;
`orphaned` is a started receipt of an earlier process epoch. `executions` and `outside` are history:
how often the work of a receipt was launched, and which runs were ended or taken on by somebody other
than their dispatch (a cancelled wait, an expired wait, a rejected plan, a confirmed preview, an approval's
thread). The Agent Runtime, the user, the model and the mode of a run are taken to stay configured, but
for a start that is refused and may be refused for any reason.

### DeliveryPromise
What dispatch promises to whoever asked for a run, with no receipts, tasks, pump, threads and
restarts: a run ends once, as what it was doing allows (only driven work fails, only a wait is
rejected); a work begins once and only while the run is driven; a run completes by work that was begun,
or, planned first and waiting, as a preview of which nothing was executed (`Previewed`); the ending that is told is the true one, told once. All runs may move in one
step, because a new run ends the one whose wait has expired and a start ends many. `RunDispatch`
implements it (`KeepsDelivery`) under `stage <- Stages` (the status), `begun <- executions`,
`Execution <- "approved"`,
`told <- projection`, `said <- messages`. `ProjectionTrue` is contained in it and has a theorem of
its own; the run checks the refinement.

### PlanApproval
One Standard plan from its skeleton to the decision about it. The submission of inputs and the
approval are handlers of the event loop, each split where a thread can come in between: submit reads
(`SubmitRead`), commits (`SubmitCommit`), reads the plan again (`Reread`) and approves; approve reads
plan and request (`ReadPlan`), compares (`CheckRequest`), commits (`CommitApproval`), starts
(`StartPlan`). Editors are threads: `EditReads`, `EditCompiles`, `EditCommits`. `Upload`, `Delete`,
`Reject`, `Cancel`, `ExpirePlan`, `ExpireRequest` and `Crash` come at any time. A plan's `content` is
the edit that wrote it, a request's `for` the content it was compiled for, `given` the files its
fields name; whether a plan needs input and what is missing is chosen nondeterministically.
`sent` keeps what a submission said, because a client that sends it again says the same.

### ApprovalPromise
What planning promises its user, with no versions, requests, threads or transactions: one proposal,
revised only while the user has the decision; one decision, about the plan as it stands; and nothing
that runs or has ended is revised, asked about or decided again. `PlanApproval` implements it
(`KeepsApproval`) under `stage <- Stage` (the status of the run), `consent <- plan.status =
"approved"` and `content <- plan.content`.

### DeepSearch
One DeepSearch run. `Tasks` are the coroutines that work for it at one time: more than one, because a
recovery may start while the task of a decided approval still executes the plan
(`agentmesh/deepsearch/recovery.py`, `service.py:6131`). A task at a position of `Held` has not
reached an await, so no other task moves before it; requests on threads and expiry do.

| Code | Actions |
|---|---|
| clarification and planning (`deepsearch/service.py`) | `Clarify`, `Refined`, `RefineFails`, `Skeleton`, `PlannerFails`, `PlanReady` |
| edit, reject, approve, cancel, expiry | `Edit`, `Reject`, `Approve`, `Cancel`, `Expire` |
| `recover_deepsearch_run` | `Recover` |
| claim and the DAG engine | `Claim`, `EngineFails`, `Choose`, `BatchEnds` |
| approval of a node's tool | `ResumeNode`, `ResumeRefused`, `Streamed`, `StreamFails` |
| `deepsearch/finalization.py`, one rung after another | `Finalize`, `ModelAnswers`, `ModelFails`, `ManifestLost` |
| report and publication (`deepsearch/reporting.py`, `store.py`) | `ReportBuilt`, `Publish`, `PublishFails` |

`plan.stage` is the last checkpoint of the ladder: nodes, manifest, synthesis, coverage, review, a
second round of the last three if the review asks for it, terminal. A reservation charges one unit, its
maximum, to one of two scopes before the operation and is replaced by what was used when it is settled;
a unit stands for the six resources of `DeepSearchBudget`, which are reserved and settled together. A
driver that finds an attempt open after a crash settles it at its maximum. Contents of requirement,
graph, evidence and report are abstracted to what decides the next step.

### TaskDelivery and MemoryGovernance
Managed tasks, the runs that work on them, the review of what they deliver; and, extending it, the
memories captured from accepted deliveries, their review, revisions and lifecycle and the citation of
memories by runs. A command is served in two steps, the service's `Read` (which refuses what it can
and computes the record it wants) and the transaction's `Commit` (which checks again what may have
changed): a slow request sits between the two while others commit. What the services let through is a
set of commands per operation (`Captures`, `Revisions`, `Judgements`, …), and one operator per
transaction says whether it accepts the command now and what it writes. `Prompt` is a command nothing
came between; a request that is refused or given up is dropped by `Dismiss`. Of the
two graphs of tasks only the dependencies are modelled, the parents are checked as a graph of their own; the inbox item of a review is open exactly
while the review is pending and is part of it. Command receipts, permissions and the contents of
deliveries are left out, a memory batch has one item, and a run that works or waits is `active`.

### DocumentIngestion
One document, the job that parses it, the memory items of its versions (`items`; part 0 is the summary)
and the vector of its record. The worker thread, a manual import and the editors each have a record
`th[a]`: where they are, the document they read (`version`, `text`, `copy`), the snapshot of items they
work through (`todo`), the item in hand (`pick`) and what they have to embed (`work`). Every check of the
version, every guarded save and every save of one item is a step. A save of the document prepares the
index in its transaction; `Embed` is the provider's answer after it.

| Code | Actions |
|---|---|
| `upload_document`, `DocumentIngestionService.submit`, `shutdown` | `Upload`, `Shutdown` |
| `run_job`, `_load_or_parse_document`, `_save_summary` | `StartJob`, `LoadDocument`, `ParseDocument`, `BindJob`, `ReadForSummary`, `SaveSummary`, `ReadToFinish`, `Finish`, `Finalize`, `JobBreaks` |
| `fail_job` | `FailJob`, `HideItem`, `JobFailed` |
| `import_document_chunks`, `_activate_version_items` | `ImportRequest`, `ReadToImport`, `SaveProgress`, `CheckForChunk`, `SaveChunk`, `ReadForProgress`, `Activate`, `CheckForItem`, `ActivateItem`, `Activated` |
| `update_document`, `confirm_brief`, `invalidate_prior_version_chunks` | `Update`, `ConfirmBrief`, `Outdate`, `HideItem`, `Answered` |
| `VectorIndex.prepare`, `process` | `Prepare` (in every save), `Embed` |
| `parse_document_job`, the process | `Rerun`, `Restart` |

Embedding is taken to be enabled. `Rerun` is the entry point for workers outside the service, which only
tests call; it is taken for a job that knows its document, or none exists yet, because it would make a
second document otherwise. A version check that a guarded save repeats is one step with it. The chunk
counters of the job and vectors of items are left out; the latter go by the same `prepare` and `process`.
`written`, `manual` and `lost` are history.

### Variants
Operators whose comment begins with "Variant:" (`ReleaseRunDropsCounter`, `AnyRuns`, `ServeAtOnce`, …)
are a definition that follows them with a slip; no specification uses them. Each is a bug the code
could have had, and the property listed with it in `PROJECT.json` is violated when it replaces the
definition.

## 4. The runs

| Run | Bounds | Question | Answer |
|---|---|---|---|
| `capacity` | 2 users, 4 task attempts (2 of one turn), 3 resumes (2 of one run), limits 3 and 2 | are the books exact and without leaks; does every offered dispatch get its turn | yes |
| `plan_dag` | 4 nodes, join, batches of 2, all environment events | agreement of run and plan, order, termination | yes |
| `plan_resume` | a universal plan of 3 nodes, two may ask at once, 2 calls each, 1 request, all environment events | answerability, results, outcome, a scheduler that is never stuck, termination through pauses | yes, while a model stays configured |
| `plan_race` | 2 nodes, 2 requests, 2 calls | the pause, approvals, one driver, endings and the promise (refinement of `PlanPromise`) under races | yes |
| `loser_kills_winner` | as `plan_race` | does a request that lost leave the winner alone | **no** |
| `stale_inbox` | 1 request | does a cancelled run have no open approval | **no** |
| `unknown_write` | 1 request | does a write with unknown outcome end as failed/external_outcome_unknown | **no** |
| `dispatch` | a planned run and one that asks for input, 2 chat threads, capacity 1, 1 crash | is work launched once, a run driven by one at a time, a thread held by one run, an ending told once and in the end; is that the life `DeliveryPromise` describes | yes |
| `plan_approval` | 2 editors, 1 submission sent any number of times, 1 file, 2 committed edits | do edits, inputs, approval, expiry and cancellation leave one story, lose no edit, count a submission once, approve what was validated; is that the life `ApprovalPromise` describes | yes |
| `deepsearch` | 2 coroutines, 2 nodes, 1 clarification, 2 attempts per rung, limits 4 and 3, 1 crash | is the budget kept, a report earned, sealed evidence frozen, also with two engines on one run | yes |
| `task_memory` | 2 tasks, 2 runs, 3 memories, 1 slow request beside prompt ones, 6 commands in four mixes | deliveries reviewed, decisions open, no dependency cycle, one revision in force, citations true | yes |
| `documents` | texts of 2 chunks and of 1, 3 versions, 1 editor, 1 manual import, three mixes | is the stored text always the version's own, does search see whole finished jobs only, does an accepted job end | yes, but for manual imports and crashes (below) |

Bounds and why they are enough.

- Plan execution. Two attempts per node is the code's own constant. A batch of 2 with three runnable
  nodes over-fills it just as 3 with four does. Four nodes give a join, a failed dependency beside a
  running sibling and a second batch. `plan_resume` owes a report, synthesis outputs and recent
  evidence from two hosts, which its three nodes may give or not, one item each, so that every combination of covered and
  missing occurs, also with a node that waits for an approval; what finalization takes as evidence an early
  ending does not. Two requests race for one
  pause; safety is proved for any number of them, and that a run ends fails with three (below). Two calls per node give an approval that leaves one call pending and
  an approval after an approval; call ids are never reused, as in the SDK. The process may crash once
  (`life`): start-up reconciliation ends or parks the run, so a second crash finds it at rest. The
  switches `May…` say which environment events an instance has; every one is on in some run.
- Dispatch. Two runs are what it takes for one to be in the way of the other, in the thread and in the
  capacity; one is planned first and one asks for input, which between them take every hand-off. One
  crash reaches every transaction; what a second one adds is proved, not checked.
- Approval. Two editors hold the same version, a third loses the same compare-and-set. The first edit
  changes what a submission rests on and the second what the first editor read. `MaxVersion` bounds
  the deletions of the file.
- DeepSearch. Two coroutines are the second engine; limits of 4 and 3 are below what two nodes
  with a retry, snapshots and the eight rungs would use, so the budget runs out in every phase; two
  attempts allow a retry and its exhaustion (the code's constant is 3). The symmetry is sound: no
  definition names a coroutine or a node.
- Tasks and memories. A review takes create, plan, start, submit, decide; the mixes give one kind of
  command at a time all six steps and both kinds two. One slow request is enough since every commit
  changes a version that all other commands on that record compare. `t1` starts delivered and its
  knowledge accepted, so that revisions and citations happen within the budget.
- Documents. A text of two chunks has a first, a last and a half-done import; one of one chunk makes an
  edit change the number. `Mixes` are two edits, or one edit with an import and either a second run of
  the job or an end of the process. Three versions let a job be overtaken twice. One editor is what
  `JobsEnd` needs, since a second PATCH of the same version loses the compare-and-set; the two safety
  properties are proved for any number of editors, imports and reruns.

Fairness. `FairSpec` (plan execution): the pump polls every half second (`StartStep`), the event loop
schedules each actor, every node, synthesis and tool call has a timeout so its outcome arrives
(`ExecutionStep`, `ResumeStep`), and a stopped process is started again (`Startup`). `RunDispatch`:
the loop and the request threads keep running and model calls end or time out (weak fairness of
`LoopStep` and `ThreadMove` of each run), the pump wakes every half second and goes through all
receipts (`PumpStep` of each receipt), a lost process is started again (`Startup`). Nobody has to
send a request, approve, cancel or expire anything. `DocumentIngestion`: a thread of the pool, or the
one that fails a refused or cancelled job, is not starved (`JobStep`); nothing is assumed of requests.
The other modules state no liveness.

Deadlock is checked for `RuntimeCapacity`, plan execution and `RunDispatch`, whose only states without
a further step are named (`Rest`, `AllDone`, `AllEnded`). It is not for `plan_approval`, `deepsearch`,
`task_memory` and `documents`: an ended plan, a published report, a used-up budget of commands and a
document nobody works on are ends.

### Where the code and its documents disagree
- **A loser ends the winner's run** (`service.py:6140`): a resume whose set-up fails before its claim
  calls `_fail_active_skill_plan`, which accepts a RUNNING run, also one another resume is executing.
- **A cancelled run with an open approval** (`routes/inbox.py:349`): after a resumed run pauses again
  the route saves the item it read before the resume and undoes a resolution in between. With two
  requests the same save can remove the pending calls from the item, so that nobody can answer.
- **Unknown writes** (`tool_runtime/factory.py:570`, `service.py:6140`): a timed-out write is an error
  result to the agent, and the node may complete, or fail under another error code.
- Not a separate run: when the model is unconfigured *while a resume continues the plan*
  (`service.py:3821`) the plan is not ended, since only an APPROVED plan is; the run stays RUNNING
  until the next start. `plan_resume` therefore sets `MayLoseModel` to FALSE; with TRUE `RunsEnd` fails.
- Nor this one, which takes three requests: the stale save of the inbox route (`routes/inbox.py:349`)
  can list a call again that has been decided. A late request for that call, which read the earlier
  pause, then claims the pause of *another* node, since `claim_agent_run_for_resume` (`store.py:12969`)
  compares the run's status, the open item and the listed call but not the node. Its completion conflicts,
  `_converge_claimed_node_transition_conflict` (`service.py:5830`) finds its own node not RUNNING and
  returns, and the run stays RUNNING with nobody driving it until the next start. TLC finds it within 42
  steps when both nodes of `MCSkillPlanRace.cfg` may ask, three requests answer and every switch is off.
  With two requests `RunsEnd` holds there, and under the constants of `plan_race` with `FairSpec`; the
  safety properties hold for any number (section 5).

## 5. The proofs

TLAPS checks eight modules, for all values of the constants that satisfy the named assumptions: any
number of users, runs, threads, tasks, nodes, requests and editors, any limits and any number of
crashes. Only what `MaxEdits`, `MaxMemories`, `MaxVersion` and `Budgets` name stays a parameter of the model.

**`RuntimeCapacityProofs`** (assumptions `LimitsPositive`, `KeysFinite`, `NoUserIsNoUser`, `OpKeys`).
The conjunction `IInv` of `TypeOK`, `UserCountExact`, `ReservationsBounded` and `NoLeak` is inductive
and gives the four theorems; no conjunct is inductive alone. `ClaimRun` and `ReleaseRun` have a lemma
each: a new key raises the user's counter and the set of the user's keys together, a release lowers
both, and the lower bound of the code is never used, because a user with a key has a counter of at
least one. `ReservationsBounded` needs `UserCountExact`, since `HasRoom` tests the counter and not
the keys. For `NoLeak` each step either leaves every creator active or releases the key of the
attempt that ends.

**`SkillPlanExecutionProofs`** (assumption `PlanShape`; Executor and Resumers, the DAG, the batch
limit and the switches are arbitrary).
- `TypeCorrect`: `TypeOK` is not inductive. A result is stored under the attempt of a running node,
  and `RescheduleExtra` takes an attempt back, so a node that runs, waits or is completed must be
  known to have attempt 1 at least (`Counted`). And because `Finish` writes statuses *and* attempts
  from a caller's copy, the copies must have it too. `Typed` adds this to the store and to every
  `row[a]`. One lemma per store transaction (`…Typed`) says that the store stays typed; the action
  lemmas (`SchedulingTyped`, `BatchTyped`, …) add the locals of the actor.
- `PlanAndRunAgree` (`PlanRunAgree`) is inductive given the types. Each transaction has a lemma
  (`…Keeps`) saying that it keeps the agreement *and* leaves every ending alone (`EndingsFinal`): node
  transactions need an active run, `Finish` keeps stored terminal nodes whatever the copy says. Its
  callers test that the run is open, except `FailNode`, which looks only at the plan: there the
  agreement itself shows that the run has not ended.
- `EndingsAreFinal` (`TerminalAbsorbing`) is the other half of the same lemmas: no late writer, with
  however stale a copy, changes an ending.

**`SkillPlanSafetyProofs`** (assumptions `PlanShape`, `DepsAcyclic`, `Obligations`, `ActorsDistinct`)
has the safety of one plan's execution for every DAG, any number of requests and any interleaving. The
steps are first summed up by what they do to the store (`StoreSteps`: nothing, the plan or a node is
claimed, a node moves, completes or pauses with its run, a paused run is claimed, the run ends) and
by how one actor's step leaves the others (`OneMoves`), so that a layer meets eight cases and not fifty actions.
- `StoreSafe`: what the rows say of each other. A run waits exactly when one node does and the stored
  SDK state is that node's (`PauseIsOneFact`); a node is completed exactly when its current attempt has
  a result, and only one has (`CompletedNodesAreBacked`). Both need that a caller's copy is never
  *ahead* of the store, since `Finish` writes a whole copy back.
- `Ordered`: what has begun has its dependencies completed in the store *and* in every copy
  (`DependenciesFirst`).
- `Lone`: whoever is at a position where the code drives the run is the only one. It is kept because the
  claim of a waiting run and its release are the same transactions that change the status
  (`OneActorDrives`). `Decided` adds what a request that won has approved (`OnlyApprovedCalls`).
- `Held`: what the driver may believe of its batch, its outcomes and the nodes it marks, possible only
  because it is alone. With it and a minimal element of an acyclic order (shown for finite sets from the
  library's well-founded sets) the loop always finds a node to skip, to mark or to run
  (`SchedulerAlwaysFinds`).
- `FinalSafe`: what finalization has seen when it decides, and that what it has seen still holds when the
  decision is committed (`Finalizing`); that an executor on its way out of an open run was the last to drive
  it (`Closing`), so that nobody adds a result while it judges; that nobody is
  at the end of a run that ended well (`Sealing`); and `EndEarned`, what an ending says of the results. With it
  `OutcomesAreEarned`: `EndEarned` always holds, and a step that fails a universal run with a delivery
  is an actor giving a paused node up (`FailureEarned`).
- `PromiseIsKept` is the refinement of `PlanPromise`, step by step from the same summary: each store
  step is a step of the promise or leaves status and completed nodes alone.
- `InboxSafe` gives that a waiting run has an open item for any number of requests (`WaitingIsOpen`).
  That the item lists every pending call (`WaitingAnswerable`) is proved for one request
  (`OneRequestAnswerable`), and is false of two: the later may write back the list it read.

**`RunDispatchProofs`** (assumptions `RunsSorted`, `LimitPositive`). The invariant is a conjunction
`Local(r)` of eight parts for every run, and a lemma (`OneRun`) says that a step that touches one run
need be looked at for that run only. None of the properties is inductive. `ExecutedOnce` rests on
`Offers`: a receipt that was executed is on offer again only between a restart and the end of the
pump's first pass, when its run has ended or waits, so that the pump lets it go without work; and on
`Between`: what the loop is about to launch has not been executed. `DriverAlone` needs `Drivers` (a
thread works only on a run outside its dispatch, without a working task) and that a run with an offer
has nobody working on it. `EndingRecoverable` needs `Covered`: a run that is driven under a dispatch has
an open receipt until its ending is projected, which is why `FinishSettles` may only follow a
projection. `OneActiveRun` is kept by the check of `StartRun` in the transaction that inserts the run.

`DeliveryIsKept` is the refinement of `DeliveryPromise`. Each transaction either leaves what is promised
alone (`QuietSteps`) or takes runs on, ends them or tells their ending (`StepsOn`, `StepsEnd`,
`StepsTell`), launches (`LaunchBegins`), begins a run (`StartMoves`) or cleans up after a lost process
(`OrphansEnd`). A confirmed preview ends a run of which nothing was executed because a plan that still
waits for its approval has no offer of its execution (`Early`). Two facts are added to the invariant: `Begun`, that whoever works on a run and whoever
paused in its work was launched by a receipt, since otherwise a run could complete without work; and
`Finishing`, that the task that has stored its output is still there to project it.

**`PlanApprovalProofs`** (assumptions `BoundsNatural`, `CommandsNamed`). The key of the invariant: an
edit read from the present plan version keeps the run out of `waiting_input`, since only an edit leads
back there and an edit changes the version. Hence what an approval validated and what it commits are
one content (`ApprovedAsValidated`), the request a waiting edit replaces is the one it read
(`NoLostUpdate`), and nothing reaches the request of a plan that runs (`InputsFrozen`). A submission
is applied once because its command is recorded in the request or the version it was sent for is gone.

`ApprovalIsKept` is the refinement of `ApprovalPromise`, one lemma for each of its actions: the
transactions of planning, submission, edit, decision and ending are `Propose`, `Supply`, `Revise`,
`Consent` and `GiveUp`, and everything else leaves status and content alone (`SameView`). Beside the
invariant above it needs `Starting`: between the commit of an approval and the start of the plan, two
transactions of one handler without an await, nobody else ends the run.

**`DeepSearchProofs`** (assumptions `Bounds`, `Absent`, `FewNodes`). `StoreInv` relates the stage of
the ladder to nodes, budget and report; `Placed` says what each coroutine may rely on at its position,
which is little, since another engine may work on the same run: every write compares the stage, and a
reservation names the stage and the attempt, so that a late engine finds its reservation settled and
gives up. The budget needs the cardinality of the open set to follow every exchange of reservations
by settlements; several at once are settled by one lemma on disjoint finite sets.

**`TaskMemoryProofs`** (assumptions `Counts`, `Absent`, `Accepted`, `MemoryBound`). A pending command
is either stale, so that its version check refuses it, or writes only what it may (`Valid`,
`Prepared`); that is the whole of what a slow request can do. Beside it the invariant has the
reviews (`OnePending`, `ReviewsOpen`), the memories with their lineage (`ItemOK`, `Sourced`,
`SiblingsApart`, `Retired`), the numbering of review rounds (`Numbered`, `DoneAt`) and the citations
(`Labelled`, `Dated`). Acyclicity is stated as "in every set of tasks one depends on none of the
others" and kept because the transaction validates the graph it writes.

**`DocumentIngestionProofs`** (assumptions `Chunked`, `Threads`, `Bounds`). `TextTrue` is not
inductive, because every save writes a copy a thread has kept since an earlier read. `Knows` says what
each thread has at its position: the text of the version it works for, an item it is about to save
that holds the text of *its* version, a text to embed that some version was given. It survives the
steps of others (`KnowsStays`) because a version's text never changes and versions only grow; with it
a guarded save writes the text that stands already, and an unguarded save of an item writes under the
version it was made of. For the vector the hash is the link: `entry.hash` is the document's text
whenever there is an entry, so that an answer adopted for that hash is of the present text.

`Searchable` (`SearchSeesWholeJobs`) speaks of rest, so its invariant `Search` says what every thread
owes while it is at work. `Placement`: where each thread can be, and that only the first version is ever
made by a job, because the job that parses makes version 1 and every later version is an editor's.
`IndexServed`: a record without its vector has a thread that still holds the work for exactly its hash.
`ActiveOwned`: an active item that no import by hand has touched belongs to the job's version, and the
job is still at work, is hiding it, or has completed with its version standing or with an editor that
will hide the item. `JobTrue`: what the job has staged, activated and counted, position by position; it
holds beside an import of the same version because whatever that stages again or counts down it will
activate and count to the end, nobody being able to stop it while the first version stands
(`FirstStands`). The last three hold until a process is lost with work in flight.

What stays with TLC: liveness (`RunsEnd`, `TasksGetTheirTurn`, `PendingServed`, `EndingDelivered`,
`JobsEnd`), which needs fairness and ENABLED. Of the safety properties only `WaitingAnswerable` is not
proved in full, being true of one request only; the invariants of the three runs that show a
violation are of course not theorems.

## 6. Observed and not modelled

What the models show beside the findings, and what a reader may expect to be otherwise:

- A planned run that is cancelled or expires while it waits has settled its receipt already, so its
  ending gets no projection (`service.py:5434`);
  `docs/runbooks/universal-skill-orchestration.md:211` treats such a run as an anomaly.
  `EndingRecoverable` is about the runs outside `outside`.
- `_finish_background_task` that reads RUNNING because an approval was resumed already leaves the
  receipt started until the next start; so does a projection that fails inside the callback.
- A resume thread and the pump are kept apart only by the first pump pass ending before requests are
  served (`ServeAtOnce` is the variant).
- An expired wait of another thread blocks its task: the check by task comes before the one by thread
  that would cancel it.
- A submission that completed its request and lost the process before the automatic approval is
  answered as a repeat, without approving. An edit committed between submission and automatic approval
  is approved too (`Reread`).
- A run that waits for input keeps the deadline of its creation (`store.py:11815`), although
  `docs/plans/2026-09-09-skill-input-preflight-development-plan.md:244` says that waiting does not
  consume it.
- The same results are judged by two rules: finalization counts the hosts of the evidence sources and
  asks whether they are recent (`finalization.py:171`), every earlier ending counts the sources and takes
  none as recent (`universal_plan.py:473`). With two sources of one host a plan fails if it gets to its
  end and is partial if the process is lost just before. `OutcomeEarned` therefore asks of a failed run
  only that one of the rules found nothing.
- A run whose paused node is given up is failed whatever was delivered: `_fail_waiting_skill_plan`
  (`service.py:5733`), reached from every failed resume, does not look at the results, unlike every other
  ending of a universal run and unlike
  `docs/superpowers/plans/2026-08-18-skill-matrix-orchestration-development-plan.md:622` ("partial" while a
  usable required result exists). `FailureEarned` leaves such an actor out.
- The message of a rejected plan or of a confirmed preview is put in the thread in a second step
  (`routes/agent_runs.py:1480`). A crash between the two loses it: there is no open receipt.
- The offline quiesce ends a run that waits without closing its input request or its inbox item, unlike
  every other ending of a wait (`store.py:13547`).
- A repeat of a resume with the same key runs without a reservation once the attempt that created it has
  ended (`service.py:6281`), so more runs can be under way than the limit, although
  `docs/adr/0009-universal-runtime-skill-retrieval.md:17` says that user concurrency remains bounded.
- Old items of a document can stay visible: `confirm_brief` gives the document a new version and
  hides nothing (`store.py:15521`); a manual import that is overtaken by an edit has no handler that
  hides what it activated (`routes/documents.py:172`); a crash between a PATCH and its invalidation
  is not made good; and the invalidation of a slow PATCH hides the items of a version that came after
  its own (`ingestion.py:391` tests "not mine", not "older").
  `docs/superpowers/plans/2026-08-13-agentmesh-internal-pilot-mvp-stabilization-plan.md:449` says
  "Update makes old chunks/vector stale". `Searchable` is about what the worker's own jobs leave behind
  and so excludes `manual` and `lost`.
- A parse job queued or running when the process crashes keeps that status: no start-up looks for it. A
  vector pending then is not made later, since the backfill skips records that have a state
  (`store.py:1729`).
- A memory's revision looks at direct successors only: if B revises A and D revises B, D is accepted
  and B deprecated, a second revision of A may be accepted beside D.
- A report left STAGING by a run that ended while it was built stays (`artifacts.py:782`), and a crash
  between staging and commit makes recovery build it again (`store.py:3996`).

Hazards without a property are listed in `PROJECT.json` with the reason: the repeated question of a
stale SDK state, claims of calls of ended runs, tool slots freed under a running worker thread, and the
two kinds of waits above.

Taken as given: that `fail_job` itself succeeds (`JobsEnd`), and that the model stays configured while a
resume goes on (`MayLoseModel`, above). `CitationsTrue`
speaks of memory captured from deliveries only: document chunks and legacy items change their status without
a new version.

Not modelled: DeepSearch branches in the handlers `RunDispatch` and plan execution share, direct runs
that pause, tool calls that need no approval, chat-turn receipts and SDK sessions, node, LLM and tool slots, the
drain of quiescing, and the components marked so in `PROJECT.json`. Text, ranking, parsing and I/O are
outside the method.
