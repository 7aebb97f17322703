---------------------------- MODULE PlanApproval ----------------------------
(***************************************************************************)
(* A Standard plan from its skeleton to the decision about it, with the    *)
(* request for user input that may stand before the decision: the          *)
(* transactions on skill_plans, skill_input_requests and agent_runs        *)
(* (agentmesh/store.py) and the handlers that read, decide and then commit *)
(* (agentmesh/routes/agent_runs.py).                                       *)
(*                                                                         *)
(* Submitting and approving run on the event loop, one at a time ("loop"); *)
(* editing, rejecting and deleting are requests on threads of their own    *)
(* and come between any two transactions of the loop.                      *)
(***************************************************************************)
EXTENDS Integers, FiniteSets

CONSTANTS
    Editors,        \* threads that edit the plan
    Commands,       \* client_turn_ids of submissions
    Materials,      \* files the user may upload
    NoCommand,
    MaxEdits,       \* bound on the edits that are committed
    MaxVersion      \* bound: from this version on no more material is deleted

ASSUME BoundsNatural == MaxEdits \in Nat /\ MaxVersion \in Nat
ASSUME CommandsNamed == NoCommand \notin Commands

Ended == {"failed", "rejected", "cancelled"}

VARIABLES
    run,            \* agent_runs.status
    deadline,       \* agent_runs.deadline_at: "ahead", "passed" or "none"
    plan,           \* status, version; content: which edit wrote it;
                    \*   needs: some node has an input contract
    request,        \* status, version, next_run_status, last_command_id, the
                    \*   materials its fields name and the content it is compiled for
    overdue,        \* the request has passed expires_at
    artifacts,      \* uploaded materials
    sent,           \* what each submission said: a repeat says the same
    loop,           \* the handler on the event loop and what it has read
    editor,         \* what each editing thread has read
    applied,        \* history: how often each submission took effect
    mismatch        \* history: a commit met an input request it did not read

stored == <<run, deadline, plan, request, overdue, artifacts>>
vars == <<stored, sent, loop, editor, applied, mismatch>>

Idle == [at |-> "idle"]
Unsent == [at |-> "unsent"]
NoRequest == [status |-> "none", version |-> 0, next |-> "running", command |-> NoCommand,
              given |-> {}, for |-> 0]

PlanStatus == {"none", "planning", "waiting", "approved", "failed", "rejected", "cancelled"}

Plan == [status : PlanStatus, version : Nat, content : 0 .. MaxEdits, needs : BOOLEAN]
Request ==
    [status : {"none", "open", "complete", "expired", "cancelled"}, version : Nat,
     next : {"running", "waiting_plan"}, command : Commands \cup {NoCommand},
     given : SUBSET Materials, for : 0 .. MaxEdits]
Submission == [at : {"sent"}, version : Nat, plan : Nat, given : SUBSET Materials, advance : BOOLEAN]
Handling ==
    [at : {"submit"}, command : Commands] \cup [at : {"reread", "start"}]
    \cup [at : {"approve"}, version : Nat]
    \cup [at : {"checking", "committing"}, version : Nat, content : 0 .. MaxEdits]
Edits ==
    [at : {"plan"}, version : Nat, content : 0 .. MaxEdits]
    \cup [at : {"request"}, version : Nat, content : 0 .. MaxEdits, needs : BOOLEAN,
          status : {"open", "complete"}, given : SUBSET Materials, replaces : Nat]

TypeOK ==
    /\ run \in {"planning", "waiting_input", "waiting_plan", "running", "completed"} \cup Ended
    /\ deadline \in {"ahead", "passed", "none"}
    /\ plan \in Plan /\ request \in Request
    /\ overdue \in BOOLEAN /\ mismatch \in BOOLEAN
    /\ artifacts \subseteq Materials
    /\ sent \in [Commands -> {Unsent} \cup Submission]
    /\ loop \in {Idle} \cup Handling
    /\ editor \in [Editors -> {Idle} \cup Edits]
    /\ applied \in [Commands -> Nat]

Init ==
    /\ run = "planning" /\ deadline = "ahead"
    /\ plan = [status |-> "none", version |-> 0, content |-> 0, needs |-> FALSE]
    /\ request = NoRequest /\ overdue = FALSE
    /\ artifacts = {}
    /\ sent = [c \in Commands |-> Unsent]
    /\ loop = Idle
    /\ editor = [e \in Editors |-> Idle]
    /\ applied = [c \in Commands |-> 0]
    /\ mismatch = FALSE

Free == loop = Idle
Handlers == <<sent, loop, editor, applied, mismatch>>

-----------------------------------------------------------------------------
(* Planning, in the background task of the run.                            *)

\* create_standard_planning_skeleton: only Universal plans have a skeleton.
CreateSkeleton ==
    /\ Free /\ run = "planning" /\ plan.status = "none"
    /\ plan' = [plan EXCEPT !.status = "planning", !.version = 1]
    /\ UNCHANGED <<run, deadline, request, overdue, artifacts, Handlers>>

\* What compile_for_plan makes of a plan: nothing, an open or a complete request.
Compiled(s, next) == [NoRequest EXCEPT !.status = s, !.version = 1, !.next = next]

\* save_standard_plan_and_run and complete_standard_planning_skeleton.  A plan that
\* needs no approval never had a skeleton.
PlanReady ==
    /\ Free /\ run = "planning" /\ plan.status \in {"none", "planning"}
    /\ \E needs, waits \in BOOLEAN, s \in {"open", "complete"} :
          LET next == IF waits THEN "waiting_plan" ELSE "running" IN
          /\ plan.status = "planning" => waits
          /\ plan' = [plan EXCEPT !.status = IF waits THEN "waiting" ELSE "approved",
                                  !.version = @ + 1, !.needs = needs]
          /\ request' = IF needs THEN Compiled(s, next) ELSE NoRequest
          /\ run' = IF needs /\ s = "open" THEN "waiting_input" ELSE next
    /\ UNCHANGED <<deadline, overdue, artifacts, Handlers>>

\* fail_standard_planning_skeleton and the failure of a run without a skeleton.
PlanningFails ==
    /\ Free /\ run = "planning"
    /\ run' = "failed"
    /\ plan' = IF plan.status = "planning" THEN [plan EXCEPT !.status = "failed"] ELSE plan
    /\ UNCHANGED <<deadline, request, overdue, artifacts, Handlers>>

-----------------------------------------------------------------------------
(* The end of the run, of its plan and of an open request in one step.     *)

\* _cancel_agent_run_tree_in_transaction
\* Variant: the request of the run stays open.
CancelRunAndPlan ==
    /\ run' = "cancelled"
    /\ plan' = IF plan.status = "none" THEN plan ELSE [plan EXCEPT !.status = "cancelled"]
    /\ UNCHANGED request

CancelTree ==
    /\ run' = "cancelled"
    /\ plan' = IF plan.status = "none" THEN plan ELSE [plan EXCEPT !.status = "cancelled"]
    /\ request' = IF request.status = "open"
                  THEN [request EXCEPT !.status = "cancelled", !.version = @ + 1] ELSE request

Cancel ==
    /\ Free /\ run \in {"planning", "waiting_input", "waiting_plan", "running"}
    /\ CancelTree
    /\ UNCHANGED <<deadline, overdue, artifacts, Handlers>>

\* _reject_expired_plan_approval in an edit or a rejection, and the next run of the
\* chat thread.
ExpirePlan ==
    /\ run = "waiting_plan" /\ deadline = "passed"
    /\ CancelTree
    /\ UNCHANGED <<deadline, overdue, artifacts, Handlers>>

\* expire_skill_input_request_if_needed
ExpireRequest ==
    /\ run = "waiting_input" /\ request.status = "open" /\ overdue
    /\ run' = "cancelled"
    /\ plan' = IF plan.status = "none" THEN plan ELSE [plan EXCEPT !.status = "cancelled"]
    /\ request' = [request EXCEPT !.status = "expired", !.version = @ + 1]
    /\ UNCHANGED <<deadline, overdue, artifacts, Handlers>>

\* Fifteen minutes from the creation of the run, a day from that of the request.
DeadlinePasses ==
    /\ deadline = "ahead" /\ deadline' = "passed"
    /\ UNCHANGED <<run, plan, request, overdue, artifacts, Handlers>>

RequestOverdue ==
    /\ request.status = "open" /\ ~overdue /\ deadline # "ahead"
    /\ overdue' = TRUE
    /\ UNCHANGED <<run, deadline, plan, request, artifacts, Handlers>>

-----------------------------------------------------------------------------
(* Answering the input request.                                            *)

Answerable == run = "waiting_input" /\ request.status = "open"

\* upload_agent_run_input_artifact, save_run_input_artifact
Upload(m) ==
    /\ Free /\ Answerable /\ ~overdue /\ m \notin artifacts
    /\ artifacts' = artifacts \cup {m}
    /\ UNCHANGED <<run, deadline, plan, request, overdue, Handlers>>

\* Variant: the material goes, whatever the request says of it.
DeleteAnyTime(m) ==
    /\ m \in artifacts
    /\ artifacts' = artifacts \ {m}
    /\ UNCHANGED <<run, deadline, plan, request, overdue, Handlers>>

\* delete_run_input_artifact.  An open request has no frozen binding.
Delete(m) ==
    /\ Answerable /\ m \in artifacts /\ request.version < MaxVersion
    /\ artifacts' = artifacts \ {m}
    /\ request' = [request EXCEPT !.given = @ \ {m}, !.version = @ + 1]
    /\ UNCHANGED <<run, deadline, plan, overdue, Handlers>>

\* The user submits what the form shows: text, any uploaded material, and whether
\* to advance.  The same command sent again says the same.
Say(c) ==
    IF sent[c] # Unsent THEN {sent[c]}
    ELSE [at : {"sent"}, version : {request.version}, plan : {plan.version},
          given : SUBSET artifacts, advance : BOOLEAN]

\* submit_agent_run_inputs up to the commit: the plan and request versions must be
\* the current ones, a command just applied is answered as before.  To advance, the
\* materials must be there; without advancing nothing is frozen.
SubmitRead(c) ==
    /\ Free /\ run = "waiting_input" /\ ~overdue
    /\ \E s \in Say(c) :
          /\ s.version = request.version /\ s.plan = plan.version
          /\ s.advance => s.given \subseteq artifacts
          /\ sent' = [sent EXCEPT ![c] = s]
          /\ loop' = [at |-> "submit", command |-> c]
    /\ UNCHANGED <<stored, editor, applied, mismatch>>

Accepted(c) == sent[c].version = request.version /\ Answerable
Frozen(c) == sent[c].advance => sent[c].given \subseteq artifacts

\* Variant: the answered request keeps its version.
SubmittedSameVersion(c) ==
    [request EXCEPT !.status = IF sent[c].advance THEN "complete" ELSE "open",
                    !.command = c, !.given = sent[c].given]

Submitted(c) ==
    [request EXCEPT !.status = IF sent[c].advance THEN "complete" ELSE "open",
                    !.version = @ + 1, !.command = c, !.given = sent[c].given]

\* update_skill_input_request
SubmitCommit(c) ==
    /\ loop = [at |-> "submit", command |-> c]
    /\ IF Accepted(c) /\ Frozen(c)
       THEN LET done == sent[c].advance IN
            /\ request' = Submitted(c)
            /\ run' = IF done THEN request.next ELSE run
            /\ deadline' = IF done /\ request.next = "running" THEN "ahead" ELSE deadline
            /\ applied' = [applied EXCEPT ![c] = @ + 1]
            /\ loop' = IF done /\ request.next = "waiting_plan" THEN [at |-> "reread"] ELSE Idle
       ELSE /\ loop' = Idle
            /\ UNCHANGED <<run, deadline, request, applied>>
    /\ UNCHANGED <<plan, overdue, artifacts, sent, editor, mismatch>>

\* The answers stand for the approval of the plan: its version is read again.
Reread ==
    /\ loop = [at |-> "reread"]
    /\ loop' = [at |-> "approve", version |-> plan.version]
    /\ UNCHANGED <<stored, sent, editor, applied, mismatch>>

-----------------------------------------------------------------------------
(* Approving the plan: approve_agent_run_plan.                             *)

Approve ==
    /\ Free /\ plan.status = "waiting"
    /\ \E v \in 1 .. plan.version : loop' = [at |-> "approve", version |-> v]
    /\ UNCHANGED <<stored, sent, editor, applied, mismatch>>

ReadPlan ==
    /\ loop.at = "approve"
    /\ loop' = [at |-> "checking", version |-> loop.version, content |-> plan.content]
    /\ UNCHANGED <<stored, sent, editor, applied, mismatch>>

\* The request must be complete and the deadline ahead; then the plan is validated
\* against the Skills that are there now.
CheckRequest ==
    /\ loop.at = "checking"
    /\ IF request.status \notin {"none", "complete"}
       THEN loop' = Idle /\ UNCHANGED <<run, plan, request>>
       ELSE IF run = "waiting_plan" /\ deadline = "passed"
       THEN loop' = Idle /\ CancelTree
       ELSE /\ \/ loop' = [loop EXCEPT !.at = "committing"]
               \/ loop' = Idle                             \* not valid any more
            /\ UNCHANGED <<run, plan, request>>
    /\ UNCHANGED <<deadline, overdue, artifacts, sent, editor, applied, mismatch>>

\* Variant: only the version is compared.
SwappableVersion(version) == plan.version = version

\* Variant: only the statuses are compared.
SwappableStatus(version) == plan.status = "waiting" /\ run = "waiting_plan"

\* transition_skill_plan_and_run: compare and swap on version and both statuses.
Swappable(version) == plan.version = version /\ plan.status = "waiting" /\ run = "waiting_plan"

Decide(status, next) ==
    /\ plan' = [plan EXCEPT !.status = status, !.version = @ + 1]
    /\ run' = next

CommitApproval ==
    /\ loop.at = "committing"
    /\ \/ /\ Swappable(loop.version)
          /\ \/ Decide("approved", "completed") /\ loop' = Idle     \* preview
             \/ Decide("approved", "running") /\ loop' = [at |-> "start"]
          /\ UNCHANGED request
       \/ ~Swappable(loop.version) /\ loop' = Idle /\ UNCHANGED <<run, plan, request>>
       \/ run = "waiting_plan" /\ CancelTree /\ loop' = Idle        \* runtime disabled
    /\ UNCHANGED <<deadline, overdue, artifacts, sent, editor, applied, mismatch>>

\* start_approved_skill_plan; a refusal ends the run that was just approved.
StartPlan ==
    /\ loop.at = "start" /\ loop' = Idle
    /\ \/ CancelTree
       \/ UNCHANGED <<run, plan, request>>
    /\ UNCHANGED <<deadline, overdue, artifacts, sent, editor, applied, mismatch>>

-----------------------------------------------------------------------------
(* Editing and rejecting, each on its thread.                              *)

\* update_agent_run_plan: status, version and deadline are those of the plan it read.
EditReads(e) ==
    /\ editor[e] = Idle
    /\ run = "waiting_plan" /\ plan.status = "waiting" /\ deadline # "passed"
    /\ editor' = [editor EXCEPT ![e] =
                    [at |-> "plan", version |-> plan.version, content |-> plan.content]]
    /\ UNCHANGED <<stored, sent, loop, applied, mismatch>>

\* The edited plan is compiled again: fields with the same contract keep what they
\* were given, and the request is open again if something is missing.
EditCompiles(e) ==
    /\ editor[e].at = "plan"
    /\ \E needs \in BOOLEAN, given \in {{}, request.given}, s \in {"open", "complete"} :
          /\ s = "complete" => given \subseteq artifacts
          /\ editor' = [editor EXCEPT ![e] =
                [at |-> "request", version |-> editor[e].version, content |-> editor[e].content,
                 needs |-> needs, status |-> s, given |-> given,
                 replaces |-> request.version]]
    /\ UNCHANGED <<stored, sent, loop, applied, mismatch>>

\* Variant: the edited plan keeps its version.
EditedSameVersion(edit) == [plan EXCEPT !.content = @ + 1, !.needs = edit.needs]

Edited(edit) == [plan EXCEPT !.version = @ + 1, !.content = @ + 1, !.needs = edit.needs]

\* compare_and_swap_skill_plan: plan, request and run in one transaction, which is
\* rolled back when the request is not the one that was read.
EditCommits(e) ==
    /\ editor[e].at = "request"
    /\ editor' = [editor EXCEPT ![e] = Idle]
    /\ LET edit == editor[e] IN
       IF ~Swappable(edit.version) \/ plan.content = MaxEdits
       THEN UNCHANGED <<run, deadline, plan, request, overdue, mismatch>>
       ELSE IF edit.needs /\ edit.replaces # request.version
       THEN mismatch' = TRUE /\ UNCHANGED <<run, deadline, plan, request, overdue>>
       ELSE /\ plan' = Edited(edit)
            /\ request' = IF ~edit.needs THEN request
                          ELSE [status |-> edit.status, version |-> edit.replaces + 1,
                                next |-> "waiting_plan", command |-> NoCommand,
                                given |-> edit.given, for |-> plan.content + 1]
            /\ run' = IF edit.needs /\ edit.status = "open" THEN "waiting_input" ELSE run
            /\ deadline' = IF edit.needs /\ edit.status = "open" THEN "none" ELSE deadline
            /\ overdue' = IF edit.needs THEN FALSE ELSE overdue
            /\ UNCHANGED mismatch
    /\ UNCHANGED <<artifacts, sent, loop, applied>>

\* reject_agent_run_plan
Reject ==
    /\ Swappable(plan.version) /\ deadline # "passed"
    /\ Decide("rejected", "rejected")
    /\ UNCHANGED <<deadline, request, overdue, artifacts, Handlers>>

-----------------------------------------------------------------------------
(* The loss of the process; planning ends with it, a wait goes on.         *)

Crash ==
    /\ loop' = Idle
    /\ editor' = [e \in Editors |-> Idle]
    /\ run' = IF run = "planning" THEN "failed" ELSE run
    /\ plan' = IF run = "planning" /\ plan.status = "planning"
               THEN [plan EXCEPT !.status = "failed"] ELSE plan
    /\ UNCHANGED <<deadline, request, overdue, artifacts, sent, applied, mismatch>>

Next ==
    \/ CreateSkeleton \/ PlanReady \/ PlanningFails
    \/ Cancel \/ ExpirePlan \/ ExpireRequest \/ DeadlinePasses \/ RequestOverdue
    \/ \E m \in Materials : Upload(m) \/ Delete(m)
    \/ \E c \in Commands : SubmitRead(c) \/ SubmitCommit(c)
    \/ Reread \/ Approve \/ ReadPlan \/ CheckRequest \/ CommitApproval \/ StartPlan
    \/ \E e \in Editors : EditReads(e) \/ EditCompiles(e) \/ EditCommits(e)
    \/ Reject \/ Crash

Spec == Init /\ [][Next]_vars

-----------------------------------------------------------------------------
\* A run starts or completes under a plan only with the inputs the plan needs: the
\* request was compiled for the plan as it was approved, is complete, and what it
\* names is still there.
InputsFrozen ==
    run \in {"running", "completed"} /\ plan.needs =>
        /\ request.status = "complete"
        /\ request.for = plan.content
        /\ request.given \subseteq artifacts

\* Run, plan and request tell the same story, whoever of the loop, the editing
\* threads, an expiry and a cancellation wrote last.
OneStory ==
    /\ run = "waiting_input" <=> request.status = "open"
    /\ run = "waiting_input" =>
          plan.status = IF request.next = "waiting_plan" THEN "waiting" ELSE "approved"
    /\ plan.status = "waiting" => run \in {"waiting_plan", "waiting_input"}
    /\ run = "waiting_plan" => plan.status = "waiting"
    /\ run \in {"running", "completed"} => plan.status = "approved"
    /\ run \in Ended => plan.status \in {"none"} \cup Ended

\* What is approved is the plan the approval validated, although an edit may come
\* between reading and committing.
ApprovedAsValidated ==
    [][loop.at = "committing" /\ plan'.status = "approved" /\ plan.status # "approved"
          => loop.content = plan.content]_vars

\* No edit is lost: an edit replaces the plan and the request it was made from, and
\* the version a client holds changes with every change.
NoLostUpdate ==
    /\ ~mismatch
    /\ \A e \in Editors :
          editor[e].at # "idle" /\ Swappable(editor[e].version) => editor[e].content = plan.content

\* A submission takes effect once, however often it is sent again and whatever
\* edits and deletions come between.
SubmittedOnce == \A c \in Commands : applied[c] =< 1

\* What the user sees of the status of the run.
Stage ==
    CASE run = "planning" -> "drafting"
      [] run = "waiting_input" -> "asking"
      [] run = "waiting_plan" -> "deciding"
      [] run \in Ended -> "ended"
      [] OTHER -> run
Promise == INSTANCE ApprovalPromise WITH
    stage <- Stage, consent <- plan.status = "approved", content <- plan.content

\* Whatever thread commits last, planning is what ApprovalPromise says: the plan is
\* decided once and as it stands, runs only with consent and its inputs, and no late
\* edit, submission or approval brings a running or ended plan back to its user
\* (transition_skill_plan_and_run, compare_and_swap_skill_plan,
\* update_skill_input_request, _cancel_agent_run_tree_in_transaction).
KeepsApproval == Promise!Spec
=============================================================================
