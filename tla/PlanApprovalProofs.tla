------------------------- MODULE PlanApprovalProofs -------------------------
(***************************************************************************)
(* Proofs about PlanApproval, for any number of editing threads,           *)
(* submissions and materials and for any bounds.                           *)
(*                                                                         *)
(* An edit that was read from the plan that is still there keeps the run   *)
(* out of waiting_input (Editing): nothing but an edit leads back there,   *)
(* and an edit changes the version.  So the request it compiled against,   *)
(* and the materials it found, are still those of its transaction.         *)
(*                                                                         *)
(* The last part shows that every transaction is a step of ApprovalPromise *)
(* or leaves what the user sees alone.                                     *)
(***************************************************************************)
EXTENDS PlanApproval, TLAPS

-----------------------------------------------------------------------------
(* The inductive invariant.                                                *)

\* While the run is planned there is nothing to answer, edit or approve.
Early ==
    run = "planning" =>
        /\ plan.status \in {"none", "planning"} /\ plan.content = 0 /\ request = NoRequest
        /\ \A e \in Editors : editor[e] = Idle
        /\ \A c \in Commands : applied[c] = 0

\* A plan with input contracts has the request compiled for it, and what completes a
\* request is there.
Asked ==
    /\ plan.status \in {"waiting", "approved"} /\ plan.needs =>
          request.status \in {"open", "complete"} /\ request.for = plan.content
    /\ request.status = "complete" => request.given \subseteq artifacts

Fresh(edit) ==
    /\ run \notin {"planning", "waiting_input"} /\ edit.content = plan.content
    /\ edit.at = "request" /\ run = "waiting_plan" =>
          edit.replaces = request.version /\ (edit.status = "complete" => edit.given \subseteq artifacts)

\* An edit of the present version was read from the present plan and request.
Editing ==
    \A e \in Editors : editor[e].at # "idle" =>
        /\ editor[e].version <= plan.version
        /\ editor[e].version = plan.version => Fresh(editor[e])

\* So was an approval.
Validating ==
    /\ loop.at \in {"approve", "checking", "committing"} => loop.version <= plan.version
    /\ loop.at \in {"checking", "committing"} /\ loop.version = plan.version =>
          loop.content = plan.content

\* What is about to be committed was said.
Sending == \A c \in Commands : loop = [at |-> "submit", command |-> c] => sent[c] # Unsent

\* A submission that took effect is for a version of the request that has passed.
Submits ==
    \A c \in Commands : applied[c] # 0 =>
        applied[c] = 1 /\ sent[c] # Unsent /\ sent[c].version < request.version

IInv ==
    /\ TypeOK /\ Sending /\ OneStory /\ Early /\ Asked /\ Editing /\ Validating /\ Submits
    /\ ~mismatch

-----------------------------------------------------------------------------
(* Types.                                                                  *)

LEMMA InitTyped == Init => IInv
<1> SUFFICES ASSUME Init PROVE IInv
  OBVIOUS
<1>1. request \in Request
  BY BoundsNatural DEF Init, Request, NoRequest
<1>2. plan \in Plan
  BY BoundsNatural DEF Init, Plan, PlanStatus
<1>3. TypeOK
  BY <1>1, <1>2 DEF Init, TypeOK
<1> QED BY <1>3 DEF Init, IInv, OneStory, Early, Asked, Editing, Validating, Sending, Submits, NoRequest, Idle,
        Unsent, Ended

\* Updates of a plan and of a request stay in their types.
LEMMA PlanFields ==
  ASSUME NEW p \in Plan
  PROVE  p.version \in Nat /\ p.version + 1 \in Nat /\ p.content \in 0 .. MaxEdits
  BY DEF Plan

LEMMA StatusUpdated ==
  ASSUME NEW p \in Plan, NEW s \in PlanStatus
  PROVE  [p EXCEPT !.status = s] \in Plan
  BY DEF Plan

LEMMA DecisionUpdated ==
  ASSUME NEW p \in Plan, NEW s \in PlanStatus, NEW v \in Nat
  PROVE  [p EXCEPT !.status = s, !.version = v] \in Plan
  BY DEF Plan

LEMMA PlanningUpdated ==
  ASSUME NEW p \in Plan, NEW s \in PlanStatus, NEW v \in Nat, NEW n \in BOOLEAN
  PROVE  [p EXCEPT !.status = s, !.version = v, !.needs = n] \in Plan
  BY DEF Plan

LEMMA ContentUpdated ==
  ASSUME NEW p \in Plan, NEW v \in Nat, NEW c \in 0 .. MaxEdits, NEW n \in BOOLEAN
  PROVE  [p EXCEPT !.version = v, !.content = c, !.needs = n] \in Plan
  BY DEF Plan

RequestStatus == {"none", "open", "complete", "expired", "cancelled"}

LEMMA RequestFields ==
  ASSUME NEW q \in Request
  PROVE  q.version \in Nat /\ q.version + 1 \in Nat /\ q.given \in SUBSET Materials
  BY DEF Request

LEMMA ClosingUpdated ==
  ASSUME NEW q \in Request, NEW s \in RequestStatus, NEW v \in Nat
  PROVE  [q EXCEPT !.status = s, !.version = v] \in Request
  BY DEF Request, RequestStatus

LEMMA GivenUpdated ==
  ASSUME NEW q \in Request, NEW v \in Nat, NEW g \in SUBSET Materials
  PROVE  [q EXCEPT !.given = g, !.version = v] \in Request
  BY DEF Request

LEMMA AnswerUpdated ==
  ASSUME NEW q \in Request, NEW s \in RequestStatus, NEW v \in Nat,
         NEW c \in Commands, NEW g \in SUBSET Materials
  PROVE  [q EXCEPT !.status = s, !.version = v, !.command = c, !.given = g] \in Request
  BY DEF Request, RequestStatus

LEMMA StatusesNamed ==
  /\ {"planning", "waiting", "approved", "failed", "rejected", "cancelled"} \subseteq PlanStatus
  /\ {"open", "complete", "expired", "cancelled"} \subseteq RequestStatus
  BY DEF PlanStatus, RequestStatus

LEMMA EditFields ==
  ASSUME TypeOK, NEW e \in Editors, editor[e].at = "request"
  PROVE  /\ editor[e].needs \in BOOLEAN /\ editor[e].status \in {"open", "complete"}
         /\ editor[e].given \in SUBSET Materials /\ editor[e].replaces \in Nat
         /\ editor[e].version \in Nat
  BY DEF TypeOK, Edits, Idle

\* What the commit of an edit does: nothing, or one of two replacements.
Replaces(e) ==
  [status |-> editor[e].status, version |-> editor[e].replaces + 1, next |-> "waiting_plan",
   command |-> NoCommand, given |-> editor[e].given, for |-> plan.content + 1]

EditMisses(e) ==
  /\ UNCHANGED <<run, deadline, plan, request, overdue>>
  /\ mismatch' = mismatch \/ (/\ Swappable(editor[e].version) /\ editor[e].needs
                              /\ editor[e].replaces # request.version)

EditPlan(e) ==
  /\ Swappable(editor[e].version) /\ plan.content # MaxEdits /\ plan' = Edited(editor[e])
  /\ mismatch' = mismatch /\ ~editor[e].needs
  /\ UNCHANGED <<run, deadline, request, overdue>>

EditBoth(e) ==
  /\ Swappable(editor[e].version) /\ plan.content # MaxEdits /\ plan' = Edited(editor[e])
  /\ mismatch' = mismatch /\ editor[e].needs
  /\ editor[e].replaces = request.version /\ request' = Replaces(e)
  /\ run' = IF editor[e].status = "open" THEN "waiting_input" ELSE run

LEMMA EditCases ==
  ASSUME TypeOK, NEW e \in Editors, EditCommits(e)
  PROVE  EditMisses(e) \/ EditPlan(e) \/ EditBoth(e)
<1>1. editor[e].needs \in BOOLEAN
  BY EditFields DEF EditCommits
<1>2. CASE ~Swappable(editor[e].version) \/ plan.content = MaxEdits
  BY <1>2 DEF EditCommits, EditMisses
<1>3. CASE Swappable(editor[e].version) /\ plan.content # MaxEdits /\ ~editor[e].needs
  BY <1>1, <1>3 DEF EditCommits, EditPlan
<1>4. CASE Swappable(editor[e].version) /\ plan.content # MaxEdits /\ editor[e].needs
  <2>1. CASE editor[e].replaces # request.version
    BY <1>4, <2>1 DEF EditCommits, EditMisses
  <2>2. CASE editor[e].replaces = request.version
    BY <1>4, <2>2 DEF EditCommits, EditBoth, Replaces
  <2> QED BY <2>1, <2>2
<1> QED BY <1>1, <1>2, <1>3, <1>4

LEMMA CancelTreeTyped ==
  ASSUME TypeOK, CancelTree
  PROVE  run' = "cancelled" /\ plan' \in Plan /\ request' \in Request
<1>1. plan' \in Plan
  BY StatusUpdated, StatusesNamed DEF TypeOK, CancelTree
<1>2. request' \in Request
  BY RequestFields, ClosingUpdated, StatusesNamed DEF TypeOK, CancelTree
<1> QED BY <1>1, <1>2 DEF CancelTree

LEMMA TypeKept == TypeOK /\ Sending /\ [Next]_vars => TypeOK'
<1> SUFFICES ASSUME TypeOK, Sending, [Next]_vars PROVE TypeOK'
  OBVIOUS
<1> USE BoundsNatural
<1>1. CASE UNCHANGED vars
  BY <1>1 DEF TypeOK, vars, stored
<1>2. CASE CreateSkeleton \/ PlanningFails
  <2>1. plan' \in Plan
    <3>1. CASE CreateSkeleton
      BY <3>1, DecisionUpdated, StatusesNamed DEF CreateSkeleton, TypeOK
    <3>2. CASE PlanningFails
      BY <3>2, StatusUpdated, StatusesNamed DEF PlanningFails, TypeOK
    <3> QED BY <1>2, <3>1, <3>2
  <2> QED BY <1>2, <2>1 DEF CreateSkeleton, PlanningFails, TypeOK, Handlers, Ended
<1>3. CASE PlanReady
  <2>1. PICK needs \in BOOLEAN, waits \in BOOLEAN, s \in {"open", "complete"} :
           LET next == IF waits THEN "waiting_plan" ELSE "running" IN
           /\ plan' = [plan EXCEPT !.status = IF waits THEN "waiting" ELSE "approved",
                                   !.version = @ + 1, !.needs = needs]
           /\ request' = IF needs THEN Compiled(s, next) ELSE NoRequest
           /\ run' = IF needs /\ s = "open" THEN "waiting_input" ELSE next
    BY <1>3 DEF PlanReady
  <2>2. plan' \in Plan
    <3>1. (IF waits THEN "waiting" ELSE "approved") \in PlanStatus
      BY StatusesNamed
    <3>2. plan \in Plan /\ plan.version + 1 \in Nat
      BY PlanFields DEF TypeOK
    <3> QED BY <2>1, <3>1, <3>2, PlanningUpdated
  <2>3. request' \in Request
    <3>1. NoRequest \in Request
      BY DEF NoRequest, Request
    <3>2. \A next \in {"running", "waiting_plan"} : Compiled(s, next) \in Request
      BY <3>1 DEF Compiled, Request
    <3> QED BY <2>1, <3>1, <3>2
  <2> QED BY <1>3, <2>1, <2>2, <2>3 DEF PlanReady, TypeOK, Handlers
<1>4. CASE Cancel \/ ExpirePlan
  BY <1>4, CancelTreeTyped DEF Cancel, ExpirePlan, TypeOK, Handlers, Ended
<1>5. CASE ExpireRequest
  <2>1. plan' \in Plan
    BY <1>5, StatusUpdated, StatusesNamed DEF ExpireRequest, TypeOK
  <2>2. request' \in Request
    BY <1>5, RequestFields, ClosingUpdated, StatusesNamed DEF ExpireRequest, TypeOK
  <2> QED BY <1>5, <2>1, <2>2 DEF ExpireRequest, TypeOK, Handlers, Ended
<1>6. CASE DeadlinePasses \/ RequestOverdue
  BY <1>6 DEF DeadlinePasses, RequestOverdue, TypeOK, Handlers
<1>7. ASSUME NEW m \in Materials, Upload(m) \/ Delete(m) PROVE TypeOK'
  <2>1. request' \in Request
    <3>1. request.version + 1 \in Nat /\ request.given \ {m} \in SUBSET Materials
      BY RequestFields DEF TypeOK
    <3>2. CASE Upload(m)
      BY <3>2 DEF Upload, TypeOK
    <3>3. CASE Delete(m)
      BY <3>1, <3>3, GivenUpdated DEF Delete, TypeOK
    <3> QED BY <1>7, <3>2, <3>3
  <2> QED BY <1>7, <2>1 DEF Upload, Delete, TypeOK, Handlers
<1>8. ASSUME NEW c \in Commands, SubmitRead(c) PROVE TypeOK'
  <2>1. PICK s \in Say(c) : sent' = [sent EXCEPT ![c] = s] /\ loop' = [at |-> "submit", command |-> c]
    BY <1>8 DEF SubmitRead
  <2>2. s \in Submission
    <3>1. CASE sent[c] # Unsent
      BY <3>1 DEF Say, TypeOK
    <3>2. CASE sent[c] = Unsent
      BY <3>2 DEF Say, TypeOK, Submission, Plan, Request
    <3> QED BY <3>1, <3>2
  <2>3. loop' \in Handling
    BY <2>1 DEF Handling
  <2>4. sent' \in [Commands -> {Unsent} \cup Submission]
    BY <2>1, <2>2 DEF TypeOK
  <2> QED BY <1>8, <2>3, <2>4 DEF SubmitRead, TypeOK, stored
<1>9. ASSUME NEW c \in Commands, SubmitCommit(c) PROVE TypeOK'
  <2>1. CASE Accepted(c) /\ Frozen(c)
    <3>1. sent[c] \in Submission
      BY <1>9 DEF SubmitCommit, TypeOK, Sending
    <3>2. request' \in Request
      <4>1. (IF sent[c].advance THEN "complete" ELSE "open") \in RequestStatus
        BY StatusesNamed
      <4>2. sent[c].given \in SUBSET Materials
        BY <3>1 DEF Submission
      <4>3. request \in Request /\ request.version + 1 \in Nat
        BY RequestFields DEF TypeOK
      <4>4. request' = [request EXCEPT !.status = IF sent[c].advance THEN "complete" ELSE "open",
                                       !.version = request.version + 1, !.command = c,
                                       !.given = sent[c].given]
        BY <1>9, <2>1 DEF SubmitCommit, Submitted
      <4> QED BY <4>1, <4>2, <4>3, <4>4, AnswerUpdated
    <3>3. applied' \in [Commands -> Nat]
      BY <1>9, <2>1 DEF SubmitCommit, TypeOK
    <3>4. loop' \in {Idle} \cup Handling
      BY <1>9, <2>1 DEF SubmitCommit, Handling
    <3>5. request.next \in {"running", "waiting_plan"}
      BY DEF TypeOK, Request
    <3> QED BY <1>9, <2>1, <3>2, <3>3, <3>4, <3>5 DEF SubmitCommit, TypeOK
  <2>2. CASE ~(Accepted(c) /\ Frozen(c))
    BY <1>9, <2>2 DEF SubmitCommit, TypeOK
  <2> QED BY <2>1, <2>2
<1>10. CASE Reread \/ Approve \/ ReadPlan
  <2>1. plan.version \in Nat /\ plan.content \in 0 .. MaxEdits
    BY DEF TypeOK, Plan
  <2>2. loop' \in Handling
    BY <1>10, <2>1 DEF Reread, Approve, ReadPlan, TypeOK, Handling, Idle
  <2> QED BY <1>10, <2>2 DEF Reread, Approve, ReadPlan, TypeOK, stored
<1>11. CASE CheckRequest
  <2>1. loop' \in {Idle} \cup Handling
    BY <1>11 DEF CheckRequest, TypeOK, Handling, Idle
  <2> QED BY <1>11, <2>1, CancelTreeTyped DEF CheckRequest, TypeOK, Ended
<1>12. CASE CommitApproval
  <2>1. loop' \in {Idle} \cup Handling
    BY <1>12 DEF CommitApproval, TypeOK, Handling, Idle
  <2>2. plan' \in Plan /\ request' \in Request
    <3>1. ASSUME NEW next, Decide("approved", next) PROVE plan' \in Plan
      BY <3>1, PlanFields, DecisionUpdated, StatusesNamed DEF Decide, TypeOK
    <3> QED BY <1>12, <3>1, CancelTreeTyped DEF CommitApproval, TypeOK
  <2> QED BY <1>12, <2>1, <2>2, CancelTreeTyped DEF CommitApproval, Decide, TypeOK, Ended
<1>13. CASE StartPlan
  BY <1>13, CancelTreeTyped DEF StartPlan, TypeOK, Ended
<1>14. ASSUME NEW e \in Editors, EditReads(e) PROVE TypeOK'
  <2>1. [at |-> "plan", version |-> plan.version, content |-> plan.content] \in Edits
    BY DEF TypeOK, Plan, Edits
  <2> QED BY <1>14, <2>1 DEF EditReads, TypeOK, stored
<1>15. ASSUME NEW e \in Editors, EditCompiles(e) PROVE TypeOK'
  <2>1. editor[e].version \in Nat /\ editor[e].content \in 0 .. MaxEdits
    BY <1>15 DEF EditCompiles, TypeOK, Edits, Idle
  <2>2. request.given \in SUBSET Materials /\ request.version \in Nat
    BY DEF TypeOK, Request
  <2>3. PICK needs \in BOOLEAN, given \in {{}, request.given}, s \in {"open", "complete"} :
           editor' = [editor EXCEPT ![e] =
                [at |-> "request", version |-> editor[e].version, content |-> editor[e].content,
                 needs |-> needs, status |-> s, given |-> given, replaces |-> request.version]]
    BY <1>15 DEF EditCompiles
  <2>4. [at |-> "request", version |-> editor[e].version, content |-> editor[e].content,
         needs |-> needs, status |-> s, given |-> given, replaces |-> request.version] \in Edits
    BY <2>1, <2>2 DEF Edits
  <2>5. editor' \in [Editors -> {Idle} \cup Edits]
    BY <2>3, <2>4 DEF TypeOK
  <2> QED BY <1>15, <2>5 DEF EditCompiles, TypeOK, stored
<1>16. ASSUME NEW e \in Editors, EditCommits(e) PROVE TypeOK'
  <2>1. editor' \in [Editors -> {Idle} \cup Edits]
    BY <1>16 DEF EditCommits, TypeOK
  <2>2. CASE EditMisses(e)
    <3>1. mismatch' \in BOOLEAN
      BY <1>16, <2>2 DEF EditMisses, EditCommits, TypeOK
    <3> QED BY <1>16, <2>1, <2>2, <3>1 DEF EditMisses, EditCommits, TypeOK
  <2>3. CASE EditPlan(e) \/ EditBoth(e)
    <3>1. editor[e].needs \in BOOLEAN /\ editor[e].status \in {"open", "complete"}
          /\ editor[e].given \in SUBSET Materials /\ editor[e].replaces \in Nat
      BY <1>16, EditFields DEF EditCommits
    <3>2. plan.content + 1 \in 0 .. MaxEdits
      BY <2>3 DEF EditPlan, EditBoth, TypeOK, Plan
    <3>3. plan' \in Plan
      <4>1. plan' = [plan EXCEPT !.version = plan.version + 1, !.content = plan.content + 1,
                                 !.needs = editor[e].needs]
        BY <2>3 DEF EditPlan, EditBoth, Edited
      <4>2. plan \in Plan /\ plan.version + 1 \in Nat
        BY PlanFields DEF TypeOK
      <4> QED BY <3>1, <3>2, <4>1, <4>2, ContentUpdated
    <3>4. Replaces(e) \in Request
      BY <3>1, <3>2 DEF Request, Replaces
    <3>5. deadline' \in {deadline, "none"} /\ overdue' \in BOOLEAN
      BY <1>16 DEF EditCommits, TypeOK
    <3> QED BY <1>16, <2>1, <2>3, <3>3, <3>4, <3>5 DEF EditPlan, EditBoth, EditCommits, TypeOK
  <2> QED BY <1>16, <2>2, <2>3, EditCases
<1>17. CASE Reject
  <2>1. plan' \in Plan
    BY <1>17, PlanFields, DecisionUpdated, StatusesNamed DEF Reject, Decide, TypeOK
  <2> QED BY <1>17, <2>1 DEF Reject, Decide, TypeOK, Handlers, Ended
<1>18. CASE Crash
  <2>1. plan' \in Plan
    BY <1>18, StatusUpdated, StatusesNamed DEF Crash, TypeOK
  <2> QED BY <1>18, <2>1 DEF Crash, TypeOK, Ended
<1> QED BY <1>1, <1>2, <1>3, <1>4, <1>5, <1>6, <1>7, <1>8, <1>9, <1>10, <1>11, <1>12, <1>13,
           <1>14, <1>15, <1>16, <1>17, <1>18 DEF Next

-----------------------------------------------------------------------------
(* The submissions.                                                        *)

\* Every step but the submission's own keeps what is said.
LEMMA SendingKept == TypeOK /\ Sending /\ [Next]_vars => Sending'
<1> SUFFICES ASSUME TypeOK, Sending, [Next]_vars PROVE Sending'
  OBVIOUS
<1>1. ASSUME NEW c \in Commands, SubmitRead(c) PROVE Sending'
  <2>1. PICK s \in Say(c) : sent' = [sent EXCEPT ![c] = s] /\ loop' = [at |-> "submit", command |-> c]
    BY <1>1 DEF SubmitRead
  <2>2. s # Unsent
    BY <2>1 DEF Say, Unsent
  <2> QED BY <2>1, <2>2 DEF Sending, TypeOK
<1>2. loop' \in {loop, Idle} /\ sent' = sent => Sending'
  BY DEF Sending, Idle
<1>3. loop'.at \in {"reread", "approve", "checking", "committing", "start"} => Sending'
  BY DEF Sending
<1>4. CASE UNCHANGED vars \/ CreateSkeleton \/ PlanReady \/ PlanningFails \/ Cancel \/ ExpirePlan
           \/ ExpireRequest \/ DeadlinePasses \/ RequestOverdue \/ Reject \/ Crash \/ StartPlan
  BY <1>2, <1>4 DEF vars, CreateSkeleton, PlanReady, PlanningFails, Cancel, ExpirePlan, ExpireRequest,
     DeadlinePasses, RequestOverdue, Reject, Crash, StartPlan, Handlers
<1>5. ASSUME NEW m \in Materials, Upload(m) \/ Delete(m) PROVE Sending'
  BY <1>2, <1>5 DEF Upload, Delete, Handlers
<1>6. ASSUME NEW e \in Editors, EditReads(e) \/ EditCompiles(e) \/ EditCommits(e) PROVE Sending'
  BY <1>2, <1>6 DEF EditReads, EditCompiles, EditCommits
<1>7. ASSUME NEW c \in Commands, SubmitCommit(c) PROVE Sending'
  BY <1>2, <1>3, <1>7 DEF SubmitCommit
<1>8. CASE Reread \/ Approve \/ ReadPlan
  BY <1>3, <1>8 DEF Reread, Approve, ReadPlan
<1>9. CASE CheckRequest
  <2>1. loop'.at = "committing" \/ loop' = Idle
    BY <1>9 DEF CheckRequest, TypeOK, Handling, Idle
  <2> QED BY <1>2, <1>3, <1>9, <2>1 DEF CheckRequest
<1>10. CASE CommitApproval
  BY <1>2, <1>3, <1>10 DEF CommitApproval
<1> QED BY <1>1, <1>4, <1>5, <1>6, <1>7, <1>8, <1>9, <1>10 DEF Next

LEMMA SubmitsKept ==
  TypeOK /\ Sending /\ Early /\ Submits /\ [Next]_vars => Submits'
<1> SUFFICES ASSUME TypeOK, Sending, Early, Submits, [Next]_vars PROVE Submits'
  OBVIOUS
<1> USE DEF Submits
<1>0. request.version \in Nat
  BY DEF TypeOK, Request
<1>1. applied' = applied /\ sent' = sent /\ (request' = request \/ request'.version = request.version + 1)
         => Submits'
  <2> SUFFICES ASSUME applied' = applied, sent' = sent,
                      request' = request \/ request'.version = request.version + 1,
                      NEW c \in Commands, applied[c] # 0
               PROVE  applied[c] = 1 /\ sent[c] # Unsent /\ sent[c].version < request'.version
    OBVIOUS
  <2>1. sent[c] \in Submission
    BY DEF TypeOK
  <2>2. sent[c].version \in Nat
    BY <2>1 DEF Submission
  <2> QED BY <1>0, <2>2
<1>2. CancelTree => request' = request \/ request'.version = request.version + 1
  BY DEF CancelTree, TypeOK, Request
<1>3. CASE UNCHANGED vars \/ CreateSkeleton \/ PlanningFails \/ DeadlinePasses \/ RequestOverdue
           \/ Reread \/ Approve \/ ReadPlan \/ Reject \/ Crash
  BY <1>1, <1>3 DEF vars, stored, CreateSkeleton, PlanningFails, DeadlinePasses, RequestOverdue, Reread,
     Approve, ReadPlan, Reject, Crash, Handlers
<1>4. CASE PlanReady
  BY <1>4 DEF PlanReady, Early, Handlers
<1>5. CASE Cancel \/ ExpirePlan \/ CheckRequest \/ CommitApproval \/ StartPlan
  BY <1>1, <1>2, <1>5 DEF Cancel, ExpirePlan, CheckRequest, CommitApproval, StartPlan, Handlers
<1>6. CASE ExpireRequest
  <2>1. request'.version = request.version + 1
    BY <1>6 DEF ExpireRequest, TypeOK, Request
  <2> QED BY <1>1, <1>6, <2>1 DEF ExpireRequest, Handlers
<1>7. ASSUME NEW m \in Materials, Upload(m) \/ Delete(m) PROVE Submits'
  <2>1. request' = request \/ request'.version = request.version + 1
    BY <1>7 DEF Upload, Delete, TypeOK, Request
  <2> QED BY <1>1, <1>7, <2>1 DEF Upload, Delete, Handlers
<1>8. ASSUME NEW c \in Commands, SubmitRead(c) PROVE Submits'
  <2>1. PICK s \in Say(c) : s.version = request.version /\ sent' = [sent EXCEPT ![c] = s]
    BY <1>8 DEF SubmitRead
  <2>2. applied[c] = 0
    <3> SUFFICES ASSUME applied[c] # 0 PROVE FALSE
      OBVIOUS
    <3>1. s = sent[c] /\ sent[c].version < request.version
      BY <2>1 DEF Say
    <3> QED BY <1>0, <2>1, <3>1
  <2>3. request' = request /\ applied' = applied
    BY <1>8 DEF SubmitRead, stored
  <2> QED BY <2>1, <2>2, <2>3 DEF TypeOK
<1>9. ASSUME NEW c \in Commands, SubmitCommit(c) PROVE Submits'
  <2>1. CASE Accepted(c) /\ Frozen(c)
    <3>1. sent[c] # Unsent /\ sent[c].version = request.version
      BY <1>9, <2>1 DEF SubmitCommit, Sending, Accepted
    <3>2. applied[c] = 0
      BY <1>0, <3>1
    <3>3. request'.version = request.version + 1
      BY <1>9, <2>1 DEF SubmitCommit, Submitted, TypeOK, Request
    <3>4. applied' = [applied EXCEPT ![c] = 1] /\ sent' = sent
      BY <1>9, <2>1, <3>2 DEF SubmitCommit
    <3>5. ASSUME NEW d \in Commands, applied'[d] # 0
          PROVE  applied'[d] = 1 /\ sent[d] # Unsent /\ sent[d].version <= request.version
                 /\ sent[d].version \in Nat
      <4>1. applied'[d] = 1 /\ sent[d] # Unsent
            /\ (sent[d].version < request.version \/ sent[d].version = request.version)
        BY <3>1, <3>4, <3>5 DEF TypeOK
      <4>2. sent[d] \in Submission
        BY <4>1 DEF TypeOK
      <4>3. sent[d].version \in Nat
        BY <4>2 DEF Submission
      <4> QED BY <1>0, <4>1, <4>3
    <3> QED BY <1>0, <3>3, <3>4, <3>5
  <2>2. CASE ~(Accepted(c) /\ Frozen(c))
    BY <1>1, <1>9, <2>2 DEF SubmitCommit
  <2> QED BY <2>1, <2>2
<1>10. ASSUME NEW e \in Editors, EditReads(e) \/ EditCompiles(e) PROVE Submits'
  BY <1>1, <1>10 DEF EditReads, EditCompiles, stored
<1>11. ASSUME NEW e \in Editors, EditCommits(e) PROVE Submits'
  <2>1. request' = request \/ request'.version = request.version + 1
    BY <1>11, EditCases DEF EditMisses, EditPlan, EditBoth, Replaces
  <2> QED BY <1>1, <1>11, <2>1 DEF EditCommits
<1> QED BY <1>3, <1>4, <1>5, <1>6, <1>7, <1>8, <1>9, <1>10, <1>11 DEF Next

-----------------------------------------------------------------------------
(* Run, plan and request.                                                  *)

Told == OneStory /\ Early

LEMMA CancelTold ==
  ASSUME TypeOK, Told, CancelTree
  PROVE  Told'
  BY DEF Told, OneStory, Early, CancelTree, TypeOK, Plan, Request, Ended

LEMMA SameStory ==
  ASSUME Told, UNCHANGED <<run, plan, request>>, run = "planning" => UNCHANGED <<editor, applied>>
  PROVE  Told'
  BY DEF Told, OneStory, Early

\* The statuses after each transaction, from those before it.
LEMMA ToldKept == TypeOK /\ Told /\ [Next]_vars => Told'
<1> SUFFICES ASSUME TypeOK, Told, [Next]_vars PROVE Told'
  OBVIOUS
<1>0. plan \in Plan /\ request \in Request
  BY DEF TypeOK
<1>1. CASE UNCHANGED vars \/ DeadlinePasses \/ RequestOverdue \/ Reread \/ Approve \/ ReadPlan
  BY <1>1, SameStory DEF vars, stored, DeadlinePasses, RequestOverdue, Reread, Approve, ReadPlan, Handlers
<1>2. CASE CreateSkeleton
  BY <1>0, <1>2 DEF CreateSkeleton, Handlers, Told, OneStory, Early, Plan, Ended
<1>3. CASE PlanReady
  <2>1. PICK needs \in BOOLEAN, waits \in BOOLEAN, s \in {"open", "complete"} :
           LET next == IF waits THEN "waiting_plan" ELSE "running" IN
           /\ plan' = [plan EXCEPT !.status = IF waits THEN "waiting" ELSE "approved",
                                   !.version = @ + 1, !.needs = needs]
           /\ request' = IF needs THEN Compiled(s, next) ELSE NoRequest
           /\ run' = IF needs /\ s = "open" THEN "waiting_input" ELSE next
    BY <1>3 DEF PlanReady
  <2>2. plan'.status = IF waits THEN "waiting" ELSE "approved"
    BY <1>0, <2>1 DEF Plan
  <2>3. request'.status = (IF needs THEN s ELSE "none")
        /\ (needs => request'.next = IF waits THEN "waiting_plan" ELSE "running")
    BY <2>1 DEF Compiled, NoRequest
  <2> QED BY <2>1, <2>2, <2>3 DEF Told, OneStory, Early, Ended
<1>4. CASE PlanningFails
  BY <1>0, <1>4 DEF PlanningFails, Handlers, Told, OneStory, Early, Plan, Ended, NoRequest
<1>5. CASE Cancel \/ ExpirePlan \/ CheckRequest \/ StartPlan
  BY <1>5, CancelTold, SameStory DEF Cancel, ExpirePlan, CheckRequest, StartPlan
<1>6. CASE ExpireRequest
  BY <1>0, <1>6 DEF ExpireRequest, Told, OneStory, Early, Plan, Request, Ended
<1>7. ASSUME NEW m \in Materials, Upload(m) \/ Delete(m) PROVE Told'
  <2>1. run = "waiting_input" /\ UNCHANGED <<run, plan>>
        /\ request'.status = request.status /\ request'.next = request.next
    BY <1>0, <1>7 DEF Upload, Delete, Answerable, Request
  <2> QED BY <2>1 DEF Told, OneStory, Early
<1>8. ASSUME NEW c \in Commands, SubmitRead(c) PROVE Told'
  BY <1>8, SameStory DEF SubmitRead, stored
<1>9. ASSUME NEW c \in Commands, SubmitCommit(c) PROVE Told'
  <2>1. CASE Accepted(c) /\ Frozen(c)
    <3>1. request'.status = (IF sent[c].advance THEN "complete" ELSE "open") /\ request'.next = request.next
      BY <1>0, <1>9, <2>1 DEF SubmitCommit, Submitted, Request
    <3>2. run = "waiting_input" /\ request.next \in {"running", "waiting_plan"}
          /\ run' = (IF sent[c].advance THEN request.next ELSE run) /\ plan' = plan
      BY <1>0, <1>9, <2>1 DEF SubmitCommit, Accepted, Answerable, Request
    <3> QED BY <3>1, <3>2 DEF Told, OneStory, Early, Ended
  <2>2. CASE ~(Accepted(c) /\ Frozen(c))
    BY <1>9, <2>2, SameStory DEF SubmitCommit
  <2> QED BY <2>1, <2>2
<1>10. ASSUME NEW status \in {"approved", "rejected"}, NEW next, Decide(status, next),
              IF status = "approved" THEN next \in {"running", "completed"} ELSE next = "rejected",
              run = "waiting_plan", UNCHANGED request
       PROVE  Told'
  <2>1. plan'.status = status
    BY <1>0, <1>10 DEF Decide, Plan
  <2> QED BY <1>10, <2>1 DEF Decide, Told, OneStory, Early, Ended
<1>11. CASE CommitApproval
  BY <1>10, <1>11, CancelTold, SameStory DEF CommitApproval, Swappable
<1>12. CASE Reject
  BY <1>10, <1>12 DEF Reject, Swappable
<1>13. ASSUME NEW e \in Editors, EditReads(e) \/ EditCompiles(e) PROVE Told'
  <2>1. run = "planning" => ~EditReads(e) /\ ~EditCompiles(e)
    BY DEF EditReads, EditCompiles, Told, Early, Idle
  <2> QED BY <1>13, <2>1, SameStory DEF EditReads, EditCompiles, stored
<1>14. ASSUME NEW e \in Editors, EditCommits(e) PROVE Told'
  <2>1. run # "planning"
    BY <1>14 DEF EditCommits, Told, Early, Idle
  <2>2. CASE EditMisses(e)
    BY <2>1, <2>2, SameStory DEF EditMisses
  <2>3. CASE EditPlan(e) \/ EditBoth(e)
    <3>1. run = "waiting_plan" /\ plan'.status = "waiting" /\ plan.status = "waiting"
      BY <1>0, <2>3 DEF EditPlan, EditBoth, Swappable, Edited, Plan
    <3>2. CASE EditPlan(e)
      BY <3>1, <3>2 DEF EditPlan, Told, OneStory, Early, Ended
    <3>3. CASE EditBoth(e)
      <4>1. editor[e].status \in {"open", "complete"}
        BY <1>14, EditFields DEF EditCommits
      <4> QED BY <3>1, <3>3, <4>1 DEF EditBoth, Replaces, Told, OneStory, Early, Ended
    <3> QED BY <2>3, <3>2, <3>3
  <2> QED BY <1>14, <2>2, <2>3, EditCases
<1>15. CASE Crash
  <2>1. CASE run = "planning"
    BY <1>0, <1>15, <2>1 DEF Crash, Told, OneStory, Early, Plan, Ended, NoRequest
  <2>2. CASE run # "planning"
    BY <1>15, <2>2, SameStory DEF Crash
  <2> QED BY <2>1, <2>2
<1> QED BY <1>1, <1>2, <1>3, <1>4, <1>5, <1>6, <1>7, <1>8, <1>9, <1>11, <1>12, <1>13, <1>14, <1>15 DEF Next

-----------------------------------------------------------------------------
(* What was read and what it is committed to.                              *)

LEMMA SameAsked ==
  ASSUME Asked, UNCHANGED <<plan, request>>, artifacts \subseteq artifacts'
  PROVE  Asked'
  BY DEF Asked

LEMMA CancelAsked ==
  ASSUME TypeOK, Asked, CancelTree, artifacts' = artifacts
  PROVE  Asked'
<1>1. plan'.status \notin {"waiting", "approved"}
  BY DEF CancelTree, TypeOK, Plan
<1>2. request' = request \/ request'.status = "cancelled"
  BY DEF CancelTree, TypeOK, Request
<1> QED BY <1>1, <1>2 DEF Asked

LEMMA AskedKept == TypeOK /\ Told /\ Asked /\ Editing /\ [Next]_vars => Asked'
<1> SUFFICES ASSUME TypeOK, Told, Asked, Editing, [Next]_vars PROVE Asked'
  OBVIOUS
<1>0. plan \in Plan /\ request \in Request
  BY DEF TypeOK
<1>1. CASE UNCHANGED vars \/ DeadlinePasses \/ RequestOverdue \/ Reread \/ Approve \/ ReadPlan
  BY <1>1, SameAsked DEF vars, stored, DeadlinePasses, RequestOverdue, Reread, Approve, ReadPlan, Handlers
<1>2. ASSUME plan'.status \notin {"waiting", "approved"}, UNCHANGED <<request, artifacts>> PROVE Asked'
  BY <1>2 DEF Asked
<1>3. CASE CreateSkeleton \/ PlanningFails \/ Reject
  <2>1. plan'.status \notin {"waiting", "approved"}
    BY <1>0, <1>3 DEF CreateSkeleton, PlanningFails, Reject, Decide, Told, Early, Plan
  <2> QED BY <1>2, <1>3, <2>1 DEF CreateSkeleton, PlanningFails, Reject
<1>4. CASE PlanReady
  <2>1. PICK needs \in BOOLEAN, waits \in BOOLEAN, s \in {"open", "complete"} :
           LET next == IF waits THEN "waiting_plan" ELSE "running" IN
           /\ plan' = [plan EXCEPT !.status = IF waits THEN "waiting" ELSE "approved",
                                   !.version = @ + 1, !.needs = needs]
           /\ request' = IF needs THEN Compiled(s, next) ELSE NoRequest
    BY <1>4 DEF PlanReady
  <2>2. plan'.needs = needs /\ plan'.content = 0
    BY <1>0, <1>4, <2>1 DEF PlanReady, Told, Early, Plan
  <2>3. IF needs THEN request'.status = s /\ request'.for = 0 /\ request'.given = {}
                 ELSE request'.status = "none"
    BY <2>1 DEF Compiled, NoRequest
  <2> QED BY <2>2, <2>3 DEF Asked
<1>5. CASE Cancel \/ ExpirePlan \/ CheckRequest \/ StartPlan
  BY <1>5, CancelAsked, SameAsked DEF Cancel, ExpirePlan, CheckRequest, StartPlan
<1>6. CASE ExpireRequest
  <2>1. plan'.status \notin {"waiting", "approved"} /\ request'.status = "expired"
    BY <1>0, <1>6 DEF ExpireRequest, Plan, Request
  <2> QED BY <2>1 DEF Asked
<1>7. ASSUME NEW m \in Materials, Upload(m) \/ Delete(m) PROVE Asked'
  <2>1. CASE Upload(m)
    BY <2>1, SameAsked DEF Upload
  <2>2. CASE Delete(m)
    <3>1. request.status = "open" /\ request'.status = "open" /\ request'.for = request.for /\ plan' = plan
      BY <1>0, <2>2 DEF Delete, Answerable, Request
    <3> QED BY <3>1 DEF Asked
  <2> QED BY <1>7, <2>1, <2>2
<1>8. ASSUME NEW c \in Commands, SubmitRead(c) PROVE Asked'
  BY <1>8, SameAsked DEF SubmitRead, stored
<1>9. ASSUME NEW c \in Commands, SubmitCommit(c) PROVE Asked'
  <2>1. CASE Accepted(c) /\ Frozen(c)
    <3>1. /\ request'.status = IF sent[c].advance THEN "complete" ELSE "open"
          /\ request'.for = request.for /\ request'.given = sent[c].given
      BY <1>0, <1>9, <2>1 DEF SubmitCommit, Submitted, Request
    <3>2. request.status = "open" /\ UNCHANGED <<plan, artifacts>>
          /\ (sent[c].advance => sent[c].given \subseteq artifacts)
      BY <1>9, <2>1 DEF SubmitCommit, Accepted, Answerable, Frozen
    <3> QED BY <3>1, <3>2 DEF Asked
  <2>2. CASE ~(Accepted(c) /\ Frozen(c))
    BY <1>9, <2>2, SameAsked DEF SubmitCommit
  <2> QED BY <2>1, <2>2
<1>10. CASE CommitApproval
  <2>1. ASSUME NEW next, Swappable(loop.version), Decide("approved", next), UNCHANGED <<request, artifacts>>
        PROVE  Asked'
    <3>1. plan.status = "waiting" /\ plan'.content = plan.content /\ plan'.needs = plan.needs
      BY <1>0, <2>1 DEF Swappable, Decide, Plan
    <3> QED BY <2>1, <3>1 DEF Asked
  <2> QED BY <1>10, <2>1, CancelAsked, SameAsked DEF CommitApproval
<1>11. ASSUME NEW e \in Editors, EditReads(e) \/ EditCompiles(e) PROVE Asked'
  BY <1>11, SameAsked DEF EditReads, EditCompiles, stored
<1>12. ASSUME NEW e \in Editors, EditCommits(e) PROVE Asked'
  <2>1. CASE EditMisses(e)
    BY <1>12, <2>1, SameAsked DEF EditMisses, EditCommits
  <2>2. CASE EditPlan(e)
    <3>1. plan'.needs = FALSE
      BY <1>0, <1>12, <2>2, EditFields DEF EditPlan, Edited, EditCommits, Plan
    <3> QED BY <1>12, <2>2, <3>1 DEF EditPlan, EditCommits, Asked
  <2>3. CASE EditBoth(e)
    <3>1. plan'.content = plan.content + 1
      BY <1>0, <2>3 DEF EditBoth, Edited, Plan
    <3>2. editor[e].status = "complete" => editor[e].given \subseteq artifacts
      BY <1>12, <2>3 DEF EditBoth, Swappable, Editing, Fresh, EditCommits
    <3>3. editor[e].status \in {"open", "complete"}
      BY <1>12, EditFields DEF EditCommits
    <3>4. artifacts' = artifacts
      BY <1>12 DEF EditCommits
    <3> QED BY <2>3, <3>1, <3>2, <3>3, <3>4 DEF EditBoth, Replaces, Asked
  <2> QED BY <1>12, <2>1, <2>2, <2>3, EditCases
<1>13. CASE Crash
  <2>1. plan' = plan \/ plan'.status = "failed"
    BY <1>0, <1>13 DEF Crash, Plan
  <2> QED BY <1>2, <1>13, <2>1, SameAsked DEF Crash
<1> QED BY <1>1, <1>3, <1>4, <1>5, <1>6, <1>7, <1>8, <1>9, <1>10, <1>11, <1>12, <1>13 DEF Next

\* An edit that was read stays good while the run stays where it was ...
LEMMA EditingStays ==
  ASSUME Editing, editor' = editor, plan'.version = plan.version, plan'.content = plan.content,
         run \notin {"planning", "waiting_input"} =>
            /\ run' \notin {"planning", "waiting_input"}
            /\ run' = "waiting_plan" => run = "waiting_plan" /\ request' = request /\ artifacts \subseteq artifacts'
  PROVE  Editing'
  BY DEF Editing, Fresh

\* ... and is refused once the plan has another version.
LEMMA EditingOvertaken ==
  ASSUME TypeOK, Editing, NEW e \in Editors, editor' = [editor EXCEPT ![e] = Idle] \/ editor' = editor,
         plan'.version = plan.version + 1
  PROVE  Editing'
<1> SUFFICES ASSUME NEW f \in Editors, editor'[f].at # "idle"
             PROVE  editor'[f].version <= plan.version /\ editor'[f].version \in Nat
  <2>1. plan.version \in Nat
    BY DEF TypeOK, Plan
  <2> QED BY <2>1 DEF Editing
<1>1. editor'[f] = editor[f] /\ editor[f].at # "idle"
  BY DEF TypeOK, Idle
<1>2. editor[f] \in Edits
  BY <1>1 DEF TypeOK, Idle
<1> QED BY <1>1, <1>2 DEF Editing, Edits

LEMMA CancelEditing ==
  ASSUME TypeOK, Editing, CancelTree, editor' = editor
  PROVE  Editing'
<1>1. plan'.version = plan.version /\ plan'.content = plan.content
  BY DEF CancelTree, TypeOK, Plan
<1> QED BY <1>1, EditingStays DEF CancelTree

LEMMA EditingKept == TypeOK /\ Told /\ Editing /\ [Next]_vars => Editing'
<1> SUFFICES ASSUME TypeOK, Told, Editing, [Next]_vars PROVE Editing'
  OBVIOUS
<1>0. plan \in Plan /\ request \in Request
  BY DEF TypeOK
<1>1. CASE UNCHANGED vars \/ DeadlinePasses \/ RequestOverdue \/ Reread \/ Approve \/ ReadPlan
  BY <1>1, EditingStays DEF vars, stored, DeadlinePasses, RequestOverdue, Reread, Approve, ReadPlan, Handlers
<1>2. CASE CreateSkeleton \/ PlanReady \/ PlanningFails
  <2>1. \A e \in Editors : editor'[e] = Idle
    BY <1>2 DEF CreateSkeleton, PlanReady, PlanningFails, Told, Early, Handlers
  <2> QED BY <2>1 DEF Editing, Idle
<1>3. CASE Cancel \/ ExpirePlan \/ CheckRequest \/ StartPlan
  BY <1>3, CancelEditing, EditingStays DEF Cancel, ExpirePlan, CheckRequest, StartPlan, Handlers
<1>4. CASE ExpireRequest
  <2>1. plan'.version = plan.version /\ plan'.content = plan.content
    BY <1>0, <1>4 DEF ExpireRequest, Plan
  <2> QED BY <1>4, <2>1, EditingStays DEF ExpireRequest, Handlers
<1>5. ASSUME NEW m \in Materials, Upload(m) \/ Delete(m) PROVE Editing'
  BY <1>5, EditingStays DEF Upload, Delete, Answerable, Handlers
<1>6. ASSUME NEW c \in Commands, SubmitRead(c) \/ SubmitCommit(c) PROVE Editing'
  BY <1>6, EditingStays DEF SubmitRead, SubmitCommit, Accepted, Answerable, stored
<1>7. ASSUME NEW status, NEW next, Decide(status, next), editor' = editor PROVE Editing'
  <2>1. plan'.version = plan.version + 1
    BY <1>0, <1>7 DEF Decide, Plan
  <2> SUFFICES ASSUME NEW e \in Editors PROVE Editing'
    BY DEF Editing
  <2> QED BY <1>7, <2>1, EditingOvertaken
<1>8. CASE CommitApproval
  BY <1>7, <1>8, CancelEditing, EditingStays DEF CommitApproval
<1>9. CASE Reject
  BY <1>7, <1>9 DEF Reject, Handlers
<1>10. ASSUME NEW e \in Editors, EditReads(e) PROVE Editing'
  <2>1. editor' = [editor EXCEPT ![e] = [at |-> "plan", version |-> plan.version, content |-> plan.content]]
        /\ run = "waiting_plan" /\ UNCHANGED <<run, plan, request, artifacts>>
    BY <1>10 DEF EditReads, stored
  <2>2. plan.version \in Nat
    BY <1>0 DEF Plan
  <2> QED BY <2>1, <2>2 DEF Editing, Fresh, TypeOK
<1>11. ASSUME NEW e \in Editors, EditCompiles(e) PROVE Editing'
  <2>1. PICK needs \in BOOLEAN, given \in {{}, request.given}, s \in {"open", "complete"} :
           /\ s = "complete" => given \subseteq artifacts
           /\ editor' = [editor EXCEPT ![e] =
                [at |-> "request", version |-> editor[e].version, content |-> editor[e].content,
                 needs |-> needs, status |-> s, given |-> given, replaces |-> request.version]]
    BY <1>11 DEF EditCompiles
  <2>2. editor[e].at = "plan" /\ UNCHANGED <<run, plan, request, artifacts>>
    BY <1>11 DEF EditCompiles, stored
  <2>3. ASSUME NEW f \in Editors, f # e PROVE editor'[f] = editor[f]
    BY <2>1, <2>3 DEF TypeOK
  <2>4. editor'[e] = [at |-> "request", version |-> editor[e].version, content |-> editor[e].content,
                      needs |-> needs, status |-> s, given |-> given, replaces |-> request.version]
    BY <2>1 DEF TypeOK
  <2>5. /\ editor[e].version <= plan.version
        /\ editor[e].version = plan.version =>
              run \notin {"planning", "waiting_input"} /\ editor[e].content = plan.content
    BY <2>2 DEF Editing, Fresh
  <2> QED BY <2>1, <2>2, <2>3, <2>4, <2>5 DEF Editing, Fresh
<1>12. ASSUME NEW e \in Editors, EditCommits(e) PROVE Editing'
  <2>1. editor' = [editor EXCEPT ![e] = Idle] /\ artifacts' = artifacts
    BY <1>12 DEF EditCommits
  <2>2. CASE EditMisses(e)
    BY <2>1, <2>2 DEF EditMisses, Editing, Fresh, TypeOK, Idle
  <2>3. CASE EditPlan(e) \/ EditBoth(e)
    <3>1. plan'.version = plan.version + 1
      BY <1>0, <2>3 DEF EditPlan, EditBoth, Edited, Plan
    <3> QED BY <2>1, <3>1, EditingOvertaken
  <2> QED BY <1>12, <2>2, <2>3, EditCases
<1>13. CASE Crash
  BY <1>13 DEF Crash, Editing, Idle
<1> QED BY <1>1, <1>2, <1>3, <1>4, <1>5, <1>6, <1>8, <1>9, <1>10, <1>11, <1>12, <1>13 DEF Next

\* An approval is outrun in the same way.
LEMMA ValidatingStays ==
  ASSUME TypeOK, Validating, loop' = loop \/ loop'.at \notin {"approve", "checking", "committing"},
         plan' = plan \/ plan'.version = plan.version + 1
                \/ (plan'.version = plan.version /\ plan'.content = plan.content)
  PROVE  Validating'
<1>1. plan.version \in Nat
  BY DEF TypeOK, Plan
<1>2. loop.at \in {"approve", "checking", "committing"} => loop.version \in Nat
  BY DEF TypeOK, Handling, Idle
<1> QED BY <1>1, <1>2 DEF Validating

LEMMA PlanSteps ==
  ASSUME TypeOK, NEW s, NEW n
  PROVE  /\ CancelTree \/ ExpireRequest =>
                plan'.version = plan.version /\ plan'.content = plan.content
         /\ Decide(s, n) => plan'.version = plan.version + 1
  BY DEF TypeOK, Plan, CancelTree, ExpireRequest, Decide

LEMMA ValidatingKept == TypeOK /\ Validating /\ [Next]_vars => Validating'
<1> SUFFICES ASSUME TypeOK, Validating, [Next]_vars PROVE Validating'
  OBVIOUS
<1>0. plan \in Plan /\ plan.version \in Nat
  BY DEF TypeOK, Plan
<1>1. CASE UNCHANGED vars \/ DeadlinePasses \/ RequestOverdue
  BY <1>1, ValidatingStays DEF vars, stored, DeadlinePasses, RequestOverdue, Handlers
<1>2. CASE CreateSkeleton \/ PlanReady \/ PlanningFails
  <2>1. loop' = Idle
    BY <1>2 DEF CreateSkeleton, PlanReady, PlanningFails, Free, Handlers
  <2> QED BY <2>1 DEF Idle, Validating
<1>3. CASE Cancel \/ ExpirePlan \/ ExpireRequest \/ StartPlan
  <2>1. loop' = loop \/ loop'.at = "idle"
    BY <1>3 DEF Cancel, ExpirePlan, ExpireRequest, StartPlan, Handlers, Idle
  <2>2. CancelTree \/ ExpireRequest \/ plan' = plan
    BY <1>3 DEF Cancel, ExpirePlan, StartPlan
  <2> QED BY <2>1, <2>2, PlanSteps, ValidatingStays
<1>4. ASSUME NEW m \in Materials, Upload(m) \/ Delete(m) PROVE Validating'
  BY <1>4, ValidatingStays DEF Upload, Delete, Handlers
<1>5. ASSUME NEW c \in Commands, SubmitRead(c) \/ SubmitCommit(c) PROVE Validating'
  <2>1. plan' = plan /\ loop'.at \in {"submit", "reread", "idle"}
    BY <1>5 DEF SubmitRead, SubmitCommit, stored, Idle
  <2> QED BY <2>1, ValidatingStays
<1>6. CASE Reread \/ Approve \/ ReadPlan
  <2>1. CASE Reread \/ Approve
    <3>1. loop'.at = "approve" /\ loop'.version <= plan.version /\ plan' = plan
      BY <1>0, <2>1 DEF Reread, Approve, stored
    <3> QED BY <3>1 DEF Validating
  <2>2. CASE ReadPlan
    <3>1. /\ loop'.at = "checking" /\ loop'.version = loop.version /\ loop'.content = plan.content
          /\ plan' = plan /\ loop.at = "approve"
      BY <2>2 DEF ReadPlan, stored
    <3> QED BY <3>1 DEF Validating
  <2> QED BY <1>6, <2>1, <2>2
<1>7. CASE CheckRequest
  <2>1. CASE loop' = Idle
    BY <1>7, <2>1, PlanSteps, ValidatingStays DEF CheckRequest, Idle
  <2>2. CASE loop' = [loop EXCEPT !.at = "committing"]
    <3>1. loop'.version = loop.version /\ loop'.content = loop.content
      BY <1>7, <2>2 DEF CheckRequest, TypeOK, Handling, Idle
    <3>2. plan' = plan
      BY <1>7, <2>2 DEF CheckRequest, Idle, TypeOK, Handling
    <3>3. loop.at = "checking"
      BY <1>7 DEF CheckRequest
    <3> QED BY <3>1, <3>2, <3>3 DEF Validating
  <2> QED BY <1>7, <2>1, <2>2 DEF CheckRequest
<1>8. CASE CommitApproval
  <2>1. loop'.at \in {"idle", "start"}
    BY <1>8 DEF CommitApproval, Idle
  <2> QED BY <1>8, <2>1, PlanSteps, ValidatingStays DEF CommitApproval
<1>9. CASE Reject
  BY <1>9, PlanSteps, ValidatingStays DEF Reject, Handlers
<1>10. ASSUME NEW e \in Editors, EditReads(e) \/ EditCompiles(e) PROVE Validating'
  BY <1>10, ValidatingStays DEF EditReads, EditCompiles, stored
<1>11. ASSUME NEW e \in Editors, EditCommits(e) PROVE Validating'
  <2>1. plan' = plan \/ plan'.version = plan.version + 1
    BY <1>0, <1>11, EditCases DEF EditMisses, EditPlan, EditBoth, Edited, Plan
  <2> QED BY <1>11, <2>1, ValidatingStays DEF EditCommits
<1>12. CASE Crash
  BY <1>12 DEF Crash, Validating, Idle
<1> QED BY <1>1, <1>2, <1>3, <1>4, <1>5, <1>6, <1>7, <1>8, <1>9, <1>10, <1>11, <1>12 DEF Next

LEMMA NoMismatch == TypeOK /\ Editing /\ ~mismatch /\ [Next]_vars => ~mismatch'
<1> SUFFICES ASSUME TypeOK, Editing, ~mismatch, [Next]_vars, mismatch' # mismatch PROVE FALSE
  OBVIOUS
<1>1. PICK e \in Editors : EditCommits(e)
  BY DEF Next, vars, CreateSkeleton, PlanReady, PlanningFails, Cancel, ExpirePlan, ExpireRequest,
     DeadlinePasses, RequestOverdue, Upload, Delete, SubmitRead, SubmitCommit, Reread, Approve, ReadPlan,
     CheckRequest, CommitApproval, StartPlan, EditReads, EditCompiles, Reject, Crash, Handlers
<1>2. Swappable(editor[e].version) /\ editor[e].replaces # request.version
  BY <1>1, EditCases DEF EditMisses, EditPlan, EditBoth
<1>3. editor[e].at = "request"
  BY <1>1 DEF EditCommits
<1> QED BY <1>2, <1>3 DEF Editing, Fresh, Swappable

-----------------------------------------------------------------------------
(* The theorems.                                                           *)

LEMMA Inductive == IInv /\ [Next]_vars => IInv'
  BY TypeKept, SendingKept, ToldKept, AskedKept, EditingKept, ValidatingKept, SubmitsKept, NoMismatch
     DEF IInv, Told

LEMMA Invariance == Spec => []IInv
  BY InitTyped, Inductive, PTL DEF Spec

\* Run, plan and request agree in every state, however many threads edit and whatever
\* expires, is cancelled or lost between two transactions (transition_skill_plan_and_run,
\* compare_and_swap_skill_plan, _cancel_agent_run_tree_in_transaction).
THEOREM StoriesAgree == Spec => []OneStory
<1>1. IInv => OneStory
  BY DEF IInv
<1> QED BY <1>1, Invariance, PTL

\* A plan that needs input runs only with the complete request that was compiled for it,
\* and the materials the request names are there (update_skill_input_request,
\* compare_and_swap_skill_plan).
THEOREM RunsAsAnswered == Spec => []InputsFrozen
<1>1. IInv => InputsFrozen
  BY DEF IInv, OneStory, Asked, InputsFrozen
<1> QED BY <1>1, Invariance, PTL

\* No edit overwrites what it has not read, neither the plan nor its request
\* (compare_and_swap_skill_plan).
THEOREM EditsAreNotLost == Spec => []NoLostUpdate
<1>1. IInv => NoLostUpdate
  BY DEF IInv, Editing, Fresh, NoLostUpdate, Swappable
<1> QED BY <1>1, Invariance, PTL

\* A submission takes effect at most once, however often it is sent
\* (submit_agent_run_inputs, update_skill_input_request).
THEOREM SubmissionsCountOnce == Spec => []SubmittedOnce
<1>1. IInv => SubmittedOnce
  <2> SUFFICES ASSUME IInv, NEW c \in Commands PROVE applied[c] <= 1
    BY DEF SubmittedOnce
  <2>1. applied[c] = 0 \/ applied[c] = 1
    BY DEF IInv, Submits
  <2> QED BY <2>1
<1> QED BY <1>1, Invariance, PTL

\* The plan that becomes approved by a decision is the plan that decision validated: an
\* edit in between changes the version the commit compares (approve_agent_run_plan).
THEOREM ApprovesWhatWasValidated == Spec => ApprovedAsValidated
<1>1. IInv /\ [Next]_vars =>
        (loop.at = "committing" /\ plan'.status = "approved" /\ plan.status # "approved"
            => loop.content = plan.content)
  <2> SUFFICES ASSUME IInv, [Next]_vars, loop.at = "committing", plan'.status = "approved",
                      plan.status # "approved"
               PROVE  loop.content = plan.content
    OBVIOUS
  <2>0. plan \in Plan /\ plan.version \in Nat /\ loop # Idle
    BY DEF IInv, TypeOK, Plan, Idle
  <2>1. plan' # plan
    OBVIOUS
  <2>2. ~CancelTree /\ ~ExpireRequest
    BY <2>0 DEF CancelTree, ExpireRequest, Plan
  <2>3. ~Reject /\ ~Crash
    BY <2>0 DEF Reject, Decide, Crash, Plan
  <2>4. \A e \in Editors : ~EditCommits(e)
    <3> SUFFICES ASSUME NEW e \in Editors, EditCommits(e) PROVE FALSE
      OBVIOUS
    <3> QED BY <2>0, EditCases DEF IInv, EditMisses, EditPlan, EditBoth, Edited, Plan
  <2>5. CommitApproval
    BY <2>0, <2>1, <2>2, <2>3, <2>4 DEF Next, vars, stored, CreateSkeleton, PlanReady, PlanningFails, Free,
       Cancel, ExpirePlan, DeadlinePasses, RequestOverdue, Upload, Delete, SubmitRead, SubmitCommit, Reread,
       Approve, ReadPlan, CheckRequest, StartPlan, EditReads, EditCompiles
  <2>6. plan.version = loop.version
    BY <2>1, <2>2, <2>5 DEF CommitApproval, Swappable
  <2> QED BY <2>6 DEF IInv, Validating
<1> QED BY <1>1, Invariance, PTL DEF Spec, ApprovedAsValidated

-----------------------------------------------------------------------------
(* The promise to the user: ApprovalPromise.                               *)

\* What the approval on the loop is about to start, nobody else ends before.
Starting == loop.at = "start" => run = "running"

LEMMA StartingKept == TypeOK /\ Starting /\ [Next]_vars => Starting'
<1> SUFFICES ASSUME TypeOK, Starting, [Next]_vars, loop'.at = "start" PROVE run' = "running"
  BY DEF Starting
<1>1. CASE loop' = loop
  <2>1. loop.at = "start" /\ run = "running" /\ ~Free
    BY <1>1 DEF Starting, Free, Idle
  <2>2. \A c \in Commands : loop # [at |-> "submit", command |-> c]
    BY <2>1
  <2>3. ~(CreateSkeleton \/ PlanReady \/ PlanningFails \/ Cancel \/ Approve \/ Reread \/ ReadPlan \/ CheckRequest
          \/ CommitApproval)
    BY <2>1 DEF CreateSkeleton, PlanReady, PlanningFails, Cancel, Approve, Reread, ReadPlan, CheckRequest, CommitApproval
  <2>4. ~(ExpirePlan \/ ExpireRequest \/ Reject)
    BY <2>1 DEF ExpirePlan, ExpireRequest, Reject, Swappable
  <2>5. ~(StartPlan \/ Crash)
    BY <1>1, <2>1 DEF StartPlan, Crash, Idle
  <2>6. ASSUME NEW e \in Editors, EditCommits(e) PROVE run' = run
    BY <2>1, <2>6, EditCases DEF EditMisses, EditPlan, EditBoth, Swappable
  <2>7. ASSUME \/ DeadlinePasses \/ RequestOverdue \/ UNCHANGED vars
               \/ \E m \in Materials : Upload(m) \/ Delete(m)
               \/ \E c \in Commands : SubmitRead(c)
               \/ \E e \in Editors : EditReads(e) \/ EditCompiles(e)
        PROVE  run' = run
    BY <2>7 DEF DeadlinePasses, RequestOverdue, vars, stored, Upload, Delete, SubmitRead, EditReads, EditCompiles
  <2>8. \A c \in Commands : ~SubmitCommit(c)
    BY <2>2 DEF SubmitCommit
  <2> QED BY <2>1, <2>3, <2>4, <2>5, <2>6, <2>7, <2>8 DEF Next
<1>2. CASE loop' # loop
  <2>1. loop' # Idle /\ loop'.at # "reread" /\ loop'.at # "approve"
    BY DEF Idle
  <2>2. ~(Reread \/ Approve \/ ReadPlan \/ CheckRequest \/ StartPlan \/ Crash)
    <3>1. ~CheckRequest
      <4>1. loop.at = "checking" => [loop EXCEPT !.at = "committing"].at = "committing"
        BY DEF TypeOK, Handling, Idle
      <4> QED BY <1>2, <2>1, <4>1 DEF CheckRequest
    <3> QED BY <1>2, <2>1, <3>1 DEF Reread, Approve, ReadPlan, StartPlan, Crash
  <2>3. \A c \in Commands : ~SubmitRead(c) /\ ~SubmitCommit(c)
    BY <2>1 DEF SubmitRead, SubmitCommit
  <2>4. CommitApproval
    BY <1>2, <2>2, <2>3 DEF Next, vars, Handlers, CreateSkeleton, PlanReady, PlanningFails, Cancel, ExpirePlan,
       ExpireRequest, DeadlinePasses, RequestOverdue, Upload, Delete, EditReads, EditCompiles, EditCommits, Reject
  <2> QED BY <2>4 DEF CommitApproval, Decide, Idle
<1> QED BY <1>1, <1>2

Consented == plan.status = "approved"
View == <<Stage, Consented, plan.content>>

\* What the user sees of a run, by its status.
LEMMA Stages ==
  ASSUME TypeOK
  PROVE  /\ run = "planning" => Stage = "drafting"
         /\ run = "waiting_input" => Stage = "asking"
         /\ run = "waiting_plan" => Stage = "deciding"
         /\ run = "running" => Stage = "running"
         /\ run = "completed" => Stage = "completed"
         /\ run \in Ended => Stage = "ended"
  BY DEF Stage, Ended

LEMMA StagesAfter ==
  ASSUME TypeOK'
  PROVE  /\ run' = "planning" => Stage' = "drafting"
         /\ run' = "waiting_input" => Stage' = "asking"
         /\ run' = "waiting_plan" => Stage' = "deciding"
         /\ run' = "running" => Stage' = "running"
         /\ run' = "completed" => Stage' = "completed"
         /\ run' \in Ended => Stage' = "ended"
  BY DEF Stage, Ended

LEMMA SameView ==
  ASSUME run' = run, plan'.status = plan.status, plan'.content = plan.content
  PROVE  UNCHANGED View
<1>1. Stage' = Stage
  BY DEF Stage
<1>2. Consented' = Consented
  BY DEF Consented
<1> QED BY <1>1, <1>2 DEF View

\* A run that has not ended ends, and with it the consent.
LEMMA Ending ==
  ASSUME TypeOK, TypeOK', run \notin Ended \cup {"completed"}, run' \in Ended,
         plan'.status # "approved", plan'.content = plan.content
  PROVE  Promise!GiveUp
<1>1. Stage \notin {"completed", "ended"}
  BY Stages DEF TypeOK, Ended
<1>2. Stage' = "ended"
  BY StagesAfter
<1> QED BY <1>1, <1>2 DEF Promise!GiveUp

LEMMA CancelGivesUp ==
  ASSUME TypeOK, TypeOK', OneStory, CancelTree, run \notin Ended \cup {"completed"}
  PROVE  Promise!GiveUp
<1>1. run' = "cancelled" /\ plan'.content = plan.content /\ plan'.status \in {"none", "cancelled"}
  BY DEF CancelTree, TypeOK, Plan
<1> QED BY <1>1, Ending DEF Ended

\* The plan is presented: approved already if it needs no decision, and its run asks
\* or goes on.
LEMMA PresentsOnce ==
  ASSUME TypeOK, TypeOK', Early, PlanReady
  PROVE  Promise!Propose
<1>1. PICK needs \in BOOLEAN, waits \in BOOLEAN, s \in {"open", "complete"} :
         LET next == IF waits THEN "waiting_plan" ELSE "running" IN
         /\ plan' = [plan EXCEPT !.status = IF waits THEN "waiting" ELSE "approved",
                                 !.version = @ + 1, !.needs = needs]
         /\ run' = IF needs /\ s = "open" THEN "waiting_input" ELSE next
  BY DEF PlanReady
<1>2. plan'.status = (IF waits THEN "waiting" ELSE "approved") /\ plan'.content = plan.content
  BY <1>1 DEF TypeOK, Plan
<1>3. Stage = "drafting"
  BY Stages DEF PlanReady
<1>4. CASE waits
  <2>1. plan'.status # "approved" /\ run' \in {"waiting_input", "waiting_plan"}
    BY <1>1, <1>2, <1>4
  <2>2. Stage' \in {"asking", "deciding"}
    BY <2>1, StagesAfter
  <2> QED BY <1>2, <1>3, <2>1, <2>2 DEF Promise!Propose, Promise!Settled
<1>5. CASE ~waits
  <2>1. plan'.status = "approved" /\ run' \in {"waiting_input", "running"}
    BY <1>1, <1>2, <1>5
  <2>2. Stage' \in {"asking", "running"}
    BY <2>1, StagesAfter
  <2> QED BY <1>2, <1>3, <2>1, <2>2 DEF Promise!Propose, Promise!Settled
<1> QED BY <1>4, <1>5

LEMMA AnswerSupplies ==
  ASSUME TypeOK, TypeOK', OneStory, NEW c \in Commands, SubmitCommit(c)
  PROVE  Promise!Supply \/ UNCHANGED View
<1>1. plan' = plan
  BY DEF SubmitCommit
<1>2. CASE Accepted(c) /\ Frozen(c) /\ sent[c].advance
  <2>1. run = "waiting_input" /\ run' = request.next /\ request.next \in {"running", "waiting_plan"}
    BY <1>2 DEF SubmitCommit, Accepted, Answerable, TypeOK, Request
  <2>2. plan.status = IF request.next = "waiting_plan" THEN "waiting" ELSE "approved"
    BY <2>1 DEF OneStory
  <2>3. Stage = "asking"
    BY <2>1, Stages
  <2>4. CASE request.next = "waiting_plan"
    <3>1. Stage' = "deciding" /\ plan.status # "approved"
      BY <2>1, <2>2, <2>4, StagesAfter
    <3> QED BY <1>1, <2>3, <3>1 DEF Promise!Supply, Promise!Settled
  <2>5. CASE request.next = "running"
    <3>1. Stage' = "running" /\ plan.status = "approved"
      BY <2>1, <2>2, <2>5, StagesAfter
    <3> QED BY <1>1, <2>3, <3>1 DEF Promise!Supply, Promise!Settled
  <2> QED BY <2>1, <2>4, <2>5
<1>3. CASE ~(Accepted(c) /\ Frozen(c)) \/ ~sent[c].advance
  <2>1. run' = run
    BY <1>3 DEF SubmitCommit
  <2> QED BY <1>1, <2>1, SameView
<1> QED BY <1>2, <1>3

LEMMA DecisionConsents ==
  ASSUME TypeOK, TypeOK', OneStory, CommitApproval
  PROVE  Promise!Consent \/ Promise!GiveUp \/ UNCHANGED View
<1>1. CASE \E next \in {"completed", "running"} : Decide("approved", next) /\ run = "waiting_plan"
  <2>1. plan'.status = "approved" /\ plan'.content = plan.content /\ run' \in {"running", "completed"}
    BY <1>1 DEF Decide, TypeOK, Plan
  <2>2. Stage = "deciding" /\ Stage' \in {"running", "completed"}
    BY <1>1, <2>1, Stages, StagesAfter
  <2> QED BY <2>1, <2>2 DEF Promise!Consent
<1>2. CASE UNCHANGED <<run, plan, request>>
  BY <1>2, SameView
<1>3. CASE run = "waiting_plan" /\ CancelTree
  BY <1>3, CancelGivesUp DEF Ended
<1> QED BY <1>1, <1>2, <1>3 DEF CommitApproval, Swappable

LEMMA EditRevises ==
  ASSUME TypeOK, TypeOK', OneStory, NEW e \in Editors, EditCommits(e)
  PROVE  Promise!Revise \/ UNCHANGED View
<1>1. CASE EditMisses(e)
  BY <1>1, SameView DEF EditMisses
<1>2. CASE EditPlan(e) \/ EditBoth(e)
  <2>1. /\ run = "waiting_plan" /\ plan.status = "waiting" /\ run' \in {"waiting_plan", "waiting_input"}
        /\ plan' = Edited(editor[e])
    BY <1>2 DEF EditPlan, EditBoth, Swappable
  <2>2. plan'.status = "waiting" /\ plan'.content = plan.content + 1
    BY <2>1 DEF Edited, TypeOK, Plan
  <2>3. Stage = "deciding" /\ Stage' \in {"asking", "deciding"}
    BY <2>1, Stages, StagesAfter
  <2> QED BY <2>1, <2>2, <2>3 DEF Promise!Revise
<1> QED BY <1>1, <1>2, EditCases

\* Every transaction is a step of the promise, or the user sees nothing of it.
LEMMA StepKeepsApproval ==
  ASSUME IInv, Starting, IInv', [Next]_vars
  PROVE  Promise!Next \/ UNCHANGED View
<1>0. TypeOK /\ TypeOK' /\ OneStory /\ Early
  BY DEF IInv
<1>1. CASE \/ UNCHANGED vars \/ DeadlinePasses \/ RequestOverdue \/ Reread \/ Approve \/ ReadPlan
           \/ \E m \in Materials : Upload(m) \/ Delete(m)
           \/ \E c \in Commands : SubmitRead(c)
           \/ \E e \in Editors : EditReads(e) \/ EditCompiles(e)
  <2>1. UNCHANGED <<run, plan>>
    BY <1>1 DEF vars, stored, DeadlinePasses, RequestOverdue, Reread, Approve, ReadPlan, Upload, Delete,
       SubmitRead, EditReads, EditCompiles
  <2> QED BY <2>1, SameView
<1>2. CASE CreateSkeleton
  <2>1. Stage = "drafting" /\ run' = run /\ plan.status = "none" /\ plan'.status = "planning"
        /\ plan'.content = plan.content
    BY <1>0, <1>2, Stages DEF CreateSkeleton, TypeOK, Plan
  <2>2. Stage' = Stage
    BY <2>1 DEF Stage
  <2> QED BY <2>1, <2>2 DEF View, Consented
<1>3. CASE PlanReady
  BY <1>0, <1>3, PresentsOnce DEF Promise!Next
<1>4. CASE PlanningFails
  <2>1. run = "planning" /\ run' = "failed" /\ plan'.content = plan.content /\ plan'.status \in {"none", "failed"}
    BY <1>0, <1>4 DEF PlanningFails, Early, TypeOK, Plan
  <2> QED BY <1>0, <2>1, Ending DEF Promise!Next, Ended
<1>5. CASE Cancel \/ ExpirePlan
  <2>1. CancelTree /\ run \notin Ended \cup {"completed"}
    BY <1>5 DEF Cancel, ExpirePlan, Ended
  <2> QED BY <1>0, <2>1, CancelGivesUp DEF Promise!Next
<1>6. CASE ExpireRequest
  <2>1. run = "waiting_input" /\ run' = "cancelled" /\ plan'.content = plan.content
        /\ plan'.status \in {"none", "cancelled"}
    BY <1>0, <1>6 DEF ExpireRequest, TypeOK, Plan
  <2> QED BY <1>0, <2>1, Ending DEF Promise!Next, Ended
<1>7. CASE \E c \in Commands : SubmitCommit(c)
  BY <1>0, <1>7, AnswerSupplies DEF Promise!Next
<1>8. CASE CheckRequest
  BY <1>0, <1>8, CancelGivesUp, SameView DEF CheckRequest, Promise!Next, Ended
<1>9. CASE CommitApproval
  BY <1>0, <1>9, DecisionConsents DEF Promise!Next
<1>10. CASE StartPlan
  <2>1. run = "running"
    BY <1>10 DEF StartPlan, Starting
  <2> QED BY <1>0, <1>10, <2>1, CancelGivesUp, SameView DEF StartPlan, Promise!Next, Ended
<1>11. CASE \E e \in Editors : EditCommits(e)
  BY <1>0, <1>11, EditRevises DEF Promise!Next
<1>12. CASE Reject
  <2>1. run = "waiting_plan" /\ run' = "rejected" /\ plan'.content = plan.content /\ plan'.status = "rejected"
    BY <1>0, <1>12 DEF Reject, Decide, Swappable, TypeOK, Plan
  <2> QED BY <1>0, <2>1, Ending DEF Promise!Next, Ended
<1>13. CASE Crash
  <2>1. CASE run = "planning"
    <3>1. run' = "failed" /\ plan'.content = plan.content /\ plan'.status \in {"none", "failed"}
      BY <1>0, <1>13, <2>1 DEF Crash, Early, TypeOK, Plan
    <3> QED BY <1>0, <2>1, <3>1, Ending DEF Promise!Next, Ended
  <2>2. CASE run # "planning"
    BY <1>13, <2>2, SameView DEF Crash
  <2> QED BY <2>1, <2>2
<1> QED BY <1>1, <1>2, <1>3, <1>4, <1>5, <1>6, <1>7, <1>8, <1>9, <1>10, <1>11, <1>12, <1>13 DEF Next

\* The handling of a plan implements ApprovalPromise, for any number of editors,
\* submissions and files: it is decided once and as it stands, runs only with consent
\* and inputs, and no edit, answer or approval that comes late, from whatever thread,
\* brings a running or ended plan back to its user (transition_skill_plan_and_run,
\* compare_and_swap_skill_plan, update_skill_input_request).
THEOREM ApprovalIsKept == Spec => KeepsApproval
<1>1. Init => IInv /\ Starting /\ Promise!Init
  <2> SUFFICES ASSUME Init PROVE IInv /\ Starting /\ Promise!Init
    OBVIOUS
  <2>1. IInv
    BY InitTyped
  <2>2. Starting
    BY DEF Init, Starting, Idle
  <2>3. Stage = "drafting"
    BY <2>1, Stages DEF Init, IInv
  <2>4. (plan.status = "approved") = FALSE
    BY DEF Init
  <2>5. plan.content = 0
    BY DEF Init
  <2> QED BY <2>1, <2>2, <2>3, <2>4, <2>5 DEF Promise!Init
<1>2. IInv /\ Starting /\ [Next]_vars => IInv' /\ Starting'
  BY Inductive, StartingKept DEF IInv
<1>3. IInv /\ Starting /\ IInv' /\ [Next]_vars => [Promise!Next]_View
  BY StepKeepsApproval
<1> QED BY <1>1, <1>2, <1>3, PTL DEF Spec, KeepsApproval, Promise!Spec, View, Consented

=============================================================================
