-------------------------- MODULE TaskMemoryProofs --------------------------
(***************************************************************************)
(* For any tasks, runs, requests and memories: dependencies stay acyclic,  *)
(* reviewers can answer, one revision of an item is in force.              *)
(*                                                                         *)
(* A command is valid if, whatever committed since it was read, its        *)
(* transaction writes only what it may: either the version of its task has *)
(* moved on, and it will be refused, or the task is as it was read.        *)
(***************************************************************************)
EXTENDS MemoryGovernance, FiniteSetTheorems, TLAPS

Management == [stage : Stages, blocked : BOOLEAN, archived : BOOLEAN, version : Nat, deps : SUBSET Tasks]
Review == [task : Tasks, run : Runs, round : Nat, version : Nat,
           status : {"pending", "accepted", "changes_requested"}]
Origins == SUBSET Review
Item == [status : {"none", "active", "proposed", "archived"} \cup Revisable, scope : {"private", "candidate", "team"},
         version : Nat, from : {"none"} \cup Revisable, origin : Origins,
         source : Nat, frozen : Nat, verdict : {"none", "pending", "accepted", "rejected", "cancelled"}]

\* A task that was not created yet has no history.
TaskOK ==
    /\ task \in [Tasks -> Management]
    /\ \A t \in Tasks : ~Exists(t) => task[t].version = 0 /\ task[t].deps = {}

RunOK ==
    /\ run \in [Runs -> [task : Tasks \cup {NoTask}, status : {"none", "active", "delivered", "failed"}]]
    /\ reviews \subseteq Review /\ IsFiniteSet(reviews)

\* A saved task is written only over the version it was made from, whose dependencies
\* it keeps unless the graph is checked, and it is done only if it was or has no runs.
Prepared(c) ==
    /\ c.task \in Tasks /\ Exists(c.task)
    /\ c.next \in Management /\ c.next.stage # "none"
    /\ c.next.version <= task[c.task].version + 1
    /\ c.next.version = task[c.task].version + 1 =>
           /\ "graph" \in c.needs \/ c.next.deps = task[c.task].deps
           /\ c.next.stage = "done" => "unlinked" \in c.needs \/ task[c.task].stage = "done"

Valid(c) ==
    /\ c.op = "create" => c.task \in Tasks /\ c.deps \in SUBSET Tasks
    /\ c.op = "save" => Prepared(c)
    /\ c.op = "submit" => c.review \in Review /\ c.review.status = "pending"
    /\ c.op = "decide" => c.status \in {"accepted", "changes_requested"}
    /\ c.op \in {"revise", "judge", "move"} => c.memory \in Memories
    /\ c.op = "move" => c.action \in LifecycleActions

RequestOK ==
    /\ DOMAIN request = Requests
    /\ \A q \in Requests : request[q] # Idle => Valid(request[q])

Typed == TaskOK /\ RunOK /\ RequestOK

-----------------------------------------------------------------------------
(* The commands the services let through are valid.                        *)

LEMMA SavesValid ==
    ASSUME TaskOK, NEW t \in Tasks, NEW changes, NEW needs, NEW c \in Saves(t, changes, needs),
           \A m \in changes : /\ m \in Management /\ m.stage # "none" /\ m.version = task[t].version
                              /\ "graph" \in needs \/ m.deps = task[t].deps
                              /\ m.stage = "done" => "unlinked" \in needs \/ task[t].stage = "done"
    PROVE  Valid(c)
<1>1. Exists(t)
  BY DEF Saves
<1>2. PICK m \in changes : c = [op |-> "save", task |-> t, next |-> [m EXCEPT !.version = @ + 1], needs |-> needs]
  BY DEF Saves
<1>3. m \in Management /\ m.stage # "none" /\ m.version = task[t].version /\ task[t].version \in Nat
  BY <1>2 DEF TaskOK, Management
<1>4. /\ [m EXCEPT !.version = @ + 1] \in Management
      /\ [m EXCEPT !.version = @ + 1].stage = m.stage
      /\ [m EXCEPT !.version = @ + 1].version = task[t].version + 1
      /\ [m EXCEPT !.version = @ + 1].deps = m.deps
  BY <1>3 DEF Management
<1>5. c.op = "save" /\ c.task = t /\ c.needs = needs /\ c.next = [m EXCEPT !.version = @ + 1]
  BY <1>2
<1>6. /\ "graph" \in c.needs \/ c.next.deps = task[t].deps
      /\ c.next.stage = "done" => "unlinked" \in c.needs \/ task[t].stage = "done"
  BY <1>2, <1>4, <1>5
<1>7. c.next \in Management /\ c.next.stage # "none" /\ c.next.version = task[t].version + 1
  BY <1>3, <1>4, <1>5
<1> QED BY <1>1, <1>3, <1>5, <1>6, <1>7 DEF Valid, Prepared

LEMMA MovedKeeps ==
    ASSUME NEW m \in Management, m.stage # "none", NEW a, NEW n \in Moved(m, a)
    PROVE  /\ n \in Management /\ n.stage # "none" /\ n.version = m.version /\ n.deps = m.deps
           /\ n.stage = "done" => a = "complete" \/ m.stage = "done"
<1>1. CASE a = "block"
  BY <1>1 DEF Moved, Management
<1>2. CASE a = "unblock"
  BY <1>2 DEF Moved, Management
<1>3. CASE a # "block" /\ a # "unblock"
  <2>1. PICK s \in Stages : <<m.stage, a, s>> \in Moves /\ n = [m EXCEPT !.stage = s, !.blocked = @ /\ s \notin Ended]
    BY <1>3 DEF Moved
  <2>2. s # "none" /\ (s = "done" => a = "complete")
    BY <2>1 DEF Moves
  <2> QED BY <2>1, <2>2 DEF Management
<1> QED BY <1>1, <1>2, <1>3

LEMMA TransitionsValid ==
    ASSUME TaskOK, NEW t \in Tasks, NEW c \in Transitions(t)
    PROVE  Valid(c)
<1>1. PICK a : c \in Saves(t, Moved(task[t], a), TransitionNeeds(task[t], a))
  BY DEF Transitions
<1>2. task[t] \in Management /\ task[t].stage # "none"
  BY <1>1 DEF TaskOK, Saves, Exists
<1>3. a = "complete" => "unlinked" \in TransitionNeeds(task[t], a)
  BY DEF TransitionNeeds
<1> QED BY <1>1, <1>2, <1>3, MovedKeeps, SavesValid

LEMMA UpdatesValid ==
    ASSUME TaskOK, NEW t \in Tasks, NEW c \in Updates(t) \cup Archivings(t)
    PROVE  Valid(c)
<1>1. task[t] \in Management /\ (Exists(t) => task[t].stage # "none")
  BY DEF TaskOK, Exists
<1>2. Exists(t)
  BY DEF Updates, Archivings, Saves
<1>3. CASE c \in Saves(t, {task[t]}, {})
  BY <1>1, <1>2, <1>3, SavesValid
<1>4. CASE c \in Saves(t, {[task[t] EXCEPT !.deps = D] : D \in SUBSET (Tasks \ {t})}, {"idle", "graph"})
  BY <1>1, <1>2, <1>4, SavesValid DEF Management
<1>5. CASE c \in Archivings(t)
  <2>1. \A m \in {[task[t] EXCEPT !.archived = TRUE] : x \in {task[t].stage} \cap Ended} :
            m \in Management /\ m.stage # "none" /\ m.version = task[t].version /\ m.deps = task[t].deps
            /\ task[t].stage \in Ended /\ m.stage = task[t].stage
    BY <1>1, <1>2 DEF Management
  <2> QED BY <1>5, <2>1, SavesValid DEF Archivings
<1> QED BY <1>3, <1>4, <1>5 DEF Updates

(* What Submissions offers is a pending review of an existing task.        *)
LEMMA SubmissionsValid ==
    ASSUME Typed, NEW c \in Submissions
    PROVE  Valid(c)
<1>1. PICK r \in Runs :
        /\ run[r].task # NoTask
        /\ c = [op |-> "submit",
                review |-> [task |-> run[r].task, run |-> r, round |-> NextRound(run[r].task),
                            version |-> task[run[r].task].version + 1, status |-> "pending"]]
  BY DEF Submissions
<1>2. run[r].task \in Tasks
  BY <1>1 DEF Typed, RunOK
<1>3. task[run[r].task].version + 1 \in Nat
  BY <1>2 DEF Typed, TaskOK, Management
<1>4. NextRound(run[r].task) \in Nat
  BY FS_Subset, FS_CardinalityType DEF NextRound, Typed, RunOK
<1>5. [task |-> run[r].task, run |-> r, round |-> NextRound(run[r].task),
       version |-> task[run[r].task].version + 1, status |-> "pending"] \in Review
  BY <1>2, <1>3, <1>4 DEF Review
<1> QED BY <1>1, <1>5 DEF Valid

LEMMA CommandsValid ==
    ASSUME Typed, NEW c \in TaskCommands \cup MemoryCommands
    PROVE  Valid(c)
<1>1. CASE c \in Creations
  BY <1>1 DEF Creations, Valid
<1>2. CASE c \in Submissions
  BY <1>2, SubmissionsValid
<1>3. CASE c \in Decisions
  BY <1>3 DEF Decisions, Valid
<1>4. ASSUME NEW t \in Tasks, c \in Transitions(t) \cup Updates(t) \cup Archivings(t)
      PROVE  Valid(c)
  BY <1>4, TransitionsValid, UpdatesValid DEF Typed
<1>5. CASE c \in Captures
  BY <1>5 DEF Captures, Valid
<1>6. CASE c \in Revisions
  BY <1>6 DEF Revisions, Valid
<1>7. CASE c \in Judgements
  BY <1>7 DEF Judgements, Valid
<1>8. CASE c \in Shifts
  BY <1>8 DEF Shifts, Valid
<1> QED BY <1>1, <1>2, <1>3, <1>4, <1>5, <1>6, <1>7, <1>8 DEF TaskCommands, MemoryCommands

-----------------------------------------------------------------------------
(* Typed is inductive: a task only ever moves to its next version.         *)

Grows ==
    \A t \in Tasks :
        \/ task'[t] = task[t]
        \/ task'[t].version = task[t].version + 1 /\ task'[t].stage # "none"

LEMMA ReviewStages ==
    ASSUME NEW m \in Management, NEW n \in Nat, NEW s \in {"done", "in_progress"}
    PROVE  /\ Submitted(m, n) \in Management /\ Submitted(m, n).stage = "review"
           /\ Submitted(m, n).version = n /\ Submitted(m, n).deps = m.deps
           /\ Decided(m, s) \in Management /\ Decided(m, s).stage = s
           /\ Decided(m, s).version = m.version + 1 /\ Decided(m, s).deps = m.deps
<1>1. m.version + 1 \in Nat
  BY DEF Management
<1> QED BY <1>1 DEF Submitted, Decided, Management, Stages

LEMMA PerformGrows ==
    ASSUME Typed, NEW c, Valid(c), Perform(c)
    PROVE  TaskOK' /\ Grows
<1>1. ASSUME NEW t \in Tasks, NEW n \in Management, task' = [task EXCEPT ![t] = n],
             n.stage # "none", n.version = task[t].version + 1
      PROVE  TaskOK' /\ Grows
  <2>1. task' \in [Tasks -> Management] /\ task'[t] = n
    BY <1>1 DEF Typed, TaskOK
  <2>2. \A s \in Tasks \ {t} : task'[s] = task[s]
    BY <1>1 DEF Typed, TaskOK
  <2>3. Grows
    <3>1. ASSUME NEW s \in Tasks
          PROVE  task'[s] = task[s] \/ (task'[s].version = task[s].version + 1 /\ task'[s].stage # "none")
      <4>1. CASE s = t
        BY <4>1, <1>1, <2>1
      <4>2. CASE s # t
        BY <4>2, <2>2
      <4> QED BY <4>1, <4>2
    <3> QED BY <3>1 DEF Grows
  <2>4. \A s \in Tasks : task'[s].stage = "none" => task'[s].version = 0 /\ task'[s].deps = {}
    BY <1>1, <2>1, <2>2 DEF Typed, TaskOK, Exists
  <2> QED BY <2>1, <2>3, <2>4 DEF TaskOK, Exists
<1>2. \A t \in Tasks : task[t] \in Management /\ task[t].version \in Nat
  BY DEF Typed, TaskOK, Management
<1>3. CASE Create(c)
  <2>1. /\ c.task \in Tasks /\ task[c.task].version = 0
        /\ task' = [task EXCEPT ![c.task] = Created(c.deps)]
    BY <1>3 DEF Create, Valid, Typed, TaskOK
  <2>2. Created(c.deps) \in Management /\ Created(c.deps).stage # "none" /\ Created(c.deps).version = 0 + 1
    BY <1>3 DEF Create, Valid, Created, Management, Stages
  <2>3. Created(c.deps).version = task[c.task].version + 1
    BY <2>1, <2>2
  <2> QED BY <2>1, <2>2, <2>3, <1>1
<1>4. CASE Save(c)
  <2>1. /\ c.task \in Tasks /\ c.next \in Management /\ c.next.stage # "none"
        /\ task[c.task].version = c.next.version - 1
        /\ task' = [task EXCEPT ![c.task] = c.next]
    BY <1>4 DEF Save, Valid, Prepared
  <2>2. c.next.version = task[c.task].version + 1
    BY <2>1 DEF Management
  <2> QED BY <2>1, <2>2, <1>1
<1>5. CASE Submit(c)
  <2>1. PICK t \in Tasks, n \in Nat :
            task[t].version = n - 1 /\ task' = [task EXCEPT ![t] = Submitted(task[t], n)]
    BY <1>5 DEF Submit, Valid, Review
  <2>2. n = task[t].version + 1
    BY <1>2, <2>1
  <2> QED BY <1>1, <1>2, <2>1, <2>2, ReviewStages
<1>6. CASE Decide(c)
  <2>1. PICK t \in Tasks, s \in {"done", "in_progress"} : task' = [task EXCEPT ![t] = Decided(task[t], s)]
    <3>1. c.review.task \in Tasks
      BY <1>6 DEF Decide, Decidable, Typed, RunOK, Review
    <3> QED BY <3>1, <1>6 DEF Decide
  <2> QED BY <1>1, <1>2, <2>1, ReviewStages
<1> QED BY <1>3, <1>4, <1>5, <1>6 DEF Perform

LEMMA ValidKept ==
    ASSUME Typed, TaskOK', Grows, NEW c, Valid(c)
    PROVE  Valid(c)'
<1>1. CASE c.op = "save"
  <2>1. Prepared(c) /\ c.task \in Tasks
    BY <1>1 DEF Valid, Prepared
  <2>2. task[c.task].version \in Nat /\ task'[c.task].version \in Nat /\ c.next.version \in Nat
    BY <2>1 DEF Typed, TaskOK, Management, Prepared
  <2>3. CASE task'[c.task] = task[c.task]
    BY <2>1, <2>3, <1>1 DEF Valid, Prepared, Exists
  <2>4. CASE task'[c.task].version = task[c.task].version + 1 /\ task'[c.task].stage # "none"
    BY <2>1, <2>2, <2>4, <1>1 DEF Valid, Prepared, Exists
  <2> QED BY <2>1, <2>3, <2>4 DEF Grows
<1>2. CASE c.op # "save"
  BY <1>2 DEF Valid
<1> QED BY <1>1, <1>2

(* Reviews and runs stay typed through a task command.                     *)
LEMMA PerformReviews ==
    ASSUME Typed, NEW c, Valid(c), Perform(c)
    PROVE  RunOK'
<1>1. CASE Create(c) \/ Save(c)
  BY <1>1 DEF Create, Save, Typed, RunOK
<1>2. CASE Submit(c)
  <2>1. reviews' = reviews \cup {c.review} /\ c.review \in Review /\ run' = run
    BY <1>2 DEF Submit, Valid
  <2> QED BY <2>1, FS_AddElement DEF Typed, RunOK
<1>3. CASE Decide(c)
  <2>1. /\ reviews' = (reviews \ {c.review}) \cup {[c.review EXCEPT !.status = c.status]}
        /\ c.review \in Review /\ c.status \in {"accepted", "changes_requested"} /\ run' = run
    BY <1>3 DEF Decide, Decidable, Valid, Typed, RunOK
  <2>2. [c.review EXCEPT !.status = c.status] \in Review
    BY <2>1 DEF Review
  <2>3. IsFiniteSet(reviews')
    BY <2>1, FS_AddElement, FS_RemoveElement DEF Typed, RunOK
  <2> QED BY <2>1, <2>2, <2>3 DEF Typed, RunOK
<1> QED BY <1>1, <1>2, <1>3 DEF Perform

(* A request stays valid while others commit.                              *)
LEMMA RequestsKept ==
    ASSUME Typed, TaskOK', Grows, DOMAIN request' = Requests,
           \A q \in Requests : request'[q] \in {Idle, request[q]} \/ Valid(request'[q])
    PROVE  RequestOK'
<1>1. \A c : Valid(c) => Valid(c)'
  BY ValidKept
<1>2. \A q \in Requests : request'[q] # Idle => Valid(request'[q])
  BY DEF Typed, RequestOK
<1> QED BY <1>1, <1>2 DEF RequestOK, Valid, Prepared, Exists

(* A command that commits was valid.                                       *)
LEMMA CommitValid ==
    ASSUME Typed, NEW q \in Requests, Answers(q)
    PROVE  /\ Valid(request[q]) /\ DOMAIN request' = Requests
           /\ \A p \in Requests : request'[p] \in {Idle, request[p]}
BY DEF Answers, Typed, RequestOK

LEMMA TypedStep ==
    ASSUME Typed, [Next]_vars
    PROVE  Typed' /\ Grows
<1>1. ASSUME NEW c, Valid(c), Perform(c), DOMAIN request' = Requests,
             \A q \in Requests : request'[q] \in {Idle, request[q]}
      PROVE  Typed' /\ Grows
  BY <1>1, PerformGrows, PerformReviews, RequestsKept DEF Typed
<1>2. ASSUME UNCHANGED task, RunOK', DOMAIN request' = Requests,
             \A q \in Requests : request'[q] \in {Idle, request[q]} \/ Valid(request'[q])
      PROVE  Typed' /\ Grows
  <2>1. TaskOK' /\ Grows
    BY <1>2 DEF Typed, TaskOK, Grows, Exists
  <2> QED BY <1>2, <2>1, RequestsKept DEF Typed
<1>3. ASSUME UNCHANGED <<run, reviews>>
      PROVE  RunOK'
  BY <1>3 DEF Typed, RunOK
<1>4. DOMAIN request = Requests
  BY DEF Typed, RequestOK
<1>5. ASSUME NEW q \in Requests, Read(q, TaskCommands) \/ Read(q, MemoryCommands)
      PROVE  Typed' /\ Grows
  <2>1. PICK c \in TaskCommands \cup MemoryCommands : request' = [request EXCEPT ![q] = c]
    BY <1>5 DEF Read
  <2>2. Valid(c)
    BY CommandsValid
  <2>3. /\ DOMAIN request' = Requests
        /\ \A p \in Requests : request'[p] \in {Idle, request[p]} \/ Valid(request'[p])
    BY <2>1, <2>2, <1>4
  <2> QED BY <1>2, <1>3, <1>5, <2>3 DEF Read, delivery
<1>6. ASSUME NEW q \in Requests, Answers(q), Perform(request[q]) \/ UNCHANGED delivery
      PROVE  Typed' /\ Grows
  BY <1>1, <1>2, <1>3, <1>6, CommitValid DEF delivery
<1>7. ASSUME UNCHANGED <<delivery, request>>
      PROVE  Typed' /\ Grows
  BY <1>2, <1>3, <1>4, <1>7 DEF delivery
<1>8. CASE \E c \in TaskCommands : Perform(c) /\ UNCHANGED request
  BY <1>1, <1>4, <1>8, CommandsValid
<1>9. ASSUME NEW r \in Runs, CreateRun(r) \/ RunEnds(r)
      PROVE  Typed' /\ Grows
  <2>1. RunOK'
    <3>1. PICK t \in Tasks \cup {NoTask}, s \in {"active", "delivered", "failed"} :
              run' = [run EXCEPT ![r] = [task |-> t, status |-> s]]
      <4>1. CASE CreateRun(r)
        BY <4>1 DEF CreateRun
      <4>2. CASE RunEnds(r)
        <5>1. run[r] \in [task : Tasks \cup {NoTask}, status : {"none", "active", "delivered", "failed"}]
          BY DEF Typed, RunOK
        <5>2. PICK s \in {"delivered", "failed"} : run' = [run EXCEPT ![r].status = s]
          BY <4>2 DEF RunEnds
        <5>3. [run[r] EXCEPT !.status = s] = [task |-> run[r].task, status |-> s]
          BY <5>1
        <5>4. run' = [run EXCEPT ![r] = [run[r] EXCEPT !.status = s]]
          BY <5>2
        <5> QED BY <5>1, <5>3, <5>4
      <4> QED BY <1>9, <4>1, <4>2
    <3>2. [task |-> t, status |-> s]
              \in [task : Tasks \cup {NoTask}, status : {"none", "active", "delivered", "failed"}]
      OBVIOUS
    <3>3. UNCHANGED reviews
      BY <1>9 DEF CreateRun, RunEnds
    <3> QED BY <3>1, <3>2, <3>3 DEF Typed, RunOK
  <2> QED BY <1>2, <1>4, <1>9, <2>1 DEF CreateRun, RunEnds
<1>10. CASE NextDelivery
  BY <1>10, <1>5, <1>6, <1>8, <1>9 DEF NextDelivery, Commit, Dismiss, Prompt
<1>11. ASSUME NEW q \in Requests, ReadMemory(q) \/ CommitMemory(q)
       PROVE  Typed' /\ Grows
  BY <1>5, <1>6, <1>11 DEF ReadMemory, CommitMemory, PerformMemory
<1>12. CASE PromptMemory
  BY <1>7, <1>12 DEF PromptMemory, PerformMemory
<1>13. CASE \/ \E r \in Runs, i \in Memories : Reserve(r, i)
            \/ \E c \in cites : Use(c)
            \/ UNCHANGED vars
  BY <1>7, <1>13 DEF Reserve, Use, vars
<1> QED BY <1>10, <1>11, <1>12, <1>13 DEF Next

LEMMA InitTyped == Init => Typed
<1> SUFFICES ASSUME Init PROVE Typed
  OBVIOUS
<1>1. InitDelivery
  BY DEF Init
<1>2. TaskOK
  <2>1. ASSUME NEW t \in Tasks
        PROVE  /\ task[t] \in Management
               /\ ~Exists(t) => task[t].version = 0 /\ task[t].deps = {}
    <3>1. task[t] = Reviewed \/ task[t] = Uncreated
      BY <1>1 DEF InitDelivery
    <3>2. CASE task[t] = Reviewed
      BY <3>2 DEF Reviewed, Management, Stages, Exists
    <3>3. CASE task[t] = Uncreated
      BY <3>3 DEF Uncreated, Management, Stages, Exists
    <3> QED BY <3>1, <3>2, <3>3
  <2> QED BY <1>1, <2>1 DEF InitDelivery, TaskOK
<1>3. RunOK
  <2> DEFINE first == [d \in Delivered |-> [task |-> d.task, run |-> d.run, round |-> 1, version |-> 4,
                                            status |-> "accepted"]]
  <2>1. \A d \in Delivered : d.task \in Tasks /\ d.run \in Runs
    BY Accepted
  <2>2. reviews = {first[d] : d \in Delivered} /\ DOMAIN first = Delivered
    BY <1>1 DEF InitDelivery
  <2>3. first \in Surjection(Delivered, reviews)
    BY <2>2 DEF Surjection
  <2>4. IsFiniteSet(reviews)
    BY <2>3, FS_Surjection, Accepted
  <2>5. reviews \subseteq Review
    BY <2>1, <2>2 DEF Review
  <2>6. run \in [Runs -> [task : Tasks \cup {NoTask}, status : {"none", "active", "delivered", "failed"}]]
    <3>1. ASSUME NEW r \in Runs
          PROVE  run[r] \in [task : Tasks \cup {NoTask}, status : {"none", "active", "delivered", "failed"}]
      <4>1. CASE \E d \in Delivered : d.run = r
        <5>1. (CHOOSE d \in Delivered : d.run = r) \in Delivered
          BY <4>1
        <5>2. run[r] = [task |-> (CHOOSE d \in Delivered : d.run = r).task, status |-> "delivered"]
          BY <1>1, <4>1 DEF InitDelivery
        <5> QED BY <2>1, <5>1, <5>2
      <4>2. CASE ~ \E d \in Delivered : d.run = r
        BY <1>1, <4>2 DEF InitDelivery, Unused
      <4> QED BY <4>1, <4>2
    <3> QED BY <1>1, <3>1 DEF InitDelivery
  <2> QED BY <2>4, <2>5, <2>6 DEF RunOK
<1>4. RequestOK
  BY <1>1 DEF InitDelivery, RequestOK
<1> QED BY <1>2, <1>3, <1>4 DEF Typed

-----------------------------------------------------------------------------
(* The graph of the dependencies.                                          *)

LEMMA SavedGraph ==
    ASSUME TaskOK, GraphAcyclic, NEW t \in Tasks, NEW n, task' = [task EXCEPT ![t] = n],
           n.deps = task[t].deps \/ Related(t, n.deps)
    PROVE  GraphAcyclic'
<1>1. [x \in Tasks |-> task'[x].deps] = [x \in Tasks |-> IF x = t THEN n.deps ELSE task[x].deps]
  BY DEF TaskOK
<1>2. n.deps = task[t].deps =>
          [x \in Tasks |-> IF x = t THEN n.deps ELSE task[x].deps] = [x \in Tasks |-> task[x].deps]
  OBVIOUS
<1> QED BY <1>1, <1>2 DEF GraphAcyclic, Related, Acyclic

LEMMA PerformGraph ==
    ASSUME Typed, GraphAcyclic, NEW c, Valid(c), Perform(c)
    PROVE  GraphAcyclic'
<1> USE DEF Typed
<1>1. CASE Create(c)
  <2>1. /\ c.task \in Tasks /\ task[c.task].deps = {} /\ Created(c.deps).deps = c.deps
        /\ task' = [task EXCEPT ![c.task] = Created(c.deps)]
        /\ c.deps = {} \/ Related(c.task, c.deps)
    BY <1>1 DEF Create, Valid, TaskOK, Created
  <2> QED BY <2>1, SavedGraph
<1>2. CASE Save(c)
  <2>1. /\ c.task \in Tasks /\ c.next \in Management /\ task' = [task EXCEPT ![c.task] = c.next]
        /\ task[c.task].version = c.next.version - 1
        /\ c.next.version = task[c.task].version + 1 =>
               "graph" \in c.needs \/ c.next.deps = task[c.task].deps
        /\ "graph" \in c.needs => Related(c.task, c.next.deps)
    BY <1>2 DEF Save, Valid, Prepared, Met
  <2>2. c.next.version = task[c.task].version + 1
    BY <2>1 DEF Management
  <2> QED BY <2>1, <2>2, SavedGraph
<1>3. CASE Submit(c)
  <2>1. PICK t \in Tasks, n \in Nat : task' = [task EXCEPT ![t] = Submitted(task[t], n)]
    BY <1>3 DEF Submit, Valid, Review
  <2> QED BY <2>1, ReviewStages, SavedGraph DEF TaskOK
<1>4. CASE Decide(c)
  <2>1. c.review.task \in Tasks
    BY <1>4 DEF Decide, Decidable, RunOK, Review
  <2>2. PICK s \in {"done", "in_progress"} : task' = [task EXCEPT ![c.review.task] = Decided(task[c.review.task], s)]
    BY <1>4 DEF Decide
  <2> QED BY <2>1, <2>2, ReviewStages, SavedGraph DEF TaskOK
<1> QED BY <1>1, <1>2, <1>3, <1>4 DEF Perform

(* What a step is to tasks, reviews and memories.                          *)
Ends ==
    \A r \in Runs :
        /\ run[r].status = "delivered" => run'[r] = run[r]
        /\ run'[r].task \in Tasks /\ run'[r].task # run[r].task => task[run'[r].task].stage = "in_progress"

LEMMA StepKinds ==
    ASSUME Typed, [Next]_vars
    PROVE  \/ (\E c : Valid(c) /\ Perform(c)) /\ UNCHANGED memory
           \/ (\E c : Valid(c) /\ PerformMemory(c))
           \/ UNCHANGED <<task, reviews, memory>> /\ Ends
<1>1. ASSUME NEW q \in Requests, Commit(q) \/ CommitMemory(q), UNCHANGED memory \/ CommitMemory(q)
      PROVE  (\E c : Valid(c) /\ Perform(c) /\ UNCHANGED memory) \/ \E c : Valid(c) /\ PerformMemory(c)
  <2>1. Valid(request[q])
    BY <1>1, CommitValid DEF Commit, CommitMemory
  <2> QED BY <1>1, <2>1 DEF Commit, CommitMemory
<1>2. CASE (Prompt /\ UNCHANGED memory) \/ PromptMemory
  BY <1>2, CommandsValid DEF Prompt, PromptMemory
<1>3. ASSUME NEW r \in Runs, CreateRun(r) \/ RunEnds(r)
      PROVE  Ends /\ UNCHANGED <<task, reviews>>
  <2>1. run \in [Runs -> [task : Tasks \cup {NoTask}, status : {"none", "active", "delivered", "failed"}]]
    BY DEF Typed, RunOK
  <2>2. CASE CreateRun(r)
    <3>1. PICK t \in Tasks \cup {NoTask} :
              /\ t # NoTask => task[t].stage = "in_progress"
              /\ run' = [run EXCEPT ![r] = [task |-> t, status |-> "active"]]
      BY <2>2 DEF CreateRun, RunAllowed
    <3> QED BY <2>1, <2>2, <3>1, Absent DEF CreateRun, Ends
  <2>3. CASE RunEnds(r)
    <3>1. PICK s \in {"delivered", "failed"} : run' = [run EXCEPT ![r].status = s]
      BY <2>3 DEF RunEnds
    <3>2. \A p \in Runs : run'[p].task = run[p].task /\ (p # r => run'[p] = run[p])
      BY <2>1, <3>1
    <3> QED BY <2>3, <3>2 DEF RunEnds, Ends
  <2> QED BY <1>3, <2>2, <2>3
<1>4. ASSUME NEW q \in Requests,
             Read(q, TaskCommands) \/ Read(q, MemoryCommands) \/ Dismiss(q)
      PROVE  UNCHANGED <<task, reviews>> /\ Ends
  BY <1>4 DEF Read, Dismiss, delivery, Ends
<1>5. CASE NextDelivery /\ UNCHANGED <<memory, cites>>
  BY <1>1, <1>2, <1>3, <1>4, <1>5 DEF NextDelivery
<1>6. ASSUME NEW q \in Requests, ReadMemory(q) \/ CommitMemory(q)
      PROVE  (\E c : Valid(c) /\ PerformMemory(c)) \/ (UNCHANGED <<task, reviews, memory>> /\ Ends)
  <2>1. CASE ReadMemory(q)
    BY <1>4, <2>1 DEF ReadMemory
  <2>2. CASE CommitMemory(q)
    BY <2>2, CommitValid DEF CommitMemory
  <2> QED BY <1>6, <2>1, <2>2
<1>7. CASE \/ \E r \in Runs, i \in Memories : Reserve(r, i)
           \/ \E c \in cites : Use(c)
           \/ UNCHANGED vars
  BY <1>7 DEF Reserve, Use, vars, delivery, Ends
<1> QED BY <1>2, <1>5, <1>6, <1>7 DEF Next

LEMMA TypedAlways == Spec => []Typed
<1>1. Typed /\ [Next]_vars => Typed'
  BY TypedStep
<1> QED BY <1>1, InitTyped, PTL DEF Spec

\* Dependencies stay acyclic: the change of one task is checked against what the others
\* have become in the transaction that writes it, and a task that is not checked keeps
\* the dependencies it has, for any number of tasks and of concurrent requests
\* (_validate_task_relationships_in_transaction).
THEOREM DependenciesAcyclic == Spec => []GraphAcyclic
<1>1. Init => GraphAcyclic
  <2> SUFFICES ASSUME Init PROVE GraphAcyclic
    OBVIOUS
  <2>1. \A t \in Tasks : task[t].deps = {}
    BY DEF Init, InitDelivery, Reviewed, Uncreated
  <2> QED BY <2>1 DEF GraphAcyclic, Acyclic
<1>2. Typed /\ GraphAcyclic /\ [Next]_vars => GraphAcyclic'
  <2> SUFFICES ASSUME Typed, GraphAcyclic, [Next]_vars PROVE GraphAcyclic'
    OBVIOUS
  <2>1. CASE UNCHANGED task
    BY <2>1 DEF GraphAcyclic, Acyclic
  <2> QED BY <2>1, StepKinds, PerformGraph DEF PerformMemory, delivery
<1> QED BY <1>1, <1>2, TypedAlways, PTL DEF Spec

-----------------------------------------------------------------------------
(* Reviews: who was asked can answer.                                      *)

OnePending ==
    \A v, w \in reviews : v.status = "pending" /\ w.status = "pending" /\ v.task = w.task => v = w
ReviewsOpen == \A v \in reviews : v.status = "pending" => Decidable(v)
Reviews == OnePending /\ ReviewsOpen

(* A delivery that was accepted stays so, and its run stays as it ended.   *)
LEMMA AcceptedKept ==
    ASSUME Typed, [Next]_vars
    PROVE  /\ Ends
           /\ \A v \in reviews : Reviewable(v) => Reviewable(v)'
           /\ \A v \in reviews : v.status = "accepted" => v \in reviews'
<1>1. ASSUME NEW c, Perform(c)
      PROVE  Ends /\ \A v \in reviews : v.status = "accepted" => v \in reviews'
  BY <1>1 DEF Perform, Create, Save, Submit, Decide, Decidable, Ends
<1>2. Ends /\ \A v \in reviews : v.status = "accepted" => v \in reviews'
  BY <1>1, StepKinds DEF PerformMemory, delivery, Ends
<1>3. \A v \in reviews : Reviewable(v) => Reviewable(v)'
  BY <1>2 DEF Ends, Reviewable, Typed, RunOK, Review
<1> QED BY <1>2, <1>3

LEMMA PerformReviewing ==
    ASSUME Typed, Reviews, NEW c, Valid(c), Perform(c)
    PROVE  Reviews'
<1> USE DEF Typed
<1>1. run' = run
  BY DEF Perform, Create, Save, Submit, Decide
<1>2. ASSUME NEW t \in Tasks, \A s \in Tasks \ {t} : task'[s] = task[s], reviews' = reviews, PendingOf(t) = {}
      PROVE  Reviews'
  BY <1>1, <1>2 DEF Reviews, OnePending, ReviewsOpen, Decidable, Reviewable, PendingOf, RunOK, Review
<1>3. CASE Create(c)
  <2>1. c.task \in Tasks /\ ~Exists(c.task) /\ \A s \in Tasks \ {c.task} : task'[s] = task[s]
    BY <1>3 DEF Create, Valid, TaskOK
  <2>2. PendingOf(c.task) = {}
    BY <2>1 DEF Reviews, ReviewsOpen, Decidable, PendingOf, Exists
  <2> QED BY <1>2, <1>3, <2>1, <2>2 DEF Create
<1>4. CASE Save(c)
  <2>1. /\ c.task \in Tasks /\ PendingOf(c.task) = {} /\ reviews' = reviews
        /\ \A s \in Tasks \ {c.task} : task'[s] = task[s]
    BY <1>4 DEF Save, Valid, Prepared, Authorized, TaskOK
  <2> QED BY <1>2, <2>1
<1>5. CASE Submit(c)
  <2>1. PICK v \in Review : /\ v.status = "pending" /\ Authorized(v.task) /\ Reviewable(v)
                            /\ task' = [task EXCEPT ![v.task] = Submitted(task[v.task], v.version)]
                            /\ reviews' = reviews \cup {v}
    BY <1>5 DEF Submit, Valid
  <2>2. v.task \in Tasks /\ v.version \in Nat /\ task[v.task] \in Management
    BY <2>1 DEF Review, TaskOK
  <2>3. /\ task'[v.task].version = v.version /\ task'[v.task].stage = "review"
        /\ ~task'[v.task].archived
        /\ \A s \in Tasks \ {v.task} : task'[s] = task[s]
    BY <2>1, <2>2 DEF Submitted, TaskOK, Authorized, Management
  <2>4. \A w \in reviews : w.status = "pending" => w.task \in Tasks \ {v.task}
    BY <2>1 DEF Authorized, PendingOf, RunOK, Review
  <2>5. OnePending'
    BY <2>1, <2>4 DEF Reviews, OnePending
  <2>6. ReviewsOpen'
    <3>1. Decidable(v)'
      BY <1>1, <2>1, <2>3 DEF Decidable, Reviewable
    <3>2. ASSUME NEW w \in reviews, w.status = "pending"
          PROVE  Decidable(w)'
      BY <1>1, <2>1, <2>3, <2>4, <3>2 DEF Reviews, ReviewsOpen, Decidable, Reviewable
    <3> QED BY <2>1, <3>1, <3>2 DEF ReviewsOpen
  <2> QED BY <2>5, <2>6 DEF Reviews
<1>6. CASE Decide(c)
  <2>1. PICK v \in reviews : /\ v.status = "pending"
                             /\ reviews' = (reviews \ {v}) \cup {[v EXCEPT !.status = c.status]}
                             /\ \A s \in Tasks \ {v.task} : task'[s] = task[s]
    BY <1>6 DEF Decide, Decidable, TaskOK
  <2>2. [v EXCEPT !.status = c.status].status # "pending"
    BY <1>6, <2>1 DEF Decide, Valid, RunOK, Review
  <2>3. \A w \in reviews' : w.status = "pending" => w \in reviews /\ w.task \in Tasks \ {v.task}
    BY <2>1, <2>2 DEF Reviews, OnePending, RunOK, Review
  <2>4. OnePending'
    BY <2>3 DEF Reviews, OnePending
  <2>5. ReviewsOpen'
    BY <1>1, <2>1, <2>3 DEF Reviews, ReviewsOpen, Decidable, Reviewable
  <2> QED BY <2>4, <2>5 DEF Reviews
<1> QED BY <1>3, <1>4, <1>5, <1>6 DEF Perform

LEMMA ReviewsAlways == Spec => []Reviews
<1>1. Init => Reviews
  BY DEF Init, InitDelivery, Reviews, OnePending, ReviewsOpen
<1>2. Typed /\ Reviews /\ [Next]_vars => Reviews'
  <2> SUFFICES ASSUME Typed, Reviews, [Next]_vars PROVE Reviews'
    OBVIOUS
  <2>1. CASE UNCHANGED <<task, reviews>>
    BY <2>1, AcceptedKept DEF Reviews, OnePending, ReviewsOpen, Decidable
  <2> QED BY <2>1, StepKinds, PerformReviewing DEF PerformMemory, delivery
<1> QED BY <1>1, <1>2, TypedAlways, PTL DEF Spec

-----------------------------------------------------------------------------
(* Memories.  An item is in force only after its review, whose acceptance  *)
(* retired the item it revises; no command brings a retired item back.     *)

Retired(m) == m.status = "deprecated" \/ (m.status = "archived" /\ m.from = "deprecated")

\* What holds of an item by itself.
ItemOK(m) ==
    /\ m \in Item
    /\ m.status = "accepted" \/ m.from = "accepted" => m.verdict = "accepted"
    /\ m.scope = "team" <=> m.verdict = "accepted"
    /\ m.status = "proposed" => m.verdict = "pending" /\ m.scope = "candidate" /\ m.version = 1
    /\ m.verdict = "pending" => m.status = "proposed"

\* What holds of it beside the reviews and the other items.
Sourced(i) ==
    /\ memory[i].scope # "private" => Provenance(memory[i].origin)
    /\ memory[i].source # 0 =>
           /\ memory[i].source \in Memories /\ memory[memory[i].source].scope = "team"
           /\ memory[i].verdict = "accepted" => Retired(memory[memory[i].source])

SiblingsApart ==
    \A i, j \in Memories : Current(i) /\ Current(j) /\ memory[i].source = memory[j].source =>
                               i = j \/ memory[i].source = 0

MemoryOK ==
    /\ DOMAIN memory = Memories
    /\ \A i \in Memories : ItemOK(memory[i]) /\ Sourced(i)
    /\ SiblingsApart

LEMMA ShiftedItem ==
    ASSUME NEW m, ItemOK(m), NEW a \in LifecycleActions, NEW n \in Transitioned(m, a)
    PROVE  /\ ItemOK(n) /\ n.scope = m.scope /\ n.source = m.source /\ n.origin = m.origin
           /\ n.verdict = "accepted" => m.verdict = "accepted"
           /\ Retired(m) => Retired(n)
           /\ n.status = "accepted" => a = "restore" /\ m.from = "accepted"
           /\ m.scope # "private"
<1> DEFINE After(s) == [m EXCEPT !.status = s, !.version = @ + 1]
<1>1. m \in Item /\ m.version + 1 \in Nat /\ m.scope # "private"
  BY DEF ItemOK, Item, Transitioned
<1>3. CASE a = "dispute"
  <2>1. n = After("disputed") /\ m.status = "accepted"
    BY <1>3 DEF Transitioned
  <2> QED BY <1>1, <1>3, <2>1 DEF ItemOK, Item, Revisable, Retired
<1>4. CASE a = "deprecate"
  <2>1. n = After("deprecated") /\ m.status \in {"accepted", "disputed"}
    BY <1>4 DEF Transitioned
  <2> QED BY <1>1, <1>4, <2>1 DEF ItemOK, Item, Revisable, Retired
<1>5. CASE a = "expire"
  <2>1. /\ n = [After("expired") EXCEPT !.verdict = IF m.verdict = "pending" THEN "cancelled" ELSE m.verdict]
        /\ m.status \in {"proposed", "accepted", "disputed"}
    BY <1>5 DEF Transitioned
  <2> QED BY <1>1, <1>5, <2>1 DEF ItemOK, Item, Revisable, Retired
<1>6. CASE a = "archive"
  <2>1. n = [After("archived") EXCEPT !.from = m.status] /\ m.status \in Revisable
    BY <1>6 DEF Transitioned
  <2> QED BY <1>1, <1>6, <2>1 DEF ItemOK, Item, Revisable, Retired
<1>7. CASE a \notin {"dispute", "deprecate", "expire", "archive"}
  <2>1. n = [After(m.from) EXCEPT !.from = "none"] /\ m.status = "archived" /\ a = "restore"
    BY <1>7 DEF Transitioned, LifecycleActions
  <2> QED BY <1>1, <2>1 DEF ItemOK, Item, Revisable, Retired
<1> QED BY <1>3, <1>4, <1>5, <1>6, <1>7

(* What an item comes from holds on while the others only ever go forward. *)
Steady == \A v \in reviews : v.status = "accepted" /\ Reviewable(v) => v \in reviews' /\ Reviewable(v)'

Forward ==
    \A k \in Memories : memory[k].scope = "team" =>
        memory'[k].scope = "team" /\ (Retired(memory[k]) => Retired(memory'[k]))

LEMMA SourcedKept ==
    ASSUME MemoryOK, Steady, Forward, NEW j \in Memories,
           memory'[j].source = memory[j].source, memory'[j].origin = memory[j].origin,
           memory'[j].scope # "private" => memory[j].scope # "private",
           memory'[j].verdict = "accepted" /\ memory[j].source # 0 =>
               memory[j].verdict = "accepted" \/ Retired(memory'[memory[j].source])
    PROVE  Sourced(j)'
<1>1. Sourced(j)
  BY DEF MemoryOK
<1>2. memory'[j].scope # "private" => \A v \in memory'[j].origin : v \in reviews' /\ v.status = "accepted" /\ Reviewable(v)'
  BY <1>1 DEF Sourced, Provenance, Steady
<1>3. memory'[j].source # 0 =>
          /\ memory'[j].source \in Memories /\ memory'[memory'[j].source].scope = "team"
          /\ memory'[j].verdict = "accepted" => Retired(memory'[memory'[j].source])
  BY <1>1 DEF Sourced, Forward
<1> QED BY <1>2, <1>3 DEF Sourced, Provenance, Retired, Reviewable, Memories

(* The change of one item that is not accepted by it, to another status.   *)
LEMMA ItemChanged ==
    ASSUME MemoryOK, Steady, NEW i \in Memories, NEW n, memory' = [memory EXCEPT ![i] = n],
           ItemOK(n), n.scope = memory[i].scope, n.source = memory[i].source, n.origin = memory[i].origin,
           n.verdict = "accepted" => memory[i].verdict = "accepted",
           Retired(memory[i]) => Retired(n),
           n.status = "accepted" =>
               \/ n.source = 0
               \/ \A j \in Successors(n.source) \ {i} : ~Current(j)
    PROVE  MemoryOK'
<1>1. /\ DOMAIN memory' = Memories /\ memory'[i] = n
      /\ \A j \in Memories \ {i} : memory'[j] = memory[j]
  BY DEF MemoryOK
<1>2. \A j \in Memories : ItemOK(memory'[j])
  BY <1>1 DEF MemoryOK
<1>3. Forward
  BY <1>1 DEF Forward
<1>4. \A j \in Memories : Sourced(j)'
  <2>1. ASSUME NEW j \in Memories
        PROVE  /\ memory'[j].source = memory[j].source /\ memory'[j].origin = memory[j].origin
               /\ memory'[j].scope = memory[j].scope
               /\ memory'[j].verdict = "accepted" => memory[j].verdict = "accepted"
    <3>1. CASE j = i
      BY <1>1, <3>1
    <3>2. CASE j # i
      BY <1>1, <3>2
    <3> QED BY <3>1, <3>2
  <2> QED BY <1>3, <2>1, SourcedKept
<1>5. SiblingsApart'
  <2>1. ASSUME NEW j \in Memories, j # i, Current(j)', n.status = "accepted", n.scope = "team",
               memory'[j].source = n.source, n.source # 0
        PROVE  FALSE
    <3>1. Current(j) /\ memory[j].source = n.source /\ memory[j].status # "none"
      BY <1>1, <2>1 DEF Current
    <3> QED BY <2>1, <3>1 DEF Successors
  <2>2. \A j \in Memories \ {i} : Current(j)' => Current(j)
    BY <1>1 DEF Current
  <2>3. Current(i)' => n.status = "accepted" /\ n.scope = "team"
    BY <1>1 DEF Current
  <2>4. ASSUME NEW j \in Memories, NEW k \in Memories, Current(j)', Current(k)',
               memory'[j].source = memory'[k].source, j # k, memory'[j].source # 0
        PROVE  FALSE
    <3>1. CASE j = i
      BY <1>1, <2>1, <2>3, <2>4, <3>1
    <3>2. CASE k = i
      BY <1>1, <2>1, <2>3, <2>4, <3>2
    <3>3. CASE j # i /\ k # i
      BY <1>1, <2>2, <2>4, <3>3 DEF MemoryOK, SiblingsApart
    <3> QED BY <3>1, <3>2, <3>3
  <2> QED BY <2>4 DEF SiblingsApart, Memories
<1> QED BY <1>1, <1>2, <1>4, <1>5 DEF MemoryOK, ItemOK, Memories

LEMMA MoveKept ==
    ASSUME MemoryOK, Steady, NEW c, Valid(c), Move(c)
    PROVE  MemoryOK'
<1>1. /\ c.memory \in Memories /\ c.action \in LifecycleActions /\ Restorable(c.memory, c.action)
  BY DEF Move, Valid
<1>2. PICK n \in Transitioned(memory[c.memory], c.action) : memory' = [memory EXCEPT ![c.memory] = n]
  BY DEF Move
<1>3. ItemOK(memory[c.memory])
  BY <1>1 DEF MemoryOK
<1> DEFINE m == memory[c.memory]
<1>4. /\ ItemOK(n) /\ n.scope = m.scope /\ n.source = m.source /\ n.origin = m.origin
      /\ n.verdict = "accepted" => m.verdict = "accepted"
      /\ Retired(m) => Retired(n)
      /\ n.status = "accepted" => c.action = "restore" /\ m.from = "accepted"
  BY <1>1, <1>2, <1>3, ShiftedItem
<1>5. n.status = "accepted" => n.source = 0 \/ \A j \in Successors(n.source) \ {c.memory} : ~Current(j)
  BY <1>1, <1>4 DEF Restorable
<1> QED BY <1>1, <1>2, <1>4, <1>5, ItemChanged

LEMMA JudgedItem ==
    ASSUME NEW m, ItemOK(m), m.status = "proposed"
    PROVE  /\ ItemOK(Reject(m)) /\ Reject(m).status = "disputed" /\ Reject(m).scope = m.scope
           /\ Reject(m).source = m.source /\ Reject(m).origin = m.origin /\ Reject(m).verdict = "rejected"
           /\ ItemOK(Accept(m)) /\ Accept(m).status = "accepted" /\ Accept(m).scope = "team"
           /\ Accept(m).source = m.source /\ Accept(m).origin = m.origin /\ Accept(m).verdict = "accepted"
           /\ ~Retired(m) /\ m.scope = "candidate" /\ m.verdict = "pending"
<1>1. m \in Item /\ m.version = 1 /\ m.scope = "candidate" /\ m.verdict = "pending" /\ m.from # "accepted"
  BY DEF ItemOK
<1>2. m \in Item /\ Reject(m) = [m EXCEPT !.status = "disputed", !.version = m.version + 1, !.verdict = "rejected"]
  BY <1>1 DEF Reject
<1>3. /\ m \in Item
      /\ Accept(m) = [m EXCEPT !.status = "accepted", !.scope = "team", !.version = m.version + 1,
                               !.verdict = "accepted"]
  BY <1>1 DEF Accept
<1>4. Reject(m) \in Item /\ Reject(m).from = m.from /\ Reject(m).status = "disputed"
      /\ Reject(m).scope = m.scope /\ Reject(m).source = m.source /\ Reject(m).origin = m.origin
      /\ Reject(m).verdict = "rejected"
  BY <1>2, m.version + 1 \in Nat DEF Item, Revisable
<1>5. Accept(m) \in Item /\ Accept(m).status = "accepted" /\ Accept(m).scope = "team"
      /\ Accept(m).source = m.source /\ Accept(m).origin = m.origin /\ Accept(m).verdict = "accepted"
  BY <1>3, m.version + 1 \in Nat DEF Item, Revisable
<1> QED BY <1>1, <1>4, <1>5 DEF ItemOK, Retired

LEMMA RejectKept ==
    ASSUME MemoryOK, Steady, NEW c, Valid(c), Judge(c), ~c.accept
    PROVE  MemoryOK'
<1>1. c.memory \in Memories /\ memory' = [memory EXCEPT ![c.memory] = Reject(memory[c.memory])]
      /\ memory[c.memory].status = "proposed"
  BY DEF Judge, Judgeable, Valid
<1>2. ItemOK(memory[c.memory])
  BY <1>1 DEF MemoryOK
<1> DEFINE m == memory[c.memory]
<1>3. /\ ItemOK(Reject(m)) /\ Reject(m).status = "disputed" /\ Reject(m).scope = m.scope
      /\ Reject(m).source = m.source /\ Reject(m).origin = m.origin /\ Reject(m).verdict = "rejected"
      /\ ~Retired(m)
  BY <1>1, <1>2, JudgedItem
<1> QED BY <1>1, <1>3, ItemChanged

LEMMA SupersededItem ==
    ASSUME NEW m, ItemOK(m), m.scope = "team"
    PROVE  /\ ItemOK(Supersede(m)) /\ Supersede(m).status = "deprecated" /\ Supersede(m).scope = "team"
           /\ Supersede(m).source = m.source /\ Supersede(m).origin = m.origin /\ Supersede(m).verdict = m.verdict
           /\ Retired(Supersede(m))
<1>1. m \in Item /\ m.verdict = "accepted" /\ m.version + 1 \in Nat
  BY DEF ItemOK, Item
<1>2. Supersede(m) = [m EXCEPT !.status = "deprecated", !.version = m.version + 1]
  BY DEF Supersede
<1>3. /\ Supersede(m) \in Item /\ Supersede(m).status = "deprecated" /\ Supersede(m).scope = "team"
      /\ Supersede(m).source = m.source /\ Supersede(m).origin = m.origin /\ Supersede(m).verdict = m.verdict
  BY <1>1, <1>2 DEF Item, Revisable
<1> QED BY <1>1, <1>3 DEF ItemOK, Retired

LEMMA AcceptKept ==
    ASSUME MemoryOK, Steady, NEW c, Valid(c), Judge(c), c.accept
    PROVE  MemoryOK'
<1> DEFINE i == c.memory
           m == memory[i]
<1>1. /\ i \in Memories /\ m.status = "proposed"
      /\ m.source # 0 => memory[m.source].scope = "team"
      /\ m.source # 0 => \A j \in Successors(m.source) \ {i} : ~Current(j)
      /\ memory' = [j \in Memories |-> IF j = i THEN Accept(m)
                                       ELSE IF j = m.source THEN Supersede(memory[j]) ELSE memory[j]]
  BY DEF Judge, Judgeable, Valid
<1>2. ItemOK(m) /\ Sourced(i)
  BY <1>1 DEF MemoryOK
<1>3. /\ ItemOK(Accept(m)) /\ Accept(m).status = "accepted" /\ Accept(m).scope = "team"
      /\ Accept(m).source = m.source /\ Accept(m).origin = m.origin /\ Accept(m).verdict = "accepted"
      /\ ~Retired(m) /\ m.scope = "candidate"
  BY <1>1, <1>2, JudgedItem
<1>4. m.source # 0 => m.source \in Memories /\ m.source # i
  BY <1>1, <1>2, <1>3 DEF Sourced
<1>5. \A j \in Memories : j = m.source => memory[j].scope = "team"
  BY <1>1 DEF Memories
<1>6. ASSUME NEW j \in Memories, j = m.source, j # i
      PROVE  /\ ItemOK(memory'[j]) /\ memory'[j].status = "deprecated" /\ memory'[j].scope = "team"
             /\ memory'[j].source = memory[j].source /\ memory'[j].origin = memory[j].origin
             /\ memory'[j].verdict = memory[j].verdict /\ Retired(memory'[j])
  <2>1. memory'[j] = Supersede(memory[j]) /\ ItemOK(memory[j])
    BY <1>1, <1>6 DEF MemoryOK
  <2> QED BY <1>5, <1>6, <2>1, SupersededItem
<1>7. \A j \in Memories : j # m.source /\ j # i => memory'[j] = memory[j]
  BY <1>1
<1>8. memory'[i] = Accept(m)
  BY <1>1
<1> HIDE DEF i, m
<1>9. \A j \in Memories : ItemOK(memory'[j])
  BY <1>3, <1>6, <1>7, <1>8 DEF MemoryOK
<1>10. Forward
  BY <1>3, <1>6, <1>7, <1>8 DEF Forward, m
<1>11. ASSUME NEW j \in Memories
       PROVE  /\ memory'[j].source = memory[j].source /\ memory'[j].origin = memory[j].origin
              /\ memory'[j].scope # "private" => memory[j].scope # "private"
              /\ j # i => memory'[j].verdict = memory[j].verdict
              /\ j # i /\ memory'[j].status = "accepted" => memory'[j] = memory[j]
  <2>1. CASE j = i
    BY <1>3, <1>8, <2>1 DEF m
  <2>2. CASE j # i /\ j = m.source
    BY <1>5, <1>6, <2>2
  <2>3. CASE j # i /\ j # m.source
    BY <1>7, <2>3
  <2> QED BY <2>1, <2>2, <2>3
<1>12. \A j \in Memories : Sourced(j)'
  <2>1. ASSUME NEW j \in Memories, j = i, memory[j].source # 0
        PROVE  Retired(memory'[memory[j].source])
    BY <1>4, <1>6, <2>1 DEF m
  <2> QED BY <1>10, <1>11, <2>1, SourcedKept
<1>13. SiblingsApart'
  <2>1. \A j \in Memories : j # i /\ Current(j)' => Current(j) /\ memory'[j] = memory[j]
    BY <1>11 DEF Current
  <2>2. ASSUME NEW j \in Memories, j # i, Current(j)', memory'[j].source = m.source, m.source # 0
        PROVE  FALSE
    <3>1. Current(j) /\ memory[j].source = m.source /\ memory[j].status # "none"
      BY <2>1, <2>2 DEF Current
    <3>2. j \in Successors(m.source) \ {i}
      BY <2>2, <3>1 DEF Successors
    <3> QED BY <1>1, <2>2, <3>1, <3>2 DEF m, i
  <2>3. ASSUME NEW j \in Memories, NEW k \in Memories, Current(j)', Current(k)',
               memory'[j].source = memory'[k].source, j # k, memory'[j].source # 0
        PROVE  FALSE
    <3>1. CASE j = i
      BY <1>3, <1>8, <2>2, <2>3, <3>1
    <3>2. CASE k = i
      BY <1>3, <1>8, <2>2, <2>3, <3>2
    <3>3. CASE j # i /\ k # i
      BY <2>1, <2>3, <3>3 DEF MemoryOK, SiblingsApart
    <3> QED BY <3>1, <3>2, <3>3
  <2> QED BY <2>3 DEF SiblingsApart, Memories
<1>14. DOMAIN memory' = Memories
  BY <1>1
<1> QED BY <1>9, <1>12, <1>13, <1>14 DEF MemoryOK, ItemOK, Memories

LEMMA BlankItem ==
    /\ Blank \in Item /\ ItemOK(Blank)
    /\ Blank.scope = "private" /\ Blank.source = 0 /\ Blank.from = "none" /\ Blank.verdict = "none"
<1>1. {} \in Origins
  BY DEF Origins
<1> QED BY <1>1 DEF Blank, ItemOK, Item, Revisable

LEMMA PersonalItem ==
    ASSUME NEW v \in Review
    PROVE  ItemOK(Personal(v)) /\ Personal(v).scope = "private" /\ Personal(v).source = 0
<1>1. PICK m : m = Blank
  OBVIOUS
<1>2. PICK p : p = [m EXCEPT !.status = "active", !.version = 1, !.origin = {v}]
  OBVIOUS
<1>3. /\ {v} \in Origins
      /\ m \in Item /\ m.scope = "private" /\ m.source = 0 /\ m.from = "none" /\ m.verdict = "none"
  BY <1>1, BlankItem DEF Origins
<1>4. /\ p \in Item /\ p.status = "active" /\ p.scope = "private" /\ p.source = 0
      /\ p.from = "none" /\ p.verdict = "none"
  BY <1>2, <1>3 DEF Item, Revisable
<1> QED BY <1>1, <1>2, <1>4 DEF Personal, ItemOK

LEMMA CandidateItem ==
    ASSUME NEW o \in Origins, NEW k \in Nat, NEW f \in Nat, NEW n, n = Candidate(o, k, f)
    PROVE  /\ ItemOK(n) /\ n.scope = "candidate" /\ n.source = k /\ n.origin = o
           /\ n.verdict = "pending" /\ n.status = "proposed"
<1>1. PICK m : m = Blank
  OBVIOUS
<1>2. n = [m EXCEPT !.status = "proposed", !.scope = "candidate", !.version = 1, !.origin = o,
                    !.source = k, !.frozen = f, !.verdict = "pending"]
  BY <1>1 DEF Candidate
<1>3. m \in Item /\ m.from = "none"
  BY <1>1, BlankItem
<1>4. /\ n.status = "proposed" /\ n.scope = "candidate" /\ n.source = k /\ n.origin = o
      /\ n.from = "none" /\ n.verdict = "pending" /\ n.version = 1
  BY <1>2, <1>3 DEF Item
<1>5. PICK p : p = [m EXCEPT !.status = "proposed", !.scope = "candidate", !.version = 1, !.verdict = "pending"]
  OBVIOUS
<1>6. p \in Item
  BY <1>3, <1>5 DEF Item, Revisable
<1>7. n = [p EXCEPT !.origin = o, !.source = k, !.frozen = f]
  BY <1>2, <1>5
<1>8. n \in Item
  BY <1>6, <1>7 DEF Item
<1> QED BY <1>4, <1>8 DEF ItemOK

LEMMA AddedKept ==
    ASSUME MemoryOK, Steady, NEW n, Adds(n), ItemOK(n),
           n.scope = "private" => n.source = 0,
           n.scope # "private" => n.scope = "candidate" /\ n.verdict = "pending" /\ Provenance(n.origin),
           n.source # 0 => n.source \in Memories /\ memory[n.source].scope = "team"
    PROVE  MemoryOK'
<1>1. PICK i \in Memories : memory[i] = Blank /\ memory' = [memory EXCEPT ![i] = n]
  BY DEF Adds
<1>2. /\ DOMAIN memory' = Memories /\ memory'[i] = n
      /\ \A j \in Memories \ {i} : memory'[j] = memory[j]
  BY <1>1 DEF MemoryOK
<1>3. memory[i].scope = "private" /\ n.scope # "team"
  BY <1>1 DEF Blank
<1>4. Forward
  BY <1>2, <1>3 DEF Forward
<1>5. \A j \in Memories : ItemOK(memory'[j])
  BY <1>2 DEF MemoryOK
<1>6. ASSUME NEW j \in Memories
      PROVE  Sourced(j)'
  <2>1. CASE j = i
    <3>1. memory'[j].scope # "private" =>
              \A v \in memory'[j].origin : v \in reviews' /\ v.status = "accepted" /\ Reviewable(v)'
      BY <1>2, <2>1 DEF Provenance, Steady
    <3>2. memory'[j].source # 0 =>
              /\ memory'[j].source \in Memories /\ memory'[memory'[j].source].scope = "team"
              /\ memory'[j].verdict # "accepted"
      BY <1>2, <1>4, <2>1 DEF Forward
    <3> QED BY <3>1, <3>2 DEF Sourced, Provenance, Reviewable, Memories
  <2>2. CASE j # i
    BY <1>2, <1>4, <2>2, SourcedKept
  <2> QED BY <2>1, <2>2
<1>7. SiblingsApart'
  <2>1. \A j \in Memories : Current(j)' => Current(j) /\ memory'[j] = memory[j]
    BY <1>2, <1>3 DEF Current
  <2> QED BY <2>1 DEF MemoryOK, SiblingsApart, Memories, Current
<1> QED BY <1>2, <1>5, <1>6, <1>7 DEF MemoryOK, ItemOK, Memories

LEMMA PerformMemoryKept ==
    ASSUME Typed, MemoryOK, NEW c, Valid(c), PerformMemory(c)
    PROVE  MemoryOK'
<1>1. Steady
  BY DEF Steady, PerformMemory, delivery, Reviewable
<1>2. CASE Capture(c)
  <2>1. /\ c.review \in Review /\ Provenance({c.review})
        /\ Adds(IF c.personal THEN Personal(c.review) ELSE Candidate({c.review}, 0, 0))
    BY <1>2 DEF Capture, Provenance, Typed, RunOK
  <2>2. Adds(Personal(c.review)) \/ Adds(Candidate({c.review}, 0, 0))
    BY <2>1
  <2>3. CASE Adds(Personal(c.review))
    BY <1>1, <2>1, <2>3, PersonalItem, AddedKept
  <2>4. CASE Adds(Candidate({c.review}, 0, 0))
    <3>1. {c.review} \in Origins /\ 0 \in Nat
      BY <2>1 DEF Origins
    <3>2. PICK n : n = Candidate({c.review}, 0, 0)
      OBVIOUS
    <3>3. /\ ItemOK(n) /\ n.scope = "candidate" /\ n.source = 0 /\ n.origin = {c.review}
          /\ n.verdict = "pending"
      BY <3>1, <3>2, CandidateItem
    <3> QED BY <1>1, <2>1, <2>4, <3>2, <3>3, AddedKept
  <2> QED BY <2>2, <2>3, <2>4
<1>3. CASE Revise(c)
  <2>1. /\ c.memory \in Memories /\ memory[c.memory].scope = "team" /\ Provenance(memory[c.memory].origin)
        /\ Adds(Candidate(memory[c.memory].origin, c.memory, memory[c.memory].version))
    BY <1>3 DEF Revise, Valid
  <2>2. c.memory \in Nat /\ memory[c.memory].origin \in Origins /\ memory[c.memory].version \in Nat
    BY <2>1, MemoryBound DEF MemoryOK, ItemOK, Item, Memories
  <2>3. PICK n : n = Candidate(memory[c.memory].origin, c.memory, memory[c.memory].version)
    OBVIOUS
  <2>4. /\ ItemOK(n) /\ n.scope = "candidate" /\ n.source = c.memory
        /\ n.origin = memory[c.memory].origin /\ n.verdict = "pending"
    BY <2>2, <2>3, CandidateItem
  <2> QED BY <1>1, <2>1, <2>3, <2>4, AddedKept
<1> QED BY <1>1, <1>2, <1>3, MoveKept, RejectKept, AcceptKept DEF PerformMemory

LEMMA MemoryNext ==
    ASSUME Typed, MemoryOK, [Next]_vars
    PROVE  MemoryOK'
<1>1. CASE UNCHANGED memory
  <2>1. Steady
    BY AcceptedKept DEF Steady
  <2>2. Forward
    BY <1>1 DEF Forward
  <2>3. \A j \in Memories : Sourced(j)'
    BY <1>1, <2>1, <2>2, SourcedKept DEF MemoryOK
  <2> QED BY <1>1, <2>3 DEF MemoryOK, SiblingsApart, Current
<1> QED BY <1>1, StepKinds, PerformMemoryKept

LEMMA MemoryAlways == Spec => []MemoryOK
<1>1. Init => MemoryOK
  <2> SUFFICES ASSUME Init PROVE MemoryOK
    OBVIOUS
  <2>1. PICK v \in reviews : memory = [i \in Memories |-> IF i = 1 THEN Accept(Candidate({v}, 0, 0)) ELSE Blank]
    BY DEF Init
  <2>2. v \in Review /\ v.status = "accepted" /\ Reviewable(v)
    <3>1. PICK d \in Delivered : v = [task |-> d.task, run |-> d.run, round |-> 1, version |-> 4, status |-> "accepted"]
      BY <2>1 DEF Init, InitDelivery
    <3>2. d.task \in Tasks /\ d.run \in Runs /\ v \in Review /\ v.task = d.task /\ v.run = d.run
      BY <3>1, Accepted DEF Review
    <3>3. (CHOOSE e \in Delivered : e.run = d.run) = d
      BY Accepted
    <3>4. run[d.run] = [task |-> d.task, status |-> "delivered"]
      BY <3>2, <3>3 DEF Init, InitDelivery
    <3> QED BY <3>1, <3>2, <3>4 DEF Reviewable
  <2> DEFINE first == Accept(Candidate({v}, 0, 0))
  <2>3. /\ ItemOK(first) /\ first.source = 0 /\ first.origin = {v}
        /\ ItemOK(Blank) /\ Blank.scope = "private" /\ Blank.source = 0
    <3>1. {v} \in Origins /\ 0 \in Nat
      BY <2>2 DEF Origins
    <3>2. PICK n : n = Candidate({v}, 0, 0)
      OBVIOUS
    <3>3. ItemOK(n) /\ n.source = 0 /\ n.origin = {v} /\ n.status = "proposed"
      BY <3>1, <3>2, CandidateItem
    <3>4. ItemOK(Accept(n)) /\ Accept(n).source = 0 /\ Accept(n).origin = {v}
      BY <3>3, JudgedItem
    <3> QED BY <3>2, <3>4, BlankItem
  <2> HIDE DEF first
  <2>4. \A i \in Memories : memory[i] = first \/ memory[i] = Blank
    BY <2>1 DEF first
  <2>5. \A i \in Memories : ItemOK(memory[i]) /\ Sourced(i) /\ memory[i].source = 0
    BY <2>1, <2>2, <2>3, <2>4 DEF Sourced, Provenance
  <2> QED BY <2>1, <2>5 DEF MemoryOK, SiblingsApart
<1>2. Typed /\ MemoryOK /\ [Next]_vars => MemoryOK'
  BY MemoryNext
<1> QED BY <1>1, <1>2, TypedAlways, PTL DEF Spec

\* Whoever was asked to decide a delivery or a memory can answer, whatever other
\* commands have committed since: what the decision's transaction asks of the task and
\* of the memory cannot be changed by anything but the decision itself or the item's
\* end (decide_task_review_command, decide_memory_review).
THEOREM DecisionsStayOpen == Spec => []DecisionsOpen
<1>1. Reviews /\ MemoryOK => DecisionsOpen
  BY DEF Reviews, ReviewsOpen, MemoryOK, ItemOK, Sourced, DecisionsOpen, Judgeable
<1> QED BY <1>1, ReviewsAlways, MemoryAlways, PTL

\* Of the revisions of one item, and of an item and its revisions, one at most is in
\* force, for any number of items and of concurrent revisions, reviews and lifecycle
\* changes of them (create_memory_revision, decide_memory_review, transition_memory).
THEOREM OneRevisionInForce == Spec => []OneCurrent
<1>1. MemoryOK => OneCurrent
  <2> SUFFICES ASSUME MemoryOK, NEW i \in Memories, Current(i)
               PROVE  /\ memory[i].verdict = "accepted" /\ Provenance(memory[i].origin)
                      /\ \A j \in Memories \ {i} : Current(j) =>
                             memory[i].source # j /\ (memory[i].source = memory[j].source => memory[i].source = 0)
    BY DEF OneCurrent
  <2>1. memory[i].verdict = "accepted" /\ Provenance(memory[i].origin)
    BY DEF MemoryOK, ItemOK, Sourced, Current
  <2>2. ASSUME NEW j \in Memories, Current(j), memory[i].source = j
        PROVE  FALSE
    BY <2>1, <2>2 DEF MemoryOK, Sourced, Retired, Current, Memories
  <2> QED BY <2>1, <2>2 DEF MemoryOK, SiblingsApart
<1> QED BY <1>1, MemoryAlways, PTL

-----------------------------------------------------------------------------
(* Rounds.  The reviews of a task are numbered by their count, and a task  *)
(* with runs is done only by the decision of the last one.                 *)

Of(t) == {v \in reviews : v.task = t}

Numbered ==
    /\ \A v \in reviews : v.round \in 1 .. Cardinality(Of(v.task))
    /\ \A v, w \in reviews : v.task = w.task /\ v.round = w.round => v = w
    /\ \A v \in reviews : v.status = "pending" => v.round = Cardinality(Of(v.task))

DoneAt(t) ==
    task[t].stage = "done" /\ LinkedRuns(t) # {} =>
        \E v \in reviews : v.task = t /\ v.round = Cardinality(Of(t)) /\ v.status = "accepted"

Rounds == Numbered /\ \A t \in Tasks : DoneAt(t)

LEMMA OfFinite ==
    ASSUME Typed, NEW t
    PROVE  IsFiniteSet(Of(t)) /\ Cardinality(Of(t)) \in Nat
BY FS_Subset, FS_CardinalityType DEF Of, Typed, RunOK

LEMMA DecidedTask ==
    ASSUME Typed, NEW c, Decide(c)
    PROVE  /\ task'[c.review.task].stage = "done" => c.status = "accepted"
           /\ \A x \in Tasks \ {c.review.task} : task'[x] = task[x]
<1>1. c.review.task \in Tasks
  BY DEF Decide, Decidable, Typed, RunOK, Review
<1>2. task \in [Tasks -> Management]
  BY DEF Typed, TaskOK
<1>3. CASE c.status = "accepted"
  BY <1>1, <1>2, <1>3 DEF Decide
<1>4. CASE c.status # "accepted"
  <2>1. Decided(task[c.review.task], "in_progress").stage = "in_progress"
    BY <1>1, <1>2 DEF Decided, Management
  <2>2. /\ task'[c.review.task] = Decided(task[c.review.task], "in_progress")
        /\ \A x \in Tasks \ {c.review.task} : task'[x] = task[x]
    BY <1>1, <1>2, <1>4 DEF Decide
  <2> QED BY <2>1, <2>2
<1> QED BY <1>3, <1>4

LEMMA PerformRounds ==
    ASSUME Typed, Reviews, Rounds, NEW c, Valid(c), Perform(c)
    PROVE  Rounds'
<1>1. run' = run
  BY DEF Perform, Create, Save, Submit, Decide
<1>2. ASSUME NEW t \in Tasks, \A s \in Tasks \ {t} : task'[s] = task[s], reviews' = reviews,
             task'[t].stage = "done" => LinkedRuns(t) = {} \/ task[t].stage = "done"
      PROVE  Rounds'
  <2>1. Numbered'
    BY <1>2 DEF Rounds, Numbered, Of
  <2>2. \A s \in Tasks : DoneAt(s)'
    BY <1>1, <1>2 DEF Rounds, DoneAt, LinkedRuns, Of
  <2> QED BY <2>1, <2>2 DEF Rounds
<1>3. CASE Create(c)
  <2>1. c.task \in Tasks /\ task'[c.task].stage # "done" /\ \A s \in Tasks \ {c.task} : task'[s] = task[s]
    BY <1>3 DEF Create, Created, Valid, Typed, TaskOK
  <2> QED BY <1>2, <1>3, <2>1 DEF Create
<1>4. CASE Save(c)
  <2>1. /\ c.task \in Tasks /\ task' = [task EXCEPT ![c.task] = c.next] /\ c.next \in Management
        /\ task[c.task].version = c.next.version - 1 /\ task[c.task].version \in Nat /\ reviews' = reviews
        /\ "unlinked" \in c.needs => LinkedRuns(c.task) = {}
        /\ c.next.version = task[c.task].version + 1 /\ c.next.stage = "done" =>
               "unlinked" \in c.needs \/ task[c.task].stage = "done"
    BY <1>4 DEF Save, Valid, Prepared, Met, Typed, TaskOK, Management
  <2>2. c.next.version = task[c.task].version + 1
    BY <2>1 DEF Management
  <2>3. task'[c.task] = c.next /\ \A s \in Tasks \ {c.task} : task'[s] = task[s]
    BY <2>1 DEF Typed, TaskOK
  <2> QED BY <1>2, <2>1, <2>2, <2>3
<1>5. CASE Submit(c)
  <2>1. PICK v \in Review : /\ v.status = "pending" /\ Authorized(v.task) /\ v.round = NextRound(v.task)
                            /\ task' = [task EXCEPT ![v.task] = Submitted(task[v.task], v.version)]
                            /\ reviews' = reviews \cup {v}
    BY <1>5 DEF Submit, Valid
  <2>2. v.task \in Tasks /\ v.version \in Nat /\ task[v.task] \in Management
    BY <2>1 DEF Review, Typed, TaskOK
  <2>3. task'[v.task].stage # "done" /\ \A s \in Tasks \ {v.task} : task'[s] = task[s]
    BY <2>1, <2>2 DEF Submitted, Typed, TaskOK, Management
  <2>4. v.round = Cardinality(Of(v.task)) + 1 /\ Cardinality(Of(v.task)) \in Nat /\ IsFiniteSet(Of(v.task))
    BY <2>1, OfFinite DEF NextRound, Of
  <2>5. \A w \in reviews : w.task = v.task => w.round < v.round /\ w.status # "pending"
    BY <2>1, <2>4 DEF Rounds, Numbered, Authorized, PendingOf
  <2>6. /\ Of(v.task)' = Of(v.task) \cup {v} /\ v \notin Of(v.task)
        /\ \A t : t # v.task => Of(t)' = Of(t)
    BY <2>1, <2>5 DEF Of
  <2>7. Cardinality(Of(v.task)') = v.round
    BY <2>4, <2>6, FS_AddElement
  <2>8. Numbered'
    <3>1. ASSUME NEW w \in reviews'
          PROVE  /\ w.round \in 1 .. Cardinality(Of(w.task)')
                 /\ w.status = "pending" => w.round = Cardinality(Of(w.task)')
      <4>1. CASE w = v
        BY <2>4, <2>7, <4>1
      <4>2. CASE w \in reviews /\ w.task = v.task
        BY <2>4, <2>5, <2>7, <4>2 DEF Rounds, Numbered
      <4>3. CASE w \in reviews /\ w.task # v.task
        BY <2>6, <4>3 DEF Rounds, Numbered
      <4> QED BY <2>1, <4>1, <4>2, <4>3
    <3>2. \A w, x \in reviews' : w.task = x.task /\ w.round = x.round => w = x
      <4>1. \A w \in reviews : w.task = v.task => w.round # v.round
        BY <2>4, <2>5 DEF Rounds, Numbered
      <4> QED BY <2>1, <4>1 DEF Rounds, Numbered
    <3> QED BY <3>1, <3>2 DEF Numbered, Of
  <2>9. ASSUME NEW t \in Tasks
        PROVE  DoneAt(t)'
    <3>1. CASE t = v.task
      BY <2>3, <3>1 DEF DoneAt
    <3>2. CASE t # v.task
      BY <1>1, <2>1, <2>3, <2>6, <3>2 DEF Rounds, DoneAt, LinkedRuns
    <3> QED BY <3>1, <3>2
  <2> QED BY <2>8, <2>9 DEF Rounds
<1>6. CASE Decide(c)
  <2>1. PICK v \in reviews : /\ v.status = "pending" /\ c.review = v
                             /\ reviews' = (reviews \ {v}) \cup {[v EXCEPT !.status = c.status]}
                             /\ c.status \in {"accepted", "changes_requested"}
    BY <1>6 DEF Decide, Decidable, Valid
  <2>2. v \in Review /\ v.task \in Tasks
    BY DEF Typed, RunOK, Review
  <2>3. PICK w : w = [v EXCEPT !.status = c.status]
    OBVIOUS
  <2>4. w.task = v.task /\ w.round = v.round /\ w.status = c.status /\ reviews' = (reviews \ {v}) \cup {w}
    BY <2>1, <2>2, <2>3 DEF Review
  <2>5. /\ task'[v.task].stage = "done" => c.status = "accepted"
        /\ \A x \in Tasks \ {v.task} : task'[x] = task[x]
    BY <1>6, <2>1, DecidedTask
  <2>6. /\ v \in Of(v.task) /\ w \notin Of(v.task) \ {v}
        /\ Of(v.task)' = (Of(v.task) \ {v}) \cup {w}
        /\ \A t : t # v.task => Of(t)' = Of(t)
    BY <2>4 DEF Of, Rounds, Numbered
  <2>7. Cardinality(Of(v.task)') = Cardinality(Of(v.task))
    <3>1. /\ IsFiniteSet(Of(v.task) \ {v})
          /\ Cardinality(Of(v.task) \ {v}) = Cardinality(Of(v.task)) - 1
      BY <2>6, OfFinite, FS_RemoveElement
    <3>2. Cardinality((Of(v.task) \ {v}) \cup {w}) = Cardinality(Of(v.task) \ {v}) + 1
      BY <2>6, <3>1, FS_AddElement
    <3> QED BY <2>6, <3>1, <3>2, OfFinite
  <2>8. \A t : Cardinality(Of(t)') = Cardinality(Of(t))
    BY <2>6, <2>7
  <2>9. v.round = Cardinality(Of(v.task))
    BY <2>1 DEF Rounds, Numbered
  <2>10. Numbered'
    <3>1. ASSUME NEW x \in reviews'
          PROVE  /\ x.round \in 1 .. Cardinality(Of(x.task)')
                 /\ x.status = "pending" => x.round = Cardinality(Of(x.task)')
      <4>1. CASE x = w
        <5>1. v.round \in 1 .. Cardinality(Of(v.task))
          BY DEF Rounds, Numbered
        <5> QED BY <2>1, <2>4, <2>7, <4>1, <5>1
      <4>2. CASE x \in reviews
        <5>1. /\ x.round \in 1 .. Cardinality(Of(x.task))
              /\ x.status = "pending" => x.round = Cardinality(Of(x.task))
          BY <4>2 DEF Rounds, Numbered
        <5>2. CASE x.task = v.task
          BY <2>7, <5>1, <5>2
        <5>3. CASE x.task # v.task
          BY <2>6, <5>1, <5>3
        <5> QED BY <5>2, <5>3
      <4> QED BY <2>4, <4>1, <4>2
    <3>2. \A x, y \in reviews' : x.task = y.task /\ x.round = y.round => x = y
      BY <2>4 DEF Rounds, Numbered
    <3> QED BY <3>1, <3>2 DEF Numbered, Of
  <2>11. ASSUME NEW t \in Tasks
         PROVE  DoneAt(t)'
    <3>1. CASE t = v.task
      <4>1. task'[t].stage = "done" => w \in reviews' /\ w.task = t /\ w.round = Cardinality(Of(t)')
                                        /\ w.status = "accepted"
        BY <2>4, <2>5, <2>8, <2>9, <3>1
      <4> QED BY <4>1 DEF DoneAt
    <3>2. CASE t # v.task
      <4>1. \A x \in reviews : x.task = t => x \in reviews'
        BY <2>4, <3>2
      <4> QED BY <1>1, <2>5, <2>8, <3>2, <4>1 DEF Rounds, DoneAt, LinkedRuns
    <3> QED BY <3>1, <3>2
  <2> QED BY <2>10, <2>11 DEF Rounds
<1> QED BY <1>3, <1>4, <1>5, <1>6 DEF Perform

LEMMA RoundsAlways == Spec => []Rounds
<1>1. Init => Rounds
  <2> SUFFICES ASSUME Init PROVE Rounds
    OBVIOUS
  <2>1. reviews = {[task |-> d.task, run |-> d.run, round |-> 1, version |-> 4, status |-> "accepted"]
                   : d \in Delivered}
    BY DEF Init, InitDelivery
  <2>2. ASSUME NEW v \in reviews
        PROVE  Of(v.task) = {v} /\ v.round = 1 /\ v.status = "accepted" /\ Cardinality(Of(v.task)) = 1
    <3>1. PICK d \in Delivered : v = [task |-> d.task, run |-> d.run, round |-> 1, version |-> 4, status |-> "accepted"]
      BY <2>1
    <3>2. ASSUME NEW w \in reviews, w.task = v.task
          PROVE  w = v
      <4>1. PICK e \in Delivered : w = [task |-> e.task, run |-> e.run, round |-> 1, version |-> 4, status |-> "accepted"]
        BY <2>1
      <4> QED BY <3>1, <3>2, <4>1, Accepted
    <3>3. Of(v.task) = {v}
      BY <3>2 DEF Of
    <3> QED BY <3>1, <3>3, FS_Singleton
  <2>3. Numbered
    <3>1. \A v, w \in reviews : v.task = w.task => v = w
      BY <2>2 DEF Of
    <3> QED BY <2>2, <3>1 DEF Numbered
  <2>4. ASSUME NEW t \in Tasks, task[t].stage = "done"
        PROVE  \E v \in reviews : v.task = t /\ v.round = Cardinality(Of(t)) /\ v.status = "accepted"
    <3>1. PICK d \in Delivered : d.task = t
      BY <2>4 DEF Init, InitDelivery, DeliveredTasks, Uncreated
    <3>2. PICK v : v = [task |-> d.task, run |-> d.run, round |-> 1, version |-> 4, status |-> "accepted"]
      OBVIOUS
    <3>3. v \in reviews /\ v.task = t
      BY <2>1, <3>1, <3>2
    <3> QED BY <2>2, <3>3
  <2> QED BY <2>3, <2>4 DEF Rounds, DoneAt
<1>2. Typed /\ Reviews /\ Rounds /\ [Next]_vars => Rounds'
  <2> SUFFICES ASSUME Typed, Reviews, Rounds, [Next]_vars PROVE Rounds'
    OBVIOUS
  <2>1. CASE UNCHANGED <<task, reviews>> /\ Ends
    <3>1. \A t \in Tasks : task[t].stage = "done" /\ LinkedRuns(t)' # {} => LinkedRuns(t) # {}
      BY <2>1 DEF Ends, LinkedRuns
    <3>2. Numbered' /\ \A t : Of(t)' = Of(t)
      BY <2>1 DEF Rounds, Numbered, Of
    <3> QED BY <2>1, <3>1, <3>2 DEF Rounds, DoneAt
  <2>2. CASE UNCHANGED delivery
    BY <2>2 DEF delivery, Rounds, Numbered, DoneAt, Of, LinkedRuns
  <2> QED BY <2>1, <2>2, StepKinds, PerformRounds DEF PerformMemory
<1> QED BY <1>1, <1>2, TypedAlways, ReviewsAlways, PTL DEF Spec

\* A task has one review to decide at a time, its rounds follow one another, and while
\* it has runs it is done only by the acceptance of its last delivery, for any number of
\* tasks, runs and concurrent commands (_authorize_task_command, the rounds of
\* submit_task_review_command, require_no_agent_runs).
THEOREM DoneByReview == Spec => []DeliveryReviewed
<1>1. Typed /\ Reviews /\ Rounds => DeliveryReviewed
  <2> SUFFICES ASSUME Typed, Reviews, Rounds, NEW t \in Tasks
               PROVE  /\ Cardinality(PendingOf(t)) <= 1
                      /\ \A v, w \in reviews : v.task = t /\ w.task = t /\ v.round = w.round => v = w
                      /\ task[t].stage = "done" /\ LinkedRuns(t) # {} =>
                             \E v \in reviews : v.task = t /\ v.round = NextRound(t) - 1 /\ v.status = "accepted"
    BY DEF DeliveryReviewed
  <2>1. Cardinality(PendingOf(t)) <= 1
    <3>1. CASE PendingOf(t) = {}
      BY <3>1, FS_EmptySet
    <3>2. ASSUME NEW v \in PendingOf(t)
          PROVE  Cardinality(PendingOf(t)) <= 1
      <4>1. PendingOf(t) = {v}
        BY DEF PendingOf, Reviews, OnePending
      <4> QED BY <4>1, FS_Singleton
    <3> QED BY <3>1, <3>2
  <2>2. NextRound(t) - 1 = Cardinality(Of(t))
    BY OfFinite DEF NextRound, Of
  <2>3. DoneAt(t)
    BY DEF Rounds
  <2> QED BY <2>1, <2>2, <2>3 DEF Rounds, Numbered, DoneAt
<1> QED BY <1>1, TypedAlways, ReviewsAlways, RoundsAlways, PTL

-----------------------------------------------------------------------------
(* Citations.  Labels are numbered by the count of the reservations, and   *)
(* an item that changes moves to a version that nothing cites yet.         *)

Cite == [run : Runs, memory : Memories, version : Nat, kind : {"P", "T"}, label : Nat, used : BOOLEAN]
Labels(r, k) == {c \in cites : c.run = r /\ c.kind = k}

Labelled ==
    /\ cites \subseteq Cite /\ IsFiniteSet(cites)
    /\ \A c \in cites : c.label \in 1 .. Cardinality(Labels(c.run, c.kind))
    /\ \A c, d \in cites : c.run = d.run /\ c.kind = d.kind /\ c.label = d.label => c = d

Dated ==
    \A c \in cites :
        /\ c.version <= memory[c.memory].version
        /\ c.used /\ c.version = memory[c.memory].version => Eligible(c.memory)

Citing == Labelled /\ Dated

Dates == \A i \in Memories : memory'[i] = memory[i] \/ memory'[i].version > memory[i].version

LEMMA NewVersions ==
    ASSUME NEW v, NEW o, NEW k, NEW f
    PROVE  Blank.version = 0 /\ Personal(v).version = 1 /\ Candidate(o, k, f).version = 1
BY DEF Blank, Personal, Candidate

LEMMA ItemVersions ==
    ASSUME NEW m \in Item, NEW a
    PROVE  /\ Accept(m).version > m.version /\ Reject(m).version > m.version
           /\ Supersede(m).version > m.version
           /\ \A n \in Transitioned(m, a) : n.version > m.version
<1>1. m.version \in Nat
  BY DEF Item
<1>2. /\ Accept(m).version = m.version + 1 /\ Reject(m).version = m.version + 1
      /\ Supersede(m).version = m.version + 1
  BY DEF Item, Accept, Reject, Supersede
<1>3. ASSUME NEW n \in Transitioned(m, a)
      PROVE  n.version = m.version + 1
  BY DEF Transitioned, Item
<1> QED BY <1>1, <1>2, <1>3

LEMMA PerformDates ==
    ASSUME MemoryOK, NEW c, Valid(c), PerformMemory(c)
    PROVE  Dates
<1>1. DOMAIN memory = Memories /\ \A i \in Memories : memory[i] \in Item /\ memory[i].version \in Nat
  BY DEF MemoryOK, ItemOK, Item
<1>2. ASSUME NEW i \in Memories, NEW n, memory' = [memory EXCEPT ![i] = n], n.version > memory[i].version
      PROVE  Dates
  BY <1>1, <1>2 DEF Dates
<1>3. CASE Capture(c) \/ Revise(c)
  <2>1. \/ Adds(Personal(c.review)) \/ Adds(Candidate({c.review}, 0, 0))
        \/ Adds(Candidate(memory[c.memory].origin, c.memory, memory[c.memory].version))
    BY <1>3 DEF Capture, Revise
  <2>2. PICK n : Adds(n) /\ n.version = 1
    BY <2>1, NewVersions
  <2>3. PICK i \in Memories : memory[i] = Blank /\ memory' = [memory EXCEPT ![i] = n]
    BY <2>2 DEF Adds
  <2>4. n.version > memory[i].version
    BY <2>2, <2>3, NewVersions
  <2> QED BY <1>2, <2>3, <2>4
<1>4. CASE Judge(c)
  <2>1. c.memory \in Memories
    BY <1>4 DEF Judge, Valid
  <2>2. CASE c.accept
    <3>1. memory' = [j \in Memories |-> IF j = c.memory THEN Accept(memory[c.memory])
                                      ELSE IF j = memory[c.memory].source THEN Supersede(memory[j])
                                      ELSE memory[j]]
      BY <1>4, <2>2 DEF Judge
    <3>2. ASSUME NEW j \in Memories
          PROVE  memory'[j] = memory[j] \/ memory'[j].version > memory[j].version
      <4>1. memory'[j] \in {Accept(memory[j]), Supersede(memory[j]), memory[j]}
        BY <3>1
      <4>2. Accept(memory[j]).version > memory[j].version /\ Supersede(memory[j]).version > memory[j].version
        BY <1>1, ItemVersions
      <4> QED BY <4>1, <4>2
    <3> QED BY <3>2 DEF Dates
  <2>3. ASSUME ~c.accept
        PROVE  Dates
    <3>1. memory' = [memory EXCEPT ![c.memory] = Reject(memory[c.memory])]
      BY <1>4, <2>3 DEF Judge
    <3>2. Reject(memory[c.memory]).version > memory[c.memory].version
      BY <1>1, <2>1, ItemVersions
    <3> QED BY <1>2, <2>1, <3>1, <3>2
  <2> QED BY <2>2, <2>3
<1>5. CASE Move(c)
  <2>1. c.memory \in Memories
    BY <1>5 DEF Move, Valid
  <2>2. PICK n \in Transitioned(memory[c.memory], c.action) : memory' = [memory EXCEPT ![c.memory] = n]
    BY <1>5 DEF Move
  <2>3. n.version > memory[c.memory].version
    BY <1>1, <2>1, <2>2, ItemVersions
  <2> QED BY <1>2, <2>1, <2>2, <2>3
<1> QED BY <1>3, <1>4, <1>5 DEF PerformMemory

LEMMA LabelsFinite ==
    ASSUME Labelled, NEW r, NEW k
    PROVE  IsFiniteSet(Labels(r, k)) /\ Cardinality(Labels(r, k)) \in Nat
BY FS_Subset, FS_CardinalityType DEF Labels, Labelled

LEMMA ReserveLabels ==
    ASSUME Labelled, MemoryOK, NEW r \in Runs, NEW i \in Memories, Reserve(r, i)
    PROVE  Labelled'
<1>1. PICK n : /\ n = [run |-> r, memory |-> i, version |-> memory[i].version, kind |-> Kind(i),
                      label |-> NextLabel(r, Kind(i)), used |-> FALSE]
              /\ cites' = cites \cup {n}
  BY DEF Reserve
<1>2. n.run = r /\ n.kind = Kind(i) /\ n.label = NextLabel(r, Kind(i))
  BY <1>1
<1>3. /\ n.label = Cardinality(Labels(n.run, n.kind)) + 1 /\ IsFiniteSet(Labels(n.run, n.kind))
      /\ Cardinality(Labels(n.run, n.kind)) \in Nat
  <2>1. NextLabel(r, Kind(i)) = 1 + Cardinality(Labels(r, Kind(i)))
    BY DEF NextLabel, Labels
  <2>2. IsFiniteSet(Labels(r, Kind(i))) /\ Cardinality(Labels(r, Kind(i))) \in Nat
    BY LabelsFinite
  <2> QED BY <1>2, <2>1, <2>2
<1>4. n \in Cite
  <2>1. memory[i].version \in Nat
    BY DEF MemoryOK, ItemOK, Item
  <2>2. Kind(i) \in {"P", "T"} /\ NextLabel(r, Kind(i)) \in Nat
    BY <1>2, <1>3 DEF Kind
  <2> QED BY <1>1, <2>1, <2>2 DEF Cite
<1>5. \A d \in cites : d.run = n.run /\ d.kind = n.kind => d.label < n.label
  BY <1>3 DEF Labelled, Cite
<1>6. /\ Labels(n.run, n.kind)' = Labels(n.run, n.kind) \cup {n} /\ n \notin Labels(n.run, n.kind)
      /\ \A p, k : p # n.run \/ k # n.kind => Labels(p, k)' = Labels(p, k)
  BY <1>1, <1>3, <1>5 DEF Labels
<1>7. Cardinality(Labels(n.run, n.kind)') = n.label
  BY <1>3, <1>6, FS_AddElement
<1>8. ASSUME NEW c \in cites'
      PROVE  c.label \in 1 .. Cardinality(Labels(c.run, c.kind)')
  <2>1. CASE c = n
    BY <1>3, <1>7, <2>1
  <2>2. CASE c \in cites /\ c.run = n.run /\ c.kind = n.kind
    <3>1. c.label \in 1 .. Cardinality(Labels(n.run, n.kind))
      BY <2>2 DEF Labelled
    <3>2. Labels(c.run, c.kind)' = Labels(n.run, n.kind)'
      BY <2>2
    <3> QED BY <1>3, <1>7, <3>1, <3>2
  <2>3. CASE c \in cites /\ (c.run # n.run \/ c.kind # n.kind)
    BY <1>6, <2>3 DEF Labelled
  <2> QED BY <1>1, <2>1, <2>2, <2>3
<1>9. \A c, d \in cites' : c.run = d.run /\ c.kind = d.kind /\ c.label = d.label => c = d
  <2>1. \A d \in cites : d.run = n.run /\ d.kind = n.kind => d.label # n.label
    BY <1>3, <1>5 DEF Labelled, Cite
  <2>2. ASSUME NEW c \in cites', NEW d \in cites', c.run = d.run, c.kind = d.kind, c.label = d.label
        PROVE  c = d
    <3>1. CASE c = n \/ d = n
      BY <1>1, <2>1, <2>2, <3>1
    <3>2. CASE c \in cites /\ d \in cites
      BY <2>2, <3>2 DEF Labelled
    <3> QED BY <1>1, <3>1, <3>2
  <2> QED BY <2>2
<1>10. cites' \subseteq Cite /\ IsFiniteSet(cites')
  BY <1>1, <1>4, FS_AddElement DEF Labelled
<1> QED BY <1>8, <1>9, <1>10 DEF Labelled, Labels

LEMMA UseLabels ==
    ASSUME Labelled, NEW c \in cites, Use(c)
    PROVE  Labelled'
<1>1. PICK n : n = [c EXCEPT !.used = TRUE] /\ cites' = (cites \ {c}) \cup {n}
  BY DEF Use
<1>2. /\ n \in Cite /\ n.run = c.run /\ n.kind = c.kind /\ n.label = c.label /\ c \in Cite
  BY <1>1 DEF Labelled, Cite
<1>3. /\ c \in Labels(c.run, c.kind) /\ n \notin Labels(c.run, c.kind) \ {c}
      /\ Labels(c.run, c.kind)' = (Labels(c.run, c.kind) \ {c}) \cup {n}
      /\ \A p, k : p # c.run \/ k # c.kind => Labels(p, k)' = Labels(p, k)
  BY <1>1, <1>2 DEF Labels, Labelled
<1>4. Cardinality(Labels(c.run, c.kind)') = Cardinality(Labels(c.run, c.kind))
  <2>1. /\ IsFiniteSet(Labels(c.run, c.kind) \ {c})
        /\ Cardinality(Labels(c.run, c.kind) \ {c}) = Cardinality(Labels(c.run, c.kind)) - 1
    BY <1>3, LabelsFinite, FS_RemoveElement
  <2>2. Cardinality((Labels(c.run, c.kind) \ {c}) \cup {n}) = Cardinality(Labels(c.run, c.kind) \ {c}) + 1
    BY <1>3, <2>1, FS_AddElement
  <2> QED BY <1>3, <2>1, <2>2, LabelsFinite
<1>5. ASSUME NEW d \in cites'
      PROVE  d.label \in 1 .. Cardinality(Labels(d.run, d.kind)')
  <2>1. PICK b \in cites : b.run = d.run /\ b.kind = d.kind /\ b.label = d.label
    BY <1>1, <1>2
  <2>2. b.label \in 1 .. Cardinality(Labels(b.run, b.kind))
    BY DEF Labelled
  <2>3. CASE b.run = c.run /\ b.kind = c.kind
    BY <1>4, <2>1, <2>2, <2>3
  <2>4. CASE b.run # c.run \/ b.kind # c.kind
    BY <1>3, <2>1, <2>2, <2>4
  <2> QED BY <2>3, <2>4
<1>6. \A d, e \in cites' : d.run = e.run /\ d.kind = e.kind /\ d.label = e.label => d = e
  <2>1. \A d \in cites : d.run = c.run /\ d.kind = c.kind /\ d.label = c.label => d = c
    BY DEF Labelled
  <2>2. \A d, e \in cites : d.run = e.run /\ d.kind = e.kind /\ d.label = e.label => d = e
    BY DEF Labelled
  <2>3. \A d \in cites' : d # n => d \in cites /\ d # c
    BY <1>1
  <2>4. ASSUME NEW d \in cites', NEW e \in cites', d.run = e.run, d.kind = e.kind, d.label = e.label, d # n
        PROVE  d = e
    <3>1. d \in cites /\ d # c
      BY <2>3, <2>4
    <3>2. CASE e = n
      BY <1>2, <2>1, <2>4, <3>1, <3>2
    <3>3. CASE e # n
      BY <2>2, <2>3, <2>4, <3>1, <3>3
    <3> QED BY <3>2, <3>3
  <2>5. \A e \in cites' : n.run = e.run /\ n.kind = e.kind /\ n.label = e.label => e = n
    BY <1>2, <2>1, <2>3
  <2> QED BY <2>4, <2>5
<1>7. cites' \subseteq Cite /\ IsFiniteSet(cites')
  BY <1>1, <1>2, FS_AddElement, FS_RemoveElement DEF Labelled
<1> QED BY <1>5, <1>6, <1>7 DEF Labelled, Labels

LEMMA CitingAlways == Spec => []Citing
<1>1. Init => Citing
  BY FS_EmptySet DEF Init, Citing, Labelled, Dated
<1>2. Typed /\ MemoryOK /\ Citing /\ [Next]_vars => Citing'
  <2> SUFFICES ASSUME Typed, MemoryOK, Citing, [Next]_vars PROVE Citing'
    OBVIOUS
  <2>1. CASE UNCHANGED cites
    <3>1. Labelled'
      BY <2>1 DEF Citing, Labelled, Labels
    <3>2. Dates
      BY StepKinds, PerformDates DEF Dates
    <3>3. ASSUME NEW c \in cites
          PROVE  /\ c.version <= memory'[c.memory].version
                 /\ c.used /\ c.version = memory'[c.memory].version => Eligible(c.memory)'
      <4>1. /\ c.memory \in Memories /\ c.version \in Nat /\ memory[c.memory].version \in Nat
            /\ c.version <= memory[c.memory].version
            /\ c.used /\ c.version = memory[c.memory].version => Eligible(c.memory)
        BY DEF Citing, Labelled, Dated, Cite, MemoryOK, ItemOK, Item
      <4>2. memory'[c.memory].version \in Nat
        BY <4>1, MemoryNext DEF MemoryOK, ItemOK, Item
      <4>3. CASE memory'[c.memory] = memory[c.memory]
        BY <4>1, <4>3 DEF Eligible
      <4>4. CASE memory'[c.memory].version > memory[c.memory].version
        BY <4>1, <4>2, <4>4
      <4> QED BY <3>2, <4>1, <4>3, <4>4 DEF Dates
    <3> QED BY <2>1, <3>1, <3>3 DEF Citing, Dated
  <2>2. ASSUME NEW r \in Runs, NEW i \in Memories, Reserve(r, i)
        PROVE  Citing'
    <3>1. memory[i].version \in Nat
      BY DEF MemoryOK, ItemOK, Item
    <3>2. Dated'
      BY <2>2, <3>1 DEF Reserve, Citing, Dated, Eligible
    <3> QED BY <2>2, <3>2, ReserveLabels DEF Citing
  <2>3. ASSUME NEW c \in cites, Use(c)
        PROVE  Citing'
    <3>1. PICK n : n = [c EXCEPT !.used = TRUE] /\ cites' = (cites \ {c}) \cup {n}
      BY <2>3 DEF Use
    <3>2. n.memory = c.memory /\ n.version = c.version
      BY <3>1 DEF Citing, Labelled, Cite
    <3>3. Dated'
      BY <2>3, <3>1, <3>2 DEF Use, Usable, Citing, Dated, Eligible
    <3> QED BY <2>3, <3>3, UseLabels DEF Citing
  <2> QED BY <2>1, <2>2, <2>3 DEF Next, ReadMemory, CommitMemory, PromptMemory, PerformMemory, vars
<1> QED BY <1>1, <1>2, TypedAlways, MemoryAlways, PTL DEF Spec

\* A citation label of a run names one version of one item, however often its
\* reservations and receipts were counted, and a receipt of an item's present version is
\* of an item in force (reserve_memory_citations, commit_memory_use_receipts).
THEOREM CitationsStayTrue == Spec => []CitationsTrue
<1>1. Citing => CitationsTrue
  BY DEF Citing, Labelled, Dated, CitationsTrue
<1> QED BY <1>1, CitingAlways, PTL

=============================================================================
