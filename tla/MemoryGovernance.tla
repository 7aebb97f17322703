-------------------------- MODULE MemoryGovernance --------------------------
(***************************************************************************)
(* Memory captured from accepted deliveries, its review, its revisions and *)
(* its lifecycle, and its use by runs (agentmesh/memory_governance,        *)
(* agentmesh/memory_context and their transactions in agentmesh/store.py), *)
(* beside the tasks whose deliveries it comes from.                        *)
(*                                                                         *)
(* A memory item and its memory review, of which there is one at most, are *)
(* one entry here; the inbox item is open while the review is pending.     *)
(***************************************************************************)
EXTENDS TaskDelivery

CONSTANT MaxMemories    \* bound on memory items

ASSUME MemoryBound == MaxMemories \in Nat

VARIABLES
    memory,         \* memory_items and user_memory_items in the order of their creation
    cites           \* memory_citation_reservations; used: with a use receipt

vars == <<delivery, request, left, memory, cites>>

Memories == 1 .. MaxMemories

\* origin: the task review it was captured from; source, frozen: the item it revises
\* and the version of it that was read; verdict: its memory review.
Blank == [status |-> "none", scope |-> "private", version |-> 0, from |-> "none",
          origin |-> {}, source |-> 0, frozen |-> 0, verdict |-> "none"]
Personal(v) == [Blank EXCEPT !.status = "active", !.version = 1, !.origin = {v}]
Candidate(origin, source, frozen) ==
    [Blank EXCEPT !.status = "proposed", !.scope = "candidate", !.version = 1, !.origin = origin,
                  !.source = source, !.frozen = frozen, !.verdict = "pending"]
Accept(m) == [m EXCEPT !.status = "accepted", !.scope = "team", !.version = @ + 1, !.verdict = "accepted"]
Reject(m) == [m EXCEPT !.status = "disputed", !.version = @ + 1, !.verdict = "rejected"]
Supersede(m) == [m EXCEPT !.status = "deprecated", !.version = @ + 1]

\* One of the accepted deliveries is team knowledge from the start.
Init ==
    /\ InitDelivery
    /\ \E v \in reviews : memory = [i \in Memories |-> IF i = 1 THEN Accept(Candidate({v}, 0, 0)) ELSE Blank]
    /\ cites = {}

Current(i) == memory[i].status = "accepted" /\ memory[i].scope = "team"
Successors(i) == {j \in Memories : memory[j].status # "none" /\ memory[j].source = i}
Revisable == {"accepted", "disputed", "deprecated", "expired"}

\* source_review.status is ACCEPTED and its artifacts are as they were.
Provenance(origin) == \A v \in origin : v \in reviews /\ v.status = "accepted" /\ Reviewable(v)

-----------------------------------------------------------------------------
(* The commands the services let through in the present state.             *)

Captures ==
    {[op |-> "capture", review |-> v, personal |-> personal]
     : v \in {v \in reviews : v.status = "accepted"}, personal \in BOOLEAN}

Revisions ==
    {[op |-> "revise", memory |-> i, version |-> memory[i].version]
     : i \in {i \in Memories : memory[i].scope = "team" /\ memory[i].status \in Revisable}}

Judgements ==
    {[op |-> "judge", memory |-> i, version |-> memory[i].version, accept |-> accept]
     : i \in {i \in Memories : memory[i].verdict = "pending"}, accept \in BOOLEAN}

LifecycleActions == {"dispute", "deprecate", "expire", "archive", "restore"}

\* transition_memory_item: the item after the action; none where it is refused.
Transitioned(m, a) ==
    LET After(s) == [m EXCEPT !.status = s, !.version = @ + 1]
        from == CASE a = "dispute" -> {"accepted"}
                  [] a = "deprecate" -> {"accepted", "disputed"}
                  [] a = "expire" -> {"proposed", "accepted", "disputed"}
                  [] a = "archive" -> Revisable
                  [] OTHER -> {"archived"}
    IN {CASE a = "dispute" -> After("disputed")
          [] a = "deprecate" -> After("deprecated")
          [] a = "expire" -> [After("expired") EXCEPT !.verdict = IF @ = "pending" THEN "cancelled" ELSE @]
          [] a = "archive" -> [After("archived") EXCEPT !.from = m.status]
          [] OTHER -> [After(m.from) EXCEPT !.from = "none"]
        : x \in {m.status} \cap {s \in from : m.scope # "private"}}

Shifts ==
    UNION {{[op |-> "move", memory |-> i, version |-> memory[i].version, action |-> a]
            : a \in {a \in LifecycleActions : Transitioned(memory[i], a) # {}}} : i \in Memories}

MemoryCommands == Captures \cup Revisions \cup Judgements \cup Shifts

-----------------------------------------------------------------------------
(* Their transactions.                                                     *)

Adds(m) ==
    \E i \in Memories :
        /\ memory[i] = Blank
        /\ \A j \in 1 .. (i - 1) : memory[j] # Blank
        /\ memory' = [memory EXCEPT ![i] = m]

\* capture_memory_from_task_review
Capture(c) ==
    /\ c.op = "capture"
    /\ Provenance({c.review})
    /\ Adds(IF c.personal THEN Personal(c.review) ELSE Candidate({c.review}, 0, 0))

\* create_memory_revision: no successor is proposed or in force.
NoSuccessor(i) == \A j \in Successors(i) : memory[j].status # "proposed" /\ ~Current(j)

Revise(c) ==
    /\ c.op = "revise"
    /\ LET m == memory[c.memory]
       IN /\ m.scope = "team" /\ m.version = c.version /\ m.status \in Revisable
          /\ NoSuccessor(c.memory)
          /\ Provenance(m.origin)
          /\ Adds(Candidate(m.origin, c.memory, m.version))

\* What decide_memory_review asks of the revised item before it accepts the revision.
Unchanged(m) ==
    m.source # 0 => memory[m.source].version = m.frozen /\ memory[m.source].status \in Revisable

\* What it asks whatever the decision; the review is about the version proposed.
Judgeable(i) ==
    LET m == memory[i]
    IN /\ m.verdict = "pending" /\ m.status = "proposed" /\ m.scope = "candidate" /\ m.version = 1
       /\ Provenance(m.origin)
       /\ m.source # 0 => memory[m.source].scope = "team"

Judge(c) ==
    LET i == c.memory
        m == memory[i]
    IN /\ c.op = "judge"
       /\ m.version = c.version /\ Judgeable(i)
       /\ IF c.accept
          THEN /\ Unchanged(m)
               /\ m.source # 0 => \A j \in Successors(m.source) \ {i} : ~Current(j)
               /\ memory' = [j \in Memories |-> IF j = i THEN Accept(m)
                                                ELSE IF j = m.source THEN Supersede(memory[j])
                                                ELSE memory[j]]
          ELSE memory' = [memory EXCEPT ![i] = Reject(m)]

\* transition_memory: an item is not restored beside an accepted sibling.
\* Variant: it is.
RestoreAnyway(i, a) == TRUE
Restorable(i, a) ==
    a = "restore" /\ memory[i].from = "accepted" /\ memory[i].source # 0
        => \A j \in Successors(memory[i].source) \ {i} : ~Current(j)

Move(c) ==
    /\ c.op = "move"
    /\ memory[c.memory].version = c.version
    /\ Restorable(c.memory, c.action)
    /\ \E m \in Transitioned(memory[c.memory], c.action) : memory' = [memory EXCEPT ![c.memory] = m]

PerformMemory(c) ==
    /\ left.memory > 0
    /\ left' = [left EXCEPT !.memory = @ - 1]
    /\ Capture(c) \/ Revise(c) \/ Judge(c) \/ Move(c)
    /\ UNCHANGED <<delivery, cites>>

ReadMemory(q) == left.memory > 0 /\ Read(q, MemoryCommands) /\ UNCHANGED <<memory, cites>>
CommitMemory(q) == Answers(q) /\ PerformMemory(request[q])
PromptMemory == UNCHANGED request /\ \E c \in MemoryCommands : PerformMemory(c)

-----------------------------------------------------------------------------
(* Use of memory by a run: what it retrieves is cited by a label that it   *)
(* reserves at once, and gets a use receipt after the model has answered.  *)

Kind(i) == IF memory[i].scope = "private" THEN "P" ELSE "T"

\* _memory_item_for_use_in_transaction
Eligible(i) == memory[i].status = IF memory[i].scope = "private" THEN "active" ELSE "accepted"
Usable(r, i) == run[r].status = "active" /\ Eligible(i)

Cited(r, i) == {c \in cites : c.run = r /\ c.memory = i /\ c.version = memory[i].version}

\* The label after the highest of the run's reservations and receipts.
\* Variant: after the highest of its receipts.
AfterUsed(r, kind) == 1 + Cardinality({c \in cites : c.run = r /\ c.kind = kind /\ c.used})
NextLabel(r, kind) == 1 + Cardinality({c \in cites : c.run = r /\ c.kind = kind})

\* reserve_memory_citations
Reserve(r, i) ==
    /\ Usable(r, i) /\ Cited(r, i) = {}
    /\ left.cites > 0 /\ left' = [left EXCEPT !.cites = @ - 1]
    /\ cites' = cites \cup {[run |-> r, memory |-> i, version |-> memory[i].version, kind |-> Kind(i),
                             label |-> NextLabel(r, Kind(i)), used |-> FALSE]}
    /\ UNCHANGED <<delivery, request, memory>>

\* commit_memory_use_receipts
Use(c) ==
    /\ ~c.used /\ Usable(c.run, c.memory) /\ memory[c.memory].version = c.version
    /\ \A d \in cites : d.used /\ d.run = c.run /\ d.kind = c.kind /\ d.label = c.label
                            => <<d.memory, d.version>> = <<c.memory, c.version>>
    /\ cites' = (cites \ {c}) \cup {[c EXCEPT !.used = TRUE]}
    /\ UNCHANGED <<delivery, request, left, memory>>

-----------------------------------------------------------------------------

Next ==
    \/ NextDelivery /\ UNCHANGED <<memory, cites>>
    \/ (\E q \in Requests : ReadMemory(q) \/ CommitMemory(q)) \/ PromptMemory
    \/ \E r \in Runs, i \in Memories : Reserve(r, i)
    \/ \E c \in cites : Use(c)

Spec == Init /\ [][Next]_vars

-----------------------------------------------------------------------------
(* Correctness.                                                            *)

\* A task has one review to decide at a time and its rounds follow one another; a task
\* with runs is done only while its last delivery is an accepted one, whichever commands
\* moved it through its stages (submit_review and complete are for tasks without runs).
DeliveryReviewed ==
    \A t \in Tasks :
        /\ Cardinality(PendingOf(t)) <= 1
        /\ \A v, w \in reviews : v.task = t /\ w.task = t /\ v.round = w.round => v = w
        /\ task[t].stage = "done" /\ LinkedRuns(t) # {} =>
               \E v \in reviews : v.task = t /\ v.round = NextRound(t) - 1 /\ v.status = "accepted"

\* Concurrent changes of the dependencies of two tasks never close a cycle
\* (_validate_task_relationships_in_transaction).
GraphAcyclic == Acyclic([t \in Tasks |-> task[t].deps])

\* Whoever was asked can answer: a pending review of a delivery finds the task as it was
\* submitted, and a proposed memory can be rejected, whatever other commands have done
\* since; what is not proposed has no pending review (decide_task_review_command,
\* decide_memory_review, transition_memory).
DecisionsOpen ==
    /\ \A v \in reviews : v.status = "pending" => Decidable(v)
    /\ \A i \in Memories : IF memory[i].status = "proposed" THEN Judgeable(i) ELSE memory[i].verdict # "pending"

\* Two revisions of one item are never both in force, nor a revision with the item it
\* revises; what is in force was accepted by its reviewer and comes from an accepted
\* delivery (create_memory_revision, decide_memory_review, transition_memory).
OneCurrent ==
    \A i \in Memories : Current(i) =>
        /\ memory[i].verdict = "accepted" /\ Provenance(memory[i].origin)
        /\ \A j \in Memories \ {i} : Current(j) =>
               memory[i].source # j /\ (memory[i].source = memory[j].source => memory[i].source = 0)

\* A label of a run names one version of one item, in reservations as in receipts; a
\* receipt of an item's present version is of an item in force (memory_context).
CitationsTrue ==
    \A c \in cites :
        /\ \A d \in cites : c.run = d.run /\ c.kind = d.kind /\ c.label = d.label => c = d
        /\ c.used /\ c.version = memory[c.memory].version => Eligible(c.memory)
=============================================================================
