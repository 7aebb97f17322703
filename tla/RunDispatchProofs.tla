------------------------- MODULE RunDispatchProofs -------------------------
(***************************************************************************)
(* Proofs about RunDispatch, for any number of runs and threads, any       *)
(* capacity and any number of lost processes.  The last part shows that    *)
(* every transaction moves each run as DeliveryPromise allows.             *)
(***************************************************************************)
EXTENDS RunDispatch, TLAPS

-----------------------------------------------------------------------------
(* The inductive invariant, run by run.                                    *)

Before == {"absent", "planning", "waiting_input", "waiting_plan"}
Delivered(r) == status[r] \in Ended /\ projection[r] # "none"
Doing(op, r) == loop.op = op /\ loop.run = r

\* The work of an approved plan is not on offer before the approval, and a direct run
\* that waits for its input has nothing on offer at all.
Early(r) ==
    /\ status[r] \in Before => receipts[r]["approved"] = "none" /\ executions[r]["approved"] = 0
    /\ status[r] = "absent" \/ (r \notin Planned /\ status[r] = "waiting_input") =>
          receipts[r]["first"] = "none" /\ executions[r]["first"] = 0
    /\ status[r] \in {"planning", "waiting_plan"} => r \in Planned
    /\ status[r] = "absent" => task[r] = NoTask /\ thread[r] = "idle"

\* One receipt of a run is open at a time.
OneOpen(r) == ~(IsOpen(receipts[r]["first"]) /\ IsOpen(receipts[r]["approved"]))

\* What was executed is on offer again only until the first pass of the pump after a
\* restart has let it go; a run with an offer has nobody working on it.
Offers(r) ==
    \A k \in Kinds :
        receipts[r][k] = "pending" =>
            /\ phase = "serving" =>
                  executions[r][k] = 0 /\ status[r] \in Driven \cup Ended /\ thread[r] = "idle"
            /\ executions[r][k] = 0 \/ status[r] \in Waiting \cup Ended
            /\ task[r].at # "working"

\* Who works on a run, and that nobody else does.
Drivers(r) ==
    /\ task[r].at = "working" => status[r] \in Driven \cup Ended
    /\ thread[r] # "idle" => /\ r \in outside /\ task[r].at # "working" /\ phase = "serving"
                             /\ status[r] \in {"running"} \cup Ended
    /\ thread[r] = "projecting" => status[r] \in Ended
    /\ r \in expired => status[r] \in Waiting

\* What the loop knows of the run between two transactions.
Between(r) ==
    /\ Doing("launch", r) \/ Doing("refuse", r) =>
          /\ status[r] \in Driven /\ receipts[r][loop.kind] = "pending"
          /\ executions[r][loop.kind] = 0 /\ task[r].at # "working" /\ thread[r] = "idle"
    /\ Doing("project", r) \/ Doing("preview", r) => status[r] \in Ended
    /\ Doing("finish", r) \/ Doing("drop", r) \/ Doing("settle", r) =>
          r \in outside \/ Delivered(r) \/ status[r] \in Waiting

\* A run under a dispatch has an open receipt until its ending is projected.
Covered(r) ==
    r \in outside \/ (status[r] \in Driven \cup Ended /\ projection[r] = "none" =>
        IsOpen(receipts[r]["first"]) \/ IsOpen(receipts[r]["approved"]))

Once(r) == \A k \in Kinds : executions[r][k] =< 1

Projected(r) ==
    /\ projection[r] # "none" => projection[r] = status[r]
    /\ messages[r] = IF projection[r] \in {"completed", "rejected"} THEN 1 ELSE 0

Local(r) ==
    /\ Early(r) /\ OneOpen(r) /\ Offers(r) /\ Drivers(r) /\ Between(r) /\ Covered(r)
    /\ Once(r) /\ Projected(r)

\* A process that is being started has nothing under way.
Resting == loop = Idle /\ \A r \in Runs : task[r].at # "working"

IInv ==
    /\ TypeOK
    /\ \A r \in Runs : Local(r)
    /\ phase \in {"down", "orphans"} => Resting
    /\ OneActiveRun

\* What the invariant says of the properties the runs check.
LEMMA Meaning == IInv => ExecutedOnce /\ ProjectionTrue /\ EndingRecoverable /\ OneActiveRun
<1> SUFFICES ASSUME IInv PROVE ExecutedOnce /\ ProjectionTrue /\ EndingRecoverable
  BY DEF IInv
<1>1. ExecutedOnce
  BY DEF IInv, Local, Once, ExecutedOnce
<1>2. ProjectionTrue
  BY DEF IInv, Local, Projected, ProjectionTrue
<1>3. EndingRecoverable
  BY DEF IInv, Local, Covered, EndingRecoverable, Kinds
<1> QED BY <1>1, <1>2, <1>3

-----------------------------------------------------------------------------
(* Updates of one entry.                                                   *)

LEMMA StatusSet ==
  ASSUME TypeOK, NEW r \in Runs, NEW s \in Statuses, SetStatus(r, s)
  PROVE  /\ status' \in [Runs -> Statuses] /\ status'[r] = s
         /\ \A q \in Runs : q # r => status'[q] = status[q]
  BY DEF TypeOK, SetStatus

LEMMA ReceiptSet ==
  ASSUME TypeOK, NEW r \in Runs, NEW k \in Kinds, NEW s \in ReceiptStates, SetReceipt(r, k, s)
  PROVE  /\ receipts' \in [Runs -> [Kinds -> ReceiptStates]] /\ receipts'[r][k] = s
         /\ \A j \in Kinds : j # k => receipts'[r][j] = receipts[r][j]
         /\ \A q \in Runs : q # r => receipts'[q] = receipts[q]
  BY DEF TypeOK, SetReceipt

\* HandOff puts one receipt on offer and leaves no other one open.
LEMMA HandedOff ==
  ASSUME TypeOK, NEW r \in Runs, NEW k \in Kinds, HandOff(r, k)
  PROVE  /\ receipts' \in [Runs -> [Kinds -> ReceiptStates]] /\ receipts'[r][k] = "pending"
         /\ \A j \in Kinds : j # k => /\ ~IsOpen(receipts'[r][j])
                                      /\ receipts[r][j] = "none" => receipts'[r][j] = "none"
         /\ \A q \in Runs : q # r => receipts'[q] = receipts[q]
<1> DEFINE f == [j \in Kinds |-> IF j = k THEN "pending"
                                 ELSE IF IsOpen(receipts[r][j]) THEN "settled" ELSE receipts[r][j]]
<1>1. receipts' = [receipts EXCEPT ![r] = f]
  BY DEF HandOff
<1>2. f \in [Kinds -> ReceiptStates]
  BY DEF TypeOK, ReceiptStates
<1>3. receipts' \in [Runs -> [Kinds -> ReceiptStates]] /\ receipts'[r] = f
  BY <1>1, <1>2 DEF TypeOK
<1>4. \A q \in Runs : q # r => receipts'[q] = receipts[q]
  BY <1>1 DEF TypeOK
<1>5. \A j \in Kinds : j # k => /\ ~IsOpen(f[j])
                                /\ receipts[r][j] = "none" => f[j] = "none"
  BY DEF IsOpen
<1> QED BY <1>3, <1>4, <1>5

\* A claim starts an open receipt or changes nothing.
LEMMA ClaimIs ==
  ASSUME TypeOK, NEW r \in Runs, NEW k \in Kinds, Claim(r, k)
  PROVE  /\ receipts' \in [Runs -> [Kinds -> ReceiptStates]]
         /\ \A j \in Kinds : \/ receipts'[r][j] = receipts[r][j]
                             \/ IsOpen(receipts[r][j]) /\ receipts'[r][j] = "started"
         /\ \A q \in Runs : q # r => receipts'[q] = receipts[q]
<1>1. CASE Claimable(r, k)
  BY <1>1, ReceiptSet DEF Claim, Claimable, IsOpen, ReceiptStates
<1>2. CASE ~Claimable(r, k)
  BY <1>2 DEF Claim, TypeOK
<1> QED BY <1>1, <1>2

\* A settlement closes the receipt this process has started or changes nothing.
LEMMA SettleIs ==
  ASSUME TypeOK, NEW r \in Runs, NEW k \in Kinds, Settle(r, k)
  PROVE  /\ receipts' \in [Runs -> [Kinds -> ReceiptStates]]
         /\ \A j \in Kinds : \/ receipts'[r][j] = receipts[r][j]
                             \/ receipts[r][j] = "started" /\ receipts'[r][j] = "settled"
         /\ \A q \in Runs : q # r => receipts'[q] = receipts[q]
<1>1. CASE receipts[r][k] = "started"
  BY <1>1, ReceiptSet DEF Settle, ReceiptStates
<1>2. CASE receipts[r][k] # "started"
  BY <1>2 DEF Settle, TypeOK
<1> QED BY <1>1, <1>2

LEMMA TaskSet ==
  ASSUME TypeOK, NEW r \in Runs, NEW w \in Work, task' = [task EXCEPT ![r] = w]
  PROVE  /\ task' \in [Runs -> Work] /\ task'[r] = w
         /\ \A q \in Runs : q # r => task'[q] = task[q]
  BY DEF TypeOK

\* A background task moves on and keeps its kind.
LEMMA TaskMoved ==
  ASSUME TypeOK, NEW r \in Runs, NEW at \in {"none", "working", "cancelling", "done", "cancelled"},
         TaskEnds(r, at)
  PROVE  /\ task' \in [Runs -> Work] /\ task'[r].at = at /\ task'[r].kind = task[r].kind
         /\ \A q \in Runs : q # r => task'[q] = task[q]
<1> DEFINE w == [task[r] EXCEPT !.at = at]
<1>1. task[r] \in Work
  BY DEF TypeOK
<1>2. w \in Work /\ w.at = at /\ w.kind = task[r].kind
  BY <1>1 DEF Work
<1>3. task' = [task EXCEPT ![r] = w]
  BY DEF TaskEnds
<1> HIDE DEF w
<1> QED BY <1>2, <1>3, TaskSet

LEMMA ThreadSet ==
  ASSUME TypeOK, NEW r \in Runs, NEW a \in Requests, thread' = [thread EXCEPT ![r] = a]
  PROVE  /\ thread' \in [Runs -> Requests] /\ thread'[r] = a
         /\ \A q \in Runs : q # r => thread'[q] = thread[q]
  BY DEF TypeOK

\* After a projection the receipt and the thread agree with the ended run.
LEMMA ProjectIs ==
  ASSUME TypeOK, NEW r \in Runs, Projected(r), status[r] \in Ended, Project(r)
  PROVE  /\ projection' \in [Runs -> {"none"} \cup Ended] /\ messages' \in [Runs -> Nat]
         /\ projection'[r] = status[r]
         /\ messages'[r] = IF status[r] \in {"completed", "rejected"} THEN 1 ELSE 0
         /\ \A q \in Runs : q # r => projection'[q] = projection[q] /\ messages'[q] = messages[q]
<1>1. CASE projection[r] # "none"
  BY <1>1 DEF Project, Projected, TypeOK
<1>2. CASE projection[r] = "none"
  <2>1. messages[r] = 0
    BY <1>2 DEF Projected
  <2>2. /\ projection' = [projection EXCEPT ![r] = status[r]]
        /\ messages' = [messages EXCEPT ![r] =
                           messages[r] + (IF status[r] \in {"completed", "rejected"} THEN 1 ELSE 0)]
    BY <1>2 DEF Project
  <2>3. messages[r] + (IF status[r] \in {"completed", "rejected"} THEN 1 ELSE 0) \in Nat
    BY <2>1
  <2> QED BY <2>1, <2>2, <2>3 DEF TypeOK
<1> QED BY <1>1, <1>2

\* Only the run r is touched.
Elsewhere(r) ==
    /\ phase' = phase /\ chat' = chat
    /\ loop' = loop \/ loop'.op = "idle" \/ loop'.run = r
    /\ \A q \in Runs \ {r} :
          /\ status'[q] = status[q] /\ receipts'[q] = receipts[q] /\ executions'[q] = executions[q]
          /\ projection'[q] = projection[q] /\ messages'[q] = messages[q]
          /\ task'[q] = task[q] /\ thread'[q] = thread[q]
          /\ (q \in outside => q \in outside') /\ (q \in expired' => q \in expired)

\* A step that touches one run needs to be looked at for that run only.
LEMMA OneRun ==
  ASSUME IInv, NEW r \in Runs, Elsewhere(r), TypeOK', Local(r)',
         status'[r] \in Active => status[r] \in Active,
         phase \in {"down", "orphans"} => loop' = Idle /\ task'[r].at # "working"
  PROVE  IInv'
<1>1. ASSUME NEW q \in Runs PROVE Local(q)'
  <2>1. CASE q = r
    BY <2>1
  <2>2. CASE q # r
    <3>0. Local(q)
      BY DEF IInv
    <3>1. /\ status'[q] = status[q] /\ receipts'[q] = receipts[q] /\ executions'[q] = executions[q]
          /\ projection'[q] = projection[q] /\ messages'[q] = messages[q] /\ phase' = phase
          /\ task'[q] = task[q] /\ thread'[q] = thread[q]
          /\ (q \in outside => q \in outside') /\ (q \in expired' => q \in expired)
      BY <2>2 DEF Elsewhere
    <3>2. Early(q)' /\ OneOpen(q)' /\ Offers(q)' /\ Drivers(q)' /\ Covered(q)' /\ Once(q)' /\ Projected(q)'
      BY <3>0, <3>1 DEF Local, Early, OneOpen, Offers, Drivers, Covered, Once, Projected, IsOpen
    <3>3. loop' = loop \/ loop'.op = "idle" \/ loop'.run # q
      BY <2>2 DEF Elsewhere
    <3>4. Between(q)'
      BY <3>0, <3>1, <3>3 DEF Local, Between, Doing, Delivered
    <3> QED BY <3>2, <3>4 DEF Local
  <2> QED BY <2>1, <2>2
<1>2. OneActiveRun'
  BY DEF OneActiveRun, IInv, Elsewhere
<1>3. phase' \in {"down", "orphans"} => Resting'
  BY DEF IInv, Resting, Elsewhere
<1> QED BY <1>1, <1>2, <1>3 DEF IInv

-----------------------------------------------------------------------------
(* One lemma for each action that touches one run: what it does to the     *)
(* run, then the parts of the invariant for that run.                      *)

LEMMA TaskPausesKeeps == ASSUME IInv, NEW r \in Runs, TaskPauses(r) PROVE IInv'
<1>0. TypeOK /\ Local(r) /\ projection[r] \in {"none"} \cup Ended
  BY DEF IInv, TypeOK
<1>1. task[r].at = "working" /\ status[r] = "running" /\ loop = Idle /\ phase = "serving"
  BY DEF TaskPauses, Working, Serving
<1>2. status' \in [Runs -> Statuses] /\ status'[r] = "waiting_approval"
      /\ \A q \in Runs : q # r => status'[q] = status[q]
  BY <1>0, StatusSet DEF TaskPauses, Statuses, Active, Waiting, Driven, Ended
<1>3. /\ task' \in [Runs -> Work] /\ task'[r].at = "done" /\ task'[r].kind = task[r].kind
      /\ \A q \in Runs : q # r => task'[q] = task[q]
  BY <1>0, TaskMoved DEF TaskPauses
<1>4. UNCHANGED <<chat, receipts, projection, messages, expired, thread, reserved, loop, phase, crashes, executions, outside>>
  BY DEF TaskPauses
<1>5. TypeOK'
  BY <1>0, <1>1, <1>2, <1>3, <1>4 DEF TypeOK
<1>6. Elsewhere(r)
  BY <1>0, <1>1, <1>2, <1>3, <1>4 DEF Elsewhere, Idle
<1>7. Local(r)'
  <2>1. Early(r)'
    BY <1>0, <1>1, <1>2, <1>3, <1>4 DEF Idle, Local, Early, Before, IsOpen, NoTask, Offers, Between, Doing, Kinds, Drivers, Driven, Waiting, Ended
  <2>2. OneOpen(r)'
    BY <1>0, <1>1, <1>2, <1>3, <1>4 DEF Idle, Local, OneOpen, IsOpen, Early, Before, Kinds, Driven, Waiting, Ended
  <2>3. Offers(r)'
    BY <1>0, <1>1, <1>2, <1>3, <1>4 DEF Idle, Local, Offers, Drivers, Early, Before, OneOpen, IsOpen, Between, Doing, Kinds, Driven, Waiting, Ended
  <2>4. Drivers(r)'
    BY <1>0, <1>1, <1>2, <1>3, <1>4 DEF Idle, Local, Drivers, Offers, Between, Doing, Early, Driven, Waiting, Ended
  <2>5. Between(r)'
    BY <1>0, <1>1, <1>2, <1>3, <1>4 DEF Idle, Local, Between, Doing, Delivered, Drivers, Offers, Early, Driven, Waiting, Ended
  <2>6. Covered(r)'
    BY <1>0, <1>1, <1>2, <1>3, <1>4 DEF Idle, Local, Covered, Between, Doing, Delivered, Drivers, Projected, IsOpen, Kinds, Driven, Waiting, Ended
  <2>7. Once(r)'
    BY <1>0, <1>1, <1>2, <1>3, <1>4 DEF Idle, Local, Once, Kinds, Between, Doing
  <2>8. Projected(r)'
    BY <1>0, <1>1, <1>2, <1>3, <1>4 DEF Idle, Local, Projected, Between, Doing, Driven, Waiting, Ended
  <2> QED BY <2>1, <2>2, <2>3, <2>4, <2>5, <2>6, <2>7, <2>8 DEF Local
<1> QED BY <1>0, <1>1, <1>2, <1>3, <1>4, <1>5, <1>6, <1>7, OneRun DEF Active, Waiting, Driven, Ended, IInv, Resting

LEMMA TaskFailsKeeps == ASSUME IInv, NEW r \in Runs, TaskFails(r) PROVE IInv'
<1>0. TypeOK /\ Local(r) /\ projection[r] \in {"none"} \cup Ended
  BY DEF IInv, TypeOK
<1>1. task[r].at = "working" /\ status[r] \in Driven /\ loop = Idle /\ phase = "serving"
  BY DEF TaskFails, Working, Serving
<1>2. status' \in [Runs -> Statuses] /\ status'[r] = "failed"
      /\ \A q \in Runs : q # r => status'[q] = status[q]
  BY <1>0, StatusSet DEF TaskFails, Statuses, Active, Waiting, Driven, Ended
<1>3. /\ task' \in [Runs -> Work] /\ task'[r].at = "done" /\ task'[r].kind = task[r].kind
      /\ \A q \in Runs : q # r => task'[q] = task[q]
  BY <1>0, TaskMoved DEF TaskFails
<1>4. UNCHANGED <<chat, receipts, projection, messages, expired, thread, reserved, loop, phase, crashes, executions, outside>>
  BY DEF TaskFails
<1>5. TypeOK'
  BY <1>0, <1>1, <1>2, <1>3, <1>4 DEF TypeOK
<1>6. Elsewhere(r)
  BY <1>0, <1>1, <1>2, <1>3, <1>4 DEF Elsewhere, Idle
<1>7. Local(r)'
  <2>1. Early(r)'
    BY <1>0, <1>1, <1>2, <1>3, <1>4 DEF Idle, Local, Early, Before, IsOpen, NoTask, Offers, Between, Doing, Kinds, Drivers, Driven, Waiting, Ended
  <2>2. OneOpen(r)'
    BY <1>0, <1>1, <1>2, <1>3, <1>4 DEF Idle, Local, OneOpen, IsOpen, Early, Before, Kinds, Driven, Waiting, Ended
  <2>3. Offers(r)'
    BY <1>0, <1>1, <1>2, <1>3, <1>4 DEF Idle, Local, Offers, Drivers, Early, Before, OneOpen, IsOpen, Between, Doing, Kinds, Driven, Waiting, Ended
  <2>4. Drivers(r)'
    BY <1>0, <1>1, <1>2, <1>3, <1>4 DEF Idle, Local, Drivers, Offers, Between, Doing, Early, Driven, Waiting, Ended
  <2>5. Between(r)'
    BY <1>0, <1>1, <1>2, <1>3, <1>4 DEF Idle, Local, Between, Doing, Delivered, Drivers, Offers, Early, Driven, Waiting, Ended
  <2>6. Covered(r)'
    BY <1>0, <1>1, <1>2, <1>3, <1>4 DEF Idle, Local, Covered, Between, Doing, Delivered, Drivers, Projected, IsOpen, Kinds, Driven, Waiting, Ended
  <2>7. Once(r)'
    BY <1>0, <1>1, <1>2, <1>3, <1>4 DEF Idle, Local, Once, Kinds, Between, Doing
  <2>8. Projected(r)'
    BY <1>0, <1>1, <1>2, <1>3, <1>4 DEF Idle, Local, Projected, Between, Doing, Driven, Waiting, Ended
  <2> QED BY <2>1, <2>2, <2>3, <2>4, <2>5, <2>6, <2>7, <2>8 DEF Local
<1> QED BY <1>0, <1>1, <1>2, <1>3, <1>4, <1>5, <1>6, <1>7, OneRun DEF Active, Waiting, Driven, Ended, IInv, Resting

LEMMA TaskCancelledKeeps == ASSUME IInv, NEW r \in Runs, TaskCancelled(r) PROVE IInv'
<1>0. TypeOK /\ Local(r) /\ projection[r] \in {"none"} \cup Ended
  BY DEF IInv, TypeOK
<1>1. task[r].at = "cancelling" /\ loop = Idle /\ phase = "serving"
  BY DEF TaskCancelled, Serving
<1>2. TaskEnds(r, "cancelled")
  BY DEF TaskCancelled
<1>3. /\ task' \in [Runs -> Work] /\ task'[r].at = "cancelled" /\ task'[r].kind = task[r].kind
      /\ \A q \in Runs : q # r => task'[q] = task[q]
  BY <1>0, <1>2, TaskMoved
<1>4. UNCHANGED <<chat, status, receipts, projection, messages, expired, thread, reserved, loop, phase, crashes, executions, outside>>
  BY DEF TaskCancelled, stored
<1>5. TypeOK'
  BY <1>0, <1>1, <1>2, <1>3, <1>4 DEF TypeOK
<1>6. Elsewhere(r)
  BY <1>0, <1>1, <1>2, <1>3, <1>4 DEF Elsewhere, Idle
<1>7. Local(r)'
  <2>1. Early(r)'
    BY <1>0, <1>1, <1>2, <1>3, <1>4 DEF Idle, Local, Early, Before, IsOpen, NoTask, Offers, Between, Doing, Kinds, Drivers, Driven, Waiting, Ended
  <2>2. OneOpen(r)'
    BY <1>0, <1>1, <1>2, <1>3, <1>4 DEF Idle, Local, OneOpen, IsOpen, Early, Before, Kinds, Driven, Waiting, Ended
  <2>3. Offers(r)'
    BY <1>0, <1>1, <1>2, <1>3, <1>4 DEF Idle, Local, Offers, Drivers, Early, Before, OneOpen, IsOpen, Between, Doing, Kinds, Driven, Waiting, Ended
  <2>4. Drivers(r)'
    BY <1>0, <1>1, <1>2, <1>3, <1>4 DEF Idle, Local, Drivers, Offers, Between, Doing, Early, Driven, Waiting, Ended
  <2>5. Between(r)'
    BY <1>0, <1>1, <1>2, <1>3, <1>4 DEF Idle, Local, Between, Doing, Delivered, Drivers, Offers, Early, Driven, Waiting, Ended
  <2>6. Covered(r)'
    BY <1>0, <1>1, <1>2, <1>3, <1>4 DEF Idle, Local, Covered, Between, Doing, Delivered, Drivers, Projected, IsOpen, Kinds, Driven, Waiting, Ended
  <2>7. Once(r)'
    BY <1>0, <1>1, <1>2, <1>3, <1>4 DEF Idle, Local, Once, Kinds, Between, Doing
  <2>8. Projected(r)'
    BY <1>0, <1>1, <1>2, <1>3, <1>4 DEF Idle, Local, Projected, Between, Doing, Driven, Waiting, Ended
  <2> QED BY <2>1, <2>2, <2>3, <2>4, <2>5, <2>6, <2>7, <2>8 DEF Local
<1> QED BY <1>0, <1>1, <1>2, <1>3, <1>4, <1>5, <1>6, <1>7, OneRun DEF Active, Waiting, Driven, Ended, IInv, Resting

\* The output is stored: the loop goes on to project it.
LEMMA TaskCompletesKeeps == ASSUME IInv, NEW r \in Runs, TaskCompletes(r) PROVE IInv'
<1>0. TypeOK /\ Local(r) /\ projection[r] \in {"none"} \cup Ended
  BY DEF IInv, TypeOK
<1>1. task[r].at = "working" /\ status[r] = "running" /\ phase = "serving"
  BY DEF TaskCompletes, Working, Serving
<1>2. status' \in [Runs -> Statuses] /\ status'[r] = "completed"
      /\ \A q \in Runs : q # r => status'[q] = status[q]
  BY <1>0, StatusSet DEF TaskCompletes, Statuses, Active, Waiting, Driven, Ended
<1>3. loop' = [op |-> "project", run |-> r, kind |-> task[r].kind] /\ loop' \in Turns
  BY <1>0 DEF TaskCompletes, Busy, Turns, TypeOK, Work
<1>4. UNCHANGED <<chat, receipts, projection, messages, expired, task, thread, reserved, phase, crashes, executions, outside>>
  BY DEF TaskCompletes
<1>5. TypeOK'
  BY <1>0, <1>1, <1>2, <1>3, <1>4 DEF TypeOK
<1>6. Elsewhere(r)
  BY <1>0, <1>1, <1>2, <1>3, <1>4 DEF Elsewhere, TypeOK
<1>7. Local(r)'
  <2>1. Early(r)'
    BY <1>0, <1>1, <1>2, <1>3, <1>4 DEF Local, Early, Before, IsOpen, NoTask, Offers, Between, Doing, Kinds, Drivers, Driven, Waiting, Ended
  <2>2. OneOpen(r)'
    BY <1>0, <1>1, <1>2, <1>3, <1>4 DEF Local, OneOpen, IsOpen, Early, Before, Kinds, Driven, Waiting, Ended
  <2>3. Offers(r)'
    BY <1>0, <1>1, <1>2, <1>3, <1>4 DEF Local, Offers, Drivers, Early, Before, OneOpen, IsOpen, Between, Doing, Kinds, Driven, Waiting, Ended
  <2>4. Drivers(r)'
    BY <1>0, <1>1, <1>2, <1>3, <1>4 DEF Local, Drivers, Offers, Between, Doing, Early, Driven, Waiting, Ended
  <2>5. Between(r)'
    BY <1>0, <1>1, <1>2, <1>3, <1>4 DEF Local, Between, Doing, Delivered, Drivers, Offers, Early, Driven, Waiting, Ended
  <2>6. Covered(r)'
    BY <1>0, <1>1, <1>2, <1>3, <1>4 DEF Local, Covered, Between, Doing, Delivered, Drivers, Projected, IsOpen, Kinds, Driven, Waiting, Ended
  <2>7. Once(r)'
    BY <1>0, <1>1, <1>2, <1>3, <1>4 DEF Local, Once, Kinds, Between, Doing
  <2>8. Projected(r)'
    BY <1>0, <1>1, <1>2, <1>3, <1>4 DEF Local, Projected, Between, Doing, Driven, Waiting, Ended
  <2> QED BY <2>1, <2>2, <2>3, <2>4, <2>5, <2>6, <2>7, <2>8 DEF Local
<1> QED BY <1>0, <1>1, <1>2, <1>3, <1>4, <1>5, <1>6, <1>7, OneRun DEF Active, Waiting, Driven, Ended, IInv, Resting

\* The waiting run has no task and no offer: the thread is alone on it.
LEMMA ResumeClaimsKeeps == ASSUME IInv, NEW r \in Runs, ResumeClaims(r) PROVE IInv'
<1>0. TypeOK /\ Local(r) /\ projection[r] \in {"none"} \cup Ended
  BY DEF IInv, TypeOK
<1>1. thread[r] = "idle" /\ status[r] = "waiting_approval" /\ r \notin expired /\ phase = "serving"
  BY DEF ResumeClaims
<1>2. status' \in [Runs -> Statuses] /\ status'[r] = "running"
      /\ \A q \in Runs : q # r => status'[q] = status[q]
  BY <1>0, StatusSet DEF ResumeClaims, ThreadStep, Statuses, Active, Waiting, Driven, Ended
<1>3. /\ thread' \in [Runs -> Requests] /\ thread'[r] = "claimed"
      /\ \A q \in Runs : q # r => thread'[q] = thread[q]
  BY <1>0, ThreadSet DEF ResumeClaims, ThreadStep, Requests
<1>4. outside' = outside \cup {r}
  BY DEF ResumeClaims
<1>5. UNCHANGED <<chat, receipts, projection, messages, expired, task, reserved, loop, phase, crashes, executions>>
  BY DEF ResumeClaims, ThreadStep
<1>6. TypeOK'
  BY <1>0, <1>1, <1>2, <1>3, <1>4, <1>5 DEF TypeOK
<1>7. Elsewhere(r)
  BY <1>0, <1>1, <1>2, <1>3, <1>4, <1>5 DEF Elsewhere, TypeOK
<1>8. Local(r)'
  <2>1. Early(r)'
    BY <1>0, <1>1, <1>2, <1>3, <1>4, <1>5 DEF Local, Early, Before, IsOpen, NoTask, Offers, Between, Doing, Kinds, Drivers, Driven, Waiting, Ended
  <2>2. OneOpen(r)'
    BY <1>0, <1>1, <1>2, <1>3, <1>4, <1>5 DEF Local, OneOpen, IsOpen, Early, Before, Kinds, Driven, Waiting, Ended
  <2>3. Offers(r)'
    BY <1>0, <1>1, <1>2, <1>3, <1>4, <1>5 DEF Local, Offers, Drivers, Early, Before, OneOpen, IsOpen, Between, Doing, Kinds, Driven, Waiting, Ended
  <2>4. Drivers(r)'
    BY <1>0, <1>1, <1>2, <1>3, <1>4, <1>5 DEF Local, Drivers, Offers, Between, Doing, Early, Driven, Waiting, Ended
  <2>5. Between(r)'
    BY <1>0, <1>1, <1>2, <1>3, <1>4, <1>5 DEF Local, Between, Doing, Delivered, Drivers, Offers, Early, Driven, Waiting, Ended
  <2>6. Covered(r)'
    BY <1>0, <1>1, <1>2, <1>3, <1>4, <1>5 DEF Local, Covered, Between, Doing, Delivered, Drivers, Projected, IsOpen, Kinds, Driven, Waiting, Ended
  <2>7. Once(r)'
    BY <1>0, <1>1, <1>2, <1>3, <1>4, <1>5 DEF Local, Once, Kinds, Between, Doing
  <2>8. Projected(r)'
    BY <1>0, <1>1, <1>2, <1>3, <1>4, <1>5 DEF Local, Projected, Between, Doing, Driven, Waiting, Ended
  <2> QED BY <2>1, <2>2, <2>3, <2>4, <2>5, <2>6, <2>7, <2>8 DEF Local
<1> QED BY <1>0, <1>1, <1>2, <1>3, <1>4, <1>5, <1>6, <1>7, <1>8, OneRun DEF Active, Waiting, Driven, Ended, IInv, Resting

LEMMA RejectPlanKeeps == ASSUME IInv, NEW r \in Runs, RejectPlan(r) PROVE IInv'
<1>0. TypeOK /\ Local(r) /\ projection[r] \in {"none"} \cup Ended
  BY DEF IInv, TypeOK
<1>1. thread[r] = "idle" /\ status[r] = "waiting_plan" /\ r \notin expired /\ phase = "serving"
  BY DEF RejectPlan
<1>2. status' \in [Runs -> Statuses] /\ status'[r] = "rejected"
      /\ \A q \in Runs : q # r => status'[q] = status[q]
  BY <1>0, StatusSet DEF RejectPlan, ThreadStep, Statuses, Active, Waiting, Driven, Ended
<1>3. /\ thread' \in [Runs -> Requests] /\ thread'[r] = "projecting"
      /\ \A q \in Runs : q # r => thread'[q] = thread[q]
  BY <1>0, ThreadSet DEF RejectPlan, ThreadStep, Requests
<1>4. outside' = outside \cup {r}
  BY DEF RejectPlan
<1>5. UNCHANGED <<chat, receipts, projection, messages, expired, task, reserved, loop, phase, crashes, executions>>
  BY DEF RejectPlan, ThreadStep
<1>6. TypeOK'
  BY <1>0, <1>1, <1>2, <1>3, <1>4, <1>5 DEF TypeOK
<1>7. Elsewhere(r)
  BY <1>0, <1>1, <1>2, <1>3, <1>4, <1>5 DEF Elsewhere, TypeOK
<1>8. Local(r)'
  <2>1. Early(r)'
    BY <1>0, <1>1, <1>2, <1>3, <1>4, <1>5 DEF Local, Early, Before, IsOpen, NoTask, Offers, Between, Doing, Kinds, Drivers, Driven, Waiting, Ended
  <2>2. OneOpen(r)'
    BY <1>0, <1>1, <1>2, <1>3, <1>4, <1>5 DEF Local, OneOpen, IsOpen, Early, Before, Kinds, Driven, Waiting, Ended
  <2>3. Offers(r)'
    BY <1>0, <1>1, <1>2, <1>3, <1>4, <1>5 DEF Local, Offers, Drivers, Early, Before, OneOpen, IsOpen, Between, Doing, Kinds, Driven, Waiting, Ended
  <2>4. Drivers(r)'
    BY <1>0, <1>1, <1>2, <1>3, <1>4, <1>5 DEF Local, Drivers, Offers, Between, Doing, Early, Driven, Waiting, Ended
  <2>5. Between(r)'
    BY <1>0, <1>1, <1>2, <1>3, <1>4, <1>5 DEF Local, Between, Doing, Delivered, Drivers, Offers, Early, Driven, Waiting, Ended
  <2>6. Covered(r)'
    BY <1>0, <1>1, <1>2, <1>3, <1>4, <1>5 DEF Local, Covered, Between, Doing, Delivered, Drivers, Projected, IsOpen, Kinds, Driven, Waiting, Ended
  <2>7. Once(r)'
    BY <1>0, <1>1, <1>2, <1>3, <1>4, <1>5 DEF Local, Once, Kinds, Between, Doing
  <2>8. Projected(r)'
    BY <1>0, <1>1, <1>2, <1>3, <1>4, <1>5 DEF Local, Projected, Between, Doing, Driven, Waiting, Ended
  <2> QED BY <2>1, <2>2, <2>3, <2>4, <2>5, <2>6, <2>7, <2>8 DEF Local
<1> QED BY <1>0, <1>1, <1>2, <1>3, <1>4, <1>5, <1>6, <1>7, <1>8, OneRun DEF Active, Waiting, Driven, Ended, IInv, Resting

LEMMA AnswerThenApproveKeeps == ASSUME IInv, NEW r \in Runs, AnswerThenApprove(r) PROVE IInv'
<1>0. TypeOK /\ Local(r) /\ projection[r] \in {"none"} \cup Ended
  BY DEF IInv, TypeOK
<1>1. r \in Planned /\ status[r] = "waiting_input" /\ r \notin expired /\ loop = Idle /\ phase = "serving"
  BY DEF AnswerThenApprove, Serving
<1>2. status' \in [Runs -> Statuses] /\ status'[r] = "waiting_plan"
      /\ \A q \in Runs : q # r => status'[q] = status[q]
  BY <1>0, StatusSet DEF AnswerThenApprove, Statuses, Active, Waiting, Driven, Ended
<1>3. UNCHANGED <<chat, receipts, projection, messages, expired, task, thread, reserved, loop, phase, crashes, executions, outside>>
  BY DEF AnswerThenApprove, memory
<1>4. TypeOK'
  BY <1>0, <1>1, <1>2, <1>3 DEF TypeOK
<1>5. Elsewhere(r)
  BY <1>0, <1>1, <1>2, <1>3 DEF Elsewhere, Idle
<1>6. Local(r)'
  <2>1. Early(r)'
    BY <1>0, <1>1, <1>2, <1>3 DEF Idle, Local, Early, Before, IsOpen, NoTask, Offers, Between, Doing, Kinds, Drivers, Driven, Waiting, Ended
  <2>2. OneOpen(r)'
    BY <1>0, <1>1, <1>2, <1>3 DEF Idle, Local, OneOpen, IsOpen, Early, Before, Kinds, Driven, Waiting, Ended
  <2>3. Offers(r)'
    BY <1>0, <1>1, <1>2, <1>3 DEF Idle, Local, Offers, Drivers, Early, Before, OneOpen, IsOpen, Between, Doing, Kinds, Driven, Waiting, Ended
  <2>4. Drivers(r)'
    BY <1>0, <1>1, <1>2, <1>3 DEF Idle, Local, Drivers, Offers, Between, Doing, Early, Driven, Waiting, Ended
  <2>5. Between(r)'
    BY <1>0, <1>1, <1>2, <1>3 DEF Idle, Local, Between, Doing, Delivered, Drivers, Offers, Early, Driven, Waiting, Ended
  <2>6. Covered(r)'
    BY <1>0, <1>1, <1>2, <1>3 DEF Idle, Local, Covered, Between, Doing, Delivered, Drivers, Projected, IsOpen, Kinds, Driven, Waiting, Ended
  <2>7. Once(r)'
    BY <1>0, <1>1, <1>2, <1>3 DEF Idle, Local, Once, Kinds, Between, Doing
  <2>8. Projected(r)'
    BY <1>0, <1>1, <1>2, <1>3 DEF Idle, Local, Projected, Between, Doing, Driven, Waiting, Ended
  <2> QED BY <2>1, <2>2, <2>3, <2>4, <2>5, <2>6, <2>7, <2>8 DEF Local
<1> QED BY <1>0, <1>1, <1>2, <1>3, <1>4, <1>5, <1>6, OneRun DEF Active, Waiting, Driven, Ended, IInv, Resting

\* A run that waits, or that a thread works on, ends outside its dispatch.
LEMMA CancelKeeps == ASSUME IInv, NEW r \in Runs, Cancel(r) PROVE IInv'
<1>0. TypeOK /\ Local(r) /\ projection[r] \in {"none"} \cup Ended
  BY DEF IInv, TypeOK
<1>1. status[r] \in Active /\ loop = Idle /\ phase = "serving"
  BY DEF Cancel, Serving
<1>2. status' \in [Runs -> Statuses] /\ status'[r] = "cancelled"
      /\ \A q \in Runs : q # r => status'[q] = status[q]
  BY <1>0, StatusSet DEF Cancel, Statuses, Active, Waiting, Driven, Ended
<1>3. /\ task' \in [Runs -> Work] /\ (task'[r].at = "working" => FALSE)
      /\ \A q \in Runs : q # r => task'[q] = task[q]
  BY <1>0, TaskMoved DEF Cancel, TaskEnds, TypeOK
<1>4. /\ thread' \in [Runs -> Requests] /\ (thread'[r] = "idle" <=> thread[r] = "idle")
      /\ (thread'[r] = "projecting" => thread[r] = "projecting")
      /\ \A q \in Runs : q # r => thread'[q] = thread[q]
  BY DEF Cancel, IInv, TypeOK, Requests
<1>5. /\ outside' \subseteq Runs /\ outside \subseteq outside' /\ outside' \subseteq outside \cup {r}
      /\ (status[r] \in Waiting => r \in outside') /\ expired' = expired \ {r}
  BY <1>0 DEF Cancel, TypeOK
<1>6. UNCHANGED <<chat, receipts, projection, messages, reserved, loop, phase, crashes, executions>>
  BY DEF Cancel
<1>7. TypeOK'
  BY <1>0, <1>1, <1>2, <1>3, <1>4, <1>5, <1>6 DEF TypeOK
<1>8. Elsewhere(r)
  BY <1>0, <1>1, <1>2, <1>3, <1>4, <1>5, <1>6 DEF Elsewhere, Idle
<1>9. Local(r)'
  <2>1. Early(r)'
    BY <1>0, <1>1, <1>2, <1>3, <1>4, <1>5, <1>6 DEF Idle, Active, Local, Early, Before, IsOpen, NoTask, Offers, Between, Doing, Kinds, Drivers, Driven, Waiting, Ended
  <2>2. OneOpen(r)'
    BY <1>0, <1>1, <1>2, <1>3, <1>4, <1>5, <1>6 DEF Idle, Active, Local, OneOpen, IsOpen, Early, Before, Kinds, Driven, Waiting, Ended
  <2>3. Offers(r)'
    BY <1>0, <1>1, <1>2, <1>3, <1>4, <1>5, <1>6 DEF Idle, Active, Local, Offers, Drivers, Early, Before, OneOpen, IsOpen, Between, Doing, Kinds, Driven, Waiting, Ended
  <2>4. Drivers(r)'
    BY <1>0, <1>1, <1>2, <1>3, <1>4, <1>5, <1>6 DEF Idle, Active, Local, Drivers, Offers, Between, Doing, Early, Driven, Waiting, Ended
  <2>5. Between(r)'
    BY <1>0, <1>1, <1>2, <1>3, <1>4, <1>5, <1>6 DEF Idle, Active, Local, Between, Doing, Delivered, Drivers, Offers, Early, Driven, Waiting, Ended
  <2>6. Covered(r)'
    BY <1>0, <1>1, <1>2, <1>3, <1>4, <1>5, <1>6 DEF Idle, Active, Local, Covered, Between, Doing, Delivered, Drivers, Projected, IsOpen, Kinds, Driven, Waiting, Ended
  <2>7. Once(r)'
    BY <1>0, <1>1, <1>2, <1>3, <1>4, <1>5, <1>6 DEF Idle, Active, Local, Once, Kinds, Between, Doing
  <2>8. Projected(r)'
    BY <1>0, <1>1, <1>2, <1>3, <1>4, <1>5, <1>6 DEF Idle, Active, Local, Projected, Between, Doing, Driven, Waiting, Ended
  <2> QED BY <2>1, <2>2, <2>3, <2>4, <2>5, <2>6, <2>7, <2>8 DEF Local
<1> QED BY <1>0, <1>1, <1>2, <1>3, <1>4, <1>5, <1>6, <1>7, <1>8, <1>9, OneRun DEF Active, Waiting, Driven, Ended, IInv, Resting

LEMMA ExpireKeeps == ASSUME IInv, NEW r \in Runs, Expire(r) PROVE IInv'
<1>0. TypeOK /\ Local(r) /\ projection[r] \in {"none"} \cup Ended
  BY DEF IInv, TypeOK
<1>1. status[r] \in Waiting /\ expired' = expired \cup {r}
  BY DEF Expire
<1>2. UNCHANGED <<chat, status, receipts, projection, messages, task, thread, reserved, loop, phase, crashes, executions, outside>>
  BY DEF Expire, stored, memory
<1>3. TypeOK'
  BY <1>0, <1>1, <1>2 DEF TypeOK
<1>4. Elsewhere(r)
  BY <1>0, <1>1, <1>2 DEF Elsewhere, Expire
<1>5. Local(r)'
  <2>1. Early(r)'
    BY <1>0, <1>1, <1>2 DEF Local, Early, Before, IsOpen, NoTask, Offers, Between, Doing, Kinds, Drivers, Driven, Waiting, Ended
  <2>2. OneOpen(r)'
    BY <1>0, <1>1, <1>2 DEF Local, OneOpen, IsOpen, Early, Before, Kinds, Driven, Waiting, Ended
  <2>3. Offers(r)'
    BY <1>0, <1>1, <1>2 DEF Local, Offers, Drivers, Early, Before, OneOpen, IsOpen, Between, Doing, Kinds, Driven, Waiting, Ended
  <2>4. Drivers(r)'
    BY <1>0, <1>1, <1>2 DEF Local, Drivers, Offers, Between, Doing, Early, Driven, Waiting, Ended
  <2>5. Between(r)'
    BY <1>0, <1>1, <1>2 DEF Local, Between, Doing, Delivered, Drivers, Offers, Early, Driven, Waiting, Ended
  <2>6. Covered(r)'
    BY <1>0, <1>1, <1>2 DEF Local, Covered, Between, Doing, Delivered, Drivers, Projected, IsOpen, Kinds, Driven, Waiting, Ended
  <2>7. Once(r)'
    BY <1>0, <1>1, <1>2 DEF Local, Once, Kinds, Between, Doing
  <2>8. Projected(r)'
    BY <1>0, <1>1, <1>2 DEF Local, Projected, Between, Doing, Driven, Waiting, Ended
  <2> QED BY <2>1, <2>2, <2>3, <2>4, <2>5, <2>6, <2>7, <2>8 DEF Local
<1> QED BY <1>0, <1>1, <1>2, <1>3, <1>4, <1>5, OneRun DEF Active, Waiting, Driven, Ended, IInv, Resting

LEMMA TaskPlansKeeps == ASSUME IInv, NEW r \in Runs, TaskPlans(r) PROVE IInv'
<1>0. TypeOK /\ Local(r) /\ projection[r] \in {"none"} \cup Ended
  BY DEF IInv, TypeOK
<1>1. task[r].at = "working" /\ status[r] = "planning" /\ loop = Idle /\ phase = "serving"
  BY DEF TaskPlans, Working, Serving
<1>2. /\ status' \in [Runs -> Statuses] /\ status'[r] \in {"waiting_input", "waiting_plan", "running"}
      /\ \A q \in Runs : q # r => status'[q] = status[q]
  BY <1>0, StatusSet DEF TaskPlans, Statuses, Active, Waiting, Driven, Ended
<1>3. /\ task' \in [Runs -> Work] /\ task'[r].at = (IF status'[r] = "running" THEN "working" ELSE "done")
      /\ \A q \in Runs : q # r => task'[q] = task[q]
  <2>1. CASE SetStatus(r, "running") /\ UNCHANGED task
    BY <1>0, <1>1, <1>2, <2>1 DEF SetStatus, TypeOK
  <2>2. CASE (SetStatus(r, "waiting_input") \/ SetStatus(r, "waiting_plan")) /\ TaskEnds(r, "done")
    BY <1>0, <2>2, TaskMoved DEF SetStatus, TypeOK
  <2> QED BY <2>1, <2>2 DEF TaskPlans
<1>4. UNCHANGED <<chat, receipts, projection, messages, expired, thread, reserved, loop, phase, crashes, executions, outside>>
  BY DEF TaskPlans
<1>5. TypeOK'
  BY <1>0, <1>1, <1>2, <1>3, <1>4 DEF TypeOK
<1>6. Elsewhere(r)
  BY <1>0, <1>1, <1>2, <1>3, <1>4 DEF Elsewhere, Idle
<1>7. Local(r)'
  <2>1. Early(r)'
    BY <1>0, <1>1, <1>2, <1>3, <1>4 DEF Idle, Local, Early, Before, IsOpen, NoTask, Offers, Between, Doing, Kinds, Drivers, Driven, Waiting, Ended
  <2>2. OneOpen(r)'
    BY <1>0, <1>1, <1>2, <1>3, <1>4 DEF Idle, Local, OneOpen, IsOpen, Early, Before, Kinds, Driven, Waiting, Ended
  <2>3. Offers(r)'
    BY <1>0, <1>1, <1>2, <1>3, <1>4 DEF Idle, Local, Offers, Drivers, Early, Before, OneOpen, IsOpen, Between, Doing, Kinds, Driven, Waiting, Ended
  <2>4. Drivers(r)'
    BY <1>0, <1>1, <1>2, <1>3, <1>4 DEF Idle, Local, Drivers, Offers, Between, Doing, Early, Driven, Waiting, Ended
  <2>5. Between(r)'
    BY <1>0, <1>1, <1>2, <1>3, <1>4 DEF Idle, Local, Between, Doing, Delivered, Drivers, Offers, Early, Driven, Waiting, Ended
  <2>6. Covered(r)'
    BY <1>0, <1>1, <1>2, <1>3, <1>4 DEF Idle, Local, Covered, Between, Doing, Delivered, Drivers, Projected, IsOpen, Kinds, Driven, Waiting, Ended
  <2>7. Once(r)'
    BY <1>0, <1>1, <1>2, <1>3, <1>4 DEF Idle, Local, Once, Kinds, Between, Doing
  <2>8. Projected(r)'
    BY <1>0, <1>1, <1>2, <1>3, <1>4 DEF Idle, Local, Projected, Between, Doing, Driven, Waiting, Ended
  <2> QED BY <2>1, <2>2, <2>3, <2>4, <2>5, <2>6, <2>7, <2>8 DEF Local
<1> QED BY <1>0, <1>1, <1>2, <1>3, <1>4, <1>5, <1>6, <1>7, OneRun DEF Active, Waiting, Driven, Ended, IInv, Resting

LEMMA TaskProjectsKeeps == ASSUME IInv, NEW r \in Runs, TaskProjects(r) PROVE IInv'
<1>0. TypeOK /\ Local(r) /\ projection[r] \in {"none"} \cup Ended
  BY DEF IInv, TypeOK
<1>1. loop = [op |-> "project", run |-> r, kind |-> task[r].kind] /\ status[r] \in Ended
  BY <1>0 DEF TaskProjects, Busy, Local, Between, Doing
<1>2. /\ projection' \in [Runs -> {"none"} \cup Ended] /\ messages' \in [Runs -> Nat]
      /\ projection'[r] = status[r]
      /\ messages'[r] = (IF status[r] \in {"completed", "rejected"} THEN 1 ELSE 0)
      /\ \A q \in Runs : q # r => projection'[q] = projection[q] /\ messages'[q] = messages[q]
  BY <1>0, <1>1, ProjectIs DEF TaskProjects, Local
<1>3. /\ task' \in [Runs -> Work] /\ task'[r].at = "done" /\ task'[r].kind = task[r].kind
      /\ \A q \in Runs : q # r => task'[q] = task[q]
  BY <1>0, TaskMoved DEF TaskProjects
<1>4. loop' = Idle
  BY DEF TaskProjects
<1>5. UNCHANGED <<chat, status, receipts, expired, thread, reserved, phase, crashes, executions, outside>>
  BY DEF TaskProjects
<1>6. TypeOK'
  BY <1>0, <1>1, <1>2, <1>3, <1>4, <1>5 DEF TypeOK, Turns
<1>7. Elsewhere(r)
  BY <1>0, <1>1, <1>2, <1>3, <1>4, <1>5 DEF Elsewhere, Idle
<1>8. Local(r)'
  <2>1. Early(r)'
    BY <1>0, <1>1, <1>2, <1>3, <1>4, <1>5 DEF Idle, Local, Early, Before, IsOpen, NoTask, Offers, Between, Doing, Kinds, Drivers, Driven, Waiting, Ended
  <2>2. OneOpen(r)'
    BY <1>0, <1>1, <1>2, <1>3, <1>4, <1>5 DEF Idle, Local, OneOpen, IsOpen, Early, Before, Kinds, Driven, Waiting, Ended
  <2>3. Offers(r)'
    BY <1>0, <1>1, <1>2, <1>3, <1>4, <1>5 DEF Idle, Local, Offers, Drivers, Early, Before, OneOpen, IsOpen, Between, Doing, Kinds, Driven, Waiting, Ended
  <2>4. Drivers(r)'
    BY <1>0, <1>1, <1>2, <1>3, <1>4, <1>5 DEF Idle, Local, Drivers, Offers, Between, Doing, Early, Driven, Waiting, Ended
  <2>5. Between(r)'
    BY <1>0, <1>1, <1>2, <1>3, <1>4, <1>5 DEF Idle, Local, Between, Doing, Delivered, Drivers, Offers, Early, Driven, Waiting, Ended
  <2>6. Covered(r)'
    BY <1>0, <1>1, <1>2, <1>3, <1>4, <1>5 DEF Idle, Local, Covered, Between, Doing, Delivered, Drivers, Projected, IsOpen, Kinds, Driven, Waiting, Ended
  <2>7. Once(r)'
    BY <1>0, <1>1, <1>2, <1>3, <1>4, <1>5 DEF Idle, Local, Once, Kinds, Between, Doing
  <2>8. Projected(r)'
    BY <1>0, <1>1, <1>2, <1>3, <1>4, <1>5 DEF Idle, Local, Projected, Between, Doing, Driven, Waiting, Ended
  <2> QED BY <2>1, <2>2, <2>3, <2>4, <2>5, <2>6, <2>7, <2>8 DEF Local
<1> QED BY <1>0, <1>1, <1>2, <1>3, <1>4, <1>5, <1>6, <1>7, <1>8, OneRun DEF Active, Waiting, Driven, Ended, IInv, Resting

LEMMA ThreadProjectsKeeps == ASSUME IInv, NEW r \in Runs, ThreadProjects(r) PROVE IInv'
<1>0. TypeOK /\ Local(r) /\ projection[r] \in {"none"} \cup Ended
  BY DEF IInv, TypeOK
<1>1. thread[r] = "projecting" /\ status[r] \in Ended
  BY <1>0 DEF ThreadProjects, Local, Drivers
<1>2. /\ projection' \in [Runs -> {"none"} \cup Ended] /\ messages' \in [Runs -> Nat]
      /\ projection'[r] = status[r]
      /\ messages'[r] = (IF status[r] \in {"completed", "rejected"} THEN 1 ELSE 0)
      /\ \A q \in Runs : q # r => projection'[q] = projection[q] /\ messages'[q] = messages[q]
  BY <1>0, <1>1, ProjectIs DEF ThreadProjects, Local
<1>3. /\ thread' \in [Runs -> Requests] /\ thread'[r] = "idle"
      /\ \A q \in Runs : q # r => thread'[q] = thread[q]
  BY <1>0, ThreadSet DEF ThreadProjects, Requests
<1>4. UNCHANGED <<chat, status, receipts, expired, task, reserved, loop, phase, crashes, executions, outside>>
  BY DEF ThreadProjects
<1>5. TypeOK'
  BY <1>0, <1>1, <1>2, <1>3, <1>4 DEF TypeOK
<1>6. Elsewhere(r)
  BY <1>0, <1>1, <1>2, <1>3, <1>4 DEF Elsewhere, TypeOK
<1>7. Local(r)'
  <2>1. Early(r)'
    BY <1>0, <1>1, <1>2, <1>3, <1>4 DEF Local, Early, Before, IsOpen, NoTask, Offers, Between, Doing, Kinds, Drivers, Driven, Waiting, Ended
  <2>2. OneOpen(r)'
    BY <1>0, <1>1, <1>2, <1>3, <1>4 DEF Local, OneOpen, IsOpen, Early, Before, Kinds, Driven, Waiting, Ended
  <2>3. Offers(r)'
    BY <1>0, <1>1, <1>2, <1>3, <1>4 DEF Local, Offers, Drivers, Early, Before, OneOpen, IsOpen, Between, Doing, Kinds, Driven, Waiting, Ended
  <2>4. Drivers(r)'
    BY <1>0, <1>1, <1>2, <1>3, <1>4 DEF Local, Drivers, Offers, Between, Doing, Early, Driven, Waiting, Ended
  <2>5. Between(r)'
    BY <1>0, <1>1, <1>2, <1>3, <1>4 DEF Local, Between, Doing, Delivered, Drivers, Offers, Early, Driven, Waiting, Ended
  <2>6. Covered(r)'
    BY <1>0, <1>1, <1>2, <1>3, <1>4 DEF Local, Covered, Between, Doing, Delivered, Drivers, Projected, IsOpen, Kinds, Driven, Waiting, Ended
  <2>7. Once(r)'
    BY <1>0, <1>1, <1>2, <1>3, <1>4 DEF Local, Once, Kinds, Between, Doing
  <2>8. Projected(r)'
    BY <1>0, <1>1, <1>2, <1>3, <1>4 DEF Local, Projected, Between, Doing, Driven, Waiting, Ended
  <2> QED BY <2>1, <2>2, <2>3, <2>4, <2>5, <2>6, <2>7, <2>8 DEF Local
<1> QED BY <1>0, <1>1, <1>2, <1>3, <1>4, <1>5, <1>6, <1>7, OneRun DEF Active, Waiting, Driven, Ended, IInv, Resting

\* The callback projects an ending before it goes on to settle.
LEMMA FinishProjectsKeeps == ASSUME IInv, NEW r \in Runs, FinishProjects(r) PROVE IInv'
<1>0. TypeOK /\ Local(r) /\ projection[r] \in {"none"} \cup Ended
  BY DEF IInv, TypeOK
<1>1. task[r].at \in {"done", "cancelled"} /\ loop = Idle /\ phase = "serving"
  BY DEF FinishProjects, Serving
<1>2. /\ projection' \in [Runs -> {"none"} \cup Ended] /\ messages' \in [Runs -> Nat]
      /\ IF status[r] \in Ended
         THEN /\ projection'[r] = status[r]
              /\ messages'[r] = (IF status[r] \in {"completed", "rejected"} THEN 1 ELSE 0)
         ELSE projection'[r] = projection[r] /\ messages'[r] = messages[r]
      /\ \A q \in Runs : q # r => projection'[q] = projection[q] /\ messages'[q] = messages[q]
  <2>1. CASE status[r] \in Ended
    BY <1>0, <2>1, ProjectIs DEF FinishProjects, Local
  <2>2. CASE status[r] \notin Ended
    BY <1>0, <2>2 DEF FinishProjects, TypeOK
  <2> QED BY <2>1, <2>2
<1>3. task' \in [Runs -> Work] /\ task'[r].at # "working" /\ (status[r] = "absent" => task'[r] = NoTask) /\ \A q \in Runs : q # r => task'[q] = task[q]
  <2>1. NoTask \in Work /\ NoTask.at = "none"
    BY DEF NoTask, Work, Kinds
  <2> QED BY <1>0, <1>1, <2>1, TaskSet DEF FinishProjects, TypeOK, Local, Early
<1>4. /\ loop' \in Turns
      /\ loop' = Idle \/ (loop' = [op |-> "finish", run |-> r, kind |-> task[r].kind] /\ status[r] \in Ended \cup Waiting)
  BY <1>0, <1>1 DEF FinishProjects, Busy, Turns, TypeOK, Work
<1>5. reserved' \subseteq Runs \X Kinds
  BY <1>0 DEF FinishProjects, TypeOK
<1>6. UNCHANGED <<chat, status, receipts, expired, thread, phase, crashes, executions, outside>>
  BY DEF FinishProjects
<1>7. TypeOK'
  BY <1>0, <1>1, <1>2, <1>3, <1>4, <1>5, <1>6 DEF TypeOK
<1>8. Elsewhere(r)
  BY <1>0, <1>1, <1>2, <1>3, <1>4, <1>5, <1>6 DEF Elsewhere, Idle
<1>9. Local(r)'
  <2>1. Early(r)'
    BY <1>0, <1>1, <1>2, <1>3, <1>4, <1>5, <1>6 DEF Idle, Local, Early, Before, IsOpen, NoTask, Offers, Between, Doing, Kinds, Drivers, Driven, Waiting, Ended
  <2>2. OneOpen(r)'
    BY <1>0, <1>1, <1>2, <1>3, <1>4, <1>5, <1>6 DEF Idle, Local, OneOpen, IsOpen, Early, Before, Kinds, Driven, Waiting, Ended
  <2>3. Offers(r)'
    BY <1>0, <1>1, <1>2, <1>3, <1>4, <1>5, <1>6 DEF Idle, Local, Offers, Drivers, Early, Before, OneOpen, IsOpen, Between, Doing, Kinds, Driven, Waiting, Ended
  <2>4. Drivers(r)'
    BY <1>0, <1>1, <1>2, <1>3, <1>4, <1>5, <1>6 DEF Idle, Local, Drivers, Offers, Between, Doing, Early, Driven, Waiting, Ended
  <2>5. Between(r)'
    BY <1>0, <1>1, <1>2, <1>3, <1>4, <1>5, <1>6 DEF Idle, Local, Between, Doing, Delivered, Drivers, Offers, Early, Driven, Waiting, Ended
  <2>6. Covered(r)'
    BY <1>0, <1>1, <1>2, <1>3, <1>4, <1>5, <1>6 DEF Idle, Local, Covered, Between, Doing, Delivered, Drivers, Projected, IsOpen, Kinds, Driven, Waiting, Ended
  <2>7. Once(r)'
    BY <1>0, <1>1, <1>2, <1>3, <1>4, <1>5, <1>6 DEF Idle, Local, Once, Kinds, Between, Doing
  <2>8. Projected(r)'
    BY <1>0, <1>1, <1>2, <1>3, <1>4, <1>5, <1>6 DEF Idle, Local, Projected, Between, Doing, Driven, Waiting, Ended
  <2> QED BY <2>1, <2>2, <2>3, <2>4, <2>5, <2>6, <2>7, <2>8 DEF Local
<1> QED BY <1>0, <1>1, <1>2, <1>3, <1>4, <1>5, <1>6, <1>7, <1>8, <1>9, OneRun DEF Active, Waiting, Driven, Ended, IInv, Resting

\* What is settled has been projected, waits, or is outside its dispatch.
LEMMA FinishSettlesKeeps == ASSUME IInv, NEW r \in Runs, FinishSettles(r) PROVE IInv'
<1>0. TypeOK /\ Local(r) /\ projection[r] \in {"none"} \cup Ended
  BY DEF IInv, TypeOK
<1>1. loop = [op |-> "finish", run |-> r, kind |-> task[r].kind] /\ task[r].kind \in Kinds
  BY <1>0 DEF FinishSettles, Busy, TypeOK, Work
<1>2. /\ receipts' \in [Runs -> [Kinds -> ReceiptStates]]
      /\ \A j \in Kinds : receipts'[r][j] = receipts[r][j] \/ (receipts[r][j] = "started" /\ receipts'[r][j] = "settled")
      /\ \A q \in Runs : q # r => receipts'[q] = receipts[q]
  BY <1>0, <1>1, SettleIs DEF FinishSettles
<1>3. task' \in [Runs -> Work] /\ task'[r] = NoTask /\ task'[r].at = "none" /\ \A q \in Runs : q # r => task'[q] = task[q]
  <2>1. NoTask \in Work /\ NoTask.at = "none"
    BY DEF NoTask, Work, Kinds
  <2> QED BY <1>0, <2>1, TaskSet DEF FinishSettles
<1>4. loop' = Idle /\ reserved' \subseteq Runs \X Kinds
  BY <1>0 DEF FinishSettles, TypeOK
<1>5. UNCHANGED <<chat, status, projection, messages, expired, thread, phase, crashes, executions, outside>>
  BY DEF FinishSettles
<1>6. TypeOK'
  BY <1>0, <1>1, <1>2, <1>3, <1>4, <1>5 DEF TypeOK, Turns
<1>7. Elsewhere(r)
  BY <1>0, <1>1, <1>2, <1>3, <1>4, <1>5 DEF Elsewhere, Idle
<1>8. Local(r)'
  <2>1. Early(r)'
    BY <1>0, <1>1, <1>2, <1>3, <1>4, <1>5 DEF Idle, Local, Early, Before, IsOpen, NoTask, Offers, Between, Doing, Kinds, Drivers, Driven, Waiting, Ended
  <2>2. OneOpen(r)'
    BY <1>0, <1>1, <1>2, <1>3, <1>4, <1>5 DEF Idle, Local, OneOpen, IsOpen, Early, Before, Kinds, Driven, Waiting, Ended
  <2>3. Offers(r)'
    BY <1>0, <1>1, <1>2, <1>3, <1>4, <1>5 DEF Idle, Local, Offers, Drivers, Early, Before, OneOpen, IsOpen, Between, Doing, Kinds, Driven, Waiting, Ended
  <2>4. Drivers(r)'
    BY <1>0, <1>1, <1>2, <1>3, <1>4, <1>5 DEF Idle, Local, Drivers, Offers, Between, Doing, Early, Driven, Waiting, Ended
  <2>5. Between(r)'
    BY <1>0, <1>1, <1>2, <1>3, <1>4, <1>5 DEF Idle, Local, Between, Doing, Delivered, Drivers, Offers, Early, Driven, Waiting, Ended
  <2>6. Covered(r)'
    BY <1>0, <1>1, <1>2, <1>3, <1>4, <1>5 DEF Idle, Local, Covered, Between, Doing, Delivered, Drivers, Projected, IsOpen, Kinds, Driven, Waiting, Ended
  <2>7. Once(r)'
    BY <1>0, <1>1, <1>2, <1>3, <1>4, <1>5 DEF Idle, Local, Once, Kinds, Between, Doing
  <2>8. Projected(r)'
    BY <1>0, <1>1, <1>2, <1>3, <1>4, <1>5 DEF Idle, Local, Projected, Between, Doing, Driven, Waiting, Ended
  <2> QED BY <2>1, <2>2, <2>3, <2>4, <2>5, <2>6, <2>7, <2>8 DEF Local
<1> QED BY <1>0, <1>1, <1>2, <1>3, <1>4, <1>5, <1>6, <1>7, <1>8, OneRun DEF Active, Waiting, Driven, Ended, IInv, Resting

\* The pump projects an ending before it lets the receipt go.
LEMMA PumpProjectsKeeps == ASSUME IInv, NEW r \in Runs, NEW k \in Kinds, PumpProjects(r, k) PROVE IInv'
<1>0. TypeOK /\ Local(r) /\ projection[r] \in {"none"} \cup Ended
  BY DEF IInv, TypeOK
<1>1. status[r] \in Ended /\ loop = Idle /\ phase \in {"draining", "serving"}
  BY DEF PumpProjects, Pumping
<1>2. /\ projection' \in [Runs -> {"none"} \cup Ended] /\ messages' \in [Runs -> Nat]
      /\ projection'[r] = status[r]
      /\ messages'[r] = (IF status[r] \in {"completed", "rejected"} THEN 1 ELSE 0)
      /\ \A q \in Runs : q # r => projection'[q] = projection[q] /\ messages'[q] = messages[q]
  BY <1>0, <1>1, ProjectIs DEF PumpProjects, Local
<1>3. loop' = [op |-> "drop", run |-> r, kind |-> k] /\ loop' \in Turns
  BY DEF PumpProjects, Busy, Turns
<1>4. UNCHANGED <<chat, status, receipts, expired, task, thread, reserved, phase, crashes, executions, outside>>
  BY DEF PumpProjects
<1>5. TypeOK'
  BY <1>0, <1>1, <1>2, <1>3, <1>4 DEF TypeOK
<1>6. Elsewhere(r)
  BY <1>0, <1>1, <1>2, <1>3, <1>4 DEF Elsewhere, Idle
<1>7. Local(r)'
  <2>1. Early(r)'
    BY <1>0, <1>1, <1>2, <1>3, <1>4 DEF Idle, Local, Early, Before, IsOpen, NoTask, Offers, Between, Doing, Kinds, Drivers, Driven, Waiting, Ended
  <2>2. OneOpen(r)'
    BY <1>0, <1>1, <1>2, <1>3, <1>4 DEF Idle, Local, OneOpen, IsOpen, Early, Before, Kinds, Driven, Waiting, Ended
  <2>3. Offers(r)'
    BY <1>0, <1>1, <1>2, <1>3, <1>4 DEF Idle, Local, Offers, Drivers, Early, Before, OneOpen, IsOpen, Between, Doing, Kinds, Driven, Waiting, Ended
  <2>4. Drivers(r)'
    BY <1>0, <1>1, <1>2, <1>3, <1>4 DEF Idle, Local, Drivers, Offers, Between, Doing, Early, Driven, Waiting, Ended
  <2>5. Between(r)'
    BY <1>0, <1>1, <1>2, <1>3, <1>4 DEF Idle, Local, Between, Doing, Delivered, Drivers, Offers, Early, Driven, Waiting, Ended
  <2>6. Covered(r)'
    BY <1>0, <1>1, <1>2, <1>3, <1>4 DEF Idle, Local, Covered, Between, Doing, Delivered, Drivers, Projected, IsOpen, Kinds, Driven, Waiting, Ended
  <2>7. Once(r)'
    BY <1>0, <1>1, <1>2, <1>3, <1>4 DEF Idle, Local, Once, Kinds, Between, Doing
  <2>8. Projected(r)'
    BY <1>0, <1>1, <1>2, <1>3, <1>4 DEF Idle, Local, Projected, Between, Doing, Driven, Waiting, Ended
  <2> QED BY <2>1, <2>2, <2>3, <2>4, <2>5, <2>6, <2>7, <2>8 DEF Local
<1> QED BY <1>0, <1>1, <1>2, <1>3, <1>4, <1>5, <1>6, <1>7, OneRun DEF Active, Waiting, Driven, Ended, IInv, Resting

LEMMA PumpSkipsWaitingKeeps == ASSUME IInv, NEW r \in Runs, NEW k \in Kinds, PumpSkipsWaiting(r, k) PROVE IInv'
<1>0. TypeOK /\ Local(r) /\ projection[r] \in {"none"} \cup Ended
  BY DEF IInv, TypeOK
<1>1. status[r] \in Waiting /\ loop = Idle /\ phase \in {"draining", "serving"}
  BY DEF PumpSkipsWaiting, Pumping
<1>2. loop' = [op |-> "drop", run |-> r, kind |-> k] /\ loop' \in Turns
  BY DEF PumpSkipsWaiting, Busy, Turns
<1>3. UNCHANGED <<chat, status, receipts, projection, messages, expired, task, thread, reserved, phase, crashes, executions, outside>>
  BY DEF PumpSkipsWaiting, stored
<1>4. TypeOK'
  BY <1>0, <1>1, <1>2, <1>3 DEF TypeOK
<1>5. Elsewhere(r)
  BY <1>0, <1>1, <1>2, <1>3 DEF Elsewhere, Idle
<1>6. Local(r)'
  <2>1. Early(r)'
    BY <1>0, <1>1, <1>2, <1>3 DEF Idle, Local, Early, Before, IsOpen, NoTask, Offers, Between, Doing, Kinds, Drivers, Driven, Waiting, Ended
  <2>2. OneOpen(r)'
    BY <1>0, <1>1, <1>2, <1>3 DEF Idle, Local, OneOpen, IsOpen, Early, Before, Kinds, Driven, Waiting, Ended
  <2>3. Offers(r)'
    BY <1>0, <1>1, <1>2, <1>3 DEF Idle, Local, Offers, Drivers, Early, Before, OneOpen, IsOpen, Between, Doing, Kinds, Driven, Waiting, Ended
  <2>4. Drivers(r)'
    BY <1>0, <1>1, <1>2, <1>3 DEF Idle, Local, Drivers, Offers, Between, Doing, Early, Driven, Waiting, Ended
  <2>5. Between(r)'
    BY <1>0, <1>1, <1>2, <1>3 DEF Idle, Local, Between, Doing, Delivered, Drivers, Offers, Early, Driven, Waiting, Ended
  <2>6. Covered(r)'
    BY <1>0, <1>1, <1>2, <1>3 DEF Idle, Local, Covered, Between, Doing, Delivered, Drivers, Projected, IsOpen, Kinds, Driven, Waiting, Ended
  <2>7. Once(r)'
    BY <1>0, <1>1, <1>2, <1>3 DEF Idle, Local, Once, Kinds, Between, Doing
  <2>8. Projected(r)'
    BY <1>0, <1>1, <1>2, <1>3 DEF Idle, Local, Projected, Between, Doing, Driven, Waiting, Ended
  <2> QED BY <2>1, <2>2, <2>3, <2>4, <2>5, <2>6, <2>7, <2>8 DEF Local
<1> QED BY <1>0, <1>1, <1>2, <1>3, <1>4, <1>5, <1>6, OneRun DEF Active, Waiting, Driven, Ended, IInv, Resting

\* A driven run with an offer has nobody working on it: the offer was never executed.
LEMMA PumpLaunchesKeeps == ASSUME IInv, NEW r \in Runs, NEW k \in Kinds, PumpLaunches(r, k) PROVE IInv'
<1>0. TypeOK /\ Local(r) /\ projection[r] \in {"none"} \cup Ended
  BY DEF IInv, TypeOK
<1>1. status[r] \in Driven /\ receipts[r][k] = "pending" /\ loop = Idle /\ phase \in {"draining", "serving"}
  BY DEF PumpLaunches, Pumping
<1>2. loop' = [op |-> "launch", run |-> r, kind |-> k] /\ loop' \in Turns
  BY DEF PumpLaunches, Busy, Turns
<1>3. reserved' \subseteq Runs \X Kinds
  BY <1>0 DEF PumpLaunches, TypeOK
<1>4. UNCHANGED <<chat, status, receipts, projection, messages, expired, task, thread, phase, crashes, executions, outside>>
  BY DEF PumpLaunches, stored
<1>5. TypeOK'
  BY <1>0, <1>1, <1>2, <1>3, <1>4 DEF TypeOK
<1>6. Elsewhere(r)
  BY <1>0, <1>1, <1>2, <1>3, <1>4 DEF Elsewhere, Idle
<1>7. Local(r)'
  <2>1. Early(r)'
    BY <1>0, <1>1, <1>2, <1>3, <1>4 DEF Idle, Local, Early, Before, IsOpen, NoTask, Offers, Between, Doing, Kinds, Drivers, Driven, Waiting, Ended
  <2>2. OneOpen(r)'
    BY <1>0, <1>1, <1>2, <1>3, <1>4 DEF Idle, Local, OneOpen, IsOpen, Early, Before, Kinds, Driven, Waiting, Ended
  <2>3. Offers(r)'
    BY <1>0, <1>1, <1>2, <1>3, <1>4 DEF Idle, Local, Offers, Drivers, Early, Before, OneOpen, IsOpen, Between, Doing, Kinds, Driven, Waiting, Ended
  <2>4. Drivers(r)'
    BY <1>0, <1>1, <1>2, <1>3, <1>4 DEF Idle, Local, Drivers, Offers, Between, Doing, Early, Driven, Waiting, Ended
  <2>5. Between(r)'
    BY <1>0, <1>1, <1>2, <1>3, <1>4 DEF Idle, Local, Between, Doing, Delivered, Drivers, Offers, Early, Driven, Waiting, Ended
  <2>6. Covered(r)'
    BY <1>0, <1>1, <1>2, <1>3, <1>4 DEF Idle, Local, Covered, Between, Doing, Delivered, Drivers, Projected, IsOpen, Kinds, Driven, Waiting, Ended
  <2>7. Once(r)'
    BY <1>0, <1>1, <1>2, <1>3, <1>4 DEF Idle, Local, Once, Kinds, Between, Doing
  <2>8. Projected(r)'
    BY <1>0, <1>1, <1>2, <1>3, <1>4 DEF Idle, Local, Projected, Between, Doing, Driven, Waiting, Ended
  <2> QED BY <2>1, <2>2, <2>3, <2>4, <2>5, <2>6, <2>7, <2>8 DEF Local
<1> QED BY <1>0, <1>1, <1>2, <1>3, <1>4, <1>5, <1>6, <1>7, OneRun DEF Active, Waiting, Driven, Ended, IInv, Resting

LEMMA PumpClaimsKeeps == ASSUME IInv, NEW r \in Runs, NEW k \in Kinds, PumpClaims(r, k) PROVE IInv'
<1>0. TypeOK /\ Local(r) /\ projection[r] \in {"none"} \cup Ended
  BY DEF IInv, TypeOK
<1>1. loop = [op |-> "drop", run |-> r, kind |-> k]
  BY DEF PumpClaims, Busy
<1>2. /\ receipts' \in [Runs -> [Kinds -> ReceiptStates]]
      /\ \A j \in Kinds : receipts'[r][j] = receipts[r][j] \/ (IsOpen(receipts[r][j]) /\ receipts'[r][j] = "started")
      /\ \A q \in Runs : q # r => receipts'[q] = receipts[q]
  BY <1>0, ClaimIs DEF PumpClaims
<1>3. loop' = Idle \/ loop' = [op |-> "settle", run |-> r, kind |-> k]
  BY DEF PumpClaims, Busy
<1>4. loop' \in Turns
  BY <1>3 DEF Turns
<1>5. UNCHANGED <<chat, status, projection, messages, expired, task, thread, reserved, phase, crashes, executions, outside>>
  BY DEF PumpClaims
<1>6. TypeOK'
  BY <1>0, <1>1, <1>2, <1>3, <1>4, <1>5 DEF TypeOK
<1>7. Elsewhere(r)
  BY <1>0, <1>1, <1>2, <1>3, <1>4, <1>5 DEF Elsewhere, Idle
<1>8. Local(r)'
  <2>1. Early(r)'
    BY <1>0, <1>1, <1>2, <1>3, <1>4, <1>5 DEF Idle, Local, Early, Before, IsOpen, NoTask, Offers, Between, Doing, Kinds, Drivers, Driven, Waiting, Ended
  <2>2. OneOpen(r)'
    BY <1>0, <1>1, <1>2, <1>3, <1>4, <1>5 DEF Idle, Local, OneOpen, IsOpen, Early, Before, Kinds, Driven, Waiting, Ended
  <2>3. Offers(r)'
    BY <1>0, <1>1, <1>2, <1>3, <1>4, <1>5 DEF Idle, Local, Offers, Drivers, Early, Before, OneOpen, IsOpen, Between, Doing, Kinds, Driven, Waiting, Ended
  <2>4. Drivers(r)'
    BY <1>0, <1>1, <1>2, <1>3, <1>4, <1>5 DEF Idle, Local, Drivers, Offers, Between, Doing, Early, Driven, Waiting, Ended
  <2>5. Between(r)'
    BY <1>0, <1>1, <1>2, <1>3, <1>4, <1>5 DEF Idle, Local, Between, Doing, Delivered, Drivers, Offers, Early, Driven, Waiting, Ended
  <2>6. Covered(r)'
    BY <1>0, <1>1, <1>2, <1>3, <1>4, <1>5 DEF Idle, Local, Covered, Between, Doing, Delivered, Drivers, Projected, IsOpen, Kinds, Driven, Waiting, Ended
  <2>7. Once(r)'
    BY <1>0, <1>1, <1>2, <1>3, <1>4, <1>5 DEF Idle, Local, Once, Kinds, Between, Doing
  <2>8. Projected(r)'
    BY <1>0, <1>1, <1>2, <1>3, <1>4, <1>5 DEF Idle, Local, Projected, Between, Doing, Driven, Waiting, Ended
  <2> QED BY <2>1, <2>2, <2>3, <2>4, <2>5, <2>6, <2>7, <2>8 DEF Local
<1> QED BY <1>0, <1>1, <1>2, <1>3, <1>4, <1>5, <1>6, <1>7, <1>8, OneRun DEF Active, Waiting, Driven, Ended, IInv, Resting, Idle

LEMMA PumpSettlesKeeps == ASSUME IInv, NEW r \in Runs, NEW k \in Kinds, PumpSettles(r, k) PROVE IInv'
<1>0. TypeOK /\ Local(r) /\ projection[r] \in {"none"} \cup Ended
  BY DEF IInv, TypeOK
<1>1. loop = [op |-> "settle", run |-> r, kind |-> k]
  BY DEF PumpSettles, Busy
<1>2. /\ receipts' \in [Runs -> [Kinds -> ReceiptStates]]
      /\ \A j \in Kinds : receipts'[r][j] = receipts[r][j] \/ (receipts[r][j] = "started" /\ receipts'[r][j] = "settled")
      /\ \A q \in Runs : q # r => receipts'[q] = receipts[q]
  BY <1>0, SettleIs DEF PumpSettles
<1>3. loop' = Idle /\ loop' \in Turns
  BY DEF PumpSettles, Turns
<1>4. UNCHANGED <<chat, status, projection, messages, expired, task, thread, reserved, phase, crashes, executions, outside>>
  BY DEF PumpSettles
<1>5. TypeOK'
  BY <1>0, <1>1, <1>2, <1>3, <1>4 DEF TypeOK
<1>6. Elsewhere(r)
  BY <1>0, <1>1, <1>2, <1>3, <1>4 DEF Elsewhere, Idle
<1>7. Local(r)'
  <2>1. Early(r)'
    BY <1>0, <1>1, <1>2, <1>3, <1>4 DEF Idle, Local, Early, Before, IsOpen, NoTask, Offers, Between, Doing, Kinds, Drivers, Driven, Waiting, Ended
  <2>2. OneOpen(r)'
    BY <1>0, <1>1, <1>2, <1>3, <1>4 DEF Idle, Local, OneOpen, IsOpen, Early, Before, Kinds, Driven, Waiting, Ended
  <2>3. Offers(r)'
    BY <1>0, <1>1, <1>2, <1>3, <1>4 DEF Idle, Local, Offers, Drivers, Early, Before, OneOpen, IsOpen, Between, Doing, Kinds, Driven, Waiting, Ended
  <2>4. Drivers(r)'
    BY <1>0, <1>1, <1>2, <1>3, <1>4 DEF Idle, Local, Drivers, Offers, Between, Doing, Early, Driven, Waiting, Ended
  <2>5. Between(r)'
    BY <1>0, <1>1, <1>2, <1>3, <1>4 DEF Idle, Local, Between, Doing, Delivered, Drivers, Offers, Early, Driven, Waiting, Ended
  <2>6. Covered(r)'
    BY <1>0, <1>1, <1>2, <1>3, <1>4 DEF Idle, Local, Covered, Between, Doing, Delivered, Drivers, Projected, IsOpen, Kinds, Driven, Waiting, Ended
  <2>7. Once(r)'
    BY <1>0, <1>1, <1>2, <1>3, <1>4 DEF Idle, Local, Once, Kinds, Between, Doing
  <2>8. Projected(r)'
    BY <1>0, <1>1, <1>2, <1>3, <1>4 DEF Idle, Local, Projected, Between, Doing, Driven, Waiting, Ended
  <2> QED BY <2>1, <2>2, <2>3, <2>4, <2>5, <2>6, <2>7, <2>8 DEF Local
<1> QED BY <1>0, <1>1, <1>2, <1>3, <1>4, <1>5, <1>6, <1>7, OneRun DEF Active, Waiting, Driven, Ended, IInv, Resting

LEMMA ResumeRegistersKeeps == ASSUME IInv, NEW r \in Runs, ResumeRegisters(r) PROVE IInv'
<1>0. TypeOK /\ Local(r) /\ projection[r] \in {"none"} \cup Ended
  BY DEF IInv, TypeOK
<1>1. thread[r] = "claimed" /\ status[r] \in Statuses
  BY <1>0 DEF ResumeRegisters, TypeOK
<1>2. status' \in [Runs -> Statuses] /\ status'[r] = status[r]
      /\ \A q \in Runs : q # r => status'[q] = status[q]
  BY <1>0, <1>1, StatusSet DEF ResumeRegisters, ThreadStep
<1>3. /\ thread' \in [Runs -> Requests] /\ thread'[r] = "driving"
      /\ \A q \in Runs : q # r => thread'[q] = thread[q]
  BY <1>0, ThreadSet DEF ResumeRegisters, ThreadStep, Requests
<1>4. UNCHANGED <<chat, receipts, projection, messages, expired, task, reserved, loop, phase, crashes, executions, outside>>
  BY DEF ResumeRegisters, ThreadStep
<1>5. TypeOK'
  BY <1>0, <1>1, <1>2, <1>3, <1>4 DEF TypeOK
<1>6. Elsewhere(r)
  BY <1>0, <1>1, <1>2, <1>3, <1>4 DEF Elsewhere, TypeOK
<1>7. Local(r)'
  <2>1. Early(r)'
    BY <1>0, <1>1, <1>2, <1>3, <1>4 DEF Local, Early, Before, IsOpen, NoTask, Offers, Between, Doing, Kinds, Drivers, Driven, Waiting, Ended
  <2>2. OneOpen(r)'
    BY <1>0, <1>1, <1>2, <1>3, <1>4 DEF Local, OneOpen, IsOpen, Early, Before, Kinds, Driven, Waiting, Ended
  <2>3. Offers(r)'
    BY <1>0, <1>1, <1>2, <1>3, <1>4 DEF Local, Offers, Drivers, Early, Before, OneOpen, IsOpen, Between, Doing, Kinds, Driven, Waiting, Ended
  <2>4. Drivers(r)'
    BY <1>0, <1>1, <1>2, <1>3, <1>4 DEF Local, Drivers, Offers, Between, Doing, Early, Driven, Waiting, Ended
  <2>5. Between(r)'
    BY <1>0, <1>1, <1>2, <1>3, <1>4 DEF Local, Between, Doing, Delivered, Drivers, Offers, Early, Driven, Waiting, Ended
  <2>6. Covered(r)'
    BY <1>0, <1>1, <1>2, <1>3, <1>4 DEF Local, Covered, Between, Doing, Delivered, Drivers, Projected, IsOpen, Kinds, Driven, Waiting, Ended
  <2>7. Once(r)'
    BY <1>0, <1>1, <1>2, <1>3, <1>4 DEF Local, Once, Kinds, Between, Doing
  <2>8. Projected(r)'
    BY <1>0, <1>1, <1>2, <1>3, <1>4 DEF Local, Projected, Between, Doing, Driven, Waiting, Ended
  <2> QED BY <2>1, <2>2, <2>3, <2>4, <2>5, <2>6, <2>7, <2>8 DEF Local
<1> QED BY <1>0, <1>1, <1>2, <1>3, <1>4, <1>5, <1>6, <1>7, OneRun DEF Active, Waiting, Driven, Ended, IInv, Resting

LEMMA ResumeCancelledKeeps == ASSUME IInv, NEW r \in Runs, ResumeCancelled(r) PROVE IInv'
<1>0. TypeOK /\ Local(r) /\ projection[r] \in {"none"} \cup Ended
  BY DEF IInv, TypeOK
<1>1. thread[r] = "cancelling" /\ status[r] \in Statuses
  BY <1>0 DEF ResumeCancelled, TypeOK
<1>2. status' \in [Runs -> Statuses] /\ status'[r] = status[r]
      /\ \A q \in Runs : q # r => status'[q] = status[q]
  BY <1>0, <1>1, StatusSet DEF ResumeCancelled, ThreadStep
<1>3. /\ thread' \in [Runs -> Requests] /\ thread'[r] = "idle"
      /\ \A q \in Runs : q # r => thread'[q] = thread[q]
  BY <1>0, ThreadSet DEF ResumeCancelled, ThreadStep, Requests
<1>4. UNCHANGED <<chat, receipts, projection, messages, expired, task, reserved, loop, phase, crashes, executions, outside>>
  BY DEF ResumeCancelled, ThreadStep
<1>5. TypeOK'
  BY <1>0, <1>1, <1>2, <1>3, <1>4 DEF TypeOK
<1>6. Elsewhere(r)
  BY <1>0, <1>1, <1>2, <1>3, <1>4 DEF Elsewhere, TypeOK
<1>7. Local(r)'
  <2>1. Early(r)'
    BY <1>0, <1>1, <1>2, <1>3, <1>4 DEF Local, Early, Before, IsOpen, NoTask, Offers, Between, Doing, Kinds, Drivers, Driven, Waiting, Ended
  <2>2. OneOpen(r)'
    BY <1>0, <1>1, <1>2, <1>3, <1>4 DEF Local, OneOpen, IsOpen, Early, Before, Kinds, Driven, Waiting, Ended
  <2>3. Offers(r)'
    BY <1>0, <1>1, <1>2, <1>3, <1>4 DEF Local, Offers, Drivers, Early, Before, OneOpen, IsOpen, Between, Doing, Kinds, Driven, Waiting, Ended
  <2>4. Drivers(r)'
    BY <1>0, <1>1, <1>2, <1>3, <1>4 DEF Local, Drivers, Offers, Between, Doing, Early, Driven, Waiting, Ended
  <2>5. Between(r)'
    BY <1>0, <1>1, <1>2, <1>3, <1>4 DEF Local, Between, Doing, Delivered, Drivers, Offers, Early, Driven, Waiting, Ended
  <2>6. Covered(r)'
    BY <1>0, <1>1, <1>2, <1>3, <1>4 DEF Local, Covered, Between, Doing, Delivered, Drivers, Projected, IsOpen, Kinds, Driven, Waiting, Ended
  <2>7. Once(r)'
    BY <1>0, <1>1, <1>2, <1>3, <1>4 DEF Local, Once, Kinds, Between, Doing
  <2>8. Projected(r)'
    BY <1>0, <1>1, <1>2, <1>3, <1>4 DEF Local, Projected, Between, Doing, Driven, Waiting, Ended
  <2> QED BY <2>1, <2>2, <2>3, <2>4, <2>5, <2>6, <2>7, <2>8 DEF Local
<1> QED BY <1>0, <1>1, <1>2, <1>3, <1>4, <1>5, <1>6, <1>7, OneRun DEF Active, Waiting, Driven, Ended, IInv, Resting

LEMMA ResumeEndsKeeps == ASSUME IInv, NEW r \in Runs, ResumeEnds(r) PROVE IInv'
<1>0. TypeOK /\ Local(r) /\ projection[r] \in {"none"} \cup Ended
  BY DEF IInv, TypeOK
<1>1. thread[r] = "driving" /\ status[r] \in Statuses
  BY <1>0 DEF ResumeEnds, TypeOK
<1>2. \E s \in Statuses, a \in {"idle", "projecting"} :
        /\ ThreadStep(r, s, a)
        /\ (s = status[r] /\ a = "idle") \/ (status[r] = "running" /\ s = "completed")
              \/ (status[r] = "running" /\ a = "idle" /\ s \in {"waiting_approval", "failed"})
  BY <1>1 DEF ResumeEnds, Statuses, Active, Waiting, Driven, Ended
<1>3. /\ status' \in [Runs -> Statuses] /\ thread' \in [Runs -> Requests]
      /\ (status'[r] = status[r] /\ thread'[r] = "idle")
            \/ (status[r] = "running" /\ status'[r] = "completed" /\ thread'[r] \in {"idle", "projecting"})
            \/ (status[r] = "running" /\ thread'[r] = "idle" /\ status'[r] \in {"waiting_approval", "failed"})
      /\ \A q \in Runs : q # r => status'[q] = status[q] /\ thread'[q] = thread[q]
  BY <1>0, <1>2, StatusSet, ThreadSet DEF ThreadStep, Requests
<1>4. UNCHANGED <<chat, receipts, projection, messages, expired, task, reserved, loop, phase, crashes, executions, outside>>
  BY DEF ResumeEnds, ThreadStep
<1>5. TypeOK'
  BY <1>0, <1>1, <1>2, <1>3, <1>4 DEF TypeOK
<1>6. Elsewhere(r)
  BY <1>0, <1>1, <1>2, <1>3, <1>4 DEF Elsewhere, TypeOK
<1>7. Local(r)'
  <2>1. Early(r)'
    BY <1>0, <1>1, <1>2, <1>3, <1>4 DEF Local, Early, Before, IsOpen, NoTask, Offers, Between, Doing, Kinds, Drivers, Driven, Waiting, Ended
  <2>2. OneOpen(r)'
    BY <1>0, <1>1, <1>2, <1>3, <1>4 DEF Local, OneOpen, IsOpen, Early, Before, Kinds, Driven, Waiting, Ended
  <2>3. Offers(r)'
    BY <1>0, <1>1, <1>2, <1>3, <1>4 DEF Local, Offers, Drivers, Early, Before, OneOpen, IsOpen, Between, Doing, Kinds, Driven, Waiting, Ended
  <2>4. Drivers(r)'
    BY <1>0, <1>1, <1>2, <1>3, <1>4 DEF Local, Drivers, Offers, Between, Doing, Early, Driven, Waiting, Ended
  <2>5. Between(r)'
    BY <1>0, <1>1, <1>2, <1>3, <1>4 DEF Local, Between, Doing, Delivered, Drivers, Offers, Early, Driven, Waiting, Ended
  <2>6. Covered(r)'
    BY <1>0, <1>1, <1>2, <1>3, <1>4 DEF Local, Covered, Between, Doing, Delivered, Drivers, Projected, IsOpen, Kinds, Driven, Waiting, Ended
  <2>7. Once(r)'
    BY <1>0, <1>1, <1>2, <1>3, <1>4 DEF Local, Once, Kinds, Between, Doing
  <2>8. Projected(r)'
    BY <1>0, <1>1, <1>2, <1>3, <1>4 DEF Local, Projected, Between, Doing, Driven, Waiting, Ended
  <2> QED BY <2>1, <2>2, <2>3, <2>4, <2>5, <2>6, <2>7, <2>8 DEF Local
<1> QED BY <1>0, <1>1, <1>2, <1>3, <1>4, <1>5, <1>6, <1>7, OneRun DEF Active, Waiting, Driven, Ended, IInv, Resting

\* The one step that executes: the receipt is still on offer and never was executed.
LEMMA LaunchKeeps == ASSUME IInv, NEW r \in Runs, NEW k \in Kinds, Launch(r, k) PROVE IInv'
<1>0. TypeOK /\ Local(r) /\ projection[r] \in {"none"} \cup Ended
  BY DEF IInv, TypeOK
<1>1. /\ loop = [op |-> "launch", run |-> r, kind |-> k] /\ status[r] \in Driven /\ receipts[r][k] = "pending"
      /\ executions[r][k] = 0 /\ task[r].at # "working" /\ thread[r] = "idle"
  BY <1>0 DEF Launch, Busy, Local, Between, Doing
<1>2. /\ receipts' \in [Runs -> [Kinds -> ReceiptStates]] /\ receipts'[r][k] = "started"
      /\ \A j \in Kinds : j # k => receipts'[r][j] = receipts[r][j]
      /\ \A q \in Runs : q # r => receipts'[q] = receipts[q]
  BY <1>0, <1>1, ReceiptSet DEF Launch, Claim, Claimable, ReceiptStates
<1>3. /\ task' \in [Runs -> Work] /\ task'[r].at = "working"
      /\ \A q \in Runs : q # r => task'[q] = task[q]
  <2>1. [at |-> "working", kind |-> k] \in Work
    BY DEF Work
  <2> QED BY <1>0, <1>1, <2>1, TaskSet DEF Launch, Claimable
<1>4. /\ executions' \in [Runs -> [Kinds -> Nat]] /\ executions'[r][k] = 1
      /\ \A j \in Kinds : j # k => executions'[r][j] = executions[r][j]
      /\ \A q \in Runs : q # r => executions'[q] = executions[q]
  <2>1. executions' = [executions EXCEPT ![r][k] = executions[r][k] + 1]
    BY <1>1 DEF Launch, Claimable
  <2>2. executions[r][k] + 1 = 1
    BY <1>1
  <2>3. executions' = [executions EXCEPT ![r][k] = 1]
    BY <2>1, <2>2
  <2> QED BY <1>0, <2>3 DEF TypeOK
<1>5. loop' = Idle /\ reserved' = reserved
  BY <1>1 DEF Launch, Claimable
<1>6. UNCHANGED <<chat, status, projection, messages, expired, thread, phase, crashes, outside>>
  BY DEF Launch
<1>7. TypeOK'
  BY <1>0, <1>1, <1>2, <1>3, <1>4, <1>5, <1>6 DEF TypeOK, Turns
<1>8. Elsewhere(r)
  BY <1>0, <1>1, <1>2, <1>3, <1>4, <1>5, <1>6 DEF Elsewhere, Idle
<1>9. Local(r)'
  <2>1. Early(r)'
    BY <1>0, <1>1, <1>2, <1>3, <1>4, <1>5, <1>6 DEF Idle, Local, Early, Before, IsOpen, NoTask, Offers, Between, Doing, Kinds, Drivers, Driven, Waiting, Ended
  <2>2. OneOpen(r)'
    BY <1>0, <1>1, <1>2, <1>3, <1>4, <1>5, <1>6 DEF Idle, Local, OneOpen, IsOpen, Early, Before, Kinds, Driven, Waiting, Ended
  <2>3. Offers(r)'
    BY <1>0, <1>1, <1>2, <1>3, <1>4, <1>5, <1>6 DEF Idle, Local, Offers, Drivers, Early, Before, OneOpen, IsOpen, Between, Doing, Kinds, Driven, Waiting, Ended
  <2>4. Drivers(r)'
    BY <1>0, <1>1, <1>2, <1>3, <1>4, <1>5, <1>6 DEF Idle, Local, Drivers, Offers, Between, Doing, Early, Driven, Waiting, Ended
  <2>5. Between(r)'
    BY <1>0, <1>1, <1>2, <1>3, <1>4, <1>5, <1>6 DEF Idle, Local, Between, Doing, Delivered, Drivers, Offers, Early, Driven, Waiting, Ended
  <2>6. Covered(r)'
    BY <1>0, <1>1, <1>2, <1>3, <1>4, <1>5, <1>6 DEF Idle, Local, Covered, Between, Doing, Delivered, Drivers, Projected, IsOpen, Kinds, Driven, Waiting, Ended
  <2>7. Once(r)'
    BY <1>0, <1>1, <1>2, <1>3, <1>4, <1>5, <1>6 DEF Idle, Local, Once, Kinds, Between, Doing
  <2>8. Projected(r)'
    BY <1>0, <1>1, <1>2, <1>3, <1>4, <1>5, <1>6 DEF Idle, Local, Projected, Between, Doing, Driven, Waiting, Ended
  <2> QED BY <2>1, <2>2, <2>3, <2>4, <2>5, <2>6, <2>7, <2>8 DEF Local
<1> QED BY <1>0, <1>1, <1>2, <1>3, <1>4, <1>5, <1>6, <1>7, <1>8, <1>9, OneRun DEF Active, Waiting, Driven, Ended, IInv, Resting, Idle

\* The answered run gets the offer of work that was not on offer before.
LEMMA AnswerInputKeeps == ASSUME IInv, NEW r \in Runs, AnswerInput(r) PROVE IInv'
<1>0. TypeOK /\ Local(r) /\ projection[r] \in {"none"} \cup Ended
  BY DEF IInv, TypeOK
<1>1. status[r] = "waiting_input" /\ r \notin expired /\ loop = Idle /\ phase = "serving"
  BY DEF AnswerInput, Serving
<1>2. status' \in [Runs -> Statuses] /\ status'[r] = "running"
      /\ \A q \in Runs : q # r => status'[q] = status[q]
  BY <1>0, StatusSet DEF AnswerInput, Statuses, Active, Waiting, Driven, Ended
<1>3. KindAfterInput(r) \in Kinds /\ executions[r][KindAfterInput(r)] = 0 /\ (\A j \in Kinds : j # KindAfterInput(r) => ~IsOpen(receipts'[r][j]))
      /\ receipts' \in [Runs -> [Kinds -> ReceiptStates]] /\ receipts'[r][KindAfterInput(r)] = "pending"
      /\ \A q \in Runs : q # r => receipts'[q] = receipts[q]
  <2>1. KindAfterInput(r) \in Kinds /\ executions[r][KindAfterInput(r)] = 0
    BY <1>0, <1>1 DEF Kinds, KindAfterInput, Local, Early, Before
  <2> QED BY <1>0, <2>1, HandedOff DEF AnswerInput
<1>4. task[r].at # "working" /\ thread[r] = "idle"
  BY <1>0, <1>1 DEF Local, Drivers, Waiting, Driven, Ended
<1>5. loop' = Idle \/ loop' = [op |-> "launch", run |-> r, kind |-> KindAfterInput(r)]
  BY <1>1 DEF AnswerInput, GoesToLaunch, Busy
<1>6. loop' \in Turns /\ reserved' \subseteq Runs \X Kinds
  BY <1>0, <1>3, <1>5 DEF AnswerInput, GoesToLaunch, Turns, TypeOK
<1>7. UNCHANGED <<chat, projection, messages, expired, task, thread, phase, crashes, executions, outside>>
  BY DEF AnswerInput
<1>8. TypeOK'
  BY <1>0, <1>1, <1>2, <1>3, <1>4, <1>5, <1>6, <1>7 DEF TypeOK
<1>9. Elsewhere(r)
  BY <1>0, <1>1, <1>2, <1>3, <1>4, <1>5, <1>6, <1>7 DEF Elsewhere, Idle
<1>10. Local(r)'
  <2>1. Early(r)'
    BY <1>0, <1>1, <1>2, <1>3, <1>4, <1>5, <1>6, <1>7 DEF Idle, Local, Early, Before, IsOpen, NoTask, Offers, Between, Doing, Kinds, Drivers, Driven, Waiting, Ended
  <2>2. OneOpen(r)'
    BY <1>0, <1>1, <1>2, <1>3, <1>4, <1>5, <1>6, <1>7 DEF Idle, Local, OneOpen, IsOpen, Early, Before, Kinds, Driven, Waiting, Ended
  <2>3. Offers(r)'
    BY <1>0, <1>1, <1>2, <1>3, <1>4, <1>5, <1>6, <1>7 DEF Idle, Local, Offers, Drivers, Early, Before, OneOpen, IsOpen, Between, Doing, Kinds, Driven, Waiting, Ended
  <2>4. Drivers(r)'
    BY <1>0, <1>1, <1>2, <1>3, <1>4, <1>5, <1>6, <1>7 DEF Idle, Local, Drivers, Offers, Between, Doing, Early, Driven, Waiting, Ended
  <2>5. Between(r)'
    BY <1>0, <1>1, <1>2, <1>3, <1>4, <1>5, <1>6, <1>7 DEF Idle, Local, Between, Doing, Delivered, Drivers, Offers, Early, Driven, Waiting, Ended
  <2>6. Covered(r)'
    BY <1>0, <1>1, <1>2, <1>3, <1>4, <1>5, <1>6, <1>7 DEF Idle, Local, Covered, Between, Doing, Delivered, Drivers, Projected, IsOpen, Kinds, Driven, Waiting, Ended
  <2>7. Once(r)'
    BY <1>0, <1>1, <1>2, <1>3, <1>4, <1>5, <1>6, <1>7 DEF Idle, Local, Once, Kinds, Between, Doing
  <2>8. Projected(r)'
    BY <1>0, <1>1, <1>2, <1>3, <1>4, <1>5, <1>6, <1>7 DEF Idle, Local, Projected, Between, Doing, Driven, Waiting, Ended
  <2> QED BY <2>1, <2>2, <2>3, <2>4, <2>5, <2>6, <2>7, <2>8 DEF Local
<1> QED BY <1>0, <1>1, <1>2, <1>3, <1>4, <1>5, <1>6, <1>7, <1>8, <1>9, <1>10, OneRun DEF Active, Waiting, Driven, Ended, IInv, Resting

LEMMA ApprovePlanKeeps == ASSUME IInv, NEW r \in Runs, ApprovePlan(r) PROVE IInv'
<1>0. TypeOK /\ Local(r) /\ projection[r] \in {"none"} \cup Ended
  BY DEF IInv, TypeOK
<1>1. status[r] = "waiting_plan" /\ r \notin expired /\ loop = Idle /\ phase = "serving"
  BY DEF ApprovePlan, Serving
<1>2. status' \in [Runs -> Statuses] /\ status'[r] = "running"
      /\ \A q \in Runs : q # r => status'[q] = status[q]
  BY <1>0, StatusSet DEF ApprovePlan, Statuses, Active, Waiting, Driven, Ended
<1>3. "approved" \in Kinds /\ executions[r]["approved"] = 0 /\ (\A j \in Kinds : j # "approved" => ~IsOpen(receipts'[r][j]))
      /\ receipts' \in [Runs -> [Kinds -> ReceiptStates]] /\ receipts'[r]["approved"] = "pending"
      /\ \A q \in Runs : q # r => receipts'[q] = receipts[q]
  <2>1. "approved" \in Kinds /\ executions[r]["approved"] = 0
    BY <1>0, <1>1 DEF Kinds, Local, Early, Before
  <2> QED BY <1>0, <2>1, HandedOff DEF ApprovePlan
<1>4. task[r].at # "working" /\ thread[r] = "idle"
  BY <1>0, <1>1 DEF Local, Drivers, Waiting, Driven, Ended
<1>5. loop' = Idle \/ loop' \in [op : {"launch", "refuse"}, run : {r}, kind : {"approved"}]
  BY <1>1 DEF ApprovePlan, GoesToLaunch, Busy
<1>6. loop' \in Turns /\ reserved' \subseteq Runs \X Kinds
  BY <1>0, <1>3, <1>5 DEF ApprovePlan, GoesToLaunch, Turns, TypeOK
<1>7. UNCHANGED <<chat, projection, messages, expired, task, thread, phase, crashes, executions, outside>>
  BY DEF ApprovePlan
<1>8. TypeOK'
  BY <1>0, <1>1, <1>2, <1>3, <1>4, <1>5, <1>6, <1>7 DEF TypeOK
<1>9. Elsewhere(r)
  BY <1>0, <1>1, <1>2, <1>3, <1>4, <1>5, <1>6, <1>7 DEF Elsewhere, Idle
<1>10. Local(r)'
  <2>1. Early(r)'
    BY <1>0, <1>1, <1>2, <1>3, <1>4, <1>5, <1>6, <1>7 DEF Idle, Local, Early, Before, IsOpen, NoTask, Offers, Between, Doing, Kinds, Drivers, Driven, Waiting, Ended
  <2>2. OneOpen(r)'
    BY <1>0, <1>1, <1>2, <1>3, <1>4, <1>5, <1>6, <1>7 DEF Idle, Local, OneOpen, IsOpen, Early, Before, Kinds, Driven, Waiting, Ended
  <2>3. Offers(r)'
    BY <1>0, <1>1, <1>2, <1>3, <1>4, <1>5, <1>6, <1>7 DEF Idle, Local, Offers, Drivers, Early, Before, OneOpen, IsOpen, Between, Doing, Kinds, Driven, Waiting, Ended
  <2>4. Drivers(r)'
    BY <1>0, <1>1, <1>2, <1>3, <1>4, <1>5, <1>6, <1>7 DEF Idle, Local, Drivers, Offers, Between, Doing, Early, Driven, Waiting, Ended
  <2>5. Between(r)'
    BY <1>0, <1>1, <1>2, <1>3, <1>4, <1>5, <1>6, <1>7 DEF Idle, Local, Between, Doing, Delivered, Drivers, Offers, Early, Driven, Waiting, Ended
  <2>6. Covered(r)'
    BY <1>0, <1>1, <1>2, <1>3, <1>4, <1>5, <1>6, <1>7 DEF Idle, Local, Covered, Between, Doing, Delivered, Drivers, Projected, IsOpen, Kinds, Driven, Waiting, Ended
  <2>7. Once(r)'
    BY <1>0, <1>1, <1>2, <1>3, <1>4, <1>5, <1>6, <1>7 DEF Idle, Local, Once, Kinds, Between, Doing
  <2>8. Projected(r)'
    BY <1>0, <1>1, <1>2, <1>3, <1>4, <1>5, <1>6, <1>7 DEF Idle, Local, Projected, Between, Doing, Driven, Waiting, Ended
  <2> QED BY <2>1, <2>2, <2>3, <2>4, <2>5, <2>6, <2>7, <2>8 DEF Local
<1> QED BY <1>0, <1>1, <1>2, <1>3, <1>4, <1>5, <1>6, <1>7, <1>8, <1>9, <1>10, OneRun DEF Active, Waiting, Driven, Ended, IInv, Resting

\* A refused start leaves the receipt it came with to the pump.
LEMMA StartRefusedKeeps == ASSUME IInv, NEW r \in Runs, StartRefused(r) PROVE IInv'
<1>0. TypeOK /\ Local(r) /\ projection[r] \in {"none"} \cup Ended
  BY DEF IInv, TypeOK
<1>1. loop = [op |-> "refuse", run |-> r, kind |-> "approved"]
  BY DEF StartRefused, Busy
<1>2. status' \in [Runs -> Statuses] /\ status'[r] = "cancelled"
      /\ \A q \in Runs : q # r => status'[q] = status[q]
  BY <1>0, StatusSet DEF StartRefused, Statuses, Active, Waiting, Driven, Ended
<1>3. loop' = Idle /\ loop' \in Turns
  BY DEF StartRefused, Turns
<1>4. UNCHANGED <<chat, receipts, projection, messages, expired, task, thread, reserved, phase, crashes, executions, outside>>
  BY DEF StartRefused
<1>5. TypeOK'
  BY <1>0, <1>1, <1>2, <1>3, <1>4 DEF TypeOK
<1>6. Elsewhere(r)
  BY <1>0, <1>1, <1>2, <1>3, <1>4 DEF Elsewhere, Idle
<1>7. Local(r)'
  <2>1. Early(r)'
    BY <1>0, <1>1, <1>2, <1>3, <1>4 DEF Idle, Local, Early, Before, IsOpen, NoTask, Offers, Between, Doing, Kinds, Drivers, Driven, Waiting, Ended
  <2>2. OneOpen(r)'
    BY <1>0, <1>1, <1>2, <1>3, <1>4 DEF Idle, Local, OneOpen, IsOpen, Early, Before, Kinds, Driven, Waiting, Ended
  <2>3. Offers(r)'
    BY <1>0, <1>1, <1>2, <1>3, <1>4 DEF Idle, Local, Offers, Drivers, Early, Before, OneOpen, IsOpen, Between, Doing, Kinds, Driven, Waiting, Ended
  <2>4. Drivers(r)'
    BY <1>0, <1>1, <1>2, <1>3, <1>4 DEF Idle, Local, Drivers, Offers, Between, Doing, Early, Driven, Waiting, Ended
  <2>5. Between(r)'
    BY <1>0, <1>1, <1>2, <1>3, <1>4 DEF Idle, Local, Between, Doing, Delivered, Drivers, Offers, Early, Driven, Waiting, Ended
  <2>6. Covered(r)'
    BY <1>0, <1>1, <1>2, <1>3, <1>4 DEF Idle, Local, Covered, Between, Doing, Delivered, Drivers, Projected, IsOpen, Kinds, Driven, Waiting, Ended
  <2>7. Once(r)'
    BY <1>0, <1>1, <1>2, <1>3, <1>4 DEF Idle, Local, Once, Kinds, Between, Doing
  <2>8. Projected(r)'
    BY <1>0, <1>1, <1>2, <1>3, <1>4 DEF Idle, Local, Projected, Between, Doing, Driven, Waiting, Ended
  <2> QED BY <2>1, <2>2, <2>3, <2>4, <2>5, <2>6, <2>7, <2>8 DEF Local
<1> QED BY <1>0, <1>1, <1>2, <1>3, <1>4, <1>5, <1>6, <1>7, OneRun DEF Active, Waiting, Driven, Ended, IInv, Resting

\* A run that waited for its approval has no task and no offer of its execution.
LEMMA ApprovePreviewKeeps == ASSUME IInv, NEW r \in Runs, ApprovePreview(r) PROVE IInv'
<1>0. TypeOK /\ Local(r) /\ projection[r] \in {"none"} \cup Ended
  BY DEF IInv, TypeOK
<1>1. status[r] = "waiting_plan" /\ r \notin expired /\ loop = Idle /\ phase = "serving"
  BY DEF ApprovePreview, Serving
<1>2. status' \in [Runs -> Statuses] /\ status'[r] = "completed"
      /\ \A q \in Runs : q # r => status'[q] = status[q]
  BY <1>0, StatusSet DEF ApprovePreview, Statuses, Active, Waiting, Driven, Ended
<1>3. loop' = [op |-> "preview", run |-> r, kind |-> "approved"] /\ loop' \in Turns
      /\ outside' = outside \cup {r}
  BY DEF ApprovePreview, Busy, Turns, Kinds
<1>4. UNCHANGED <<chat, receipts, projection, messages, expired, task, thread, reserved, phase, crashes, executions>>
  BY DEF ApprovePreview
<1>5. TypeOK'
  BY <1>0, <1>1, <1>2, <1>3, <1>4 DEF TypeOK
<1>6. Elsewhere(r)
  BY <1>0, <1>1, <1>2, <1>3, <1>4 DEF Elsewhere, TypeOK
<1>7. Local(r)'
  <2>1. Early(r)'
    BY <1>0, <1>1, <1>2, <1>3, <1>4 DEF Local, Early, Before, IsOpen, NoTask, Offers, Between, Doing, Kinds, Drivers, Driven, Waiting, Ended
  <2>2. OneOpen(r)'
    BY <1>0, <1>1, <1>2, <1>3, <1>4 DEF Local, OneOpen, IsOpen, Early, Before, Kinds, Driven, Waiting, Ended
  <2>3. Offers(r)'
    BY <1>0, <1>1, <1>2, <1>3, <1>4 DEF Local, Offers, Drivers, Early, Before, OneOpen, IsOpen, Between, Doing, Kinds, Driven, Waiting, Ended
  <2>4. Drivers(r)'
    BY <1>0, <1>1, <1>2, <1>3, <1>4 DEF Local, Drivers, Offers, Between, Doing, Early, Driven, Waiting, Ended
  <2>5. Between(r)'
    BY <1>0, <1>1, <1>2, <1>3, <1>4 DEF Local, Between, Doing, Delivered, Drivers, Offers, Early, Driven, Waiting, Ended
  <2>6. Covered(r)'
    BY <1>0, <1>1, <1>2, <1>3, <1>4 DEF Local, Covered, Between, Doing, Delivered, Drivers, Projected, IsOpen, Kinds, Driven, Waiting, Ended
  <2>7. Once(r)'
    BY <1>0, <1>1, <1>2, <1>3, <1>4 DEF Local, Once, Kinds, Between, Doing
  <2>8. Projected(r)'
    BY <1>0, <1>1, <1>2, <1>3, <1>4 DEF Local, Projected, Between, Doing, Driven, Waiting, Ended
  <2> QED BY <2>1, <2>2, <2>3, <2>4, <2>5, <2>6, <2>7, <2>8 DEF Local
<1> QED BY <1>0, <1>1, <1>2, <1>3, <1>4, <1>5, <1>6, <1>7, OneRun DEF Active, Waiting, Driven, Ended, IInv, Resting

LEMMA PreviewProjectsKeeps == ASSUME IInv, NEW r \in Runs, PreviewProjects(r) PROVE IInv'
<1>0. TypeOK /\ Local(r) /\ projection[r] \in {"none"} \cup Ended
  BY DEF IInv, TypeOK
<1>1. loop = [op |-> "preview", run |-> r, kind |-> "approved"] /\ status[r] \in Ended
  BY <1>0 DEF PreviewProjects, Busy, Local, Between, Doing
<1>2. /\ projection' \in [Runs -> {"none"} \cup Ended] /\ messages' \in [Runs -> Nat]
      /\ projection'[r] = status[r]
      /\ messages'[r] = (IF status[r] \in {"completed", "rejected"} THEN 1 ELSE 0)
      /\ \A q \in Runs : q # r => projection'[q] = projection[q] /\ messages'[q] = messages[q]
  BY <1>0, <1>1, ProjectIs DEF PreviewProjects, Local
<1>3. task' = task
  BY DEF PreviewProjects
<1>4. loop' = Idle
  BY DEF PreviewProjects
<1>5. UNCHANGED <<chat, status, receipts, expired, thread, reserved, phase, crashes, executions, outside>>
  BY DEF PreviewProjects
<1>6. TypeOK'
  BY <1>0, <1>1, <1>2, <1>3, <1>4, <1>5 DEF TypeOK, Turns
<1>7. Elsewhere(r)
  BY <1>0, <1>1, <1>2, <1>3, <1>4, <1>5 DEF Elsewhere, Idle
<1>8. Local(r)'
  <2>1. Early(r)'
    BY <1>0, <1>1, <1>2, <1>3, <1>4, <1>5 DEF Idle, Local, Early, Before, IsOpen, NoTask, Offers, Between, Doing, Kinds, Drivers, Driven, Waiting, Ended
  <2>2. OneOpen(r)'
    BY <1>0, <1>1, <1>2, <1>3, <1>4, <1>5 DEF Idle, Local, OneOpen, IsOpen, Early, Before, Kinds, Driven, Waiting, Ended
  <2>3. Offers(r)'
    BY <1>0, <1>1, <1>2, <1>3, <1>4, <1>5 DEF Idle, Local, Offers, Drivers, Early, Before, OneOpen, IsOpen, Between, Doing, Kinds, Driven, Waiting, Ended
  <2>4. Drivers(r)'
    BY <1>0, <1>1, <1>2, <1>3, <1>4, <1>5 DEF Idle, Local, Drivers, Offers, Between, Doing, Early, Driven, Waiting, Ended
  <2>5. Between(r)'
    BY <1>0, <1>1, <1>2, <1>3, <1>4, <1>5 DEF Idle, Local, Between, Doing, Delivered, Drivers, Offers, Early, Driven, Waiting, Ended
  <2>6. Covered(r)'
    BY <1>0, <1>1, <1>2, <1>3, <1>4, <1>5 DEF Idle, Local, Covered, Between, Doing, Delivered, Drivers, Projected, IsOpen, Kinds, Driven, Waiting, Ended
  <2>7. Once(r)'
    BY <1>0, <1>1, <1>2, <1>3, <1>4, <1>5 DEF Idle, Local, Once, Kinds, Between, Doing
  <2>8. Projected(r)'
    BY <1>0, <1>1, <1>2, <1>3, <1>4, <1>5 DEF Idle, Local, Projected, Between, Doing, Driven, Waiting, Ended
  <2> QED BY <2>1, <2>2, <2>3, <2>4, <2>5, <2>6, <2>7, <2>8 DEF Local
<1> QED BY <1>0, <1>1, <1>2, <1>3, <1>4, <1>5, <1>6, <1>7, <1>8, OneRun DEF Active, Waiting, Driven, Ended, IInv, Resting
-----------------------------------------------------------------------------
(* A new run, and what touches every run at once.                          *)

\* A new run finds its thread free or frees it in the same transaction.
LEMMA StartRunKeeps == ASSUME IInv, NEW r \in Runs, NEW t \in Threads, StartRun(r, t) PROVE IInv'
<1>0. TypeOK /\ \A q \in Runs : Local(q)
  BY DEF IInv
<1>1. /\ status[r] = "absent" /\ loop = Idle /\ phase = "serving" /\ InTheWay(t) \subseteq expired
      /\ receipts[r]["first"] = "none" /\ receipts[r]["approved"] = "none"
      /\ executions[r]["first"] = 0 /\ executions[r]["approved"] = 0
      /\ task[r] = NoTask /\ thread[r] = "idle"
  BY <1>0 DEF StartRun, Serving, Local, Early, Before
<1>2. projection[r] = "none" /\ messages[r] = 0 /\ r \notin MakesWay(t)
  BY <1>0, <1>1 DEF Local, Projected, TypeOK, MakesWay, InTheWay, Active, Waiting, Driven, Ended
<1>3. /\ status' \in [Runs -> Statuses] /\ status'[r] = FirstStatus(r)
      /\ \A q \in Runs \ {r} : status'[q] = IF q \in MakesWay(t) THEN "cancelled" ELSE status[q]
  BY <1>0 DEF StartRun, FirstStatus, TypeOK, Statuses, Active, Waiting, Driven, Ended
<1>4. /\ chat' \in [Runs -> Threads \cup {NoThread}] /\ chat'[r] = t
      /\ \A q \in Runs \ {r} : chat'[q] = chat[q]
  BY <1>0 DEF StartRun, TypeOK
<1>5. /\ outside' = outside \cup MakesWay(t) /\ outside' \subseteq Runs
      /\ expired' = expired \ MakesWay(t) /\ expired' \subseteq Runs
  BY <1>0 DEF StartRun, TypeOK, MakesWay, InTheWay
<1>6. /\ receipts' \in [Runs -> [Kinds -> ReceiptStates]] /\ receipts'[r]["approved"] = "none"
      /\ receipts'[r]["first"] = (IF r \in AsksInput THEN "none" ELSE "pending")
      /\ \A q \in Runs \ {r} : receipts'[q] = receipts[q]
  <2>1. CASE r \in AsksInput
    BY <1>0, <1>1, <2>1 DEF StartRun, TypeOK
  <2>2. CASE r \notin AsksInput
    <3>1. SetReceipt(r, "first", "pending")
      BY <2>2 DEF StartRun
    <3> QED BY <1>0, <1>1, <2>2, <3>1, ReceiptSet DEF Kinds, ReceiptStates
  <2> QED BY <2>1, <2>2
<1>7. /\ loop' = Idle \/ (loop' = [op |-> "launch", run |-> r, kind |-> "first"] /\ r \notin AsksInput)
      /\ loop' \in Turns /\ reserved' \subseteq Runs \X Kinds
  BY <1>0, <1>1 DEF StartRun, Busy, Turns, Kinds, TypeOK
<1>8. UNCHANGED <<projection, messages, task, thread, phase, crashes, executions>>
  BY DEF StartRun
<1>9. TypeOK'
  BY <1>0, <1>3, <1>4, <1>5, <1>6, <1>7, <1>8 DEF TypeOK
<1>10. Local(r)'
  <2>1. /\ status'[r] = (IF r \in AsksInput THEN "waiting_input"
                         ELSE IF r \in Planned THEN "planning" ELSE "running")
        /\ r \in AsksInput => r \notin Planned
        /\ r \notin expired'
    BY <1>0, <1>1, <1>3, <1>5, RunsSorted DEF FirstStatus, Local, Drivers, Waiting
  <2>2. Early(r)' /\ OneOpen(r)' /\ Drivers(r)' /\ Covered(r)' /\ Once(r)' /\ Projected(r)'
    BY <1>1, <1>2, <1>6, <1>8, <2>1 DEF Early, OneOpen, Drivers, Covered, Once, Projected, Before, IsOpen,
       Kinds, Driven, Ended, NoTask
  <2>3. Offers(r)'
    BY <1>1, <1>2, <1>6, <1>8, <2>1 DEF Offers, Kinds, Driven, NoTask
  <2>4. Between(r)'
    BY <1>1, <1>6, <1>7, <1>8, <2>1 DEF Between, Doing, Driven, NoTask, Idle
  <2> QED BY <2>2, <2>3, <2>4 DEF Local
<1>11. ASSUME NEW q \in Runs \ {r} PROVE Local(q)'
  <2>0. Local(q) /\ projection[q] \in {"none"} \cup Ended
    BY <1>0 DEF TypeOK
  <2>1. ~(\E op \in {"launch", "refuse", "preview", "project", "finish", "drop", "settle"} : Doing(op, q)')
    BY <1>7 DEF Doing, Idle
  <2>2. Between(q)'
    BY <2>1 DEF Between
  <2>3. /\ receipts'[q] = receipts[q] /\ executions'[q] = executions[q] /\ projection'[q] = projection[q]
        /\ messages'[q] = messages[q] /\ phase' = phase /\ task'[q] = task[q] /\ thread'[q] = thread[q]
    BY <1>6, <1>8
  <2>4. CASE q \in MakesWay(t)
    <3>1. /\ status[q] \in Waiting /\ status'[q] = "cancelled" /\ q \in outside' /\ q \notin expired'
      BY <1>1, <1>3, <1>5, <2>0, <2>4 DEF MakesWay, Local, Drivers
    <3>2. Early(q)' /\ OneOpen(q)' /\ Drivers(q)' /\ Covered(q)' /\ Once(q)'
      BY <2>0, <2>3, <3>1 DEF Local, Early, OneOpen, Drivers, Covered, Once, Before, IsOpen, Waiting, Driven, Ended
    <3>3. Offers(q)'
      BY <2>0, <2>3, <3>1 DEF Local, Offers, Waiting, Driven, Ended
    <3>4. Projected(q)'
      BY <2>0, <2>3, <3>1 DEF Local, Projected, Waiting, Ended
    <3> QED BY <2>2, <3>2, <3>3, <3>4 DEF Local
  <2>5. CASE q \notin MakesWay(t)
    <3>1. status'[q] = status[q] /\ (q \in outside => q \in outside') /\ (q \in expired' => q \in expired)
      BY <1>3, <1>5, <2>5
    <3>2. Early(q)' /\ OneOpen(q)' /\ Offers(q)' /\ Drivers(q)' /\ Covered(q)' /\ Once(q)' /\ Projected(q)'
      BY <2>0, <2>3, <3>1 DEF Local, Early, OneOpen, Offers, Drivers, Covered, Once, Projected, IsOpen
    <3> QED BY <2>2, <3>2 DEF Local
  <2> QED BY <2>4, <2>5
<1>12. OneActiveRun'
  <2> SUFFICES ASSUME NEW p \in Runs, NEW q \in Runs, p # q, chat'[p] = chat'[q],
                      status'[p] \in Active, status'[q] \in Active
               PROVE  FALSE
    BY DEF OneActiveRun
  <2>1. \A x \in Runs \ {r} : status'[x] \in Active => status[x] \in Active /\ x \notin MakesWay(t)
    BY <1>3 DEF Active, Waiting, Driven
  <2>2. CASE p = r \/ q = r
    BY <1>4, <2>1, <2>2 DEF MakesWay, InTheWay
  <2>3. CASE p # r /\ q # r
    BY <1>4, <2>1, <2>3 DEF IInv, OneActiveRun
  <2> QED BY <2>2, <2>3
<1> QED BY <1>1, <1>8, <1>9, <1>10, <1>11, <1>12 DEF IInv

\* Nobody works on a run any more; what was started is orphaned, and still open.
LEMMA CrashKeeps == ASSUME IInv, Crash PROVE IInv'
<1>0. TypeOK /\ \A q \in Runs : Local(q)
  BY DEF IInv
<1>1. /\ phase' = "down" /\ loop' = Idle /\ reserved' = {}
      /\ UNCHANGED <<chat, status, projection, messages, expired, executions, outside>>
      /\ crashes' \in 0 .. MaxCrashes
  BY <1>0, LimitPositive DEF Crash, TypeOK
<1>2. task' \in [Runs -> Work] /\ \A q \in Runs : task'[q] = NoTask /\ task'[q].at # "working"
  BY DEF Crash, NoTask, Work, Kinds
<1>3. thread' \in [Runs -> Requests] /\ \A q \in Runs : thread'[q] = "idle"
  BY DEF Crash, Requests
<1>4. /\ receipts' \in [Runs -> [Kinds -> ReceiptStates]]
      /\ \A q \in Runs, k \in Kinds :
            receipts'[q][k] = IF receipts[q][k] = "started" THEN "orphaned" ELSE receipts[q][k]
  BY <1>0 DEF Crash, TypeOK, ReceiptStates
<1>5. TypeOK'
  BY <1>0, <1>1, <1>2, <1>3, <1>4 DEF TypeOK, Turns
<1>6. ASSUME NEW q \in Runs PROVE Local(q)'
  <2>1. Early(q)' /\ OneOpen(q)' /\ Drivers(q)' /\ Covered(q)' /\ Once(q)' /\ Projected(q)'
    BY <1>0, <1>1, <1>2, <1>3, <1>4 DEF Local, Early, OneOpen, Drivers, Covered, Once, Projected, IsOpen,
       Kinds
  <2>2. Offers(q)'
    BY <1>0, <1>1, <1>2, <1>4 DEF Local, Offers
  <2>3. Between(q)'
    BY <1>1 DEF Between, Doing, Idle
  <2> QED BY <2>1, <2>2, <2>3 DEF Local
<1>7. OneActiveRun'
  BY <1>1 DEF IInv, OneActiveRun
<1> QED BY <1>1, <1>2, <1>5, <1>6, <1>7 DEF IInv, Resting

\* Only ended and waiting runs get their orphaned offers back.
LEMMA ReconcileDispatchesKeeps == ASSUME IInv, ReconcileDispatches PROVE IInv'
<1>0. TypeOK /\ (\A q \in Runs : Local(q)) /\ loop = Idle
  BY DEF IInv, Resting, ReconcileDispatches
<1>1. /\ phase = "down" /\ phase' = "orphans"
      /\ UNCHANGED <<chat, status, projection, messages, expired, task, thread, reserved, loop, crashes,
                     executions, outside>>
  BY DEF ReconcileDispatches, memory
<1>2. /\ receipts' \in [Runs -> [Kinds -> ReceiptStates]]
      /\ \A q \in Runs, k \in Kinds :
            receipts'[q][k] = IF receipts[q][k] = "orphaned" /\ status[q] \in Ended \cup Waiting
                              THEN "pending" ELSE receipts[q][k]
  BY <1>0 DEF ReconcileDispatches, TypeOK, ReceiptStates
<1>3. TypeOK'
  BY <1>0, <1>1, <1>2 DEF TypeOK
<1>4. ASSUME NEW q \in Runs PROVE Local(q)'
  <2>0. Local(q) /\ thread[q] = "idle"
    BY <1>0, <1>1 DEF Local, Drivers
  <2>1. task[q].at # "working"
    BY <1>1 DEF IInv, Resting
  <2>2. Early(q)' /\ OneOpen(q)' /\ Covered(q)'
    BY <1>1, <1>2, <2>0 DEF Local, Early, OneOpen, Covered, IsOpen, Kinds
  <2>3. Drivers(q)' /\ Once(q)' /\ Projected(q)'
    BY <1>1, <2>0 DEF Local, Drivers, Once, Projected
  <2>4. Offers(q)'
    BY <1>1, <1>2, <2>0, <2>1 DEF Local, Offers
  <2>5. Between(q)'
    BY <1>0, <1>1 DEF Between, Doing, Idle
  <2> QED BY <2>2, <2>3, <2>4, <2>5 DEF Local
<1>5. OneActiveRun'
  BY <1>1 DEF IInv, OneActiveRun
<1> QED BY <1>0, <1>1, <1>3, <1>4, <1>5 DEF IInv, Resting

\* A driven run without an offer fails, and its orphaned receipt is offered for the projection.
LEMMA ReconcileOrphansKeeps == ASSUME IInv, ReconcileOrphans PROVE IInv'
<1>0. TypeOK /\ (\A q \in Runs : Local(q)) /\ loop = Idle
  BY DEF IInv, Resting, ReconcileOrphans
<1>1. /\ phase = "orphans" /\ phase' = "draining" /\ expired' = expired \ Overdue
      /\ outside' = outside \cup Overdue
      /\ UNCHANGED <<chat, projection, messages, task, thread, reserved, loop, crashes, executions>>
  BY DEF ReconcileOrphans, memory
<1>2. /\ receipts' \in [Runs -> [Kinds -> ReceiptStates]]
      /\ \A q \in Runs, k \in Kinds :
            receipts'[q][k] = IF q \in Orphans /\ receipts[q][k] = "orphaned" THEN "pending" ELSE receipts[q][k]
  BY <1>0 DEF ReconcileOrphans, TypeOK, ReceiptStates
<1>3. /\ status' \in [Runs -> Statuses]
      /\ \A q \in Runs : status'[q] = IF q \in Orphans THEN "failed"
                                      ELSE IF q \in Overdue THEN "cancelled" ELSE status[q]
  BY <1>0 DEF ReconcileOrphans, TypeOK, Statuses, Active, Waiting, Driven, Ended
<1>4. TypeOK'
  <2>1. outside' \subseteq Runs /\ expired' \subseteq Runs
    BY <1>0, <1>1 DEF TypeOK, Overdue
  <2> QED BY <1>0, <1>1, <1>2, <1>3, <2>1 DEF TypeOK
<1>5. ASSUME NEW q \in Runs PROVE Local(q)'
  <2>0. Local(q) /\ thread[q] = "idle" /\ projection[q] \in {"none"} \cup Ended
    BY <1>0, <1>1 DEF Local, Drivers, TypeOK
  <2>1. /\ q \in Orphans => status[q] \in Driven /\ \A k \in Kinds : receipts[q][k] # "pending"
        /\ q \in Overdue => status[q] \in Waiting /\ \A k \in Kinds : receipts[q][k] # "pending"
        /\ q \in Orphans => q \notin Overdue
    BY DEF Orphans, Overdue, Unclaimed, Driven, Waiting
  <2>2. Between(q)'
    BY <1>0, <1>1 DEF Between, Doing, Idle
  <2>3. CASE q \in Orphans
    <3>1. /\ status'[q] = "failed" /\ status[q] \in Driven /\ q \notin expired'
          /\ \A k \in Kinds : receipts[q][k] # "pending"
          /\ \A k \in Kinds : receipts'[q][k] = IF receipts[q][k] = "orphaned" THEN "pending" ELSE receipts[q][k]
      BY <1>1, <1>2, <1>3, <2>0, <2>1, <2>3 DEF Local, Drivers, Waiting, Driven
    <3>2. Early(q)' /\ OneOpen(q)' /\ Once(q)' /\ Drivers(q)'
      BY <1>1, <2>0, <3>1 DEF Local, Early, OneOpen, Once, Drivers, Before, IsOpen, Kinds, Driven, Waiting, Ended
    <3>3. Projected(q)' /\ Covered(q)'
      BY <1>1, <2>0, <3>1 DEF Local, Projected, Covered, IsOpen, Kinds, Driven, Ended
    <3>4. task[q].at # "working" => Offers(q)'
      BY <1>1, <2>0, <3>1 DEF Offers, Ended
    <3>5. task[q].at # "working"
      BY <1>0, <1>1, <2>3 DEF IInv, Resting
    <3> QED BY <2>2, <3>2, <3>3, <3>4, <3>5 DEF Local
  <2>4. CASE q \notin Orphans /\ q \in Overdue
    <3>1. /\ status'[q] = "cancelled" /\ status[q] \in Waiting /\ q \notin expired' /\ q \in outside'
          /\ \A k \in Kinds : receipts[q][k] # "pending" /\ receipts'[q][k] = receipts[q][k]
      BY <1>1, <1>2, <1>3, <2>1, <2>4
    <3>2. Early(q)' /\ OneOpen(q)' /\ Once(q)' /\ Drivers(q)' /\ Covered(q)' /\ Offers(q)'
      BY <1>1, <2>0, <3>1 DEF Local, Early, OneOpen, Once, Drivers, Covered, Offers, Before, IsOpen, Kinds, Waiting, Ended
    <3>3. Projected(q)'
      BY <1>1, <2>0, <3>1 DEF Local, Projected, Waiting, Ended
    <3> QED BY <2>2, <3>2, <3>3 DEF Local
  <2>5. CASE q \notin Orphans /\ q \notin Overdue
    <3>1. /\ status'[q] = status[q] /\ (q \in outside => q \in outside') /\ (q \in expired' => q \in expired)
          /\ \A k \in Kinds : receipts'[q][k] = receipts[q][k]
      BY <1>1, <1>2, <1>3, <2>5
    <3>2. Early(q)' /\ OneOpen(q)' /\ Once(q)' /\ Drivers(q)' /\ Covered(q)'
      BY <1>1, <2>0, <3>1 DEF Local, Early, OneOpen, Once, Drivers, Covered, IsOpen, Kinds
    <3>3. Projected(q)' /\ Offers(q)'
      BY <1>1, <2>0, <3>1 DEF Local, Projected, Offers
    <3> QED BY <2>2, <3>2, <3>3 DEF Local
  <2> QED BY <2>3, <2>4, <2>5
<1>6. OneActiveRun'
  <2>1. \A q \in Runs : status'[q] \in Active => status[q] \in Active
    BY <1>3 DEF Active, Waiting, Driven
  <2> QED BY <1>1, <2>1 DEF IInv, OneActiveRun
<1> QED BY <1>0, <1>1, <1>4, <1>5, <1>6 DEF IInv

\* The first pass of the pump has left no offer of an ended or waiting run.
LEMMA ServeKeeps == ASSUME IInv, Serve PROVE IInv'
<1>0. TypeOK /\ (\A q \in Runs : Local(q)) /\ loop = Idle
  BY DEF IInv, Serve
<1>1. /\ phase = "draining" /\ phase' = "serving"
      /\ UNCHANGED <<status, chat, receipts, projection, messages, expired, task, thread, reserved, loop,
                     crashes, executions, outside>>
      /\ \A q \in Runs, k \in Kinds : receipts[q][k] = "pending" => status[q] \in Driven
  BY DEF Serve, stored, memory
<1>2. TypeOK'
  BY <1>0, <1>1 DEF TypeOK
<1>3. ASSUME NEW q \in Runs PROVE Local(q)'
  <2>0. Local(q) /\ thread[q] = "idle"
    BY <1>0, <1>1 DEF Local, Drivers
  <2>1. Early(q)' /\ OneOpen(q)' /\ Drivers(q)' /\ Covered(q)' /\ Once(q)' /\ Projected(q)'
    BY <1>1, <2>0 DEF Local, Early, OneOpen, Drivers, Covered, Once, Projected
  <2>2. Offers(q)'
    BY <1>1, <2>0 DEF Local, Offers, Driven, Waiting, Ended
  <2>3. Between(q)'
    BY <1>0, <1>1 DEF Between, Doing, Idle
  <2> QED BY <2>1, <2>2, <2>3 DEF Local
<1>4. OneActiveRun'
  BY <1>1 DEF IInv, OneActiveRun
<1> QED BY <1>1, <1>2, <1>3, <1>4 DEF IInv


-----------------------------------------------------------------------------
(* The invariance, and what follows from it.                               *)

LEMMA InitHolds == Init => IInv
<1> SUFFICES ASSUME Init PROVE IInv
  OBVIOUS
<1>1. TypeOK
  BY LimitPositive DEF Init, TypeOK, Statuses, ReceiptStates, Work, Requests, Turns, NoTask, Kinds
<1>2. ASSUME NEW r \in Runs PROVE Local(r)
  <2>1. Early(r) /\ OneOpen(r) /\ Offers(r) /\ Drivers(r) /\ Covered(r) /\ Once(r) /\ Projected(r)
    BY DEF Init, Early, OneOpen, Offers, Drivers, Covered, Once, Projected, Before, IsOpen, Kinds,
           NoTask, Driven, Ended, Waiting
  <2>2. Between(r)
    BY DEF Init, Between, Doing, Idle
  <2> QED BY <2>1, <2>2 DEF Local
<1>3. OneActiveRun
  BY DEF Init, OneActiveRun, Active, Waiting, Driven
<1> QED BY <1>1, <1>2, <1>3 DEF IInv, Init

LEMMA StutterKeeps == ASSUME IInv, UNCHANGED vars PROVE IInv'
<1>1. TypeOK'
  BY DEF IInv, TypeOK, vars, stored, memory
<1>2. ASSUME NEW r \in Runs PROVE Local(r)'
  <2>1. Local(r)
    BY DEF IInv
  <2> QED BY <2>1 DEF vars, stored, memory, Local, Early, OneOpen, Offers, Drivers, Between, Doing,
             Delivered, Covered, Once, Projected
<1>3. OneActiveRun'
  BY DEF IInv, OneActiveRun, vars, stored, memory
<1>4. (phase \in {"down", "orphans"} => Resting)'
  BY DEF IInv, Resting, vars, stored, memory
<1> QED BY <1>1, <1>2, <1>3, <1>4 DEF IInv

LEMMA LoopStepKeeps == ASSUME IInv, NEW r \in Runs, LoopStep(r) PROVE IInv'
BY TaskPlansKeeps, TaskFailsKeeps, TaskCompletesKeeps, TaskProjectsKeeps, TaskCancelledKeeps,
   TaskPausesKeeps, FinishProjectsKeeps, FinishSettlesKeeps, StartRefusedKeeps, PreviewProjectsKeeps,
   LaunchKeeps
   DEF LoopStep

LEMMA PumpStepKeeps == ASSUME IInv, NEW r \in Runs, NEW k \in Kinds, PumpStep(r, k) PROVE IInv'
BY PumpProjectsKeeps, PumpSkipsWaitingKeeps, PumpLaunchesKeeps, PumpClaimsKeeps, PumpSettlesKeeps
   DEF PumpStep

LEMMA RequestKeeps == ASSUME IInv, NEW r \in Runs, Request(r) PROVE IInv'
BY StartRunKeeps, AnswerInputKeeps, AnswerThenApproveKeeps, ApprovePlanKeeps, ApprovePreviewKeeps,
   CancelKeeps DEF Request

LEMMA ThreadMoveKeeps == ASSUME IInv, NEW r \in Runs, ThreadMove(r) PROVE IInv'
BY ResumeRegistersKeeps, ResumeEndsKeeps, ResumeCancelledKeeps, ThreadProjectsKeeps DEF ThreadMove

LEMMA StartupKeeps == ASSUME IInv, Startup PROVE IInv'
BY ReconcileDispatchesKeeps, ReconcileOrphansKeeps, ServeKeeps DEF Startup

LEMMA StepHolds == IInv /\ [Next]_vars => IInv'
<1> SUFFICES ASSUME IInv, [Next]_vars PROVE IInv'
  OBVIOUS
<1>1. CASE \E r \in Runs : Request(r)
  BY <1>1, RequestKeeps
<1>2. CASE \E r \in Runs : Expire(r)
  BY <1>2, ExpireKeeps
<1>3. CASE \E r \in Runs : LoopStep(r)
  BY <1>3, LoopStepKeeps
<1>4. CASE \E r \in Runs : ResumeClaims(r) \/ RejectPlan(r)
  BY <1>4, ResumeClaimsKeeps, RejectPlanKeeps
<1>5. CASE \E r \in Runs : ThreadMove(r)
  BY <1>5, ThreadMoveKeeps
<1>6. CASE \E r \in Runs, k \in Kinds : PumpStep(r, k)
  BY <1>6, PumpStepKeeps
<1>7. CASE Crash \/ Startup
  BY <1>7, CrashKeeps, StartupKeeps
<1>8. CASE UNCHANGED vars
  BY <1>8, StutterKeeps
<1> QED BY <1>1, <1>2, <1>3, <1>4, <1>5, <1>6, <1>7, <1>8 DEF Next, AllEnded

\* The process never reaches a state outside the invariant.
THEOREM Invariance == Spec => []IInv
BY InitHolds, StepHolds, PTL DEF Spec

\* Whatever is claimed, handed to the pump or met again after a restart, the work behind
\* a dispatch receipt is launched at most once.
THEOREM WorkIsLaunchedOnce == Spec => []ExecutedOnce
BY Invariance, Meaning, PTL

\* The thread check of a new run (_require_agent_run_thread_available) is enough: no chat
\* thread ever has two active runs.
THEOREM OneRunPerThread == Spec => []OneActiveRun
BY Invariance, Meaning, PTL

\* Task, callback, pump and request thread all project, and the receipt says how the run
\* ended and its message is in the thread exactly once.
THEOREM ProjectionsAreTrue == Spec => []ProjectionTrue
BY Invariance, Meaning, PTL

\* An ending under a dispatch is projected or has an open receipt, across every loss of
\* the process, so the pump can complete it.
THEOREM EndingsAreRecoverable == Spec => []EndingRecoverable
BY Invariance, Meaning, PTL

-----------------------------------------------------------------------------
(* Who takes a run over.                                                   *)

\* Only a launch starts work and only the resume of an approval puts a thread on a run.
Unhanded == /\ executions' = executions
            /\ \A r \in Runs : thread'[r] = "claimed" => thread[r] = "claimed"

Alone(r) ==
    executions'[r] # executions[r] \/ (thread[r] = "idle" /\ thread'[r] = "claimed")
        => task[r].at # "working" /\ thread[r] = "idle"

LEMMA OthersHandNothing ==
  ASSUME TypeOK, [Next]_vars
  PROVE  \/ Unhanded
         \/ \E r \in Runs, k \in Kinds : Launch(r, k)
         \/ \E r \in Runs : ResumeClaims(r)
<1>1. ASSUME NEW r \in Runs, Request(r) PROVE Unhanded
  BY <1>1 DEF Request, StartRun, AnswerInput, AnswerThenApprove, ApprovePlan, ApprovePreview, Cancel,
              Unhanded, TypeOK, memory
<1>2. ASSUME NEW r \in Runs, ThreadMove(r) \/ RejectPlan(r) PROVE Unhanded
  BY <1>2 DEF ThreadMove, RejectPlan, ResumeRegisters, ResumeEnds, ResumeCancelled, ThreadProjects, ThreadStep,
              Unhanded, TypeOK
<1>3. ASSUME NEW r \in Runs, LoopStep(r), \A k \in Kinds : ~Launch(r, k) PROVE Unhanded
  BY <1>3 DEF LoopStep, TaskPlans, TaskFails, TaskCompletes, TaskProjects, TaskCancelled, TaskPauses,
              FinishProjects, FinishSettles, StartRefused, PreviewProjects, Unhanded
<1>4. ASSUME NEW r \in Runs, NEW k \in Kinds, PumpStep(r, k), ~Launch(r, k) PROVE Unhanded
  BY <1>4 DEF PumpStep, PumpProjects, PumpSkipsWaiting, PumpLaunches, PumpClaims, PumpSettles, Unhanded
<1>5. ASSUME NEW r \in Runs, Expire(r) PROVE Unhanded
  BY <1>5 DEF Expire, Unhanded, memory
<1>6. Crash => Unhanded
  BY DEF Crash, Unhanded
<1>7. Startup => Unhanded
  BY DEF Startup, ReconcileDispatches, ReconcileOrphans, Serve, Unhanded, memory
<1>8. UNCHANGED vars => Unhanded
  BY DEF vars, memory, Unhanded
<1> QED BY <1>1, <1>2, <1>3, <1>4, <1>5, <1>6, <1>7, <1>8 DEF Next, AllEnded

LEMMA StepAlone == ASSUME IInv, [Next]_vars, NEW q \in Runs PROVE Alone(q)
<1>0. TypeOK /\ \A r \in Runs : Local(r)
  BY DEF IInv
<1>1. CASE Unhanded
  BY <1>1 DEF Unhanded, Alone
<1>2. ASSUME NEW r \in Runs, NEW k \in Kinds, Launch(r, k) PROVE Alone(q)
  <2>1. Local(r) /\ loop.op = "launch" /\ loop.run = r /\ thread' = thread
    BY <1>0, <1>2 DEF Launch, Busy
  <2>2. task[r].at # "working" /\ thread[r] = "idle"
    BY <2>1 DEF Local, Between, Doing
  <2>3. q # r => executions'[q] = executions[q]
    BY <1>0, <1>2 DEF Launch, TypeOK
  <2> QED BY <2>1, <2>2, <2>3 DEF Alone
<1>3. ASSUME NEW r \in Runs, ResumeClaims(r) PROVE Alone(q)
  <2>1. Local(r) /\ status[r] = "waiting_approval" /\ thread[r] = "idle" /\ executions' = executions
    BY <1>0, <1>3 DEF ResumeClaims, ThreadStep
  <2>2. task[r].at # "working"
    BY <2>1 DEF Local, Drivers, Driven, Ended
  <2>3. q # r => thread'[q] = thread[q]
    BY <1>0, <1>3 DEF ResumeClaims, ThreadStep, TypeOK
  <2> QED BY <2>1, <2>2, <2>3 DEF Alone
<1> QED BY <1>0, <1>1, <1>2, <1>3, OthersHandNothing

\* Whoever takes a run over, a launched task or the thread of an approval's resume, finds
\* neither a working task nor another thread on it.
THEOREM OneWorkerPerRun == Spec => DriverAlone
<1>1. IInv /\ [Next]_vars => [\A r \in Runs :
          \/ executions'[r] # executions[r]
          \/ thread[r] = "idle" /\ thread'[r] = "claimed"
          => task[r].at # "working" /\ thread[r] = "idle"]_vars
  BY StepAlone DEF Alone
<1> QED BY <1>1, Invariance, PTL DEF Spec, DriverAlone

-----------------------------------------------------------------------------
(* The promise to whoever asked for a run: DeliveryPromise.                *)

\* Whoever works on a run, or a run that was paused in its work, has begun a work.
Underway(r) ==
    \/ task[r].at # "none"
    \/ status[r] = "waiting_approval"
    \/ thread[r] \in {"claimed", "driving", "cancelling"}

Begun(r) == Underway(r) => \E k \in Kinds : executions[r][k] = 1

\* No step but a launch begins a work or puts a run under way.
NoneBegins == executions' = executions /\ \A r \in Runs : Underway(r)' => Underway(r)

LEMMA StageNow ==
  ASSUME TypeOK, NEW r \in Runs
  PROVE  /\ status[r] \in Waiting => Stages[r] = "waiting"
         /\ status[r] \in Driven => Stages[r] = "driven"
         /\ status[r] \in Ended \cup {"absent"} => Stages[r] = status[r]
  BY DEF Stages, Waiting, Driven, Ended, TypeOK

LEMMA StageNext ==
  ASSUME TypeOK', NEW r \in Runs
  PROVE  /\ status'[r] \in Waiting => Stages'[r] = "waiting"
         /\ status'[r] \in Driven => Stages'[r] = "driven"
         /\ status'[r] \in Ended \cup {"absent"} => Stages'[r] = status'[r]
  BY DEF Stages, Waiting, Driven, Ended, TypeOK

\* What the promise sees of a run beside its stage.
Untold(r) == executions'[r] = executions[r] /\ projection'[r] = projection[r] /\ messages'[r] = messages[r]

LEMMA StaysPut ==
  ASSUME NEW r \in Runs, status'[r] = status[r], Untold(r)
  PROVE  Promise!Move(r)
  BY DEF Untold, Stages, Promise!Move, Promise!Rests, Promise!Idles, Promise!Silent

LEMMA GoingOn ==
  ASSUME TypeOK, TypeOK', NEW r \in Runs, status[r] \in {"absent"} \cup Active, status'[r] \in Active, Untold(r)
  PROVE  Promise!Move(r)
<1>1. Stages[r] \in {"absent"} \cup Promise!Open /\ Stages'[r] \in Promise!Open
  BY StageNow, StageNext DEF Active, Promise!Open
<1> QED BY <1>1 DEF Untold, Promise!Move, Promise!GoesOn, Promise!Idles, Promise!Silent

LEMMA EndingOnce ==
  ASSUME TypeOK, TypeOK', NEW r \in Runs, status[r] \in Active, status'[r] \in Ended, Untold(r),
         status'[r] = "completed" =>
             \/ status[r] \in Driven /\ \E k \in Kinds : executions[r][k] = 1
             \/ status[r] \in Waiting /\ r \in Planned /\ executions[r]["approved"] = 0,
         status'[r] = "failed" => status[r] \in Driven,
         status'[r] = "rejected" => status[r] \in Waiting
  PROVE  Promise!Move(r)
<1>1. Stages[r] \in Promise!Open /\ Stages'[r] = status'[r] /\ Stages'[r] \in Promise!Endings
  BY StageNow, StageNext DEF Active, Ended, Promise!Open, Promise!Endings
<1>2. /\ status[r] \in Driven => Stages[r] = "driven"
      /\ status[r] \in Waiting => Stages[r] = "waiting"
  BY StageNow
<1> QED BY <1>1, <1>2 DEF Untold, Promise!Move, Promise!Ends, Promise!Done, Promise!Previewed,
                         Promise!Idles, Promise!Silent

LEMMA Telling ==
  ASSUME TypeOK, TypeOK', NEW r \in Runs, Projected(r), status[r] \in Ended, status'[r] = status[r],
         Project(r), executions'[r] = executions[r]
  PROVE  Promise!Move(r)
<1>1. CASE projection[r] # "none"
  BY <1>1, StaysPut DEF Project, Untold
<1>2. CASE projection[r] = "none"
  <2>1. projection'[r] = status[r] /\ messages'[r] = Promise!Answers(status[r])
    BY ProjectIs DEF Promise!Answers
  <2>2. Stages[r] = status[r] /\ Stages'[r] = Stages[r] /\ Stages[r] \in Promise!Endings
    BY StageNow, StageNext DEF Ended, Promise!Endings
  <2> QED BY <1>2, <2>1, <2>2 DEF Promise!Move, Promise!Tells, Promise!Idles
<1> QED BY <1>1, <1>2

LEMMA Launching ==
  ASSUME TypeOK, TypeOK', NEW r \in Runs, NEW k \in Kinds, status[r] \in Driven, status'[r] = status[r],
         executions[r][k] = 0, executions'[r] = [executions[r] EXCEPT ![k] = 1],
         projection'[r] = projection[r], messages'[r] = messages[r]
  PROVE  Promise!Move(r)
<1>1. Stages[r] = "driven" /\ Stages'[r] = "driven"
  BY StageNow, StageNext
<1> QED BY <1>1 DEF Promise!Move, Promise!Begins, Promise!Silent

\* A step that touches one run is a move of that run.
Apart(r) == \A q \in Runs \ {r} : status'[q] = status[q] /\ Untold(q)

LEMMA OneMove ==
  ASSUME NEW r \in Runs, Apart(r), Promise!Move(r)
  PROVE  \A q \in Runs : Promise!Move(q)
  BY StaysPut DEF Apart

LEMMA AllRest ==
  ASSUME UNCHANGED <<status, executions, projection, messages>>
  PROVE  \A q \in Runs : Promise!Move(q)
  BY StaysPut DEF Untold

\* Transactions on receipts, capacity and tasks leave what is promised alone.
LEMMA QuietSteps ==
  ASSUME TypeOK, NEW r \in Runs,
         \/ Expire(r) \/ TaskCancelled(r) \/ FinishSettles(r) \/ ResumeRegisters(r) \/ ResumeCancelled(r)
         \/ \E k \in Kinds : PumpSkipsWaiting(r, k) \/ PumpLaunches(r, k) \/ PumpClaims(r, k) \/ PumpSettles(r, k)
  PROVE  (\A q \in Runs : Promise!Move(q)) /\ NoneBegins
<1>1. UNCHANGED <<status, executions, projection, messages>>
  <2>1. CASE Expire(r) \/ TaskCancelled(r) \/ FinishSettles(r)
    BY <2>1 DEF Expire, TaskCancelled, FinishSettles, stored
  <2>2. CASE ResumeRegisters(r) \/ ResumeCancelled(r)
    BY <2>2 DEF ResumeRegisters, ResumeCancelled, ThreadStep, SetStatus, TypeOK
  <2>3. ASSUME NEW k \in Kinds,
               PumpSkipsWaiting(r, k) \/ PumpLaunches(r, k) \/ PumpClaims(r, k) \/ PumpSettles(r, k)
        PROVE  UNCHANGED <<status, executions, projection, messages>>
    BY <2>3 DEF PumpSkipsWaiting, PumpLaunches, PumpClaims, PumpSettles, stored
  <2> QED BY <2>1, <2>2, <2>3
<1>2. ASSUME NEW q \in Runs, Underway(q)' PROVE Underway(q)
  <2>1. CASE Expire(r)
    BY <1>1, <1>2, <2>1 DEF Expire, memory, Underway
  <2>2. CASE TaskCancelled(r)
    <3>1. /\ task[r].at = "cancelling" /\ thread' = thread
          /\ q # r => task'[q] = task[q]
      BY <2>2, TaskMoved DEF TaskCancelled
    <3> QED BY <1>1, <1>2, <3>1 DEF Underway
  <2>3. CASE FinishSettles(r)
    <3>1. thread' = thread /\ (task'[q] = task[q] \/ task'[q].at = "none")
      BY <2>3 DEF FinishSettles, TypeOK, NoTask
    <3> QED BY <1>1, <1>2, <3>1 DEF Underway
  <2>4. CASE ResumeRegisters(r) \/ ResumeCancelled(r)
    <3>1. /\ task' = task /\ thread[r] \in {"claimed", "cancelling"}
          /\ q # r => thread'[q] = thread[q]
      BY <2>4 DEF ResumeRegisters, ResumeCancelled, ThreadStep, TypeOK
    <3> QED BY <1>1, <1>2, <3>1 DEF Underway
  <2>5. ASSUME NEW k \in Kinds,
               PumpSkipsWaiting(r, k) \/ PumpLaunches(r, k) \/ PumpClaims(r, k) \/ PumpSettles(r, k)
        PROVE  Underway(q)
    BY <1>1, <1>2, <2>5 DEF PumpSkipsWaiting, PumpLaunches, PumpClaims, PumpSettles, Underway
  <2> QED BY <2>1, <2>2, <2>3, <2>4, <2>5
<1> QED BY <1>1, <1>2, AllRest DEF NoneBegins

\* Requests and work that take an open run on.
LEMMA StepsOn ==
  ASSUME TypeOK, TypeOK', NEW r \in Runs,
         \/ AnswerInput(r) \/ AnswerThenApprove(r) \/ ApprovePlan(r) \/ TaskPlans(r) \/ TaskPauses(r)
         \/ ResumeClaims(r)
  PROVE  (\A q \in Runs : Promise!Move(q)) /\ NoneBegins
<1>1. /\ status[r] \in Active /\ status'[r] \in Active
      /\ \A q \in Runs : q # r => status'[q] = status[q]
      /\ UNCHANGED <<executions, projection, messages>>
  <2>1. CASE AnswerInput(r) \/ AnswerThenApprove(r) \/ ApprovePlan(r)
    BY <2>1, StatusSet DEF AnswerInput, AnswerThenApprove, ApprovePlan, Statuses, Active, Waiting, Driven
  <2>2. CASE TaskPlans(r) \/ TaskPauses(r)
    BY <2>2, StatusSet DEF TaskPlans, TaskPauses, Statuses, Active, Waiting, Driven
  <2>3. CASE ResumeClaims(r)
    BY <2>3, StatusSet DEF ResumeClaims, ThreadStep, Statuses, Active, Waiting, Driven
  <2> QED BY <2>1, <2>2, <2>3
<1>2. Apart(r) /\ Promise!Move(r)
  BY <1>1, GoingOn DEF Apart, Untold
<1>3. ASSUME NEW q \in Runs, Underway(q)' PROVE Underway(q)
  <2>1. CASE AnswerInput(r) \/ AnswerThenApprove(r) \/ ApprovePlan(r)
    <3>1. task' = task /\ thread' = thread /\ status'[r] # "waiting_approval"
      BY <2>1, StatusSet DEF AnswerInput, AnswerThenApprove, ApprovePlan, Statuses, Active, Waiting, Driven, memory
    <3> QED BY <1>1, <1>3, <3>1 DEF Underway
  <2>2. CASE TaskPlans(r) \/ TaskPauses(r)
    <3>1. task[r].at = "working" /\ thread' = thread /\ (q # r => task'[q] = task[q])
      BY <2>2, TaskMoved DEF TaskPlans, TaskPauses, Working
    <3> QED BY <1>1, <1>3, <3>1 DEF Underway
  <2>3. CASE ResumeClaims(r)
    <3>1. status[r] = "waiting_approval" /\ task' = task /\ (q # r => thread'[q] = thread[q])
      BY <2>3 DEF ResumeClaims, ThreadStep, TypeOK
    <3> QED BY <1>1, <1>3, <3>1 DEF Underway
  <2> QED BY <2>1, <2>2, <2>3
<1> QED BY <1>1, <1>2, <1>3, OneMove DEF NoneBegins

\* The transactions that end a run, each from what it was doing.
LEMMA StepsEnd ==
  ASSUME TypeOK, TypeOK', NEW r \in Runs, Begun(r), Local(r),
         \/ Cancel(r) \/ TaskFails(r) \/ TaskCompletes(r) \/ ResumeEnds(r) \/ RejectPlan(r)
         \/ ApprovePreview(r) \/ StartRefused(r)
  PROVE  (\A q \in Runs : Promise!Move(q)) /\ NoneBegins
<1>1. /\ \A q \in Runs : q # r => status'[q] = status[q]
      /\ UNCHANGED <<executions, projection, messages>>
  <2>1. CASE Cancel(r) \/ TaskFails(r) \/ TaskCompletes(r)
    BY <2>1 DEF Cancel, TaskFails, TaskCompletes, SetStatus, TypeOK
  <2>2. CASE ResumeEnds(r) \/ RejectPlan(r)
    BY <2>2 DEF ResumeEnds, RejectPlan, ThreadStep, SetStatus, TypeOK
  <2>3. CASE ApprovePreview(r) \/ StartRefused(r)
    BY <2>3 DEF ApprovePreview, StartRefused, SetStatus, TypeOK
  <2> QED BY <2>1, <2>2, <2>3
<1>2. Apart(r) /\ Untold(r)
  BY <1>1 DEF Apart, Untold
<1>3. Promise!Move(r)
  <2>1. CASE Cancel(r)
    <3>1. status[r] \in Active /\ status'[r] = "cancelled"
      BY <2>1, StatusSet DEF Cancel, Statuses, Ended
    <3> QED BY <1>2, <3>1, EndingOnce DEF Ended
  <2>2. CASE TaskFails(r)
    <3>1. status[r] \in Driven /\ status'[r] = "failed"
      BY <2>2, StatusSet DEF TaskFails, Statuses, Ended
    <3> QED BY <1>2, <3>1, EndingOnce DEF Ended, Active
  <2>3. CASE TaskCompletes(r)
    <3>1. task[r].at = "working" /\ status[r] \in Driven /\ status'[r] = "completed"
      BY <2>3, StatusSet DEF TaskCompletes, Working, Statuses, Ended, Driven
    <3>2. \E k \in Kinds : executions[r][k] = 1
      BY <3>1 DEF Begun, Underway
    <3> QED BY <1>2, <3>1, <3>2, EndingOnce DEF Ended, Active
  <2>4. CASE ResumeEnds(r)
    <3>1. \E k \in Kinds : executions[r][k] = 1
      BY <2>4 DEF ResumeEnds, Begun, Underway
    <3>2. CASE status[r] = "running" /\ status'[r] \in {"completed", "failed"}
      BY <1>2, <3>1, <3>2, EndingOnce DEF Ended, Active, Driven
    <3>3. CASE status[r] = "running" /\ status'[r] = "waiting_approval"
      BY <1>2, <3>3, GoingOn DEF Active, Driven, Waiting
    <3>4. CASE status'[r] = status[r]
      BY <1>2, <3>4, StaysPut
    <3>5. \/ status[r] = "running" /\ status'[r] \in {"completed", "failed", "waiting_approval"}
          \/ status'[r] = status[r]
      BY <2>4 DEF ResumeEnds, ThreadStep, SetStatus, TypeOK
    <3> QED BY <3>2, <3>3, <3>4, <3>5
  <2>5. CASE RejectPlan(r)
    <3>1. status[r] \in Waiting /\ status'[r] = "rejected"
      BY <2>5, StatusSet DEF RejectPlan, ThreadStep, Statuses, Ended, Waiting
    <3> QED BY <1>2, <3>1, EndingOnce DEF Ended, Active
  <2>6. CASE ApprovePreview(r)
    <3>1. status[r] = "waiting_plan" /\ status'[r] = "completed"
      BY <2>6, StatusSet DEF ApprovePreview, Statuses, Ended
    <3>2. r \in Planned /\ executions[r]["approved"] = 0
      BY <3>1 DEF Local, Early, Before
    <3> QED BY <1>2, <3>1, <3>2, EndingOnce DEF Ended, Active, Waiting
  <2>7. CASE StartRefused(r)
    <3>1. status[r] \in Driven /\ status'[r] = "cancelled"
      BY <2>7, StatusSet DEF StartRefused, Busy, Local, Between, Doing, Statuses, Ended
    <3> QED BY <1>2, <3>1, EndingOnce DEF Ended, Active
  <2> QED BY <2>1, <2>2, <2>3, <2>4, <2>5, <2>6, <2>7
<1>4. ASSUME NEW q \in Runs, Underway(q)' PROVE Underway(q)
  <2>1. CASE Cancel(r)
    <3>1. /\ status'[r] # "waiting_approval"
          /\ task'[q] = task[q] \/ task[q].at = "working"
          /\ thread'[q] = thread[q] \/ thread[q] = "driving"
      BY <2>1 DEF Cancel, SetStatus, TypeOK
    <3> QED BY <1>1, <1>4, <3>1 DEF Underway
  <2>2. CASE TaskFails(r) \/ TaskCompletes(r)
    <3>1. task[r].at = "working" /\ thread' = thread
      BY <2>2 DEF TaskFails, TaskCompletes, Working
    <3>2. q # r => task'[q] = task[q]
      BY <2>2, TaskMoved DEF TaskFails, TaskCompletes
    <3> QED BY <1>1, <1>4, <3>1, <3>2 DEF Underway
  <2>3. CASE ResumeEnds(r)
    <3>1. thread[r] = "driving" /\ task' = task /\ (q # r => thread'[q] = thread[q])
      BY <2>3 DEF ResumeEnds, ThreadStep, TypeOK
    <3> QED BY <1>1, <1>4, <3>1 DEF Underway
  <2>4. CASE RejectPlan(r)
    <3>1. task' = task /\ status'[r] # "waiting_approval" /\ thread'[r] = "projecting"
          /\ (q # r => thread'[q] = thread[q])
      BY <2>4 DEF RejectPlan, ThreadStep, SetStatus, TypeOK
    <3> QED BY <1>1, <1>4, <3>1 DEF Underway
  <2>5. CASE ApprovePreview(r) \/ StartRefused(r)
    <3>1. task' = task /\ thread' = thread /\ status'[r] # "waiting_approval"
      BY <2>5 DEF ApprovePreview, StartRefused, SetStatus, TypeOK
    <3> QED BY <1>1, <1>4, <3>1 DEF Underway
  <2> QED BY <2>1, <2>2, <2>3, <2>4, <2>5
<1> QED BY <1>1, <1>2, <1>3, <1>4, OneMove DEF NoneBegins

\* Until it has projected its output the task that stored it is there.
Finishing(r) == Doing("project", r) => task[r].at # "none"

LEMMA FinishingKept ==
  ASSUME TypeOK, \A r \in Runs : Finishing(r), [Next]_vars
  PROVE  \A r \in Runs : Finishing(r)'
<1> DEFINE Else == loop'.op # "project" \/ (loop' = loop /\ task' = task)
<1>0. Else => \A r \in Runs : Finishing(r)'
  BY DEF Finishing, Doing
<1>1. ASSUME NEW r \in Runs, Request(r) PROVE Else
  BY <1>1 DEF Request, StartRun, AnswerInput, AnswerThenApprove, ApprovePlan, ApprovePreview, GoesToLaunch,
              Cancel, Serving, Busy, Idle, memory
<1>2. ASSUME NEW r \in Runs, Expire(r) \/ ResumeClaims(r) \/ RejectPlan(r) \/ ThreadMove(r) PROVE Else
  BY <1>2 DEF Expire, ResumeClaims, RejectPlan, ThreadMove, ResumeRegisters, ResumeEnds, ResumeCancelled,
              ThreadProjects, ThreadStep, memory
<1>3. ASSUME NEW r \in Runs, LoopStep(r) PROVE Else \/ TaskCompletes(r)
  BY <1>3 DEF LoopStep, TaskPlans, TaskFails, TaskProjects, TaskCancelled, TaskPauses, FinishProjects,
              FinishSettles, StartRefused, PreviewProjects, Launch, Working, Serving, Busy, Idle
<1>4. ASSUME NEW r \in Runs, NEW k \in Kinds, PumpStep(r, k) PROVE Else
  BY <1>4 DEF PumpStep, PumpProjects, PumpSkipsWaiting, PumpLaunches, PumpClaims, PumpSettles, Busy, Idle
<1>5. Crash \/ Startup \/ UNCHANGED vars => Else
  BY DEF Crash, Startup, ReconcileDispatches, ReconcileOrphans, Serve, Idle, vars, memory
<1>6. ASSUME NEW r \in Runs, TaskCompletes(r) PROVE \A q \in Runs : Finishing(q)'
  BY <1>6 DEF TaskCompletes, Working, Finishing, Doing, Busy
<1> QED BY <1>0, <1>1, <1>2, <1>3, <1>4, <1>5, <1>6 DEF Next, AllEnded

\* Whoever projects an ending tells it, or finds it told.
LEMMA StepsTell ==
  ASSUME IInv, IInv', NEW r \in Runs, Finishing(r),
         \/ TaskProjects(r) \/ FinishProjects(r) \/ ThreadProjects(r) \/ PreviewProjects(r)
         \/ \E k \in Kinds : PumpProjects(r, k)
  PROVE  (\A q \in Runs : Promise!Move(q)) /\ NoneBegins
<1>0. TypeOK /\ TypeOK' /\ Local(r)
  BY DEF IInv
<1>1. UNCHANGED <<status, executions>>
  BY DEF TaskProjects, FinishProjects, ThreadProjects, PreviewProjects, PumpProjects
<1>2. (status[r] \in Ended /\ Project(r)) \/ UNCHANGED <<projection, messages>>
  <2>1. CASE TaskProjects(r)
    BY <1>0, <2>1 DEF TaskProjects, Local, Between, Doing, Busy
  <2>2. CASE FinishProjects(r)
    BY <2>2 DEF FinishProjects
  <2>3. CASE ThreadProjects(r)
    BY <1>0, <2>3 DEF ThreadProjects, Local, Drivers
  <2>4. CASE \E k \in Kinds : PumpProjects(r, k)
    BY <2>4 DEF PumpProjects
  <2>5. CASE PreviewProjects(r)
    BY <1>0, <2>5 DEF PreviewProjects, Local, Between, Doing, Busy
  <2> QED BY <2>1, <2>2, <2>3, <2>4, <2>5
<1>3. ASSUME UNCHANGED <<projection, messages>> PROVE \A q \in Runs : Promise!Move(q)
  BY <1>1, <1>3, AllRest
<1>4. ASSUME status[r] \in Ended, Project(r) PROVE \A q \in Runs : Promise!Move(q)
  <2>1. Promise!Move(r)
    BY <1>0, <1>1, <1>4, Telling DEF Local
  <2>2. Apart(r)
    BY <1>0, <1>1, <1>4, ProjectIs DEF Local, Apart, Untold
  <2> QED BY <2>1, <2>2, OneMove
<1>5. ASSUME NEW q \in Runs, Underway(q)' PROVE Underway(q)
  <2>1. CASE TaskProjects(r)
    <3>1. thread' = thread /\ (q # r => task'[q] = task[q])
      BY <1>0, <2>1, TaskMoved DEF TaskProjects
    <3>2. task[r].at # "none"
      BY <2>1 DEF TaskProjects, Finishing, Doing, Busy
    <3> QED BY <1>1, <1>5, <3>1, <3>2 DEF Underway
  <2>2. CASE FinishProjects(r)
    <3>1. thread' = thread /\ (task'[q] = task[q] \/ task'[q].at = "none")
      BY <1>0, <2>2 DEF FinishProjects, TypeOK, NoTask
    <3> QED BY <1>1, <1>5, <3>1 DEF Underway
  <2>3. CASE ThreadProjects(r)
    <3>1. task' = task /\ (thread'[q] = thread[q] \/ thread'[q] = "idle")
      BY <1>0, <2>3 DEF ThreadProjects, TypeOK
    <3> QED BY <1>1, <1>5, <3>1 DEF Underway
  <2>4. CASE \E k \in Kinds : PumpProjects(r, k)
    BY <1>1, <1>5, <2>4 DEF PumpProjects, Underway
  <2>5. CASE PreviewProjects(r)
    BY <1>1, <1>5, <2>5 DEF PreviewProjects, Underway
  <2> QED BY <2>1, <2>2, <2>3, <2>4, <2>5
<1> QED BY <1>1, <1>2, <1>3, <1>4, <1>5 DEF NoneBegins

\* A launch begins a work of a run that is driven, once, or finds it is not its own.
LEMMA LaunchBegins ==
  ASSUME IInv, IInv', NEW r \in Runs, NEW k \in Kinds, Launch(r, k)
  PROVE  \A q \in Runs : Promise!Move(q)
<1>0. TypeOK /\ TypeOK' /\ Local(r)
  BY DEF IInv
<1>1. status[r] \in Driven /\ executions[r][k] = 0
  BY <1>0 DEF Launch, Local, Between, Doing, Busy
<1>2. UNCHANGED <<status, projection, messages>>
  BY DEF Launch
<1>3. CASE ~Claimable(r, k)
  BY <1>2, <1>3, AllRest DEF Launch
<1>4. CASE Claimable(r, k)
  <2>1. executions'[r] = [executions[r] EXCEPT ![k] = 1]
    BY <1>0, <1>1, <1>4 DEF Launch, TypeOK
  <2>2. \A q \in Runs : q # r => executions'[q] = executions[q]
    BY <1>0, <1>4 DEF Launch, TypeOK
  <2>3. Promise!Move(r)
    BY <1>0, <1>1, <1>2, <2>1, Launching
  <2> QED BY <1>2, <2>2, <2>3, OneMove DEF Apart, Untold
<1> QED BY <1>3, <1>4

LEMMA LaunchWorks ==
  ASSUME IInv, \A q \in Runs : Begun(q), NEW r \in Runs, NEW k \in Kinds, Launch(r, k)
  PROVE  \A q \in Runs : Begun(q)'
<1>0. TypeOK /\ Local(r) /\ executions[r][k] = 0
  BY DEF IInv, Launch, Local, Between, Doing, Busy
<1>1. status' = status /\ thread' = thread
  BY DEF Launch
<1>2. CASE ~Claimable(r, k)
  <2>1. task' = task /\ executions' = executions
    BY <1>2 DEF Launch
  <2> QED BY <1>1, <2>1 DEF Begun, Underway
<1>3. CASE Claimable(r, k)
  <2>1. executions'[r][k] = 1
    BY <1>0, <1>3 DEF Launch, TypeOK
  <2>2. \A q \in Runs : q # r => executions'[q] = executions[q] /\ task'[q] = task[q]
    BY <1>0, <1>3 DEF Launch, TypeOK
  <2> QED BY <1>1, <2>1, <2>2 DEF Begun, Underway
<1> QED BY <1>2, <1>3

\* A new run is begun, and what it finds in its thread is a wait that has passed its day.
LEMMA StartMoves ==
  ASSUME IInv, IInv', NEW r \in Runs, NEW t \in Threads, StartRun(r, t)
  PROVE  (\A q \in Runs : Promise!Move(q)) /\ NoneBegins
<1>0. TypeOK /\ TypeOK' /\ status[r] = "absent"
  BY DEF IInv, StartRun
<1>1. UNCHANGED <<executions, projection, messages, task, thread>>
  BY DEF StartRun
<1>2. status'[r] \in Active /\ status'[r] # "waiting_approval"
  BY <1>0 DEF StartRun, FirstStatus, TypeOK, Active, Waiting, Driven
<1>3. \A q \in Runs \ {r} : \/ status'[q] = status[q]
                            \/ status[q] \in Active /\ status'[q] = "cancelled"
  BY <1>0 DEF StartRun, MakesWay, InTheWay, TypeOK
<1>4. ASSUME NEW q \in Runs PROVE Promise!Move(q)
  <2>1. Untold(q)
    BY <1>1 DEF Untold
  <2>2. CASE q = r
    BY <1>0, <1>2, <2>1, <2>2, GoingOn
  <2>3. CASE q # r /\ status'[q] = status[q]
    BY <2>1, <2>3, StaysPut
  <2>4. CASE status[q] \in Active /\ status'[q] = "cancelled"
    BY <1>0, <2>1, <2>4, EndingOnce DEF Ended
  <2> QED BY <1>3, <2>2, <2>3, <2>4
<1>5. \A q \in Runs : Underway(q)' => Underway(q)
  BY <1>1, <1>2, <1>3 DEF Underway
<1> QED BY <1>1, <1>4, <1>5 DEF NoneBegins

\* A start ends what nobody drives any more and the waits that are over.
LEMMA OrphansEnd ==
  ASSUME TypeOK, TypeOK', ReconcileOrphans
  PROVE  (\A q \in Runs : Promise!Move(q)) /\ NoneBegins
<1>1. UNCHANGED <<executions, projection, messages, task, thread>>
  BY DEF ReconcileOrphans, memory
<1>2. \A q \in Runs : \/ status'[q] = status[q]
                      \/ status[q] \in Driven /\ status'[q] = "failed"
                      \/ status[q] \in Waiting /\ status'[q] = "cancelled"
  BY DEF ReconcileOrphans, Orphans, Overdue, TypeOK, Waiting
<1>3. ASSUME NEW q \in Runs PROVE Promise!Move(q)
  <2>1. Untold(q)
    BY <1>1 DEF Untold
  <2>2. CASE status'[q] = status[q]
    BY <2>1, <2>2, StaysPut
  <2>3. CASE status[q] \in Driven /\ status'[q] = "failed"
    BY <2>1, <2>3, EndingOnce DEF Ended, Active
  <2>4. CASE status[q] \in Waiting /\ status'[q] = "cancelled"
    BY <2>1, <2>4, EndingOnce DEF Ended, Active
  <2> QED BY <1>2, <2>2, <2>3, <2>4
<1>4. \A q \in Runs : Underway(q)' => Underway(q)
  BY <1>1, <1>2 DEF Underway
<1> QED BY <1>1, <1>3, <1>4 DEF NoneBegins

LEMMA ProcessMoves ==
  ASSUME TypeOK, Crash \/ ReconcileDispatches \/ Serve \/ UNCHANGED vars
  PROVE  (\A q \in Runs : Promise!Move(q)) /\ NoneBegins
<1>1. UNCHANGED <<status, executions, projection, messages>>
  BY DEF Crash, ReconcileDispatches, Serve, vars, stored
<1>2. UNCHANGED <<task, thread>> \/ \A q \in Runs : task'[q].at = "none" /\ thread'[q] = "idle"
  BY DEF Crash, ReconcileDispatches, Serve, vars, memory, NoTask
<1>3. \A q \in Runs : Underway(q)' => Underway(q)
  BY <1>1, <1>2 DEF Underway
<1> QED BY <1>1, <1>3, AllRest DEF NoneBegins

\* Every step moves each run as promised, and whoever works has begun a work.
LEMMA StepKeepsDelivery ==
  ASSUME IInv, IInv', \A q \in Runs : Begun(q) /\ Finishing(q), [Next]_vars
  PROVE  (\A q \in Runs : Promise!Move(q)) /\ (\A q \in Runs : Begun(q)')
<1>0. TypeOK /\ TypeOK' /\ \A q \in Runs : Local(q)
  BY DEF IInv
<1>1. NoneBegins => \A q \in Runs : Begun(q)'
  BY DEF NoneBegins, Begun
<1>2. CASE \E r \in Runs : Request(r)
  BY <1>0, <1>1, <1>2, StartMoves, StepsOn, StepsEnd DEF Request
<1>3. CASE \E r \in Runs : Expire(r) \/ ResumeClaims(r) \/ RejectPlan(r)
  BY <1>0, <1>1, <1>3, QuietSteps, StepsOn, StepsEnd
<1>4. CASE \E r \in Runs : LoopStep(r)
  <2>1. PICK r \in Runs : LoopStep(r)
    BY <1>4
  <2>2. CASE \E k \in Kinds : Launch(r, k)
    BY <2>2, LaunchBegins, LaunchWorks
  <2>3. CASE ~\E k \in Kinds : Launch(r, k)
    BY <1>0, <1>1, <2>1, <2>3, QuietSteps, StepsOn, StepsEnd, StepsTell DEF LoopStep
  <2> QED BY <2>2, <2>3
<1>5. CASE \E r \in Runs : ThreadMove(r)
  BY <1>0, <1>1, <1>5, QuietSteps, StepsEnd, StepsTell DEF ThreadMove
<1>6. CASE \E r \in Runs, k \in Kinds : PumpStep(r, k)
  BY <1>0, <1>1, <1>6, QuietSteps, StepsTell DEF PumpStep
<1>7. CASE Crash \/ Startup \/ UNCHANGED vars
  BY <1>0, <1>1, <1>7, ProcessMoves, OrphansEnd DEF Startup
<1> QED BY <1>2, <1>3, <1>4, <1>5, <1>6, <1>7 DEF Next, AllEnded

LEMMA PromiseTyped == IInv => Promise!Typed
<1> SUFFICES ASSUME IInv PROVE Promise!Typed
  OBVIOUS
<1>0. TypeOK /\ \A r \in Runs : Local(r)
  BY DEF IInv
<1>1. Stages \in [Runs -> {"absent"} \cup Promise!Open \cup Promise!Endings]
  <2>1. \A r \in Runs : Stages[r] \in {"absent"} \cup Promise!Open \cup Promise!Endings
    BY <1>0, StageNow DEF TypeOK, Statuses, Active, Promise!Open, Promise!Endings, Ended
  <2> QED BY <2>1 DEF Stages
<1>2. executions \in [Runs -> [Kinds -> {0, 1}]]
  <2>1. \A r \in Runs, k \in Kinds : executions[r][k] \in {0, 1}
    <3> SUFFICES ASSUME NEW r \in Runs, NEW k \in Kinds PROVE executions[r][k] \in {0, 1}
      OBVIOUS
    <3>1. executions[r][k] \in Nat /\ executions[r][k] =< 1
      BY <1>0 DEF Local, Once, TypeOK
    <3> QED BY <3>1
  <2>2. \A r \in Runs : executions[r] \in [Kinds -> {0, 1}]
    BY <1>0, <2>1 DEF TypeOK
  <2> QED BY <1>0, <2>2 DEF TypeOK
<1>3. messages \in [Runs -> {0, 1}]
  <2>1. \A r \in Runs : messages[r] \in {0, 1}
    BY <1>0 DEF Local, Projected
  <2> QED BY <1>0, <2>1 DEF TypeOK
<1>4. projection \in [Runs -> {"none"} \cup Promise!Endings]
  BY <1>0 DEF TypeOK, Ended, Promise!Endings
<1> QED BY <1>1, <1>2, <1>3, <1>4 DEF Promise!Typed

LEMMA PromiseTypedNext == IInv' => Promise!Typed'
BY PromiseTyped, PTL

\* Dispatch implements DeliveryPromise, for any number of runs and threads and across any
\* number of lost processes: a run ends once, its work begins once and never after the
\* end, it completes only by work that was begun or as the confirmed preview of a plan that
\* was not executed, and the ending its thread is told is the true one and told once
\* (claim_run_dispatch, approve_agent_run_plan, project_terminal_run_output,
\* reconcile_orphaned_agent_runs).
THEOREM DeliveryIsKept == Spec => KeepsDelivery
<1>1. Init => IInv /\ (\A r \in Runs : Begun(r) /\ Finishing(r)) /\ Promise!Init
  <2> SUFFICES ASSUME Init PROVE IInv /\ (\A r \in Runs : Begun(r) /\ Finishing(r)) /\ Promise!Init
    OBVIOUS
  <2>1. IInv
    BY InitHolds
  <2>2. \A r \in Runs : Begun(r) /\ Finishing(r)
    BY DEF Init, Begun, Underway, NoTask, Finishing, Doing, Idle
  <2>3. Stages = [r \in Runs |-> "absent"]
    BY DEF Init, Stages, Waiting, Driven
  <2> QED BY <2>1, <2>2, <2>3 DEF Init, Promise!Init
<1>2. IInv /\ (\A r \in Runs : Begun(r) /\ Finishing(r)) /\ [Next]_vars => IInv' /\ (\A r \in Runs : Begun(r) /\ Finishing(r))'
  BY StepHolds, StepKeepsDelivery, FinishingKept DEF IInv
<1>3. IInv /\ (\A r \in Runs : Begun(r) /\ Finishing(r)) /\ IInv' /\ [Next]_vars
        => [Promise!Next]_<<Stages, executions, projection, messages>>
  BY StepKeepsDelivery, PromiseTypedNext DEF Promise!Next
<1> QED BY <1>1, <1>2, <1>3, PTL DEF Spec, KeepsDelivery, Promise!Spec

=============================================================================
