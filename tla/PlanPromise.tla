----------------------------- MODULE PlanPromise -----------------------------
(***************************************************************************)
(* What executing an approved Skill plan promises to the user, without the *)
(* executor, the requests and the store behind it (ADR 0004): the run      *)
(* works, may stop to ask, and ends once; a delivered result is never lost *)
(* and none is added after the end; "completed" means that all the work    *)
(* was delivered, "partial" that something was.                            *)
(***************************************************************************)
CONSTANT Work       \* the nodes of the plan

VARIABLES
    status,         \* of the run
    delivered       \* the nodes whose result is stored

Ended == status \in {"completed", "partial", "failed", "cancelled"}

Init == status = "running" /\ delivered = {}

Deliver ==
    /\ status = "running"
    /\ \E w \in Work \ delivered : delivered' = delivered \cup {w}
    /\ UNCHANGED status

AskUser == status = "running" /\ status' = "waiting_approval" /\ UNCHANGED delivered

UserAnswers == status = "waiting_approval" /\ status' = "running" /\ UNCHANGED delivered

Complete == status = "running" /\ delivered = Work /\ status' = "completed" /\ UNCHANGED delivered

DeliverPart == ~Ended /\ delivered # {} /\ status' = "partial" /\ UNCHANGED delivered

GiveUp == ~Ended /\ status' \in {"failed", "cancelled"} /\ UNCHANGED delivered

Next == Deliver \/ AskUser \/ UserAnswers \/ Complete \/ DeliverPart \/ GiveUp

Spec == Init /\ [][Next]_<<status, delivered>>
=============================================================================
