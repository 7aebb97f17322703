--------------------------- MODULE ApprovalPromise ---------------------------
(***************************************************************************)
(* What planning promises to the user, without the versions, requests,     *)
(* threads and transactions behind it: a plan is proposed once, may be     *)
(* revised while its user has the decision, and is decided once.  It runs  *)
(* only with consent and with its inputs; what runs or has ended is never  *)
(* revised, asked about or decided again.                                  *)
(***************************************************************************)
EXTENDS Naturals

VARIABLES
    stage,          \* of the run, as the user sees it
    consent,        \* the plan may run as it stands: decided, or it needs no decision
    content         \* counts the revisions of the proposal

Init == stage = "drafting" /\ consent = FALSE /\ content = 0

Settled == IF consent THEN "running" ELSE "deciding"

Propose ==
    /\ stage = "drafting"
    /\ consent' \in BOOLEAN /\ stage' \in {"asking", Settled'}
    /\ UNCHANGED content

Supply == stage = "asking" /\ stage' = Settled /\ UNCHANGED <<consent, content>>

Revise ==
    /\ stage = "deciding"
    /\ content' = content + 1 /\ stage' \in {"asking", "deciding"}
    /\ UNCHANGED consent

Consent ==
    /\ stage = "deciding"
    /\ consent' = TRUE /\ stage' \in {"running", "completed"}
    /\ UNCHANGED content

GiveUp ==
    /\ stage \notin {"completed", "ended"}
    /\ stage' = "ended" /\ consent' = FALSE
    /\ UNCHANGED content

Next == Propose \/ Supply \/ Revise \/ Consent \/ GiveUp

Spec == Init /\ [][Next]_<<stage, consent, content>>
=============================================================================
