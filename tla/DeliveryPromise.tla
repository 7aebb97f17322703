-------------------------- MODULE DeliveryPromise --------------------------
(***************************************************************************)
(* What dispatch promises to whoever asked for a run, without receipts,    *)
(* tasks, pump, threads and restarts: a run ends once, as what it was      *)
(* doing allows; work begins only while the run is driven and never twice; *)
(* and the ending, once told, is told as it is and told once.              *)
(***************************************************************************)
EXTENDS Naturals

CONSTANTS
    Runs,
    Planned,        \* those whose plan is made, and may be shown, before it is executed
    Works,          \* what may have to be done for a run, each at most once
    Execution       \* the work that executes the plan of a planned run

VARIABLES
    stage,          \* of each run
    begun,          \* how often each of its works was begun
    told,           \* the ending its chat thread was told
    said            \* how many answers its chat thread got

Open == {"waiting", "driven"}
Endings == {"completed", "failed", "rejected", "cancelled"}
Answers(ending) == IF ending \in {"completed", "rejected"} THEN 1 ELSE 0

Typed ==
    /\ stage \in [Runs -> {"absent"} \cup Open \cup Endings]
    /\ begun \in [Runs -> [Works -> {0, 1}]]
    /\ told \in [Runs -> {"none"} \cup Endings]
    /\ said \in [Runs -> {0, 1}]

Init ==
    /\ stage = [r \in Runs |-> "absent"]
    /\ begun = [r \in Runs |-> [w \in Works |-> 0]]
    /\ told = [r \in Runs |-> "none"]
    /\ said = [r \in Runs |-> 0]

Silent(r) == told'[r] = told[r] /\ said'[r] = said[r]
Idles(r) == begun'[r] = begun[r]

Rests(r) == stage'[r] = stage[r] /\ Idles(r) /\ Silent(r)

GoesOn(r) ==
    /\ stage[r] \in {"absent"} \cup Open /\ stage'[r] \in Open
    /\ Idles(r) /\ Silent(r)

Begins(r) ==
    /\ stage[r] = "driven" /\ stage'[r] = "driven"
    /\ \E w \in Works : begun[r][w] = 0 /\ begun'[r] = [begun[r] EXCEPT ![w] = 1]
    /\ Silent(r)

\* A plan that was only to be seen: the run is over when it is confirmed, unexecuted.
Previewed(r) == stage[r] = "waiting" /\ r \in Planned /\ begun[r][Execution] = 0

Done(r) == stage[r] = "driven" /\ \E w \in Works : begun[r][w] = 1

Ends(r) ==
    /\ stage[r] \in Open /\ stage'[r] \in Endings
    /\ stage'[r] = "completed" => Done(r) \/ Previewed(r)
    /\ stage'[r] = "failed" => stage[r] = "driven"
    /\ stage'[r] = "rejected" => stage[r] = "waiting"
    /\ Idles(r) /\ Silent(r)

Tells(r) ==
    /\ stage[r] \in Endings /\ told[r] = "none"
    /\ told'[r] = stage[r] /\ said'[r] = Answers(stage[r])
    /\ stage'[r] = stage[r] /\ Idles(r)

Move(r) == Rests(r) \/ GoesOn(r) \/ Begins(r) \/ Ends(r) \/ Tells(r)

\* A new run may end another, and a start ends many in one transaction.
Next == Typed' /\ \A r \in Runs : Move(r)

Spec == Init /\ [][Next]_<<stage, begun, told, said>>
=============================================================================
