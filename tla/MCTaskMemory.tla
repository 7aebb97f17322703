---------------------------- MODULE MCTaskMemory ----------------------------
(* A delivered task whose knowledge is accepted, and a task to come. *)
EXTENDS MemoryGovernance

CONSTANTS t1, t2, r1, r2, q1, idle, noTask

AcceptedDelivery == {[task |-> t1, run |-> r1]}

\* Mostly deliveries, mostly governance, or some of both.
Mix(d, m, c) == [delivery |-> d, memory |-> m, cites |-> c]
Mixes == {Mix(6, 0, 0), Mix(2, 2, 2), Mix(0, 6, 0), Mix(0, 4, 2)}
=============================================================================
