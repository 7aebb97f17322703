---------------------------- MODULE MCDeepSearch ----------------------------
(* Two coroutines at work for one run of two nodes. *)
EXTENDS DeepSearch, TLC

CONSTANTS t1, t2, n1, n2, c1, noTask, noNode

\* The coroutines and the nodes are interchangeable.
Interchangeable == Permutations({t1, t2}) \cup Permutations({n1, n2})
=============================================================================
