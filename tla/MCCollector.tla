---------------------------- MODULE MCCollector ----------------------------
(* Collector on small instances.                                           *)
EXTENDS Collector, TLC

CONSTANTS w1, w2

TwoWorkers == {w1, w2}
TwoOps     == {"stat", "mkdirall"}
NoPolicies == [op \in {} |-> 0]
WorkerSymmetry == Permutations(Workers)
============================================================================
