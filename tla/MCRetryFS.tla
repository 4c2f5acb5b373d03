----------------------------- MODULE MCRetryFS -----------------------------
(* RetryFS on small instances.                                             *)
EXTENDS RetryFS, TLC

CONSTANTS w1, w2

TwoWorkers == {w1, w2}

\* One operation of each shape that matters: Stat returns a result, MkdirAll
\* only an error; Mkdir has no Context variant.
TwoOps   == {"stat", "mkdirall"}
ThreeOps == TwoOps \cup {"mkdir"}
\* For a backend without symlinks: Lstat falls back to Stat, Symlink fails.
FiveOps  == ThreeOps \cup {"lstat", "symlink"}

WithResult  == {"stat", "lstat"} \cap Operations
WithContext == Operations \ {"mkdir"}

\* Nothing overridden; Mkdir's policy left at the zero value of Policy.
NoPolicies   == [op \in {} |-> 0]
MkdirUnset   == "mkdir" :> 0

WorkerSymmetry == Permutations(Workers)
============================================================================
