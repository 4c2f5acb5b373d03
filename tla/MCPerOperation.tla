--------------------------- MODULE MCPerOperation ---------------------------
(* PerOperationCircuitBreaker on small instances.                          *)
EXTENDS PerOperationCircuitBreaker

CONSTANTS g1, g2, a1, a2, a3, none

TwoCallers == {g1, g2}
TwoOps     == {"stat", "open"}
\* Room for one breaker more than there are operations.
ThreeAddresses == {a1, a2, a3}
=============================================================================
