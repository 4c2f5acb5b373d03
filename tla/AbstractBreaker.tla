-------------------------- MODULE AbstractBreaker --------------------------
(***************************************************************************)
(* What a circuit breaker promises the goroutines that share it, without   *)
(* counters, thresholds or clocks:                                         *)
(*   - while it cools down after opening, nobody is admitted;              *)
(*   - the first call admitted after the cool-down makes it half-open;     *)
(*   - only the result of an admitted call, or Reset, moves it anywhere    *)
(*     else, and an open breaker is never closed by a result.              *)
(* CircuitBreaker is shown to implement it.                                *)
(***************************************************************************)
EXTENDS Naturals

CONSTANT Callers

VARIABLES
    state,      \* the state the breaker reports
    cooling,    \* TRUE from the moment it opens until Timeout has passed
    inFlight    \* the callers whose function is executing

vars == <<state, cooling, inFlight>>

Init ==
    /\ state = "closed"
    /\ cooling = FALSE
    /\ inFlight = {}

Admit(c) ==
    /\ c \notin inFlight
    /\ state # "open"
    /\ inFlight' = inFlight \cup {c}
    /\ UNCHANGED <<state, cooling>>

\* The call that finds the cool-down over tries the backend again.
Probe(c) ==
    /\ c \notin inFlight
    /\ state = "open"
    /\ ~cooling
    /\ inFlight' = inFlight \cup {c}
    /\ state' = "half-open"
    /\ UNCHANGED cooling

\* A result may leave the state alone, open the breaker, or close one that
\* is half-open.
Finish(c) ==
    /\ c \in inFlight
    /\ inFlight' = inFlight \ {c}
    /\ \/ UNCHANGED <<state, cooling>>
       \/ state # "open" /\ state' = "open" /\ cooling' \in BOOLEAN
       \/ state = "half-open" /\ state' = "closed" /\ UNCHANGED cooling

Reset ==
    /\ state' = "closed"
    /\ cooling' = FALSE
    /\ UNCHANGED inFlight

CoolDown ==
    /\ cooling' = FALSE
    /\ UNCHANGED <<state, inFlight>>

Next ==
    \/ \E c \in Callers : Admit(c) \/ Probe(c) \/ Finish(c)
    \/ Reset
    \/ CoolDown

Spec == Init /\ [][Next]_vars
============================================================================
