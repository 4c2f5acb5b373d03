---------------------------- MODULE BreakerArray ----------------------------
(***************************************************************************)
(* What callers may rely on when every key has a circuit breaker of its    *)
(* own: there is exactly one breaker per key, it is there from the start,  *)
(* and every result is recorded in the breaker that admitted the call.     *)
(* PerOperationCircuitBreaker, which creates breakers when they are first  *)
(* needed, implements this; RetryFS uses its breakers like this.           *)
(***************************************************************************)
EXTENDS Breaker

CONSTANTS Keys, Callers, Nobody

VARIABLES
    breaker,    \* key -> breaker
    behind      \* caller -> the key whose breaker admitted it, or Nobody

vars == <<breaker, behind>>

Init ==
    /\ breaker = [k \in Keys |-> NewCircuitBreaker]
    /\ behind = [c \in Callers |-> Nobody]

Admit(c, k) ==
    /\ behind[c] = Nobody
    /\ Allows(breaker[k])
    /\ breaker' = [breaker EXCEPT ![k] = allowCall(@)]
    /\ behind' = [behind EXCEPT ![c] = k]

Record(c, k) ==
    /\ behind[c] = k
    /\ \E b \in {onSuccess(breaker[k]), onFailure(breaker[k])} :
           breaker' = [breaker EXCEPT ![k] = b]
    /\ behind' = [behind EXCEPT ![c] = Nobody]

Reset(k) ==
    /\ breaker' = [breaker EXCEPT ![k] = reset(@)]
    /\ UNCHANGED behind

Tick ==
    /\ breaker' = [k \in Keys |-> Age(breaker[k])]
    /\ UNCHANGED behind

Next ==
    \/ \E c \in Callers, k \in Keys : Admit(c, k) \/ Record(c, k)
    \/ \E k \in Keys : Reset(k)
    \/ Tick

Spec == Init /\ [][Next]_vars
=============================================================================
