------------------------------ MODULE Breaker ------------------------------
(***************************************************************************)
(* The data of one CircuitBreaker (src/circuit_breaker.go) and what each   *)
(* of its methods does to it.  Every method holds cb.mu from its first to  *)
(* its last statement, so a method is one function from breaker to         *)
(* breaker.  The modules that share a breaker between goroutines           *)
(* (CircuitBreaker, RetryFS) make these functions atomic steps.            *)
(***************************************************************************)
EXTENDS Integers

CONSTANTS
    FailureThreshold,   \* cb.FailureThreshold (any int: 0 is Go's zero value)
    SuccessThreshold,   \* cb.SuccessThreshold (any int)
    Timeout             \* cb.Timeout, in ticks of the model's clock

ASSUME BreakerAssumption ==
    /\ FailureThreshold \in Int
    /\ SuccessThreshold \in Int
    /\ Timeout \in Nat

StateClosed   == "closed"
StateOpen     == "open"
StateHalfOpen == "half-open"
State == {StateClosed, StateOpen, StateHalfOpen}

(***************************************************************************)
(* lastFailureTime is only ever read as time.Since(lastFailureTime) >=     *)
(* Timeout, so the model keeps the age of the last failure, saturated at   *)
(* Timeout.  The zero time.Time of a new breaker is arbitrarily old.       *)
(***************************************************************************)
Breakers == [state              : State,
             consecutiveErrors  : Nat,
             consecutiveSuccess : Nat,
             sinceFailure       : 0..Timeout]

NewCircuitBreaker == [state              |-> StateClosed,
                      consecutiveErrors  |-> 0,
                      consecutiveSuccess |-> 0,
                      sinceFailure       |-> Timeout]

Advance(t) == IF t < Timeout THEN t + 1 ELSE t

\* One tick of the clock, seen from the breaker.
Age(b) == [b EXCEPT !.sinceFailure = Advance(@)]

setState(b, newState) ==
    IF b.state = newState THEN b
    ELSE IF newState = StateClosed
         THEN [b EXCEPT !.state = newState,
                        !.consecutiveErrors = 0,
                        !.consecutiveSuccess = 0]
         ELSE [b EXCEPT !.state = newState]

\* Mutant: the comparison with Timeout is off by one tick.
AllowsEarly(b) == b.state = StateOpen => b.sinceFailure + 1 >= Timeout

\* The boolean allowCall returns, and the breaker it leaves behind.
Allows(b) == b.state = StateOpen => b.sinceFailure >= Timeout

\* Mutant: a refused call restarts the timer.
allowCallRestartsTimer(b) ==
    IF b.state = StateOpen
    THEN IF Allows(b) THEN setState(b, StateHalfOpen)
                      ELSE [b EXCEPT !.sinceFailure = 0]
    ELSE b

\* Mutant: the call is let through without becoming half-open.
allowCallStaysOpen(b) == b

allowCall(b) ==
    IF b.state = StateOpen /\ Allows(b) THEN setState(b, StateHalfOpen) ELSE b

\* Mutant: the circuit closes one success too late.
onSuccessLate(b) ==
    LET c == [b EXCEPT !.consecutiveErrors = 0, !.consecutiveSuccess = @ + 1]
    IN  IF c.state = StateHalfOpen /\ c.consecutiveSuccess > SuccessThreshold
        THEN setState(c, StateClosed)
        ELSE IF c.state = StateClosed
             THEN [c EXCEPT !.consecutiveSuccess = 0]
             ELSE c

\* Mutant: every success clears the counter, not only one in closed state.
onSuccessForgets(b) ==
    LET c == [b EXCEPT !.consecutiveErrors = 0, !.consecutiveSuccess = @ + 1]
    IN  IF c.state = StateHalfOpen /\ c.consecutiveSuccess >= SuccessThreshold
        THEN setState(c, StateClosed)
        ELSE [c EXCEPT !.consecutiveSuccess = 0]

\* Mutant: a success takes back one failure instead of ending the run.
onSuccessForgives(b) ==
    LET c == [b EXCEPT !.consecutiveErrors = @ - 1, !.consecutiveSuccess = @ + 1]
    IN  IF c.state = StateHalfOpen /\ c.consecutiveSuccess >= SuccessThreshold
        THEN [setState(c, StateClosed) EXCEPT !.consecutiveSuccess = 0]
        ELSE IF c.state = StateClosed
             THEN [c EXCEPT !.consecutiveSuccess = 0]
             ELSE c

onSuccess(b) ==
    LET c == [b EXCEPT !.consecutiveErrors = 0, !.consecutiveSuccess = @ + 1]
    IN  IF c.state = StateHalfOpen /\ c.consecutiveSuccess >= SuccessThreshold
        THEN [setState(c, StateClosed) EXCEPT !.consecutiveSuccess = 0]
        ELSE IF c.state = StateClosed
             THEN [c EXCEPT !.consecutiveSuccess = 0]
             ELSE c

\* Mutant: the circuit opens one failure too late.
onFailureLate(b) ==
    LET c == [b EXCEPT !.consecutiveSuccess = 0,
                       !.consecutiveErrors = @ + 1,
                       !.sinceFailure = 0]
    IN  IF \/ c.state = StateClosed /\ c.consecutiveErrors > FailureThreshold
           \/ c.state = StateHalfOpen
        THEN setState(c, StateOpen)
        ELSE c

\* Mutant: a failure does not break the run of successes.
onFailureKeepsSuccesses(b) ==
    LET c == [b EXCEPT !.consecutiveErrors = @ + 1, !.sinceFailure = 0]
    IN  IF \/ c.state = StateClosed /\ c.consecutiveErrors >= FailureThreshold
           \/ c.state = StateHalfOpen
        THEN setState(c, StateOpen)
        ELSE c

\* Mutant: only the failures of a closed circuit are timed.
onFailureUntimed(b) ==
    LET c == [b EXCEPT !.consecutiveSuccess = 0, !.consecutiveErrors = @ + 1]
    IN  IF c.state = StateClosed
        THEN LET d == [c EXCEPT !.sinceFailure = 0]
             IN  IF d.consecutiveErrors >= FailureThreshold
                 THEN setState(d, StateOpen) ELSE d
        ELSE IF c.state = StateHalfOpen THEN setState(c, StateOpen) ELSE c

onFailure(b) ==
    LET c == [b EXCEPT !.consecutiveSuccess = 0,
                       !.consecutiveErrors = @ + 1,
                       !.sinceFailure = 0]
    IN  IF \/ c.state = StateClosed /\ c.consecutiveErrors >= FailureThreshold
           \/ c.state = StateHalfOpen
        THEN setState(c, StateOpen)
        ELSE c

reset(b) == [setState(b, StateClosed) EXCEPT !.consecutiveErrors = 0,
                                             !.consecutiveSuccess = 0]
============================================================================
