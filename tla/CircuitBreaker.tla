--------------------------- MODULE CircuitBreaker ---------------------------
(***************************************************************************)
(* One CircuitBreaker shared by goroutines (src/circuit_breaker.go).       *)
(*                                                                         *)
(* Call(fn) is three steps: allowCall under cb.mu, fn without any lock,    *)
(* and recordResult under cb.mu again.  The result may therefore be        *)
(* recorded in a state other than the one the call was admitted in.        *)
(***************************************************************************)
EXTENDS Breaker, FiniteSets

CONSTANTS
    Callers,        \* the goroutines that use the breaker
    Notify,         \* cb.OnStateChange # nil
    MaxErrors,      \* bound on consecutiveErrors
    MaxPending      \* bound on undelivered callbacks of one transition

ASSUME CircuitBreakerAssumption ==
    /\ IsFiniteSet(Callers)
    /\ Notify \in BOOLEAN
    /\ MaxErrors \in Nat
    /\ MaxPending \in Nat

VARIABLES
    cb,         \* the breaker
    call,       \* what each goroutine's Call is doing
    sick,       \* the running calls whose fn may still fail
    healthy,    \* environment: from now on the backend accepts every call
    pending,    \* the OnStateChange(from, to) goroutines not run yet
    ledger,     \* the listener's book: times a state was entered minus left
    openFor,    \* history: ticks since the breaker opened, up to Timeout
    halfOpenSuccesses  \* history: successes recorded in this half-open period

vars == <<cb, call, sick, healthy, pending, ledger, openFor, halfOpenSuccesses>>

Transition == State \X State

running == {c \in Callers : call[c] \in {"running", "probing"}}

Init ==
    /\ cb = NewCircuitBreaker
    /\ call = [c \in Callers |-> "idle"]
    /\ sick = {}
    /\ healthy = FALSE
    /\ pending = [t \in Transition |-> 0]
    /\ ledger = [s \in State |-> 0]
    /\ openFor = 0
    /\ halfOpenSuccesses = 0

-----------------------------------------------------------------------------
(* The effect of a critical section that turns cb into b.                  *)

\* Mutant: only the opening of the circuit is announced.
notifyOpenOnly(from, to) ==
    IF Notify /\ from # to /\ to = StateOpen
    THEN /\ pending[<<from, to>>] < MaxPending
         /\ pending' = [pending EXCEPT ![<<from, to>>] = @ + 1]
    ELSE pending' = pending

\* setState starts a goroutine for the callback of every real transition.
notify(from, to) ==
    IF Notify /\ from # to
    THEN /\ pending[<<from, to>>] < MaxPending
         /\ pending' = [pending EXCEPT ![<<from, to>>] = @ + 1]
    ELSE pending' = pending

AtLeastOne(n) == IF n > 1 THEN n ELSE 1

\* wins is the number of successes the critical section records; the history
\* need not count beyond the threshold.
Becomes(b, wins) ==
    /\ cb' = b
    /\ notify(cb.state, b.state)
    /\ openFor' = IF cb.state = StateOpen /\ b.state = StateOpen
                  THEN openFor ELSE 0
    /\ halfOpenSuccesses' =
           IF cb.state = StateHalfOpen /\ b.state = StateHalfOpen
           THEN IF halfOpenSuccesses < AtLeastOne(SuccessThreshold)
                THEN halfOpenSuccesses + wins ELSE halfOpenSuccesses
           ELSE 0

-----------------------------------------------------------------------------
(* Call(fn)                                                                *)

Admit(c) ==
    /\ c \notin running
    /\ Allows(cb)
    /\ Becomes(allowCall(cb), 0)
    /\ call' = [call EXCEPT ![c] = IF allowCall(cb).state = StateHalfOpen
                                   THEN "probing" ELSE "running"]
    /\ sick' = IF healthy THEN sick ELSE sick \cup {c}
    /\ UNCHANGED <<healthy, ledger>>

\* ErrCircuitOpen.
Reject(c) ==
    /\ c \notin running
    /\ ~Allows(cb)
    /\ Becomes(allowCall(cb), 0)
    /\ call' = [call EXCEPT ![c] = "refused"]
    /\ UNCHANGED <<sick, healthy, ledger>>

\* recordResult(nil)
RecordSuccess(c) ==
    /\ c \in running
    /\ Becomes(onSuccess(cb), 1)
    /\ call' = [call EXCEPT ![c] = "idle"]
    /\ sick' = sick \ {c}
    /\ UNCHANGED <<healthy, ledger>>

\* recordResult(err)
RecordFailure(c) ==
    /\ c \in sick
    /\ cb.consecutiveErrors < MaxErrors
    /\ Becomes(onFailure(cb), 0)
    /\ call' = [call EXCEPT ![c] = "idle"]
    /\ sick' = sick \ {c}
    /\ UNCHANGED <<healthy, ledger>>

\* Reset, called by an operator at any time.
Reset ==
    /\ Becomes(reset(cb), 0)
    /\ UNCHANGED <<call, sick, healthy, ledger>>

\* One OnStateChange goroutine runs; the scheduler picks which.
Deliver(t) ==
    /\ pending[t] > 0
    /\ pending' = [pending EXCEPT ![t] = @ - 1]
    /\ ledger' = [ledger EXCEPT ![t[1]] = @ - 1, ![t[2]] = @ + 1]
    /\ UNCHANGED <<cb, call, sick, healthy, openFor, halfOpenSuccesses>>

-----------------------------------------------------------------------------
(* The environment.                                                        *)

Tick ==
    /\ cb' = Age(cb)
    /\ openFor' = IF cb.state = StateOpen THEN Advance(openFor) ELSE openFor
    /\ UNCHANGED <<call, sick, healthy, pending, ledger, halfOpenSuccesses>>

\* The backend recovers: calls admitted from now on succeed.
Heal ==
    /\ ~healthy
    /\ healthy' = TRUE
    /\ UNCHANGED <<cb, call, sick, pending, ledger, openFor, halfOpenSuccesses>>

Next ==
    \/ \E c \in Callers : \/ Admit(c)
                          \/ Reject(c)
                          \/ RecordSuccess(c)
                          \/ RecordFailure(c)
    \/ Reset
    \/ \E t \in Transition : Deliver(t)
    \/ Tick
    \/ Heal

Spec == Init /\ [][Next]_vars

(***************************************************************************)
(* Time passes, every fn returns, some goroutine keeps calling, and the     *)
(* goroutines that setState starts are run.                                *)
(***************************************************************************)
Fairness ==
    /\ WF_vars(Tick)
    /\ WF_vars(\E c \in Callers : Admit(c))
    /\ \A c \in Callers : WF_vars(RecordSuccess(c) \/ RecordFailure(c))
    /\ \A t \in Transition : WF_vars(Deliver(t))

FairSpec == Spec /\ Fairness

-----------------------------------------------------------------------------
(* Properties that hold.                                                   *)

Larger(m, n) == IF m > n THEN m ELSE n

\* Every variable has its type; a call whose fn may fail is running.
TypeOK ==
    /\ cb \in Breakers
    /\ call \in [Callers -> {"idle", "refused", "running", "probing"}]
    /\ sick \subseteq running
    /\ healthy \in BOOLEAN
    /\ pending \in [Transition -> Nat]
    /\ ledger \in [State -> Int]
    /\ openFor \in 0..Timeout
    /\ halfOpenSuccesses \in Nat

\* A closed breaker (allowCall admits everybody) has seen fewer failures in a
\* row than FailureThreshold, whatever was in flight when it closed and
\* however late those results came in; its success counter is zero.
ClosedIsHealthy ==
    cb.state = StateClosed =>
        /\ cb.consecutiveErrors < AtLeastOne(FailureThreshold)
        /\ cb.consecutiveSuccess = 0

\* onSuccess also counts the late successes of calls admitted before the
\* breaker opened, and nothing clears them when allowCall makes it half-open.
\* There are never more of them than the other goroutines could have had in
\* flight, so they can shorten the half-open period by no more than that.
LateSuccessesBounded ==
    /\ cb.state = StateOpen =>
           cb.consecutiveSuccess + Cardinality(running) < Cardinality(Callers)
    /\ cb.state = StateHalfOpen =>
           cb.consecutiveSuccess < Larger(SuccessThreshold, Cardinality(Callers))

\* A half-open breaker closes no later than the SuccessThreshold-th success
\* recorded in the half-open period.
ClosesByThreshold ==
    cb.state = StateHalfOpen => halfOpenSuccesses < AtLeastOne(SuccessThreshold)

\* The clock allowCall reads (the age of the last failure) never runs ahead
\* of the time since the breaker opened: no call gets through an open breaker
\* before Timeout has passed, even one re-opened from half-open.
NeverEarly ==
    cb.state = StateOpen => cb.sinceFailure <= openFor

\* Callbacks run in goroutines of their own, in any order.  Each transition is
\* still announced exactly once: what the listener has booked, corrected by
\* the callbacks still to come, is the breaker's state relative to the closed
\* state it was created in.
Arriving(s) == pending[<<StateClosed, s>>] + pending[<<StateOpen, s>>]
                   + pending[<<StateHalfOpen, s>>]
Leaving(s) == pending[<<s, StateClosed>>] + pending[<<s, StateOpen>>]
                  + pending[<<s, StateHalfOpen>>]
At(s, t) == IF s = t THEN 1 ELSE 0

NotificationsBalance ==
    Notify => \A s \in State :
        ledger[s] + Arriving(s) - Leaving(s) = At(s, cb.state) - At(s, StateClosed)

\* An open breaker does not stay open: late failures push the timer back, but
\* only the calls in flight when it opened can do so.
OpenIsTemporary == cb.state = StateOpen ~> cb.state # StateOpen

\* Once the backend has recovered the breaker closes and stays closed, whatever
\* the calls that were in flight before the recovery still report.
RecoveryCloses == healthy ~> [](cb.state = StateClosed)

\* The breaker keeps its promise to its clients.
Abstract == INSTANCE AbstractBreaker
                WITH state <- cb.state,
                     cooling <- cb.state = StateOpen /\ openFor < Timeout,
                     inFlight <- running

ImplementsAbstract == Abstract!Spec

-----------------------------------------------------------------------------
(* What the comments and tests of the code say, and the code does not do.  *)

\* circuit_breaker.go:112, "Allow a single test call in half-open state".
SingleProbe ==
    cb.state = StateHalfOpen =>
        Cardinality({c \in Callers : call[c] = "probing"}) <= 1
=============================================================================
