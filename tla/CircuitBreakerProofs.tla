------------------------ MODULE CircuitBreakerProofs ------------------------
(***************************************************************************)
(* Proofs about CircuitBreaker, for every set of goroutines, every pair of *)
(* thresholds and every timeout.                                           *)
(***************************************************************************)
EXTENDS CircuitBreaker, BreakerProofs, FiniteSetTheorems, TLAPS

-----------------------------------------------------------------------------
(* What a step does to the goroutines and to the callbacks.                *)

\* The running calls after Call has moved on.
LEMMA CallMoves ==
    ASSUME TypeOK, NEW c \in Callers, NEW p, call' = [call EXCEPT ![c] = p]
    PROVE  /\ p \in {"running", "probing"} => running' = running \cup {c}
           /\ p \in {"idle", "refused"} => running' = running \ {c}
           /\ p \in {"idle", "refused", "running", "probing"} =>
                call' \in [Callers -> {"idle", "refused", "running", "probing"}]
  BY DEF TypeOK, running

\* Becoming b keeps the types of the bookkeeping.
LEMMA BecomesType ==
    ASSUME TypeOK, NEW b \in Breakers, NEW wins \in {0, 1}, Becomes(b, wins)
    PROVE  /\ cb' \in Breakers
           /\ pending' \in [Transition -> Nat]
           /\ openFor' \in 0..Timeout
           /\ halfOpenSuccesses' \in Nat
<1>1. pending' \in [Transition -> Nat]
  <2>1. CASE Notify /\ cb.state # b.state
    <3>1. <<cb.state, b.state>> \in Transition
      BY BreakerFields DEF TypeOK, Transition
    <3> QED
      BY <2>1, <3>1 DEF TypeOK, Becomes, notify
  <2>2. CASE ~(Notify /\ cb.state # b.state)
    BY <2>2 DEF TypeOK, Becomes, notify
  <2> QED
    BY <2>1, <2>2
<1> QED
  BY <1>1, BreakerAssumption DEF TypeOK, Becomes

\* Announcing the transition keeps the listener's book balanced.
LEMMA BecomesBalance ==
    ASSUME TypeOK, NotificationsBalance, NEW b \in Breakers, NEW wins,
           Becomes(b, wins), ledger' = ledger
    PROVE  NotificationsBalance'
<1> SUFFICES ASSUME Notify, NEW s \in State
             PROVE  ledger'[s] + Arriving(s)' - Leaving(s)'
                        = At(s, cb'.state) - At(s, StateClosed)
  BY DEF NotificationsBalance
<1>1. ledger[s] + Arriving(s) - Leaving(s) = At(s, cb.state) - At(s, StateClosed)
  BY DEF NotificationsBalance
<1>2. cb' = b /\ cb.state \in State /\ b.state \in State
  BY BreakerFields DEF TypeOK, Becomes
<1>3. CASE cb.state = b.state
  <2>1. pending' = pending
    BY <1>3 DEF Becomes, notify
  <2> QED
    BY <1>1, <1>2, <1>3, <2>1 DEF Arriving, Leaving
<1>4. CASE cb.state # b.state
  <2>1. pending' = [pending EXCEPT ![<<cb.state, b.state>>] = @ + 1]
    BY <1>4 DEF Becomes, notify
  <2>2. pending \in [State \X State -> Nat] /\ ledger[s] \in Int
    BY DEF TypeOK, Transition
  <2>3. /\ Arriving(s)' = Arriving(s) + At(s, b.state)
        /\ Leaving(s)' = Leaving(s) + At(s, cb.state)
    BY <1>2, <1>4, <2>1, <2>2
       DEF Arriving, Leaving, At, State, StateClosed, StateOpen, StateHalfOpen
  <2>4. Arriving(s) \in Nat /\ Leaving(s) \in Nat
    BY <2>2 DEF Arriving, Leaving, State
  <2> QED
    BY <1>1, <1>2, <2>2, <2>3, <2>4 DEF At
<1> QED
  BY <1>3, <1>4

\* A delivered callback moves an entry from the outstanding to the booked.
LEMMA DeliverBalance ==
    ASSUME TypeOK, NotificationsBalance, NEW t \in Transition, Deliver(t)
    PROVE  NotificationsBalance'
<1> SUFFICES ASSUME Notify, NEW s \in State
             PROVE  ledger'[s] + Arriving(s)' - Leaving(s)'
                        = At(s, cb'.state) - At(s, StateClosed)
  BY DEF NotificationsBalance
<1>1. ledger[s] + Arriving(s) - Leaving(s) = At(s, cb.state) - At(s, StateClosed)
  BY DEF NotificationsBalance
<1>2. PICK from \in State, to \in State : t = <<from, to>>
  BY DEF Transition
<1>3. pending \in [State \X State -> Nat] /\ ledger \in [State -> Int]
  BY DEF TypeOK, Transition
<1>4. /\ Arriving(s)' = Arriving(s) - At(s, to)
      /\ Leaving(s)' = Leaving(s) - At(s, from)
  BY <1>2, <1>3
     DEF Deliver, Arriving, Leaving, At, State, StateClosed, StateOpen, StateHalfOpen
<1>5. ledger'[s] = ledger[s] + At(s, to) - At(s, from)
  BY <1>2, <1>3 DEF Deliver, At
<1>6. Arriving(s) \in Nat /\ Leaving(s) \in Nat /\ ledger[s] \in Int
  BY <1>3 DEF Arriving, Leaving, State
<1>7. cb' = cb
  BY DEF Deliver
<1> QED
  BY <1>1, <1>4, <1>5, <1>6, <1>7 DEF At

-----------------------------------------------------------------------------
(* The inductive invariant.                                                *)

\* The successes recorded in a half-open period are among those the breaker
\* has counted; one of them that did not close it left the counter short.
HalfOpenCounted ==
    cb.state = StateHalfOpen =>
        /\ halfOpenSuccesses <= cb.consecutiveSuccess
        /\ halfOpenSuccesses > 0 => cb.consecutiveSuccess < SuccessThreshold

IInv ==
    /\ TypeOK
    /\ ClosedIsHealthy
    /\ LateSuccessesBounded
    /\ HalfOpenCounted
    /\ NeverEarly
    /\ NotificationsBalance

\* A new breaker satisfies the invariant.
LEMMA InitInvariant == Init => IInv
<1> SUFFICES ASSUME Init PROVE IInv
  OBVIOUS
<1> USE DEF State, StateClosed, StateOpen, StateHalfOpen
<1>1. Has(cb, StateClosed, 0, 0, Timeout)
  BY BreakerAssumption DEF Init, NewCircuitBreaker, Breakers, Has
<1>2. TypeOK
  <2>1. cb \in Breakers /\ openFor \in 0..Timeout
    BY <1>1, BreakerAssumption DEF Init, Has
  <2>2. call \in [Callers -> {"idle", "refused", "running", "probing"}]
    BY DEF Init
  <2>3. pending \in [Transition -> Nat] /\ ledger \in [State -> Int]
    BY DEF Init
  <2> QED
    BY <2>1, <2>2, <2>3 DEF Init, TypeOK
<1>3. NotificationsBalance
  BY <1>1, <1>2
     DEF Init, NotificationsBalance, Has, Arriving, Leaving, At, Transition
<1> QED
  BY <1>1, <1>2, <1>3, BreakerAssumption
     DEF IInv, Has, ClosedIsHealthy, AtLeastOne, LateSuccessesBounded,
         HalfOpenCounted, NeverEarly

\* How many calls are running, and what one more or one less makes of it.
LEMMA RunningCount ==
    ASSUME TypeOK
    PROVE  /\ IsFiniteSet(running)
           /\ Cardinality(running) \in Nat
           /\ Cardinality(Callers) \in Nat
           /\ Cardinality(running) <= Cardinality(Callers)
           /\ \A c \in running : Cardinality(running \ {c}) = Cardinality(running) - 1
<1>1. running \subseteq Callers /\ IsFiniteSet(Callers)
  BY CircuitBreakerAssumption DEF running
<1>2. IsFiniteSet(running) /\ Cardinality(running) <= Cardinality(Callers)
  BY <1>1, FS_Subset
<1> QED
  BY <1>1, <1>2, FS_CardinalityType, FS_RemoveElement

\* allowCall, whatever it answers, and the goroutine's new phase p.
LEMMA AllowCallStep ==
    ASSUME IInv, NEW c \in Callers, c \notin running,
           Becomes(allowCall(cb), 0), ledger' = ledger, healthy' = healthy,
           \/ /\ Allows(cb)
              /\ \E p \in {"running", "probing"} : call' = [call EXCEPT ![c] = p]
              /\ sick' \in {sick, sick \cup {c}}
           \/ /\ ~Allows(cb)
              /\ call' = [call EXCEPT ![c] = "refused"]
              /\ sick' = sick
    PROVE  IInv'
<1> USE DEF State, StateClosed, StateOpen, StateHalfOpen
<1>1. TypeOK /\ cb \in Breakers
  BY DEF IInv, TypeOK
<1>2. Has(cb', IF cb.state = StateOpen /\ cb.sinceFailure >= Timeout
               THEN StateHalfOpen ELSE cb.state,
          cb.consecutiveErrors, cb.consecutiveSuccess, cb.sinceFailure)
  BY <1>1, AllowCallEffect DEF Becomes
<1>3. allowCall(cb) \in Breakers
  BY <1>1, AllowCallEffect DEF Has
<1>4. /\ pending' \in [Transition -> Nat]
      /\ openFor' \in 0..Timeout
      /\ halfOpenSuccesses' \in Nat
  BY <1>1, <1>3, BecomesType
<1>5. NotificationsBalance'
  BY <1>1, <1>3, BecomesBalance DEF IInv
<1>6. /\ call' \in [Callers -> {"idle", "refused", "running", "probing"}]
      /\ running' = IF Allows(cb) THEN running \cup {c} ELSE running
  BY <1>1, CallMoves
<1>7. TypeOK'
  BY <1>1, <1>2, <1>4, <1>6 DEF TypeOK, Has
<1>8. ClosedIsHealthy' /\ NeverEarly'
  BY <1>1, <1>2, BreakerFields, BreakerAssumption
     DEF IInv, Has, ClosedIsHealthy, NeverEarly, Becomes
<1>9. HalfOpenCounted'
  BY <1>1, <1>2, BreakerFields
     DEF IInv, Has, HalfOpenCounted, Becomes, TypeOK
<1>10. LateSuccessesBounded'
  <2>1. cb'.state = StateOpen => cb.state = StateOpen /\ running' = running
    BY <1>2, <1>6 DEF Has, Allows
  <2>2. cb.state = StateOpen => cb.consecutiveSuccess < Cardinality(Callers)
    BY <1>1, RunningCount, BreakerFields DEF IInv, LateSuccessesBounded
  <2> QED
    BY <1>1, <1>2, <2>1, <2>2, RunningCount, BreakerFields, BreakerAssumption
       DEF IInv, Has, LateSuccessesBounded, Larger
<1> QED
  BY <1>5, <1>7, <1>8, <1>9, <1>10 DEF IInv

\* recordResult(nil).
LEMMA RecordSuccessStep ==
    ASSUME IInv, NEW c \in Callers, RecordSuccess(c)
    PROVE  IInv'
<1> USE DEF State, StateClosed, StateOpen, StateHalfOpen
<1> DEFINE closes == /\ cb.state = StateHalfOpen
                     /\ cb.consecutiveSuccess + 1 >= SuccessThreshold
<1>1. TypeOK /\ cb \in Breakers /\ c \in running
  BY DEF IInv, TypeOK, RecordSuccess
<1>2. Has(onSuccess(cb), IF closes THEN StateClosed ELSE cb.state, 0,
          IF closes \/ cb.state = StateClosed THEN 0 ELSE cb.consecutiveSuccess + 1,
          cb.sinceFailure)
  BY <1>1, OnSuccessEffect
<1>3. onSuccess(cb) \in Breakers /\ cb' = onSuccess(cb) /\ Becomes(onSuccess(cb), 1)
  BY <1>2 DEF Has, RecordSuccess, Becomes
<1>4. /\ pending' \in [Transition -> Nat]
      /\ openFor' \in 0..Timeout
      /\ halfOpenSuccesses' \in Nat
  BY <1>1, <1>3, BecomesType
<1>5. NotificationsBalance'
  BY <1>1, <1>3, BecomesBalance DEF IInv, RecordSuccess
<1>6. /\ call' \in [Callers -> {"idle", "refused", "running", "probing"}]
      /\ running' = running \ {c}
  BY <1>1, CallMoves DEF RecordSuccess
<1>7. TypeOK'
  BY <1>1, <1>3, <1>4, <1>6 DEF TypeOK, RecordSuccess
<1>8. ClosedIsHealthy' /\ NeverEarly'
  BY <1>1, <1>2, <1>3, BreakerFields, BreakerAssumption
     DEF IInv, Has, ClosedIsHealthy, AtLeastOne, NeverEarly, Becomes
<1>9. HalfOpenCounted'
  BY <1>1, <1>2, <1>3, BreakerFields, BreakerAssumption
     DEF IInv, Has, HalfOpenCounted, Becomes, TypeOK
<1>10. LateSuccessesBounded'
  BY <1>1, <1>2, <1>3, <1>6, RunningCount, BreakerFields, BreakerAssumption
     DEF IInv, Has, LateSuccessesBounded, Larger
<1> QED
  BY <1>5, <1>7, <1>8, <1>9, <1>10 DEF IInv

\* recordResult(err).
LEMMA RecordFailureStep ==
    ASSUME IInv, NEW c \in Callers, RecordFailure(c)
    PROVE  IInv'
<1> USE DEF State, StateClosed, StateOpen, StateHalfOpen
<1>1. TypeOK /\ cb \in Breakers /\ c \in running
  BY DEF IInv, TypeOK, RecordFailure
<1>2. Has(onFailure(cb),
          IF cb.state = StateClosed /\ cb.consecutiveErrors + 1 < FailureThreshold
          THEN StateClosed ELSE StateOpen,
          cb.consecutiveErrors + 1, 0, 0)
  BY <1>1, OnFailureEffect
<1>3. onFailure(cb) \in Breakers /\ cb' = onFailure(cb) /\ Becomes(onFailure(cb), 0)
  BY <1>2 DEF Has, RecordFailure, Becomes
<1>4. /\ pending' \in [Transition -> Nat]
      /\ openFor' \in 0..Timeout
      /\ halfOpenSuccesses' \in Nat
  BY <1>1, <1>3, BecomesType
<1>5. NotificationsBalance'
  BY <1>1, <1>3, BecomesBalance DEF IInv, RecordFailure
<1>6. /\ call' \in [Callers -> {"idle", "refused", "running", "probing"}]
      /\ running' = running \ {c}
  BY <1>1, CallMoves DEF RecordFailure
<1>7. TypeOK'
  BY <1>1, <1>3, <1>4, <1>6 DEF TypeOK, RecordFailure
<1>8. ClosedIsHealthy' /\ NeverEarly' /\ HalfOpenCounted'
  BY <1>1, <1>2, <1>3, <1>4, BreakerFields, BreakerAssumption
     DEF Has, ClosedIsHealthy, AtLeastOne, NeverEarly, HalfOpenCounted
<1>9. LateSuccessesBounded'
  BY <1>1, <1>2, <1>3, <1>6, RunningCount, BreakerAssumption
     DEF Has, LateSuccessesBounded, Larger
<1> QED
  BY <1>5, <1>7, <1>8, <1>9 DEF IInv

\* Reset.
LEMMA ResetStep ==
    ASSUME IInv, Reset
    PROVE  IInv'
<1> USE DEF State, StateClosed, StateOpen, StateHalfOpen
<1>1. TypeOK /\ cb \in Breakers
  BY DEF IInv, TypeOK
<1>2. Has(reset(cb), StateClosed, 0, 0, cb.sinceFailure)
  BY <1>1, ResetEffect
<1>3. reset(cb) \in Breakers /\ cb' = reset(cb) /\ Becomes(reset(cb), 0)
  BY <1>2 DEF Has, Reset, Becomes
<1>4. /\ pending' \in [Transition -> Nat]
      /\ openFor' \in 0..Timeout
      /\ halfOpenSuccesses' \in Nat
  BY <1>1, <1>3, BecomesType
<1>5. NotificationsBalance'
  BY <1>1, <1>3, BecomesBalance DEF IInv, Reset
<1>6. running' = running
  BY DEF Reset, running
<1>7. TypeOK'
  BY <1>1, <1>3, <1>4, <1>6 DEF TypeOK, Reset
<1>8. ClosedIsHealthy' /\ NeverEarly' /\ HalfOpenCounted' /\ LateSuccessesBounded'
  BY <1>2, <1>3, BreakerAssumption
     DEF Has, ClosedIsHealthy, AtLeastOne, NeverEarly, HalfOpenCounted,
         LateSuccessesBounded
<1> QED
  BY <1>5, <1>7, <1>8 DEF IInv

\* Tick.
LEMMA TickStep ==
    ASSUME IInv, Tick
    PROVE  IInv'
<1> USE DEF State, StateClosed, StateOpen, StateHalfOpen
<1>1. TypeOK /\ cb \in Breakers /\ openFor \in 0..Timeout
  BY DEF IInv, TypeOK
<1>2. Has(cb', cb.state, cb.consecutiveErrors, cb.consecutiveSuccess,
          Advance(cb.sinceFailure))
  BY <1>1, AgeEffect DEF Tick
<1>3. running' = running
  BY DEF Tick, running
<1>4. TypeOK'
  BY <1>1, <1>2, <1>3, BreakerAssumption DEF TypeOK, Tick, Has, Advance
<1>5. NeverEarly'
  BY <1>1, <1>2, BreakerFields, BreakerAssumption DEF IInv, NeverEarly, Has, Advance, Tick
<1>6. NotificationsBalance'
  BY <1>2 DEF IInv, NotificationsBalance, Has, Tick, Arriving, Leaving
<1>7. ClosedIsHealthy' /\ HalfOpenCounted' /\ LateSuccessesBounded'
  BY <1>2, <1>3 DEF IInv, Has, Tick, ClosedIsHealthy, HalfOpenCounted, LateSuccessesBounded
<1> QED
  BY <1>4, <1>5, <1>6, <1>7 DEF IInv

\* A delivered callback.
LEMMA DeliverStep ==
    ASSUME IInv, NEW t \in Transition, Deliver(t)
    PROVE  IInv'
<1>1. NotificationsBalance'
  BY DeliverBalance DEF IInv
<1>2. running' = running
  BY DEF Deliver, running
<1>3. TypeOK'
  <2>1. pending' \in [Transition -> Nat]
    BY DEF IInv, TypeOK, Deliver
  <2>2. ledger' \in [State -> Int]
    BY DEF IInv, TypeOK, Deliver, Transition
  <2> QED
    BY <1>2, <2>1, <2>2 DEF IInv, TypeOK, Deliver
<1> QED
  BY <1>1, <1>2, <1>3
     DEF IInv, Deliver, ClosedIsHealthy, HalfOpenCounted, LateSuccessesBounded, NeverEarly

\* Every step of the specification preserves the invariant.
LEMMA StepInvariant == IInv /\ [Next]_vars => IInv'
<1> SUFFICES ASSUME IInv, [Next]_vars PROVE IInv'
  OBVIOUS
<1>1. ASSUME NEW c \in Callers, Admit(c) PROVE IInv'
  <2>1. \E p \in {"running", "probing"} : call' = [call EXCEPT ![c] = p]
    BY <1>1 DEF Admit
  <2>2. sick' \in {sick, sick \cup {c}}
    BY <1>1 DEF Admit
  <2> QED
    BY <1>1, <2>1, <2>2, AllowCallStep DEF Admit
<1>2. ASSUME NEW c \in Callers, Reject(c) PROVE IInv'
  BY <1>2, AllowCallStep DEF Reject
<1>3. ASSUME NEW c \in Callers, RecordSuccess(c) PROVE IInv'
  BY <1>3, RecordSuccessStep
<1>4. ASSUME NEW c \in Callers, RecordFailure(c) PROVE IInv'
  BY <1>4, RecordFailureStep
<1>5. CASE Reset
  BY <1>5, ResetStep
<1>6. ASSUME NEW t \in Transition, Deliver(t) PROVE IInv'
  BY <1>6, DeliverStep
<1>7. CASE Tick
  BY <1>7, TickStep
<1>8. ASSUME Heal \/ UNCHANGED vars PROVE IInv'
  <2>1. /\ UNCHANGED <<cb, call, sick, pending, ledger, openFor, halfOpenSuccesses>>
        /\ healthy' \in BOOLEAN
    BY <1>8 DEF Heal, vars, IInv, TypeOK
  <2>2. running' = running
    BY <2>1 DEF running
  <2> QED
    BY <2>1, <2>2
       DEF IInv, TypeOK, ClosedIsHealthy, LateSuccessesBounded, HalfOpenCounted,
           NeverEarly, NotificationsBalance, Arriving, Leaving
<1> QED
  BY <1>1, <1>2, <1>3, <1>4, <1>5, <1>6, <1>7, <1>8 DEF Next

-----------------------------------------------------------------------------
(* The theorems.                                                           *)

\* IInv holds in every reachable state.
THEOREM Invariance == Spec => []IInv
  BY InitInvariant, StepInvariant, PTL DEF Spec

\* The variables keep their types, and only running calls can still fail.
THEOREM TypeCorrect == Spec => []TypeOK
<1>1. IInv => TypeOK
  BY DEF IInv
<1> QED
  BY <1>1, Invariance, PTL

\* A closed breaker has seen fewer than FailureThreshold failures in a row,
\* however many goroutines share it and however late their results arrive.
THEOREM ClosedOnlyBelowThreshold == Spec => []ClosedIsHealthy
<1>1. IInv => ClosedIsHealthy
  BY DEF IInv
<1> QED
  BY <1>1, Invariance, PTL

\* The successes that leak into a half-open period from before it are fewer
\* than the goroutines.
THEOREM LateSuccessBound == Spec => []LateSuccessesBounded
<1>1. IInv => LateSuccessesBounded
  BY DEF IInv
<1> QED
  BY <1>1, Invariance, PTL

\* SuccessThreshold successes in one half-open period always close the breaker.
THEOREM ClosingThreshold == Spec => []ClosesByThreshold
<1>1. IInv => ClosesByThreshold
  BY BreakerAssumption, BreakerFields
     DEF IInv, TypeOK, HalfOpenCounted, ClosesByThreshold, AtLeastOne
<1> QED
  BY <1>1, Invariance, PTL

\* No call gets through an open breaker before Timeout has passed.
THEOREM OpensForTimeout == Spec => []NeverEarly
<1>1. IInv => NeverEarly
  BY DEF IInv
<1> QED
  BY <1>1, Invariance, PTL

\* Every transition is announced exactly once, whatever the scheduler does.
THEOREM NotificationsComplete == Spec => []NotificationsBalance
<1>1. IInv => NotificationsBalance
  BY DEF IInv
<1> QED
  BY <1>1, Invariance, PTL

-----------------------------------------------------------------------------
(* CircuitBreaker implements AbstractBreaker.                              *)

cooling == cb.state = StateOpen /\ openFor < Timeout

\* A new breaker is a new abstract breaker.
LEMMA RefinementInit == Init => Abstract!Init
  BY DEF Init, Abstract!Init, NewCircuitBreaker, running, StateClosed, StateOpen

\* Every step is a step of the abstract breaker, or changes nothing in it.
LEMMA RefinementStep == IInv /\ IInv' /\ [Next]_vars => [Abstract!Next]_Abstract!vars
<1> SUFFICES ASSUME IInv, IInv', [Next]_vars
             PROVE  [Abstract!Next]_Abstract!vars
  OBVIOUS
<1> USE DEF State, StateClosed, StateOpen, StateHalfOpen
<1>0. /\ TypeOK /\ cb \in Breakers /\ cb.state \in State
      /\ openFor \in 0..Timeout
  BY BreakerFields DEF IInv, TypeOK
<1>1. ASSUME NEW c \in Callers, Admit(c) PROVE Abstract!Admit(c) \/ Abstract!Probe(c)
  <2>1. running' = running \cup {c} /\ c \notin running
    BY <1>0, <1>1, CallMoves DEF Admit
  <2>2. Has(cb', IF cb.state = StateOpen /\ cb.sinceFailure >= Timeout
                 THEN StateHalfOpen ELSE cb.state,
            cb.consecutiveErrors, cb.consecutiveSuccess, cb.sinceFailure)
    BY <1>0, <1>1, AllowCallEffect DEF Admit, Becomes
  <2>3. CASE cb.state = StateOpen
    <3>1. cb.sinceFailure >= Timeout /\ openFor >= Timeout
      BY <1>0, <1>1, <2>3, BreakerFields, BreakerAssumption
         DEF Admit, Allows, IInv, NeverEarly
    <3> QED
      BY <1>0, <2>1, <2>2, <2>3, <3>1, BreakerAssumption DEF Has, Abstract!Probe
  <2>4. CASE cb.state # StateOpen
    BY <2>1, <2>2, <2>4 DEF Has, Abstract!Admit
  <2> QED
    BY <2>3, <2>4
<1>2. ASSUME NEW c \in Callers, Reject(c) PROVE UNCHANGED Abstract!vars
  <2>1. running' = running
    <3>1. running' = running \ {c} /\ c \notin running
      BY <1>0, <1>2, CallMoves DEF Reject
    <3> QED
      BY <3>1
  <2>2. cb'.state = cb.state /\ cb.state = StateOpen
    BY <1>0, <1>2, AllowCallEffect DEF Reject, Becomes, Has, Allows
  <2> QED
    BY <1>2, <2>1, <2>2 DEF Reject, Becomes, Abstract!vars
<1>3. ASSUME NEW c \in Callers, RecordSuccess(c) PROVE Abstract!Finish(c)
  <2>1. running' = running \ {c} /\ c \in running
    BY <1>0, <1>3, CallMoves DEF RecordSuccess
  <2>2. \/ cb'.state = cb.state
        \/ cb.state = StateHalfOpen /\ cb'.state = StateClosed
    BY <1>0, <1>3, OnSuccessEffect DEF RecordSuccess, Becomes, Has
  <2>3. cb'.state = StateOpen => cb.state = StateOpen /\ openFor' = openFor
    BY <1>3, <2>2 DEF RecordSuccess, Becomes
  <2> QED
    BY <2>1, <2>2, <2>3 DEF Abstract!Finish
<1>4. ASSUME NEW c \in Callers, RecordFailure(c) PROVE Abstract!Finish(c)
  <2>1. running' = running \ {c} /\ c \in running
    BY <1>0, <1>4, CallMoves DEF RecordFailure, TypeOK
  <2>2. \/ cb'.state = cb.state
        \/ cb.state # StateOpen /\ cb'.state = StateOpen
    BY <1>0, <1>4, OnFailureEffect DEF RecordFailure, Becomes, Has
  <2>3. cb'.state = StateOpen /\ cb.state = StateOpen => openFor' = openFor
    BY <1>4 DEF RecordFailure, Becomes
  <2> QED
    BY <2>1, <2>2, <2>3 DEF Abstract!Finish
<1>5. ASSUME Reset PROVE Abstract!Reset
  <2>1. cb'.state = StateClosed
    BY <1>0, <1>5, ResetEffect DEF Reset, Becomes, Has
  <2> QED
    BY <1>5, <2>1 DEF Reset, Abstract!Reset, running
<1>6. ASSUME NEW t \in Transition, Deliver(t) PROVE UNCHANGED Abstract!vars
  BY <1>6 DEF Deliver, running, Abstract!vars
<1>7. ASSUME Tick PROVE Abstract!CoolDown \/ UNCHANGED Abstract!vars
  <2>1. cb'.state = cb.state /\ running' = running
    BY <1>0, <1>7, AgeEffect DEF Tick, Has, running
  <2>2. cooling' => cooling
    BY <1>0, <1>7, <2>1, BreakerAssumption DEF cooling, Tick, Advance
  <2> QED
    BY <2>1, <2>2 DEF cooling, Abstract!CoolDown, Abstract!vars
<1>8. ASSUME Heal \/ UNCHANGED vars PROVE UNCHANGED Abstract!vars
  BY <1>8 DEF Heal, vars, running, Abstract!vars
<1> QED
  BY <1>1, <1>2, <1>3, <1>4, <1>5, <1>6, <1>7, <1>8 DEF Next, Abstract!Next

\* The breaker shared by goroutines keeps the promise of AbstractBreaker.
THEOREM Refinement == Spec => ImplementsAbstract
  BY RefinementInit, RefinementStep, Invariance, PTL
     DEF Spec, ImplementsAbstract, Abstract!Spec
=============================================================================
