--------------------------- MODULE BreakerProofs ---------------------------
(***************************************************************************)
(* What each method of a breaker does to its four fields, for every        *)
(* breaker, every pair of thresholds and every timeout.  The proofs about  *)
(* the modules that share breakers between goroutines rest on this.        *)
(***************************************************************************)
EXTENDS Breaker, TLAPS

\* c is a breaker with these four fields.
Has(c, s, errors, successes, age) ==
    /\ c \in Breakers
    /\ c.state = s
    /\ c.consecutiveErrors = errors
    /\ c.consecutiveSuccess = successes
    /\ c.sinceFailure = age

\* The fields of a breaker have their types.
LEMMA BreakerFields ==
    ASSUME NEW b \in Breakers
    PROVE  /\ Has(b, b.state, b.consecutiveErrors, b.consecutiveSuccess, b.sinceFailure)
           /\ b.state \in State
           /\ b.consecutiveErrors \in Nat
           /\ b.consecutiveSuccess \in Nat
           /\ b.sinceFailure \in 0..Timeout
           /\ b.consecutiveErrors + 1 \in Nat
           /\ b.consecutiveSuccess + 1 \in Nat
  BY DEF Breakers, Has

\* An assignment to one field leaves the other three alone.
LEMMA Assignment ==
    ASSUME NEW b, NEW s, NEW e, NEW n, NEW t, Has(b, s, e, n, t)
    PROVE  /\ \A x \in State : Has([b EXCEPT !.state = x], x, e, n, t)
           /\ \A x \in Nat : Has([b EXCEPT !.consecutiveErrors = x], s, x, n, t)
           /\ \A x \in Nat : Has([b EXCEPT !.consecutiveSuccess = x], s, e, x, t)
           /\ \A x \in 0..Timeout : Has([b EXCEPT !.sinceFailure = x], s, e, n, x)
<1>1. \A x \in State : Has([b EXCEPT !.state = x], x, e, n, t)
  BY DEF Breakers, Has
<1>2. \A x \in Nat : Has([b EXCEPT !.consecutiveErrors = x], s, x, n, t)
  BY DEF Breakers, Has
<1>3. \A x \in Nat : Has([b EXCEPT !.consecutiveSuccess = x], s, e, x, t)
  BY DEF Breakers, Has
<1>4. \A x \in 0..Timeout : Has([b EXCEPT !.sinceFailure = x], s, e, n, x)
  BY DEF Breakers, Has
<1> QED
  BY <1>1, <1>2, <1>3, <1>4

\* setState clears the counters when it closes the breaker.
LEMMA SetStateEffect ==
    ASSUME NEW b, NEW s, NEW e, NEW n, NEW t, Has(b, s, e, n, t),
           NEW x \in State, x # s
    PROVE  Has(setState(b, x), x, IF x = StateClosed THEN 0 ELSE e,
               IF x = StateClosed THEN 0 ELSE n, t)
<1>0. b.state # x
  BY DEF Has
<1>1. CASE x = StateClosed
  <2> DEFINE b1 == [b EXCEPT !.state = x]
             b2 == [b1 EXCEPT !.consecutiveErrors = 0]
             b3 == [b2 EXCEPT !.consecutiveSuccess = 0]
  <2>1. Has(b1, x, e, n, t)
    BY Assignment
  <2> HIDE DEF b1
  <2>2. Has(b2, x, 0, n, t)
    BY <2>1, Assignment
  <2> HIDE DEF b2
  <2>3. Has(b3, x, 0, 0, t)
    BY <2>2, Assignment
  <2>4. setState(b, x) = b3
    BY <1>0, <1>1, Zenon DEF setState, b1, b2
  <2> QED
    BY <1>1, <2>3, <2>4
<1>2. CASE x # StateClosed
  BY <1>0, <1>2, Assignment DEF setState
<1> QED
  BY <1>1, <1>2

\* allowCall changes the state of an open breaker, and nothing else.
LEMMA AllowCallEffect ==
    ASSUME NEW b \in Breakers
    PROVE  Has(allowCall(b),
               IF b.state = StateOpen /\ b.sinceFailure >= Timeout
               THEN StateHalfOpen ELSE b.state,
               b.consecutiveErrors, b.consecutiveSuccess, b.sinceFailure)
<1>1. CASE b.state = StateOpen /\ Allows(b)
  <2>1. StateHalfOpen \in State /\ StateHalfOpen # b.state /\ StateHalfOpen # StateClosed
    BY <1>1 DEF State, StateOpen, StateHalfOpen, StateClosed
  <2>2. Has(setState(b, StateHalfOpen), StateHalfOpen,
            b.consecutiveErrors, b.consecutiveSuccess, b.sinceFailure)
    BY <2>1, BreakerFields, SetStateEffect
  <2> QED
    BY <1>1, <2>2 DEF allowCall, Allows
<1>2. CASE ~(b.state = StateOpen /\ Allows(b))
  BY <1>2, BreakerFields DEF allowCall, Allows
<1> QED
  BY <1>1, <1>2

\* A success closes a half-open breaker or is counted; it never opens one.
LEMMA OnSuccessEffect ==
    ASSUME NEW b \in Breakers
    PROVE  LET closes == /\ b.state = StateHalfOpen
                         /\ b.consecutiveSuccess + 1 >= SuccessThreshold
           IN  Has(onSuccess(b), IF closes THEN StateClosed ELSE b.state, 0,
                   IF closes \/ b.state = StateClosed THEN 0 ELSE b.consecutiveSuccess + 1,
                   b.sinceFailure)
<1> USE DEF State, StateOpen, StateHalfOpen, StateClosed
<1> DEFINE b1 == [b EXCEPT !.consecutiveErrors = 0]
           c == [b1 EXCEPT !.consecutiveSuccess = b.consecutiveSuccess + 1]
           d == setState(c, StateClosed)
<1>1. Has(b1, b.state, 0, b.consecutiveSuccess, b.sinceFailure)
  BY BreakerFields, Assignment
<1>2. Has(c, b.state, 0, b.consecutiveSuccess + 1, b.sinceFailure)
  <2> HIDE DEF b1
  <2> QED
    BY <1>1, BreakerFields, Assignment
<1>3. onSuccess(b) = IF c.state = StateHalfOpen /\ c.consecutiveSuccess >= SuccessThreshold
                     THEN [d EXCEPT !.consecutiveSuccess = 0]
                     ELSE IF c.state = StateClosed
                          THEN [c EXCEPT !.consecutiveSuccess = 0]
                          ELSE c
  <2>1. [b EXCEPT !.consecutiveErrors = 0, !.consecutiveSuccess = @ + 1] = c
    BY BreakerFields, Zenon
  <2> QED
    BY <2>1, Zenon DEF onSuccess
<1> HIDE DEF c
<1>4. CASE c.state = StateHalfOpen /\ c.consecutiveSuccess >= SuccessThreshold
  <2>1. Has(d, StateClosed, 0, 0, b.sinceFailure)
    BY <1>2, <1>4, SetStateEffect DEF Has
  <2> HIDE DEF d
  <2>2. Has([d EXCEPT !.consecutiveSuccess = 0], StateClosed, 0, 0, b.sinceFailure)
    BY <2>1, Assignment
  <2> QED
    BY <1>2, <1>3, <1>4, <2>2 DEF Has
<1>5. CASE c.state = StateClosed
  <2>1. Has(c, StateClosed, 0, b.consecutiveSuccess + 1, b.sinceFailure)
    BY <1>2, <1>5 DEF Has
  <2>2. Has([c EXCEPT !.consecutiveSuccess = 0], StateClosed, 0, 0, b.sinceFailure)
    BY <2>1, Assignment
  <2> QED
    BY <1>2, <1>3, <1>5, <2>2 DEF Has
<1>6. CASE /\ ~(c.state = StateHalfOpen /\ c.consecutiveSuccess >= SuccessThreshold)
           /\ c.state # StateClosed
  BY <1>2, <1>3, <1>6 DEF Has
<1> QED
  BY <1>4, <1>5, <1>6

\* A failure restarts the clock and the run of successes; it opens a breaker
\* that is half-open or has reached FailureThreshold.
LEMMA OnFailureEffect ==
    ASSUME NEW b \in Breakers
    PROVE  Has(onFailure(b),
               IF b.state = StateClosed /\ b.consecutiveErrors + 1 < FailureThreshold
               THEN StateClosed ELSE StateOpen,
               b.consecutiveErrors + 1, 0, 0)
<1> USE DEF State, StateOpen, StateHalfOpen, StateClosed
<1> DEFINE b1 == [b EXCEPT !.consecutiveSuccess = 0]
           b2 == [b1 EXCEPT !.consecutiveErrors = b.consecutiveErrors + 1]
           c == [b2 EXCEPT !.sinceFailure = 0]
           opens == \/ c.state = StateClosed /\ c.consecutiveErrors >= FailureThreshold
                    \/ c.state = StateHalfOpen
<1>1. Has(b1, b.state, b.consecutiveErrors, 0, b.sinceFailure)
  BY BreakerFields, Assignment
<1>2. Has(b2, b.state, b.consecutiveErrors + 1, 0, b.sinceFailure)
  <2> HIDE DEF b1
  <2> QED
    BY <1>1, BreakerFields, Assignment
<1>3. Has(c, b.state, b.consecutiveErrors + 1, 0, 0)
  <2> HIDE DEF b2
  <2>1. 0 \in 0..Timeout
    BY BreakerAssumption
  <2> QED
    BY <1>2, <2>1, Assignment
<1>4. onFailure(b) = IF opens THEN setState(c, StateOpen) ELSE c
  <2>1. [b EXCEPT !.consecutiveSuccess = 0, !.consecutiveErrors = @ + 1,
                  !.sinceFailure = 0] = c
    BY Zenon
  <2> QED
    BY <2>1, Zenon DEF onFailure
<1> HIDE DEF c
<1>5. CASE opens
  <2>1. Has(setState(c, StateOpen), StateOpen, b.consecutiveErrors + 1, 0, 0)
    BY <1>3, <1>5, SetStateEffect DEF Has
  <2> QED
    BY <1>3, <1>4, <1>5, <2>1, BreakerAssumption, BreakerFields DEF Has
<1>6. CASE ~opens
  BY <1>3, <1>4, <1>6, BreakerAssumption, BreakerFields DEF Has
<1> QED
  BY <1>5, <1>6

\* Reset closes the breaker and clears its counters, not its clock.
LEMMA ResetEffect ==
    ASSUME NEW b \in Breakers
    PROVE  Has(reset(b), StateClosed, 0, 0, b.sinceFailure)
<1> DEFINE b1 == setState(b, StateClosed)
           b2 == [b1 EXCEPT !.consecutiveErrors = 0]
           b3 == [b2 EXCEPT !.consecutiveSuccess = 0]
<1>1. PICK e, n : Has(b1, StateClosed, e, n, b.sinceFailure)
  <2>1. CASE b.state = StateClosed
    BY <2>1, BreakerFields DEF setState
  <2>2. CASE b.state # StateClosed
    BY <2>2, BreakerFields, SetStateEffect DEF State
  <2> QED
    BY <2>1, <2>2
<1> HIDE DEF b1
<1>2. Has(b2, StateClosed, 0, n, b.sinceFailure)
  BY <1>1, Assignment
<1> HIDE DEF b2
<1>3. Has(b3, StateClosed, 0, 0, b.sinceFailure)
  BY <1>2, Assignment
<1>4. reset(b) = b3
  BY Zenon DEF reset, b1, b2
<1> QED
  BY <1>3, <1>4

\* A tick moves the clock only.
LEMMA AgeEffect ==
    ASSUME NEW b \in Breakers
    PROVE  Has(Age(b), b.state, b.consecutiveErrors, b.consecutiveSuccess,
               Advance(b.sinceFailure))
<1>1. Advance(b.sinceFailure) \in 0..Timeout
  BY BreakerAssumption, BreakerFields DEF Advance
<1> QED
  BY <1>1, BreakerFields, Assignment DEF Age

\* The methods and the clock lead from breakers to breakers.
LEMMA MethodsKeepType ==
    /\ NewCircuitBreaker \in Breakers
    /\ \A b \in Breakers : /\ allowCall(b) \in Breakers
                           /\ onSuccess(b) \in Breakers
                           /\ onFailure(b) \in Breakers
                           /\ reset(b) \in Breakers
                           /\ Age(b) \in Breakers
<1>1. NewCircuitBreaker \in Breakers
  BY BreakerAssumption DEF NewCircuitBreaker, Breakers, State
<1>2. ASSUME NEW b \in Breakers
      PROVE  /\ allowCall(b) \in Breakers /\ onSuccess(b) \in Breakers
             /\ onFailure(b) \in Breakers /\ reset(b) \in Breakers
             /\ Age(b) \in Breakers
  BY AllowCallEffect, OnSuccessEffect, OnFailureEffect, ResetEffect, AgeEffect DEF Has
<1> QED
  BY <1>1, <1>2
============================================================================
