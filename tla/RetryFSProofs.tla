---------------------------- MODULE RetryFSProofs ----------------------------
(***************************************************************************)
(* Proofs about RetryFS, for every set of goroutines and operations, every *)
(* configuration of policies and breakers and any number of operations.    *)
(***************************************************************************)
EXTENDS RetryFS, BreakerProofs, TLAPS

Labels == {"idle", "loop", "backoff", "calling", "succeeding", "failing",
           "reporting", "returned"}
BackendErr == Errors \cup {NoError}

Threads ==
    [pc : Labels, op : Operations, ctx : BOOLEAN, attempt : Nat,
     lastErr : BackendErr, resultErr : BackendErr, err : Error, ret : Error,
     cancelled : BOOLEAN, calls : Nat, lateCalls : Nat]

\* The calls a policy allows.
budget(op) == IF NonPositive(GetPolicy(op)) THEN 0 ELSE GetPolicy(op)

\* Inside the loop: every attempt so far was a call that failed, and not for
\* good.
Looping(t) ==
    /\ t.calls = t.attempt
    /\ t.resultErr = t.lastErr
    /\ t.lastErr # ErrorPermanent
    /\ t.attempt > 0 => t.attempt < GetPolicy(t.op) /\ t.lastErr # NoError
    /\ t.attempt = 0 => t.lastErr = NoError

\* The call numbered attempt has been made.
Called(t) ==
    /\ t.calls = t.attempt + 1
    /\ t.attempt < GetPolicy(t.op)

\* What the goroutine's locals say at each point of the loop.
LoopInv(t) ==
    /\ t.pc = "loop" => /\ Looping(t)
                        /\ t.lateCalls <= 1
                        /\ t.lateCalls > 0 => t.cancelled
    /\ t.pc \in {"backoff", "calling"} =>
           Looping(t) /\ t.attempt < GetPolicy(t.op) /\ t.lateCalls = 0
    /\ t.pc = "backoff" => t.attempt > 0
    /\ t.pc = "succeeding" =>
           /\ Called(t) /\ t.lateCalls <= 1
           /\ t.resultErr = NoError /\ t.lastErr # ErrorPermanent
    /\ t.pc = "failing" =>
           /\ t.lateCalls <= 1
           /\ t.resultErr = t.lastErr
           /\ \/ /\ Called(t) /\ t.lastErr # NoError
                 /\ t.lastErr = ErrorPermanent \/ t.calls = GetPolicy(t.op)
              \/ t.calls = 0 /\ t.lastErr = NoError /\ NonPositive(GetPolicy(t.op))

\* What is known of a call that has left the loop.
Ended(t, err) ==
    /\ t.lateCalls <= 1
    /\ t.calls <= budget(t.op)
    /\ t.calls > 0 => (err = NoError <=> t.resultErr = NoError)
    /\ t.calls = 0 => NonPositive(GetPolicy(t.op)) \/ err \in {ErrCircuitOpen, CtxErr, ErrNotImplemented}
    /\ t.calls = 0 => t.resultErr = NoError

\* The error a method gives back is the one of the loop, or the closure's.
EndInv(t) ==
    /\ t.pc = "idle" => /\ t.calls = 0 /\ t.lateCalls = 0
                        /\ t.lastErr = NoError
    /\ t.pc = "reporting" => Ended(t, t.err)
    /\ t.pc = "returned" =>
           /\ Ended(t, t.err)
           /\ \/ t.ret = Answer(t, t.err)
              \/ t.err = ErrNotImplemented /\ t.ret = t.err

ThreadInv(t) == t \in Threads /\ LoopInv(t) /\ EndInv(t)

-----------------------------------------------------------------------------
(* One lemma for each assignment to the goroutine's locals                 *)

\* The errors of the model are different strings.
LEMMA ErrorsDiffer ==
    /\ NoError \notin Errors /\ BackendErr \subseteq Error
    /\ {NoError, CtxErr, ErrCircuitOpen, ErrNotImplemented} \subseteq Error
    /\ NoError \notin {CtxErr, ErrCircuitOpen, ErrNotImplemented, ErrorPermanent}
    /\ {CtxErr, ErrCircuitOpen, ErrNotImplemented} \cap Errors = {}
  BY RetryFSAssumption
  DEF BackendErr, Error, ErrorClass, NoError, CtxErr, ErrCircuitOpen, ErrNotImplemented,
      ErrorPermanent, ErrorRetryable, ErrorUnknown

\* Policies are numbers.
LEMMA PolicyType == \A op \in Operations : GetPolicy(op) \in Int
  BY RetryFSAssumption DEF GetPolicy

\* A goroutine that has made no call.
LEMMA IdleThread ==
    ASSUME Operations # {}
    PROVE  /\ Idle \in Threads
           /\ Idle.calls = 0 /\ Idle.lateCalls = 0 /\ Idle.attempt = 0
           /\ Idle.lastErr = NoError /\ Idle.resultErr = NoError
           /\ Idle.pc = "idle" /\ Idle.cancelled = FALSE
  BY ErrorsDiffer DEF Idle, Threads, Labels, BackendErr

\* A fresh call begins its loop.
LEMMA BeginThread ==
    ASSUME NEW op \in Operations, NEW ctx \in BOOLEAN
    PROVE  ThreadInv([Idle EXCEPT !.pc = "loop", !.op = op, !.ctx = ctx])
<1> DEFINE u == [Idle EXCEPT !.pc = "loop", !.op = op, !.ctx = ctx]
<1>1. u \in Threads
  BY IdleThread DEF Threads, Labels
<1>2. /\ u.pc = "loop" /\ u.calls = 0 /\ u.attempt = 0 /\ u.lateCalls = 0
      /\ u.lastErr = NoError /\ u.resultErr = NoError
  BY IdleThread DEF Threads
<1> HIDE DEF u
<1>3. LoopInv(u) /\ EndInv(u)
  BY <1>2, ErrorsDiffer DEF LoopInv, EndInv, Looping
<1> QED
  BY <1>1, <1>3 DEF ThreadInv, u

\* A call that ends before its loop: refused, or not implemented.
LEMMA EndsAtOnce ==
    ASSUME NEW op \in Operations, NEW ctx \in BOOLEAN,
           NEW e \in {ErrCircuitOpen, ErrNotImplemented}, NEW r \in Error,
           NEW t, t = [Idle EXCEPT !.pc = "returned", !.op = op, !.ctx = ctx, !.err = e],
           r = Answer(t, e) \/ (r = e /\ e = ErrNotImplemented)
    PROVE  ThreadInv([t EXCEPT !.ret = r])
<1> DEFINE u == [t EXCEPT !.ret = r]
<1>1. t \in Threads
  BY IdleThread, ErrorsDiffer DEF Threads, Labels
<1>2. /\ t.pc = "returned" /\ t.calls = 0 /\ t.lateCalls = 0 /\ t.err = e
      /\ t.resultErr = NoError /\ t.op = op
  BY IdleThread DEF Threads
<1>3. /\ u.pc = "returned" /\ u.calls = 0 /\ u.lateCalls = 0 /\ u.err = e
      /\ u.resultErr = t.resultErr /\ u.ret = r /\ u.op = t.op
  BY <1>1, <1>2 DEF Threads
<1>4. u \in Threads
  BY <1>1 DEF Threads
<1> HIDE DEF u
<1>5. Answer(u, u.err) = Answer(t, e)
  BY <1>2, <1>3 DEF Answer
<1>6. Ended(u, u.err)
  BY <1>2, <1>3, PolicyType, ErrorsDiffer DEF Ended, budget, NonPositive
<1>7. u.ret = Answer(u, u.err) \/ (u.err = ErrNotImplemented /\ u.ret = u.err)
  BY <1>3, <1>5
<1>8. LoopInv(u)
  BY <1>3 DEF LoopInv
<1>9. EndInv(u)
  BY <1>3, <1>6, <1>7 DEF EndInv
<1> QED
  BY <1>4, <1>8, <1>9 DEF ThreadInv, u

\* The steps that only change the program counter.
LEMMA MovesOn ==
    ASSUME NEW t, ThreadInv(t), NEW q,
           \/ /\ t.pc = "loop" /\ t.attempt >= GetPolicy(t.op) /\ q = "failing"
           \/ /\ t.pc = "loop" /\ t.attempt < GetPolicy(t.op) /\ ~t.cancelled
              /\ q = IF t.attempt > 0 THEN "backoff" ELSE "calling"
           \/ t.pc = "backoff" /\ q = "calling"
    PROVE  ThreadInv([t EXCEPT !.pc = q])
<1> DEFINE u == [t EXCEPT !.pc = q]
<1>1. t \in Threads /\ q \in Labels
  BY DEF ThreadInv, Labels
<1>2. /\ u \in Threads
      /\ u.pc = q /\ u.op = t.op /\ u.attempt = t.attempt /\ u.calls = t.calls
      /\ u.lastErr = t.lastErr /\ u.resultErr = t.resultErr
      /\ u.lateCalls = t.lateCalls /\ u.cancelled = t.cancelled
  BY <1>1 DEF Threads
<1> HIDE DEF u
<1>3. /\ t.attempt \in Nat /\ t.lateCalls \in Nat /\ t.calls \in Nat
      /\ GetPolicy(t.op) \in Int
  BY <1>1, PolicyType DEF Threads
<1>4. LoopInv(u)
  BY <1>2, <1>3 DEF ThreadInv, LoopInv, Looping, Called, NonPositive
<1>5. EndInv(u)
  BY <1>2 DEF EndInv
<1> QED
  BY <1>2, <1>4, <1>5 DEF ThreadInv, u

\* The loop is left with an error for the breaker.
LEMMA LeavesLoop ==
    ASSUME NEW t, ThreadInv(t), NEW e,
           \/ t.pc \in {"loop", "backoff"} /\ t.cancelled /\ e = CtxErr
           \/ t.pc = "succeeding" /\ e = NoError
           \/ t.pc = "failing" /\ e = t.lastErr
    PROVE  ThreadInv([t EXCEPT !.pc = "reporting", !.err = e])
<1> DEFINE u == [t EXCEPT !.pc = "reporting", !.err = e]
<1>1. t \in Threads /\ e \in Error
  BY ErrorsDiffer DEF ThreadInv, Threads
<1>2. /\ u \in Threads
      /\ u.pc = "reporting" /\ u.op = t.op /\ u.calls = t.calls /\ u.err = e
      /\ u.resultErr = t.resultErr /\ u.lateCalls = t.lateCalls
  BY <1>1 DEF Threads, Labels
<1> HIDE DEF u
<1>3. /\ t.attempt \in Nat /\ t.lateCalls \in Nat /\ t.calls \in Nat
      /\ GetPolicy(t.op) \in Int
  BY <1>1, PolicyType DEF Threads
<1>4. Ended(u, u.err)
  BY <1>2, <1>3, ErrorsDiffer
  DEF ThreadInv, LoopInv, Looping, Called, Ended, NonPositive, budget
<1>5. LoopInv(u) /\ EndInv(u)
  BY <1>2, <1>4 DEF LoopInv, EndInv
<1> QED
  BY <1>2, <1>5 DEF ThreadInv, u

\* recordResult has been told; the method returns.
LEMMA ReturnsThread ==
    ASSUME NEW t, ThreadInv(t), t.pc = "reporting"
    PROVE  ThreadInv([t EXCEPT !.pc = "returned", !.ret = Answer(t, t.err)])
<1> DEFINE u == [t EXCEPT !.pc = "returned", !.ret = Answer(t, t.err)]
<1>1. t \in Threads /\ Answer(t, t.err) \in Error
  BY ErrorsDiffer DEF ThreadInv, Threads, Answer
<1>2. /\ u \in Threads
      /\ u.pc = "returned" /\ u.op = t.op /\ u.calls = t.calls /\ u.err = t.err
      /\ u.resultErr = t.resultErr /\ u.lateCalls = t.lateCalls
      /\ u.ret = Answer(t, t.err)
  BY <1>1 DEF Threads, Labels
<1> HIDE DEF u
<1>3. Answer(u, u.err) = Answer(t, t.err)
  BY <1>2 DEF Answer
<1>4. Ended(u, u.err)
  BY <1>2 DEF ThreadInv, EndInv, Ended
<1>5. LoopInv(u)
  BY <1>2 DEF LoopInv
<1>6. EndInv(u)
  BY <1>2, <1>3, <1>4 DEF EndInv
<1> QED
  BY <1>2, <1>5, <1>6 DEF ThreadInv, u

\* The context is cancelled while the loop runs.
LEMMA CancelsThread ==
    ASSUME NEW t, ThreadInv(t), t.pc \notin {"idle", "reporting", "returned"}
    PROVE  ThreadInv([t EXCEPT !.cancelled = TRUE])
<1> DEFINE u == [t EXCEPT !.cancelled = TRUE]
<1>1. t \in Threads
  BY DEF ThreadInv
<1>2. /\ u \in Threads
      /\ u.pc = t.pc /\ u.op = t.op /\ u.attempt = t.attempt /\ u.calls = t.calls
      /\ u.lastErr = t.lastErr /\ u.resultErr = t.resultErr
      /\ u.lateCalls = t.lateCalls /\ u.cancelled = TRUE
  BY <1>1 DEF Threads
<1> HIDE DEF u
<1>3. LoopInv(u)
  BY <1>2 DEF ThreadInv, LoopInv, Looping, Called
<1>4. EndInv(u)
  BY <1>2 DEF EndInv
<1> QED
  BY <1>2, <1>3, <1>4 DEF ThreadInv, u

\* fn has returned e: what AfterCall makes of the locals.
LEMMA AfterCallEffect ==
    ASSUME NEW t \in Threads, NEW e \in BackendErr
    PROVE  LET u == AfterCall(t, e)
               again == shouldRetry(e, t.attempt + 1, GetPolicy(t.op))
           IN  /\ u \in Threads
               /\ u.op = t.op /\ u.ctx = t.ctx /\ u.calls = t.calls + 1
               /\ u.resultErr = e /\ u.cancelled = t.cancelled
               /\ u.lateCalls = IF t.cancelled THEN t.lateCalls + 1 ELSE t.lateCalls
               /\ u.pc = IF e = NoError THEN "succeeding"
                         ELSE IF again THEN "loop" ELSE "failing"
               /\ u.attempt = IF e # NoError /\ again THEN t.attempt + 1 ELSE t.attempt
               /\ u.lastErr = IF e = NoError THEN t.lastErr ELSE e
<1> DEFINE made == t.calls + 1
           late == IF t.cancelled THEN t.lateCalls + 1 ELSE t.lateCalls
           next == t.attempt + 1
           again == shouldRetry(e, t.attempt + 1, GetPolicy(t.op))
           u == [t EXCEPT !.calls = made, !.lateCalls = late, !.resultErr = e]
           looped == [u EXCEPT !.pc = "loop", !.attempt = next, !.lastErr = e]
           failed == [u EXCEPT !.pc = "failing", !.lastErr = e]
<1>1. made \in Nat /\ late \in Nat /\ next \in Nat
  BY DEF Threads
<1>2. [t EXCEPT !.calls = @ + 1, !.lateCalls = IF t.cancelled THEN @ + 1 ELSE @,
                !.resultErr = e] = u
  BY Zenon
<1> HIDE DEF made, late, next, again
<1>3. /\ u \in Threads
      /\ u.op = t.op /\ u.calls = made /\ u.resultErr = e /\ u.lateCalls = late
      /\ u.cancelled = t.cancelled /\ u.attempt = t.attempt /\ u.lastErr = t.lastErr
      /\ u.ctx = t.ctx
  BY <1>1 DEF Threads
<1> HIDE DEF u
<1>4. [u EXCEPT !.pc = "loop", !.attempt = @ + 1, !.lastErr = e] = looped
  BY <1>3, Zenon DEF next
<1>5. AfterCall(t, e) = IF e = NoError THEN [u EXCEPT !.pc = "succeeding"]
                        ELSE IF again THEN looped ELSE failed
  BY <1>2, <1>4, Zenon DEF AfterCall, again
<1>6. CASE e = NoError
  BY <1>3, <1>5, <1>6 DEF Threads, Labels, late, made
<1>7. CASE e # NoError /\ again
  <2>1. /\ looped \in Threads
        /\ looped.op = u.op /\ looped.calls = u.calls /\ looped.resultErr = u.resultErr
        /\ looped.lateCalls = u.lateCalls /\ looped.cancelled = u.cancelled
        /\ looped.ctx = u.ctx /\ looped.pc = "loop" /\ looped.attempt = next /\ looped.lastErr = e
    BY <1>1, <1>3 DEF Threads, Labels
  <2> HIDE DEF looped
  <2> QED
    BY <1>3, <1>5, <1>7, <2>1 DEF again, late, made, next
<1>8. CASE e # NoError /\ ~again
  <2>1. /\ failed \in Threads
        /\ failed.op = u.op /\ failed.calls = u.calls /\ failed.resultErr = u.resultErr
        /\ failed.lateCalls = u.lateCalls /\ failed.cancelled = u.cancelled
        /\ failed.ctx = u.ctx /\ failed.pc = "failing" /\ failed.attempt = u.attempt /\ failed.lastErr = e
    BY <1>3 DEF Threads, Labels
  <2> HIDE DEF failed
  <2> QED
    BY <1>3, <1>5, <1>8, <2>1 DEF again, late, made
<1> QED
  BY <1>6, <1>7, <1>8

\* A call keeps the loop's invariant.
LEMMA AfterCallThread ==
    ASSUME NEW t, ThreadInv(t), t.pc = "calling", NEW e \in BackendErr
    PROVE  ThreadInv(AfterCall(t, e))
<1> DEFINE u == AfterCall(t, e)
           again == shouldRetry(e, t.attempt + 1, GetPolicy(t.op))
<1>1. t \in Threads
  BY DEF ThreadInv
<1>2. /\ u \in Threads
      /\ u.op = t.op /\ u.calls = t.calls + 1 /\ u.resultErr = e
      /\ u.cancelled = t.cancelled
      /\ u.lateCalls = IF t.cancelled THEN t.lateCalls + 1 ELSE t.lateCalls
      /\ u.pc = IF e = NoError THEN "succeeding" ELSE IF again THEN "loop" ELSE "failing"
      /\ u.attempt = IF e # NoError /\ again THEN t.attempt + 1 ELSE t.attempt
      /\ u.lastErr = IF e = NoError THEN t.lastErr ELSE e
  BY <1>1, AfterCallEffect
<1>3. /\ t.attempt \in Nat /\ GetPolicy(t.op) \in Int
      /\ Looping(t) /\ t.attempt < GetPolicy(t.op) /\ t.lateCalls = 0
      /\ t.calls = t.attempt /\ t.lastErr # ErrorPermanent
  BY <1>1, PolicyType DEF ThreadInv, LoopInv, Threads, Looping
<1>4. e # NoError => (again <=> t.attempt + 1 < GetPolicy(t.op) /\ e # ErrorPermanent)
  BY DEF shouldRetry, ErrorClassifier
<1> HIDE DEF u, again
<1>5. LoopInv(u)
  BY <1>2, <1>3, <1>4, ErrorsDiffer DEF LoopInv, Looping, Called
<1>6. EndInv(u)
  BY <1>2 DEF EndInv
<1> QED
  BY <1>2, <1>5, <1>6 DEF ThreadInv, u

-----------------------------------------------------------------------------
(* The breakers and the metrics                                            *)

\* A call goes through a breaker with a key, or through none.
LEMMA GuardType ==
    /\ NoBreaker \notin Keys
    /\ \A op \in Operations, ctx \in BOOLEAN : guardOf(op, ctx) \in Keys \cup {NoBreaker}
  BY RetryFSAssumption DEF Keys, guardOf, plainGuard, contextGuard, Global, NoBreaker

\* Passing through a breaker changes at most that breaker and its count.
LEMMA ThroughEffect ==
    ASSUME breaker \in [Keys -> Breakers], openCalls \in [Keys -> Nat],
           NEW k \in Keys \cup {NoBreaker}, NEW b, k # NoBreaker => b \in Breakers,
           Through(k, b)
    PROVE  /\ breaker' \in [Keys -> Breakers] /\ openCalls' \in [Keys -> Nat]
           /\ breaker' = IF k = NoBreaker THEN breaker ELSE [breaker EXCEPT ![k] = b]
  BY GuardType DEF Through

Counts == [Attempts : Nat, Retries : Nat, Successes : Nat, Failures : Nat]

\* Operations get their entry with their first attempt.
MetricsType ==
    [Total : Counts, ErrorsByClass : [ErrorClass -> Nat],
     OperationMetrics : UNION {[S -> Counts] : S \in SUBSET Operations}]

\* Nothing has been counted.
LEMMA NewMetricsType ==
    /\ NewMetrics \in MetricsType
    /\ NewMetrics.Total.Attempts = 0 /\ NewMetrics.Total.Retries = 0
    /\ NewMetrics.Total.Successes = 0 /\ NewMetrics.Total.Failures = 0
<1>1. NewOperationMetrics \in Counts
  BY DEF NewOperationMetrics, Counts
<1>2. [op \in {} |-> NewOperationMetrics] \in [{} -> Counts]
  OBVIOUS
<1>3. {} \in SUBSET Operations
  OBVIOUS
<1>4. [op \in {} |-> NewOperationMetrics] \in UNION {[S -> Counts] : S \in SUBSET Operations}
  BY <1>2, <1>3
<1>5. [e \in ErrorClass |-> 0] \in [ErrorClass -> Nat]
  OBVIOUS
<1>6. NewMetrics \in MetricsType
  BY <1>1, <1>4, <1>5 DEF NewMetrics, MetricsType
<1> QED
  BY <1>6 DEF NewMetrics, NewOperationMetrics

\* One attempt more, and one retry more if it is one.
LEMMA CountAttemptEffect ==
    ASSUME NEW om \in Counts, NEW isRetry \in BOOLEAN
    PROVE  LET c == CountAttempt(om, isRetry)
           IN  /\ c \in Counts /\ c.Attempts = om.Attempts + 1
               /\ c.Retries = om.Retries + (IF isRetry THEN 1 ELSE 0)
               /\ c.Successes = om.Successes /\ c.Failures = om.Failures
<1> DEFINE a == om.Attempts + 1
           r == IF isRetry THEN om.Retries + 1 ELSE om.Retries
           c == [om EXCEPT !.Attempts = a, !.Retries = r]
<1>1. a \in Nat /\ r \in Nat /\ r = om.Retries + (IF isRetry THEN 1 ELSE 0)
  BY DEF Counts
<1>2. CountAttempt(om, isRetry) = c
  BY Zenon DEF CountAttempt
<1> HIDE DEF a, r
<1>3. /\ c \in Counts /\ c.Attempts = a /\ c.Retries = r
      /\ c.Successes = om.Successes /\ c.Failures = om.Failures
  BY <1>1 DEF Counts
<1> QED
  BY <1>1, <1>2, <1>3 DEF a

\* RecordAttempt counts in the totals, and makes op's entry if it is missing.
LEMMA RecordAttemptEffect ==
    ASSUME NEW m \in MetricsType, NEW op \in Operations, NEW isRetry \in BOOLEAN
    PROVE  LET n == RecordAttempt(m, op, isRetry)
           IN  /\ n \in MetricsType /\ n.Total = CountAttempt(m.Total, isRetry)
<1> DEFINE known == DOMAIN m.OperationMetrics
           om == IF op \in known THEN m.OperationMetrics[op] ELSE NewOperationMetrics
           total == CountAttempt(m.Total, isRetry)
           oms == [o \in known \cup {op} |->
                      IF o = op THEN CountAttempt(om, isRetry) ELSE m.OperationMetrics[o]]
           n == [m EXCEPT !.Total = total, !.OperationMetrics = oms]
<1>1. PICK S \in SUBSET Operations : m.OperationMetrics \in [S -> Counts]
  BY DEF MetricsType
<1>2. om \in Counts
  BY <1>1 DEF NewOperationMetrics, Counts
<1>3. CountAttempt(om, isRetry) \in Counts /\ total \in Counts
  BY <1>2, CountAttemptEffect DEF MetricsType
<1> HIDE DEF om
<1>4. oms \in [S \cup {op} -> Counts] /\ S \cup {op} \in SUBSET Operations
  BY <1>1, <1>3
<1> HIDE DEF oms, total
<1>5. oms \in UNION {[T -> Counts] : T \in SUBSET Operations}
  BY <1>4
<1>6. n \in MetricsType /\ n.Total = total
  BY <1>3, <1>5 DEF MetricsType
<1>7. RecordAttempt(m, op, isRetry) = n
  BY Zenon DEF RecordAttempt, oms, om, total
<1> QED
  BY <1>6, <1>7 DEF total

\* A counter of an entry that exists goes up.
LEMMA BumpType ==
    ASSUME NEW oms \in UNION {[S -> Counts] : S \in SUBSET Operations}, NEW op,
           NEW counter \in {"Attempts", "Retries", "Successes", "Failures"}
    PROVE  Bump(oms, op, counter) \in UNION {[S -> Counts] : S \in SUBSET Operations}
<1>1. PICK S \in SUBSET Operations : oms \in [S -> Counts]
  OBVIOUS
<1>2. ASSUME op \in S PROVE [oms EXCEPT ![op][counter] = @ + 1] \in [S -> Counts]
  <2> DEFINE x == oms[op][counter] + 1
             c == [oms[op] EXCEPT ![counter] = x]
  <2>1. oms[op] \in Counts
    BY <1>1, <1>2
  <2>2. x \in Nat
    BY <2>1 DEF Counts
  <2> HIDE DEF x
  <2>3. c \in Counts
    BY <2>1, <2>2 DEF Counts
  <2> HIDE DEF c
  <2>4. [oms EXCEPT ![op] = c] \in [S -> Counts]
    BY <1>1, <2>3
  <2>5. [oms EXCEPT ![op][counter] = @ + 1] = [oms EXCEPT ![op] = c]
    BY Zenon DEF c, x
  <2> QED
    BY <2>4, <2>5
<1>3. DOMAIN oms = S
  BY <1>1
<1>4. Bump(oms, op, counter) \in [S -> Counts]
  BY <1>1, <1>2, <1>3 DEF Bump
<1> QED
  BY <1>4

\* One success more.
LEMMA RecordSuccessEffect ==
    ASSUME NEW m \in MetricsType, NEW op
    PROVE  LET n == RecordSuccess(m, op)
           IN  /\ n \in MetricsType
               /\ n.Total = [m.Total EXCEPT !.Successes = @ + 1]
<1> DEFINE x == m.Total.Successes + 1
           total == [m.Total EXCEPT !.Successes = x]
           oms == Bump(m.OperationMetrics, op, "Successes")
           n == [m EXCEPT !.Total = total, !.OperationMetrics = oms]
<1>1. x \in Nat /\ m.Total \in Counts
  BY DEF MetricsType, Counts
<1>2. [m.Total EXCEPT !.Successes = @ + 1] = total
  BY Zenon
<1>3. RecordSuccess(m, op) = n
  BY Zenon DEF RecordSuccess
<1> HIDE DEF x
<1>4. total \in Counts
  BY <1>1 DEF Counts
<1>5. oms \in UNION {[S -> Counts] : S \in SUBSET Operations}
  BY BumpType DEF MetricsType
<1> HIDE DEF oms, total
<1>6. n \in MetricsType /\ n.Total = total
  BY <1>4, <1>5 DEF MetricsType
<1> QED
  BY <1>2, <1>3, <1>6

\* One failure more, in the totals and in its class.
LEMMA RecordFailureEffect ==
    ASSUME NEW m \in MetricsType, NEW op, NEW errClass \in ErrorClass
    PROVE  LET n == RecordFailure(m, op, errClass)
           IN  /\ n \in MetricsType
               /\ n.Total = [m.Total EXCEPT !.Failures = @ + 1]
<1> DEFINE x == m.Total.Failures + 1
           y == m.ErrorsByClass[errClass] + 1
           total == [m.Total EXCEPT !.Failures = x]
           byClass == [m.ErrorsByClass EXCEPT ![errClass] = y]
           oms == Bump(m.OperationMetrics, op, "Failures")
           n == [m EXCEPT !.Total = total, !.ErrorsByClass = byClass,
                          !.OperationMetrics = oms]
<1>1. x \in Nat /\ y \in Nat /\ m.Total \in Counts
  BY DEF MetricsType, Counts
<1>2. [m.Total EXCEPT !.Failures = @ + 1] = total
  BY Zenon
<1>3. RecordFailure(m, op, errClass) = n
  BY Zenon DEF RecordFailure
<1> HIDE DEF x, y
<1>4. total \in Counts
  BY <1>1 DEF Counts
<1>5. byClass \in [ErrorClass -> Nat]
  BY <1>1 DEF MetricsType
<1>6. oms \in UNION {[S -> Counts] : S \in SUBSET Operations}
  BY BumpType DEF MetricsType
<1> HIDE DEF oms, total, byClass
<1>7. n \in MetricsType /\ n.Total = total
  BY <1>4, <1>5, <1>6 DEF MetricsType
<1> QED
  BY <1>2, <1>3, <1>7

-----------------------------------------------------------------------------
(* The inductive invariant                                                 *)

\* The locals of every goroutine fit its place in the loop; the shared state
\* has its type.
IInv ==
    /\ thread \in [Workers -> Threads]
    /\ \A w \in Workers : ThreadInv(thread[w])
    /\ breaker \in [Keys -> Breakers]
    /\ openCalls \in [Keys -> Nat]
    /\ metrics \in MetricsType

\* No goroutine has made a call.
LEMMA InitIInv == Init => IInv
<1> SUFFICES ASSUME Init PROVE IInv
  OBVIOUS
<1>1. Idle \in Threads /\ LoopInv(Idle) /\ EndInv(Idle)
  BY RetryFSAssumption, IdleThread DEF LoopInv, EndInv
<1>2. thread \in [Workers -> Threads] /\ \A w \in Workers : ThreadInv(thread[w])
  BY <1>1 DEF Init, ThreadInv
<1> QED
  BY <1>2, MethodsKeepType, NewMetricsType DEF Init, IInv

\* It is enough to look at the goroutine that moves.
LEMMA GotoThread ==
    ASSUME IInv, NEW w \in Workers, NEW u, ThreadInv(u), Goto(w, u)
    PROVE  thread' \in [Workers -> Threads] /\ \A v \in Workers : ThreadInv(thread'[v])
<1>1. thread' = [thread EXCEPT ![w] = u] /\ u \in Threads
  BY DEF Goto, ThreadInv
<1>2. thread' \in [Workers -> Threads] /\ thread'[w] = u
  BY <1>1 DEF IInv
<1>3. \A v \in Workers : v # w => thread'[v] = thread[v]
  BY <1>1 DEF IInv
<1> QED
  BY <1>2, <1>3 DEF IInv

\* A method is called: it begins, is refused, or is not implemented.
LEMMA MethodStep ==
    ASSUME IInv, NEW w \in Workers, NEW op \in Operations, NEW ctx \in BOOLEAN,
           \/ Begin(w, op, ctx) \/ Refused(w, op, ctx) \/ NotImplemented(w, op, ctx)
    PROVE  IInv'
<1> DEFINE k == guardOf(op, ctx)
           t(e) == [Idle EXCEPT !.pc = "returned", !.op = op, !.ctx = ctx, !.err = e]
<1>1. k \in Keys \cup {NoBreaker}
  BY GuardType
<1>2. k # NoBreaker => allowCall(breaker[k]) \in Breakers
  BY <1>1, MethodsKeepType DEF IInv
<1>3. CASE Begin(w, op, ctx)
  <2>1. Through(k, allowCall(breaker[k])) /\ metrics' = metrics
    BY <1>3 DEF Begin
  <2>2. breaker' \in [Keys -> Breakers] /\ openCalls' \in [Keys -> Nat]
    BY <1>1, <1>2, <2>1, ThroughEffect DEF IInv
  <2>3. thread' \in [Workers -> Threads] /\ \A v \in Workers : ThreadInv(thread'[v])
    BY <1>3, BeginThread, GotoThread DEF Begin
  <2> QED
    BY <2>1, <2>2, <2>3 DEF IInv
<1>4. CASE Refused(w, op, ctx)
  <2> DEFINE r == Answer(t(ErrCircuitOpen), ErrCircuitOpen)
  <2>1. Through(k, allowCall(breaker[k])) /\ metrics' = metrics
    BY <1>4 DEF Refused
  <2>2. breaker' \in [Keys -> Breakers] /\ openCalls' \in [Keys -> Nat]
    BY <1>1, <1>2, <2>1, ThroughEffect DEF IInv
  <2>3. t(ErrCircuitOpen) \in Threads
    BY IdleThread, ErrorsDiffer DEF Threads, Labels
  <2>4. r \in Error
    BY <2>3, ErrorsDiffer DEF Threads, Answer
  <2>5. ThreadInv([t(ErrCircuitOpen) EXCEPT !.ret = r])
    BY <2>4, EndsAtOnce
  <2>6. Goto(w, [t(ErrCircuitOpen) EXCEPT !.ret = r])
    BY <1>4 DEF Refused
  <2>7. thread' \in [Workers -> Threads] /\ \A v \in Workers : ThreadInv(thread'[v])
    BY <2>5, <2>6, GotoThread
  <2> QED
    BY <2>1, <2>2, <2>7 DEF IInv
<1>5. CASE NotImplemented(w, op, ctx)
  <2> DEFINE u == [t(ErrNotImplemented) EXCEPT !.ret = ErrNotImplemented]
  <2>1. u = [Idle EXCEPT !.pc = "returned", !.op = op, !.ctx = ctx,
                         !.err = ErrNotImplemented, !.ret = ErrNotImplemented]
    BY Zenon
  <2>2. Goto(w, u) /\ UNCHANGED <<breaker, metrics, openCalls>>
    BY <1>5, <2>1 DEF NotImplemented
  <2>3. ThreadInv(u)
    BY EndsAtOnce, ErrorsDiffer
  <2> HIDE DEF u
  <2>4. thread' \in [Workers -> Threads] /\ \A v \in Workers : ThreadInv(thread'[v])
    BY <2>2, <2>3, GotoThread
  <2> QED
    BY <2>2, <2>4 DEF IInv
<1> QED
  BY <1>3, <1>4, <1>5

\* The steps of the loop that leave the metrics and the breakers alone.
LEMMA QuietStep ==
    ASSUME IInv, NEW w \in Workers,
           \/ Exhausted(w) \/ SeeCancelled(w) \/ WakeUp(w) \/ CancelledInBackoff(w)
           \/ Cancel(w)
    PROVE  IInv'
<1> DEFINE t == thread[w]
<1>1. UNCHANGED <<breaker, metrics, openCalls>>
  BY DEF Exhausted, SeeCancelled, WakeUp, CancelledInBackoff, Cancel
<1>2. ThreadInv(t)
  BY DEF IInv
<1> HIDE DEF t
<1>3. \E u : ThreadInv(u) /\ Goto(w, u)
  <2>1. CASE Exhausted(w) \/ WakeUp(w)
    BY <1>2, <2>1, MovesOn DEF Exhausted, WakeUp, t
  <2>2. CASE SeeCancelled(w) \/ CancelledInBackoff(w)
    BY <1>2, <2>2, LeavesLoop DEF SeeCancelled, CancelledInBackoff, t
  <2>3. CASE Cancel(w)
    BY <1>2, <2>3, CancelsThread DEF Cancel, t
  <2> QED
    BY <2>1, <2>2, <2>3
<1>4. thread' \in [Workers -> Threads] /\ \A v \in Workers : ThreadInv(thread'[v])
  BY <1>3, GotoThread
<1> QED
  BY <1>1, <1>4 DEF IInv

\* The steps that count something.
LEMMA CountingStep ==
    ASSUME IInv, NEW w \in Workers, Attempt(w) \/ Succeed(w) \/ Fail(w)
    PROVE  IInv'
<1> DEFINE t == thread[w]
<1>1. UNCHANGED <<breaker, openCalls>>
  BY DEF Attempt, Succeed, Fail
<1>2. ThreadInv(t) /\ t.op \in Operations /\ t.lastErr \in BackendErr
  BY DEF IInv, ThreadInv, Threads
<1>3. metrics \in MetricsType
  BY DEF IInv
<1>4. ErrorClassifier(t.lastErr) \in ErrorClass
  BY <1>2, RetryFSAssumption DEF BackendErr, ErrorClassifier, ErrorClass
<1>5. (t.attempt > 0) \in BOOLEAN
  OBVIOUS
<1> HIDE DEF t
<1>6. metrics' \in MetricsType
  <2>1. CASE Attempt(w)
    <3>1. metrics' = RecordAttempt(metrics, t.op, t.attempt > 0)
      BY <2>1, Zenon DEF Attempt, t
    <3> QED
      BY <3>1, <1>2, <1>3, <1>5, RecordAttemptEffect, Zenon
  <2>2. CASE Succeed(w)
    <3>1. metrics' = RecordSuccess(metrics, t.op)
      BY <2>2, Zenon DEF Succeed, t
    <3> QED
      BY <3>1, <1>2, <1>3, RecordSuccessEffect, Zenon
  <2>3. CASE Fail(w)
    <3>1. metrics' = RecordFailure(metrics, t.op, ErrorClassifier(t.lastErr))
      BY <2>3, Zenon DEF Fail, t
    <3> QED
      BY <3>1, <1>2, <1>3, <1>4, RecordFailureEffect, Zenon
  <2> QED
    BY <2>1, <2>2, <2>3
<1>7. \E u : ThreadInv(u) /\ Goto(w, u)
  <2>1. CASE Attempt(w)
    BY <1>2, <2>1, MovesOn DEF Attempt, t
  <2>2. CASE Succeed(w) \/ Fail(w)
    BY <1>2, <2>2, LeavesLoop DEF Succeed, Fail, t
  <2> QED
    BY <2>1, <2>2
<1>8. thread' \in [Workers -> Threads] /\ \A v \in Workers : ThreadInv(thread'[v])
  BY <1>7, GotoThread
<1> QED
  BY <1>1, <1>6, <1>8 DEF IInv

\* The backend is called.
LEMMA InvokeStep ==
    ASSUME IInv, NEW w \in Workers, Invoke(w)
    PROVE  IInv'
<1>1. ThreadInv(thread[w]) /\ thread[w].pc = "calling"
  BY DEF IInv, Invoke
<1>2. PICK e \in BackendErr : Goto(w, AfterCall(thread[w], e))
  BY DEF Invoke, BackendErr
<1>3. ThreadInv(AfterCall(thread[w], e))
  BY <1>1, AfterCallThread
<1>4. thread' \in [Workers -> Threads] /\ \A v \in Workers : ThreadInv(thread'[v])
  BY <1>2, <1>3, GotoThread
<1>5. openCalls' \in [Keys -> Nat]
  <2> DEFINE k == myBreaker(w)
  <2>1. k \in Keys \cup {NoBreaker}
    BY <1>1, GuardType DEF myBreaker, ThreadInv, Threads
  <2>2. openCalls' = IF k # NoBreaker /\ breaker[k].state = StateOpen
                     THEN [openCalls EXCEPT ![k] = openCalls[k] + 1] ELSE openCalls
    BY Zenon DEF Invoke
  <2>3. openCalls \in [Keys -> Nat]
    BY DEF IInv
  <2> HIDE DEF k
  <2> QED
    BY <2>1, <2>2, <2>3
<1> QED
  BY <1>4, <1>5 DEF IInv, Invoke

\* The breaker is told, and the method returns.
LEMMA ReturnStep ==
    ASSUME IInv, NEW w \in Workers, Return(w)
    PROVE  IInv'
<1> DEFINE k == myBreaker(w)
<1>1. k \in Keys \cup {NoBreaker}
  BY GuardType DEF myBreaker, IInv, Threads
<1>2. k # NoBreaker => recordResult(breaker[k], thread[w].err) \in Breakers
  BY <1>1, MethodsKeepType DEF IInv, recordResult
<1>3. Through(k, recordResult(breaker[k], thread[w].err)) /\ metrics' = metrics
  BY DEF Return
<1>4. breaker' \in [Keys -> Breakers] /\ openCalls' \in [Keys -> Nat]
  BY <1>1, <1>2, <1>3, ThroughEffect DEF IInv
<1>5. thread' \in [Workers -> Threads] /\ \A v \in Workers : ThreadInv(thread'[v])
  BY ReturnsThread, GotoThread DEF Return, IInv
<1> QED
  BY <1>3, <1>4, <1>5 DEF IInv

\* Lstat may become Stat; every other method is its own operation.
LEMMA TargetType == \A op \in Operations : target(op) \in Operations
  BY RetryFSAssumption DEF target

\* No step breaks the invariant.
LEMMA NextIInv == IInv /\ [Next]_vars => IInv'
<1> SUFFICES ASSUME IInv, [Next]_vars PROVE IInv'
  OBVIOUS
<1>1. CASE UNCHANGED vars
  BY <1>1 DEF vars, IInv
<1>2. CASE Tick
  BY <1>2, MethodsKeepType DEF Tick, IInv
<1>3. ASSUME NEW w \in Workers, NEW op \in Operations, Method(w, op) \/ ContextMethod(w, op)
      PROVE  IInv'
  BY <1>3, MethodStep, TargetType DEF Method, ContextMethod
<1>4. ASSUME NEW w \in Workers, Step(w) \/ Cancel(w) PROVE IInv'
  BY <1>4, QuietStep, CountingStep, InvokeStep, ReturnStep DEF Step
<1> QED
  BY <1>1, <1>2, <1>3, <1>4 DEF Next

-----------------------------------------------------------------------------
(* The theorems                                                            *)

\* IInv holds in every reachable state: the locals of every goroutine fit its
\* place in retryWithoutCircuitBreaker, and the shared state has its type.
THEOREM Inductive == Spec => []IInv
  BY InitIInv, NextIInv, PTL DEF Spec

\* The goroutines' locals, the breakers, the metrics' map and the counts of
\* calls keep their types.
THEOREM TypeCorrect == Spec => []TypeOK
<1>1. IInv => TypeOK
  BY DEF IInv, TypeOK, Threads, Labels, BackendErr, MetricsType
<1> QED
  BY <1>1, Inductive, PTL

\* The loop calls the backend no more often than the policy allows, never
\* again after a permanent error, and gives up only when it must.
THEOREM Budget == Spec => []RetryBudget
<1>1. IInv => RetryBudget
  <2> SUFFICES ASSUME IInv, NEW w \in Workers
               PROVE  LET t == thread[w] IN
                      /\ t.calls <= budget(t.op)
                      /\ t.lastErr = ErrorPermanent => t.pc \in {"failing", "reporting", "returned"}
                      /\ t.pc = "failing" => t.lastErr = ErrorPermanent \/ t.calls = budget(t.op)
    BY DEF RetryBudget, budget
  <2> DEFINE t == thread[w]
  <2>1. /\ t.pc \in Labels /\ t.calls \in Nat /\ t.attempt \in Nat
        /\ GetPolicy(t.op) \in Int /\ LoopInv(t) /\ EndInv(t)
    BY PolicyType DEF IInv, ThreadInv, Threads
  <2> HIDE DEF t
  <2>2. t.calls <= budget(t.op)
    BY <2>1 DEF Labels, LoopInv, EndInv, Looping, Called, Ended, budget, NonPositive
  <2>3. t.lastErr = ErrorPermanent => t.pc \in {"failing", "reporting", "returned"}
    BY <2>1, ErrorsDiffer DEF Labels, LoopInv, EndInv, Looping
  <2>4. t.pc = "failing" => t.lastErr = ErrorPermanent \/ t.calls = budget(t.op)
    BY <2>1 DEF LoopInv, Called, budget, NonPositive
  <2> QED
    BY <2>2, <2>3, <2>4 DEF t
<1> QED
  BY <1>1, Inductive, PTL

\* Whenever the context is cancelled, the backend is called at most once more.
THEOREM LateCallBound == Spec => []OneCallAfterCancel
<1>1. IInv => OneCallAfterCancel
  <2> SUFFICES ASSUME IInv, NEW w \in Workers PROVE thread[w].lateCalls <= 1
    BY DEF OneCallAfterCancel
  <2>1. thread[w].pc \in Labels /\ LoopInv(thread[w]) /\ EndInv(thread[w])
    BY DEF IInv, ThreadInv, Threads
  <2> QED
    BY <2>1 DEF Labels, LoopInv, EndInv, Ended
<1> QED
  BY <1>1, Inductive, PTL

\* The error a method returns is nil exactly when its last call of the backend
\* succeeded.
THEOREM Honest == Spec => []AnswerIsHonest
<1>1. IInv => AnswerIsHonest
  <2> SUFFICES ASSUME IInv, NEW w \in Workers, returned(w)
               PROVE  LET t == thread[w] IN
                      /\ t.calls > 0 => (t.ret = NoError <=> t.resultErr = NoError)
                      /\ \/ t.calls > 0 \/ t.op \in ResultOps \/ NonPositive(GetPolicy(t.op))
                         \/ t.ret \in {ErrCircuitOpen, CtxErr, ErrNotImplemented}
    BY DEF AnswerIsHonest, invoked
  <2> DEFINE t == thread[w]
  <2>1. t.pc = "returned" /\ t.calls \in Nat /\ EndInv(t)
    BY DEF returned, IInv, ThreadInv, Threads
  <2> HIDE DEF t
  <2>2. /\ Ended(t, t.err)
        /\ t.ret = Answer(t, t.err) \/ (t.err = ErrNotImplemented /\ t.ret = t.err)
    BY <2>1 DEF EndInv
  <2>3. t.calls > 0 => (t.ret = NoError <=> t.resultErr = NoError)
    BY <2>2 DEF Ended, Answer
  <2>4. t.calls = 0 => \/ t.op \in ResultOps \/ NonPositive(GetPolicy(t.op))
                       \/ t.ret \in {ErrCircuitOpen, CtxErr, ErrNotImplemented}
    BY <2>2, ErrorsDiffer DEF Ended, Answer
  <2> QED
    BY <2>1, <2>3, <2>4 DEF t
<1> QED
  BY <1>1, Inductive, PTL

-----------------------------------------------------------------------------
(* The loops use the breakers as BreakerArray says                         *)

\* The breakers of BreakerArray are those of this module.
LEMMA SameBreakers ==
    /\ Array!NewCircuitBreaker = NewCircuitBreaker
    /\ \A b : /\ Array!Allows(b) <=> Allows(b)
              /\ Array!allowCall(b) = allowCall(b)
              /\ Array!onSuccess(b) = onSuccess(b)
              /\ Array!onFailure(b) = onFailure(b)
              /\ Array!Age(b) = Age(b)
<1> USE DEF Array!StateClosed, StateClosed, Array!StateOpen, StateOpen,
            Array!StateHalfOpen, StateHalfOpen
<1>1. Array!NewCircuitBreaker = NewCircuitBreaker
  BY Zenon DEF Array!NewCircuitBreaker, NewCircuitBreaker
<1>2. ASSUME NEW b PROVE Array!Allows(b) <=> Allows(b)
  BY Zenon DEF Array!Allows, Allows
<1>3. ASSUME NEW b PROVE Array!allowCall(b) = allowCall(b)
  BY Zenon DEF Array!allowCall, allowCall, Array!Allows, Allows, Array!setState, setState
<1>4. ASSUME NEW b PROVE Array!onSuccess(b) = onSuccess(b)
  BY Zenon DEF Array!onSuccess, onSuccess, Array!setState, setState
<1>5. ASSUME NEW b PROVE Array!onFailure(b) = onFailure(b)
  BY Zenon DEF Array!onFailure, onFailure, Array!setState, setState
<1>6. ASSUME NEW b PROVE Array!Age(b) = Age(b)
  BY Zenon DEF Array!Age, Age, Array!Advance, Advance
<1> QED
  BY <1>1, <1>2, <1>3, <1>4, <1>5, <1>6, Zenon

\* The breaker a goroutine with these locals is behind.
heldBy(t) == IF t.pc \in {"idle", "returned"} THEN NoBreaker ELSE guardOf(t.op, t.ctx)

\* Nobody is behind a breaker at first.
LEMMA InitArray == Init => Array!Init
<1> SUFFICES ASSUME Init PROVE Array!Init
  OBVIOUS
<1>1. \A w \in Workers : held(w) = NoBreaker
  BY IdleThread, RetryFSAssumption DEF Init, held, free
<1> QED
  BY <1>1, SameBreakers DEF Init, Array!Init

\* When a goroutine moves, the others stay behind their breakers.
LEMMA HeldMove ==
    ASSUME IInv, NEW w \in Workers, NEW u, Goto(w, u)
    PROVE  /\ held(w) = heldBy(thread[w])
           /\ [v \in Workers |-> held(v)]' =
                  [[v \in Workers |-> held(v)] EXCEPT ![w] = heldBy(u)]
<1>1. held(w)' = heldBy(u)
  BY DEF Goto, held, heldBy, free, myBreaker, IInv
<1>2. \A v \in Workers : v # w => held(v)' = held(v)
  BY DEF Goto, held, free, myBreaker, IInv
<1> QED
  BY <1>1, <1>2 DEF held, heldBy, free, myBreaker

\* Inside the loop nobody enters or leaves a breaker.
LEMMA InsideLoop ==
    ASSUME IInv, NEW w \in Workers,
           \/ Exhausted(w) \/ SeeCancelled(w) \/ Attempt(w) \/ WakeUp(w)
           \/ CancelledInBackoff(w) \/ Invoke(w) \/ Succeed(w) \/ Fail(w) \/ Cancel(w)
    PROVE  UNCHANGED Array!vars
<1> DEFINE t == thread[w]
           who == [v \in Workers |-> held(v)]
<1>1. t \in Threads
  BY DEF IInv
<1>2. t.pc \notin {"idle", "returned"} /\ UNCHANGED breaker
  BY DEF Exhausted, SeeCancelled, Attempt, WakeUp, CancelledInBackoff, Invoke, Succeed,
         Fail, Cancel
<1>3. PICK u : /\ Goto(w, u)
               /\ u.pc \notin {"idle", "returned"} /\ u.op = t.op /\ u.ctx = t.ctx
  <2>1. ASSUME NEW q \in Labels \ {"idle", "returned"}, NEW u, u = [t EXCEPT !.pc = q]
        PROVE  u.pc \notin {"idle", "returned"} /\ u.op = t.op /\ u.ctx = t.ctx
    BY <1>1, <2>1 DEF Threads
  <2>2. ASSUME NEW e, NEW u, u = [t EXCEPT !.pc = "reporting", !.err = e]
        PROVE  u.pc \notin {"idle", "returned"} /\ u.op = t.op /\ u.ctx = t.ctx
    BY <1>1, <2>2 DEF Threads
  <2>3. ASSUME NEW u, u = [t EXCEPT !.cancelled = TRUE]
        PROVE  u.pc = t.pc /\ u.op = t.op /\ u.ctx = t.ctx
    BY <1>1, <2>3 DEF Threads
  <2>4. ASSUME NEW e \in BackendErr
        PROVE  /\ AfterCall(t, e).pc \notin {"idle", "returned"}
               /\ AfterCall(t, e).op = t.op /\ AfterCall(t, e).ctx = t.ctx
    BY <1>1, AfterCallEffect
  <2> HIDE DEF t
  <2>5. CASE Exhausted(w) \/ Attempt(w) \/ WakeUp(w)
    BY <2>1, <2>5 DEF Exhausted, Attempt, WakeUp, Labels, t
  <2>6. CASE SeeCancelled(w) \/ CancelledInBackoff(w) \/ Succeed(w) \/ Fail(w)
    BY <2>2, <2>6 DEF SeeCancelled, CancelledInBackoff, Succeed, Fail, t
  <2>7. CASE Cancel(w)
    BY <1>2, <2>3, <2>7 DEF Cancel, t
  <2>8. CASE Invoke(w)
    BY <2>4, <2>8 DEF Invoke, BackendErr, t
  <2> QED
    BY <2>5, <2>6, <2>7, <2>8
<1>4. heldBy(u) = heldBy(t)
  BY <1>2, <1>3 DEF heldBy
<1>5. who' = [who EXCEPT ![w] = who[w]]
  BY <1>3, <1>4, HeldMove
<1>6. who' = who
  BY <1>5
<1> QED
  BY <1>2, <1>6 DEF Array!vars

\* A call is admitted, refused, or fails at once.
LEMMA EntersArray ==
    ASSUME IInv, NEW w \in Workers, NEW op \in Operations, NEW ctx \in BOOLEAN,
           Begin(w, op, ctx) \/ Refused(w, op, ctx) \/ NotImplemented(w, op, ctx)
    PROVE  [Array!Next]_Array!vars
<1> DEFINE k == guardOf(op, ctx)
           who == [v \in Workers |-> held(v)]
<1>1. k \in Keys \cup {NoBreaker} /\ Idle \in Threads
  BY GuardType, IdleThread, RetryFSAssumption
<1>2. who[w] = NoBreaker
  BY DEF Begin, Refused, NotImplemented, held
<1>3. CASE Begin(w, op, ctx)
  <2> DEFINE u == [Idle EXCEPT !.pc = "loop", !.op = op, !.ctx = ctx]
  <2>1. heldBy(u) = k
    BY <1>1 DEF heldBy, Threads
  <2>2. Goto(w, u)
    BY <1>3 DEF Begin
  <2> HIDE DEF u
  <2>3. who' = [who EXCEPT ![w] = k]
    BY <2>1, <2>2, HeldMove
  <2>4. CASE k = NoBreaker
    <3>1. who' = who
      BY <1>2, <2>3, <2>4
    <3>2. breaker' = breaker
      BY <1>3, <2>4 DEF Begin, Through
    <3> QED
      BY <3>1, <3>2 DEF Array!vars
  <2>5. CASE k # NoBreaker
    <3>1. Allows(breaker[k]) /\ breaker' = [breaker EXCEPT ![k] = allowCall(breaker[k])]
      BY <1>3, <2>5 DEF Begin, Through
    <3>2. Array!Admit(w, k)
      BY <1>2, <2>3, <3>1, SameBreakers DEF Array!Admit
    <3> QED
      BY <1>1, <2>5, <3>2 DEF Array!Next
  <2> QED
    BY <2>4, <2>5
<1>4. CASE Refused(w, op, ctx) \/ NotImplemented(w, op, ctx)
  <2>1. PICK u : Goto(w, u) /\ u.pc = "returned"
    <3>1. ASSUME NEW e, NEW r, NEW t,
                 t = [Idle EXCEPT !.pc = "returned", !.op = op, !.ctx = ctx, !.err = e]
          PROVE  /\ t.pc = "returned" /\ [t EXCEPT !.ret = r].pc = "returned"
                 /\ [Idle EXCEPT !.pc = "returned", !.op = op, !.ctx = ctx, !.err = e,
                                 !.ret = r].pc = "returned"
      BY <1>1, <3>1 DEF Threads
    <3> QED
      BY <1>4, <3>1 DEF Refused, NotImplemented
  <2>2. who' = [who EXCEPT ![w] = who[w]]
    BY <1>2, <2>1, HeldMove DEF heldBy
  <2>3. who' = who
    BY <2>2
  <2>4. breaker' = breaker
    <3>1. CASE Refused(w, op, ctx)
      <4>1. /\ k # NoBreaker /\ ~Allows(breaker[k])
            /\ breaker' = [breaker EXCEPT ![k] = allowCall(breaker[k])]
        BY <3>1 DEF Refused, Through
      <4>2. allowCall(breaker[k]) = breaker[k]
        BY <4>1 DEF allowCall
      <4> QED
        BY <4>1, <4>2 DEF IInv
    <3>2. CASE NotImplemented(w, op, ctx)
      BY <3>2 DEF NotImplemented
    <3> QED
      BY <1>4, <3>1, <3>2
  <2> QED
    BY <2>3, <2>4 DEF Array!vars
<1> QED
  BY <1>3, <1>4

\* The result of a loop goes to the breaker that admitted it.
LEMMA LeavesArray ==
    ASSUME IInv, NEW w \in Workers, Return(w)
    PROVE  [Array!Next]_Array!vars
<1> DEFINE t == thread[w]
           k == guardOf(t.op, t.ctx)
           who == [v \in Workers |-> held(v)]
           u == [t EXCEPT !.pc = "returned", !.ret = Answer(t, t.err)]
<1>1. t \in Threads /\ t.pc = "reporting" /\ Goto(w, u) /\ k \in Keys \cup {NoBreaker}
  BY GuardType DEF IInv, Return, Threads
<1>2. heldBy(t) = k /\ heldBy(u) = NoBreaker
  BY <1>1 DEF heldBy, Threads
<1> HIDE DEF u
<1>3. who[w] = k /\ who' = [who EXCEPT ![w] = NoBreaker]
  BY <1>1, <1>2, HeldMove
<1>4. CASE k = NoBreaker
  <2>1. who' = who
    BY <1>3, <1>4
  <2>2. breaker' = breaker
    BY <1>4 DEF Return, Through, myBreaker
  <2> QED
    BY <2>1, <2>2 DEF Array!vars
<1>5. CASE k # NoBreaker
  <2>1. breaker' = [breaker EXCEPT ![k] = recordResult(breaker[k], t.err)]
    BY <1>5 DEF Return, Through, myBreaker
  <2>2. recordResult(breaker[k], t.err) \in
            {Array!onSuccess(breaker[k]), Array!onFailure(breaker[k])}
    BY SameBreakers DEF recordResult
  <2>3. Array!Record(w, k)
    BY <1>3, <2>1, <2>2 DEF Array!Record
  <2> QED
    BY <1>1, <1>5, <2>3 DEF Array!Next
<1> QED
  BY <1>4, <1>5

\* Every step is one of BreakerArray, or changes nothing there.
LEMMA StepArray == IInv /\ [Next]_vars => [Array!Next]_Array!vars
<1> SUFFICES ASSUME IInv, [Next]_vars PROVE [Array!Next]_Array!vars
  OBVIOUS
<1>1. CASE UNCHANGED vars
  BY <1>1 DEF vars, Array!vars, held, free, myBreaker
<1>2. CASE Tick
  <2>1. UNCHANGED [w \in Workers |-> held(w)]
    BY <1>2 DEF Tick, held, free, myBreaker
  <2>2. breaker' = [k \in Keys |-> Array!Age(breaker[k])]
    BY <1>2, SameBreakers DEF Tick
  <2>3. Array!Tick
    BY <2>1, <2>2 DEF Array!Tick
  <2> QED
    BY <2>3 DEF Array!Next
<1>3. ASSUME NEW w \in Workers, NEW op \in Operations, Method(w, op) \/ ContextMethod(w, op)
      PROVE  [Array!Next]_Array!vars
  BY <1>3, EntersArray, TargetType DEF Method, ContextMethod
<1>4. ASSUME NEW w \in Workers, Step(w) \/ Cancel(w) PROVE [Array!Next]_Array!vars
  BY <1>4, InsideLoop, LeavesArray DEF Step
<1> QED
  BY <1>1, <1>2, <1>3, <1>4 DEF Next

\* Every result of a loop goes to the breaker that admitted the operation,
\* whatever the other goroutines do and whichever breakers are configured.
THEOREM Refinement == Spec => UsesArray
  BY InitArray, StepArray, Inductive, PTL DEF Spec, UsesArray, Array!Spec
=============================================================================
