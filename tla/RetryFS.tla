------------------------------ MODULE RetryFS ------------------------------
(***************************************************************************)
(* Goroutines calling the methods of one RetryFS (src/retryfs.go,          *)
(* src/context.go): admission by a circuit breaker, the retry loop with    *)
(* its backoff, the metrics of src/types.go, and the error the caller gets *)
(* back.                                                                   *)
(*                                                                         *)
(* Every filesystem method is one of four shapes: with or without a        *)
(* context.Context, returning only an error or a result and an error.      *)
(* Steps are cut where another goroutine can interfere: at rfs.mu, at the  *)
(* breaker's mutex, in the backoff and in the call of the backend.         *)
(* An error of the backend is represented by the class the ErrorClassifier *)
(* gives it, the only thing the retry loop asks about it.                  *)
(***************************************************************************)
EXTENDS Breaker, FiniteSets, FiniteSetsExt

CONSTANTS
    Workers,            \* the goroutines
    Operations,         \* types.go: Operation
    ResultOps,          \* the operations that return a result and an error
    ContextOps,         \* the operations that have a ...Context method
    OperationPolicies,  \* Config.OperationPolicies, op -> MaxAttempts
    DefaultPolicy,      \* Config.DefaultPolicy's MaxAttempts
    Errors,             \* the errors the backend returns, by class
    HasSymLinker,       \* the backend implements absfs.SymLinker
    HasGlobal,          \* WithCircuitBreaker was given
    HasPerOperation,    \* WithPerOperationCircuitBreaker was given
    MaxOps              \* bound on the operations started

ErrorRetryable == "retryable"
ErrorPermanent == "permanent"
ErrorUnknown   == "unknown"
ErrorClass == {ErrorRetryable, ErrorPermanent, ErrorUnknown}

NoError        == "nil"
ErrCircuitOpen == "circuit breaker is open"
CtxErr         == "ctx.Err()"
ErrNotImplemented == "not implemented"
Error == ErrorClass \cup {NoError, ErrCircuitOpen, CtxErr, ErrNotImplemented}

Global    == "global"   \* the key of rfs.circuitBreaker
NoBreaker == "none"
Keys == Operations \cup {Global}

ASSUME RetryFSAssumption ==
    /\ IsFiniteSet(Workers) /\ IsFiniteSet(Operations)
    /\ Operations # {}
    /\ {Global, NoBreaker} \cap Operations = {}
    /\ ResultOps \subseteq Operations /\ ContextOps \subseteq Operations
    /\ DOMAIN OperationPolicies \subseteq Operations
    /\ \A op \in DOMAIN OperationPolicies : OperationPolicies[op] \in Int
    /\ DefaultPolicy \in Int
    /\ Errors \subseteq ErrorClass
    /\ HasSymLinker \in BOOLEAN
    /\ "lstat" \in Operations /\ ~HasSymLinker => "stat" \in Operations
    /\ HasGlobal \in BOOLEAN /\ HasPerOperation \in BOOLEAN
    /\ MaxOps \in Nat

VARIABLES
    thread,     \* the call each goroutine is making, or made last
    breaker,    \* rfs.circuitBreaker and the per-operation breakers
    metrics,    \* rfs.metrics
    tally,      \* history: what happened, counted independently of metrics
    openCalls   \* history: backend calls behind a breaker since it opened

vars == <<thread, breaker, metrics, tally, openCalls>>

-----------------------------------------------------------------------------
(* types.go: policies and metrics                                          *)

\* GetPolicy(op).MaxAttempts
GetPolicy(op) == IF op \in DOMAIN OperationPolicies
                 THEN OperationPolicies[op] ELSE DefaultPolicy

NewOperationMetrics == [Attempts |-> 0, Retries |-> 0, Successes |-> 0, Failures |-> 0]

NewMetrics ==
    [Total            |-> NewOperationMetrics,
     ErrorsByClass    |-> [e \in ErrorClass |-> 0],
     OperationMetrics |-> [op \in {} |-> NewOperationMetrics]]

CountAttempt(om, isRetry) ==
    [om EXCEPT !.Attempts = @ + 1, !.Retries = IF isRetry THEN @ + 1 ELSE @]

\* Mutant: the per-operation entry is created without counting the attempt.
RecordAttemptFirstLost(m, op, isRetry) ==
    IF op \in DOMAIN m.OperationMetrics
    THEN [m EXCEPT !.Total = CountAttempt(@, isRetry),
                   !.OperationMetrics[op] = CountAttempt(@, isRetry)]
    ELSE [m EXCEPT !.Total = CountAttempt(@, isRetry),
                   !.OperationMetrics = [o \in DOMAIN @ \cup {op} |->
                       IF o = op THEN NewOperationMetrics ELSE @[o]]]

RecordAttempt(m, op, isRetry) ==
    LET known == DOMAIN m.OperationMetrics
        om    == IF op \in known THEN m.OperationMetrics[op] ELSE NewOperationMetrics
    IN  [m EXCEPT !.Total = CountAttempt(@, isRetry),
                  !.OperationMetrics =
                      [o \in known \cup {op} |->
                          IF o = op THEN CountAttempt(om, isRetry) ELSE @[o]]]

\* The counter of op, if op has made an attempt.
Bump(oms, op, counter) ==
    IF op \in DOMAIN oms THEN [oms EXCEPT ![op][counter] = @ + 1] ELSE oms

RecordSuccess(m, op) ==
    [m EXCEPT !.Total.Successes = @ + 1,
              !.OperationMetrics = Bump(@, op, "Successes")]

RecordFailure(m, op, errClass) ==
    [m EXCEPT !.Total.Failures = @ + 1,
              !.ErrorsByClass[errClass] = @ + 1,
              !.OperationMetrics = Bump(@, op, "Failures")]

\* errors.go: the class of the backend's error, and of nil.
ErrorClassifier(err) == IF err = NoError THEN ErrorUnknown ELSE err

\* Mutant: the last attempt is never made.
shouldRetryOneShort(err, attempt, maxAttempts) ==
    /\ err # NoError
    /\ attempt + 1 < maxAttempts
    /\ ErrorClassifier(err) # ErrorPermanent

shouldRetry(err, attempt, maxAttempts) ==
    /\ err # NoError
    /\ attempt < maxAttempts
    /\ ErrorClassifier(err) # ErrorPermanent

-----------------------------------------------------------------------------
(* The breaker a call goes through, and the goroutine's local state        *)

\* retryWithContext only knows the global breaker; retry prefers the one of
\* the operation.
contextGuard == IF HasGlobal THEN Global ELSE NoBreaker
plainGuard(op) == IF HasPerOperation THEN op ELSE contextGuard

\* Mutant: one breaker is shared by all operations.
guardOfShared(op, ctx) ==
    IF ~ctx /\ HasPerOperation THEN CHOOSE o \in Operations : TRUE
    ELSE contextGuard

guardOf(op, ctx) == IF ctx THEN contextGuard ELSE plainGuard(op)

Idle == [pc |-> "idle", op |-> CHOOSE op \in Operations : TRUE, ctx |-> FALSE,
         attempt |-> 0, lastErr |-> NoError, resultErr |-> NoError,
         err |-> NoError, ret |-> NoError,
         cancelled |-> FALSE, calls |-> 0, lateCalls |-> 0]

myBreaker(w) == guardOf(thread[w].op, thread[w].ctx)

Init ==
    /\ thread = [w \in Workers |-> Idle]
    /\ breaker = [k \in Keys |-> NewCircuitBreaker]
    /\ metrics = NewMetrics
    /\ tally = [started |-> 0, rejected |-> 0, cancelled |-> 0,
                unattempted |-> 0, wasted |-> 0, calls |-> 0]
    /\ openCalls = [k \in Keys |-> 0]

Goto(w, t) == thread' = [thread EXCEPT ![w] = t]

\* The breaker with key k, if there is one, becomes b.  The count of the
\* calls behind it covers one open period.
Through(k, b) ==
    IF k = NoBreaker THEN UNCHANGED <<breaker, openCalls>>
    ELSE /\ breaker' = [breaker EXCEPT ![k] = b]
         /\ openCalls' = IF b.state = breaker[k].state THEN openCalls
                         ELSE [openCalls EXCEPT ![k] = 0]

recordResult(b, err) == IF err = NoError THEN onSuccess(b) ELSE onFailure(b)

-----------------------------------------------------------------------------
(* retry, retryWithContext: CircuitBreaker.Call around the loop            *)

free(w) == thread[w].pc \in {"idle", "returned"}

Begin(w, op, ctx) ==
    LET k == guardOf(op, ctx) IN
    /\ free(w)
    /\ tally.started < MaxOps
    /\ k # NoBreaker => Allows(breaker[k])
    /\ Through(k, allowCall(breaker[k]))
    /\ Goto(w, [Idle EXCEPT !.pc = "loop", !.op = op, !.ctx = ctx])
    /\ tally' = [tally EXCEPT !.started = @ + 1]
    /\ UNCHANGED metrics

\* What the method returns when retry came back with err: the methods with
\* a result return the error their closure saw last, not err.
Answer(t, err) ==
    IF err = NoError \/ t.op \notin ResultOps THEN err ELSE t.resultErr

Refused(w, op, ctx) ==
    LET k == guardOf(op, ctx)
        t == [Idle EXCEPT !.pc = "returned", !.op = op, !.ctx = ctx, !.err = ErrCircuitOpen]
    IN
    /\ free(w)
    /\ tally.started < MaxOps
    /\ k # NoBreaker
    /\ ~Allows(breaker[k])
    /\ Through(k, allowCall(breaker[k]))
    /\ Goto(w, [t EXCEPT !.ret = Answer(t, ErrCircuitOpen)])
    /\ tally' = [tally EXCEPT !.started = @ + 1, !.rejected = @ + 1]
    /\ UNCHANGED metrics

\* Mutant: the result goes to the global breaker, whichever admitted the call.
ReturnToGlobal(w) ==
    LET t == thread[w] IN
    /\ t.pc = "reporting"
    /\ Through(contextGuard, recordResult(breaker[contextGuard], t.err))
    /\ Goto(w, [t EXCEPT !.pc = "returned", !.ret = Answer(t, t.err)])
    /\ tally' = IF t.err # CtxErr THEN tally
                ELSE [tally EXCEPT !.cancelled = @ + 1,
                                   !.unattempted = IF t.attempt = 0 THEN @ + 1 ELSE @]
    /\ UNCHANGED metrics

\* recordResult, then the method returns.
Return(w) ==
    LET t == thread[w]
        k == myBreaker(w)
    IN
    /\ t.pc = "reporting"
    /\ Through(k, recordResult(breaker[k], t.err))
    /\ Goto(w, [t EXCEPT !.pc = "returned", !.ret = Answer(t, t.err)])
    /\ tally' = IF t.err # CtxErr THEN tally
                ELSE [tally EXCEPT !.cancelled = @ + 1,
                                   !.unattempted = IF t.attempt = 0 THEN @ + 1 ELSE @]
    /\ UNCHANGED metrics

-----------------------------------------------------------------------------
(* The filesystem methods                                                  *)

\* The operation a method performs: without symlinks, Lstat is Stat.
target(op) == IF op = "lstat" /\ ~HasSymLinker THEN "stat" ELSE op

\* Lchown, Readlink and Symlink fail at once if the backend has no symlinks.
implemented(op) == op \notin {"lchown", "readlink", "symlink"} \/ HasSymLinker

NotImplemented(w, op, ctx) ==
    /\ free(w)
    /\ ~implemented(op)
    /\ Goto(w, [Idle EXCEPT !.pc = "returned", !.op = op, !.ctx = ctx,
                            !.err = ErrNotImplemented, !.ret = ErrNotImplemented])
    /\ UNCHANGED <<breaker, metrics, tally, openCalls>>

Method(w, op) ==
    \/ implemented(op) /\ Begin(w, target(op), FALSE)
    \/ implemented(op) /\ Refused(w, target(op), FALSE)
    \/ NotImplemented(w, op, FALSE)

ContextMethod(w, op) ==
    /\ op \in ContextOps
    /\ \/ implemented(op) /\ Begin(w, target(op), TRUE)
       \/ implemented(op) /\ Refused(w, target(op), TRUE)
       \/ NotImplemented(w, op, TRUE)

-----------------------------------------------------------------------------
(* retryWithoutCircuitBreaker, retryWithoutCircuitBreakerContext           *)

\* The loop condition fails: MaxAttempts is zero or negative.
Exhausted(w) ==
    LET t == thread[w] IN
    /\ t.pc = "loop"
    /\ t.attempt >= GetPolicy(t.op)
    /\ Goto(w, [t EXCEPT !.pc = "failing"])
    /\ UNCHANGED <<breaker, metrics, tally, openCalls>>

\* case <-ctx.Done() at the head of the loop.
SeeCancelled(w) ==
    LET t == thread[w] IN
    /\ t.pc = "loop"
    /\ t.attempt < GetPolicy(t.op)
    /\ t.cancelled
    /\ Goto(w, [t EXCEPT !.pc = "reporting", !.err = CtxErr])
    /\ UNCHANGED <<breaker, metrics, tally, openCalls>>

\* Mutant: the context is not checked at the head of the loop.
AttemptUnchecked(w) ==
    LET t == thread[w]
        isRetry == t.attempt > 0
    IN
    /\ t.pc = "loop"
    /\ t.attempt < GetPolicy(t.op)
    /\ metrics' = RecordAttempt(metrics, t.op, isRetry)
    /\ Goto(w, [t EXCEPT !.pc = IF isRetry THEN "backoff" ELSE "calling"])
    /\ UNCHANGED <<breaker, tally, openCalls>>

\* Mutant: only first attempts are recorded.
AttemptRetriesUncounted(w) ==
    LET t == thread[w]
        isRetry == t.attempt > 0
    IN
    /\ t.pc = "loop"
    /\ t.attempt < GetPolicy(t.op)
    /\ ~t.cancelled
    /\ metrics' = IF isRetry THEN metrics ELSE RecordAttempt(metrics, t.op, isRetry)
    /\ Goto(w, [t EXCEPT !.pc = IF isRetry THEN "backoff" ELSE "calling"])
    /\ UNCHANGED <<breaker, tally, openCalls>>

\* Mutant: isRetry is attempt > 1.
AttemptRetryOffByOne(w) ==
    LET t == thread[w]
    IN
    /\ t.pc = "loop"
    /\ t.attempt < GetPolicy(t.op)
    /\ ~t.cancelled
    /\ metrics' = RecordAttempt(metrics, t.op, t.attempt > 1)
    /\ Goto(w, [t EXCEPT !.pc = IF t.attempt > 0 THEN "backoff" ELSE "calling"])
    /\ UNCHANGED <<breaker, tally, openCalls>>

\* The attempt is recorded before the backoff.
Attempt(w) ==
    LET t == thread[w]
        isRetry == t.attempt > 0
    IN
    /\ t.pc = "loop"
    /\ t.attempt < GetPolicy(t.op)
    /\ ~t.cancelled
    /\ metrics' = RecordAttempt(metrics, t.op, isRetry)
    /\ Goto(w, [t EXCEPT !.pc = IF isRetry THEN "backoff" ELSE "calling"])
    /\ UNCHANGED <<breaker, tally, openCalls>>

\* Mutant: the backoff of a context call waits for the context alone.
WakeUpPlainOnly(w) ==
    LET t == thread[w] IN
    /\ t.pc = "backoff"
    /\ ~t.ctx
    /\ Goto(w, [t EXCEPT !.pc = "calling"])
    /\ UNCHANGED <<breaker, metrics, tally, openCalls>>

\* time.Sleep returns, or the timer wins the select.
WakeUp(w) ==
    LET t == thread[w] IN
    /\ t.pc = "backoff"
    /\ Goto(w, [t EXCEPT !.pc = "calling"])
    /\ UNCHANGED <<breaker, metrics, tally, openCalls>>

\* ctx.Done() wins the select.
CancelledInBackoff(w) ==
    LET t == thread[w] IN
    /\ t.pc = "backoff"
    /\ t.cancelled
    /\ Goto(w, [t EXCEPT !.pc = "reporting", !.err = CtxErr])
    /\ tally' = [tally EXCEPT !.wasted = @ + 1]
    /\ UNCHANGED <<breaker, metrics, openCalls>>

\* Mutant: the error of the last call is not stored (err := shadows it).
AfterCallForgets(t, err) ==
    LET u == [t EXCEPT !.calls = @ + 1,
                       !.lateCalls = IF t.cancelled THEN @ + 1 ELSE @,
                       !.resultErr = err]
    IN  IF err = NoError
        THEN [u EXCEPT !.pc = "succeeding"]
        ELSE IF shouldRetry(err, t.attempt + 1, GetPolicy(t.op))
             THEN [u EXCEPT !.pc = "loop", !.attempt = @ + 1]
             ELSE [u EXCEPT !.pc = "failing"]

\* The local state after fn returned err.
AfterCall(t, err) ==
    LET u == [t EXCEPT !.calls = @ + 1,
                       !.lateCalls = IF t.cancelled THEN @ + 1 ELSE @,
                       !.resultErr = err]
    IN  IF err = NoError
        THEN [u EXCEPT !.pc = "succeeding"]
        ELSE IF shouldRetry(err, t.attempt + 1, GetPolicy(t.op))
             THEN [u EXCEPT !.pc = "loop", !.attempt = @ + 1, !.lastErr = err]
             ELSE [u EXCEPT !.pc = "failing", !.lastErr = err]

\* err := fn()
Invoke(w) ==
    LET k == myBreaker(w) IN
    /\ thread[w].pc = "calling"
    /\ \E err \in Errors \cup {NoError} : Goto(w, AfterCall(thread[w], err))
    /\ tally' = [tally EXCEPT !.calls = @ + 1]
    /\ openCalls' = IF k # NoBreaker /\ breaker[k].state = StateOpen
                    THEN [openCalls EXCEPT ![k] = @ + 1] ELSE openCalls
    /\ UNCHANGED <<breaker, metrics>>

Succeed(w) ==
    LET t == thread[w] IN
    /\ t.pc = "succeeding"
    /\ metrics' = RecordSuccess(metrics, t.op)
    /\ Goto(w, [t EXCEPT !.pc = "reporting", !.err = NoError])
    /\ UNCHANGED <<breaker, tally, openCalls>>

\* Mutant: the failure of a cancelled operation is not recorded.
FailUncounted(w) ==
    LET t == thread[w] IN
    /\ t.pc = "failing"
    /\ metrics' = IF t.cancelled THEN metrics
                  ELSE RecordFailure(metrics, t.op, ErrorClassifier(t.lastErr))
    /\ Goto(w, [t EXCEPT !.pc = "reporting", !.err = t.lastErr])
    /\ UNCHANGED <<breaker, tally, openCalls>>

Fail(w) ==
    LET t == thread[w] IN
    /\ t.pc = "failing"
    /\ metrics' = RecordFailure(metrics, t.op, ErrorClassifier(t.lastErr))
    /\ Goto(w, [t EXCEPT !.pc = "reporting", !.err = t.lastErr])
    /\ UNCHANGED <<breaker, tally, openCalls>>

-----------------------------------------------------------------------------
(* The environment                                                         *)

\* The caller's context is cancelled, or its deadline passes.
Cancel(w) ==
    /\ thread[w].ctx /\ ~thread[w].cancelled
    /\ thread[w].pc \notin {"idle", "reporting", "returned"}
    /\ Goto(w, [thread[w] EXCEPT !.cancelled = TRUE])
    /\ UNCHANGED <<breaker, metrics, tally, openCalls>>

Tick ==
    /\ breaker' = [k \in Keys |-> Age(breaker[k])]
    /\ UNCHANGED <<thread, metrics, tally, openCalls>>

Step(w) ==
    \/ Exhausted(w)
    \/ SeeCancelled(w)
    \/ Attempt(w)
    \/ WakeUp(w)
    \/ CancelledInBackoff(w)
    \/ Invoke(w)
    \/ Succeed(w)
    \/ Fail(w)
    \/ Return(w)

Next ==
    \/ \E w \in Workers, op \in Operations : Method(w, op) \/ ContextMethod(w, op)
    \/ \E w \in Workers : Step(w) \/ Cancel(w)
    \/ Tick

Spec == Init /\ [][Next]_vars

\* Goroutines run, timers fire, and the backend answers every call.
FairSpec == Spec /\ \A w \in Workers : WF_vars(Step(w))

-----------------------------------------------------------------------------
(* Properties that hold.                                                   *)

TypeOK ==
    /\ thread \in [Workers ->
           [pc : {"idle", "loop", "backoff", "calling", "succeeding", "failing",
                  "reporting", "returned"},
            op : Operations, ctx : BOOLEAN, attempt : Nat,
            lastErr : Errors \cup {NoError}, resultErr : Errors \cup {NoError},
            err : Error, ret : Error,
            cancelled : BOOLEAN, calls : Nat, lateCalls : Nat]]
    /\ breaker \in [Keys -> Breakers]
    /\ DOMAIN metrics.OperationMetrics \subseteq Operations
    /\ openCalls \in [Keys -> Nat]

returned(w) == thread[w].pc = "returned"
invoked(w) == thread[w].calls > 0
NonPositive(n) == n <= 0

\* The error a method returns tells what happened to the file: after a call of
\* the backend it is nil exactly when the last call succeeded, and a method
\* without a result never returns nil unless the backend was called.
\* (For the methods with a result see GivenUpIsReported.  A policy without
\* attempts makes a method return nil for nothing.)
AnswerIsHonest ==
    \A w \in Workers : returned(w) =>
        /\ invoked(w) => (thread[w].ret = NoError <=> thread[w].resultErr = NoError)
        /\ \/ invoked(w)
           \/ thread[w].op \in ResultOps
           \/ NonPositive(GetPolicy(thread[w].op))
           \/ thread[w].ret \in {ErrCircuitOpen, CtxErr, ErrNotImplemented}

\* The loop stops for a reason and only then: a permanent error is never
\* followed by another call, and an operation is recorded as failed only
\* after a permanent error or after exactly MaxAttempts calls.
RetryBudget ==
    \A w \in Workers :
        LET t == thread[w]
            budget == IF NonPositive(GetPolicy(t.op)) THEN 0 ELSE GetPolicy(t.op)
        IN  /\ t.calls <= budget
            /\ t.lastErr = ErrorPermanent => t.pc \in {"failing", "reporting", "returned"}
            /\ t.pc = "failing" => t.lastErr = ErrorPermanent \/ t.calls = budget

\* A cancelled context stops the loop: whatever the moment of the
\* cancellation, the backend is called at most once after it (the check at the
\* head of the loop was already passed, or the timer won the select).
OneCallAfterCancel == \A w \in Workers : thread[w].lateCalls <= 1

\* An open breaker lets no new operation through, but the loops admitted
\* before it opened go on retrying behind it.  They add up to no more than the
\* attempts of the other goroutines.
MaxBudget == Max({0, DefaultPolicy} \cup {GetPolicy(op) : op \in Operations})

OpenBoundsTraffic ==
    \A k \in Keys : openCalls[k] <= (Cardinality(Workers) - 1) * MaxBudget

\* A per-operation breaker answers for its own operation only: it leaves the
\* closed state no sooner than FailureThreshold operations of that kind have
\* been recorded as failed, whatever happens to the others.  The global one
\* also counts the operations given up for their context as failures.
OpenForItsOwnFailures ==
    /\ \A op \in Operations : breaker[op].state # StateClosed =>
           /\ op \in DOMAIN metrics.OperationMetrics
           /\ metrics.OperationMetrics[op].Failures >= FailureThreshold
    /\ breaker[Global].state # StateClosed =>
           metrics.Total.Failures + tally.cancelled >= FailureThreshold

Busy(pcs) == Cardinality({w \in Workers : thread[w].pc \in pcs})

\* Every operation is counted once: as a success, as a failure, or not at all
\* because it was refused by a breaker or given up for its context.
OperationsAccounted ==
    tally.started =
        metrics.Total.Successes + metrics.Total.Failures
        + tally.rejected + tally.cancelled
        + Busy({"loop", "backoff", "calling", "succeeding", "failing"})
        + Cardinality({w \in Workers : thread[w].pc = "reporting" /\ thread[w].err = CtxErr})

\* TotalAttempts counts the calls of the backend, plus the attempts that were
\* recorded before a backoff that a cancellation cut short.
AttemptsAccounted ==
    metrics.Total.Attempts = tally.calls + tally.wasted + Busy({"backoff", "calling"})

\* An attempt that is not a retry is the first of an operation that got past
\* the breaker: the difference is the operations that have not made theirs
\* (for policies that allow an attempt).
FirstAttemptsAccounted ==
    tally.started - tally.rejected - (metrics.Total.Attempts - metrics.Total.Retries) =
        tally.unattempted
        + Cardinality({w \in Workers :
              /\ thread[w].attempt = 0
              /\ \/ thread[w].pc = "loop"
                 \/ thread[w].pc = "reporting" /\ thread[w].err = CtxErr})

\* The totals are the sums of the per-operation metrics, also while several
\* goroutines are between two updates (for policies that allow an attempt).
counters == {"Attempts", "Retries", "Successes", "Failures"}

recorded(m, op, counter) ==
    IF op \in DOMAIN m.OperationMetrics THEN m.OperationMetrics[op][counter] ELSE 0

SumOf(counter) == SumFunction([op \in Operations |-> recorded(metrics, op, counter)])

TotalsAreSums ==
    /\ \A counter \in counters : metrics.Total[counter] = SumOf(counter)
    /\ metrics.Total.Failures = SumFunction(metrics.ErrorsByClass)

\* The breaker that has admitted w's call and will be told its result.
held(w) == IF free(w) THEN NoBreaker ELSE myBreaker(w)

Array == INSTANCE BreakerArray
             WITH Callers <- Workers,
                  Nobody <- NoBreaker,
                  behind <- [w \in Workers |-> held(w)]

\* The loops use the breakers as BreakerArray says, which is what
\* PerOperationCircuitBreaker implements: each result goes to the breaker that
\* admitted the operation, whatever the others do meanwhile.
UsesArray == Array!Spec

\* Every operation returns to its caller.
EveryOperationReturns ==
    \A w \in Workers : ~free(w) ~> returned(w)

-----------------------------------------------------------------------------
(* What the documentation and the tests say, and the code does not do.     *)

\* BEST_PRACTICES.md:409, "err := fs.Open(...); if errors.Is(err,
\* retryfs.ErrCircuitOpen)", and README.md:210, "Retries will respect context
\* deadline" of OpenContext: a call that was refused or given up says so.
GivenUpIsReported ==
    \A w \in Workers : returned(w) /\ thread[w].err \in {ErrCircuitOpen, CtxErr}
                           => thread[w].ret = thread[w].err

\* retryfs.go:80, "WithPerOperationCircuitBreaker enables per-operation circuit
\* breaker protection": no operation is let through while its breaker refuses.
PerOperationProtects ==
    [][\A w \in Workers, op \in Operations, ctx \in BOOLEAN :
           HasPerOperation /\ Begin(w, op, ctx) => Allows(breaker[op])]_vars
============================================================================
